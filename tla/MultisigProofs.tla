--------------------------- MODULE MultisigProofs ---------------------------
(***************************************************************************)
(* Proofs about the multisig wallet, for every set of addresses, every     *)
(* limit on signers, and any number of proposals and nested sends.         *)
(*                                                                         *)
(* A failing send brings back an old state, so the inductive invariant     *)
(* asks of every state kept in a frame what it asks of the current one     *)
(* (Good).  It also says which messages are under way (GoodFrames): all    *)
(* but the innermost go to other actors, and while the innermost is one of *)
(* the wallet's own methods the state is still the one at the send, so the *)
(* method runs with the parameters that were approved.                     *)
(***************************************************************************)
EXTENDS Multisig, FiniteSetTheorems, SequenceTheorems, TLAPS

Good(s) == s \in State /\ SoundState(s) /\ Reachable(s)

Relay(f) ==
  /\ f.st.PendingTxns[f.id] # NoTxn
  /\ f.st.PendingTxns[f.id].Msg.Method = f.Method
  /\ thresholdMet(f.st.PendingTxns[f.id], f.st)

GoodFrames(t) ==
  /\ t \in Seq(Frame)
  /\ \A i \in 1 .. Len(t) : Good(t[i].st) /\ Relay(t[i])
  /\ \A i \in 2 .. Len(t) : t[i].Method = "Send"

Inv ==
  /\ Good(st)
  /\ balance \in Nat
  /\ epoch \in Nat
  /\ GoodFrames(stack)
  /\ stack # <<>> /\ stack[1].Method # "Send" => st = stack[1].st

-----------------------------------------------------------------------------
(* Lemmas.                                                                 *)

\* Signer sets are finite, so their sizes are numbers.
LEMMA SignersFinite ==
  ASSUME NEW S \in SUBSET Addresses
  PROVE  IsFiniteSet(S) /\ Cardinality(S) \in Nat
BY MultisigAssumption, FS_Subset, FS_CardinalityType

\* What pushing a frame gives.
LEMMA Push ==
  ASSUME NEW f, NEW t, GoodFrames(t), f \in Frame, Good(f.st), Relay(f),
         t # <<>> => t[1].Method = "Send"
  PROVE  /\ GoodFrames(<<f>> \o t)
         /\ <<f>> \o t # <<>>
         /\ (<<f>> \o t)[1] = f
<1> DEFINE u == <<f>> \o t
<1>1. /\ t \in Seq(Frame)
      /\ \A i \in 1 .. Len(t) : Good(t[i].st) /\ Relay(t[i])
      /\ \A i \in 2 .. Len(t) : t[i].Method = "Send"
  BY DEF GoodFrames
<1>2. <<f>> \in Seq(Frame) /\ Len(<<f>>) = 1 /\ <<f>>[1] = f
  OBVIOUS
<1>3. /\ u \in Seq(Frame)
      /\ Len(u) = 1 + Len(t)
      /\ \A i \in 1 .. Len(u) : u[i] = IF i <= 1 THEN <<f>>[i] ELSE t[i - 1]
  BY <1>1, <1>2, ConcatProperties
<1>4. Len(t) \in Nat
  BY <1>1
<1>5. u[1] = f /\ u # <<>>
  BY <1>2, <1>3, <1>4
<1> HIDE DEF u
<1>6. ASSUME NEW i \in 1 .. Len(u)
      PROVE  Good(u[i].st) /\ Relay(u[i]) /\ (i > 1 => u[i].Method = "Send")
  <2>1. CASE i = 1
    BY <2>1, <1>5
  <2>2. CASE i > 1
    <3>1. i - 1 \in 1 .. Len(t) /\ u[i] = t[i - 1]
      BY <2>2, <1>3, <1>4
    <3>2. i - 1 = 1 => t # <<>>
      BY <3>1
    <3> QED
      BY <3>1, <3>2, <1>1, <1>4
  <2> QED
    BY <2>1, <2>2, <1>3, <1>4
<1>7. GoodFrames(u)
  BY <1>3, <1>4, <1>6 DEF GoodFrames
<1> QED
  BY <1>5, <1>7 DEF u

\* What popping a frame leaves.
LEMMA Pop ==
  ASSUME NEW t, GoodFrames(t), t # <<>>
  PROVE  /\ Head(t) = t[1] /\ t[1] \in Frame /\ Good(t[1].st) /\ Relay(t[1])
         /\ GoodFrames(Tail(t))
         /\ Tail(t) # <<>> => Tail(t)[1].Method = "Send"
<1>1. /\ t \in Seq(Frame)
      /\ \A i \in 1 .. Len(t) : Good(t[i].st) /\ Relay(t[i])
      /\ \A i \in 2 .. Len(t) : t[i].Method = "Send"
  BY DEF GoodFrames
<1>2. Len(t) \in Nat /\ Len(t) >= 1
  BY <1>1, EmptySeq
<1>3. Head(t) = t[1] /\ t[1] \in Frame
  BY <1>1, <1>2
<1>4. /\ Tail(t) \in Seq(Frame)
      /\ Len(Tail(t)) = Len(t) - 1
      /\ \A i \in 1 .. Len(Tail(t)) : Tail(t)[i] = t[i + 1]
  BY <1>1, <1>2, HeadTailProperties
<1>5. \A i \in 1 .. Len(Tail(t)) :
        i + 1 \in 2 .. Len(t) /\ i + 1 \in 1 .. Len(t) /\ Tail(t)[i] = t[i + 1]
  BY <1>2, <1>4
<1>6. GoodFrames(Tail(t))
  BY <1>1, <1>2, <1>4, <1>5 DEF GoodFrames
<1>7. Tail(t) # <<>> => 1 \in 1 .. Len(Tail(t))
  BY <1>2, <1>4, EmptySeq
<1> QED
  BY <1>1, <1>2, <1>3, <1>5, <1>6, <1>7

\* Deleting a transaction keeps a state good.
LEMMA DeleteGood ==
  ASSUME NEW s, Good(s), NEW id \in TxnIDs
  PROVE  Good([s EXCEPT !.PendingTxns = [s.PendingTxns EXCEPT ![id] = NoTxn]])
<1> DEFINE txns == [s.PendingTxns EXCEPT ![id] = NoTxn]
           n == [s EXCEPT !.PendingTxns = txns]
<1>1. s \in State /\ SoundState(s) /\ Reachable(s)
  BY DEF Good
<1>2. /\ txns \in [TxnIDs -> Txn \cup {NoTxn}]
      /\ \A i \in TxnIDs : txns[i] = IF i = id THEN NoTxn ELSE s.PendingTxns[i]
  BY <1>1 DEF State
<1> HIDE DEF txns
<1>3. /\ n \in State /\ n.PendingTxns = txns
      /\ n.Signers = s.Signers /\ n.NumApprovalsThreshold = s.NumApprovalsThreshold
      /\ n.NextTxnID = s.NextTxnID
  BY <1>1, <1>2 DEF State
<1> HIDE DEF n
<1>4. SoundState(n)
  BY <1>1, <1>2, <1>3 DEF SoundState, Pending
<1>5. Reachable(n)
  BY <1>1, <1>3 DEF Reachable
<1>6. Good(n)
  BY <1>3, <1>4, <1>5 DEF Good
<1> QED
  BY <1>6 DEF n, txns

\* Purging the approvals of an address leaves, of each transaction, the
\* message and the other approvals, and no transaction without any.
LEMMA PurgeProperties ==
  ASSUME NEW s \in State, NEW a \in Addresses
  PROVE  /\ PurgeApprovals(s.PendingTxns, a) \in [TxnIDs -> Txn \cup {NoTxn}]
         /\ \A id \in TxnIDs :
              PurgeApprovals(s.PendingTxns, a)[id] # NoTxn =>
                /\ s.PendingTxns[id] # NoTxn
                /\ Approvers(s.PendingTxns[id]) # {a}
                /\ Approvers(PurgeApprovals(s.PendingTxns, a)[id])
                     = Approvers(s.PendingTxns[id]) \ {a}
<1> DEFINE txns == s.PendingTxns
           Purged(txn) == [txn EXCEPT !.Approved = [txn.Approved EXCEPT ![a] = 0]]
<1>1. txns \in [TxnIDs -> Txn \cup {NoTxn}]
  BY DEF State
<1>2. ASSUME NEW txn \in Txn
      PROVE  Purged(txn) \in Txn /\ Approvers(Purged(txn)) = Approvers(txn) \ {a}
  <2>1. Purged(txn) \in Txn
    BY DEF Txn
  <2>2. \A b \in Addresses : Purged(txn).Approved[b] = IF b = a THEN 0 ELSE txn.Approved[b]
    BY DEF Txn
  <2> QED
    BY <2>1, <2>2 DEF Approvers
<1>3. \A id \in TxnIDs : PurgeApprovals(txns, a)[id] =
        IF txns[id] = NoTxn \/ Approvers(txns[id]) = {a} THEN NoTxn ELSE Purged(txns[id])
  BY DEF PurgeApprovals
<1>4. PurgeApprovals(txns, a) = [id \in TxnIDs |-> PurgeApprovals(txns, a)[id]]
  BY DEF PurgeApprovals
<1> HIDE DEF Purged
<1>5. \A id \in TxnIDs : PurgeApprovals(txns, a)[id] \in Txn \cup {NoTxn}
  BY <1>1, <1>2, <1>3
<1> QED
  BY <1>1, <1>2, <1>3, <1>4, <1>5

\* AddSigner keeps a state good.
LEMMA AddGood ==
  ASSUME NEW s, Good(s), NEW a \in Addresses \ s.Signers, NEW increase \in BOOLEAN,
         Cardinality(s.Signers) < SignersMax
  PROVE  Good([s EXCEPT !.Signers = s.Signers \cup {a},
                        !.NumApprovalsThreshold = IF increase
                          THEN s.NumApprovalsThreshold + 1 ELSE s.NumApprovalsThreshold])
<1> DEFINE signers == s.Signers \cup {a}
           threshold == IF increase THEN s.NumApprovalsThreshold + 1
                        ELSE s.NumApprovalsThreshold
           n == [s EXCEPT !.Signers = signers, !.NumApprovalsThreshold = threshold]
<1>1. s \in State /\ SoundState(s) /\ Reachable(s)
  BY DEF Good
<1>2. signers \in SUBSET Addresses /\ s.Signers \in SUBSET Addresses /\ threshold \in Nat
  BY <1>1 DEF State
<1>3. Cardinality(signers) = Cardinality(s.Signers) + 1 /\ Cardinality(s.Signers) \in Nat
  BY <1>2, SignersFinite, FS_AddElement
<1>4. threshold \in 1 .. Cardinality(s.Signers) + 1
  BY <1>1, <1>3 DEF Reachable
<1> HIDE DEF threshold
<1>5. /\ n \in State /\ n.Signers = signers /\ n.NumApprovalsThreshold = threshold
      /\ n.PendingTxns = s.PendingTxns /\ n.NextTxnID = s.NextTxnID
  BY <1>1, <1>2 DEF State
<1> HIDE DEF n
<1>6. SoundState(n)
  BY <1>1, <1>5 DEF SoundState, Pending
<1>7. Reachable(n)
  BY <1>3, <1>4, <1>5, MultisigAssumption DEF Reachable
<1>8. Good(n)
  BY <1>5, <1>6, <1>7 DEF Good
<1> QED
  BY <1>8 DEF n, threshold

\* Replacing the signers and the threshold, and purging the approvals of the
\* one who leaves, keeps a state good when the new threshold can be reached.
LEMMA ReplaceGood ==
  ASSUME NEW s, Good(s), NEW a \in Addresses, NEW signers \in SUBSET Addresses,
         s.Signers \ {a} \subseteq signers, NEW threshold \in 1 .. Cardinality(signers),
         Cardinality(signers) <= SignersMax
  PROVE  Good([s EXCEPT !.Signers = signers, !.NumApprovalsThreshold = threshold,
                        !.PendingTxns = PurgeApprovals(s.PendingTxns, a)])
<1> DEFINE txns == PurgeApprovals(s.PendingTxns, a)
           n == [s EXCEPT !.Signers = signers, !.NumApprovalsThreshold = threshold,
                          !.PendingTxns = txns]
<1>1. s \in State /\ SoundState(s) /\ Reachable(s)
  BY DEF Good
<1>2. /\ txns \in [TxnIDs -> Txn \cup {NoTxn}]
      /\ \A id \in TxnIDs : txns[id] # NoTxn =>
           /\ s.PendingTxns[id] # NoTxn
           /\ Approvers(s.PendingTxns[id]) # {a}
           /\ Approvers(txns[id]) = Approvers(s.PendingTxns[id]) \ {a}
  BY <1>1, PurgeProperties
<1>3. threshold \in Nat
  BY SignersFinite
<1> HIDE DEF txns
<1>4. /\ n \in State /\ n.Signers = signers /\ n.NumApprovalsThreshold = threshold
      /\ n.PendingTxns = txns /\ n.NextTxnID = s.NextTxnID
  BY <1>1, <1>2, <1>3 DEF State
<1> HIDE DEF n
<1>5. ASSUME NEW id \in Pending(n)
      PROVE  /\ id < n.NextTxnID /\ Approvers(n.PendingTxns[id]) # {}
             /\ Approvers(n.PendingTxns[id]) \subseteq n.Signers
  <2>1. /\ id \in Pending(s)
        /\ Approvers(s.PendingTxns[id]) # {a}
        /\ Approvers(txns[id]) = Approvers(s.PendingTxns[id]) \ {a}
    BY <1>2, <1>4 DEF Pending
  <2>2. /\ id < s.NextTxnID
        /\ Approvers(s.PendingTxns[id]) # {}
        /\ Approvers(s.PendingTxns[id]) \subseteq s.Signers
    BY <1>1, <2>1 DEF SoundState
  <2> QED
    BY <1>4, <2>1, <2>2
<1>6. SoundState(n)
  BY <1>5 DEF SoundState
<1>7. Reachable(n)
  BY <1>4 DEF Reachable
<1>8. Good(n)
  BY <1>4, <1>6, <1>7 DEF Good
<1> QED
  BY <1>8 DEF n, txns

\* Changing the threshold within the number of signers keeps a state good.
LEMMA ThresholdGood ==
  ASSUME NEW s, Good(s), NEW threshold \in 1 .. Cardinality(s.Signers)
  PROVE  Good([s EXCEPT !.NumApprovalsThreshold = threshold])
<1> DEFINE n == [s EXCEPT !.NumApprovalsThreshold = threshold]
<1>1. s \in State /\ SoundState(s) /\ Reachable(s)
  BY DEF Good
<1>2. threshold \in Nat
  <2>1. s.Signers \in SUBSET Addresses
    BY <1>1 DEF State
  <2> QED
    BY <2>1, SignersFinite
<1>3. /\ n \in State /\ n.Signers = s.Signers /\ n.NumApprovalsThreshold = threshold
      /\ n.PendingTxns = s.PendingTxns /\ n.NextTxnID = s.NextTxnID
  BY <1>1, <1>2 DEF State
<1> HIDE DEF n
<1>4. SoundState(n) /\ Reachable(n)
  BY <1>1, <1>3 DEF SoundState, Pending, Reachable
<1>5. Good(n)
  BY <1>3, <1>4 DEF Good
<1> QED
  BY <1>5 DEF n

\* A lock-up keeps a state good.
LEMMA LockGood ==
  ASSUME NEW s, Good(s), NEW lock \in Lock
  PROVE  Good(SetLocked(s, lock))
<1> DEFINE n == SetLocked(s, lock)
<1>1. s \in State /\ SoundState(s) /\ Reachable(s)
  BY DEF Good
<1>2. /\ n \in State /\ n.Signers = s.Signers
      /\ n.NumApprovalsThreshold = s.NumApprovalsThreshold
      /\ n.PendingTxns = s.PendingTxns /\ n.NextTxnID = s.NextTxnID
  BY <1>1 DEF State, SetLocked, Lock
<1> HIDE DEF n
<1>3. SoundState(n) /\ Reachable(n)
  BY <1>1, <1>2 DEF SoundState, Pending, Reachable
<1> QED
  BY <1>2, <1>3 DEF Good, n

\* Storing a transaction approved by signers keeps a state good.
LEMMA StoreGood ==
  ASSUME NEW s, Good(s), NEW id \in TxnIDs, NEW txn \in Txn, NEW next \in Nat,
         id < next, s.NextTxnID <= next,
         Approvers(txn) # {}, Approvers(txn) \subseteq s.Signers
  PROVE  LET n == [s EXCEPT !.NextTxnID = next,
                            !.PendingTxns = [s.PendingTxns EXCEPT ![id] = txn]]
         IN  /\ Good(n)
             /\ n.PendingTxns[id] = txn
             /\ n.NumApprovalsThreshold = s.NumApprovalsThreshold
<1> DEFINE txns == [s.PendingTxns EXCEPT ![id] = txn]
           n == [s EXCEPT !.NextTxnID = next, !.PendingTxns = txns]
<1>1. s \in State /\ SoundState(s) /\ Reachable(s)
  BY DEF Good
<1>2. /\ txns \in [TxnIDs -> Txn \cup {NoTxn}]
      /\ \A i \in TxnIDs : txns[i] = IF i = id THEN txn ELSE s.PendingTxns[i]
  BY <1>1 DEF State
<1> HIDE DEF txns
<1>3. /\ n \in State /\ n.PendingTxns = txns /\ n.NextTxnID = next
      /\ n.Signers = s.Signers /\ n.NumApprovalsThreshold = s.NumApprovalsThreshold
  BY <1>1, <1>2 DEF State
<1> HIDE DEF n
<1>4. ASSUME NEW i \in Pending(n)
      PROVE  /\ i < n.NextTxnID /\ Approvers(n.PendingTxns[i]) # {}
             /\ Approvers(n.PendingTxns[i]) \subseteq n.Signers
  <2>1. i \in TxnIDs /\ i \in Int /\ s.NextTxnID \in Int
    BY <1>1 DEF Pending, TxnIDs, State
  <2>2. CASE i = id
    BY <1>2, <1>3, <2>1, <2>2
  <2>3. CASE i # id
    <3>1. i \in Pending(s) /\ n.PendingTxns[i] = s.PendingTxns[i]
      BY <1>2, <1>3, <2>1, <2>3 DEF Pending
    <3>2. /\ i < s.NextTxnID /\ Approvers(s.PendingTxns[i]) # {}
          /\ Approvers(s.PendingTxns[i]) \subseteq s.Signers
      BY <1>1, <3>1 DEF SoundState
    <3> QED
      BY <1>3, <2>1, <3>1, <3>2
  <2> QED
    BY <2>2, <2>3
<1>5. SoundState(n) /\ Reachable(n)
  BY <1>1, <1>3, <1>4 DEF SoundState, Reachable
<1>6. Good(n) /\ n.PendingTxns[id] = txn
  BY <1>2, <1>3, <1>5 DEF Good
<1> QED
  BY <1>3, <1>6 DEF n, txns

\* A new transaction has no approvals; an approval adds its address to them.
LEMMA TxnProperties ==
  /\ \A msg \in Msg :
       NewTxn(msg) \in Txn /\ NewTxn(msg).Msg = msg /\ Approvers(NewTxn(msg)) = {}
  /\ \A txn \in Txn, a \in Addresses :
       /\ AppendApproval(txn, a) \in Txn
       /\ AppendApproval(txn, a).Msg = txn.Msg
       /\ Approvers(AppendApproval(txn, a)) = Approvers(txn) \cup {a}
<1>1. ASSUME NEW msg \in Msg
      PROVE  NewTxn(msg) \in Txn /\ NewTxn(msg).Msg = msg /\ Approvers(NewTxn(msg)) = {}
  BY DEF NewTxn, Txn, Approvers
<1>2. ASSUME NEW txn \in Txn, NEW a \in Addresses
      PROVE  /\ AppendApproval(txn, a) \in Txn
             /\ AppendApproval(txn, a).Msg = txn.Msg
             /\ Approvers(AppendApproval(txn, a)) = Approvers(txn) \cup {a}
  <2> DEFINE approved == [txn.Approved EXCEPT ![a] = txn.Last + 1]
             new == [txn EXCEPT !.Approved = approved, !.Last = txn.Last + 1]
  <2>1. txn.Last \in Nat /\ txn.Approved \in [Addresses -> Nat]
    BY DEF Txn
  <2>2. /\ approved \in [Addresses -> Nat]
        /\ \A b \in Addresses : approved[b] = IF b = a THEN txn.Last + 1 ELSE txn.Approved[b]
    BY <2>1
  <2> HIDE DEF approved
  <2>3. new \in Txn /\ new.Msg = txn.Msg /\ new.Approved = approved
    BY <2>1, <2>2 DEF Txn
  <2> HIDE DEF new
  <2>4. Approvers(new) = Approvers(txn) \cup {a}
    BY <2>1, <2>2, <2>3 DEF Approvers
  <2> QED
    BY <2>3, <2>4 DEF AppendApproval, new, approved
<1> QED
  BY <1>1, <1>2

\* What a message carries is an amount, and the parameters of the wallet's own
\* methods have their types.
LEMMA MsgProperties ==
  ASSUME NEW msg \in Msg
  PROVE  /\ msg.Value \in Nat
         /\ msg.Method = "AddSigner" => msg.Signer \in Addresses /\ msg.Increase \in BOOLEAN
         /\ msg.Method = "RemoveSigner" => msg.Signer \in Addresses /\ msg.Decrease \in BOOLEAN
         /\ msg.Method = "SwapSigner" => msg.From \in Addresses /\ msg.To \in Addresses
         /\ msg.Method = "LockBalance" => msg.Lock \in Lock
<1>1. Values \subseteq Nat /\ Locks \subseteq Lock
  BY MultisigAssumption
<1>2. CASE msg \in [Method : {"Send"}, Value : Values]
  BY <1>1, <1>2
<1>3. CASE msg \in [Method : {"AddSigner"}, Value : {0}, Signer : Addresses, Increase : BOOLEAN]
  BY <1>3
<1>4. CASE msg \in [Method : {"RemoveSigner"}, Value : {0}, Signer : Addresses, Decrease : BOOLEAN]
  BY <1>4
<1>5. CASE msg \in [Method : {"SwapSigner"}, Value : {0}, From : Addresses, To : Addresses]
  BY <1>5
<1>6. CASE msg \in [Method : {"ChangeNumApprovalsThreshold"}, Value : {0},
                    NewThreshold : 0 .. SignersMax + 1]
  BY <1>6
<1>7. CASE msg \in [Method : {"LockBalance"}, Value : {0}, Lock : Locks]
  BY <1>1, <1>7
<1> QED
  BY <1>2, <1>3, <1>4, <1>5, <1>6, <1>7 DEF Msg

\* Executing an approved transaction, or leaving it pending, keeps the invariant.
LEMMA ExecuteInv ==
  ASSUME Inv, NEW caller, MayCall(caller),
         NEW s, Good(s), NEW id \in TxnIDs, s.PendingTxns[id] \in Txn,
         executeTransactionIfApproved(s, id)
  PROVE  Inv'
<1> DEFINE txn == s.PendingTxns[id]
           f == [id |-> id, Method |-> txn.Msg.Method, st |-> s, balance |-> balance]
<1>1. st' = s /\ epoch' = epoch
  BY DEF executeTransactionIfApproved
<1>2. /\ balance \in Nat /\ epoch \in Nat /\ GoodFrames(stack)
  BY DEF Inv
<1>3. stack # <<>> => stack[1].Method = "Send"
  BY <1>2, Pop DEF MayCall
<1>4. CASE UNCHANGED <<balance, stack>>
  BY <1>1, <1>2, <1>3, <1>4 DEF Inv
<1>5. CASE /\ thresholdMet(txn, s)
           /\ assertAvailable(txn.Msg.Value)
           /\ balance' = balance - txn.Msg.Value
           /\ stack' = <<f>> \o stack
  <2>1. txn.Msg \in Msg
    BY DEF Txn
  <2>2. balance' \in Nat
    <3>1. txn.Msg.Value \in Nat /\ balance >= txn.Msg.Value
      BY <1>5, <2>1, MsgProperties DEF assertAvailable
    <3> QED
      BY <1>2, <1>5, <3>1
  <2>3. f \in Frame
    BY <1>2, <2>1 DEF Frame, Good
  <2>4. f.st = s /\ f.id = id /\ f.Method = txn.Msg.Method
    OBVIOUS
  <2> HIDE DEF f
  <2>5. Relay(f)
    <3>1. txn # NoTxn
      BY MultisigAssumption
    <3> QED
      BY <1>5, <2>4, <3>1 DEF Relay
  <2>6. GoodFrames(stack') /\ stack' # <<>> /\ stack'[1] = f
    BY <1>2, <1>3, <1>5, <2>3, <2>4, <2>5, Push
  <2> QED
    BY <1>1, <1>2, <2>2, <2>4, <2>6 DEF Inv
<1> QED
  BY <1>4, <1>5 DEF executeTransactionIfApproved

\* The return of a send keeps the invariant when it returns to a good state.
LEMMA ReturnsInv ==
  ASSUME Inv, stack # <<>>, NEW s, Good(s), NEW b \in Nat, Returns(s, b)
  PROVE  Inv'
<1>1. GoodFrames(stack) /\ epoch \in Nat
  BY DEF Inv
<1>2. /\ Head(stack) = stack[1] /\ stack[1] \in Frame
      /\ GoodFrames(Tail(stack))
      /\ Tail(stack) # <<>> => Tail(stack)[1].Method = "Send"
  BY <1>1, Pop
<1>3. Head(stack).id \in TxnIDs
  BY <1>2 DEF Frame
<1>4. Good(st')
  BY <1>3, DeleteGood DEF Returns
<1> QED
  BY <1>1, <1>2, <1>4 DEF Inv, Returns

\* While the wallet calls itself, the message is the one that was approved.
LEMMA RelayedProperties ==
  ASSUME Inv, NEW method, method # "Send", Relayed(method)
  PROVE  stack # <<>> /\ RelayedMsg \in Msg /\ RelayedMsg.Method = method
<1>1. GoodFrames(stack) /\ stack # <<>>
  BY DEF Inv, Relayed
<1>2. Head(stack) = stack[1] /\ stack[1] \in Frame /\ Relay(stack[1]) /\ Good(stack[1].st)
  BY <1>1, Pop
<1>3. st = stack[1].st
  BY <1>1, <1>2 DEF Inv, Relayed
<1>4. /\ st.PendingTxns[stack[1].id] # NoTxn
      /\ st.PendingTxns[stack[1].id].Msg.Method = method
  BY <1>2, <1>3 DEF Relay, Relayed
<1>5. st.PendingTxns \in [TxnIDs -> Txn \cup {NoTxn}] /\ stack[1].id \in TxnIDs
  BY <1>2, <1>3 DEF Good, State, Frame
<1>6. st.PendingTxns[stack[1].id] \in Txn
  BY <1>4, <1>5
<1> QED
  BY <1>1, <1>2, <1>4, <1>6 DEF RelayedMsg, Txn

-----------------------------------------------------------------------------
(* The theorems.                                                           *)

\* The constructor establishes the invariant.
LEMMA InitInv == Init => Inv
<1> SUFFICES ASSUME Init PROVE Inv
  OBVIOUS
<1>1. PICK signers \in SUBSET Addresses, threshold \in 1 .. SignersMax,
           lock \in InitialLocks, v \in 0 .. MaxBalance :
        Constructor(signers, threshold, lock, v)
  BY DEF Init
<1> DEFINE new == [Signers |-> signers, NumApprovalsThreshold |-> threshold,
                   NextTxnID |-> 0, PendingTxns |-> [id \in TxnIDs |-> NoTxn],
                   StartEpoch |-> 0, UnlockDuration |-> 0, InitialBalance |-> 0]
           locked == [StartEpoch |-> lock.StartEpoch,
                      UnlockDuration |-> lock.UnlockDuration, InitialBalance |-> v]
<1>2. v \in Nat /\ threshold \in Nat /\ locked \in Lock
  BY MultisigAssumption DEF Lock
<1>3. new \in State
  BY <1>2 DEF State
<1>4. /\ new.Signers = signers /\ new.NumApprovalsThreshold = threshold
      /\ \A id \in TxnIDs : new.PendingTxns[id] = NoTxn
  OBVIOUS
<1>5. st = IF lock.UnlockDuration = 0 THEN new ELSE SetLocked(new, locked)
  BY <1>1 DEF Constructor
<1> HIDE DEF new, locked
<1>6. SoundState(new)
  BY <1>4 DEF SoundState, Pending
<1>7. Reachable(new)
  <2>1. Cardinality(signers) \in 1 .. SignersMax /\ threshold \in 1 .. Cardinality(signers)
    BY <1>1 DEF Constructor
  <2> QED
    BY <1>4, <2>1, MultisigAssumption DEF Reachable
<1>8. Good(new)
  BY <1>3, <1>6, <1>7 DEF Good
<1>9. Good(st)
  BY <1>2, <1>5, <1>8, LockGood
<1>10. balance \in Nat /\ epoch \in Nat /\ stack = <<>>
  BY <1>1, <1>2 DEF Constructor, Init
<1>11. GoodFrames(stack)
  BY <1>10 DEF GoodFrames
<1> QED
  BY <1>9, <1>10, <1>11 DEF Inv

\* Every step of the wallet keeps the invariant.
LEMMA NextInv == Inv /\ [Next]_vars => Inv'
<1> SUFFICES ASSUME Inv, [Next]_vars PROVE Inv'
  OBVIOUS
<1>1. /\ Good(st) /\ balance \in Nat /\ epoch \in Nat /\ GoodFrames(stack)
      /\ st \in State /\ SoundState(st) /\ Reachable(st)
  BY DEF Inv, Good
<1>2. /\ st.Signers \in SUBSET Addresses
      /\ st.PendingTxns \in [TxnIDs -> Txn \cup {NoTxn}]
      /\ st.NextTxnID \in Nat /\ st.NumApprovalsThreshold \in Nat
  BY <1>1 DEF State
<1>3. ASSUME NEW a \in Addresses, NEW msg \in Msg, Propose(a, msg)
      PROVE  Inv'
  <2> DEFINE id == st.NextTxnID
             txn == AppendApproval(NewTxn(msg), a)
             n == [st EXCEPT !.NextTxnID = id + 1,
                             !.PendingTxns = [st.PendingTxns EXCEPT ![id] = txn]]
  <2>1. MayCall(a) /\ a \in st.Signers /\ executeTransactionIfApproved(n, id)
    BY <1>3 DEF Propose, IsSigner
  <2>2. id \in TxnIDs
    BY <1>2, <1>3, MultisigAssumption DEF Propose, TxnIDs
  <2>3. txn \in Txn /\ Approvers(txn) = {a}
    BY TxnProperties
  <2> HIDE DEF txn
  <2>4. Good(n) /\ n.PendingTxns[id] = txn
    <3>1. id + 1 \in Nat /\ id < id + 1 /\ st.NextTxnID <= id + 1
      BY <1>2
    <3>2. Approvers(txn) # {} /\ Approvers(txn) \subseteq st.Signers
      BY <2>1, <2>3
    <3> DEFINE next == id + 1
    <3> HIDE DEF next
    <3>3. Good([st EXCEPT !.NextTxnID = next,
                          !.PendingTxns = [st.PendingTxns EXCEPT ![id] = txn]])
      BY <1>1, <2>2, <2>3, <3>1, <3>2, StoreGood, Zenon DEF next
    <3> QED
      BY <1>1, <1>2, <2>2, <3>3 DEF next, State
  <2> HIDE DEF n
  <2> QED
    BY <2>1, <2>2, <2>3, <2>4, ExecuteInv
<1>4. ASSUME NEW a \in Addresses, NEW id \in TxnIDs, Approve(a, id)
      PROVE  Inv'
  <2> DEFINE txn == st.PendingTxns[id]
             more == AppendApproval(txn, a)
             n == [st EXCEPT !.PendingTxns = [st.PendingTxns EXCEPT ![id] = more]]
  <2>1. MayCall(a) /\ a \in st.Signers /\ id \in Pending(st)
    BY <1>4 DEF Approve, IsSigner
  <2>2. txn \in Txn
    BY <1>2, <2>1 DEF Pending
  <2>3. CASE executeTransactionIfApproved(st, id)
    BY <1>1, <2>1, <2>2, <2>3, ExecuteInv
  <2>4. CASE executeTransactionIfApproved(n, id)
    <3>1. more \in Txn /\ Approvers(more) = Approvers(txn) \cup {a}
      BY <2>2, TxnProperties
    <3>2. id < st.NextTxnID /\ Approvers(txn) \subseteq st.Signers
      BY <1>1, <2>1 DEF SoundState
    <3> HIDE DEF more
    <3>3. n = [st EXCEPT !.NextTxnID = st.NextTxnID,
                         !.PendingTxns = [st.PendingTxns EXCEPT ![id] = more]]
      BY <1>1 DEF State
    <3>4. Good(n) /\ n.PendingTxns[id] = more
      <4>1. Approvers(more) # {} /\ Approvers(more) \subseteq st.Signers
        BY <2>1, <3>1, <3>2
      <4>2. st.NextTxnID <= st.NextTxnID
        BY <1>2
      <4> DEFINE m == [st EXCEPT !.NextTxnID = st.NextTxnID,
                                 !.PendingTxns = [st.PendingTxns EXCEPT ![id] = more]]
      <4>3. Good(m)
        BY <1>1, <1>2, <3>1, <3>2, <4>1, <4>2, StoreGood, Zenon
      <4>4. m.PendingTxns[id] = more
        BY <1>1, <1>2 DEF State
      <4> HIDE DEF m, n
      <4> QED
        BY <3>3, <4>3, <4>4, Zenon DEF m
    <3> HIDE DEF n
    <3> QED
      BY <2>1, <2>4, <3>1, <3>4, ExecuteInv
  <2> QED
    BY <1>4, <2>3, <2>4 DEF Approve
<1>5. ASSUME NEW a \in Addresses, NEW id \in TxnIDs, Cancel(a, id)
      PROVE  Inv'
  <2>1. Good(st')
    BY <1>1, <1>5, DeleteGood DEF Cancel
  <2>2. stack # <<>> => stack[1].Method = "Send"
    BY <1>1, <1>5, Pop DEF Cancel, MayCall
  <2> QED
    BY <1>1, <1>5, <2>1, <2>2 DEF Cancel, Inv
<1>6. CASE SendSucceeds
  BY <1>1, <1>6, ReturnsInv DEF SendSucceeds
<1>7. CASE SendFails
  <2>1. stack # <<>> /\ Good(Head(stack).st) /\ Head(stack).balance \in Nat
    BY <1>1, <1>7, Pop DEF SendFails, Frame
  <2> QED
    BY <1>7, <2>1, ReturnsInv DEF SendFails
<1>8. CASE AddSigner
  <2>1. /\ stack # <<>> /\ RelayedMsg.Signer \in Addresses
        /\ RelayedMsg.Increase \in BOOLEAN
    BY <1>8, RelayedProperties, MsgProperties DEF AddSigner
  <2> QED
    BY <1>1, <1>8, <2>1, AddGood, ReturnsInv DEF AddSigner, IsSigner
<1>9. CASE RemoveSigner
  <2> DEFINE a == RelayedMsg.Signer
             signers == st.Signers \ {a}
             threshold == IF RelayedMsg.Decrease THEN st.NumApprovalsThreshold - 1
                          ELSE st.NumApprovalsThreshold
  <2>1. stack # <<>> /\ a \in Addresses /\ RelayedMsg.Decrease \in BOOLEAN
    BY <1>9, RelayedProperties, MsgProperties DEF RemoveSigner
  <2>2. a \in st.Signers
    BY <1>9 DEF RemoveSigner, IsSigner
  <2>3. /\ Cardinality(signers) = Cardinality(st.Signers) - 1
        /\ Cardinality(st.Signers) \in Nat
    BY <1>2, <2>2, SignersFinite, FS_RemoveElement
  <2>4. threshold \in 1 .. Cardinality(signers) /\ Cardinality(signers) <= SignersMax
    BY <1>1, <1>2, <1>9, <2>1, <2>3, MultisigAssumption DEF RemoveSigner, Reachable
  <2> QED
    BY <1>1, <1>2, <1>9, <2>1, <2>4, ReplaceGood, ReturnsInv DEF RemoveSigner
<1>10. CASE SwapSigner
  <2> DEFINE a == RelayedMsg.From
             signers == (st.Signers \ {a}) \cup {RelayedMsg.To}
  <2>1. stack # <<>> /\ a \in Addresses /\ RelayedMsg.To \in Addresses
    BY <1>10, RelayedProperties, MsgProperties DEF SwapSigner
  <2>2. a \in st.Signers /\ RelayedMsg.To \notin st.Signers
    BY <1>10 DEF SwapSigner, IsSigner
  <2>3. Cardinality(st.Signers \ {a}) = Cardinality(st.Signers) - 1
    BY <1>2, <2>2, SignersFinite, FS_RemoveElement
  <2>4. Cardinality(signers) = Cardinality(st.Signers \ {a}) + 1
    BY <1>2, <2>2, SignersFinite, FS_AddElement
  <2>5. Cardinality(signers) = Cardinality(st.Signers)
    BY <1>2, <2>3, <2>4, SignersFinite
  <2> DEFINE n == [st EXCEPT !.Signers = signers,
                             !.PendingTxns = PurgeApprovals(st.PendingTxns, a)]
  <2>6. n = [st EXCEPT !.Signers = signers,
                       !.NumApprovalsThreshold = st.NumApprovalsThreshold,
                       !.PendingTxns = PurgeApprovals(st.PendingTxns, a)]
    BY <1>1 DEF State
  <2>7. Good(n)
    BY <1>1, <1>2, <2>1, <2>5, <2>6, ReplaceGood DEF Reachable
  <2> HIDE DEF n
  <2> QED
    BY <1>1, <1>10, <2>1, <2>7, ReturnsInv DEF SwapSigner, n
<1>11. CASE ChangeNumApprovalsThreshold
  <2>1. stack # <<>>
    BY <1>11 DEF ChangeNumApprovalsThreshold, Relayed
  <2> QED
    BY <1>1, <1>11, <2>1, ThresholdGood, ReturnsInv DEF ChangeNumApprovalsThreshold
<1>12. CASE LockBalance
  <2>1. stack # <<>> /\ RelayedMsg.Lock \in Lock
    BY <1>12, RelayedProperties, MsgProperties DEF LockBalance
  <2> QED
    BY <1>1, <1>12, <2>1, LockGood, ReturnsInv DEF LockBalance
<1>13. ASSUME NEW v \in Values, Deposit(v)
       PROVE  Inv'
  <2>1. balance' \in Nat
    BY <1>1, <1>13, MultisigAssumption DEF Deposit
  <2> QED
    BY <1>13, <2>1 DEF Deposit, Inv
<1>14. CASE NextEpoch
  BY <1>14 DEF NextEpoch, Inv
<1>15. CASE UNCHANGED vars
  BY <1>15 DEF vars, Inv
<1> QED
  BY <1>3, <1>4, <1>5, <1>6, <1>7, <1>8, <1>9, <1>10, <1>11, <1>12, <1>13, <1>14, <1>15
     DEF Next

\* The invariant holds in every reachable state.
THEOREM Invariance == Spec => []Inv
BY InitInv, NextInv, PTL DEF Spec

\* Approvals are always those of present signers, no pending transaction is
\* without one, and identifiers are fresh: PurgeApprovals misses nothing.  No
\* sequence of reconfigurations leaves a threshold that the signers cannot reach,
\* or more signers than SignersMax.
THEOREM WalletStaysSound == Spec => []WalletSound
<1>1. Inv => WalletSound
  BY DEF Inv, Good, GoodFrames, WalletSound
<1> QED
  BY <1>1, Invariance, PTL

\* Every message the wallet sends, to others or to itself, is approved by a
\* quorum of those who are signers when it is sent.
THEOREM QuorumSafe == Spec => []QuorumBehindEverySend
<1>1. ASSUME Inv PROVE QuorumBehindEverySend
  <2> SUFFICES ASSUME NEW i \in 1 .. Len(stack)
               PROVE  LET s == stack[i].st
                      IN  /\ stack[i].id \in Pending(s)
                          /\ Cardinality(Approvers(s.PendingTxns[stack[i].id]) \cap s.Signers)
                               >= s.NumApprovalsThreshold
    BY DEF QuorumBehindEverySend
  <2> DEFINE s == stack[i].st
             id == stack[i].id
  <2>1. Good(s) /\ Relay(stack[i]) /\ stack[i] \in Frame
    BY <1>1 DEF Inv, GoodFrames
  <2>2. id \in Pending(s)
    BY <2>1 DEF Pending, Relay, Frame
  <2>3. Approvers(s.PendingTxns[id]) \subseteq s.Signers
    BY <2>1, <2>2 DEF Good, SoundState
  <2>4. Approvers(s.PendingTxns[id]) \cap s.Signers = Approvers(s.PendingTxns[id])
    BY <2>3
  <2>5. Cardinality(Approvers(s.PendingTxns[id])) >= s.NumApprovalsThreshold
    BY <2>1 DEF Relay, thresholdMet
  <2> QED
    BY <2>2, <2>4, <2>5
<1> QED
  BY <1>1, Invariance, PTL
=============================================================================
