------------------------------ MODULE Multisig ------------------------------
(***************************************************************************)
(* The multisig wallet (actors/builtin/multisig): signers propose          *)
(* messages, approve them, and a message with enough approvals is relayed. *)
(* The wallet is reconfigured only by messages it relays to itself.        *)
(*                                                                         *)
(* A relayed message runs inside the call that relays it, so a relay is a  *)
(* frame on `stack`: pushed by executeTransactionIfApproved, popped when   *)
(* the send returns and the transaction is deleted.  While a message to    *)
(* another actor runs, signers that are themselves wallets may call back.  *)
(* A send that fails undoes everything done under it, which is why a frame *)
(* keeps the state and the balance at the send.  A call that aborts before *)
(* any send changes nothing and is no step.                                *)
(***************************************************************************)
EXTENDS Integers, Sequences, FiniteSets

CONSTANTS
  Addresses,     \* resolved ID-addresses
  Wallets,       \* those that are multisig wallets, and may call back
  SignersMax,    \* policy.go: the largest number of signers
  Values,        \* the amounts messages carry and deposits bring
  Locks,         \* the lock-ups that LockBalance is called with
  InitialLocks,  \* StartEpoch and UnlockDuration the constructor may be given
  NoTxn,         \* what PendingTxns holds for an identifier not in the map
  MaxBalance,    \* bound: no deposit beyond it
  MaxTxns,       \* bound: proposals
  MaxDepth,      \* bound: sends within sends
  MaxEpoch       \* bound: the last epoch

VARIABLES
  st,            \* State
  balance,       \* rt.CurrentBalance()
  epoch,         \* rt.CurrEpoch()
  stack          \* the sends under way, the innermost first

vars == <<st, balance, epoch, stack>>

Lock == [StartEpoch : Int, UnlockDuration : Nat, InitialBalance : Nat]

\* What is proposed: destination, method and parameters of a message in one
\* record.  "Send" stands for any message to another actor.
Msg ==
       [Method : {"Send"}, Value : Values]
  \cup [Method : {"AddSigner"}, Value : {0}, Signer : Addresses, Increase : BOOLEAN]
  \cup [Method : {"RemoveSigner"}, Value : {0}, Signer : Addresses, Decrease : BOOLEAN]
  \cup [Method : {"SwapSigner"}, Value : {0}, From : Addresses, To : Addresses]
  \cup [Method : {"ChangeNumApprovalsThreshold"}, Value : {0},
        NewThreshold : 0 .. SignersMax + 1]
  \cup [Method : {"LockBalance"}, Value : {0}, Lock : Locks]

\* A pending transaction: the message and the list of approvals, as the place
\* of each address in it, 0 for none.  Last is the last place given; a purge
\* leaves a gap and keeps the order.
Txn == [Msg : Msg, Approved : [Addresses -> Nat], Last : Nat]

ASSUME MultisigAssumption ==
  /\ IsFiniteSet(Addresses)
  /\ Wallets \subseteq Addresses
  /\ SignersMax \in Nat \ {0}
  /\ Values \subseteq Nat
  /\ Locks \subseteq Lock
  /\ NoTxn \notin Txn
  /\ InitialLocks \subseteq [StartEpoch : Int, UnlockDuration : Nat]
  /\ MaxBalance \in Nat /\ MaxTxns \in Nat /\ MaxDepth \in Nat /\ MaxEpoch \in Nat

-----------------------------------------------------------------------------
(* State.                                                                  *)

IsSigner(a) == a \in st.Signers

\* The locked part of the initial balance shrinks linearly, rounded up.
AmountLocked(s, elapsedEpoch) ==
  IF elapsedEpoch >= s.UnlockDuration THEN 0
  ELSE IF elapsedEpoch <= 0 THEN s.InitialBalance
  ELSE LET numerator == s.InitialBalance * (s.UnlockDuration - elapsedEpoch)
           quot      == numerator \div s.UnlockDuration
       IN  IF numerator % s.UnlockDuration = 0 THEN quot ELSE quot + 1

LockedNow == AmountLocked(st, epoch - st.StartEpoch)

MutantLockOnly(amountToSpend) == amountToSpend # 0 => balance >= LockedNow

assertAvailable(amountToSpend) ==
  /\ balance >= amountToSpend
  /\ amountToSpend # 0 => balance - amountToSpend >= LockedNow

TxnIDs == 0 .. MaxTxns - 1

Pending(s) == {id \in TxnIDs : s.PendingTxns[id] # NoTxn}

NewTxn(msg) == [Msg |-> msg, Approved |-> [a \in Addresses |-> 0], Last |-> 0]

Approvers(txn) == {a \in Addresses : txn.Approved[a] # 0}

\* append(txn.Approved, a)
AppendApproval(txn, a) ==
  [txn EXCEPT !.Approved = [txn.Approved EXCEPT ![a] = txn.Last + 1],
              !.Last = txn.Last + 1]

\* txn.Approved[0]
Proposer(txn) == CHOOSE a \in Approvers(txn) :
                   \A b \in Approvers(txn) : txn.Approved[a] <= txn.Approved[b]

MutantKeepApprovals(txns, a) == txns

\* Drops a's approvals, and the transactions left without any.
PurgeApprovals(txns, a) ==
  [id \in TxnIDs |->
     IF txns[id] = NoTxn \/ Approvers(txns[id]) = {a} THEN NoTxn
     ELSE [txns[id] EXCEPT !.Approved = [txns[id].Approved EXCEPT ![a] = 0]]]

-----------------------------------------------------------------------------
(* Calls by signers.                                                       *)

\* Under a send only wallets call; nobody calls while the wallet reconfigures.
MayCall(caller) ==
  stack # <<>> => /\ Head(stack).Method = "Send"
                  /\ caller \in Wallets

MutantOneShort(txn, s) == Cardinality(Approvers(txn)) + 1 >= s.NumApprovalsThreshold

thresholdMet(txn, s) == Cardinality(Approvers(txn)) >= s.NumApprovalsThreshold

\* s is the state with the approvals recorded.  The message leaves, and the
\* transaction is deleted only when the send returns.
executeTransactionIfApproved(s, id) ==
  LET txn == s.PendingTxns[id]
  IN  /\ st' = s
      /\ \/ /\ ~thresholdMet(txn, s)
            /\ UNCHANGED <<balance, stack>>
         \/ /\ thresholdMet(txn, s)
            /\ assertAvailable(txn.Msg.Value)
            /\ Len(stack) < MaxDepth
            /\ balance' = balance - txn.Msg.Value
            /\ stack' = <<[id |-> id, Method |-> txn.Msg.Method,
                           st |-> s, balance |-> balance]>> \o stack
      /\ UNCHANGED epoch

Propose(proposer, msg) ==
  /\ MayCall(proposer)
  /\ IsSigner(proposer)
  /\ st.NextTxnID < MaxTxns
  /\ LET id  == st.NextTxnID
         txn == AppendApproval(NewTxn(msg), proposer)
     IN  executeTransactionIfApproved(
           [st EXCEPT !.NextTxnID = id + 1,
                      !.PendingTxns = [st.PendingTxns EXCEPT ![id] = txn]],
           id)

\* An approval that is not needed any more is not recorded.
Approve(approver, id) ==
  /\ MayCall(approver)
  /\ IsSigner(approver)
  /\ id \in Pending(st)
  /\ LET txn == st.PendingTxns[id]
     IN  \/ /\ thresholdMet(txn, st)
            /\ executeTransactionIfApproved(st, id)
         \/ /\ ~thresholdMet(txn, st)
            /\ approver \notin Approvers(txn)
            /\ executeTransactionIfApproved(
                 [st EXCEPT !.PendingTxns =
                    [st.PendingTxns EXCEPT ![id] = AppendApproval(txn, approver)]],
                 id)

Cancel(caller, id) ==
  /\ MayCall(caller)
  /\ IsSigner(caller)
  /\ id \in Pending(st)
  /\ Proposer(st.PendingTxns[id]) = caller
  /\ st' = [st EXCEPT !.PendingTxns = [st.PendingTxns EXCEPT ![id] = NoTxn]]
  /\ UNCHANGED <<balance, epoch, stack>>

-----------------------------------------------------------------------------
(* The end of a send.  The deletion tolerates that the transaction is gone. *)

Returns(s, b) ==
  /\ st' = [s EXCEPT !.PendingTxns = [s.PendingTxns EXCEPT ![Head(stack).id] = NoTxn]]
  /\ balance' = b
  /\ stack' = Tail(stack)
  /\ UNCHANGED epoch

\* A message to another actor succeeds.
SendSucceeds ==
  /\ stack # <<>>
  /\ Head(stack).Method = "Send"
  /\ Returns(st, balance)

\* A message fails, to another actor or to the wallet itself, whose
\* parameters need not even decode.
SendFails ==
  /\ stack # <<>>
  /\ Returns(Head(stack).st, Head(stack).balance)

(* Calls by the wallet to itself, with the message being relayed.          *)

Relayed(method) == stack # <<>> /\ Head(stack).Method = method

RelayedMsg == st.PendingTxns[Head(stack).id].Msg

AddSigner ==
  /\ Relayed("AddSigner")
  /\ Cardinality(st.Signers) < SignersMax
  /\ ~IsSigner(RelayedMsg.Signer)
  /\ Returns([st EXCEPT
                !.Signers = st.Signers \cup {RelayedMsg.Signer},
                !.NumApprovalsThreshold = IF RelayedMsg.Increase
                  THEN st.NumApprovalsThreshold + 1 ELSE st.NumApprovalsThreshold],
             balance)

RemoveSigner ==
  /\ Relayed("RemoveSigner")
  /\ IsSigner(RelayedMsg.Signer)
  /\ Cardinality(st.Signers) # 1
  /\ ~RelayedMsg.Decrease => Cardinality(st.Signers) - 1 >= st.NumApprovalsThreshold
  /\ RelayedMsg.Decrease => st.NumApprovalsThreshold >= 2
  /\ Returns([st EXCEPT
                !.Signers = st.Signers \ {RelayedMsg.Signer},
                !.NumApprovalsThreshold = IF RelayedMsg.Decrease
                  THEN st.NumApprovalsThreshold - 1 ELSE st.NumApprovalsThreshold,
                !.PendingTxns = PurgeApprovals(st.PendingTxns, RelayedMsg.Signer)],
             balance)

SwapSigner ==
  /\ Relayed("SwapSigner")
  /\ IsSigner(RelayedMsg.From)
  /\ ~IsSigner(RelayedMsg.To)
  /\ Returns([st EXCEPT
                !.Signers = (st.Signers \ {RelayedMsg.From}) \cup {RelayedMsg.To},
                !.PendingTxns = PurgeApprovals(st.PendingTxns, RelayedMsg.From)],
             balance)

ChangeNumApprovalsThreshold ==
  /\ Relayed("ChangeNumApprovalsThreshold")
  /\ RelayedMsg.NewThreshold \in 1 .. Cardinality(st.Signers)
  /\ Returns([st EXCEPT !.NumApprovalsThreshold = RelayedMsg.NewThreshold], balance)

SetLocked(s, lock) ==
  [s EXCEPT !.StartEpoch = lock.StartEpoch,
            !.UnlockDuration = lock.UnlockDuration,
            !.InitialBalance = lock.InitialBalance]

LockBalance ==
  /\ Relayed("LockBalance")
  /\ RelayedMsg.Lock.UnlockDuration > 0
  /\ st.UnlockDuration = 0
  /\ Returns(SetLocked(st, RelayedMsg.Lock), balance)

-----------------------------------------------------------------------------
(* The specification.                                                      *)

Constructor(signers, threshold, lock, valueReceived) ==
  /\ Cardinality(signers) \in 1 .. SignersMax
  /\ threshold \in 1 .. Cardinality(signers)
  /\ st = LET new == [Signers |-> signers, NumApprovalsThreshold |-> threshold,
                      NextTxnID |-> 0, PendingTxns |-> [id \in TxnIDs |-> NoTxn],
                      StartEpoch |-> 0, UnlockDuration |-> 0, InitialBalance |-> 0]
          IN  IF lock.UnlockDuration = 0 THEN new
              ELSE SetLocked(new, [StartEpoch |-> lock.StartEpoch,
                                   UnlockDuration |-> lock.UnlockDuration,
                                   InitialBalance |-> valueReceived])
  /\ balance = valueReceived

Init ==
  /\ \E signers \in SUBSET Addresses, threshold \in 1 .. SignersMax,
        lock \in InitialLocks, v \in 0 .. MaxBalance :
       Constructor(signers, threshold, lock, v)
  /\ epoch = 0
  /\ stack = <<>>

\* A plain transfer to the wallet, from outside or by an actor it has called.
Deposit(v) ==
  /\ stack # <<>> => Head(stack).Method = "Send"
  /\ balance + v <= MaxBalance
  /\ balance' = balance + v
  /\ UNCHANGED <<st, epoch, stack>>

NextEpoch ==
  /\ stack = <<>>
  /\ epoch < MaxEpoch
  /\ epoch' = epoch + 1
  /\ UNCHANGED <<st, balance, stack>>

Next ==
  \/ \E a \in Addresses, msg \in Msg : Propose(a, msg)
  \/ \E a \in Addresses, id \in TxnIDs : Approve(a, id) \/ Cancel(a, id)
  \/ SendSucceeds \/ SendFails
  \/ AddSigner \/ RemoveSigner \/ SwapSigner
  \/ ChangeNumApprovalsThreshold \/ LockBalance
  \/ \E v \in Values : Deposit(v)
  \/ NextEpoch

Spec == Init /\ [][Next]_vars

-----------------------------------------------------------------------------
(* Properties.                                                             *)

\* The state in the trie, and a send under way.
State ==
  [Signers : SUBSET Addresses, NumApprovalsThreshold : Nat, NextTxnID : Nat,
   PendingTxns : [TxnIDs -> Txn \cup {NoTxn}],
   StartEpoch : Int, UnlockDuration : Nat, InitialBalance : Nat]

Frame == [id : TxnIDs, Method : {m.Method : m \in Msg},
          st : State, balance : Nat]

SoundState(s) ==
  \A id \in Pending(s) :
    /\ id < s.NextTxnID
    /\ Approvers(s.PendingTxns[id]) # {}
    /\ Approvers(s.PendingTxns[id]) \subseteq s.Signers

Reachable(s) ==
  /\ s.NumApprovalsThreshold \in 1 .. Cardinality(s.Signers)
  /\ Cardinality(s.Signers) <= SignersMax

\* Every pending transaction is approved by someone, only by signers of today,
\* and has an identifier no later proposal gets: Cancel and ComputeProposalHash
\* index Approved[0], and a removed signer's approval must not count.  And the
\* signers can reach the threshold, whatever AddSigner, RemoveSigner, SwapSigner
\* and ChangeNumApprovalsThreshold they relayed: no wallet locks its own funds
\* for ever.  All this in the state and in every state that a failing send would
\* bring back.
WalletSound ==
  /\ SoundState(st) /\ Reachable(st)
  /\ \A i \in 1 .. Len(stack) : SoundState(stack[i].st) /\ Reachable(stack[i].st)

\* Every message on its way, the wallet's calls to itself included, was
\* approved by at least the threshold of those who were signers when
\* executeTransactionIfApproved sent it.
QuorumBehindEverySend ==
  \A i \in 1 .. Len(stack) :
    LET s == stack[i].st
    IN  /\ stack[i].id \in Pending(s)
        /\ Cardinality(Approvers(s.PendingTxns[stack[i].id]) \cap s.Signers)
             >= s.NumApprovalsThreshold

Covered == balance >= LockedNow

\* The step undid a send, or locked more.
SendUndone == stack # <<>> /\ stack' = Tail(stack) /\ balance' = Head(stack).balance
LocksMore == st.UnlockDuration = 0

\* Once the wallet holds what assertAvailable wants locked, no step takes it
\* below the locked amount: not a spend, nor a send within a send, nor the
\* passing of an epoch, at which the rounded amount must not grow.
LockedFundsStay == [][Covered => Covered' \/ SendUndone \/ LocksMore]_vars
=============================================================================
