----------------------------- MODULE MCMultisig -----------------------------
(***************************************************************************)
(* An instance of Multisig for TLC: three addresses, one of them a wallet, *)
(* under one of two plans.  "signers" reconfigures a wallet without funds; *)
(* "funds" lets two signers deposit, lock and spend while epochs pass.     *)
(***************************************************************************)
EXTENDS Multisig

CONSTANTS a, b, w

VARIABLE plan

LockTwo == {[StartEpoch |-> 0, UnlockDuration |-> 3, InitialBalance |-> 2]}
LockOrNot == {[StartEpoch |-> 0, UnlockDuration |-> 0], [StartEpoch |-> 1, UnlockDuration |-> 2]}

Around(msg) ==
  CASE msg.Method \in {"AddSigner", "RemoveSigner"} -> {msg.Signer}
    [] msg.Method = "SwapSigner" -> {msg.From, msg.To}
    [] OTHER -> {}

\* What is proposed under each plan.
Proposals ==
  [signers |-> {msg \in Msg : msg.Value = 0 /\ msg.Method # "LockBalance"},
   funds |-> {msg \in Msg : /\ msg.Method = "Send" => msg.Value > 0
                            /\ Around(msg) \subseteq {a, w}
                            /\ msg.Method = "ChangeNumApprovalsThreshold" => msg.NewThreshold <= 3}]

MCInit ==
  /\ Init
  /\ \/ plan = "signers" /\ balance = 0 /\ st.UnlockDuration = 0
     \/ plan = "funds" /\ st.Signers \subseteq {a, w}

MCPropose == \E x \in Addresses, msg \in Proposals[plan] : Propose(x, msg) /\ UNCHANGED plan
MCDecide == \E x \in Addresses, id \in TxnIDs : (Approve(x, id) \/ Cancel(x, id)) /\ UNCHANGED plan
MCReturn == (SendSucceeds \/ SendFails) /\ UNCHANGED plan
MCSigners == (AddSigner \/ RemoveSigner \/ SwapSigner) /\ UNCHANGED plan
MCChange == ChangeNumApprovalsThreshold /\ UNCHANGED plan
MCLock == LockBalance /\ UNCHANGED plan
MCOutside == ((\E v \in Values \ {0} : Deposit(v)) \/ NextEpoch) /\ plan = "funds" /\ UNCHANGED plan

MCNext ==
  MCPropose \/ MCDecide \/ MCReturn \/ MCSigners \/ MCChange \/ MCLock \/ MCOutside

MCSpec == MCInit /\ [][MCNext]_<<vars, plan>>
=============================================================================
