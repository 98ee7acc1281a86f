---------------------------------- MODULE VM ----------------------------------
(***************************************************************************)
(* The virtual machine that runs messages over a state tree                *)
(* (src/support/vm), with the init and account actors (src/actors/builtin).*)
(*                                                                         *)
(* actors is the working tree; the checkpoint that invoke takes is kept in *)
(* the context (prior) and restored when the invocation aborts.  A message *)
(* is a stack of contexts, one for each nested call, and the top one       *)
(* takes the next step.  The init and account actors are modelled as they  *)
(* are; the wallets (multisigs and payment channels) stand for any other   *)
(* actor: between their state transactions they send what they like, end   *)
(* well or abort.                                                          *)
(***************************************************************************)
EXTENDS Integers, Sequences, FiniteSets, FiniteSetsExt

CONSTANTS
    Genesis,         \* the state tree of the first message
    Origins,         \* addresses that messages come from
    Messages,        \* what users send: [to, value, method, params]
    Sends,           \* what wallets send
    Prices,          \* the price list: [message, invoke, create, delete, get, put]
    GasLimit,        \* defaultGasLimit
    Plans,           \* bounds: for each message to apply, how many calls it may make
    MaxWrites        \* bound: state transactions of a wallet in one call

VARIABLES
    plan,         \* the bounds of this behaviour
    actors,       \* the state tree: ID -> [Code, Head, CallSeqNum, Balance]
    stack,        \* the contexts of the message in progress, the innermost last
    gasUsed,      \* of its topLevelContext
    origin,       \* originatorStableAddress and originatorCallSeq
    invocations,  \* the calls of the last message, in the order they started
    before,       \* history: the tree before the last message
    applied,      \* number of messages applied
    panicked      \* a panic that is no abort went through ApplyMessage

vars == <<plan, actors, stack, gasUsed, origin, invocations, before, applied, panicked>>

-----------------------------------------------------------------------------
(* Addresses, actors and the state of the init actor.                       *)
SystemActor == 0
InitActor == 1
BurntFunds == 2
NoActor == -1

ID(n) == [protocol |-> "ID", id |-> n]
PubKey(k) == [protocol |-> "BLS", key |-> k]
IsPubKey(a) == a.protocol = "BLS"

MethodSend == 0
MethodConstructor == 1
Exec == 2            \* of the init actor
PubkeyAddress == 2   \* of an account
Call == 2            \* of a wallet
Exported == {MethodConstructor, Exec}

Wallets == {"multisig", "paych"}
EmptyObject == [empty |-> TRUE]

Put(f, k, v) == [x \in DOMAIN f \cup {k} |-> IF x = k THEN v ELSE f[x]]

ResolveAddress(s, a) ==
    IF a.protocol = "ID" THEN a.id
    ELSE IF a \in DOMAIN s.AddressMap THEN s.AddressMap[a] ELSE NoActor

MapAddressToNewID(s, a) ==
    [AddressMap |-> Put(s.AddressMap, a, s.NextID), NextID |-> s.NextID + 1]

(* The count of new addresses in a message stays 0.                         *)
NewActorAddress == [protocol |-> "Actor", from |-> origin.from, seq |-> origin.seq, count |-> 0]

canExec(callerCode, execCode) ==
    CASE execCode = "storageminer" -> callerCode = "storagepower"
      [] execCode \in Wallets -> TRUE
      [] OTHER -> FALSE

NormalizeAddress(a) == ResolveAddress(actors[InitActor].Head, a)

CreateActor(tree, code, id) ==
    Put(tree, id, [Code |-> code, Head |-> EmptyObject, CallSeqNum |-> 0, Balance |-> 0])

MutantLoadsBothFirst(tree, debitFrom, creditTo, amount) ==
    [[tree EXCEPT ![debitFrom].Balance = @ - amount]
        EXCEPT ![creditTo].Balance = tree[creditTo].Balance + amount]

(* The credit account is loaded when the debit has been stored: they may be *)
(* the same.                                                                *)
transfer(tree, debitFrom, creditTo, amount) ==
    [[tree EXCEPT ![debitFrom].Balance = @ - amount] EXCEPT ![creditTo].Balance = @ + amount]

-----------------------------------------------------------------------------
(* Contexts.  pc: "resolve" the target, "construct" its account, "invoke",  *)
(* then the "body" of a method; "exec" waits for a constructor, "created"   *)
(* and "deleted" have made or removed the state of the receiver.            *)
Top == stack[Len(stack)]
Outer == SubSeq(stack, 1, Len(stack) - 1)
At(pc) == stack # <<>> /\ Top.pc = pc
Receiver == actors[Top.id]

newInvocationContext(msg, tree, index) ==
    [msg |-> msg, id |-> NoActor, code |-> "", prior |-> tree, pc |-> "resolve", ret |-> "", index |-> index]

startInvocation(msg) ==
    Append(invocations, [parent |-> IF stack = <<>> THEN 0 ELSE Top.index, from |-> msg.from, to |-> msg.to,
                         value |-> msg.value, code |-> "", writes |-> 0, burned |-> 0])
endInvocation(code) == invocations' = [invocations EXCEPT ![Top.index].code = code]

(* A nested call from the top context, which goes on at pc afterwards.      *)
Nest(tree, msg, pc) ==
    /\ actors' = tree
    /\ stack' = Append([stack EXCEPT ![Len(stack)].pc = pc],
                       newInvocationContext(msg, tree, Len(invocations) + 1))
    /\ invocations' = startInvocation(msg)
    /\ UNCHANGED panicked

Goto(tree, pc) ==
    /\ actors' = tree
    /\ stack' = [stack EXCEPT ![Len(stack)].pc = pc]
    /\ UNCHANGED panicked

(* The exit code goes to the caller; a wallet may do anything with it.      *)
Resumed(code) ==
    IF Outer = <<>> THEN <<>>
    ELSE [Outer EXCEPT ![Len(Outer)].ret = IF @ = "" /\ Outer[Len(Outer)].pc = "body" THEN "" ELSE code]

ReturnOk(tree) ==
    /\ actors' = tree
    /\ stack' = Resumed("Ok")
    /\ endInvocation("Ok")
    /\ UNCHANGED panicked

(* A panic that is no abort: every invoke on the stack rolls back and       *)
(* panics again.                                                            *)
Panic ==
    /\ actors' = stack[1].prior
    /\ stack' = <<>>
    /\ panicked' = TRUE

(* Whoever called takes the code of toActor for its statistics, which is    *)
(* nil when the target was not found; only resolveTarget does not.          *)
StatsNeedTarget == Top.id = NoActor /\ (Outer # <<>> => Outer[Len(Outer)].pc # "construct")

MutantKeepsChanges(code) ==
    /\ endInvocation(code)
    /\ IF StatsNeedTarget THEN Panic
       ELSE actors' = actors /\ stack' = Resumed(code) /\ UNCHANGED panicked

Abort(code) ==
    /\ endInvocation(code)
    /\ IF StatsNeedTarget THEN Panic
       ELSE actors' = Top.prior /\ stack' = Resumed(code) /\ UNCHANGED panicked

OutOfGas(charge) == gasUsed > GasLimit - charge
chargeGas(charge) == gasUsed' = IF OutOfGas(charge) THEN GasLimit ELSE gasUsed + charge
CodeOr(charge, code) == IF OutOfGas(charge) THEN "SysErrOutOfGas" ELSE code

message == <<plan, origin, before, applied>>

-----------------------------------------------------------------------------
Init ==
    /\ plan \in Plans
    /\ actors = Genesis
    /\ stack = <<>>
    /\ gasUsed = 0
    /\ origin = [from |-> ID(SystemActor), seq |-> 0]
    /\ invocations = <<>>
    /\ before = Genesis
    /\ applied = 0
    /\ panicked = FALSE

(* The sequence number goes up before the checkpoint, so it stays up.       *)
ApplyMessage(from, m) ==
    /\ stack = <<>> /\ ~panicked /\ applied < Len(plan)
    /\ plan' = plan
    /\ applied' = applied + 1
    /\ before' = actors
    /\ panicked' = panicked
    /\ \E id \in {NormalizeAddress(from)} :
          IF id \in DOMAIN actors
          THEN \E tree \in {[actors EXCEPT ![id].CallSeqNum = @ + 1]} :
                 LET msg == [from |-> id, to |-> m.to, value |-> m.value, method |-> m.method,
                             params |-> m.params]
                 IN  /\ actors' = tree
                     /\ origin' = [from |-> from, seq |-> actors[id].CallSeqNum]
                     /\ gasUsed' = Prices.message
                     /\ stack' = <<newInvocationContext(msg, tree, 1)>>
                     /\ invocations' = <<[parent |-> 0, from |-> id, to |-> m.to, value |-> m.value,
                                          code |-> "", writes |-> 0, burned |-> 0]>>
          ELSE /\ invocations' = <<>>   \* SysErrSenderInvalid
               /\ UNCHANGED <<actors, origin, gasUsed, stack>>

-----------------------------------------------------------------------------
(* invoke and resolveTarget.                                                *)
Loaded(id) ==
    [stack EXCEPT ![Len(stack)] = [@ EXCEPT !.id = id, !.code = actors[id].Code, !.pc = "invoke", !.ret = ""]]

LoadTarget ==
    /\ At("resolve")
    /\ \E id \in {NormalizeAddress(Top.msg.to)} :
          /\ id \in DOMAIN actors
          /\ stack' = Loaded(id)
          /\ invocations' = [invocations EXCEPT ![Top.index].to = ID(id)]
    /\ UNCHANGED <<actors, gasUsed, panicked, message>>

NoSuchTarget ==
    /\ At("resolve")
    /\ NormalizeAddress(Top.msg.to) \notin DOMAIN actors
    /\ NormalizeAddress(Top.msg.to) = NoActor => ~IsPubKey(Top.msg.to)
    /\ Abort("SysErrInvalidReceiver")
    /\ UNCHANGED <<gasUsed, message>>

MutantForgetsInitState(target) ==
    CreateActor(actors, "account", actors[InitActor].Head.NextID)

(* The tree with a new account for a key.                                   *)
WithAccount(target) ==
    CreateActor([actors EXCEPT ![InitActor].Head = MapAddressToNewID(@, target)], "account",
                actors[InitActor].Head.NextID)

CreateAccount ==
    /\ At("resolve")
    /\ NormalizeAddress(Top.msg.to) = NoActor /\ IsPubKey(Top.msg.to)
    /\ chargeGas(Prices.create)
    /\ IF OutOfGas(Prices.create) THEN Abort("SysErrOutOfGas")
       ELSE Nest(WithAccount(Top.msg.to),
                 [from |-> SystemActor, to |-> ID(actors[InitActor].Head.NextID), value |-> 0,
                  method |-> MethodConstructor, params |-> Top.msg.to], "construct")
    /\ UNCHANGED message

AccountConstructed ==
    /\ At("construct")
    /\ IF Top.ret = "Ok"
       THEN /\ stack' = Loaded(NormalizeAddress(Top.msg.to))
            /\ invocations' = [invocations EXCEPT ![Top.index].to = ID(NormalizeAddress(Top.msg.to))]
            /\ UNCHANGED <<actors, panicked>>
       ELSE Abort(Top.ret)
    /\ UNCHANGED <<gasUsed, message>>

(* fromActor was loaded just before the checkpoint.                         *)
InvokeCode ==
    IF OutOfGas(Prices.invoke) THEN "SysErrOutOfGas"
    ELSE IF Top.msg.value > Top.prior[Top.msg.from].Balance THEN "SysErrInsufficientFunds"
    ELSE IF Top.msg.method \notin Exported \cup {MethodSend} THEN "SysErrInvalidMethod" ELSE "Ok"

Transferred ==
    IF Top.msg.value = 0 THEN actors ELSE transfer(actors, Top.msg.from, Top.id, Top.msg.value)

Invoke ==
    /\ At("invoke")
    /\ chargeGas(Prices.invoke)
    /\ IF InvokeCode # "Ok" THEN Abort(InvokeCode)
       ELSE IF Top.msg.method = MethodSend THEN ReturnOk(Transferred)
       ELSE Goto(Transferred, "body") /\ UNCHANGED invocations
    /\ UNCHANGED message

-----------------------------------------------------------------------------
(* The account actor.                                                       *)
InBody(code, method) == At("body") /\ Top.code = code /\ Top.msg.method = method

AccountConstructorCode ==
    IF Top.msg.from # SystemActor THEN "SysErrForbidden"
    ELSE IF ~IsPubKey(Top.msg.params) THEN "ErrIllegalArgument"
    ELSE IF Receiver.Head # EmptyObject THEN "SysErrorIllegalActor" ELSE CodeOr(Prices.put, "Ok")

AccountConstructor ==
    /\ InBody("account", MethodConstructor)
    /\ \E code \in {AccountConstructorCode} :
          /\ IF code \in {"Ok", "SysErrOutOfGas"} THEN chargeGas(Prices.put) ELSE UNCHANGED gasUsed
          /\ IF code = "Ok" THEN ReturnOk([actors EXCEPT ![Top.id].Head = [Address |-> Top.msg.params]])
             ELSE Abort(code)
    /\ UNCHANGED message

AccountPubkeyAddress ==
    /\ InBody("account", PubkeyAddress)
    /\ chargeGas(Prices.get)
    /\ IF OutOfGas(Prices.get) THEN Abort("SysErrOutOfGas") ELSE ReturnOk(actors)
    /\ UNCHANGED message

(* The init actor.  Exec allocates an ID, creates the actor and has it      *)
(* constructed with the value it received.                                  *)
InitConstructor ==
    /\ InBody("init", MethodConstructor)
    /\ Abort(IF Top.msg.from # SystemActor THEN "SysErrForbidden" ELSE "SysErrorIllegalActor")
    /\ UNCHANGED <<gasUsed, message>>

ExecPrice == Prices.get + Prices.put + Prices.create

ExecCode ==
    IF ~canExec(actors[Top.msg.from].Code, Top.msg.params) THEN "ErrForbidden" ELSE CodeOr(ExecPrice, "Ok")

InitExec ==
    /\ InBody("init", Exec)
    /\ \E code \in {ExecCode}, id \in {Receiver.Head.NextID} :
          /\ IF code = "ErrForbidden" THEN UNCHANGED gasUsed ELSE chargeGas(ExecPrice)
          /\ IF code # "Ok" THEN Abort(code)
             ELSE IF id \in DOMAIN actors THEN Abort("SysErrorIllegalArgument")
             ELSE Nest(CreateActor([actors EXCEPT ![InitActor].Head = MapAddressToNewID(@, NewActorAddress)],
                                   Top.msg.params, id),
                       [from |-> InitActor, to |-> ID(id), value |-> Top.msg.value,
                        method |-> MethodConstructor, params |-> ""], "exec")
    /\ UNCHANGED message

ExecConstructed ==
    /\ At("exec")
    /\ IF Top.ret = "Ok" THEN ReturnOk(actors) ELSE Abort(Top.ret)
    /\ UNCHANGED <<gasUsed, message>>

-----------------------------------------------------------------------------
(* The wallets.  A constructor answers the init actor only, and may resolve *)
(* addresses (ResolveToIDAddr) before it creates the state; no actor has    *)
(* more than one other created for it in a message.                         *)
InWallet == At("body") /\ Top.code \in Wallets
Constructing == Top.msg.method = MethodConstructor
MaySend(s) ==
    /\ Len(invocations) < plan[applied]
    /\ Constructing => s.value = 0 /\ s.method = MethodSend /\ IsPubKey(s.to)
    /\ s.to = ID(InitActor) => \A i \in DOMAIN invocations : invocations[i].to # ID(InitActor)

WalletRejects ==
    /\ InWallet /\ Constructing /\ Top.msg.from # InitActor
    /\ Abort("SysErrForbidden")
    /\ UNCHANGED <<gasUsed, message>>

WalletStateCreate ==
    /\ InWallet /\ Constructing /\ Top.msg.from = InitActor
    /\ chargeGas(Prices.put)
    /\ IF Receiver.Head # EmptyObject THEN Abort("SysErrorIllegalActor")
       ELSE IF OutOfGas(Prices.put) THEN Abort("SysErrOutOfGas")
       ELSE Goto([actors EXCEPT ![Top.id].Head = [version |-> 0]], "created") /\ UNCHANGED invocations
    /\ UNCHANGED message

(* The transaction loads the state anew, whatever was read before a send.   *)
WalletStateTransaction ==
    /\ InWallet /\ ~Constructing
    /\ invocations[Top.index].writes < MaxWrites
    /\ chargeGas(Prices.get + Prices.put)
    /\ IF Top.id \notin DOMAIN actors THEN Panic /\ UNCHANGED invocations
       ELSE IF OutOfGas(Prices.get + Prices.put) THEN Abort("SysErrOutOfGas")
       ELSE /\ Goto([actors EXCEPT ![Top.id].Head.version = @ + 1], "body")
            /\ invocations' = [invocations EXCEPT ![Top.index].writes = @ + 1]
    /\ UNCHANGED message

Send(s) ==
    /\ InWallet /\ MaySend(s)
    /\ Constructing => Top.msg.from = InitActor
    /\ IF Top.id \notin DOMAIN actors THEN Abort("ErrIllegalState")
       ELSE Nest(actors, [from |-> Top.id, to |-> s.to, value |-> s.value, method |-> s.method,
                          params |-> s.params], "body")
    /\ UNCHANGED <<gasUsed, message>>

DeletedTree ==
    [a \in DOMAIN actors \ {Top.id} |->
        IF a = BurntFunds THEN transfer(actors, Top.id, BurntFunds, Receiver.Balance)[a] ELSE actors[a]]

(* Collect of a payment channel deletes it; the beneficiary is the burnt    *)
(* funds actor.                                                             *)
DeleteActor ==
    /\ InWallet /\ ~Constructing /\ Top.code = "paych" /\ Top.id \in DOMAIN actors
    /\ chargeGas(Prices.delete)
    /\ Goto(DeletedTree, "deleted")
    /\ invocations' = [invocations EXCEPT ![Top.index].burned = Receiver.Balance]
    /\ UNCHANGED message

WalletReturns ==
    /\ (InWallet /\ ~Constructing) \/ At("created") \/ At("deleted")
    /\ ReturnOk(actors)
    /\ UNCHANGED <<gasUsed, message>>

WalletAborts ==
    /\ InWallet
    /\ Abort("ErrIllegalArgument")
    /\ UNCHANGED <<gasUsed, message>>

(* All messages are applied, or the machine has panicked.                   *)
Over ==
    /\ stack = <<>>
    /\ applied = Len(plan) \/ panicked
    /\ UNCHANGED vars

Next ==
    \/ \E from \in Origins, m \in Messages : ApplyMessage(from, m)
    \/ LoadTarget
    \/ NoSuchTarget
    \/ CreateAccount
    \/ AccountConstructed
    \/ Invoke
    \/ AccountConstructor
    \/ AccountPubkeyAddress
    \/ InitConstructor
    \/ InitExec
    \/ ExecConstructed
    \/ WalletRejects
    \/ WalletStateCreate
    \/ WalletStateTransaction
    \/ \E s \in Sends : Send(s)
    \/ DeleteActor
    \/ WalletReturns
    \/ WalletAborts
    \/ Over

Spec == Init /\ [][Next]_vars

-----------------------------------------------------------------------------
(* Properties *)

(* A call took effect: it and all calls around it ended well.               *)
Effective(i) ==
    LET callers[j \in 0 .. Len(invocations)] ==
            IF j = 0 THEN {} ELSE {j} \cup callers[invocations[j].parent]
    IN  \A j \in callers[i] : invocations[j].code = "Ok"

Effects == {i \in DOMAIN invocations : Effective(i)}
SumOver(S, Amount(_)) == MapThenSumSet(Amount, S)

Old(a) == IF a \in DOMAIN before THEN before[a] ELSE [Balance |-> 0, CallSeqNum |-> 0, Head |-> EmptyObject]
Version(head) == IF "version" \in DOMAIN head THEN head.version ELSE 0

(* The record of calls explains the state: when a message is over, an       *)
(* actor's balance and state have changed by exactly what the calls that    *)
(* ended well, within calls that all ended well, moved and wrote, and an    *)
(* actor has appeared or gone only if such a call was made to it.  A call   *)
(* that failed, however deep, and whatever its callers made of it, has left *)
(* nothing behind; a message that failed has left the sequence number of    *)
(* its sender only.                                                         *)
TraceExplainsState ==
    stack = <<>> /\ applied > 0 =>
        /\ \A a \in DOMAIN actors :
              /\ actors[a].Balance =
                    Old(a).Balance
                    + SumOver({i \in Effects : invocations[i].to = ID(a)}, LAMBDA i : invocations[i].value)
                    - SumOver({i \in Effects : invocations[i].from = a}, LAMBDA i : invocations[i].value)
                    + (IF a = BurntFunds THEN SumOver(Effects, LAMBDA i : invocations[i].burned) ELSE 0)
              /\ Version(actors[a].Head) =
                    Version(Old(a).Head)
                    + SumOver({i \in Effects : invocations[i].to = ID(a)}, LAMBDA i : invocations[i].writes)
        /\ \A a \in DOMAIN actors : a \notin DOMAIN before => \E i \in Effects : invocations[i].to = ID(a)
        /\ \A a \in DOMAIN before :
              a \notin DOMAIN actors => \E i \in Effects : invocations[i].to = ID(a)
        /\ (invocations # <<>> /\ 1 \notin Effects) =>
              actors = [before EXCEPT ![invocations[1].from].CallSeqNum = @ + 1]

Registry(tree) == tree[InitActor].Head

(* The address map and the state tree agree at every step of a message and  *)
(* after every rollback: no two addresses share an ID, every ID given out   *)
(* is below NextID, an actor outside the singletons is found under exactly  *)
(* one address, an account under its own key, and a message never moves an  *)
(* address that was mapped before it.                                       *)
RegistrySound ==
    LET r == Registry(actors)
    IN  /\ \A a, b \in DOMAIN r.AddressMap : r.AddressMap[a] = r.AddressMap[b] => a = b
        /\ \A a \in DOMAIN r.AddressMap : r.AddressMap[a] < r.NextID
        /\ \A id \in DOMAIN actors \ {SystemActor, InitActor, BurntFunds} :
              \E a \in DOMAIN r.AddressMap :
                  /\ r.AddressMap[a] = id
                  /\ actors[id].Code = "account" /\ actors[id].Head # EmptyObject =>
                        actors[id].Head.Address = a
        /\ \A a \in DOMAIN Registry(before).AddressMap :
              a \in DOMAIN r.AddressMap /\ r.AddressMap[a] = Registry(before).AddressMap[a]

(* No step of a message makes or destroys tokens: transfers to oneself,     *)
(* rollbacks in the middle of a message, a constructor that fails with the  *)
(* value it was sent and the deletion of an actor included.                 *)
FundsConserved ==
    SumOver(DOMAIN actors, LAMBDA a : actors[a].Balance)
        = SumOver(DOMAIN Genesis, LAMBDA a : Genesis[a].Balance)
===============================================================================
