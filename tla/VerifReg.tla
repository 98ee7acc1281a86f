------------------------------ MODULE VerifReg ------------------------------
(***************************************************************************)
(* The verified registry actor (src/actors/builtin/verifreg).              *)
(*                                                                         *)
(* The root key names verifiers, verifiers hand their data cap to clients, *)
(* and the storage market spends and restores a client's data cap for      *)
(* verified deals (UseBytes, RestoreBytes).  A message that aborts leaves  *)
(* the state alone, so an action is a call that succeeds.  ledger and      *)
(* removals are history.                                                   *)
(***************************************************************************)
EXTENDS Naturals, Sequences

CONSTANTS
    Accounts,             \* the actors that call the registry or are named in calls
    RootKey,              \* the root key holder
    MinVerifiedDealSize,  \* verified_registry_state.go
    Allowances,           \* data cap amounts in calls
    Registries,           \* what earlier messages may have left in the registry, each with bounds:
                          \* the calls that follow, the market's not counted, and the deals
    MaxProposalID         \* bound: proposal IDs that verifiers sign

VARIABLES
    reg,       \* State
    ledger,    \* per account: data cap granted, removed, and lost for good
    removals,  \* the removals carried out
    bounds     \* of this behaviour: calls left, and deals

registry == <<reg, ledger, removals, bounds>>

ASSUME RegistryAssumption ==
    /\ RootKey \in Accounts
    /\ MinVerifiedDealSize \in Nat \ {0}
    /\ Allowances \subseteq Nat
    /\ MaxProposalID \in Nat

With(f, k, v) == [x \in DOMAIN f \cup {k} |-> IF x = k THEN v ELSE f[x]]
Drop(f, k) == [x \in DOMAIN f \ {k} |-> f[x]]
Lookup(f, k) == IF k \in DOMAIN f THEN f[k] ELSE 0

State(r) ==
    r = [Verifiers |-> r.Verifiers, VerifiedClients |-> r.VerifiedClients,
         RemoveDataCapProposalIDs |-> r.RemoveDataCapProposalIDs]

isVerifier(r, a) == a \in DOMAIN r.Verifiers
isClient(r, a) == a \in DOMAIN r.VerifiedClients

\* Verifiers, clients and the root key holder are different actors.
RolesDisjoint(r) ==
    /\ DOMAIN r.Verifiers \cap DOMAIN r.VerifiedClients = {}
    /\ RootKey \notin DOMAIN r.Verifiers \cup DOMAIN r.VerifiedClients

ASSUME RegistriesAssumption ==
    \A r \in Registries :
        /\ State(r.state) /\ RolesDisjoint(r.state)
        /\ DOMAIN r.state.Verifiers \subseteq Accounts
        /\ \A a \in DOMAIN r.state.VerifiedClients : r.state.VerifiedClients[a] \in Nat
        /\ \A k \in DOMAIN r.state.RemoveDataCapProposalIDs : r.state.RemoveDataCapProposalIDs[k] \in Nat

RegistryInit ==
    /\ \E r \in Registries : reg = r.state /\ bounds = [calls |-> r.calls, deals |-> r.deals]
    /\ ledger = [a \in Accounts |-> [granted |-> Lookup(reg.VerifiedClients, a), removed |-> 0, lost |-> 0]]
    /\ removals = <<>>

CallRegistry == bounds.calls > 0 /\ bounds' = [bounds EXCEPT !.calls = @ - 1]

-----------------------------------------------------------------------------
(* An allowance replaces what is left of an earlier one.                    *)
AddVerifier(caller, verifier, allowance) ==
    /\ CallRegistry
    /\ allowance >= MinVerifiedDealSize
    /\ caller = RootKey
    /\ verifier # RootKey
    /\ ~isClient(reg, verifier)
    /\ reg' = [reg EXCEPT !.Verifiers = With(@, verifier, allowance)]
    /\ UNCHANGED <<ledger, removals>>

RemoveVerifier(caller, verifier) ==
    /\ CallRegistry
    /\ caller = RootKey
    /\ isVerifier(reg, verifier)
    /\ reg' = [reg EXCEPT !.Verifiers = Drop(@, verifier)]
    /\ UNCHANGED <<ledger, removals>>

AddVerifiedClient(verifier, client, allowance) ==
    /\ CallRegistry
    /\ allowance >= MinVerifiedDealSize
    /\ client # RootKey
    /\ isVerifier(reg, verifier)
    /\ ~isVerifier(reg, client)
    /\ reg.Verifiers[verifier] >= allowance
    /\ reg' = [reg EXCEPT !.Verifiers[verifier] = @ - allowance,
                          !.VerifiedClients = With(@, client, Lookup(@, client) + allowance)]
    /\ ledger' = [ledger EXCEPT ![client].granted = @ + allowance]
    /\ UNCHANGED removals

(* The market's calls, on a registry state.  A client that is left with     *)
(* less than a deal can use loses the rest.                                 *)
CanUseBytes(r, client, dealSize) ==
    /\ dealSize >= MinVerifiedDealSize
    /\ isClient(r, client)
    /\ dealSize <= r.VerifiedClients[client]

UseBytes(r, client, dealSize) ==
    LET newVcCap == r.VerifiedClients[client] - dealSize
    IN  [r EXCEPT !.VerifiedClients =
            IF newVcCap < MinVerifiedDealSize THEN Drop(@, client) ELSE With(@, client, newVcCap)]

CanRestoreBytes(r, client, dealSize) ==
    /\ dealSize >= MinVerifiedDealSize
    /\ client # RootKey
    /\ ~isVerifier(r, client)

MutantRestoreReplaces(r, client, dealSize) ==
    IF CanRestoreBytes(r, client, dealSize)
    THEN [r EXCEPT !.VerifiedClients = With(@, client, dealSize)] ELSE r

MutantRestoreToVerifier(r, client, dealSize) ==
    [r EXCEPT !.VerifiedClients = With(@, client, Lookup(@, client) + dealSize)]

RestoreBytes(r, client, dealSize) ==
    IF CanRestoreBytes(r, client, dealSize)
    THEN [r EXCEPT !.VerifiedClients = With(@, client, Lookup(@, client) + dealSize)] ELSE r

-----------------------------------------------------------------------------
(* The removal of data cap, which two verifiers sign.  A request carries    *)
(* the proposal ID its verifier signed, with the amount and the client.     *)
MutantIDNotStored(ids, verifier, client) == With(ids, <<verifier, client>>, Lookup(ids, <<verifier, client>>))

useProposalID(ids, verifier, client) ==
    With(ids, <<verifier, client>>, Lookup(ids, <<verifier, client>>) + 1)

removeDataCapRequestIsValid(request, id) == request.id = id

RemoveVerifiedClientDataCap(caller, client, amount, request1, request2) ==
    LET v1 == request1.verifier
        v2 == request2.verifier
        ids == reg.RemoveDataCapProposalIDs
        preDataCap == reg.VerifiedClients[client]
    IN  /\ CallRegistry
        /\ v1 # v2
        /\ caller = RootKey
        /\ isClient(reg, client)
        /\ isVerifier(reg, v1) /\ isVerifier(reg, v2)
        /\ removeDataCapRequestIsValid(request1, Lookup(ids, <<v1, client>>))
        /\ removeDataCapRequestIsValid(request2, Lookup(ids, <<v2, client>>))
        /\ reg' = [reg EXCEPT
                    !.RemoveDataCapProposalIDs = useProposalID(useProposalID(@, v1, client), v2, client),
                    !.VerifiedClients =
                        IF preDataCap <= amount THEN Drop(@, client) ELSE With(@, client, preDataCap - amount)]
        /\ ledger' = [ledger EXCEPT ![client].removed = @ + (IF preDataCap <= amount THEN preDataCap ELSE amount)]
        /\ removals' = Append(removals, [client |-> client, requests |-> {request1, request2}])

Requests == [verifier : DOMAIN reg.Verifiers, id : 0 .. MaxProposalID]

RegistryNext ==
    \/ \E caller, verifier \in Accounts, allowance \in Allowances : AddVerifier(caller, verifier, allowance)
    \/ \E caller, verifier \in Accounts : RemoveVerifier(caller, verifier)
    \/ \E verifier, client \in Accounts, allowance \in Allowances :
            AddVerifiedClient(verifier, client, allowance)
    \/ \E caller, client \in Accounts, amount \in Allowances, request1, request2 \in Requests :
            RemoveVerifiedClientDataCap(caller, client, amount, request1, request2)

-----------------------------------------------------------------------------
(* Properties *)

(* Nobody is a verifier and a client at once, and the root key holder is    *)
(* neither: data cap that the market restores, long after it was used,      *)
(* makes no client of someone who has become a verifier meanwhile.          *)
VerifierNotClient == RolesDisjoint(reg)

(* "Unique proposal ids ensure that removal proposals cannot be replayed"   *)
(* (verified_registry_state.go): what a verifier signed for a client is     *)
(* used in one removal only, also when the verifier or the client has been  *)
(* removed and added again in between.                                      *)
RemovalOnce ==
    \A i, j \in DOMAIN removals :
        i # j /\ removals[i].client = removals[j].client => removals[i].requests \cap removals[j].requests = {}
=============================================================================
