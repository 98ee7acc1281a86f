------------------------ MODULE VerifiedDealsProofs ------------------------
(* Proofs about the market composed with the verified registry.             *)
EXTENDS VerifiedDeals, MarketProofs

USE SMTT(40), ZenonT(40)

-----------------------------------------------------------------------------
(* The composition implements the market.                                   *)

\* A step of the composition is a step of the market or leaves it alone.
LEMMA StepOfMarket == [VNext]_allVars => [Next]_vars
<1> SUFFICES ASSUME [VNext]_allVars PROVE [Next]_vars
  OBVIOUS
<1>1. CASE MarketAlone
  BY <1>1 DEF MarketAlone, Next
<1>2. CASE RegistryAlone
  BY <1>2 DEF RegistryAlone
<1>3. CASE \E deals \in Batches : VPublishStorageDeals(deals)
  BY <1>3 DEF VPublishStorageDeals, Next
<1>4. ASSUME NEW inBounds \in BOOLEAN, VFilterDeal(inBounds) PROVE [Next]_vars
  <2>1. \E ok \in BOOLEAN : FilterDeal(inBounds, ok)
    BY <1>4, ZenonT(60) DEF VFilterDeal, CanUseBytes
  <2> QED BY <2>1 DEF Next
<1>5. CASE VAbortPublish
  BY <1>5 DEF VAbortPublish, Next
<1>6. CASE \E miner \in Providers, ids \in SUBSET DOMAIN st.Proposals, expiry \in Epochs :
              VActivateDeals(miner, ids, expiry)
  BY <1>6 DEF VActivateDeals, Next
<1>7. CASE VEndCron
  BY <1>7 DEF VEndCron, Next
<1>8. CASE \E d \in restoring : VRestoreBytes(d)
  BY <1>8 DEF VRestoreBytes
<1>9. CASE UNCHANGED allVars
  BY <1>9 DEF allVars
<1> QED BY <1>1, <1>2, <1>3, <1>4, <1>5, <1>6, <1>7, <1>8, <1>9 DEF VNext

\* The market behaves as its own module says when it is the registry's real state that accepts
\* or refuses each UseBytes, so whatever is proved of the market alone holds here.
THEOREM ImplementsMarket == VSpec => Spec
<1>1. VInit => Init
  BY DEF VInit
<1> QED BY <1>1, StepOfMarket, PTL DEF VSpec, Spec

-----------------------------------------------------------------------------
(* The registry.                                                            *)

\* What every registry state satisfies, the one that an abort would bring back included.
Sound(r) ==
    /\ State(r)
    /\ RolesDisjoint(r)
    /\ DOMAIN r.Verifiers \subseteq Accounts
    /\ \A k \in DOMAIN r.RemoveDataCapProposalIDs : r.RemoveDataCapProposalIDs[k] \in Nat

Request == [verifier : Accounts, id : Nat]
Removal == [client : Accounts, requests : SUBSET Request]

\* Every request carried out has an ID below the one its verifier signs next.
IDsPassed ==
    \A i \in DOMAIN removals : \A q \in removals[i].requests :
        q.id < Lookup(reg.RemoveDataCapProposalIDs, <<q.verifier, removals[i].client>>)

InPublish == phase \in {"filter", "store"}

RegistryInv ==
    /\ Sound(reg) /\ Sound(checkpoint.reg)
    /\ removals \in Seq(Removal)
    /\ IDsPassed
    /\ RemovalOnce
    /\ InPublish => checkpoint.reg.RemoveDataCapProposalIDs = reg.RemoveDataCapProposalIDs

\* The registry is sound in the beginning.
LEMMA RegistryInvInit == VInit => RegistryInv
<1> SUFFICES ASSUME VInit PROVE RegistryInv
  OBVIOUS
<1>1. PICK r \in Registries : reg = r.state
  BY DEF VInit, RegistryInit
<1>2. Sound(reg)
  BY <1>1, RegistriesAssumption DEF Sound
<1>3. checkpoint.reg = reg /\ removals = <<>>
  BY DEF VInit, RegistryInit
<1> QED BY <1>2, <1>3 DEF RegistryInv, IDsPassed, RemovalOnce

\* UseBytes and RestoreBytes keep a registry sound and the proposal IDs as they are.
LEMMA UseBytesSound ==
    ASSUME NEW r, Sound(r), NEW client, NEW size, CanUseBytes(r, client, size)
    PROVE  /\ Sound(UseBytes(r, client, size))
           /\ UseBytes(r, client, size).RemoveDataCapProposalIDs = r.RemoveDataCapProposalIDs
<1> DEFINE u == UseBytes(r, client, size)
<1>1. /\ u.Verifiers = r.Verifiers
      /\ u.RemoveDataCapProposalIDs = r.RemoveDataCapProposalIDs
      /\ State(u)
  BY DEF UseBytes, Sound, State
<1>2. DOMAIN u.VerifiedClients \subseteq DOMAIN r.VerifiedClients
  BY DEF UseBytes, Sound, State, With, Drop, CanUseBytes, isClient
<1> HIDE DEF u
<1> QED BY <1>1, <1>2 DEF Sound, RolesDisjoint, u

\* Restoring data cap keeps the roles apart.
LEMMA RestoreBytesSound ==
    ASSUME NEW r, Sound(r), NEW client, NEW size
    PROVE  /\ Sound(RestoreBytes(r, client, size))
           /\ RestoreBytes(r, client, size).RemoveDataCapProposalIDs = r.RemoveDataCapProposalIDs
<1> DEFINE u == RestoreBytes(r, client, size)
<1>1. CASE CanRestoreBytes(r, client, size)
  <2>1. /\ u.Verifiers = r.Verifiers
        /\ u.RemoveDataCapProposalIDs = r.RemoveDataCapProposalIDs
        /\ State(u)
    BY <1>1 DEF RestoreBytes, Sound, State
  <2>2. DOMAIN u.VerifiedClients = DOMAIN r.VerifiedClients \cup {client}
    BY <1>1 DEF RestoreBytes, Sound, State, With
  <2>3. client # RootKey /\ client \notin DOMAIN r.Verifiers
    BY <1>1 DEF CanRestoreBytes, isVerifier
  <2> HIDE DEF u
  <2> QED BY <2>1, <2>2, <2>3 DEF Sound, RolesDisjoint, u
<1>2. CASE ~CanRestoreBytes(r, client, size)
  BY <1>2 DEF RestoreBytes
<1> QED BY <1>1, <1>2

\* A call that leaves the proposal IDs and the removals alone.
LEMMA SameIDs ==
    ASSUME RegistryInv, Sound(reg'), removals' = removals,
           reg'.RemoveDataCapProposalIDs = reg.RemoveDataCapProposalIDs,
           Sound((checkpoint.reg)'),
           InPublish' => (checkpoint.reg)'.RemoveDataCapProposalIDs = reg'.RemoveDataCapProposalIDs
    PROVE  RegistryInv'
BY DEF RegistryInv, IDsPassed, RemovalOnce

\* The calls of the root key and the verifiers, which change reg between messages only.
LEMMA AddVerifierSound ==
    ASSUME Sound(reg), NEW caller \in Accounts, NEW verifier \in Accounts, NEW allowance,
           AddVerifier(caller, verifier, allowance)
    PROVE  /\ Sound(reg') /\ removals' = removals
           /\ reg'.RemoveDataCapProposalIDs = reg.RemoveDataCapProposalIDs
<1>1. /\ reg'.VerifiedClients = reg.VerifiedClients
      /\ reg'.RemoveDataCapProposalIDs = reg.RemoveDataCapProposalIDs
      /\ State(reg')
      /\ DOMAIN reg'.Verifiers = DOMAIN reg.Verifiers \cup {verifier}
  BY DEF AddVerifier, Sound, State, With
<1>2. verifier # RootKey /\ verifier \notin DOMAIN reg.VerifiedClients /\ removals' = removals
  BY DEF AddVerifier, isClient
<1> QED BY <1>1, <1>2 DEF Sound, RolesDisjoint

\* Removing a verifier keeps the roles apart.
LEMMA RemoveVerifierSound ==
    ASSUME Sound(reg), NEW caller, NEW verifier, RemoveVerifier(caller, verifier)
    PROVE  /\ Sound(reg') /\ removals' = removals
           /\ reg'.RemoveDataCapProposalIDs = reg.RemoveDataCapProposalIDs
<1>1. /\ reg'.VerifiedClients = reg.VerifiedClients
      /\ reg'.RemoveDataCapProposalIDs = reg.RemoveDataCapProposalIDs
      /\ State(reg')
      /\ DOMAIN reg'.Verifiers \subseteq DOMAIN reg.Verifiers
      /\ removals' = removals
  BY DEF RemoveVerifier, Sound, State, Drop
<1> QED BY <1>1 DEF Sound, RolesDisjoint

\* Granting data cap keeps the roles apart.
LEMMA AddVerifiedClientSound ==
    ASSUME Sound(reg), NEW verifier, NEW client, NEW allowance,
           AddVerifiedClient(verifier, client, allowance)
    PROVE  /\ Sound(reg') /\ removals' = removals
           /\ reg'.RemoveDataCapProposalIDs = reg.RemoveDataCapProposalIDs
<1>1. /\ reg'.RemoveDataCapProposalIDs = reg.RemoveDataCapProposalIDs
      /\ State(reg')
      /\ DOMAIN reg'.Verifiers = DOMAIN reg.Verifiers
      /\ DOMAIN reg'.VerifiedClients = DOMAIN reg.VerifiedClients \cup {client}
  BY ZenonT(60) DEF AddVerifiedClient, Sound, State, With
<1>2. client # RootKey /\ client \notin DOMAIN reg.Verifiers /\ removals' = removals
  BY DEF AddVerifiedClient, isVerifier
<1> QED BY <1>1, <1>2 DEF Sound, RolesDisjoint

\* Using an ID raises the counter of its verifier and client and leaves the others alone.
LEMMA UseProposalID ==
    ASSUME NEW ids, \A k \in DOMAIN ids : ids[k] \in Nat, NEW v, NEW c
    PROVE  /\ \A k \in DOMAIN useProposalID(ids, v, c) : useProposalID(ids, v, c)[k] \in Nat
           /\ Lookup(useProposalID(ids, v, c), <<v, c>>) = Lookup(ids, <<v, c>>) + 1
           /\ \A k : k # <<v, c>> => Lookup(useProposalID(ids, v, c), k) = Lookup(ids, k)
BY DEF useProposalID, With, Lookup

\* A removal: both requests carry the current IDs, which no request before them has, and the
\* counters pass them.
LEMMA RemovalSound ==
    ASSUME RegistryInv, NEW caller, NEW client \in Accounts, NEW amount,
           NEW request1 \in Requests, NEW request2 \in Requests,
           RemoveVerifiedClientDataCap(caller, client, amount, request1, request2)
    PROVE  Sound(reg') /\ removals' \in Seq(Removal) /\ IDsPassed' /\ RemovalOnce'
<1> DEFINE v1 == request1.verifier
           v2 == request2.verifier
           ids == reg.RemoveDataCapProposalIDs
           once == useProposalID(ids, v1, client)
           twice == useProposalID(once, v2, client)
           new == [client |-> client, requests |-> {request1, request2}]
<1>1. request1 \in Request /\ request2 \in Request /\ new \in Removal /\ v1 # v2
  BY RegistryAssumption DEF RegistryInv, Sound, Requests, Request, Removal, RemoveVerifiedClientDataCap
<1>2. request1.id = Lookup(ids, <<v1, client>>) /\ request2.id = Lookup(ids, <<v2, client>>)
  BY DEF RemoveVerifiedClientDataCap, removeDataCapRequestIsValid
<1>3. removals' = Append(removals, new) /\ removals \in Seq(Removal)
  BY DEF RemoveVerifiedClientDataCap, RegistryInv
<1>4. /\ reg'.Verifiers = reg.Verifiers
      /\ reg'.RemoveDataCapProposalIDs = twice
      /\ State(reg')
      /\ DOMAIN reg'.VerifiedClients \subseteq DOMAIN reg.VerifiedClients
  BY ZenonT(60) DEF RemoveVerifiedClientDataCap, RegistryInv, Sound, State, With, Drop, isClient
<1>5. \A k \in DOMAIN ids : ids[k] \in Nat
  BY DEF RegistryInv, Sound
<1>6. /\ \A k \in DOMAIN once : once[k] \in Nat
      /\ Lookup(once, <<v1, client>>) = Lookup(ids, <<v1, client>>) + 1
      /\ \A k : k # <<v1, client>> => Lookup(once, k) = Lookup(ids, k)
  BY <1>5, UseProposalID
<1>7. /\ \A k \in DOMAIN twice : twice[k] \in Nat
      /\ Lookup(twice, <<v2, client>>) = Lookup(once, <<v2, client>>) + 1
      /\ \A k : k # <<v2, client>> => Lookup(twice, k) = Lookup(once, k)
  BY <1>6, UseProposalID
<1>8. \A k : Lookup(ids, k) \in Nat
  BY <1>5 DEF Lookup
<1>9. <<v1, client>> # <<v2, client>>
  BY <1>1
<1> HIDE DEF ids, once, twice
<1>10. \A k : Lookup(twice, k) \in Nat /\ Lookup(ids, k) <= Lookup(twice, k)
  <2> SUFFICES ASSUME NEW k PROVE Lookup(twice, k) \in Nat /\ Lookup(ids, k) <= Lookup(twice, k)
    OBVIOUS
  <2>1. CASE k = <<v2, client>>
    BY <2>1, <1>6, <1>7, <1>8, <1>9
  <2>2. CASE k = <<v1, client>>
    BY <2>2, <1>6, <1>7, <1>8, <1>9
  <2>3. CASE k # <<v1, client>> /\ k # <<v2, client>>
    BY <2>3, <1>6, <1>7, <1>8
  <2> QED BY <2>1, <2>2, <2>3
<1>11. request1.id < Lookup(twice, <<v1, client>>) /\ request2.id < Lookup(twice, <<v2, client>>)
  BY <1>2, <1>6, <1>7, <1>8, <1>9
<1>12. Sound(reg')
  BY <1>4, <1>7 DEF RegistryInv, Sound, RolesDisjoint
<1> HIDE DEF new
<1>13. /\ removals' \in Seq(Removal)
       /\ DOMAIN removals' = DOMAIN removals \cup {Len(removals) + 1}
       /\ removals'[Len(removals) + 1] = new
       /\ \A i \in DOMAIN removals : removals'[i] = removals[i] /\ i # Len(removals) + 1
       /\ \A i \in DOMAIN removals : removals[i] \in Removal
  BY <1>1, <1>3
<1>14. new.client = client /\ new.requests = {request1, request2}
  BY DEF new
<1>15. \A i \in DOMAIN removals : \A q \in removals[i].requests :
          q \in Request /\ q.id < Lookup(ids, <<q.verifier, removals[i].client>>)
  BY <1>13 DEF RegistryInv, IDsPassed, Removal, ids
<1>16. IDsPassed'
  <2> SUFFICES ASSUME NEW i \in DOMAIN removals', NEW q \in removals'[i].requests
               PROVE  q.id < Lookup(twice, <<q.verifier, removals'[i].client>>)
    BY <1>4, ZenonT(60) DEF IDsPassed
  <2>1. CASE i = Len(removals) + 1
    BY <2>1, <1>11, <1>13, <1>14
  <2>2. CASE i \in DOMAIN removals
    BY <2>2, <1>8, <1>10, <1>13, <1>15 DEF Request
  <2> QED BY <2>1, <2>2, <1>13
<1>17. \A i \in DOMAIN removals :
          removals[i].client = client => removals[i].requests \cap {request1, request2} = {}
  BY <1>1, <1>2, <1>8, <1>15 DEF Request
<1>18. RemovalOnce'
  <2> SUFFICES ASSUME NEW i \in DOMAIN removals', NEW j \in DOMAIN removals', i # j,
                      removals'[i].client = removals'[j].client
               PROVE  removals'[i].requests \cap removals'[j].requests = {}
    BY DEF RemovalOnce
  <2>1. CASE i \in DOMAIN removals /\ j \in DOMAIN removals
    BY <2>1, <1>13 DEF RegistryInv, RemovalOnce
  <2>2. CASE i = Len(removals) + 1 /\ j \in DOMAIN removals
    BY <2>2, <1>13, <1>14, <1>17
  <2>3. CASE j = Len(removals) + 1 /\ i \in DOMAIN removals
    BY <2>3, <1>13, <1>14, <1>17
  <2> QED BY <2>1, <2>2, <2>3, <1>13
<1> QED BY <1>12, <1>13, <1>16, <1>18

\* Only PublishStorageDeals enters its phases.
LEMMA PublishPhases == MarketAlone /\ InPublish' => InPublish
BY ZenonT(60) DEF MarketAlone, InPublish, AddBalance, WithdrawBalance, OpenPublish, StoreDeal, CommitPublish,
       OnMinerSectorsTerminate, CronTick, TimeOutDeal, UpdateDeal, NextEpoch, Horizon, vars

\* Every step of the composition keeps the registry sound.
LEMMA RegistryInvStep == RegistryInv /\ [VNext]_allVars => RegistryInv'
<1> SUFFICES ASSUME RegistryInv, [VNext]_allVars PROVE RegistryInv'
  OBVIOUS
<1>0. Sound(reg) /\ Sound(checkpoint.reg)
  BY DEF RegistryInv
<1>1. CASE MarketAlone
  <2>1. UNCHANGED <<reg, removals, checkpoint>>
    BY <1>1 DEF MarketAlone, registryVars, registry
  <2> QED BY <1>1, <2>1, <1>0, PublishPhases, SameIDs DEF RegistryInv
<1>2. CASE RegistryAlone
  <2>1. ~InPublish' /\ checkpoint' = checkpoint
    BY <1>2 DEF RegistryAlone, InPublish, vars
  <2>2. CASE \E caller, verifier \in Accounts, allowance \in Allowances :
                AddVerifier(caller, verifier, allowance)
    BY <2>1, <2>2, <1>0, AddVerifierSound, SameIDs
  <2>3. CASE \E caller, verifier \in Accounts : RemoveVerifier(caller, verifier)
    BY <2>1, <2>3, <1>0, RemoveVerifierSound, SameIDs
  <2>4. CASE \E verifier, client \in Accounts, allowance \in Allowances :
                AddVerifiedClient(verifier, client, allowance)
    BY <2>1, <2>4, <1>0, AddVerifiedClientSound, SameIDs
  <2>5. CASE \E caller, client \in Accounts, amount \in Allowances, request1, request2 \in Requests :
                RemoveVerifiedClientDataCap(caller, client, amount, request1, request2)
    <3>1. Sound(reg') /\ removals' \in Seq(Removal) /\ IDsPassed' /\ RemovalOnce'
      BY <2>5, RemovalSound
    <3> QED BY <3>1, <2>1, <1>0 DEF RegistryInv
  <2> QED BY <1>2, <2>2, <2>3, <2>4, <2>5 DEF RegistryAlone, RegistryNext
<1>3. CASE \E deals \in Batches : VPublishStorageDeals(deals)
  <2>1. UNCHANGED <<reg, removals>> /\ (checkpoint.reg)' = reg
    BY <1>3 DEF VPublishStorageDeals, registry
  <2> QED BY <2>1, <1>0, SameIDs
<1>4. CASE \E inBounds \in BOOLEAN : VFilterDeal(inBounds)
  <2>1. UNCHANGED <<removals, checkpoint, phase>>
    BY <1>4 DEF VFilterDeal, FilterDeal
  <2>2. Sound(reg') /\ reg'.RemoveDataCapProposalIDs = reg.RemoveDataCapProposalIDs
    <3>1. \/ reg' = reg
          \/ \E client, size : CanUseBytes(reg, client, size) /\ reg' = UseBytes(reg, client, size)
      BY <1>4 DEF VFilterDeal, AcquireDataCap
    <3> QED BY <3>1, <1>0, UseBytesSound
  <2> QED BY <2>1, <2>2, <1>0, SameIDs DEF RegistryInv, InPublish
<1>5. CASE VAbortPublish
  <2>1. InPublish /\ ~InPublish' /\ reg' = checkpoint.reg /\ UNCHANGED <<removals, checkpoint>>
    BY <1>5 DEF VAbortPublish, AbortPublish, PublishFails, InPublish
  <2> QED BY <2>1, <1>0, SameIDs DEF RegistryInv
<1>6. CASE \E miner \in Providers, ids \in SUBSET DOMAIN st.Proposals, expiry \in Epochs :
              VActivateDeals(miner, ids, expiry)
  <2>1. UNCHANGED <<reg, removals, checkpoint, phase>>
    BY <1>6 DEF VActivateDeals, ActivateDeals, registry
  <2> QED BY <2>1, <1>0, SameIDs DEF RegistryInv, InPublish
<1>7. CASE VEndCron
  <2>1. UNCHANGED <<reg, removals, checkpoint>> /\ ~InPublish'
    BY <1>7 DEF VEndCron, EndCron, AbortCron, CommitCron, registry, InPublish
  <2> QED BY <2>1, <1>0, SameIDs
<1>8. CASE \E d \in restoring : VRestoreBytes(d)
  <2>1. UNCHANGED <<removals, checkpoint, phase>>
    BY <1>8 DEF VRestoreBytes, vars
  <2>2. \E client, size : reg' = RestoreBytes(reg, client, size)
    BY <1>8 DEF VRestoreBytes
  <2>3. Sound(reg') /\ reg'.RemoveDataCapProposalIDs = reg.RemoveDataCapProposalIDs
    BY <2>2, <1>0, RestoreBytesSound
  <2> QED BY <2>1, <2>3, <1>0, SameIDs DEF RegistryInv, InPublish
<1>9. CASE UNCHANGED allVars
  <2>1. UNCHANGED <<reg, removals, checkpoint, phase>>
    BY <1>9 DEF allVars, registry, vars
  <2> QED BY <2>1, <1>0, SameIDs DEF RegistryInv, InPublish
<1> QED BY <1>1, <1>2, <1>3, <1>4, <1>5, <1>6, <1>7, <1>8, <1>9 DEF VNext

\* The registry is always sound.
LEMMA RegistryInvAlways == VSpec => []RegistryInv
BY RegistryInvInit, RegistryInvStep, PTL DEF VSpec

\* Whatever the root key, the verifiers and the market do, and whichever of the market's messages
\* are undone, verifiers, verified clients and the root key holder stay different actors.
THEOREM RolesStayDisjoint == VSpec => []VerifierNotClient
<1>1. RegistryInv => VerifierNotClient
  BY DEF RegistryInv, Sound, VerifierNotClient
<1> QED BY <1>1, RegistryInvAlways, PTL

\* A signed removal proposal is never used twice, however often verifiers and clients are removed
\* and added again, because the ID counters are never reset.
THEOREM NoReplay == VSpec => []RemovalOnce
<1>1. RegistryInv => RemovalOnce
  BY DEF RegistryInv
<1> QED BY <1>1, RegistryInvAlways, PTL

-----------------------------------------------------------------------------
(* Data cap.  Of what was granted to a client, what is neither its cap nor  *)
(* removed nor lost is in deals: in those that are live or were activated,  *)
(* in those that timed out and await RestoreBytes, and during               *)
(* PublishStorageDeals in those of the batch.                               *)

Ledger == [Accounts -> [granted : Int, removed : Int, lost : Int]]

Caps(r) == \A a \in DOMAIN r.VerifiedClients : r.VerifiedClients[a] \in Int

\* What of c's data cap is out, in deals, according to the registry.
Out(r, l, c) == l[c].granted - l[c].removed - l[c].lost - Lookup(r.VerifiedClients, c)

\* What the deal p holds of c's data cap, and what the deals F hold.
Holds(p, c) == IF p.VerifiedDeal /\ p.Client = c THEN PieceSize[p] ELSE 0
Held(F, c) ==
    SumOf([d \in DOMAIN F |-> PieceSize[F[d]]], {d \in DOMAIN F : F[d].VerifiedDeal /\ F[d].Client = c})

\* The deals that hold data cap, those that the transaction in progress adds, and the batch.
HoldingIDs == DOMAIN st.Proposals \cup activated \cup {r[1] : r \in restoring}
Holding == [d \in HoldingIDs |-> book[d].deal]
Stored == [d \in HoldingIDs \cup DOMAIN msm.Proposals |->
              IF d \in DOMAIN book THEN book[d].deal ELSE msm.Proposals[d]]
InBatch == [p \in {call.validDeals[i] : i \in 1 .. Len(call.validDeals)} |-> p]

\* Live deals are on the books, and the activated ones of them are those with a state.
OnBooks(s) ==
    \A d \in DOMAIN s.Proposals : /\ d \in DOMAIN book /\ book[d].deal = s.Proposals[d]
                                  /\ d \in activated <=> d \in DOMAIN s.States

\* A deal that awaits RestoreBytes: verified, over, and never activated.
Restorable(r, live) ==
    /\ r = <<r[1], r[2]>> /\ r[1] \in DOMAIN book \ (live \cup activated)
    /\ r[2] = book[r[1]].deal /\ r[2].VerifiedDeal

\* The transaction of PublishStorageDeals adds deals.
StoreAdds ==
    /\ st.NextID <= msm.NextID
    /\ DOMAIN msm.Proposals = DOMAIN st.Proposals \cup (st.NextID .. msm.NextID - 1)
    /\ \A d \in DOMAIN st.Proposals : msm.Proposals[d] = st.Proposals[d]

\* The transaction of CronTick drops deals, and lists the verified ones that timed out.
CronDrops ==
    /\ OnBooks(msm)
    /\ DOMAIN msm.Proposals \subseteq DOMAIN st.Proposals /\ msm.NextID = st.NextID
    /\ DOMAIN call.book = DOMAIN book
    /\ \A d \in DOMAIN book : call.book[d].deal = book[d].deal
    /\ \A r \in call.timedOutVerifiedDeals :
          Restorable(r, DOMAIN msm.Proposals) /\ r[1] \in DOMAIN st.Proposals
    /\ \A d \in DOMAIN st.Proposals \ (DOMAIN msm.Proposals \cup activated) :
          book[d].deal.VerifiedDeal => <<d, book[d].deal>> \in call.timedOutVerifiedDeals

TrackInv ==
    /\ OnBooks(st)
    /\ activated \subseteq DOMAIN book
    /\ \A d \in DOMAIN book : d < st.NextID
    /\ \A r \in restoring : Restorable(r, DOMAIN st.Proposals)
    /\ phase # "ticked" => restoring = {}
    /\ phase = "store" => StoreAdds
    /\ phase = "cron" => CronDrops

CapTypes ==
    /\ Caps(reg) /\ Caps(checkpoint.reg)
    /\ ledger \in Ledger /\ checkpoint.ledger \in Ledger

CapInv ==
    /\ CapTypes
    /\ phase = "filter" =>
        \A c \in Clients : Out(reg, ledger, c) = Held(Holding, c) + Held(InBatch, c)
    /\ phase = "store" =>
        \A c \in Clients : Out(reg, ledger, c) = Held(Stored, c) + Held(InBatch, c)
    /\ ~InPublish => \A c \in Clients : Out(reg, ledger, c) = Held(Holding, c)
    /\ InPublish => \A c \in Clients : Out(checkpoint.reg, checkpoint.ledger, c) = Held(Holding, c)

\* The entries of a ledger are numbers.
LEMMA LedgerTypes ==
    \A l \in Ledger, c \in Accounts : l[c].granted \in Int /\ l[c].removed \in Int /\ l[c].lost \in Int
BY DEF Ledger

\* So is what a table of caps has for an account.
LEMMA CapsLookup == ASSUME NEW r, NEW c, Caps(r) PROVE Lookup(r.VerifiedClients, c) \in Int
BY DEF Caps, Lookup

\* What is out, and what is not, was granted.
LEMMA WhereGranted ==
    ASSUME NEW r, NEW l \in Ledger, NEW c \in Accounts, NEW spent \in Int, Caps(r), Out(r, l, c) = spent
    PROVE  l[c].granted = Lookup(r.VerifiedClients, c) + spent + l[c].removed + l[c].lost
<1>1. l[c].granted \in Int /\ l[c].removed \in Int /\ l[c].lost \in Int
  BY LedgerTypes
<1>2. Lookup(r.VerifiedClients, c) \in Int
  BY CapsLookup
<1> QED BY <1>1, <1>2 DEF Out

\* A range that ends before n does not have n.
LEMMA NotBelowItself == \A a, n \in Nat : n \notin a .. n - 1
OBVIOUS

\* What deals hold depends on the verified ones only.
LEMMA HeldSame ==
    ASSUME NEW F, NEW G, NEW c, IsFiniteSet(DOMAIN F),
           {d \in DOMAIN F : F[d].VerifiedDeal} = {d \in DOMAIN G : G[d].VerifiedDeal},
           \A d \in DOMAIN F : F[d].VerifiedDeal => G[d] = F[d]
    PROVE  Held(G, c) = Held(F, c)
<1> DEFINE f == [d \in DOMAIN F |-> PieceSize[F[d]]]
           g == [d \in DOMAIN G |-> PieceSize[G[d]]]
           S == {d \in DOMAIN F : F[d].VerifiedDeal /\ F[d].Client = c}
           T == {d \in DOMAIN G : G[d].VerifiedDeal /\ G[d].Client = c}
<1>1. S = T /\ \A d \in S : f[d] = g[d]
  OBVIOUS
<1>2. IsFiniteSet(S)
  BY FiniteSubset
<1>3. Held(F, c) = SumOf(f, S) /\ Held(G, c) = SumOf(g, T)
  BY DEF Held
<1> HIDE DEF f, g, S, T
<1> QED BY <1>1, <1>2, <1>3, SumSame

\* The deals G are the deals F and one more, x.
OneMore(F, G, x) ==
    /\ IsFiniteSet(DOMAIN F) /\ x \notin DOMAIN F
    /\ DOMAIN G = DOMAIN F \cup {x} /\ G[x] \in Offers
    /\ \A d \in DOMAIN F : F[d] \in Offers /\ G[d] = F[d]

\* Of every client's data cap, the deals G hold what the deals F do and what the deal p does.
HoldMore(F, G, p) ==
    \A c : /\ Held(F, c) \in Int /\ Holds(p, c) \in Int
           /\ Held(G, c) = Held(F, c) + Holds(p, c)

\* One more deal adds what it holds.
LEMMA HeldInsert == ASSUME NEW F, NEW G, NEW x, OneMore(F, G, x) PROVE HoldMore(F, G, G[x])
<1> SUFFICES ASSUME NEW c
             PROVE  /\ Held(F, c) \in Int /\ Holds(G[x], c) \in Int
                    /\ Held(G, c) = Held(F, c) + Holds(G[x], c)
  BY ZenonT(60) DEF HoldMore
<1> DEFINE f == [d \in DOMAIN F |-> PieceSize[F[d]]]
           g == [d \in DOMAIN G |-> PieceSize[G[d]]]
           S == {d \in DOMAIN F : F[d].VerifiedDeal /\ F[d].Client = c}
           T == {d \in DOMAIN G : G[d].VerifiedDeal /\ G[d].Client = c}
<1> USE DEF OneMore
<1>1. /\ \A d \in S : f[d] \in Int /\ g[d] = f[d]
      /\ g[x] = PieceSize[G[x]] /\ PieceSize[G[x]] \in Int
      /\ x \notin S
  BY PieceSizeAssumption
<1>2. T = IF G[x].VerifiedDeal /\ G[x].Client = c THEN S \cup {x} ELSE S
  OBVIOUS
<1>3. IsFiniteSet(S)
  BY FiniteSubset
<1>4. Held(F, c) = SumOf(f, S) /\ Held(G, c) = SumOf(g, T)
  BY DEF Held
<1> HIDE DEF f, g, S, T
<1>5. SumOf(f, S) \in Int /\ SumOf(g, S) = SumOf(f, S)
  BY <1>1, <1>3, SumInt, SumSame
<1>6. SumOf(g, S \cup {x}) = SumOf(f, S) + g[x]
  BY <1>1, <1>3, SumInsert
<1> QED BY <1>1, <1>2, <1>4, <1>5, <1>6 DEF Holds

\* No deals hold nothing.
LEMMA HeldNone == \A F, c : DOMAIN F = {} => Held(F, c) = 0
<1> SUFFICES ASSUME NEW F, NEW c, DOMAIN F = {} PROVE Held(F, c) = 0
  OBVIOUS
<1>1. {d \in DOMAIN F : F[d].VerifiedDeal /\ F[d].Client = c} = {}
  OBVIOUS
<1> QED BY <1>1, SumEmpty DEF Held

\* A new entry of one account changes what is out of that account only.
LEMMA OutChange ==
    ASSUME Caps(reg), NEW x \in Accounts, NEW cap \in Int,
           \/ reg'.VerifiedClients = With(reg.VerifiedClients, x, cap)
           \/ reg'.VerifiedClients = Drop(reg.VerifiedClients, x) /\ cap = 0
           \/ reg'.VerifiedClients = reg.VerifiedClients /\ cap = Lookup(reg.VerifiedClients, x),
           \A c \in Accounts \ {x} : ledger'[c] = ledger[c]
    PROVE  /\ Caps(reg') /\ Lookup(reg'.VerifiedClients, x) = cap
           /\ \A c \in Accounts \ {x} : Out(reg', ledger', c) = Out(reg, ledger, c)
<1>1. Caps(reg') /\ Lookup(reg'.VerifiedClients, x) = cap
  BY DEF Caps, Lookup, With, Drop
<1>2. \A c \in Accounts \ {x} : Lookup(reg'.VerifiedClients, c) = Lookup(reg.VerifiedClients, c)
  BY DEF Lookup, With, Drop
<1> QED BY <1>1, <1>2 DEF Out

\* UseBytes moves the deal's size out of the client's cap, and a remainder too small for any deal
\* is lost.
LEMMA AcquireOut ==
    ASSUME Sound(reg), Caps(reg), ledger \in Ledger, NEW deal \in Offers,
           CanUseBytes(reg, deal.Client, PieceSize[deal]), AcquireDataCap(deal)
    PROVE  /\ Caps(reg') /\ ledger' \in Ledger
           /\ \A c \in Accounts : /\ Out(reg, ledger, c) \in Int
                                  /\ Out(reg', ledger', c) = Out(reg, ledger, c)
                                        + (IF c = deal.Client THEN PieceSize[deal] ELSE 0)
<1> DEFINE x == deal.Client
           size == PieceSize[deal]
           had == reg.VerifiedClients[x]
           cap == IF had - size < MinVerifiedDealSize THEN 0 ELSE had - size
           lost == ledger[x].lost + Remainder(had, size)
<1>1. x \in Accounts /\ size \in Nat
  BY PieceSizeAssumption, ClientsAssumption, OffersAssumption DEF DealProposal
<1>2. had \in Int /\ Lookup(reg.VerifiedClients, x) = had
  BY DEF CanUseBytes, isClient, Caps, Lookup
<1>3. \/ reg'.VerifiedClients = With(reg.VerifiedClients, x, cap)
      \/ reg'.VerifiedClients = Drop(reg.VerifiedClients, x) /\ cap = 0
  BY DEF AcquireDataCap, UseBytes, Sound, State
<1>4. ledger' = [ledger EXCEPT ![x].lost = lost]
  BY DEF AcquireDataCap
<1>5. cap \in Int /\ \A c \in Accounts : Out(reg, ledger, c) \in Int
  BY <1>1, <1>2, RegistryAssumption DEF Caps, Ledger, Out, Lookup
<1> HIDE DEF cap, had, size, x
<1>6. Lookup(reg'.VerifiedClients, x) = cap
  BY <1>1, <1>3 DEF Lookup, With, Drop
<1>7. lost = ledger[x].lost + had - size - cap /\ lost \in Int
  BY <1>1, <1>2, <1>5, RegistryAssumption DEF Ledger, Remainder, cap, size
<1> HIDE DEF lost
<1>8. /\ ledger' \in Ledger /\ \A c \in Accounts \ {x} : ledger'[c] = ledger[c]
      /\ ledger[x].granted \in Int /\ ledger[x].removed \in Int /\ ledger[x].lost \in Int
      /\ ledger'[x].granted = ledger[x].granted /\ ledger'[x].removed = ledger[x].removed
      /\ ledger'[x].lost = lost
  BY <1>1, <1>4, <1>7 DEF Ledger
<1>9. Caps(reg') /\ \A c \in Accounts \ {x} : Out(reg', ledger', c) = Out(reg, ledger, c)
  BY <1>1, <1>3, <1>5, <1>8, OutChange
<1>10. Out(reg', ledger', x) = Out(reg, ledger, x) + size
  BY <1>1, <1>2, <1>5, <1>6, <1>7, <1>8 DEF Out
<1> QED BY <1>5, <1>8, <1>9, <1>10 DEF x, size

\* RestoreBytes takes the deal's size back in, or it is lost.
LEMMA RestoreOut ==
    ASSUME Sound(reg), Caps(reg), ledger \in Ledger, NEW d, d[2] \in Offers, VRestoreBytes(d)
    PROVE  /\ Caps(reg') /\ ledger' \in Ledger
           /\ \A c \in Accounts : /\ Out(reg, ledger, c) \in Int
                                  /\ Out(reg', ledger', c) = Out(reg, ledger, c)
                                        - (IF c = d[2].Client THEN PieceSize[d[2]] ELSE 0)
<1> DEFINE x == d[2].Client
           size == PieceSize[d[2]]
           can == CanRestoreBytes(reg, x, size)
           had == Lookup(reg.VerifiedClients, x)
           cap == IF can THEN had + size ELSE had
           lost == ledger[x].lost + (IF can THEN 0 ELSE size)
<1>1. x \in Accounts /\ size \in Nat
  BY PieceSizeAssumption, ClientsAssumption, OffersAssumption DEF DealProposal
<1>2. reg' = RestoreBytes(reg, x, size) /\ ledger' = [ledger EXCEPT ![x].lost = lost]
  BY ZenonT(60) DEF VRestoreBytes
<1>3. \/ reg'.VerifiedClients = With(reg.VerifiedClients, x, cap)
      \/ reg'.VerifiedClients = reg.VerifiedClients /\ cap = had
  BY <1>2 DEF RestoreBytes, Sound, State
<1>4. had \in Int /\ \A c \in Accounts : Out(reg, ledger, c) \in Int
  BY <1>1 DEF Caps, Ledger, Out, Lookup
<1> HIDE DEF x, size, had
<1>5. cap \in Int /\ lost \in Int /\ cap + lost = had + ledger[x].lost + size
  BY <1>1, <1>4 DEF Ledger
<1> HIDE DEF cap, lost
<1>6. /\ ledger' \in Ledger /\ \A c \in Accounts \ {x} : ledger'[c] = ledger[c]
      /\ ledger[x].granted \in Int /\ ledger[x].removed \in Int /\ ledger[x].lost \in Int
      /\ ledger'[x].granted = ledger[x].granted /\ ledger'[x].removed = ledger[x].removed
      /\ ledger'[x].lost = lost
  BY <1>1, <1>2, <1>5 DEF Ledger
<1>7. /\ Caps(reg') /\ Lookup(reg'.VerifiedClients, x) = cap
      /\ \A c \in Accounts \ {x} : Out(reg', ledger', c) = Out(reg, ledger, c)
  BY <1>1, <1>3, <1>5, <1>6, OutChange DEF had
<1>8. Out(reg', ledger', x) = Out(reg, ledger, x) - size
  BY <1>1, <1>4, <1>5, <1>6, <1>7 DEF Out, had
<1> QED BY <1>4, <1>6, <1>7, <1>8 DEF x, size

\* The calls of the root key and the verifiers change nothing of what is out: a grant goes to the
\* cap, and a removal comes from it.
LEMMA RegistryOut ==
    ASSUME Sound(reg), Caps(reg), ledger \in Ledger, RegistryNext
    PROVE  /\ Caps(reg') /\ ledger' \in Ledger
           /\ \A c \in Accounts : Out(reg', ledger', c) = Out(reg, ledger, c)
<1>1. CASE \/ \E caller, verifier \in Accounts, allowance \in Allowances :
                    AddVerifier(caller, verifier, allowance)
           \/ \E caller, verifier \in Accounts : RemoveVerifier(caller, verifier)
  <2>1. reg'.VerifiedClients = reg.VerifiedClients /\ ledger' = ledger
    BY <1>1 DEF AddVerifier, RemoveVerifier, Sound, State
  <2> QED BY <2>1 DEF Caps, Out
<1>2. ASSUME NEW verifier \in Accounts, NEW x \in Accounts, NEW allowance \in Allowances,
             AddVerifiedClient(verifier, x, allowance)
      PROVE  /\ Caps(reg') /\ ledger' \in Ledger
             /\ \A c \in Accounts : Out(reg', ledger', c) = Out(reg, ledger, c)
  <2> DEFINE had == Lookup(reg.VerifiedClients, x)
             cap == had + allowance
             granted == ledger[x].granted + allowance
  <2>1. had \in Int /\ cap \in Int /\ granted \in Int /\ allowance \in Int
    BY RegistryAssumption DEF Caps, Ledger, Lookup
  <2>2. /\ reg'.VerifiedClients = With(reg.VerifiedClients, x, cap)
        /\ ledger' = [ledger EXCEPT ![x].granted = granted]
    BY <1>2 DEF AddVerifiedClient, Sound, State
  <2> HIDE DEF had, cap, granted
  <2>3. /\ ledger' \in Ledger /\ \A c \in Accounts \ {x} : ledger'[c] = ledger[c]
        /\ ledger[x].granted \in Int /\ ledger[x].removed \in Int /\ ledger[x].lost \in Int
        /\ ledger'[x].granted = granted /\ ledger'[x].removed = ledger[x].removed
        /\ ledger'[x].lost = ledger[x].lost
    BY <2>1, <2>2 DEF Ledger
  <2>4. /\ Caps(reg') /\ Lookup(reg'.VerifiedClients, x) = cap
        /\ \A c \in Accounts \ {x} : Out(reg', ledger', c) = Out(reg, ledger, c)
    BY <2>1, <2>2, <2>3, OutChange, ZenonT(60)
  <2>5. Out(reg', ledger', x) = Out(reg, ledger, x)
    BY <2>1, <2>3, <2>4 DEF Out, cap, granted, had
  <2> QED BY <2>3, <2>4, <2>5
<1>3. ASSUME NEW caller, NEW x \in Accounts, NEW amount \in Allowances, NEW request1, NEW request2,
             RemoveVerifiedClientDataCap(caller, x, amount, request1, request2)
      PROVE  /\ Caps(reg') /\ ledger' \in Ledger
             /\ \A c \in Accounts : Out(reg', ledger', c) = Out(reg, ledger, c)
  <2> DEFINE had == reg.VerifiedClients[x]
             cap == IF had <= amount THEN 0 ELSE had - amount
             removed == ledger[x].removed + (IF had <= amount THEN had ELSE amount)
  <2>1. had \in Int /\ Lookup(reg.VerifiedClients, x) = had /\ amount \in Int
    BY <1>3, RegistryAssumption DEF RemoveVerifiedClientDataCap, isClient, Caps, Lookup
  <2>2. /\ \/ reg'.VerifiedClients = With(reg.VerifiedClients, x, cap)
           \/ reg'.VerifiedClients = Drop(reg.VerifiedClients, x) /\ cap = 0
        /\ ledger' = [ledger EXCEPT ![x].removed = removed]
    BY <1>3 DEF RemoveVerifiedClientDataCap, Sound, State
  <2> HIDE DEF had
  <2>3. cap \in Int /\ removed \in Int /\ cap + removed = had + ledger[x].removed
    BY <2>1 DEF Ledger
  <2> HIDE DEF cap, removed
  <2>4. /\ ledger' \in Ledger /\ \A c \in Accounts \ {x} : ledger'[c] = ledger[c]
        /\ ledger[x].granted \in Int /\ ledger[x].removed \in Int /\ ledger[x].lost \in Int
        /\ ledger'[x].granted = ledger[x].granted /\ ledger'[x].removed = removed
        /\ ledger'[x].lost = ledger[x].lost
    BY <2>2, <2>3 DEF Ledger
  <2>5. /\ Caps(reg') /\ Lookup(reg'.VerifiedClients, x) = cap
        /\ \A c \in Accounts \ {x} : Out(reg', ledger', c) = Out(reg, ledger, c)
    BY <2>2, <2>3, <2>4, OutChange, ZenonT(60)
  <2>6. Out(reg', ledger', x) = Out(reg, ledger, x)
    BY <2>1, <2>3, <2>4, <2>5 DEF Out
  <2> QED BY <2>4, <2>5, <2>6
<1> QED BY <1>1, <1>2, <1>3 DEF RegistryNext

-----------------------------------------------------------------------------
(* The deals that hold data cap.                                            *)

\* What is on the books is well formed, and there is only so much of it.
LEMMA BooksTypes ==
    ASSUME TypeInv
    PROVE  /\ IsFiniteSet(DOMAIN book)
           /\ \A d \in DOMAIN book : d \in Nat /\ book[d].deal \in Offers
           /\ st \in MarketState /\ st.NextID \in Nat
<1>1. /\ DOMAIN book \subseteq DealIDs /\ \A d \in DOMAIN book : book[d] \in BookEntry
  BY PartialFunctionType DEF TypeInv, Book
<1>2. st \in MarketState /\ st.NextID \in Nat
  BY DEF TypeInv, TypeOK, MarketState
<1>3. IsFiniteSet(DOMAIN book)
  BY <1>1, FiniteSets, FiniteSubset, Zenon
<1> QED BY <1>1, <1>2, <1>3, EpochTypes, ZenonT(60) DEF BookEntry

\* No deals, and nothing to account for, in the beginning.
LEMMA TrackInit == VInit => TrackInv
<1> SUFFICES ASSUME VInit PROVE TrackInv
  OBVIOUS
<1>1. phase = "messages" /\ restoring = {} /\ activated = {} /\ DOMAIN st.Proposals = {} /\ DOMAIN book = {}
  BY DEF VInit, Init
<1> QED BY <1>1 DEF TrackInv, OnBooks

\* A step that leaves the deals alone.
LEMMA TrackSame ==
    ASSUME TrackInv, UNCHANGED <<book, activated, restoring>>,
           st'.Proposals = st.Proposals, DOMAIN st'.States = DOMAIN st.States, st'.NextID = st.NextID,
           phase' # "ticked" => restoring = {},
           phase' = "store" => StoreAdds', phase' = "cron" => CronDrops'
    PROVE  TrackInv'
BY DEF TrackInv, OnBooks, Restorable

\* StoreDeal adds a deal under a new ID.
LEMMA StoreTracked ==
    ASSUME TypeInv, TrackInv, StoreDeal
    PROVE  StoreAdds'
<1>1. /\ phase = "store" /\ st' = st /\ StoreEffect
  BY StoreType DEF StoreDeal
<1>2. /\ msm'.NextID = msm.NextID + 1 /\ DOMAIN msm'.Proposals = DOMAIN msm.Proposals \cup {msm.NextID}
      /\ \A d \in DOMAIN msm.Proposals : d # msm.NextID => msm'.Proposals[d] = msm.Proposals[d]
  BY <1>1 DEF StoreEffect, Put
<1>3. msm.NextID \in Nat /\ st.NextID \in Nat
  BY <1>1 DEF TypeInv, TypeOK, MarketState
<1>4. /\ st.NextID <= msm.NextID
      /\ DOMAIN msm.Proposals = DOMAIN st.Proposals \cup (st.NextID .. msm.NextID - 1)
      /\ \A d \in DOMAIN st.Proposals : msm.Proposals[d] = st.Proposals[d]
  BY <1>1 DEF TrackInv, StoreAdds
<1>5. \A d \in DOMAIN st.Proposals : d \in Nat /\ d < st.NextID
  BY BooksTypes DEF TrackInv, OnBooks
<1>6. /\ st.NextID <= msm.NextID + 1
      /\ DOMAIN st.Proposals \cup (st.NextID .. msm.NextID - 1) \cup {msm.NextID}
           = DOMAIN st.Proposals \cup (st.NextID .. (msm.NextID + 1) - 1)
      /\ \A d \in DOMAIN st.Proposals : d # msm.NextID
  BY <1>3, <1>4, <1>5
<1> QED BY <1>1, <1>2, <1>4, <1>6 DEF StoreAdds

\* CommitPublish puts the new deals on the books.
LEMMA CommitTracked ==
    ASSUME TypeInv, DealsInv, TrackInv, CommitPublish, UNCHANGED <<activated, restoring>>
    PROVE  TrackInv'
<1>1. /\ phase = "store" /\ phase' = "messages" /\ st' = msm
      /\ DOMAIN book' = DOMAIN book \cup (st.NextID .. msm.NextID - 1)
      /\ \A d \in DOMAIN book : book'[d] = book[d]
      /\ \A d \in (st.NextID .. msm.NextID - 1) \ DOMAIN book : book'[d].deal = msm.Proposals[d]
  BY DEF CommitPublish
<1>2. /\ st.NextID <= msm.NextID
      /\ DOMAIN msm.Proposals = DOMAIN st.Proposals \cup (st.NextID .. msm.NextID - 1)
      /\ \A d \in DOMAIN st.Proposals : msm.Proposals[d] = st.Proposals[d]
      /\ msm.States = st.States /\ DOMAIN st.States \subseteq DOMAIN st.Proposals
  BY <1>1, ZenonT(60) DEF TrackInv, StoreAdds, DealsInv, DealsOK, WellFormed
<1>3. /\ msm.NextID \in Nat /\ st.NextID \in Nat
      /\ \A d \in DOMAIN book : d \in Nat /\ d < st.NextID
  BY <1>1, BooksTypes, ZenonT(60) DEF TypeInv, TypeOK, MarketState, TrackInv
<1>4. /\ \A d \in DOMAIN book' : d < msm.NextID
      /\ \A d \in st.NextID .. msm.NextID - 1 : d \notin DOMAIN book
  BY <1>1, <1>2, <1>3
<1>5. activated \subseteq DOMAIN book /\ OnBooks(st) /\ restoring = {}
  BY <1>1 DEF TrackInv
<1>6. OnBooks(st)'
  BY <1>1, <1>2, <1>4, <1>5 DEF OnBooks
<1> QED BY <1>1, <1>4, <1>5, <1>6 DEF TrackInv

\* What a step of the tick leaves of the books: the entries keep their deals.
LEMMA CronBooks ==
    ASSUME TypeInv, NEW op, TimeOutDeal(op) \/ UpdateDeal(op)
    PROVE  /\ phase = "cron" /\ phase' = "cron" /\ st' = st /\ book' = book
           /\ DOMAIN call'.book = DOMAIN call.book
           /\ \A d \in DOMAIN call.book : call'.book[d].deal = call.book[d].deal
<1>1. /\ phase = "cron" /\ phase' = "cron" /\ st' = st /\ book' = book
  BY DEF TimeOutDeal, UpdateDeal
<1>2. \A d \in DOMAIN call.book : call.book[d] \in BookEntry
  BY <1>1, PartialFunctionType DEF TypeInv, CronCall, Book
<1>3. CASE TimeOutDeal(op)
  <2>1. TimeOutEffect(op)
    BY <1>3, TimeOutType
  <2> QED BY <1>1, <1>2, <2>1 DEF TimeOutEffect, BookEntry
<1>4. CASE UpdateDeal(op)
  <2>1. UpdateEffect(op)
    BY <1>4, UpdateType
  <2>2. CASE removeDeal(msm.States[op[2]], msm.Proposals[op[2]])
    <3> DEFINE earned == call.book[op[2]].earned + totalPayment(msm.States[op[2]], msm.Proposals[op[2]])
               until == IF everSlashed(msm.States[op[2]]) THEN msm.States[op[2]].SlashEpoch
                        ELSE msm.Proposals[op[2]].EndEpoch
    <3>1. call'.book = [call.book EXCEPT ![op[2]] =
                          [deal |-> call.book[op[2]].deal, earned |-> earned, until |-> until]]
      BY <2>1, <2>2 DEF UpdateEffect
    <3> HIDE DEF earned, until
    <3> QED BY <1>1, <3>1
  <2>3. CASE ~removeDeal(msm.States[op[2]], msm.Proposals[op[2]])
    <3>1. \E e : call'.book = [call.book EXCEPT ![op[2]].earned = e]
      BY <2>1, <2>3, ZenonT(60) DEF UpdateEffect
    <3> QED BY <1>1, <1>2, <3>1 DEF BookEntry
  <2> QED BY <1>1, <2>2, <2>3
<1> QED BY <1>3, <1>4

\* A deal that times out was never activated, and is listed when it is verified.
LEMMA TimeOutTracked ==
    ASSUME TypeInv, TrackInv, NEW op, TimeOutDeal(op), activated' = activated
    PROVE  CronDrops'
<1> DEFINE id == op[2]
           deal == msm.Proposals[id]
<1>1. /\ phase = "cron" /\ st' = st /\ book' = book
      /\ DOMAIN call'.book = DOMAIN call.book
      /\ \A d \in DOMAIN call.book : call'.book[d].deal = call.book[d].deal
  BY CronBooks
<1>2. /\ id \in DOMAIN msm.Proposals /\ id \notin DOMAIN msm.States /\ msm'.States = msm.States
      /\ msm'.NextID = msm.NextID
      /\ DOMAIN msm'.Proposals = DOMAIN msm.Proposals \ {id}
      /\ \A d \in DOMAIN msm'.Proposals : msm'.Proposals[d] = msm.Proposals[d]
  <2>1. TimeOutEffect(op)
    BY TimeOutType
  <2> QED BY <2>1 DEF TimeOutEffect, Without
<1>3. call'.timedOutVerifiedDeals = IF deal.VerifiedDeal
                                    THEN call.timedOutVerifiedDeals \cup {<<id, deal>>}
                                    ELSE call.timedOutVerifiedDeals
  BY <1>1 DEF TypeInv, CronCall, TimeOutDeal
<1>4. CronDrops
  BY <1>1 DEF TrackInv
<1> HIDE DEF id
<1>5. /\ id \in DOMAIN book /\ id \notin activated /\ deal = book[id].deal /\ id \in DOMAIN st.Proposals
  BY <1>2, <1>4 DEF CronDrops, OnBooks
<1> HIDE DEF deal
<1>6. OnBooks(msm)'
  BY <1>1, <1>2, <1>4 DEF CronDrops, OnBooks
<1>7. \A r \in call'.timedOutVerifiedDeals :
         Restorable(r, DOMAIN msm.Proposals)' /\ r[1] \in DOMAIN st'.Proposals
  BY <1>1, <1>2, <1>3, <1>4, <1>5 DEF CronDrops, Restorable
<1>8. \A d \in DOMAIN st.Proposals \ (DOMAIN msm'.Proposals \cup activated) :
         book[d].deal.VerifiedDeal => <<d, book[d].deal>> \in call'.timedOutVerifiedDeals
  BY <1>2, <1>3, <1>4, <1>5 DEF CronDrops
<1> QED BY <1>1, <1>2, <1>4, <1>6, <1>7, <1>8, ZenonT(60) DEF CronDrops

\* A deal that an update ends had been activated.
LEMMA UpdateTracked ==
    ASSUME TypeInv, TrackInv, NEW op, UpdateDeal(op), activated' = activated
    PROVE  CronDrops'
<1> DEFINE id == op[2]
<1>1. /\ phase = "cron" /\ st' = st /\ book' = book
      /\ DOMAIN call'.book = DOMAIN call.book
      /\ \A d \in DOMAIN call.book : call'.book[d].deal = call.book[d].deal
  BY CronBooks
<1>2. /\ id \in DOMAIN msm.Proposals /\ id \in DOMAIN msm.States /\ msm'.NextID = msm.NextID
      /\ DOMAIN msm'.Proposals \subseteq DOMAIN msm.Proposals
      /\ DOMAIN msm.Proposals \subseteq DOMAIN msm'.Proposals \cup {id}
      /\ \A d \in DOMAIN msm'.Proposals : /\ msm'.Proposals[d] = msm.Proposals[d]
                                          /\ d \in DOMAIN msm'.States <=> d \in DOMAIN msm.States
  <2>1. UpdateEffect(op)
    BY UpdateType
  <2>2. CASE removeDeal(msm.States[id], msm.Proposals[id])
    BY <2>1, <2>2 DEF UpdateEffect, Without
  <2>3. CASE ~removeDeal(msm.States[id], msm.Proposals[id])
    <3>1. /\ msm'.Proposals = msm.Proposals /\ DOMAIN msm'.States = DOMAIN msm.States
          /\ id \in DOMAIN msm.Proposals /\ id \in DOMAIN msm.States /\ msm'.NextID = msm.NextID
      BY <2>1, <2>3 DEF UpdateEffect
    <3> QED BY <3>1
  <2> QED BY <2>2, <2>3
<1>3. call'.timedOutVerifiedDeals = call.timedOutVerifiedDeals
  BY <1>1, ZenonT(60) DEF TypeInv, CronCall, UpdateDeal
<1>4. CronDrops
  BY <1>1 DEF TrackInv
<1> HIDE DEF id
<1>5. id \in activated
  BY <1>2, <1>4 DEF CronDrops, OnBooks
<1>6. OnBooks(msm)'
  BY <1>1, <1>2, <1>4 DEF CronDrops, OnBooks
<1>7. \A r \in call'.timedOutVerifiedDeals :
         Restorable(r, DOMAIN msm.Proposals)' /\ r[1] \in DOMAIN st'.Proposals
  BY <1>1, <1>2, <1>3, <1>4 DEF CronDrops, Restorable
<1>8. \A d \in DOMAIN st.Proposals \ (DOMAIN msm'.Proposals \cup activated) :
         book[d].deal.VerifiedDeal => <<d, book[d].deal>> \in call'.timedOutVerifiedDeals
  BY <1>2, <1>3, <1>4, <1>5 DEF CronDrops
<1> QED BY <1>1, <1>2, <1>4, <1>6, <1>7, <1>8 DEF CronDrops

\* The tick ends: it fails and has changed nothing, or the deals it dropped are over and those that
\* timed out await RestoreBytes.
LEMMA EndTracked ==
    ASSUME TypeInv, TrackInv, VEndCron
    PROVE  TrackInv'
<1>1. phase = "cron" /\ phase' = "ticked" /\ restoring = {} /\ CronDrops /\ activated' = activated
  BY DEF VEndCron, EndCron, AbortCron, CommitCron, CronFails, TrackInv
<1>2. CASE CronFails
  <2>1. UNCHANGED <<st, book>> /\ restoring' = {}
    BY <1>2 DEF VEndCron, EndCron, AbortCron
  <2> QED BY <1>1, <2>1, TrackSame
<1>3. CASE ~CronFails
  <2>1. book' = call.book /\ restoring' = call.timedOutVerifiedDeals
    BY <1>3 DEF VEndCron, EndCron, CommitCron
  <2>2. msm \in MarketState
    BY <1>1 DEF TypeInv, TypeOK
  <2>3. st'.Proposals = msm.Proposals /\ st'.States = msm.States /\ st'.NextID = msm.NextID
    BY <1>3, <2>2, ZenonT(60) DEF VEndCron, EndCron, CommitCron, MarketState
  <2>4. OnBooks(st)'
    BY <1>1, <2>1, <2>3 DEF CronDrops, OnBooks
  <2>5. \A r \in restoring' : Restorable(r, DOMAIN st.Proposals)'
    BY <1>1, <2>1, <2>3 DEF CronDrops, Restorable
  <2>6. activated' \subseteq DOMAIN book' /\ \A d \in DOMAIN book' : d < st'.NextID
    BY <1>1, <2>1, <2>3, ZenonT(60) DEF CronDrops, TrackInv
  <2> QED BY <1>1, <2>4, <2>5, <2>6 DEF TrackInv
<1> QED BY <1>2, <1>3

\* Every step keeps track of the deals.
LEMMA TrackStep == TypeInv /\ DealsInv /\ TrackInv /\ [VNext]_allVars => TrackInv'
<1> SUFFICES ASSUME TypeInv, DealsInv, TrackInv, [VNext]_allVars PROVE TrackInv'
  OBVIOUS
<1>0. st \in MarketState /\ OnBooks(st) /\ (phase # "ticked" => restoring = {})
  BY BooksTypes DEF TrackInv
<1>1. CASE MarketAlone
  <2>0. restoring = {} /\ UNCHANGED <<activated, restoring>>
    BY <1>1 DEF MarketAlone, registryVars
  <2>1. CASE \E a, v : AddBalance(a, v) \/ WithdrawBalance(a, v)
    <3>1. /\ phase' = "messages" /\ book' = book /\ st'.Proposals = st.Proposals
          /\ st'.States = st.States /\ st'.NextID = st.NextID
      BY <1>0, <2>1 DEF AddBalance, WithdrawBalance, MarketState
    <3> QED BY <2>0, <3>1, TrackSame
  <2>2. CASE OpenPublish \/ CronTick
    <3>1. /\ st' = st /\ msm' = st /\ book' = book
          /\ phase' = "store" \/ (phase' = "cron" /\ call'.book = book /\ call'.timedOutVerifiedDeals = {})
      BY <2>2 DEF OpenPublish, CronTick
    <3>2. StoreAdds'
      BY <1>0, <3>1 DEF StoreAdds, MarketState
    <3>3. phase' = "cron" => CronDrops'
      BY <1>0, <2>0, <3>1 DEF CronDrops, OnBooks
    <3> QED BY <2>0, <3>1, <3>2, <3>3, TrackSame
  <2>3. CASE StoreDeal
    <3>1. st' = st /\ book' = book /\ phase' = "store"
      BY <2>3 DEF StoreDeal
    <3> QED BY <2>0, <2>3, <3>1, StoreTracked, TrackSame
  <2>4. CASE CommitPublish
    BY <2>0, <2>4, CommitTracked
  <2>5. CASE \E miner, ids, e : OnMinerSectorsTerminate(miner, e, ids)
    <3>1. /\ book' = book /\ phase' = "messages"
      BY <2>5 DEF OnMinerSectorsTerminate
    <3>2. DOMAIN st'.States = DOMAIN st.States /\ st'.Proposals = st.Proposals /\ st'.NextID = st.NextID
      BY <2>5, TerminateEffect
    <3> QED BY <2>0, <3>1, <3>2, TrackSame
  <2>6. CASE \E op : TimeOutDeal(op) \/ UpdateDeal(op)
    <3>1. st' = st /\ book' = book /\ phase' = "cron"
      BY <2>6 DEF TimeOutDeal, UpdateDeal
    <3>2. CronDrops'
      BY <2>0, <2>6, TimeOutTracked, UpdateTracked
    <3> QED BY <2>0, <3>1, <3>2, TrackSame
  <2>7. CASE (\E n : NextEpoch(n)) \/ Horizon
    <3>1. st' = st /\ book' = book /\ phase' \in {"messages", "ticked"}
      BY <2>7 DEF NextEpoch, Horizon, vars
    <3> QED BY <2>0, <3>1, TrackSame
  <2> QED BY <1>1, <2>1, <2>2, <2>3, <2>4, <2>5, <2>6, <2>7 DEF MarketAlone
<1>2. CASE \/ RegistryAlone
           \/ \E deals \in Batches : VPublishStorageDeals(deals)
           \/ \E inBounds \in BOOLEAN : VFilterDeal(inBounds)
           \/ VAbortPublish
  <2>1. /\ UNCHANGED <<st, book, activated, restoring>> /\ phase # "ticked"
        /\ phase' \in {"messages", "filter"}
    BY <1>2, ZenonT(60) DEF RegistryAlone, VPublishStorageDeals, PublishStorageDeals, VFilterDeal, FilterDeal,
                VAbortPublish, AbortPublish, PublishFails, vars
  <2> QED BY <1>0, <2>1, TrackSame
<1>3. ASSUME NEW miner, NEW ids, NEW expiry, VActivateDeals(miner, ids, expiry) PROVE TrackInv'
  <2>1. /\ phase' = "messages" /\ phase = "messages" /\ UNCHANGED <<book, restoring>>
        /\ activated' = activated \cup ids /\ ActivateDeals(miner, ids, expiry)
    BY <1>3 DEF VActivateDeals, ActivateDeals
  <2>2. /\ ids \subseteq DOMAIN st.Proposals /\ DOMAIN st'.States = DOMAIN st.States \cup ids
        /\ st'.Proposals = st.Proposals /\ st'.NextID = st.NextID
    BY <2>1, ActivateEffect
  <2>3. OnBooks(st)' /\ activated' \subseteq DOMAIN book
    BY <1>0, <2>1, <2>2 DEF OnBooks, TrackInv
  <2> QED BY <1>0, <2>1, <2>2, <2>3 DEF TrackInv
<1>4. CASE VEndCron
  BY <1>4, EndTracked
<1>5. CASE \E d \in restoring : VRestoreBytes(d)
  <2>1. UNCHANGED <<st, book, phase, activated>> /\ restoring' \subseteq restoring /\ phase = "ticked"
    BY <1>0, <1>5 DEF VRestoreBytes, vars
  <2> QED BY <2>1 DEF TrackInv, OnBooks, Restorable
<1>6. CASE UNCHANGED allVars
  BY <1>6, ZenonT(60) DEF allVars, vars, TrackInv, OnBooks, Restorable, StoreAdds, CronDrops
<1> QED BY <1>1, <1>2, <1>3, <1>4, <1>5, <1>6 DEF VNext

\* What holds data cap is on the books, and there is only so much of it.
LEMMA HoldingTypes ==
    ASSUME TypeInv, TrackInv
    PROVE  /\ IsFiniteSet(HoldingIDs) /\ HoldingIDs \subseteq DOMAIN book
           /\ DOMAIN Holding = HoldingIDs
           /\ \A d \in HoldingIDs : Holding[d] = book[d].deal /\ Holding[d] \in Offers
<1>1. HoldingIDs \subseteq DOMAIN book
  BY DEF HoldingIDs, TrackInv, OnBooks, Restorable
<1>2. IsFiniteSet(HoldingIDs) /\ \A d \in DOMAIN book : book[d].deal \in Offers
  BY <1>1, BooksTypes, FiniteSubset
<1> QED BY <1>1, <1>2 DEF Holding

\* A batch is finite, and of offers.
LEMMA BatchTypes ==
    ASSUME TypeInv, InPublish
    PROVE  /\ IsFiniteSet(DOMAIN InBatch)
           /\ DOMAIN InBatch = {call.validDeals[i] : i \in 1 .. Len(call.validDeals)}
           /\ \A p \in DOMAIN InBatch : InBatch[p] = p /\ p \in Offers
<1>1. call.validDeals \in Seq(Offers)
  BY DEF TypeInv, PublishCall, InPublish
<1>2. /\ DOMAIN InBatch = {call.validDeals[i] : i \in 1 .. Len(call.validDeals)}
      /\ \A p \in DOMAIN InBatch : InBatch[p] = p /\ p \in Offers
  BY <1>1 DEF InBatch
<1>3. Len(call.validDeals) \in Nat /\ Covers(Len(call.validDeals), DOMAIN InBatch)
  BY <1>1, <1>2 DEF Covers
<1> QED BY <1>2, <1>3, FiniteCovers

\* A step outside PublishStorageDeals that leaves the registry and what is held alone.
LEMMA CapSame ==
    ASSUME CapInv, UNCHANGED <<reg, ledger, checkpoint>>, ~InPublish, ~InPublish',
           \A c \in Clients : Held(Holding', c) = Held(Holding, c)
    PROVE  CapInv'
BY DEF CapInv, CapTypes, InPublish

\* Spent is what the deals hold when none awaits RestoreBytes.
LEMMA SpentIsHeld ==
    ASSUME TypeInv, TrackInv, restoring = {}, NEW c
    PROVE  Spent(c) = Held(Holding, c)
<1> DEFINE f == [d \in DOMAIN book |-> PieceSize[book[d].deal]]
           g == [d \in DOMAIN Holding |-> PieceSize[Holding[d]]]
           S == {d \in DOMAIN book : /\ book[d].deal.VerifiedDeal /\ book[d].deal.Client = c
                                     /\ d \in DOMAIN st.Proposals \cup activated}
           T == {d \in DOMAIN Holding : Holding[d].VerifiedDeal /\ Holding[d].Client = c}
<1>1. HoldingIDs = DOMAIN st.Proposals \cup activated
  BY DEF HoldingIDs
<1>2. S = T /\ \A d \in S : f[d] = g[d]
  BY <1>1, HoldingTypes, ZenonT(60)
<1>3. IsFiniteSet(S)
  BY BooksTypes, FiniteSubset
<1>4. Spent(c) = SumOf(f, S) /\ Held(Holding, c) = SumOf(g, T)
  BY ZenonT(60) DEF Spent, Held
<1> HIDE DEF f, g, S, T
<1> QED BY <1>2, <1>3, <1>4, SumSame, ZenonT(60)

\* Sums of what deals hold are integers.
LEMMA HoldingInt == TypeInv /\ TrackInv => \A c : Held(Holding, c) \in Int
<1> SUFFICES ASSUME TypeInv, TrackInv, NEW c PROVE Held(Holding, c) \in Int
  OBVIOUS
<1> DEFINE f == [d \in DOMAIN Holding |-> PieceSize[Holding[d]]]
           S == {d \in DOMAIN Holding : Holding[d].VerifiedDeal /\ Holding[d].Client = c}
<1>1. \A d \in S : f[d] \in Int
  BY HoldingTypes, PieceSizeAssumption
<1>2. IsFiniteSet(S)
  BY HoldingTypes, FiniteSubset
<1>3. Held(Holding, c) = SumOf(f, S)
  BY DEF Held
<1> HIDE DEF f, S
<1> QED BY <1>1, <1>2, <1>3, SumInt

\* What holds data cap with what the transaction adds is finite, and of offers.
LEMMA StoredTypes ==
    ASSUME TypeInv, TrackInv, phase = "store"
    PROVE  IsFiniteSet(DOMAIN Stored) /\ \A d \in DOMAIN Stored : Stored[d] \in Offers
<1>1. DOMAIN Stored = HoldingIDs \cup DOMAIN msm.Proposals
  BY DEF Stored
<1>2. msm \in MarketState
  BY DEF TypeInv, TypeOK
<1>3. IsFiniteSet(DOMAIN Stored)
  <2>1. IsFiniteSet(HoldingIDs)
    BY HoldingTypes
  <2>2. IsFiniteSet(DOMAIN msm.Proposals)
    BY <1>2, FiniteSets
  <2> QED BY <1>1, <2>1, <2>2, FiniteUnion
<1> QED BY <1>2, <1>3, StateTypes, BooksTypes, HoldingTypes DEF Stored

\* So is what they hold.
LEMMA StoredInt == TypeInv /\ TrackInv /\ phase = "store" => \A c : Held(Stored, c) \in Int
<1> SUFFICES ASSUME TypeInv, TrackInv, phase = "store", NEW c PROVE Held(Stored, c) \in Int
  OBVIOUS
<1> DEFINE f == [d \in DOMAIN Stored |-> PieceSize[Stored[d]]]
           S == {d \in DOMAIN Stored : Stored[d].VerifiedDeal /\ Stored[d].Client = c}
<1>1. \A d \in S : f[d] \in Int
  BY StoredTypes, PieceSizeAssumption
<1>2. IsFiniteSet(S)
  BY StoredTypes, FiniteSubset
<1>3. Held(Stored, c) = SumOf(f, S)
  BY DEF Held
<1> HIDE DEF f, S
<1> QED BY <1>1, <1>2, <1>3, SumInt

\* The clients of deals have accounts, and in the beginning nothing is out.
LEMMA CapInit == VInit => CapInv
<1> SUFFICES ASSUME VInit PROVE CapInv
  OBVIOUS
<1>1. PICK r \in Registries : reg = r.state
  BY DEF VInit, RegistryInit
<1>2. \A a \in DOMAIN reg.VerifiedClients : reg.VerifiedClients[a] \in Int
  BY <1>1, RegistriesAssumption
<1>3. ledger = [a \in Accounts |-> [granted |-> Lookup(reg.VerifiedClients, a), removed |-> 0, lost |-> 0]]
  BY DEF VInit, RegistryInit
<1>4. \A a \in Accounts : Lookup(reg.VerifiedClients, a) \in Int
  BY <1>2 DEF Lookup
<1>5. ledger \in Ledger /\ \A c \in Accounts : Out(reg, ledger, c) = 0
  BY <1>3, <1>4 DEF Ledger, Out
<1>6. checkpoint = [reg |-> reg, ledger |-> ledger] /\ phase = "messages" /\ HoldingIDs = {}
  BY DEF VInit, Init, HoldingIDs
<1>7. \A c : Held(Holding, c) = 0
  BY <1>6, HeldNone DEF Holding
<1>8. CapTypes
  BY <1>2, <1>5, <1>6 DEF CapTypes, Caps
<1> QED BY <1>5, <1>6, <1>7, <1>8, ClientsAssumption DEF CapInv, InPublish

\* The filter: what is acquired for a deal is what the deal adds to the batch.
LEMMA FilterCap ==
    ASSUME TypeInv, TrackInv, RegistryInv, CapInv, NEW inBounds, VFilterDeal(inBounds)
    PROVE  CapInv'
<1> DEFINE deal == Head(call.deals)
           ok == CanUseBytes(reg, deal.Client, PieceSize[deal])
           keep == PassesMarketChecks(deal, inBounds) /\ (deal.VerifiedDeal => ok)
<1>1. /\ phase = "filter" /\ phase' = "filter" /\ UNCHANGED <<st, book, restoring, activated, checkpoint>>
      /\ FilterDeal(inBounds, ok)
      /\ IF deal.VerifiedDeal /\ PassesMarketChecks(deal, inBounds) /\ ok
         THEN AcquireDataCap(deal) ELSE UNCHANGED <<reg, ledger>>
  BY ZenonT(60) DEF VFilterDeal, FilterDeal
<1>2. FilterEffect(inBounds, ok)
  BY <1>1, FilterChange, ZenonT(60)
<1>3. /\ deal \in Offers
      /\ call'.validDeals = IF keep THEN Append(call.validDeals, deal) ELSE call.validDeals
  BY <1>2, Zenon DEF FilterEffect
<1>4. call.validDeals \in Seq(Offers) /\ InPublish /\ InPublish'
  BY <1>1 DEF TypeInv, PublishCall, InPublish
<1>5. Holding' = Holding
  BY <1>1 DEF Holding, HoldingIDs
<1>6. /\ CapTypes /\ Sound(reg) /\ deal.Client \in Accounts
      /\ \A c \in Clients : Out(reg, ledger, c) = Held(Holding, c) + Held(InBatch, c)
      /\ \A c \in Clients : Out(checkpoint.reg, checkpoint.ledger, c) = Held(Holding, c)
  BY <1>1, <1>3, <1>4, ClientsAssumption, OffersAssumption, ZenonT(60) DEF CapInv, RegistryInv, DealProposal
<1> HIDE DEF ok
<1>7. CASE ~keep
  <2>1. UNCHANGED <<reg, ledger>> /\ InBatch' = InBatch
    BY <1>1, <1>3, <1>7, ZenonT(60) DEF InBatch
  <2> QED BY <1>1, <1>4, <1>5, <1>6, <2>1 DEF CapInv, CapTypes, InPublish
<1>8. CASE keep
  <2>1. deal \notin DOMAIN InBatch
    <3>1. ~\E i \in 1 .. Len(call.validDeals) : call.validDeals[i] = deal
      BY <1>8, ZenonT(60) DEF PassesMarketChecks, Duplicate
    <3>2. DOMAIN InBatch = {call.validDeals[i] : i \in 1 .. Len(call.validDeals)}
      BY <1>4, BatchTypes, ZenonT(60)
    <3> HIDE DEF deal
    <3> QED BY <3>1, <3>2, ZenonT(60)
  <2>2. /\ DOMAIN InBatch' = DOMAIN InBatch \cup {deal}
        /\ \A p \in DOMAIN InBatch' : InBatch'[p] = p
    <3>1. call'.validDeals = Append(call.validDeals, deal) /\ deal \in Offers
      BY <1>3, <1>8
    <3> HIDE DEF deal
    <3>2. {Append(call.validDeals, deal)[i] : i \in 1 .. Len(Append(call.validDeals, deal))}
             = {call.validDeals[i] : i \in 1 .. Len(call.validDeals)} \cup {deal}
      BY <1>4, <3>1, AppendAdds
    <3> QED BY <3>1, <3>2, ZenonT(60) DEF InBatch
  <2>3. /\ IsFiniteSet(DOMAIN InBatch)
        /\ \A p \in DOMAIN InBatch : InBatch[p] \in Offers /\ InBatch'[p] = InBatch[p]
        /\ InBatch'[deal] = deal
    BY <1>4, <2>2, BatchTypes, ZenonT(60)
  <2> HIDE DEF deal, keep
  <2>4. \A c : /\ Held(InBatch, c) \in Int /\ Holds(deal, c) \in Int
               /\ Held(InBatch', c) = Held(InBatch, c) + Holds(deal, c)
    <3>1. InBatch'[deal] \in Offers
      BY <1>3, <2>3, ZenonT(60)
    <3>2. OneMore(InBatch, InBatch', deal)
      BY <2>1, <2>2, <2>3, <3>1, ZenonT(60) DEF OneMore
    <3>3. HoldMore(InBatch, InBatch', InBatch'[deal])
      BY <3>2, HeldInsert, ZenonT(60)
    <3> QED BY <2>3, <3>3, ZenonT(60) DEF HoldMore
  <2>5. /\ Caps(reg') /\ ledger' \in Ledger
        /\ \A c \in Clients : /\ Out(reg, ledger, c) \in Int
                              /\ Out(reg', ledger', c) = Out(reg, ledger, c) + Holds(deal, c)
    <3>1. CASE deal.VerifiedDeal
      <4>1. AcquireDataCap(deal) /\ CanUseBytes(reg, deal.Client, PieceSize[deal])
        BY <1>1, <1>8, <3>1 DEF ok, keep, deal
      <4>2. /\ Caps(reg') /\ ledger' \in Ledger
            /\ \A c \in Accounts : /\ Out(reg, ledger, c) \in Int
                                   /\ Out(reg', ledger', c) = Out(reg, ledger, c)
                                         + (IF c = deal.Client THEN PieceSize[deal] ELSE 0)
        BY <1>3, <1>6, <4>1, AcquireOut, ZenonT(60) DEF CapTypes
      <4> QED BY <3>1, <4>2, ClientsAssumption DEF Holds
    <3>2. CASE ~deal.VerifiedDeal
      <4>1. UNCHANGED <<reg, ledger>> /\ \A c : Holds(deal, c) = 0
        BY <1>1, <3>2 DEF Holds, deal
      <4>2. \A c \in Clients : Out(reg, ledger, c) \in Int
        BY <1>6, ClientsAssumption DEF CapTypes, Caps, Ledger, Out, Lookup
      <4> QED BY <1>6, <4>1, <4>2 DEF CapTypes
    <3> QED BY <3>1, <3>2
  <2>6. \A c \in Clients : Held(Holding, c) \in Int
    BY HoldingInt
  <2>7. \A c \in Clients : Out(reg', ledger', c) = Held(Holding', c) + Held(InBatch', c)
    BY <1>5, <1>6, <2>4, <2>5, <2>6
  <2>8. CapTypes'
    BY <1>1, <1>6, <2>5, ZenonT(60) DEF CapTypes
  <2> QED BY <1>1, <1>4, <1>5, <1>6, <2>7, <2>8 DEF CapInv, InPublish
<1> QED BY <1>7, <1>8

\* StoreDeal takes a deal from the batch to the transaction, and the sum stays.
LEMMA StoreCap ==
    ASSUME TypeInv, DealsInv, TrackInv, TrackInv', CapInv, StoreDeal,
           UNCHANGED <<reg, ledger, checkpoint, restoring, activated>>
    PROVE  CapInv'
<1> DEFINE deal == Head(call.validDeals)
           id == msm.NextID
<1>1. phase = "store" /\ phase' = "store" /\ UNCHANGED <<st, book>> /\ StoreEffect
      /\ call.validDeals # <<>> /\ InPublish /\ InPublish'
  BY StoreType DEF StoreDeal, InPublish
<1>2. /\ deal \in Offers /\ msm'.Proposals = Put(msm.Proposals, id, deal)
      /\ call'.validDeals = Tail(call.validDeals)
  BY <1>1, Zenon DEF StoreEffect
<1>3. call.validDeals \in Seq(Offers) /\ msm.NextID \in Nat
  BY <1>1 DEF TypeInv, TypeOK, MarketState, PublishCall
<1>4. /\ StoreAdds /\ Holding' = Holding /\ HoldingIDs' = HoldingIDs
      /\ \A d \in DOMAIN book : d < st.NextID
  BY <1>1, ZenonT(60) DEF TrackInv, Holding, HoldingIDs
<1>5. id \notin DOMAIN book /\ id \notin HoldingIDs \cup DOMAIN msm.Proposals
  <2>1. id \notin DOMAIN book
    BY <1>3, <1>4, BooksTypes DEF StoreAdds
  <2>2. HoldingIDs \subseteq DOMAIN book
    BY HoldingTypes
  <2>3. id \notin DOMAIN st.Proposals /\ id \notin st.NextID .. msm.NextID - 1
    <3>1. id \notin DOMAIN st.Proposals
      BY <2>1, ZenonT(60) DEF TrackInv, OnBooks
    <3>2. st.NextID \in Nat
      BY BooksTypes, ZenonT(60)
    <3> QED BY <1>3, <3>1, <3>2, NotBelowItself, ZenonT(60)
  <2> QED BY <1>4, <2>1, <2>2, <2>3 DEF StoreAdds
<1>6. /\ DOMAIN Stored = HoldingIDs \cup DOMAIN msm.Proposals
      /\ DOMAIN Stored' = DOMAIN Stored \cup {id}
      /\ \A d \in DOMAIN Stored : Stored'[d] = Stored[d]
      /\ Stored'[id] = deal
  <2>1. HoldingIDs \subseteq DOMAIN book
    BY HoldingTypes
  <2>2. /\ DOMAIN msm'.Proposals = DOMAIN msm.Proposals \cup {id} /\ msm'.Proposals[id] = deal
        /\ \A d \in DOMAIN msm.Proposals : msm'.Proposals[d] = msm.Proposals[d]
    BY <1>2, <1>5 DEF Put
  <2>3. Stored' = [d \in HoldingIDs \cup DOMAIN msm'.Proposals |->
                     IF d \in DOMAIN book THEN book[d].deal ELSE msm'.Proposals[d]]
    BY <1>1, <1>4 DEF Stored
  <2> QED BY <1>5, <2>1, <2>2, <2>3, ZenonT(60) DEF Stored
<1>7. IsFiniteSet(DOMAIN Stored) /\ \A d \in DOMAIN Stored : Stored[d] \in Offers
  BY <1>1, StoredTypes
<1>8. /\ DOMAIN InBatch = {call.validDeals[i] : i \in 1 .. Len(call.validDeals)}
      /\ IsFiniteSet(DOMAIN InBatch) /\ \A p \in DOMAIN InBatch : InBatch[p] = p /\ p \in Offers
  BY <1>1, BatchTypes
<1>9. /\ DOMAIN InBatch' = {Tail(call.validDeals)[i] : i \in 1 .. Len(Tail(call.validDeals))}
      /\ \A p \in DOMAIN InBatch' : InBatch'[p] = p
  BY <1>2 DEF InBatch
<1>10. \A i, j \in 1 .. Len(call.validDeals) : call.validDeals[i] = call.validDeals[j] => i = j
  BY <1>1, ZenonT(60) DEF DealsInv, Chosen
<1> HIDE DEF id
<1>11. /\ {call.validDeals[i] : i \in 1 .. Len(call.validDeals)}
            = {Tail(call.validDeals)[i] : i \in 1 .. Len(Tail(call.validDeals))} \cup {deal}
       /\ deal \notin {Tail(call.validDeals)[i] : i \in 1 .. Len(Tail(call.validDeals))}
  BY <1>1, <1>3, <1>10, HeadAndTail, ZenonT(60)
<1> HIDE DEF deal
<1>12. \A c : /\ Held(Stored, c) \in Int /\ Holds(deal, c) \in Int
              /\ Held(Stored', c) = Held(Stored, c) + Holds(deal, c)
  <2>1. /\ IsFiniteSet(DOMAIN Stored) /\ id \notin DOMAIN Stored
        /\ DOMAIN Stored' = DOMAIN Stored \cup {id} /\ Stored'[id] \in Offers
        /\ \A d \in DOMAIN Stored : Stored[d] \in Offers /\ Stored'[d] = Stored[d]
    BY <1>2, <1>5, <1>6, <1>7
  <2>2. OneMore(Stored, Stored', id)
    BY <2>1, ZenonT(60) DEF OneMore
  <2>3. HoldMore(Stored, Stored', Stored'[id])
    BY <2>2, HeldInsert, ZenonT(60)
  <2> QED BY <1>6, <2>3, ZenonT(60) DEF HoldMore
<1>13. /\ DOMAIN InBatch = DOMAIN InBatch' \cup {deal} /\ deal \notin DOMAIN InBatch'
       /\ InBatch[deal] = deal /\ \A p \in DOMAIN InBatch' : InBatch'[p] \in Offers /\ InBatch[p] = InBatch'[p]
  BY <1>8, <1>9, <1>11
<1>14. IsFiniteSet(DOMAIN InBatch')
  BY <1>8, <1>13, FiniteSubset
<1>15. \A c : /\ Held(InBatch', c) \in Int /\ Holds(deal, c) \in Int
              /\ Held(InBatch, c) = Held(InBatch', c) + Holds(deal, c)
  <2>1. InBatch[deal] \in Offers
    BY <1>2, <1>13, ZenonT(60)
  <2>2. OneMore(InBatch', InBatch, deal)
    BY <1>13, <1>14, <2>1, ZenonT(60) DEF OneMore
  <2>3. HoldMore(InBatch', InBatch, InBatch[deal])
    BY <2>2, HeldInsert, ZenonT(60)
  <2> QED BY <1>13, <2>3, ZenonT(60) DEF HoldMore
<1>16. \A c \in Clients : Held(Stored, c) + Held(InBatch, c) = Held(Stored', c) + Held(InBatch', c)
  BY <1>12, <1>15
<1> QED BY <1>1, <1>4, <1>16, ZenonT(60) DEF CapInv, CapTypes, InPublish

\* A batch of no deals holds nothing.
LEMMA EmptyBatch == call.validDeals = <<>> => \A c : Held(InBatch, c) = 0
<1> SUFFICES ASSUME call.validDeals = <<>> PROVE \A c : Held(InBatch, c) = 0
  OBVIOUS
<1>1. {call.validDeals[i] : i \in 1 .. Len(call.validDeals)} = {}
  OBVIOUS
<1>2. DOMAIN InBatch = {}
  BY <1>1 DEF InBatch
<1> QED BY <1>2, HeldNone

\* The end of the tick: a verified deal that timed out holds its data cap until RestoreBytes.
LEMMA EndCap ==
    ASSUME TypeInv, TrackInv, TrackInv', CapInv, VEndCron
    PROVE  CapInv'
<1>1. /\ phase = "cron" /\ phase' = "ticked" /\ restoring = {} /\ CronDrops
      /\ UNCHANGED <<activated, reg, ledger, checkpoint>> /\ ~InPublish /\ ~InPublish'
  BY DEF VEndCron, EndCron, AbortCron, CommitCron, CronFails, TrackInv, registry, InPublish
<1>2. HoldingIDs = DOMAIN st.Proposals \cup activated
  BY <1>1 DEF HoldingIDs
<1>3. CASE CronFails
  <2>1. UNCHANGED <<st, book>> /\ restoring' = {}
    BY <1>3 DEF VEndCron, EndCron, AbortCron
  <2>2. Holding' = Holding
    BY <1>1, <2>1 DEF Holding, HoldingIDs
  <2> QED BY <1>1, <2>2, CapSame
<1>4. CASE ~CronFails
  <2>1. book' = call.book /\ restoring' = call.timedOutVerifiedDeals
    BY <1>4 DEF VEndCron, EndCron, CommitCron
  <2>2. st'.Proposals = msm.Proposals
    BY <1>1, <1>4, ZenonT(60) DEF VEndCron, EndCron, CommitCron, TypeInv, TypeOK, MarketState
  <2>3. HoldingIDs' = DOMAIN msm.Proposals \cup activated \cup {r[1] : r \in call.timedOutVerifiedDeals}
    BY <1>1, <2>1, <2>2 DEF HoldingIDs
  <2>4. /\ HoldingIDs' \subseteq HoldingIDs /\ HoldingIDs \subseteq DOMAIN book
        /\ \A d \in DOMAIN book : book'[d].deal = book[d].deal
    BY <1>1, <1>2, <2>1, <2>3, HoldingTypes DEF CronDrops
  <2>5. \A d \in HoldingIDs : book[d].deal.VerifiedDeal => d \in HoldingIDs'
    <3> SUFFICES ASSUME NEW d \in DOMAIN st.Proposals \ (DOMAIN msm.Proposals \cup activated),
                        book[d].deal.VerifiedDeal
                 PROVE  \E r \in call.timedOutVerifiedDeals : r[1] = d
      BY <1>2, <2>3
    <3>1. <<d, book[d].deal>> \in call.timedOutVerifiedDeals
      BY <1>1, ZenonT(60) DEF CronDrops
    <3> QED BY <3>1
  <2>6. /\ DOMAIN Holding = HoldingIDs /\ DOMAIN Holding' = HoldingIDs' /\ IsFiniteSet(DOMAIN Holding)
        /\ \A d \in HoldingIDs : Holding[d] = book[d].deal
        /\ \A d \in HoldingIDs' : Holding'[d] = book'[d].deal
    BY HoldingTypes DEF Holding
  <2>7. /\ {d \in DOMAIN Holding : Holding[d].VerifiedDeal} = {d \in DOMAIN Holding' : Holding'[d].VerifiedDeal}
        /\ \A d \in DOMAIN Holding : Holding[d].VerifiedDeal => Holding'[d] = Holding[d]
    BY <2>4, <2>5, <2>6
  <2>8. \A c : Held(Holding', c) = Held(Holding, c)
    BY <2>6, <2>7, HeldSame
  <2> QED BY <1>1, <2>8, CapSame
<1> QED BY <1>3, <1>4

\* RestoreBytes takes out one deal, and what it holds.
LEMMA RestoreCap ==
    ASSUME TypeInv, TrackInv, RegistryInv, CapInv, NEW r \in restoring, VRestoreBytes(r)
    PROVE  CapInv'
<1> DEFINE id == r[1]
           deal == r[2]
<1>1. /\ UNCHANGED <<st, book, phase, activated, checkpoint>> /\ restoring' = restoring \ {r}
      /\ phase = "ticked" /\ ~InPublish /\ ~InPublish'
  BY DEF VRestoreBytes, vars, TrackInv, InPublish
<1>2. /\ id \in DOMAIN book /\ id \notin DOMAIN st.Proposals \cup activated
      /\ deal = book[id].deal /\ deal.VerifiedDeal /\ deal \in Offers
  BY BooksTypes DEF TrackInv, Restorable
<1>3. \A s \in restoring : s[1] = id => s = r
  BY DEF TrackInv, Restorable
<1>4. id \notin HoldingIDs' /\ HoldingIDs = HoldingIDs' \cup {id}
  BY <1>1, <1>2, <1>3, ZenonT(60) DEF HoldingIDs
<1>5. /\ IsFiniteSet(HoldingIDs) /\ DOMAIN Holding = HoldingIDs
      /\ \A d \in HoldingIDs : Holding[d] = book[d].deal /\ Holding[d] \in Offers
  BY HoldingTypes
<1>6. DOMAIN Holding' = HoldingIDs' /\ \A d \in HoldingIDs' : Holding'[d] = book[d].deal
  BY <1>1 DEF Holding
<1> HIDE DEF id, deal
<1>7. /\ IsFiniteSet(DOMAIN Holding') /\ id \notin DOMAIN Holding'
      /\ DOMAIN Holding = DOMAIN Holding' \cup {id} /\ Holding[id] \in Offers /\ Holding[id] = deal
      /\ \A d \in DOMAIN Holding' : Holding'[d] \in Offers /\ Holding[d] = Holding'[d]
  BY <1>2, <1>4, <1>5, <1>6, FiniteSubset, ZenonT(60)
<1>8. \A c : /\ Held(Holding', c) \in Int /\ Holds(Holding[id], c) \in Int
             /\ Held(Holding, c) = Held(Holding', c) + Holds(Holding[id], c)
  <2>1. OneMore(Holding', Holding, id)
    BY <1>7, ZenonT(60) DEF OneMore
  <2>2. HoldMore(Holding', Holding, Holding[id])
    BY <2>1, HeldInsert, ZenonT(60)
  <2> QED BY <2>2, ZenonT(60) DEF HoldMore
<1>9. /\ Caps(reg') /\ ledger' \in Ledger
      /\ \A c \in Accounts : /\ Out(reg, ledger, c) \in Int
                             /\ Out(reg', ledger', c) = Out(reg, ledger, c)
                                   - (IF c = deal.Client THEN PieceSize[deal] ELSE 0)
  BY <1>2, RestoreOut, ZenonT(60) DEF CapInv, CapTypes, RegistryInv, deal
<1>10. \A c \in Clients : Out(reg', ledger', c) = Out(reg, ledger, c) - Holds(Holding[id], c)
  BY <1>2, <1>7, <1>9, ClientsAssumption, ZenonT(60) DEF Holds
<1>11. \A c \in Clients : Out(reg, ledger, c) = Held(Holding, c)
  BY <1>1 DEF CapInv
<1>12. \A c \in Clients : Out(reg', ledger', c) = Held(Holding', c)
  BY <1>8, <1>10, <1>11
<1>13. CapTypes'
  BY <1>1, <1>9 DEF CapInv, CapTypes
<1> QED BY <1>1, <1>12, <1>13 DEF CapInv, InPublish

\* Every step accounts for the data cap.
LEMMA CapStep ==
    /\ TypeInv /\ DealsInv /\ TrackInv /\ TrackInv' /\ RegistryInv /\ CapInv /\ [VNext]_allVars
    => CapInv'
<1> SUFFICES ASSUME TypeInv, DealsInv, TrackInv, TrackInv', RegistryInv, CapInv, [VNext]_allVars
             PROVE  CapInv'
  OBVIOUS
<1>0. HoldingIDs \subseteq DOMAIN book /\ st \in MarketState
  BY HoldingTypes, BooksTypes
<1>1. CASE MarketAlone
  <2>0. restoring = {} /\ UNCHANGED <<reg, ledger, checkpoint, activated, restoring>>
    BY <1>1, ZenonT(60) DEF MarketAlone, registryVars, registry
  <2>1. CASE \/ \E a, v : AddBalance(a, v) \/ WithdrawBalance(a, v)
             \/ \E miner, ids, e : OnMinerSectorsTerminate(miner, e, ids)
             \/ CronTick
             \/ \E op : TimeOutDeal(op) \/ UpdateDeal(op)
             \/ \E n : NextEpoch(n)
             \/ Horizon
    <3>1. ~InPublish /\ ~InPublish' /\ book' = book
      BY <2>1, ZenonT(60) DEF AddBalance, WithdrawBalance, OnMinerSectorsTerminate, CronTick, TimeOutDeal, UpdateDeal,
                  NextEpoch, Horizon, vars, InPublish
    <3>2. st'.Proposals = st.Proposals
      BY <1>0, <2>1, ZenonT(60) DEF AddBalance, WithdrawBalance, OnMinerSectorsTerminate, CronTick, TimeOutDeal,
                        UpdateDeal, NextEpoch, Horizon, vars, MarketState
    <3>3. Holding' = Holding
      BY <2>0, <3>1, <3>2 DEF Holding, HoldingIDs
    <3> QED BY <2>0, <3>1, <3>3, CapSame
  <2>2. CASE OpenPublish
    <3>1. /\ phase = "filter" /\ phase' = "store" /\ UNCHANGED <<st, book, call>> /\ msm' = st
      BY <2>2 DEF OpenPublish
    <3>2. Holding' = Holding /\ InBatch' = InBatch
      BY <2>0, <3>1, ZenonT(60) DEF Holding, HoldingIDs, InBatch
    <3>3. Stored' = Holding
      BY <1>0, <2>0, <3>1, ZenonT(60) DEF Stored, Holding, HoldingIDs
    <3> QED BY <2>0, <3>1, <3>2, <3>3 DEF CapInv, CapTypes, InPublish
  <2>3. CASE StoreDeal
    BY <2>0, <2>3, StoreCap
  <2>4. CASE CommitPublish
    <3>1. /\ phase = "store" /\ phase' = "messages" /\ st' = msm /\ call.validDeals = <<>>
          /\ DOMAIN book' = DOMAIN book \cup (st.NextID .. msm.NextID - 1)
          /\ \A d \in DOMAIN book : book'[d] = book[d]
          /\ \A d \in (st.NextID .. msm.NextID - 1) \ DOMAIN book : book'[d].deal = msm.Proposals[d]
      BY <2>4, ZenonT(60) DEF CommitPublish
    <3>2. /\ DOMAIN msm.Proposals = DOMAIN st.Proposals \cup (st.NextID .. msm.NextID - 1)
          /\ DOMAIN st.Proposals \subseteq DOMAIN book
      BY <3>1, ZenonT(60) DEF TrackInv, StoreAdds, OnBooks
    <3>3. HoldingIDs' = HoldingIDs \cup DOMAIN msm.Proposals
      BY <2>0, <3>1, <3>2, ZenonT(60) DEF HoldingIDs
    <3>4. Holding' = Stored
      BY <1>0, <3>1, <3>2, <3>3 DEF Holding, Stored
    <3>5. \A c \in Clients : Held(Stored, c) \in Int /\ Held(InBatch, c) = 0
      BY <3>1, StoredInt, EmptyBatch
    <3>6. \A c \in Clients : Held(Stored, c) + Held(InBatch, c) = Held(Holding', c)
      BY <3>4, <3>5
    <3> QED BY <2>0, <3>1, <3>6, ZenonT(60) DEF CapInv, CapTypes, InPublish
  <2> QED BY <1>1, <2>1, <2>2, <2>3, <2>4 DEF MarketAlone
<1>2. CASE RegistryAlone
  <2>1. /\ UNCHANGED <<st, book, phase, activated, restoring, checkpoint>> /\ RegistryNext
        /\ ~InPublish /\ ~InPublish'
    BY <1>2 DEF RegistryAlone, vars, InPublish
  <2>2. /\ Caps(reg') /\ ledger' \in Ledger
        /\ \A c \in Accounts : Out(reg', ledger', c) = Out(reg, ledger, c)
    BY <2>1, RegistryOut DEF CapInv, CapTypes, RegistryInv
  <2>3. Holding' = Holding
    BY <2>1 DEF Holding, HoldingIDs
  <2>4. \A c \in Clients : Out(reg', ledger', c) = Held(Holding', c)
    BY <2>1, <2>2, <2>3, ClientsAssumption DEF CapInv
  <2>5. CapTypes'
    BY <2>1, <2>2 DEF CapInv, CapTypes
  <2> QED BY <2>1, <2>4, <2>5 DEF CapInv, InPublish
<1>3. CASE \E deals \in Batches : VPublishStorageDeals(deals)
  <2>1. /\ UNCHANGED <<st, book, activated, restoring, reg, ledger>>
        /\ checkpoint' = [reg |-> reg, ledger |-> ledger]
        /\ phase = "messages" /\ phase' = "filter" /\ call'.validDeals = <<>>
    BY <1>3 DEF VPublishStorageDeals, PublishStorageDeals, registry
  <2>2. Holding' = Holding
    BY <2>1, ZenonT(60) DEF Holding, HoldingIDs
  <2>3. \A c : Held(InBatch', c) = 0
    <3>1. {call'.validDeals[i] : i \in 1 .. Len(call'.validDeals)} = {}
      BY <2>1
    <3>2. DOMAIN InBatch' = {}
      BY <3>1, ZenonT(60) DEF InBatch
    <3> QED BY <3>2, HeldNone
  <2>4. \A c \in Clients : Out(reg, ledger, c) = Held(Holding, c) /\ Held(Holding, c) \in Int
    BY <2>1, HoldingInt, ZenonT(60) DEF CapInv, InPublish
  <2>5. \A c \in Clients : Out(reg, ledger, c) = Held(Holding', c) + Held(InBatch', c)
    BY <2>2, <2>3, <2>4
  <2>6. CapTypes'
    BY <2>1, ZenonT(60) DEF CapInv, CapTypes
  <2> QED BY <2>1, <2>2, <2>4, <2>5, <2>6, ZenonT(60) DEF CapInv, InPublish
<1>4. CASE \E inBounds \in BOOLEAN : VFilterDeal(inBounds)
  BY <1>4, FilterCap
<1>5. CASE VAbortPublish
  <2>1. /\ UNCHANGED <<st, book, activated, restoring, checkpoint>>
        /\ reg' = checkpoint.reg /\ ledger' = checkpoint.ledger /\ InPublish /\ ~InPublish'
    BY <1>5 DEF VAbortPublish, AbortPublish, PublishFails, InPublish
  <2>2. Holding' = Holding
    BY <2>1, ZenonT(60) DEF Holding, HoldingIDs
  <2> QED BY <2>1, <2>2 DEF CapInv, CapTypes, InPublish
<1>6. ASSUME NEW miner, NEW ids, NEW expiry, VActivateDeals(miner, ids, expiry) PROVE CapInv'
  <2>1. /\ UNCHANGED <<book, restoring, reg, ledger, checkpoint>> /\ activated' = activated \cup ids
        /\ ActivateDeals(miner, ids, expiry) /\ ~InPublish /\ ~InPublish'
    BY <1>6 DEF VActivateDeals, ActivateDeals, registry, InPublish
  <2>2. ids \subseteq DOMAIN st.Proposals /\ st'.Proposals = st.Proposals
    BY <2>1, ActivateEffect, ZenonT(60)
  <2>3. Holding' = Holding
    BY <2>1, <2>2, ZenonT(60) DEF Holding, HoldingIDs
  <2> QED BY <2>1, <2>3, CapSame
<1>7. CASE VEndCron
  BY <1>7, EndCap
<1>8. CASE \E d \in restoring : VRestoreBytes(d)
  BY <1>8, RestoreCap
<1>9. CASE UNCHANGED allVars
  BY <1>9, ZenonT(60) DEF allVars, registry, vars, CapInv, CapTypes, InPublish, Holding, HoldingIDs, Stored, InBatch
<1> QED BY <1>1, <1>2, <1>3, <1>4, <1>5, <1>6, <1>7, <1>8, <1>9 DEF VNext

\* However publications, aborts, timeouts, failing ticks and calls of the root key and the verifiers
\* are interleaved, every byte of data cap granted to a client is, between messages, in exactly one
\* place: its cap, a deal that is live or was activated, the removals, or the losses.
THEOREM DataCapAlwaysAccounted == VSpec => []DataCapAccounted
<1>1. VSpec => [](TypeInv /\ DealsInv)
  BY ImplementsMarket, TypeInvAlways, DealsInvAlways, PTL
<1>2. VSpec => []TrackInv
  BY <1>1, TrackInit, TrackStep, PTL DEF VSpec
<1>3. VSpec => []CapInv
  BY <1>1, <1>2, CapInit, CapStep, RegistryInvAlways, PTL DEF VSpec
<1>4. TypeInv /\ TrackInv /\ CapInv => DataCapAccounted
  <2> SUFFICES ASSUME TypeInv, TrackInv, CapInv, ~InPublish, restoring = {}, NEW c \in Clients
               PROVE  ledger[c].granted =
                        Lookup(reg.VerifiedClients, c) + Spent(c) + ledger[c].removed + ledger[c].lost
    BY DEF DataCapAccounted, InPublish
  <2>1. Out(reg, ledger, c) = Spent(c) /\ Spent(c) \in Int
    BY SpentIsHeld, HoldingInt DEF CapInv
  <2>2. Caps(reg) /\ ledger \in Ledger /\ c \in Accounts
    BY ClientsAssumption, ZenonT(60) DEF CapInv, CapTypes
  <2> QED BY <2>1, <2>2, WhereGranted, ZenonT(60)
<1> QED BY <1>1, <1>2, <1>3, <1>4, PTL
=============================================================================
