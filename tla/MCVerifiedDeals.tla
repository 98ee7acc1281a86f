-------------------------- MODULE MCVerifiedDeals --------------------------
(* A client with data cap for one or two of its deals, and two verifiers.   *)
EXTENDS VerifiedDeals, TLC

CONSTANTS c1, p1, va, vb, root

Offer(price) ==
    [Client |-> c1, Provider |-> p1, StartEpoch |-> 1, EndEpoch |-> 3,
     StoragePricePerEpoch |-> price, ClientCollateral |-> 0, ProviderCollateral |-> price,
     VerifiedDeal |-> TRUE]

TwoOffers == {Offer(0), Offer(1)}

\* The free deal takes 2 bytes, the other one 3.
Sizes == (Offer(0) :> 2) @@ (Offer(1) :> 3)

Registry(cap) ==
    [Verifiers |-> (va :> 3) @@ (vb :> 0), VerifiedClients |-> (c1 :> cap),
     RemoveDataCapProposalIDs |-> <<>>]

Scenario(cap, calls, deals) == [state |-> Registry(cap), calls |-> calls, deals |-> deals]

\* Data cap for one deal, or for both with a remainder of 0 or 1; more calls to the registry
\* where there are fewer deals.
SomeRegistries == {Scenario(3, 2, 1), Scenario(5, 1, 2), Scenario(6, 0, 2), Scenario(6, 4, 0)}
=============================================================================
