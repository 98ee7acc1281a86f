------------------------------ MODULE MCMarket ------------------------------
(* Small instances of Market: offers that compete for one client's balance, *)
(* overlap in time and differ in provider.                                  *)
EXTENDS Market

CONSTANTS c1, p1, p2

Offer(p, start, end, price, cc, pc, verified) ==
    [Client |-> c1, Provider |-> p, StartEpoch |-> start, EndEpoch |-> end,
     StoragePricePerEpoch |-> price, ClientCollateral |-> cc, ProviderCollateral |-> pc,
     VerifiedDeal |-> verified]

\* A deal of three epochs and a verified one of two that starts later.
TwoOffers == {Offer(p1, 1, 4, 1, 1, 1, FALSE), Offer(p1, 2, 4, 2, 0, 1, TRUE)}

\* With a third one, of another provider.
ThreeOffers == TwoOffers \cup {Offer(p2, 1, 3, 1, 0, 1, FALSE)}

\* The second deal costs nothing but its collateral.
FreeStorageOffers == {Offer(p1, 1, 5, 1, 0, 1, FALSE), Offer(p1, 1, 5, 0, 2, 0, FALSE)}
=============================================================================
