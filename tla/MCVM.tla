--------------------------------- MODULE MCVM ---------------------------------
(* A small instance of VM: a user, a multisig and a payment channel that    *)
(* the user has created, and a key that has no account yet.                 *)
EXTENDS VM, TLC

MCOrigins == {PubKey("k1"), PubKey("k2")}

MCPrices == [message |-> 1, invoke |-> 1, create |-> 1, delete |-> -1, get |-> 1, put |-> 1]

Robust(seq) == [protocol |-> "Actor", from |-> PubKey("k1"), seq |-> seq, count |-> 0]
Actor(code, head, seq, balance) == [Code |-> code, Head |-> head, CallSeqNum |-> seq, Balance |-> balance]

MCGenesis ==
    (0 :> Actor("system", [system |-> TRUE], 0, 0))
    @@ (1 :> Actor("init", [AddressMap |-> (PubKey("k1") :> 3) @@ (Robust(0) :> 4) @@ (Robust(1) :> 5),
                            NextID |-> 6], 0, 0))
    @@ (2 :> Actor("account", [Address |-> PubKey("burnt")], 0, 0))
    @@ (3 :> Actor("account", [Address |-> PubKey("k1")], 2, 2))
    @@ (4 :> Actor("multisig", [version |-> 0], 0, 1))
    @@ (5 :> Actor("paych", [version |-> 0], 0, 1))

Message(to, value, method, params) == [to |-> to, value |-> value, method |-> method, params |-> params]

MCSends ==
    {Message(Robust(0), 1, Call, ""), Message(ID(5), 0, Call, ""),
     Message(PubKey("k2"), 1, MethodSend, ""), Message(PubKey("k2"), 0, MethodSend, ""),
     Message(ID(InitActor), 1, Exec, "multisig"), Message(Robust(7), 0, MethodSend, "")}

\* Users also meet what the actors refuse.
MCMessages ==
    MCSends \cup {Message(PubKey("k1"), 0, PubkeyAddress, ""), Message(PubKey("k1"), 0, MethodConstructor, ""),
                  Message(ID(InitActor), 0, MethodConstructor, ""), Message(ID(4), 0, MethodConstructor, ""),
                  Message(ID(InitActor), 0, Exec, "storageminer"), Message(ID(4), 3, MethodSend, ""),
                  Message(ID(5), 0, 3, "")}

MCPlans == {<<4>>, <<2, 2>>}
===============================================================================
