------------------------------ MODULE MCEvents ------------------------------
(***************************************************************************)
(* Instances of Events for TLC: one client connected to the server, one    *)
(* behind a broker.                                                        *)
(***************************************************************************)
EXTENDS Events, TLC

CONSTANTS b1, b2, b3, g1, g2, g3
Bases == {b1, b2, b3}
Greenlets == {g1, g2, g3, Puller}
Clients == {"direct", "brokered"}
Routes == [c \in Clients |-> IF c = "direct" THEN <<"direct">> ELSE <<"broker", "brokered">>]
Symmetric == Permutations(Bases) \cup Permutations({g1, g2, g3})
=============================================================================
