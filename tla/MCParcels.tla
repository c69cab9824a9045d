----------------------------- MODULE MCParcels -----------------------------
(* Two mailboxes, one tracking number that both are sent, and a message with *)
(* a login code and a number.                                                *)
EXTENDS Parcels, TLC

CONSTANTS a1, a2, n1, n2, m1, m2

MCAccountOf == m1 :> a1 @@ m2 :> a2
MCNumbersOf == m1 :> <<n1, n2>> @@ m2 :> <<n1>>
MCMoves == {<<None, "InTransit">>, <<"InTransit", "Delivered">>}

=============================================================================
