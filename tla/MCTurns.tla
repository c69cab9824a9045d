------------------------------- MODULE MCTurns -------------------------------
(* An owner, a guest and a message without a user id in one room, a turn that *)
(* answers nothing, and three draft turns.                                    *)
EXTENDS Turns, TLC

CONSTANTS s1, guest, t1, t2, t3, c1, d1, d2, d3

MCAuthor == t1 :> s1 @@ t2 :> guest @@ t3 :> NoSender

MCSessionOf == [t \in {t1, t2, t3, c1, d1, d2, d3} |-> IF t \in {t2, t3} THEN t1 ELSE t]

Alike == Permutations(Draft)

=============================================================================
