------------------------- MODULE MCSchemaMigration -------------------------
(* Two processes, one of them with two threads. *)
EXTENDS SchemaMigration, TLC

CONSTANTS p1, p2, t1, t2, t3

MCProcessOf == t1 :> p1 @@ t2 :> p1 @@ t3 :> p2

=============================================================================
