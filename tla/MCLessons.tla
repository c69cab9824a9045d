----------------------------- MODULE MCLessons -----------------------------
(* One correspondent, two edited replies and one draft that was never sent. *)
EXTENDS Lessons, TLC

CONSTANTS s1, j1, j2, j3

MCSenderOf == j1 :> s1 @@ j2 :> s1 @@ j3 :> s1

=============================================================================
