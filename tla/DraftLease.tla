----------------------------- MODULE DraftLease ------------------------------
(***************************************************************************)
(* What db.claim_draft promises its callers, with the table and the turns  *)
(* left out: every thread gets a bounded series of leases, each a whole    *)
(* window after the one before it, and none once the thread is closed.     *)
(***************************************************************************)
EXTENDS Integers

CONSTANTS
  Thread,
  TTL,
  MaxAttempts

VARIABLES
  clock,
  grants,  \* grants[t]: the number of leases given on t
  latest,  \* latest[t]: when the last of them was given
  closed   \* threads that have their draft

leaseVars == <<clock, grants, latest, closed>>

Init ==
  /\ clock = 0
  /\ grants = [t \in Thread |-> 0]
  /\ latest = [t \in Thread |-> 0]
  /\ closed = {}

Grant(t) ==
  /\ t \notin closed
  /\ grants[t] < MaxAttempts
  /\ grants[t] = 0 \/ clock >= latest[t] + TTL
  /\ grants' = [grants EXCEPT ![t] = @ + 1]
  /\ latest' = [latest EXCEPT ![t] = clock]
  /\ UNCHANGED <<clock, closed>>

Close(t) ==
  /\ closed' = closed \cup {t}
  /\ UNCHANGED <<clock, grants, latest>>

Pass ==
  /\ clock' = clock + 1
  /\ UNCHANGED <<grants, latest, closed>>

Next ==
  \/ \E t \in Thread : Grant(t) \/ Close(t)
  \/ Pass

Spec == Init /\ [][Next]_leaseVars
=============================================================================
