------------------------------ MODULE Handover -------------------------------
(***************************************************************************)
(* What keeping an account in sync promises the triage, with threads,      *)
(* labels, notifications and drains left out: mail is numbered as it       *)
(* comes, a mark moves over it, and the mark passes a message only once    *)
(* the message was handed on or is on the list of those given up.  A       *)
(* message is handed on once, and once more for each cut at most.          *)
(***************************************************************************)
EXTENDS Integers

CONSTANTS
  MaxMail,
  PageCap  \* messages after the mark that one pass looks at

VARIABLES
  arrived, \* messages so far
  oldest,  \* below it, nothing can be looked up any more
  mark,    \* the last message that was passed
  handed,  \* handed[m]: how often m was handed on
  missed,  \* messages given up when they were last looked at
  cuts     \* passes that ended half way

handoverVars == <<arrived, oldest, mark, handed, missed, cuts>>

Init ==
  /\ arrived = 0 /\ oldest = 0 /\ mark = 0 /\ cuts = 0
  /\ handed = [m \in 1 .. MaxMail |-> 0]
  /\ missed = {}

Arrive ==
  /\ arrived < MaxMail
  /\ arrived' = arrived + 1
  /\ UNCHANGED <<oldest, mark, handed, missed, cuts>>

Expire(id) ==
  /\ oldest < id
  /\ oldest' = id
  /\ UNCHANGED <<arrived, mark, handed, missed, cuts>>

\* Only what is ahead of the mark is handed on, and again only after a cut.
HandOn(m) ==
  /\ m > mark
  /\ handed[m] <= cuts
  /\ handed' = [handed EXCEPT ![m] = @ + 1]
  /\ missed' = missed \ {m}
  /\ UNCHANGED <<arrived, oldest, mark, cuts>>

GiveUp(m) ==
  /\ m > mark
  /\ missed' = missed \cup {m}
  /\ UNCHANGED <<arrived, oldest, mark, handed, cuts>>

\* The mark moves forward over what was settled; what is out of a pass's reach
\* is given up.
Pass(to) ==
  LET beyond == mark + PageCap + 1 .. to
  IN  /\ to >= mark
      /\ \A m \in (mark + 1 .. to) \ beyond : handed[m] > 0 \/ m \in missed
      /\ mark' = to
      /\ missed' = missed \cup beyond
      /\ UNCHANGED <<arrived, oldest, handed, cuts>>

\* A mark that fell behind is put anywhere; what it jumps over is given up.
Restart(to) ==
  /\ mark < oldest
  /\ mark' = to
  /\ missed' = missed \cup (mark + 1 .. to)
  /\ UNCHANGED <<arrived, oldest, handed, cuts>>

Cut ==
  /\ cuts' = cuts + 1
  /\ UNCHANGED <<arrived, oldest, mark, handed, missed>>

Next ==
  \/ Arrive \/ Cut
  \/ \E m \in 1 .. arrived : Expire(m) \/ HandOn(m) \/ GiveUp(m)
  \/ \E to \in 0 .. arrived : Pass(to) \/ Restart(to)

Spec == Init /\ [][Next]_handoverVars
=============================================================================
