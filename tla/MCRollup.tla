------------------------------ MODULE MCRollup ------------------------------
(* A mailbox with up to four unread messages and one with at most one. *)
EXTENDS Rollup

CONSTANTS x, y

M(thread, date, kind) == [thread |-> thread, date |-> date, kind |-> kind]

\* Before the period, noise, uncertain, and threads of several urgencies and dates.
Some == {M(x, 0, ToRespond), M(x, 1, ToRespond), M(x, 2, ToRespond), M(x, 2, FYI),
         M(y, 1, FYI), M(y, 2, ToRespond), M(y, 1, Noise), M(x, 2, Uncertain)}

MCUnread ==
  [a \in {1, 2} |-> IF a = 1 THEN UNION {[1 .. n -> Some] : n \in 0 .. 4}
                        ELSE {<<>>, <<M(x, 2, FYI)>>}]

=============================================================================
