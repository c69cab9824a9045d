------------------------------- MODULE Rollup -------------------------------
(***************************************************************************)
(* inbox_unread_rollup: the unread mail of a period that the owner should  *)
(* see, over one mailbox or all of them (rollup.py, and the resolver in    *)
(* __init__.py).  Each mailbox is paged through until enough threads are   *)
(* found, enough messages looked at, or the list ends; one that fails      *)
(* becomes an error of its own; the rest is put in order.                  *)
(*                                                                         *)
(* The list is as it was when its first page was asked for, pages come from *)
(* that list, and none of them is empty while messages remain: the code     *)
(* takes an empty page for the end of the list, even if it has a token.     *)
(* Accounts are numbers, for their order.  A message is its thread, its     *)
(* receive time, and what it counts as: by its label, or by what the        *)
(* classifier says of it, which may be nothing.                             *)
(***************************************************************************)
EXTENDS Integers, Sequences, FiniteSets

CONSTANTS
  Mailbox,    \* the accounts, as numbers for sorted(accounts)
  Thread,
  Unread,     \* Unread[a]: lists of unread messages a may have
  PageSize,   \* messages a page has
  ScanCap,    \* SCAN_CAP
  MaxResults, \* _MAX_RESULTS; the least is one
  Requested,  \* values of max_results the tool is called with
  Since       \* the start of the period

ToRespond == 1  \* sort_order of the two categories that are kept
FYI       == 2
Noise     == 3
Uncertain == 0  \* the classifier fails, or says something unknown

Message == [thread : Thread, date : Nat, kind : {ToRespond, FYI, Noise, Uncertain}]

ASSUME RollupAssumption ==
  /\ Mailbox \subseteq Nat \ {0}
  /\ \A a \in Mailbox : Unread[a] \subseteq Seq(Message)
  /\ PageSize \in Nat \ {0} /\ ScanCap \in Nat \ {0} /\ MaxResults \in Nat \ {0}
  /\ Requested \subseteq Int /\ Since \in Nat

VARIABLES
  mailbox, \* mailbox[a]: the unread messages of a, as Gmail listed them
  step,    \* "resolve", "next", "read" or "done"
  cap,     \* threads wanted for a mailbox
  left,    \* mailboxes still to be read
  box,     \* the mailbox being read: which, and how far
  summary, \* summary[a]: what the result says of a
  found,   \* threads found so far
  output,  \* the result's threads, in order
  caughtUp,
  flagged  \* _NEEDS_RECONNECT

rollupVars == <<mailbox, step, cap, left, box, summary, found, output, caughtUp, flagged>>

Clamp(n) == IF n < 1 THEN 1 ELSE IF n > MaxResults THEN MaxResults ELSE n

NoBox     == [acct |-> 0]
NotAsked  == [is |-> "none"]
Failures  == {"needs_reconnect", "failed", "silent"}  \* "silent": str(exc) is empty
Error(e)  == [is |-> e]
Read(s, t, e) == [is |-> "read", scanned |-> s, truncated |-> t, uncertain |-> e]

RollupTypeOK ==
  /\ \A a \in Mailbox : mailbox[a] \in Seq(Message)
  /\ step \in {"resolve", "next", "read", "done"}
  /\ cap \in 1 .. MaxResults
  /\ left \subseteq Mailbox
  /\ caughtUp \in BOOLEAN
  /\ flagged \subseteq Mailbox

RollupInit ==
  /\ mailbox = [a \in Mailbox |-> <<>>]
  /\ step = "resolve"
  /\ \E n \in Requested : cap = Clamp(n)
  /\ left = {}
  /\ box = NoBox
  /\ summary = [a \in Mailbox |-> NotAsked]
  /\ found = {} /\ output = <<>>
  /\ caughtUp = FALSE
  /\ flagged = {}

-----------------------------------------------------------------------------
\* _resolve_rollup_accounts: a reader for each mailbox asked for, or an error.
Resolve ==
  /\ step = "resolve"
  /\ step' = "next"
  /\ \E asked \in {Mailbox} \cup {{a} : a \in Mailbox} :
     \E readers \in SUBSET asked, dead \in SUBSET asked :
       /\ dead \cap readers = {}
       /\ left' = readers
       /\ flagged' = flagged \cup dead
       /\ summary' = [a \in Mailbox |->
            IF a \in dead THEN Error("needs_reconnect")
            ELSE IF a \in asked \ readers THEN Error("failed") ELSE NotAsked]
  /\ UNCHANGED <<mailbox, cap, box, found, output, caughtUp>>

\* build_rollup takes the mailboxes one after the other, in their order.
Begin(a) ==
  /\ step = "next" /\ a \in left /\ \A b \in left : a <= b
  /\ step' = "read"
  /\ \E list \in Unread[a] : mailbox' = [mailbox EXCEPT ![a] = list]
  /\ left' = left \ {a}
  /\ box' = [acct |-> a, listed |-> 0, scanned |-> 0, uncertain |-> 0, remaining |-> TRUE,
             threads |-> [t \in {} |-> 0], stopped |-> FALSE]
  /\ UNCHANGED <<cap, summary, found, output, caughtUp, flagged>>

Messages == mailbox[box.acct]
Meaningful(b) == Cardinality(DOMAIN b.threads)
Full(b) == b.scanned >= ScanCap \/ Meaningful(b) >= cap

\* The next page of the list; no page is asked for once a limit is reached.
ListPage ==
  /\ step = "read" /\ ~box.stopped
  /\ box.scanned = box.listed
  /\ LET next == IF box.listed + PageSize > Len(Messages) THEN Len(Messages)
                 ELSE box.listed + PageSize
     IN  box' = IF Full(box) THEN [box EXCEPT !.stopped = TRUE]
                ELSE IF next = box.listed THEN [box EXCEPT !.stopped = TRUE, !.remaining = FALSE]
                ELSE [box EXCEPT !.listed = next]
  /\ UNCHANGED <<mailbox, step, cap, left, summary, found, output, caughtUp, flagged>>

\* The newer of two messages stands for the thread.
NewerOnly(m, held) == m.date > held.date

\* The message of the higher priority stands for the thread, then the newer one.
Better(m, held) ==
  \/ m.kind < held.kind
  \/ m.kind = held.kind /\ m.date > held.date

Kept(m) == m.date >= Since /\ m.kind \in {ToRespond, FYI}

\* The thread's message so far, and how many there were.
WithMessage(threads, m) ==
  [t \in DOMAIN threads \cup {m.thread} |->
     IF t # m.thread THEN threads[t]
     ELSE IF t \notin DOMAIN threads THEN [message |-> m, unread |-> 1]
     ELSE [message |-> IF Better(m, threads[t].message) THEN m ELSE threads[t].message,
           unread |-> threads[t].unread + 1]]

\* Whether to stop after the message that was looked at last: the list is at its
\* end with it, or a limit is reached within a page.
Looked(b) ==
  IF b.scanned < b.listed THEN (IF Full(b) THEN [b EXCEPT !.stopped = TRUE] ELSE b)
  ELSE IF b.listed = Len(Messages) THEN [b EXCEPT !.stopped = TRUE, !.remaining = FALSE]
  ELSE b

\* One message of the page: out of the period, noise, uncertain, or kept.
Scan ==
  /\ step = "read" /\ ~box.stopped
  /\ box.scanned < box.listed
  /\ LET m == Messages[box.scanned + 1]
     IN  box' = Looked([box EXCEPT
           !.scanned = @ + 1,
           !.uncertain = IF m.date >= Since /\ m.kind = Uncertain THEN @ + 1 ELSE @,
           !.threads = IF Kept(m) THEN WithMessage(@, m) ELSE @])
  /\ UNCHANGED <<mailbox, step, cap, left, summary, found, output, caughtUp, flagged>>

\* The mailbox is done with.
MailboxDone ==
  /\ step = "read" /\ box.stopped
  /\ step' = "next"
  /\ summary' = [summary EXCEPT ![box.acct] =
                   Read(box.scanned, box.remaining /\ Full(box), box.uncertain)]
  /\ found' = found \cup {[account |-> box.acct, thread |-> t,
                           kind |-> box.threads[t].message.kind,
                           date |-> box.threads[t].message.date,
                           unread |-> box.threads[t].unread] : t \in DOMAIN box.threads}
  /\ box' = NoBox
  /\ UNCHANGED <<mailbox, cap, left, output, caughtUp, flagged>>

\* A call to Gmail fails: nothing of this mailbox is reported, the others are.
MailboxFails(e) ==
  /\ step = "read" /\ ~box.stopped
  /\ step' = "next"
  /\ summary' = [summary EXCEPT ![box.acct] = Error(e)]
  /\ flagged' = IF e = "needs_reconnect" THEN flagged \cup {box.acct} ELSE flagged
  /\ box' = NoBox
  /\ UNCHANGED <<mailbox, cap, left, found, output, caughtUp>>

\* The sort: the priority, the newest first, the account.
Before(p, q) ==
  \/ p.kind < q.kind
  \/ p.kind = q.kind /\ p.date > q.date
  \/ p.kind = q.kind /\ p.date = q.date /\ p.account < q.account

\* The mark, whatever the errors.
NothingFound == found = {}

\* The handler's caught_up mark, which looks for an error that is not empty.
NothingToReport ==
  found = {} /\ \A a \in Mailbox : summary[a].is \in {"none", "read", "silent"}

\* The orders the sort may leave threads in that the key does not tell apart.
Sorted(threads) ==
  {s \in [1 .. Cardinality(threads) -> threads] :
     /\ \A p \in threads : \E i \in DOMAIN s : s[i] = p
     /\ \A i, j \in DOMAIN s : i < j => ~Before(s[j], s[i])}

Finish ==
  /\ step = "next" /\ left = {}
  /\ step' = "done"
  /\ output' \in Sorted(found)
  /\ caughtUp' = NothingToReport
  /\ UNCHANGED <<mailbox, cap, left, box, summary, found, flagged>>

RollupNext ==
  \/ Resolve \/ ListPage \/ Scan \/ MailboxDone \/ Finish
  \/ \E a \in Mailbox : Begin(a)
  \/ \E e \in Failures : MailboxFails(e)

RollupSpec == RollupInit /\ [][RollupNext]_rollupVars

-----------------------------------------------------------------------------
(* Properties. *)

\* The messages of a that the rollup is about.
Wanted(a) == {mailbox[a][i] : i \in {n \in DOMAIN mailbox[a] : Kept(mailbox[a][n])}}

\* A thread's most urgent category, and the newest message of that category.
UrgencyOf(ms) == CHOOSE k \in {m.kind : m \in ms} : \A m \in ms : k <= m.kind
NewestOf(ms)  == CHOOSE d \in {m.date : m \in ms} : \A m \in ms : d >= m.date

Reported(a) ==
  {[thread |-> f.thread, kind |-> f.kind, date |-> f.date] :
     f \in {output[i] : i \in {n \in DOMAIN output : output[n].account = a}}}

Expected(a) ==
  {LET ms == {m \in Wanted(a) : m.thread = t}
       top == {m \in ms : m.kind = UrgencyOf(ms)}
   IN  [thread |-> t, kind |-> UrgencyOf(ms), date |-> NewestOf(top)] :
     t \in {m.thread : m \in Wanted(a)}}

\* A mailbox that is neither an error nor said to be truncated is reported whole:
\* every thread with a message to keep, under its most urgent category and the
\* newest message of it, over pages, limits and the order of the list; and more
\* urgent threads come first, then newer ones.
WholeUnlessTruncated ==
  step = "done" =>
    /\ \A a \in Mailbox :
         summary[a].is = "read" /\ ~summary[a].truncated => Reported(a) = Expected(a)
    /\ \A i, j \in DOMAIN output : i < j =>
         \/ output[i].kind < output[j].kind
         \/ output[i].kind = output[j].kind /\ output[i].date >= output[j].date

\* The owner is told to be caught up only if no mailbox that was asked for has a
\* message to keep, unless the list was cut off or reading it raised an exception
\* without a text.  (Then, or with every answer of the classifier missing, the
\* mark is given all the same.)
CaughtUpExplained ==
  caughtUp =>
    \A a \in Mailbox :
      summary[a] # NotAsked =>
        \/ summary[a].is = "read" /\ (Wanted(a) = {} \/ summary[a].truncated)
        \/ summary[a].is = "silent"

=============================================================================
