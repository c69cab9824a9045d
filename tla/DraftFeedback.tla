---------------------------- MODULE DraftFeedback ----------------------------
(***************************************************************************)
(* What the reinforcement loop learns from the owner's replies: the table  *)
(* draft_outcomes (db.py), the draft captured by inbox_create_draft, the   *)
(* on_sent observers that the module registry runs on four workers, and    *)
(* the periodic sweep that marks unanswered drafts, distils again what     *)
(* failed and prunes (modules/draft_feedback.py, draft_learn.py).          *)
(*                                                                         *)
(* One mailbox.  Its drains appear as the sent messages they hand to       *)
(* on_sent and as the time stamp that set_cursor leaves.                   *)
(***************************************************************************)
EXTENDS Integers, Sequences

CONSTANTS
  Thread,      \* Gmail threads of the mailbox
  Window,      \* draft_feedback_no_reply_hours, in ticks
  CaptureAll,  \* draft_feedback_capture_all_sent
  Faults,      \* which of AllFaults may happen
  NoRow,       \* the thread has no row in draft_outcomes
  MaxSends,    \* bound: messages the owner sends on a thread
  MaxCalls,    \* bound: calls of on_sent for a thread
  MaxTime,     \* bound: ticks of the clock
  MaxCuts      \* bound: how often work is cut off, by a restart or by a
               \* statement of the database that raises

AllFaults == {"llm", "write", "away", "stale", "redrain", "retention"}

\* "verbatim": sent_verbatim, or an edit too small to learn from.  "edited":
\* sent_edited and sent_ignored, which the language model distils.
Outcome == {"pending", "no_reply", "sent_no_draft", "verbatim", "edited"}

Row == [draft : BOOLEAN,          \* draft_body is not NULL
        draftAt : 0 .. MaxTime,   \* draft_created_ms
        outcome : Outcome,
        sent : 0 .. MaxSends,     \* sent_message_id, 0 for NULL
        learned : BOOLEAN]

\* An on_sent call: its step, the message, what it read of the row.
Step == {"queued", "pair", "capture", "fresh", "distil", "mark", "done"}
Call == [step : Step, msg : 1 .. MaxSends, read : Outcome \cup {NoRow}]

ASSUME FeedbackAssumption ==
  /\ Window \in Nat /\ MaxSends \in Nat /\ MaxCalls \in Nat
  /\ MaxTime \in Nat /\ MaxCuts \in Nat
  /\ CaptureAll \in BOOLEAN
  /\ Faults \subseteq AllFaults
  /\ NoRow \notin Row \cup Outcome \cup Thread

VARIABLES
  now,        \* _now_ms()
  mail,       \* mail[t]: when the owner sent the messages on t
  seen,       \* seen[t]: how many of them drains have passed
  drainedAt,  \* accounts.updated_at_ms
  watched,    \* the account is managed and not awaiting reconnect
  row,        \* draft_outcomes
  calls,      \* calls[t]: the on_sent calls for messages of t, in order
  sweep,      \* what the sweep is doing
  flips,      \* pending rows it has listed, each with its draft time
  queue,      \* unlearned rows it has listed, each with its outcome
  distilling, \* the thread the sweep distilled and has not marked, or NoRow
  cuts,       \* restarts and raising statements so far
  paired,     \* history: on_sent calls that recorded a send in the row
  distilled,  \* history: distillations applied for the row
  overwrote   \* history: threads where on_sent recorded over a row that had
              \* changed since it read it

callVars  == <<calls>>
sweepVars == <<sweep, flips, queue, distilling>>
history   == <<paired, distilled, overwrote>>
vars == <<now, mail, seen, drainedAt, watched, row, callVars, sweepVars, cuts, history>>

TypeOK ==
  /\ now \in 0 .. MaxTime
  /\ mail \in [Thread -> Seq(0 .. MaxTime)] /\ seen \in [Thread -> 0 .. MaxSends]
  /\ \A t \in Thread : seen[t] <= Len(mail[t]) /\ Len(mail[t]) <= MaxSends
  /\ drainedAt \in 0 .. MaxTime
  /\ watched \in BOOLEAN
  /\ row \in [Thread -> Row \cup {NoRow}]
  /\ calls \in [Thread -> Seq(Call)]
  /\ \A t \in Thread : Len(calls[t]) <= MaxCalls
  /\ sweep \in {"idle", "flip", "distil"}
  /\ flips \subseteq [thread : Thread, draftAt : 0 .. MaxTime]
  /\ queue \subseteq [thread : Thread, outcome : Outcome]
  /\ distilling \in Thread \cup {NoRow}
  /\ cuts \in 0 .. MaxCuts
  /\ paired \in [Thread -> 0 .. MaxCalls]
  /\ distilled \in [Thread -> Nat]
  /\ overwrote \subseteq Thread

Init ==
  /\ now = 0
  /\ mail = [t \in Thread |-> <<>>]
  /\ seen = [t \in Thread |-> 0]
  /\ drainedAt = 0
  /\ watched = TRUE
  /\ row = [t \in Thread |-> NoRow]
  /\ calls = [t \in Thread |-> <<>>]
  /\ sweep = "idle"
  /\ flips = {}
  /\ queue = {}
  /\ distilling = NoRow
  /\ cuts = 0
  /\ paired = [t \in Thread |-> 0]
  /\ distilled = [t \in Thread |-> 0]
  /\ overwrote = {}

-----------------------------------------------------------------------------
(* The mailbox. *)

OwnerSends(t) ==
  /\ Len(mail[t]) < MaxSends
  /\ mail' = [mail EXCEPT ![t] = Append(@, now)]
  /\ UNCHANGED <<now, seen, drainedAt, watched, row, callVars, sweepVars, cuts, history>>

\* A drain hands the next message of the thread to the registry, or the last
\* one again when it repeats a batch.
DispatchSent(t, m) ==
  /\ watched
  /\ Len(calls[t]) < MaxCalls
  /\ m \in 1 .. Len(mail[t])
  /\ \/ m = seen[t] + 1
     \/ "redrain" \in Faults /\ m = seen[t]
  /\ seen' = [seen EXCEPT ![t] = m]
  /\ calls' = [calls EXCEPT ![t] = Append(@, [step |-> "queued", msg |-> m, read |-> NoRow])]
  /\ UNCHANGED <<now, mail, drainedAt, watched, row, sweepVars, cuts, history>>

\* set_cursor at the end of a drain that has handed everything over.
EndDrain ==
  /\ watched
  /\ \A t \in Thread : seen[t] = Len(mail[t])
  /\ drainedAt' = now
  /\ UNCHANGED <<now, mail, seen, watched, row, callVars, sweepVars, cuts, history>>

\* A bug that the checks must notice: the reset goes past the latest message.
ResetAhead ==
  /\ "stale" \in Faults
  /\ watched
  /\ seen' = [t \in Thread |-> Len(mail[t]) + 1]
  /\ drainedAt' = now
  /\ UNCHANGED <<now, mail, watched, row, callVars, sweepVars, cuts, history>>

\* set_cursor after StaleCursor: what lay in between is never handed over.
ResetStale ==
  /\ "stale" \in Faults
  /\ watched
  /\ seen' = [t \in Thread |-> Len(mail[t])]
  /\ drainedAt' = now
  /\ UNCHANGED <<now, mail, watched, row, callVars, sweepVars, cuts, history>>

\* The account is dropped or awaits a reconnect, and comes back.
TurnAway ==
  /\ "away" \in Faults
  /\ watched' = ~watched
  /\ UNCHANGED <<now, mail, seen, drainedAt, row, callVars, sweepVars, cuts, history>>

Tick ==
  /\ now < MaxTime
  /\ now' = now + 1
  /\ UNCHANGED <<mail, seen, drainedAt, watched, row, callVars, sweepVars, cuts, history>>

-----------------------------------------------------------------------------
(* The draft side, written at inbox_create_draft. *)

\* upsert_draft_outcome_draft: inserts, or refreshes a row still pending.
CaptureDraft(t) ==
  /\ \/ row[t] = NoRow
     \/ row[t] # NoRow /\ row[t].outcome = "pending"
  /\ row' = [row EXCEPT ![t] =
       [draft |-> TRUE, draftAt |-> now, outcome |-> "pending", sent |-> 0,
        learned |-> FALSE]]
  /\ UNCHANGED <<now, mail, seen, drainedAt, watched, callVars, sweepVars, cuts, history>>

-----------------------------------------------------------------------------
(* on_sent, one step per statement that reads or writes the database. *)

At(t, i, step) == calls[t][i].step = step

\* What a call has read is gone when it is done.
Goto(t, i, step, read) ==
  calls' = [calls EXCEPT ![t][i] =
    [@ EXCEPT !.step = step, !.read = IF step = "done" THEN NoRow ELSE read]]

\* The outcome column, or NoRow.
OutcomeOf(t) == IF row[t] = NoRow THEN NoRow ELSE row[t].outcome

\* get_draft_outcome decides: pair a drafted row that is pending, leave one that
\* is not, capture a reply to a thread without a draft.  A reply that is empty
\* or goes to several people is not captured.
ReadRow(t, i) ==
  /\ At(t, i, "queued")
  /\ \E step \in {"pair", "capture", "done"} :
       /\ Goto(t, i, step, OutcomeOf(t))
       /\ IF row[t] # NoRow /\ row[t].draft
          THEN step = IF row[t].outcome = "pending" THEN "pair" ELSE "done"
          ELSE step = "done" \/ (CaptureAll /\ step = "capture")
  /\ UNCHANGED <<now, mail, seen, drainedAt, watched, row, sweepVars, cuts, history>>

\* record_draft_outcome_sent: unconditional, and it leaves the draft and the
\* learned flag of the row as they are.
RecordSent(t, i, outcome) ==
  LET old == IF row[t] = NoRow
             THEN [draft |-> FALSE, draftAt |-> 0, outcome |-> outcome, sent |-> 0,
                   learned |-> FALSE]
             ELSE row[t]
  IN  /\ row' = [row EXCEPT ![t] = [old EXCEPT !.outcome = outcome, !.sent = calls[t][i].msg]]
      /\ paired' = [paired EXCEPT ![t] = @ + 1]
      /\ overwrote' = IF calls[t][i].read = OutcomeOf(t)
                      THEN overwrote ELSE overwrote \cup {t}
      /\ UNCHANGED distilled

\* _pair_drafted: the outcome depends on the two bodies.
PairDrafted(t, i) ==
  /\ At(t, i, "pair")
  /\ \E outcome \in {"verbatim", "edited"} : RecordSent(t, i, outcome)
  /\ Goto(t, i, "fresh", NoRow)
  /\ UNCHANGED <<now, mail, seen, drainedAt, watched, sweepVars, cuts>>

\* _capture_non_drafted.
CaptureNonDrafted(t, i) ==
  /\ At(t, i, "capture")
  /\ RecordSent(t, i, "sent_no_draft")
  /\ Goto(t, i, "done", NoRow)
  /\ UNCHANGED <<now, mail, seen, drainedAt, watched, sweepVars, cuts>>

\* _pair_drafted reads the row again: whatever it holds now is distilled.
ReadFresh(t, i) ==
  /\ At(t, i, "fresh")
  /\ Goto(t, i, IF row[t] = NoRow THEN "done" ELSE "distil", OutcomeOf(t))
  /\ UNCHANGED <<now, mail, seen, drainedAt, watched, row, sweepVars, cuts, history>>

\* distill_and_apply up to its last statement: only an edit needs the language
\* model and leaves evidence.
Apply(t, outcome) ==
  distilled' = [distilled EXCEPT ![t] = IF outcome = "edited" THEN @ + 1 ELSE @]

ModelFails(outcome) == "llm" \in Faults /\ outcome = "edited"

\* A bug that the checks must notice: a model that fails counts as done.
DistilAnyway(t, i) ==
  /\ At(t, i, "distil")
  /\ Goto(t, i, "mark", NoRow)
  /\ Apply(t, calls[t][i].read) \/ (ModelFails(calls[t][i].read) /\ UNCHANGED distilled)
  /\ UNCHANGED <<now, mail, seen, drainedAt, watched, row, sweepVars, cuts, paired, overwrote>>

\* The distillation; when the model fails the row stays unlearned.
DistilSent(t, i) ==
  /\ At(t, i, "distil")
  /\ \/ Apply(t, calls[t][i].read) /\ Goto(t, i, "mark", NoRow)
     \/ ModelFails(calls[t][i].read) /\ Goto(t, i, "done", NoRow) /\ UNCHANGED distilled
  /\ UNCHANGED <<now, mail, seen, drainedAt, watched, row, sweepVars, cuts, paired, overwrote>>

\* mark_outcome_learned, which changes nothing when the row is gone.
Learn(t) == row' = [row EXCEPT ![t] = IF @ = NoRow THEN @ ELSE [@ EXCEPT !.learned = TRUE]]

MarkSent(t, i) ==
  /\ At(t, i, "mark")
  /\ Learn(t)
  /\ Goto(t, i, "done", NoRow)
  /\ UNCHANGED <<now, mail, seen, drainedAt, watched, sweepVars, cuts, history>>

\* A statement of the call raises and on_sent logs it.  In the distillation the
\* notes and lessons written before it stay; they count as evidence.
SentFails(t, i) ==
  /\ "write" \in Faults
  /\ cuts < MaxCuts
  /\ ~At(t, i, "done")
  /\ cuts' = cuts + 1
  /\ Goto(t, i, "done", NoRow)
  /\ UNCHANGED distilled \/ (At(t, i, "distil") /\ Apply(t, calls[t][i].read))
  /\ UNCHANGED <<now, mail, seen, drainedAt, watched, row, sweepVars, paired, overwrote>>

OnSent(t, i) ==
  \/ ReadRow(t, i)
  \/ PairDrafted(t, i)
  \/ CaptureNonDrafted(t, i)
  \/ ReadFresh(t, i)
  \/ DistilSent(t, i)
  \/ MarkSent(t, i)

-----------------------------------------------------------------------------
(* The sweep, one step per statement that reads or writes the database. *)

\* pending_outcomes_older_than, and the accounts that are watched.
ListPending ==
  /\ sweep = "idle"
  /\ sweep' = "flip"
  /\ flips' = {[thread |-> t, draftAt |-> row[t].draftAt] :
                 t \in {u \in Thread : /\ watched
                                       /\ row[u] # NoRow
                                       /\ row[u].draft
                                       /\ row[u].outcome = "pending"
                                       /\ row[u].draftAt + Window <= now}}
  /\ UNCHANGED <<now, mail, seen, drainedAt, watched, row, callVars, queue, distilling,
                 cuts, history>>

\* A bug that the checks must notice: the flip does not look at the outcome.
MarkNoReplyBlindly(f) ==
  /\ sweep = "flip"
  /\ f \in flips
  /\ flips' = flips \ {f}
  /\ row' = IF drainedAt > f.draftAt /\ row[f.thread] # NoRow
            THEN [row EXCEPT ![f.thread].outcome = "no_reply"]
            ELSE row
  /\ UNCHANGED <<now, mail, seen, drainedAt, watched, callVars, sweep, queue, distilling,
                 cuts, history>>

\* mark_outcome_no_reply, when the mailbox was drained after the listed draft
\* time: flips a row that is still pending.  The stamp only grows, so reading
\* it a moment earlier makes no difference.
MarkNoReply(f) ==
  /\ sweep = "flip"
  /\ f \in flips
  /\ flips' = flips \ {f}
  /\ row' = IF /\ drainedAt > f.draftAt
               /\ row[f.thread] # NoRow
               /\ row[f.thread].outcome = "pending"
            THEN [row EXCEPT ![f.thread].outcome = "no_reply"]
            ELSE row
  /\ UNCHANGED <<now, mail, seen, drainedAt, watched, callVars, sweep, queue, distilling,
                 cuts, history>>

\* Bugs that the checks must notice: the learned flag is not looked at, and
\* only the outcomes that need the model are taken up again.
ListClassified ==
  /\ sweep = "flip"
  /\ flips = {}
  /\ sweep' = "distil"
  /\ queue' = {[thread |-> t, outcome |-> row[t].outcome] :
                 t \in {u \in Thread : row[u] # NoRow /\ row[u].outcome # "pending"}}
  /\ UNCHANGED <<now, mail, seen, drainedAt, watched, row, callVars, flips, distilling,
                 cuts, history>>
ListEdited ==
  /\ sweep = "flip"
  /\ flips = {}
  /\ sweep' = "distil"
  /\ queue' = {[thread |-> t, outcome |-> row[t].outcome] :
                 t \in {u \in Thread : /\ row[u] # NoRow
                                       /\ ~row[u].learned
                                       /\ row[u].outcome = "edited"}}
  /\ UNCHANGED <<now, mail, seen, drainedAt, watched, row, callVars, flips, distilling,
                 cuts, history>>

\* unlearned_outcomes (the 200 oldest, which hold every row of a small model).
ListUnlearned ==
  /\ sweep = "flip"
  /\ flips = {}
  /\ sweep' = "distil"
  /\ queue' = {[thread |-> t, outcome |-> row[t].outcome] :
                 t \in {u \in Thread : /\ row[u] # NoRow
                                       /\ ~row[u].learned
                                       /\ row[u].outcome # "pending"}}
  /\ UNCHANGED <<now, mail, seen, drainedAt, watched, row, callVars, flips, distilling,
                 cuts, history>>

\* distill_and_apply of a listed row, as it was when it was listed.
DistilAgain(q) ==
  /\ sweep = "distil"
  /\ distilling = NoRow
  /\ q \in queue
  /\ queue' = queue \ {q}
  /\ Apply(q.thread, q.outcome)
  /\ distilling' = q.thread
  /\ UNCHANGED <<now, mail, seen, drainedAt, watched, row, callVars, sweep, flips,
                 cuts, paired, overwrote>>

FailAgain(q) ==
  /\ sweep = "distil"
  /\ distilling = NoRow
  /\ q \in queue
  /\ ModelFails(q.outcome)
  /\ queue' = queue \ {q}
  /\ UNCHANGED <<now, mail, seen, drainedAt, watched, row, callVars, sweep, flips,
                 distilling, cuts, history>>

MarkAgain ==
  /\ distilling # NoRow
  /\ Learn(distilling)
  /\ distilling' = NoRow
  /\ UNCHANGED <<now, mail, seen, drainedAt, watched, callVars, sweep, flips, queue,
                 cuts, history>>

\* A statement of the sweep raises.  While it marks and lists rows that ends the
\* pass (sweep_once); a listed row only ends itself (_retry_distillation), with
\* the evidence written before, and also when it is mark_outcome_learned that
\* raises.  In _prune it ends the pass with nothing deleted: Prune({}).
PassFails ==
  /\ sweep = "flip"
  /\ sweep' = "idle"
  /\ flips' = {}
  /\ UNCHANGED <<queue, distilling, distilled>>

AgainFails(q) ==
  /\ sweep = "distil"
  /\ distilling = NoRow
  /\ q \in queue
  /\ queue' = queue \ {q}
  /\ UNCHANGED distilled \/ Apply(q.thread, q.outcome)
  /\ UNCHANGED <<sweep, flips, distilling>>

MarkFails ==
  /\ distilling # NoRow
  /\ distilling' = NoRow
  /\ UNCHANGED <<sweep, flips, queue, distilled>>

SweepFails ==
  /\ "write" \in Faults
  /\ cuts < MaxCuts
  /\ cuts' = cuts + 1
  /\ \/ PassFails
     \/ \E q \in queue : AgainFails(q)
     \/ MarkFails
  /\ UNCHANGED <<now, mail, seen, drainedAt, watched, row, callVars, paired, overwrote>>

\* Retention runs to days, an on_sent call to minutes: a row whose retention is
\* over is in nobody's hands.
Expired(t) ==
  /\ "retention" \in Faults
  /\ row[t] # NoRow
  /\ row[t].learned
  /\ \A i \in 1 .. Len(calls[t]) : calls[t][i].step \in {"queued", "done"}

\* _prune, the end of the pass: delete_learned_outcomes_older_than.
Prune(gone) ==
  /\ sweep = "distil"
  /\ queue = {}
  /\ distilling = NoRow
  /\ \A t \in gone : Expired(t)
  /\ sweep' = "idle"
  /\ row' = [t \in Thread |-> IF t \in gone THEN NoRow ELSE row[t]]
  /\ paired' = [t \in Thread |-> IF t \in gone THEN 0 ELSE paired[t]]
  /\ distilled' = [t \in Thread |-> IF t \in gone THEN 0 ELSE distilled[t]]
  /\ overwrote' = overwrote \ gone
  /\ UNCHANGED <<now, mail, seen, drainedAt, watched, callVars, flips, queue, distilling,
                 cuts>>

Sweep ==
  \/ ListPending
  \/ \E f \in flips : MarkNoReply(f)
  \/ ListUnlearned
  \/ \E q \in queue : DistilAgain(q) \/ FailAgain(q)
  \/ MarkAgain
  \/ \E gone \in SUBSET Thread : Prune(gone)

\* The process dies: the workers' calls are gone, the table stays.
Crash ==
  /\ cuts < MaxCuts
  /\ cuts' = cuts + 1
  /\ calls' = [t \in Thread |->
       [i \in 1 .. Len(calls[t]) |-> [calls[t][i] EXCEPT !.step = "done", !.read = NoRow]]]
  /\ sweep' = "idle"
  /\ flips' = {}
  /\ queue' = {}
  /\ distilling' = NoRow
  /\ UNCHANGED <<now, mail, seen, drainedAt, watched, row, history>>

-----------------------------------------------------------------------------
Next ==
  \/ \E t \in Thread :
       \/ OwnerSends(t)
       \/ \E m \in 1 .. MaxSends : DispatchSent(t, m)
       \/ CaptureDraft(t)
       \/ \E i \in 1 .. Len(calls[t]) : OnSent(t, i) \/ SentFails(t, i)
  \/ EndDrain
  \/ ResetStale
  \/ TurnAway
  \/ Tick
  \/ Sweep
  \/ SweepFails
  \/ Crash

Spec == Init /\ [][Next]_vars

\* The sweep keeps running, and a row that it tries again and again is distilled
\* some day: the model answers and the database stops raising.  Nothing is asked
\* of the on_sent calls: a crash or a raising statement may end them all.
FairSpec ==
  /\ Spec
  /\ WF_vars(Sweep)
  /\ \A t \in Thread : SF_vars(\E q \in queue : q.thread = t /\ DistilAgain(q))

-----------------------------------------------------------------------------
(* Properties. *)

\* A send that was recorded stands: no draft captured later and no sweep that
\* listed the row before takes the reply or its outcome away (M3 and G1 in
\* db.py).
SentSideStands ==
  [][\A t \in Thread : row[t] # NoRow /\ row[t].sent > 0 /\ row'[t] # NoRow =>
       row'[t].sent > 0 /\ row'[t].outcome \notin {"pending", "no_reply"}]_vars

\* A row counts as evidence at most once for each on_sent call that paired it
\* and once for the sweep, and once more each time a restart or a raising
\* statement came between the evidence and mark_outcome_learned: the learned flag
\* keeps every other sweep away from it.
EvidenceBounded ==
  \A t \in Thread : distilled[t] <= paired[t] + 1 + cuts

\* A row is marked learned with nothing distilled from its edited reply only
\* if on_sent recorded that reply over a row that had changed since it read
\* it.  Failing models and statements, sweeps in between, repeated drains and
\* restarts lose no edit in any other way.
LessonsLostExplained ==
  \A t \in Thread :
    row[t] # NoRow /\ row[t].outcome = "edited" /\ row[t].learned /\ distilled[t] = 0 =>
      t \in overwrote

\* What is classified is learned some day, even if the worker that should have
\* done it failed or died, because the sweep takes it up.
LearnsEventually ==
  \A t \in Thread :
    row[t] # NoRow /\ row[t].outcome # "pending" ~> row[t] = NoRow \/ row[t].learned
=============================================================================
