------------------------------ MODULE InboxSync ------------------------------
(***************************************************************************)
(* How one account is kept in sync: Gmail's history, the notifications     *)
(* Pub/Sub delivers about it, the two drains that read it from the stored  *)
(* cursor (a notification's and the poll's, runtime.py), the triage of     *)
(* each new message (triage.py) and of each message the owner sent         *)
(* (sent_handler.py), and the moving of the cursor.                        *)
(*                                                                         *)
(* A message is its history id.  Accounts share nothing but the lock that  *)
(* serialises drains, so one account shows every behaviour of one.         *)
(***************************************************************************)
EXTENDS Integers, FiniteSets, Sequences

CONSTANTS
  Thread,     \* Gmail threads
  MaxMail,    \* bound: messages that ever arrive
  PageCap,    \* messages that fit in MAX_PAGES pages of history.list
  Faults,     \* which of AllFaults may happen
  MaxAborts   \* bound: drains cut off by a crash or a failed cursor write

AllFaults == {"lost", "redelivered", "message", "auth", "expiry"}

ASSUME SyncAssumption ==
  /\ MaxMail \in Nat
  /\ PageCap \in Nat \ {0}
  /\ MaxAborts \in Nat
  /\ Faults \subseteq AllFaults

VARIABLES
  log,      \* messages added to the mailbox, in history order
  oldest,   \* history older than this id is gone from Gmail
  notes,    \* unacknowledged notifications, by the history id each carries
  managed,  \* the account is in _by_email
  cursor,   \* accounts.history_cursor
  phase,    \* what the thread that holds _lock is doing
  caller,   \* the notification being drained, or 0 for the poll
  target,   \* drain_history's max_hid
  todo,     \* messages listed and not triaged yet
  label,    \* the category label on the Gmail thread
  claimed,  \* threads that have a row in draft_requests
  handled,  \* history: handled[m] counts the triages of m that ran to the end
  missed,   \* history: why the last drain to pass m did so without a triage
  aborts    \* drains cut off so far

gmailVars == <<log, oldest, label>>
drainVars == <<phase, caller, target, todo>>
history   == <<handled, missed>>
vars      == <<gmailVars, notes, managed, cursor, drainVars, claimed, history, aborts>>

Id == 1 .. MaxMail

\* An inbound message, a sent message that closes its subject, and one that
\* asks something (sent_awaits_reply).
Kind == {"inbound", "reply", "question"}
Mail == [thread : Thread, kind : Kind]

\* Without the blanks of labels.py.  "FYI" stands for the five categories of
\* inbound mail that wake nobody.
SentLabel == {"Actioned", "AwaitingReply"}
Label     == {"none", "ToRespond", "FYI"} \cup SentLabel

Reason == {"no", "failed", "beyond", "expired"}

TypeOK ==
  /\ log \in Seq(Mail) /\ Len(log) <= MaxMail
  /\ oldest \in 0 .. Len(log)
  /\ notes \subseteq 1 .. Len(log)
  /\ managed \in BOOLEAN
  /\ cursor \in 0 .. Len(log)
  /\ phase \in {"idle", "draining", "labelled"}
  /\ caller \in 0 .. Len(log)
  /\ target \in 0 .. Len(log)
  /\ todo \subseteq 1 .. target
  /\ label \in [Thread -> Label]
  /\ claimed \subseteq Thread
  /\ handled \in [Id -> 0 .. MaxAborts + 1]
  /\ missed \in [Id -> Reason]
  /\ aborts \in 0 .. MaxAborts

\* start() armed the watch of an account it had not seen before and stored the
\* history id the watch began at.
Init ==
  /\ log = <<>>
  /\ oldest = 0
  /\ notes = {}
  /\ managed = TRUE
  /\ cursor = 0
  /\ phase = "idle"
  /\ caller = 0
  /\ target = 0
  /\ todo = {}
  /\ label = [t \in Thread |-> "none"]
  /\ claimed = {}
  /\ handled = [m \in Id |-> 0]
  /\ missed = [m \in Id |-> "no"]
  /\ aborts = 0

-----------------------------------------------------------------------------
(* Gmail and Pub/Sub. *)

Owner(m)   == log[m].thread
Inbound(m) == log[m].kind = "inbound"

MailArrives(t, kind) ==
  /\ Len(log) < MaxMail
  /\ log' = Append(log, [thread |-> t, kind |-> kind])
  /\ notes' = notes \cup {Len(log) + 1}
  /\ UNCHANGED <<oldest, label, managed, cursor, drainVars, claimed, history, aborts>>

\* Pub/Sub drops a notification.
LoseNote(n) ==
  /\ "lost" \in Faults
  /\ n \in notes
  /\ notes' = notes \ {n}
  /\ UNCHANGED <<gmailVars, managed, cursor, drainVars, claimed, history, aborts>>

\* An acknowledged notification goes away, unless Pub/Sub delivers it again.
Ack(n) ==
  \/ notes' = notes \ {n}
  \/ "redelivered" \in Faults /\ notes' = notes

\* Gmail forgets history older than about a week.
HistoryExpires(id) ==
  /\ "expiry" \in Faults
  /\ oldest < id
  /\ oldest' = id
  /\ UNCHANGED <<log, label, notes, managed, cursor, drainVars, claimed, history, aborts>>

-----------------------------------------------------------------------------
(* The drain.  A notification n > 0 or the poll, 0, starts it and holds the *)
(* lock until it ends; anything else may happen in between.                 *)

CanDrain(n) ==
  /\ phase = "idle"
  /\ managed
  /\ n \in notes \cup {0}

\* Bugs that the checks must notice: the history after the cursor off by one.
ListedLate(from, to) == {m \in Id : from + 1 < m /\ m <= to /\ m <= from + PageCap}
ListedEarly(from, to) == {m \in Id : from <= m /\ m <= to /\ m <= from + PageCap}

\* What the pages that drain_history reads reach.
Listed(from, to) == {m \in Id : from < m /\ m <= to /\ m <= from + PageCap}

\* The poll and the notification fall back to different places: the poll to the
\* cursor it just read, the notification to the id it carries.
Fallback(n) == IF n = 0 THEN cursor ELSE n

\* Messages that a new cursor passes without a triage.
Leave(skipped, why) ==
  missed' = [m \in Id |-> IF m \in skipped THEN why ELSE missed[m]]

\* history.list from the cursor answers with the new messages and with the
\* mailbox's current history id.
ListHistory(n) ==
  /\ CanDrain(n)
  /\ cursor >= oldest
  /\ phase' = "draining"
  /\ caller' = n
  /\ target' = Len(log)
  /\ todo' = Listed(cursor, Len(log))
  /\ UNCHANGED <<gmailVars, notes, managed, cursor, claimed, history, aborts>>

\* history.list answers 404: StaleCursor, and the cursor becomes the fallback.
ResetStale(n) ==
  /\ CanDrain(n)
  /\ cursor < oldest
  /\ cursor' = Fallback(n)
  /\ Leave({m \in Id : cursor < m /\ m <= Fallback(n)}, "expired")
  /\ Ack(n)
  /\ UNCHANGED <<gmailVars, managed, drainVars, claimed, handled, aborts>>

\* history.list answers with an authentication error: the account is dropped
\* and the notification acknowledged.  A notification of a dropped account is
\* acknowledged unread.
AuthFails(n) ==
  /\ "auth" \in Faults
  /\ CanDrain(n)
  /\ managed' = FALSE
  /\ Ack(n)
  /\ UNCHANGED <<gmailVars, cursor, drainVars, claimed, history, aborts>>

IgnoreNote(n) ==
  /\ phase = "idle"
  /\ ~managed
  /\ n \in notes
  /\ Ack(n)
  /\ UNCHANGED <<gmailVars, managed, cursor, drainVars, claimed, history, aborts>>

\* The owner connects the account again; add_account keeps a stored cursor.
Reconnect ==
  /\ ~managed
  /\ managed' = TRUE
  /\ UNCHANGED <<gmailVars, notes, cursor, drainVars, claimed, history, aborts>>

\* The locals of a drain are gone when it ends.
EndDrain == phase' = "idle" /\ caller' = 0 /\ target' = 0 /\ todo' = {}

-----------------------------------------------------------------------------
(* Triage. *)

\* A bug that the checks must notice: the sent messages come first.
IsNextSentFirst(m) ==
  /\ m \in todo
  /\ \A k \in todo :
       IF Inbound(m) THEN Inbound(k) /\ m <= k ELSE ~Inbound(k) => m <= k

\* m is the next to triage: the inbound messages in order, then the sent ones.
IsNext(m) ==
  /\ m \in todo
  /\ \A k \in todo :
       IF Inbound(m) THEN Inbound(k) => m <= k ELSE ~Inbound(k) /\ m <= k

Relabel(m, category) ==
  /\ phase = "draining"
  /\ IsNext(m)
  /\ phase' = "labelled"
  /\ label' = [label EXCEPT ![Owner(m)] = category]
  /\ UNCHANGED <<log, oldest, notes, managed, cursor, caller, target, todo,
                 claimed, history, aborts>>

\* process_message up to apply_category: fetch, classify, label the thread.
LabelInbound(m, category) == Inbound(m) /\ Relabel(m, category)

\* handle_sent up to threads.modify: only a closing reply on a thread that
\* carries To Respond is Actioned.
LabelSent(m) ==
  /\ ~Inbound(m)
  /\ Relabel(m, IF label[Owner(m)] = "ToRespond" /\ log[m].kind = "reply"
                THEN "Actioned" ELSE "AwaitingReply")

\* A bug that the checks must notice: the poll drains without a wake_fn.
CompleteOnPush(m) ==
  /\ phase = "labelled"
  /\ IsNext(m)
  /\ phase' = "draining"
  /\ todo' = todo \ {m}
  /\ handled' = [handled EXCEPT ![m] = @ + 1]
  /\ missed' = [missed EXCEPT ![m] = "no"]
  /\ claimed' = IF caller # 0 /\ Inbound(m) /\ label[Owner(m)] = "ToRespond"
                THEN claimed \cup {Owner(m)} ELSE claimed
  /\ UNCHANGED <<gmailVars, notes, managed, cursor, caller, target, aborts>>

\* The rest of the triage: persist, dispatch, and the claim of _dedup_wake,
\* which finds a row or makes one.
Complete(m) ==
  /\ phase = "labelled"
  /\ IsNext(m)
  /\ phase' = "draining"
  /\ todo' = todo \ {m}
  /\ handled' = [handled EXCEPT ![m] = @ + 1]
  /\ missed' = [missed EXCEPT ![m] = "no"]
  /\ claimed' = IF Inbound(m) /\ label[Owner(m)] = "ToRespond"
                THEN claimed \cup {Owner(m)} ELSE claimed
  /\ UNCHANGED <<gmailVars, notes, managed, cursor, caller, target, aborts>>

\* The triage raises, before or after the label: drain_history logs it and goes
\* on to the next message.
Fail(m) ==
  /\ "message" \in Faults
  /\ phase \in {"draining", "labelled"}
  /\ IsNext(m)
  /\ phase' = "draining"
  /\ todo' = todo \ {m}
  /\ missed' = [missed EXCEPT ![m] = "failed"]
  /\ UNCHANGED <<gmailVars, notes, managed, cursor, caller, target, claimed,
                 handled, aborts>>

\* Bugs that the checks must notice: the cursor is left where it is, is left
\* there by the poll, or becomes the id the notification carries.
FinishForgets ==
  /\ phase = "draining"
  /\ todo = {}
  /\ EndDrain
  /\ IF caller = 0 THEN UNCHANGED notes ELSE Ack(caller)
  /\ UNCHANGED <<gmailVars, managed, cursor, claimed, history, aborts>>
FinishOnPush ==
  /\ phase = "draining"
  /\ todo = {}
  /\ EndDrain
  /\ cursor' = IF caller = 0 THEN cursor ELSE target
  /\ IF caller = 0 THEN UNCHANGED notes ELSE Ack(caller)
  /\ UNCHANGED <<gmailVars, managed, claimed, history, aborts>>
FinishAtNote ==
  /\ phase = "draining"
  /\ todo = {}
  /\ EndDrain
  /\ cursor' = IF caller = 0 THEN target ELSE caller
  /\ IF caller = 0 THEN UNCHANGED notes ELSE Ack(caller)
  /\ UNCHANGED <<gmailVars, managed, claimed, history, aborts>>

\* set_cursor, and the notification is acknowledged.
FinishDrain ==
  /\ phase = "draining"
  /\ todo = {}
  /\ EndDrain
  /\ cursor' = target
  /\ Leave({m \in Id : cursor + PageCap < m /\ m <= target}, "beyond")
  /\ IF caller = 0 THEN UNCHANGED notes ELSE Ack(caller)
  /\ UNCHANGED <<gmailVars, managed, claimed, handled, aborts>>

\* The process dies in the middle of a drain, or set_cursor fails at its end:
\* the cursor stays, and the notification is not acknowledged.
AbortDrain ==
  /\ phase # "idle"
  /\ aborts < MaxAborts
  /\ aborts' = aborts + 1
  /\ EndDrain
  /\ UNCHANGED <<gmailVars, notes, managed, cursor, claimed, history>>

-----------------------------------------------------------------------------
Poll == ListHistory(0) \/ ResetStale(0)

WorkOnDrain ==
  \/ \E m \in todo :
       \/ \E category \in {"ToRespond", "FYI"} : LabelInbound(m, category)
       \/ LabelSent(m)
       \/ Complete(m)
  \/ FinishDrain

Next ==
  \/ \E t \in Thread, kind \in Kind : MailArrives(t, kind)
  \/ \E n \in Id : LoseNote(n) \/ IgnoreNote(n) \/ ListHistory(n) \/ ResetStale(n)
  \/ \E id \in 1 .. Len(log) : HistoryExpires(id)
  \/ Poll
  \/ \E n \in Id \cup {0} : AuthFails(n)
  \/ Reconnect
  \/ WorkOnDrain
  \/ \E m \in todo : Fail(m)
  \/ AbortDrain

Spec == Init /\ [][Next]_vars

\* The poll thread keeps polling and gets an answer again and again, and a drain
\* makes progress.  Nothing is asked of notifications.
FairSpec == Spec /\ WF_vars(Poll) /\ WF_vars(WorkOnDrain)

-----------------------------------------------------------------------------
(* Properties. *)

\* The cursor never silently passes a message: every message at or before it
\* was triaged to the end, or failed, or lay beyond the page limit, or had
\* expired.  Crashes, failed cursor writes, and lost, late or repeated
\* notifications lose none (drainer.py: a crash re-drains rather than skips).
NoneSilentlyPassed ==
  \A m \in 1 .. cursor : handled[m] > 0 \/ missed[m] # "no"

\* Polls and notifications, repeated and out of order, never triage a message
\* again; only a drain that was cut off can be repeated, once per cut.
NoReprocessing ==
  \A m \in Id : handled[m] <= 1 + aborts

\* The runtime implements Handover: threads, notifications, polls and drains
\* together are one mark over numbered mail that passes no message before it was
\* triaged or given up for a cause, hands a message on again only after a cut, and
\* moves back only away from history that Gmail has forgotten.
Queue == INSTANCE Handover WITH
  arrived <- Len(log),
  mark <- cursor,
  handed <- handled,
  missed <- {m \in Id : missed[m] # "no"},
  cuts <- aborts

HandoverSpec == Queue!Spec

\* A thread that shows "ToRespond" has its row in the draft ledger, or the
\* message that flagged it was or will be looked at again: the label and the
\* claim are two writes with failures and crashes in between.
FlaggedHasClaim ==
  \A t \in Thread : label[t] = "ToRespond" =>
    \/ t \in claimed
    \/ \E m \in 1 .. Len(log) : Owner(m) = t /\ Inbound(m) /\ (m > cursor \/ missed[m] # "no")

\* Once the cursor has passed the last message of a thread and the owner wrote
\* it, the thread shows a sent label, however the messages of the thread were
\* spread over drains, cut off and repeated (handle_sent: replying always
\* clears the flag).
RepliedIsUnflagged ==
  \A m \in 1 .. cursor :
    /\ ~Inbound(m)
    /\ missed[m] = "no"
    /\ \A k \in m + 1 .. Len(log) : Owner(k) # Owner(m)
    => label[Owner(m)] \in SentLabel

\* Every message that arrives is behind the cursor some day, even if no
\* notification is ever delivered, unless the account is dropped or its cursor
\* is older than Gmail's history (docs/sync-modes.md, "The reconciler").
CatchesUpInHistory ==
  \A m \in Id : Len(log) >= m ~> cursor >= m \/ ~managed \/ cursor < oldest

-----------------------------------------------------------------------------
(* What the documentation says and the code does not keep. *)

\* docs/sync-modes.md, "why no mail is lost": a message behind the cursor has
\* been triaged.
NoMailLost ==
  \A m \in 1 .. cursor : handled[m] > 0
=============================================================================
