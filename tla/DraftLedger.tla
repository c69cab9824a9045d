----------------------------- MODULE DraftLedger -----------------------------
(***************************************************************************)
(* The draft ledger: the table draft_requests (db.py), the three paths     *)
(* that dispatch an agent turn through db.claim_draft (runtime.py), the    *)
(* agent turns themselves, and the tool inbox_create_draft by which a turn *)
(* writes a Gmail draft and closes the ledger row (inbox_tool.py).         *)
(*                                                                         *)
(* A "thread" is a key (account, thread_id) of the table.  The k-th claim  *)
(* of a thread starts the turn <<thread, k>>; turn 0 is the owner asking   *)
(* the assistant for a reply, which reaches the tool without a claim.      *)
(*                                                                         *)
(* The runtime's RLock is left out on purpose: the code says the claim     *)
(* does not rely on it, so claims interleave here in every order.          *)
(***************************************************************************)
EXTENDS Integers, FiniteSets

CONSTANTS
  Thread,       \* keys of draft_requests
  TTL,          \* RETRY_TTL_MS, in ticks of the clock
  MaxAttempts,  \* MAX_DRAFT_ATTEMPTS
  NoDraft,      \* gmail_draft_id IS NULL
  Probe,        \* the id LoggingDraftWriter returns, "probe-draft"
  Asked,        \* threads the owner may ask about in a turn of their own
  Faults,       \* which of AllFaults may happen
  MaxDrafts,    \* bound: Gmail drafts created per thread
  MaxCrashes    \* bound: restarts of the gateway process

AllFaults == {"post", "gmail", "db", "probe", "user"}

ASSUME DraftAssumption ==
  /\ TTL \in Nat \ {0}
  /\ MaxAttempts \in Nat \ {0}
  /\ MaxDrafts \in Nat
  /\ MaxCrashes \in Nat
  /\ NoDraft \notin Nat
  /\ Probe \notin Nat
  /\ Probe # NoDraft
  /\ Asked \subseteq Thread
  /\ Faults \subseteq AllFaults

VARIABLES
  now,          \* db.now_ms()
  attempts,     \* draft_requests.attempts; 0 also when there is no row
  lastAttempt,  \* draft_requests.last_attempt_ms; NULL exactly when attempts = 0
  draftId,      \* draft_requests.gmail_draft_id
  turn,         \* turn[t][k]: where the k-th turn of thread t is
  held,         \* held[t][k]: the draft id the tool call of that turn works with
  queue,        \* rows the retry pass has listed and not reached yet
  created,      \* Gmail drafts made on the thread so far: ids 1 .. created[t]
  mailbox,      \* those of them still in the mailbox
  crashes,      \* restarts so far
  grantedAt,    \* history: when the k-th claim was won
  excuse        \* history: what has happened that can duplicate a draft

ledger  == <<attempts, lastAttempt, draftId>>
gmail   == <<created, mailbox>>
vars    == <<now, attempts, lastAttempt, draftId, turn, held, queue, created,
             mailbox, crashes, grantedAt, excuse>>

Attempt == 1 .. MaxAttempts
Slot    == 0 .. MaxAttempts
DraftIdOf == 1 .. MaxDrafts
Excuses == {"crowded", "unrecorded", "blind"}

\* "claimed": the claim is won and wake_fn not called yet.  "running": the agent
\* turn runs, outside the tool.  "creating", "updating", "made": inside
\* inbox_create_draft, before the Gmail call and between it and record_draft.
InCall == {"creating", "updating", "made"}
Live   == {"claimed", "running"} \cup InCall
Phase  == {"none", "ended"} \cup Live

TypeOK ==
  /\ now \in Nat
  /\ attempts \in [Thread -> 0 .. MaxAttempts]
  /\ lastAttempt \in [Thread -> Nat]
  /\ draftId \in [Thread -> {NoDraft, Probe} \cup DraftIdOf]
  /\ turn \in [Thread -> [Slot -> Phase]]
  /\ held \in [Thread -> [Slot -> {NoDraft, Probe} \cup DraftIdOf]]
  /\ queue \subseteq Thread
  /\ created \in [Thread -> 0 .. MaxDrafts]
  /\ mailbox \in [Thread -> SUBSET DraftIdOf]
  /\ crashes \in 0 .. MaxCrashes
  /\ grantedAt \in [Thread -> [Attempt -> Nat]]
  /\ excuse \in [Thread -> SUBSET Excuses]

Init ==
  /\ now = 0
  /\ attempts = [t \in Thread |-> 0]
  /\ lastAttempt = [t \in Thread |-> 0]
  /\ draftId = [t \in Thread |-> NoDraft]
  /\ turn = [t \in Thread |-> [k \in Slot |-> "none"]]
  /\ held = [t \in Thread |-> [k \in Slot |-> NoDraft]]
  /\ queue = {}
  /\ created = [t \in Thread |-> 0]
  /\ mailbox = [t \in Thread |-> {}]
  /\ crashes = 0
  /\ grantedAt = [t \in Thread |-> [k \in Attempt |-> 0]]
  /\ excuse = [t \in Thread |-> {}]

-----------------------------------------------------------------------------
(* The claim. *)

IsLive(t, k) == turn[t][k] \in Live

\* Some turn of the thread is still running.
Busy(t) == \E k \in Slot : IsLive(t, k)

\* Bugs that the checks must notice: a clause of the WHERE left out.
ClaimableNoLimit(t) ==
  /\ draftId[t] = NoDraft
  /\ attempts[t] = 0 \/ lastAttempt[t] <= now - TTL
ClaimableNoWindow(t) ==
  /\ draftId[t] = NoDraft
  /\ attempts[t] < MaxAttempts
ClaimableDrafted(t) ==
  /\ attempts[t] < MaxAttempts
  /\ attempts[t] = 0 \/ lastAttempt[t] <= now - TTL

\* The WHERE clause shared by claim_draft and unfulfilled_drafts.
Claimable(t) ==
  /\ draftId[t] = NoDraft
  /\ attempts[t] < MaxAttempts
  /\ attempts[t] = 0 \/ lastAttempt[t] <= now - TTL

Excuse(t, why) == excuse' = [excuse EXCEPT ![t] = @ \cup why]

\* db.claim_draft: one conditional UPSERT, so a caller wins or changes nothing.
\* Winning makes the caller the owner of a turn that is not dispatched yet.
ClaimDraft(t) ==
  LET k == attempts[t] + 1 IN
  /\ Claimable(t)
  /\ attempts' = [attempts EXCEPT ![t] = k]
  /\ lastAttempt' = [lastAttempt EXCEPT ![t] = now]
  /\ turn' = [turn EXCEPT ![t][k] = "claimed"]
  /\ grantedAt' = [grantedAt EXCEPT ![t][k] = now]
  /\ Excuse(t, IF Busy(t) THEN {"crowded"} ELSE {})

\* The drain of a notification or of a poll met a "To Respond" message of the
\* thread.  A lost claim is only logged.
DedupWake(t) ==
  /\ ClaimDraft(t)
  /\ UNCHANGED <<now, draftId, held, queue, gmail, crashes>>

\* A bug that the checks must notice: the pass forgets the last attempt.
ListUnfulfilledShort ==
  LET rows == {t \in Thread :
                 Claimable(t) /\ attempts[t] > 0 /\ attempts[t] + 1 < MaxAttempts} IN
  /\ queue = {}
  /\ rows # {}
  /\ queue' = rows
  /\ UNCHANGED <<now, ledger, turn, held, gmail, crashes, grantedAt, excuse>>

\* The retry pass lists the claimable threads that have a row: a claim gave
\* them one, and a row without a claim has its draft id already.
ListUnfulfilled ==
  LET rows == {t \in Thread : Claimable(t) /\ attempts[t] > 0} IN
  /\ queue = {}
  /\ rows # {}
  /\ queue' = rows
  /\ UNCHANGED <<now, ledger, turn, held, gmail, crashes, grantedAt, excuse>>

\* The retry pass reaches a listed row, which may be out of date by now: it
\* claims again and skips the row when the claim is lost.
RetryRow(t) ==
  /\ t \in queue
  /\ queue' = queue \ {t}
  /\ \/ ClaimDraft(t)
     \/ /\ ~Claimable(t)
        /\ UNCHANGED <<attempts, lastAttempt, turn, grantedAt, excuse>>
  /\ UNCHANGED <<now, draftId, held, gmail, crashes>>

\* A statement of the pass raises, and the loop logs it: the rows it has not come
\* to are left to another pass.
PassFails ==
  /\ "db" \in Faults
  /\ queue # {}
  /\ queue' = {}
  /\ UNCHANGED <<now, ledger, turn, held, gmail, crashes, grantedAt, excuse>>

-----------------------------------------------------------------------------
(* Agent turns. *)

SetPhase(t, k, phase) == turn' = [turn EXCEPT ![t][k] = phase]

\* wake_fn posts the instruction from a thread nobody waits for; a post that
\* fails is logged and the turn never exists.
WakeDraft(t, k) ==
  /\ turn[t][k] = "claimed"
  /\ \/ SetPhase(t, k, "running")
     \/ "post" \in Faults /\ SetPhase(t, k, "ended")
  /\ UNCHANGED <<now, ledger, held, queue, gmail, crashes, grantedAt, excuse>>

\* The owner asks the assistant for a reply on the thread.
OwnerAsks(t) ==
  /\ t \in Asked
  /\ turn[t][0] \in {"none", "ended"}
  /\ SetPhase(t, 0, "running")
  /\ Excuse(t, IF Busy(t) THEN {"crowded"} ELSE {})
  /\ UNCHANGED <<now, ledger, held, queue, gmail, crashes, grantedAt>>

\* A turn ends, with or without having called the tool.
EndTurn(t, k) ==
  /\ turn[t][k] = "running"
  /\ SetPhase(t, k, "ended")
  /\ UNCHANGED <<now, ledger, held, queue, gmail, crashes, grantedAt, excuse>>

-----------------------------------------------------------------------------
(* The tool inbox_create_draft: resolve a writer, look the thread up in the *)
(* ledger, call Gmail, record the id.  Each is a step; a failure of one     *)
(* gives the turn back an error, and the agent may call the tool again.     *)

SetHeld(t, k, d) == held' = [held EXCEPT ![t][k] = d]

\* The account has no readable token: the writer only logs and answers "Probe",
\* and it has no update_draft.
CallWithProbe(t, k) ==
  /\ "probe" \in Faults
  /\ turn[t][k] = "running"
  /\ SetPhase(t, k, "made")
  /\ SetHeld(t, k, Probe)
  /\ UNCHANGED <<now, ledger, queue, gmail, crashes, grantedAt, excuse>>

\* A bug that the checks must notice: the call never looks the thread up.
CallWithoutLookup(t, k) ==
  /\ turn[t][k] = "running"
  /\ SetPhase(t, k, "creating")
  /\ SetHeld(t, k, draftId[t])
  /\ UNCHANGED <<now, ledger, queue, gmail, crashes, grantedAt, excuse>>

\* A live writer, and what the lookup answers decides create or update.
CallWithWriter(t, k) ==
  /\ turn[t][k] = "running"
  /\ SetPhase(t, k, IF draftId[t] = NoDraft THEN "creating" ELSE "updating")
  /\ SetHeld(t, k, draftId[t])
  /\ UNCHANGED <<now, ledger, queue, gmail, crashes, grantedAt, excuse>>

\* A live writer whose lookup failed: _lookup_draft_id answers None.
CallBlind(t, k) ==
  /\ "db" \in Faults
  /\ turn[t][k] = "running"
  /\ SetPhase(t, k, "creating")
  /\ SetHeld(t, k, NoDraft)
  /\ Excuse(t, IF draftId[t] = NoDraft THEN {} ELSE {"blind"})
  /\ UNCHANGED <<now, ledger, queue, gmail, crashes, grantedAt>>

\* drafts.create makes a new draft.  Its answer may be lost on the way back.
CreateDraft(t, k) ==
  LET d == created[t] + 1 IN
  /\ turn[t][k] = "creating"
  /\ d <= MaxDrafts
  /\ created' = [created EXCEPT ![t] = d]
  /\ mailbox' = [mailbox EXCEPT ![t] = @ \cup {d}]
  /\ \/ /\ SetPhase(t, k, "made")
        /\ SetHeld(t, k, d)
        /\ UNCHANGED excuse
     \/ /\ "gmail" \in Faults
        /\ SetPhase(t, k, "running")
        /\ Excuse(t, {"unrecorded"})
        /\ UNCHANGED held
  /\ UNCHANGED <<now, ledger, queue, crashes, grantedAt>>

\* drafts.update replaces the body of the draft, when it is still there.
UpdateDraft(t, k) ==
  /\ turn[t][k] = "updating"
  /\ held[t][k] \in mailbox[t]
  /\ SetPhase(t, k, "made")
  /\ UNCHANGED <<now, ledger, held, queue, gmail, crashes, grantedAt, excuse>>

\* The Gmail call fails, on its own or because the draft is gone.
GmailFails(t, k) ==
  /\ \/ "gmail" \in Faults /\ turn[t][k] \in {"creating", "updating"}
     \/ turn[t][k] = "updating" /\ held[t][k] \notin mailbox[t]
  /\ SetPhase(t, k, "running")
  /\ SetHeld(t, k, NoDraft)
  /\ UNCHANGED <<now, ledger, queue, gmail, crashes, grantedAt, excuse>>

\* The turn holds a real draft the ledger does not name.
Unrecorded(t, k) ==
  /\ turn[t][k] = "made"
  /\ held[t][k] # Probe
  /\ held[t][k] # draftId[t]

\* record_draft (db.set_draft_id) stores the id over whatever was there; when
\* it fails the failure is logged and the tool still answers ok.
RecordDraft(t, k) ==
  /\ turn[t][k] = "made"
  /\ SetPhase(t, k, "running")
  /\ SetHeld(t, k, NoDraft)
  /\ \/ /\ draftId' = [draftId EXCEPT ![t] = held[t][k]]
        /\ UNCHANGED excuse
     \/ /\ "db" \in Faults
        /\ Excuse(t, IF Unrecorded(t, k) THEN {"unrecorded"} ELSE {})
        /\ UNCHANGED draftId
  /\ UNCHANGED <<now, attempts, lastAttempt, queue, gmail, crashes, grantedAt>>

-----------------------------------------------------------------------------
(* The environment. *)

\* The owner sends or deletes a draft.
OwnerTakesDraft(t) ==
  /\ "user" \in Faults
  /\ \E d \in mailbox[t] : mailbox' = [mailbox EXCEPT ![t] = @ \ {d}]
  /\ UNCHANGED <<now, ledger, turn, held, queue, created, crashes, grantedAt, excuse>>

\* The process dies with every turn in it; the database and the mailbox stay.
Crash ==
  /\ crashes < MaxCrashes
  /\ crashes' = crashes + 1
  /\ queue' = {}
  /\ turn' = [t \in Thread |-> [k \in Slot |->
                 IF IsLive(t, k) THEN "ended" ELSE turn[t][k]]]
  /\ held' = [t \in Thread |-> [k \in Slot |-> NoDraft]]
  /\ excuse' = [t \in Thread |-> excuse[t] \cup
                 IF \E k \in Slot : Unrecorded(t, k) THEN {"unrecorded"} ELSE {}]
  /\ UNCHANGED <<now, ledger, gmail, grantedAt>>

\* Time passes while it matters: some claim is still inside its window.  Past
\* every window no condition of the code changes with the clock any more.
Tick ==
  /\ \E t \in Thread : attempts[t] > 0 /\ now - lastAttempt[t] < TTL
  /\ now' = now + 1
  /\ UNCHANGED <<ledger, turn, held, queue, gmail, crashes, grantedAt, excuse>>

ToolStep(t, k) ==
  \/ CallWithProbe(t, k)
  \/ CallWithWriter(t, k)
  \/ CallBlind(t, k)
  \/ CreateDraft(t, k)
  \/ UpdateDraft(t, k)
  \/ GmailFails(t, k)
  \/ RecordDraft(t, k)

Next ==
  \/ \E t \in Thread :
       \/ DedupWake(t)
       \/ RetryRow(t)
       \/ OwnerAsks(t)
       \/ OwnerTakesDraft(t)
       \/ \E k \in Slot : WakeDraft(t, k) \/ EndTurn(t, k) \/ ToolStep(t, k)
  \/ ListUnfulfilled
  \/ PassFails
  \/ Crash
  \/ Tick

Spec == Init /\ [][Next]_vars

\* The retry thread and the clock keep going, and a row that is listed again and
\* again is reached some day: the database does not raise in every pass.  Nothing
\* is asked of the turns: a turn may hang for ever.
FairSpec ==
  /\ Spec
  /\ WF_vars(Tick)
  /\ WF_vars(ListUnfulfilled)
  /\ \A t \in Thread : SF_vars(RetryRow(t))

-----------------------------------------------------------------------------
(* Properties. *)

\* Two claims of a thread are at least a window apart, whatever interleaving
\* of notifications, polls, retry passes and restarts won them: a turn gets a
\* successor only after its TTL (the promise of db.claim_draft).
WindowsApart ==
  \A t \in Thread : \A k \in 2 .. attempts[t] :
    grantedAt[t][k] >= grantedAt[t][k - 1] + TTL

\* A thread has a second Gmail draft only if two of its turns ran at the same
\* time, a draft was made that record_draft did not get to store, or a lookup
\* of a stored id failed.  No other order of claims, tool calls, updates,
\* removals by the owner and restarts duplicates a draft.
DuplicatesExplained ==
  \A t \in Thread : created[t] > 1 => excuse[t] # {}

\* The table never gives a lease the abstract DraftLease would not give: none
\* inside a window, past the limit or after the thread got its draft, and a
\* thread that got its draft never opens again.
Lease == INSTANCE DraftLease WITH
  clock <- now,
  grants <- attempts,
  latest <- lastAttempt,
  closed <- {t \in Thread : draftId[t] # NoDraft}

LeaseSpec == Lease!Spec

\* Every thread that was ever claimed ends up drafted or exhausted, even if
\* posts and passes fail, turns hang and the process restarts: the retry pass alone
\* brings it there (the docstring of _draft_retry_loop).
SettledEventually ==
  \A t \in Thread :
    attempts[t] > 0 ~> draftId[t] # NoDraft \/ attempts[t] = MaxAttempts
=============================================================================
