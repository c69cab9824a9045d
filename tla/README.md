# Verification of the Hermes inbox organizer

TLA+ models of the inbox organizer (`src/hermes_inbox_organizer`), TLC
configurations that check them on small instances, and TLAPS proofs of their
safety properties for every instance. File names without a path are under
`src/hermes_inbox_organizer/`.

Contents: 1 the system and its parts; 2 the modules; 3 the runs, their bounds
and fairness; 4 the proofs; 5 what the checks say about the code; 6 the plan;
7 what is not modelled.

## 1. The system

A gateway process watches Gmail mailboxes for their owner. It labels mail, asks
an agent to draft replies, learns from what the owner sends, pushes login codes
and parcel news, and answers questions about all of it. State that outlives the
process is one SQLite file (`db.py`, autocommit: every statement is a
transaction of its own) and one encrypted token file per mailbox.

Threads of the process: the Pub/Sub callbacks, the poll thread (every 5
minutes), the draft retry thread, the watch renewal thread, one thread per
periodic job, four observer workers (`modules/registry.py`), and the agent
turns, which run outside and come back through tool handlers.

| part | state | operations | talks to |
|---|---|---|---|
| history drain (`runtime.py`, `drainer.py`) | `accounts.history_cursor`, `_lock` | `handle_notification`, `_poll_once`, `_drain_account`, `drain_history`, `set_cursor` | Gmail history, triage, sent handler |
| triage (`triage.py`, `labels_apply.py`) | Gmail labels, `triaged_messages`, `thread_states` | `process_message`, `apply_category` | classifier, `_dedup_wake`, registry |
| sent handler (`sent_handler.py`) | Gmail labels | `handle_sent` | registry |
| draft ledger (`db.py`, `runtime.py`) | `draft_requests` | `claim_draft`, `unfulfilled_drafts`, `set_draft_id`, `_dedup_wake`, retry pass | agent turns |
| draft tool (`inbox_tool.py`, `gmail.py`, `__init__.py`) | Gmail drafts, writer cache | `inbox_create_draft`, `create_draft`, `update_draft` | ledger, `draft_outcomes` |
| draft feedback (`modules/draft_feedback.py`, `draft_learn.py`) | `draft_outcomes`, `draft_lessons`, learned notes | `on_sent`, `sweep_once`, owner tools | language model, `accounts.updated_at_ms` |
| account set (`runtime.py`, `__init__.py`) | `_by_email`, `_NEEDS_RECONNECT`, token files, watches | `start`, `add_account`, `remove_account`, `reconcile_accounts`, `_note_auth_failure`, renewal | Gmail watch, dashboard |
| lessons and profiles (`draft_learn.py`, `backfill.py`, `tools_profile.py`) | `draft_lessons`, `sender_profiles` | distil, prune, forget, clear, save, backfill | language model, the brief |
| shipping, 2FA (`modules/`), notifier | `tracked_packages`, `module_notified`, the captured gateway | `on_inbound`, `poll_once`, `note_once`, `send` | 17track, the chat |
| OAuth connect (`oauth.py`, `dashboard_api.py`, `onboarding_tools.py`) | `oauth_pending`, `PendingStore` | start, complete, disconnect | token files, hot add |
| hooks of a turn (`__init__.py`) | `_AuthContext`, `_DraftTurnGuard` | bind a session to a sender, note a draft turn, allow or block a tool | agent turns |
| schema (`db.py`) | the file's columns | `_migrate`, `connect` | every process that opens the file |
| rollup (`rollup.py`) | none of its own | read every mailbox, pick a message per thread, sort | Gmail, classifier, `_NEEDS_RECONNECT` |
| brief, classifier | none of their own | functions of tables, mail and a language model | |

What is hard in it:

* The cursor is at-least-once. A crash, a failed write or a second notification
  repeats a batch; failures inside a batch are swallowed; notifications are
  lost, late and repeated; Gmail forgets history.
* The label, the ledger row and the dispatch are three writes with no
  transaction around them.
* A draft turn has no end that the ledger hears of, so a retry can meet the
  turn it retries. The tool looks up, calls Gmail, and then records.
* Observers run after the drain has gone on, four at a time, and the sweep works
  on lists that they change under it.
* Accounts come and go while drains, polls and renewals run.
* Three processes (gateway, dashboard, command line) share the file and the
  token files and nothing else; each may be the one that upgrades the file.
* Calls of a minute (a language model, Gmail, 17track, a push) sit between the
  read and the write of nearly every operation.

What makes each part correct, as properties: the drain passes nothing silently,
repeats only what was cut off and catches up; a flagged thread gets its claim
and a reply clears the flag; claims of a thread are a window apart, drafts are
not duplicated without a cause, and every claimed thread settles; a recorded
reply stands, counts once and is learned; an account that was connected is
watched until it is removed or fails, and the owner hears of it; a code is
pushed at most once and a parcel's stages are announced; what the owner took
back stays away; a pending connect serves its sender, once; a file that is said
to be up to date is; a rollup that does not call itself truncated is whole.

## 2. The modules

**`DraftLedger`** models `draft_requests` and everything that touches it. A
thread is a key of the table. `attempts`, `lastAttempt` and `draftId` are its
columns. `ClaimDraft` is `db.claim_draft` (one conditional upsert, so it is one
step); `DedupWake` is the drain's path to it, `ListUnfulfilled` and `RetryRow`
are the retry pass, which lists rows and claims them later, one by one, and
`PassFails` is a pass that raises and leaves its other rows to the next.
`turn[t][k]` follows the agent turn of the k-th claim through the tool
`inbox_create_draft`: resolve and look up (`CallWithWriter`, `CallWithProbe`,
`CallBlind`), call Gmail (`CreateDraft`, `UpdateDraft`, `GmailFails`), record
(`RecordDraft`). Turn 0 is the owner's own request, which reaches the tool
without a claim. The runtime's lock is left out on purpose: the comments say
that the claim does not depend on it, so the model interleaves claims freely.

**`DraftLease`** is what `claim_draft` promises: leases, each a window after the
one before, bounded in number, none once the thread is closed. `DraftLedger`
implements it: `LeaseSpec` is checked as a property and proved.

**`InboxSync`** models one account: Gmail's log, notifications as an unordered
set, the cursor, and the drain. A message is its history id. `ListHistory` is
`history.list` up to the page limit, `ResetStale` the 404, `AuthFails` the
dropped account, `FinishDrain` the cursor write and the acknowledgement,
`AbortDrain` a crash or a failed cursor write. Each message is triaged in two
steps, the label (`LabelInbound`, `LabelSent`) and the rest (`Complete`), because
a failure (`Fail`) or a cut can fall between them. `IsNext` is the order of
`drain_history`: inbound messages, then sent ones. Accounts share only the lock
that serialises drains, so one is enough. A transient error of `history.list`
changes nothing and is not a step.

**`Handover`** is what all of that promises the triage: one mark over numbered
mail, which passes a message only once it was handed on or given up, hands it on
again only after a cut, and goes back only when it fell behind Gmail's history.
`InboxSync` implements it (`Queue`): `HandoverSpec` is checked as a property and
proved.

**`DraftFeedback`** models `draft_outcomes` of one mailbox: `CaptureDraft` by the
draft tool, the `on_sent` calls statement by statement (`ReadRow`,
`PairDrafted` or `CaptureNonDrafted`, `ReadFresh`, `DistilSent`, `MarkSent`),
the sweep statement by statement (`ListPending`, `MarkNoReply`,
`ListUnlearned`, `DistilAgain` or `FailAgain`, `MarkAgain`, `Prune`). A
statement that raises ends the call (`SentFails`), the sweep's pass
(`PassFails`) or the row it is at (`AgainFails`, `MarkFails`); what was distilled
before it stays, so the row is unlearned with its evidence applied. Drains
appear as `DispatchSent` and as the time stamp of `EndDrain` and `ResetStale`.
The outcomes are kept as far as the code treats them differently: `edited`
stands for `sent_edited` and `sent_ignored`, which the model distils, and
`verbatim` also for an edit too small to distil.

**`AccountSet`** models which mailboxes are served. `file`, `dead` and `issued`
are the encrypted token files and what Google thinks of their tokens; a token is
the number of its writing, which also stands for the mtime the reconciler
compares. `managed` is `_by_email`, `seen` is `_seen_token_fps`, `drain` is the
holder of `_lock`, with the token its service was built from. Four actors:

* the start thread (`Boot`, `ArmAtStart`, `Serve`), which takes no lock;
* drains from notifications (`PushDrain`) and from the poll (`PollDrain`), which
  end well (`DrainDone`) or drop the account (`DrainAuthFails`);
* the poll thread's `reconcile_accounts`, step by step: list the files
  (`PollList`, or `PollListTorn` when a file being written does not load), compare
  under the lock (`PollCompare`), remove (`PollRemove`), pass over or add
  (`PollPass`, `PollAdd`), then drain what is managed;
* the chat tools (save, add; revoke, delete, remove) and the dashboard (save;
  revoke, delete), one call of each at a time. The dashboard is another process:
  it never waits for the lock and never touches `managed`.

`add_account` holds the lock from its test to its registration, so it is one
step, with or without success. `Source` is `_load_token_for`, fallback included.
`excuse` is history, not state of the code: why the reconciler may leave an
account alone.

**`Watches`** models what `AccountSet` leaves out: Gmail's push watches and what
the owner is told. Time is counted in renewal checks. `Arm` and `StopWatch` are
`arm_watch` and `stop`, with whatever token `Source` finds; `believed` is
`watch_expiration` of the object in `_by_email`, `watch` what Gmail thinks.
`Tick`, `Renew`, `RenewNotYet` and `RenewFails` are the renewal loop over its
snapshot (`todo`, with `old` for objects that were replaced meanwhile). Removal
is two steps, the map (`PollRemove`, `ChatRemove`) and the stop outside the lock
(`PollStop`, `ChatStop`). `failed`, `flagged` and `seen` are `_auth_failed`,
`_NEEDS_RECONNECT` and `_seen_token_fps`. It repeats the token files and the
drains of `AccountSet` and keeps the reconciler to one account at a time;
composing the two would multiply their threads without adding a pair that meets.

**`Parcels`** models the observers that push and the periodic poll: the registry's
queue and workers (`DispatchInbound`, `Take`, `CallRaises`), `note_once` and the
push of a code (`NoteOnce`, `PushCode`), a number step by step (`SeenBefore`,
`AddParcel`, `Register` or `RegisterFails`, `MarkRegistered`) and `poll_once`
step by step (`PollBegin` .. `PollMark`). A push may be delivered, refused, time
out and land all the same, or be made before any gateway was captured.

**`Lessons`** models the tables drafts are written from. A distiller reads the
prior note (`ReadPrior`), waits for the model, and writes note, lessons and the
learned flag as three statements; lessons are ranked and pruned as in the SQL;
the owner forgets, clears and saves; two backfills look a profile up, wait for
the model and write it. The two meet the same rows.

**`SchemaMigration`** models `connect` statement by statement for several
processes with several threads. Tables that only `SCHEMA_SQL` touches are one.

**`Turns`** models the hooks around an agent turn: who a session is bound to, which
draft turns are restricted, and for whom a connect tool acts. A message without
a user id leaves the last sender as he was (`Dispatch`), and some turns answer no
message (`Unprompted`: a cron job, the API); `Bind` gives both the session of
whoever wrote last. **`ConnectFlow`**
models the two stores of pending connects, the chat's in memory and the
dashboard's in the file, with expiry, codes, states, raising statements and
restarts. A completion takes the pending connect first, by a state that anyone may
name or else its sender's newest, and then looks at whose it is and at the code,
which may be another consent's or none of Google's (`Pasted`). The dicts and
lists of both modules whose order the code uses are sets of entries with their
place in the order of insertion (`rank`, `place`).

**`Rollup`** models one call of the rollup tool: resolving mailboxes, paging, the
two limits, the choice of a message for a thread, failing mailboxes, the sort
and the caught-up mark. Its reference definition (`Expected`) is the set of
threads of the period, each by its most urgent category and newest message. A
mailbox may fail with an error whose text is empty ("silent"), which the
caught-up mark does not see. Gmail is taken to return no empty page while
messages remain; the code would end its scan at one.

`MC...` modules give the constants that a configuration cannot write down.

**`DraftLedgerProofs`**, **`InboxSyncProofs`**, **`OwnerProofs`** (`AccountSet`,
`Turns`, `ConnectFlow` and `Rollup`, the parts an owner meets),
**`SchemaMigrationProofs`**, **`ParcelsProofs`**, **`WatchesProofs`**,
**`DraftFeedbackProofs`** and **`LessonsProofs`** hold the theorems.

Every module has, before some definitions, a variant of the definition that is
marked as a bug the checks must notice: a clause dropped from a `WHERE`, a step
out of order. `PROJECT.json` names the run and the property that notice it. No
variant is used by a specification.

The database fault of the models is a statement that raises (a locked file): it
changes nothing itself, what the statements before it wrote stays, and the code
around it logs and goes on.

## 3. The runs

| run | instance | shows |
|---|---|---|
| `DraftLedger_all` | 1 thread, window 2, 2 attempts, 2 drafts, 1 crash, every fault, the owner's own turn | `TypeOK`, `WindowsApart`, `DuplicatesExplained`, `LeaseSpec`, `SettledEventually` |
| `InboxSync_faults` | 2 threads, 2 messages, page limit 2, every fault, 1 cut | `TypeOK`, `FlaggedHasClaim`, `NoneSilentlyPassed`, `NoReprocessing`, `RepliedIsUnflagged`, `HandoverSpec`, `CatchesUpInHistory` |
| `InboxSync_pagecap` | 1 page of history more than the limit | the violation of `NoMailLost` (section 5) |
| `DraftFeedback_all` | 1 thread, 2 replies, 1 cut (a restart or a raising statement), every fault | `TypeOK`, `EvidenceBounded`, `LessonsLostExplained`, `SentSideStands`, `LearnsEventually` |
| `AccountSet_all` | 2 mailboxes, one of them connected and disconnected, 2 token files each, any number of crashes | `TypeOK`, `SkippedForCause`, `DisconnectTakesEffect`, `ConnectTakesEffect` |
| `Watches_all` | 2 mailboxes, one with 2 tokens, a watch of 2 checks, renewed 1 check ahead | `LapseExplained`, `NudgeExplained` |
| `Parcels_all` | 3 parcels of 2 mailboxes (2 with one number), 1 code, 2 workers, limit 1, batches of 1, 2 dispatches, 1 fault of any kind | `OnceOnly`, `LimitOverrunBounded`, `MarkedIsTold`, `ToldInTheEnd` |
| `Lessons_all` | 1 correspondent, 3 outcomes, 2 distillers, 2 backfills, room for 1 lesson, 1 act of the owner, 1 fault | `ForgottenIsNotBriefed`, `ClearedStaysCleared`, `BackfilledOnce`, `AgentVoiceKept` |
| `SchemaMigration_all` | 2 processes, 3 threads, files of every release, 1 fault | `ReadyIsComplete`, `ReadyInTheEnd` |
| `Turns_all` | an owner, a guest, 3 chat turns of which one has no user id and 2 share a session, 1 unprompted turn, 3 draft turns, room for 2 | `DraftStaysGuarded`, `ActsForItsAuthor` |
| `ConnectFlow_all` | 2 senders, 2 consents, 2 dashboard requests, time to live 2, any code with any state | `VerifierTakenOnce`, `SavedForItsSender`, `FreshIsKept` |
| `Rollup_all` | every list of up to 4 of 8 messages and a second mailbox, pages of 2, 3 scanned, 2 threads | `WholeUnlessTruncated`, `CaughtUpExplained` |

Why the bounds are enough. Rows of `draft_requests` and of `draft_outcomes` do
not interact except through the lists of the retry pass and the sweep, which the
passes work through row by row, so one thread shows what can happen to a row: it
is claimed by another path, drafted or exhausted between its listing and its
turn. Two attempts give a turn and a retry that
overlaps it, and the owner's turn is a third actor. In `InboxSync` two
messages on two threads with a page limit of two fill a page, and the
violation's instance exceeds it; an inbound and a sent message meet in a batch; one cut gives the repeated batch,
and every further cut starts from a state of the same shape. Two replies, two
concurrent `on_sent` calls and one sweep give every pair of actors on a row; one
tick separates a draft from a window that has passed. The clock of `DraftLedger`
needs no bound: it stops once every claim is out of its window, when no
condition of the code can change any more. In `AccountSet` the second mailbox is there
for the fallback of `_load_token_for`, for a drain that holds the lock while the
first one changes, and so that the set can be non-empty without the first; it
keeps its token file, which may die. Two token files are the one that was stored
and the one of a reconnect while the pass or a drain still has the first in hand;
which of three is meant never matters, since the code compares for equality only.
In `Parcels` the two workers are the pair that can both pass the limit, the shared
number is the one case where rows of two mailboxes meet, and a batch of one makes
a poll of two batches. In `Lessons` two distillers can hold the same prior note,
and a store of one makes every second lesson evict the first. In
`SchemaMigration` two threads of one process share the cache and a third shares
only the file. In `Turns` three draft turns are one more than the set holds. In
`ConnectFlow` a second consent is the other one that a code or a state can belong
to, and a time to live of two leaves an age between the newest and the oldest
that is kept.
In `Rollup` four messages fill two pages and exceed both limits. One fault is
enough where every fault ends the call it hits: what follows starts from a
state a run without faults reaches, with the history changed. The proofs of
section 4 have no bounds.

Faults are sets of names that a configuration enables: a lost wake-up post, a
failed or unanswered Gmail call, a locked database, a mailbox whose token cannot
be read, drafts removed by the owner; lost and repeated notifications, a triage
that raises, an authentication failure, expired history; a push that fails or
lands late, 17track failing; a model that fails, a statement that raises, an
account that is away, a stale reset, a repeated batch, and retention.

Fairness. `DraftLedger`: weak fairness of the clock and of the retry pass listing,
because `_draft_retry_loop` is a loop that catches everything and never returns,
and strong fairness of each listed row, which says that the database does not
raise in every pass before the row is reached; nothing is asked of agent turns, which may hang.
`InboxSync`: weak fairness of the poll getting an answer and of a drain going
on. `_poll_loop` never returns; that Gmail answers some day is an assumption
about Gmail; drains are cut off only finitely often. Nothing is asked of
notifications. `DraftFeedback`: weak fairness of the sweep (a periodic job never
returns), strong fairness of a listed row being distilled, which says that a
model that is asked again and again for a row answers some day and that the
database does not raise every time. Nothing is asked
of the `on_sent` calls. `AccountSet`: weak fairness of the start thread and of a
running drain (both are calls that return), strong fairness of the poll thread,
which needs the lock that notifications keep taking: a lock that is free again
and again is got in the end. Strong fairness of `PollList` says that the listing
does not fail every time. Nothing is asked of the owner, the dashboard or Google. `Parcels`: weak fairness of
the poll, a periodic job, and of the pool's workers; `ToldInTheEnd` also supposes
that a gateway stays captured. `SchemaMigration`: weak fairness of each thread,
which opens the file again whenever it next needs it; without it a process that
met an error would never try again, and the callers of `connect` are loops and
mail. The other modules state safety only and have no fairness.

`CHECK_DEADLOCK FALSE` stands in the `DraftLedger` configuration: with the clock
stopped, the row settled and every turn over there is nothing left to do. It
stands in the `AccountSet` configuration because a gateway without mailboxes,
once the bounded token files are used up, may wait for ever, and in those of
`Parcels`, `Lessons`, `SchemaMigration`, `ConnectFlow` and `Rollup`, where bounded
inputs are used up or a call is over.

## 4. The proofs

The theorems are of the form `Spec => []P`, `Spec => [][A]_vars` or `Spec =>
AbstractSpec`, for every
value of the constants that the named assumptions allow: `DraftAssumption` (a
window and a number of attempts of at least 1, null values that are not
numbers), `SyncAssumption` (a page limit of at least 1), `AccountSetAssumption`
(a null value that is no mailbox, at least one token file for each),
`TurnsAssumption` (owners are senders, a null value that is none, turns that
answer a message, draft turns and the others are three kinds, room for at least
1), `ConnectAssumption` (no sender has one of
the two names the model uses for "the dashboard" and "nobody", no consent the one
for an invalid code),
`RollupAssumption` (mailboxes are positive numbers in the order they are read,
unread mail is a list of messages, page size and limits are at least 1),
`SchemaAssumption` (threads belong to processes), `ParcelsAssumption` (finitely
many workers, accounts and numbers, a batch of at least 1), `WatchesAssumption` (a
watch lives longer than the buffer it is renewed ahead, which is at least one
check), `FeedbackAssumption` (a null value that is neither a row nor a thread) and
`LessonsAssumption` (every row has a correspondent, a null value that is no writer).

`DraftLedgerProofs`
: `TypeCorrect`; `WindowsHold` from `GrantInv`, which ties the history of grants
  to the columns (the last grant is `last_attempt_ms`, earlier ones are a window
  apart); `DuplicatesHaveExcuse` from `IdInv` (which ids a turn may hold),
  `FreshInv` (no draft exists before a turn made one) and `SoloInv`: as long as
  nothing excuses a duplicate, at most one turn of a thread is live, and the
  ledger names the thread's draft or that one turn holds it. `DuplicatesExplained`
  alone is not inductive, because a duplicate is made two steps after the state
  that allows it. `ImplementsLease` is the refinement of `DraftLease`: initial
  states map to initial states and every step maps to a grant, a closing, the
  clock or a stutter.

`InboxSyncProofs`
: `TypeCorrect`, `CursorCovers`, `RepeatsBounded`, `FlagsHaveClaims`,
  `RepliesUnflag`, all from one inductive invariant. Its
  parts: `DrainInv` (a drain's list lies between cursor and target), `CoverInv`
  (what a running drain took off its list, it triaged or failed on), `RepeatInv`
  (what is still to be triaged was triaged at most once per cut), `FlagInv` (the
  flag's message is still ahead, or missed) and `ReplyInv` (once a sent message
  of a batch is triaged only sent ones remain, so no later step of the batch can
  put a flag back). The type invariant needs `RepeatInv` to bound the counters.
  `Steps` sorts the steps of `Next`, so each part has a case per drain step and
  one for everything that leaves the drain alone. `ImplementsHandover` is the
  refinement of `Handover`, action by action: a triage is a `HandOn` because
  `DrainInv` puts its message ahead of the cursor and `RepeatInv` says that it was
  not handed on since the last cut; a finished drain is a `Pass` because `CoverInv`
  settled all that its pages reached; labelling, listing and acknowledging are
  stutters. `HandoverSuffices` says that the abstract promise is no weaker than
  the properties its users need, from an invariant of `Handover` alone, and
  `CursorForward` (a healthy account's cursor never goes back) follows from both.

`OwnerProofs`, account set
: `TypeCorrect` and `SkipsForCause`. `SkippedForCause` alone is not inductive: an
  authentication failure drops an account, and the token that failed need not be
  the one in its file. The invariant adds `CountInv` (memory knows no token that
  was not written), `StartInv` (nothing is reconciled before the loops run, so an
  account dropped at start has no token taken for tried) and `DrainInv`: while a
  drain works with an outdated token, the reconciler has not taken the new one for
  tried and will not in this pass. `DrainInv` holds because the comparison waits
  for the lock after the files were listed; `PollCompareUnlocked` shows in the run
  what happens without it.

`OwnerProofs`, turns
: `TurnsTypeCorrect`, `DraftsAreRestricted` and `ToolsActForAuthors`. That a draft
  turn leaves the guard only after `Max` newer ones is a pigeonhole argument: the
  places are distinct and at most the number noted (`PlaceInv`), the turn evicted
  is the first of more than `Max`, so the others are `Max` turns with later places
  (`EvictsTheFirst`, from `LeastNumber` and the cardinality of an injection).
  `TurnsTypeOK` alone says that places are numbers, not that they are distinct.
  `BoundInv` says that a session bound to another sender than the author of a turn
  at work makes that turn one of the exceptions (`between`). It speaks of turns
  whose message names its author (`Signed`); a turn without one acts for an owner,
  whoever wrote last, and more than that is not claimed.

`OwnerProofs`, connect flow
: `FlowTypeCorrect`, `VerifiersTakenOnce`, `TokensAreTheRequesters` and the action
  property `FreshConnectsAreKept`. `BegunInv` says which store a consent can be in, and
  that the states and codes at work belong to consents that were begun;
  `OnceInv`, that a consent still in a store was not taken, that one request at most
  holds it, and that reads side by side are on record (`overlap`); `SavedInv`, that
  a code that can still be exchanged has given no token, which with the verifiers'
  own codes is why a wrong code stores nothing. `FreshIsKept` speaks of one
  step, but a store swept down to its newest entry keeps every fresh one only because
  the order of creation is the order of ages (`PendingInv`).

`OwnerProofs`, rollup
: `RollupTypeCorrect`, `RollupIsWhole` and `CaughtUpIsExplained`, for every list of
  messages in every mailbox, every page size and both limits. What is shown is
  that the code's loop, which keeps a message per thread and replaces it as it
  goes, agrees with `Expected`, which looks at all of them at once: `BoxInv` says
  that each thread is held by the message that stands for those kept of it so far
  (`StandsFor`: their most urgent category, their newest date), `WithMessageStands`
  that one more message keeps it so, and `StandsAsExpected` that at the end this is
  `Expected`. `AheadInv`, `FoundInv` and `DoneInv` carry the finished mailboxes
  through the rest of the call and the sort.

`SchemaMigrationProofs`
: `Invariant` and `ReadyFilesAreComplete`. That a file said to be done is complete
  is not inductive: it needs `Progress`, what each thread may take to be there
  from how far it has come (`Reached`, `Passed`), and `VersionIsTrue`, because an
  upgrade that starts from version 2 does not look at the columns of version 2.
  The argument is that tables and columns only grow, so one thread's progress
  never spoils another's (`OneMoves`), and only `Stamp` and `Cache` say that
  something is done, both after the last column. `SchemaAssumption` is all it
  asks of the constants.

`ParcelsProofs`
: `TypeCorrect`, `PushedOnce`, `MarkersAreTrue` and `LimitHolds`. `CodeInv` and
  `SpentInv` say that a marker or a row precedes the push or the registration it
  stands for and that one worker at most holds it, which is what makes
  `OnceOnly` survive any number of workers, repeats and restarts. `PollInv` ties
  what the poll holds to the table: what is asked or answered is active and its
  marker is still what the poll read, and the status in hand is stored before it
  is told and told before it is marked. `LimitInv` counts active parcels together
  with the workers that have passed the test of the limit: fewer than the limit
  plus the workers, unless nobody works.

`WatchesProofs`
: `TypeCorrect`, `LapsesOnlyByFailures` and `NudgeTellsTheTruth`, for a watch of
  any life and any buffer shorter than it. `WatchInv` has two parts: the watch
  that Gmail has outlives what the runtime believes of it, unless it was stopped
  or armed for someone else (`OutlivesBelief`), and once a renewal is due every
  check that passed was a failed renewal (`FailedSinceDue`, with the account of
  the loop's pass that has not come to it). `DropInv` says that an account dropped
  for the token it still has cannot be added with it; `FlagInv` lists where a flag
  may still be on its way.

`DraftFeedbackProofs`
: `TypeCorrect`, `EvidenceIsBounded`, `LessonsAreKept` and `SendsStand`, for any
  number of threads, replies, calls, restarts and raising statements. `Book` is the account of one
  thread: `Counted` (a recorded send belongs to a call that has passed its record),
  `QuietWhenOpen` (nothing is under way for a thread without a reply),
  `ReplyShown`, `Evidence` (distillations done and owed are paid for by recorded
  sends, cuts (restarts and raising statements), and the one that the learned flag
  pays for; a listed row is not
  paid for yet) and `Lesson` (an edit that was not recorded over a changed row is
  what every call and every list holds of it). `SweepInv` makes the sweep's lists
  one entry for a thread, so a row it lists is distilled once. `EvidenceBounded`
  alone is not inductive, since a call between its record and its distillation
  owes one. Every step but `Prune` and `Crash` is about one thread (`Alone`).

`LessonsProofs`
: `ForgettingHolds`, `ClearingHolds`, `BackfillAccounts` and `AgentVoiceStands`, for
  any number of distillers, correspondents, failures and acts of the owner.
  `ClearedStaysCleared` becomes inductive with what every distiller still holds of
  a cleared note (`ClearInv`): the owner's clearing marks all of them late at
  once. `OnceInv` says that each correspondent is still ahead of the automatic
  run, has a voice, or is named among its failures; `RaceInv`, that a backfill at
  work on a sender whose notes the agent saved had found no profile. How lessons
  rank does not matter to any of it, only that briefs and pruning choose from the
  active ones.

Only model-checked: the liveness properties (`SettledEventually`,
`CatchesUpInHistory`, `LearnsEventually`, `DisconnectTakesEffect`,
`ConnectTakesEffect`, `ToldInTheEnd`, `ReadyInTheEnd`), which are out of the
prover's reach. Every safety property of every run that passes is stated by a theorem.

The induction theorems of the library take an operator as a parameter, which the
installed provers cannot instantiate. Where a proof needs one, it goes by way of a
well-founded order on a set: `LeastNumber` (a non-empty set of numbers has a least
one) is derived from `WFMin` on the naturals. Where the code goes through a list, the
model goes through it step by step, so that the induction is the one over steps.

## 5. What the checks say about the code

Most of what was stated holds. One statement of the documentation is run against
the model as a property that must fail, with the quotation in `PROJECT.json`:

* *Mail beyond the page limit* (`InboxSync_pagecap`, `NoMailLost`): the cursor goes
  to the mailbox's current id, past the pages that were not read.

The properties that hold are stated with their exceptions, and each exception
is a thing the code does. Those that contradict a comment or a document:

* a retry overlaps a slow turn, both look the id up before either records it, and
  the thread has two drafts (`DuplicatesExplained`; `gmail.py:283-285` and
  `runtime.py:42-43` say otherwise);
* the logging writer's placeholder is recorded like a draft id and closes the row
  of a thread without a draft (`__init__.py:966`);
* on a stale cursor the poll falls back to the cursor it just read, so only a
  notification gets the account out (`runtime.py:389`, `docs/sync-modes.md:30-37`);
* a stale reset stamps the account as drained although it read nothing, and a
  reply in the gap becomes `no_reply` (`draft_feedback.py:219`);
* the token lookup falls back to the only connected mailbox, so that naming an
  address that is not connected revokes the one that is (`__init__.py:713`), and
  removing one of two mailboxes stops the watch of the other (`runtime.py:294`,
  `LapseExplained`);
* a gateway that armed nothing at start has no poll thread and never serves a
  mailbox the dashboard connects (`runtime.py:241`);
* a terminal stage is stored before its push, and a terminal package is not
  polled again, so a failed last push is lost (`shipping.py:186`; the head of the
  file says it re-fires; `MarkedIsTold`, `ToldInTheEnd`);
* the turn evicted from the full guard is taken for completed, which nothing
  ensures (`DraftStaysGuarded`).

More exceptions that the properties of the newer modules name: the same number in
two mailboxes is polled for one of them (`shipping.py:174`); parcels recorded at
the limit are never registered; a push that timed out and landed is made again;
a code's push is lost when the process dies after `note_once`; a cleared note
comes back from a distiller that had read it; a forgotten lesson learned again
has all its old evidence; a learned note's row makes the unforced backfill skip
the sender, and its once-only marker is written before its thread; a second
authentication failure after a reconnect is not told (`_auth_failed` is never
cleared), a restart flags nobody, and a token the dashboard replaced before the
failure was seen leaves a flag that stays; the verifier of a pending connect is
read and then deleted, so two requests of the dashboard can both get it, and one
named by another sender's state is used up and refused; a completion uses the
pending connect up before the code is looked at, so a mistyped code, or another
consent's, costs a fresh one (`onboarding_tools.py:108-115`,
`dashboard_api.py:138-149`; `FreshIsKept`); a turn whose message has no user id, or
that answers none, is bound to whoever wrote last and acts for him
(`__init__.py:176-179`, `ActsForItsAuthor`); a statement that raises between the
evidence and the learned mark leaves a row that the next sweep distils again, each
time it happens (`draft_learn.py:312-326`, `EvidenceBounded`); a pending connect as old
as its time to live is swept by one store and accepted by the other; the
rollup says caught up when its list was cut off, no message could be classified,
or a mailbox failed with an error without a text.

Seen while modelling, and not given a run: sent messages of a batch are handled
after all inbound ones (`drainer.py:82`), so a reply that was written before a new
question clears the flag the question raised; a closing reply handled twice, after
a drain that was cut off, turns Actioned into Awaiting Reply
(`sent_handler.py:117`); after a disconnect `remove_account` stops the watch with a
service built once the token file is gone (`runtime.py:294`), which with one other
mailbox left is that mailbox's; a drain that a notification starts for an account
whose file is gone reads the other mailbox in the same way; a turn that outlives its window is
dispatched again while it runs, although `runtime.py:42-43` says the retry
"never re-dispatches a still-running turn"; a triage that raises is passed over
by the cursor (`drainer.py:85`), which `NoneSilentlyPassed` allows for as
`missed = "failed"`; `record_draft_outcome_sent` says that it is called from a
single-threaded path (`db.py:757-759`), and the registry runs four workers, which
is the one way `LessonsLostExplained` leaves for an edit to be lost; a reply
captured on a thread before it was drafted keeps every later draft of the thread
out of the loop; a reply that comes after its row was marked `no_reply` is never
paired (`draft_feedback.py:95`); a call of `on_sent` that raises or is cut off
before its record is lost with its reply, since the drain does not repeat it.

## 6. The plan

Done: the modules of section 2 and their runs, and the proofs of section 4.

What is left, in this order:

1. Composition: accounts of `AccountSet` over `Handover`, now that the drain is
   shown to implement it: what a hot add, a reconnect and a disconnect do to a mark.
2. The cache of draft writers (`__init__.py:957`), which outlives the token it was
   built with, as part of `Watches` or of a module of its own over its token files.
3. A statement of when a `no_reply` is false, with the exception of the stale reset
   named as the other properties name theirs.
4. The label verdict of a sent message and the retry backlog's order as functions
   against a reference definition.

## 7. Not modelled

Text: classification, detection of codes and numbers, the similarity of two
bodies, the wording of briefs and pushes, the language model's answers. They are
inputs: any category, any outcome, success or failure. The rollup's period
arithmetic is an input too (`Since`). Encryption and configuration parsing are
functions without state; of the token files the models keep what is stored, and
that a file being written may be read half done. The command line and the
dashboard's pages install and show files. The background message loop is a seam
that the runtime does not use. `PROJECT.json` lists every part with its status, and
every hazard; five hazards have no property, with the reason at each: the code
does what a property would forbid, or the state is not in a model yet.
