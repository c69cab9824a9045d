----------------------------- MODULE AccountSet -----------------------------
(***************************************************************************)
(* Which mailboxes the gateway serves: InboxRuntime's managed set and its  *)
(* convergence with the encrypted token files (runtime.py), the plugin's   *)
(* token loading and hot add (__init__.py), the chat tools that connect and *)
(* disconnect (onboarding_tools.py), and the dashboard, a                  *)
(* process of its own that can only write and delete the files             *)
(* (dashboard_api.py).                                                     *)
(*                                                                         *)
(* A mailbox's tokens are numbered by the writes that stored them: the     *)
(* number stands for the file's mtime, the reconciler's fingerprint.  What *)
(* a drain does with the mail is in InboxSync; here it holds the lock and  *)
(* may find its credentials dead.                                          *)
(***************************************************************************)
EXTENDS Integers

CONSTANTS
  Account,    \* mailboxes, by e-mail address
  NoAccount,
  Busy,       \* those the owner connects and disconnects as we watch; the
              \* others keep the token they have
  MaxTokens   \* bound: token files written for a mailbox

ASSUME AccountSetAssumption ==
  /\ NoAccount \notin Account
  /\ Busy \subseteq Account
  /\ MaxTokens \in Nat \ {0}

None == 0               \* no token
Token == None .. MaxTokens

VARIABLES
  file,       \* file[a]: the token file of a, None when there is none
  dead,       \* dead[a]: tokens of a, among those in use, that Google no
              \* longer honours
  runtime,    \* _RUNTIME and how far start() got
  booting,    \* accounts start() has still to arm
  managed,    \* _by_email
  seen,       \* _seen_token_fps
  drain,      \* the drain that holds the lock
  poll,       \* where the poll thread is in its pass
  listing,    \* the fingerprints its pass works from
  todo,       \* accounts it has still to go through
  chat,       \* where the chat tool is, and its account
  dash,       \* the account the dashboard has revoked and not yet deleted
  issued,     \* issued[a]: token files written for a so far
  excuse      \* history: accounts whose token file was tried and failed, or
              \* was there when a disconnect removed the account

tokens  == <<file, dead, issued>>
routing == <<managed, seen>>
polling == <<poll, listing, todo>>
vars == <<tokens, runtime, booting, routing, drain, polling, chat, dash, excuse>>

NoChat == [at |-> "idle", acct |-> NoAccount]
NoDrain == [by |-> "none", acct |-> NoAccount, box |-> NoAccount, token |-> None]

TypeOK ==
  /\ file \in [Account -> Token]
  /\ dead \in [Account -> SUBSET (Token \ {None})]
  /\ runtime \in {"down", "none", "starting", "idle", "running"}
  /\ booting \subseteq Account
  /\ managed \subseteq Account
  /\ seen \in [Account -> Token]
  /\ drain \in [by : {"poll", "push"}, acct : Account, box : Account,
                token : Token \ {None}] \cup {NoDrain}
  /\ poll \in {"asleep", "listed", "removing", "adding", "draining"}
  /\ listing \in [Account -> Token]
  /\ todo \subseteq Account
  /\ chat \in [at : {"saved", "revoked", "deleted"}, acct : Account] \cup {NoChat}
  /\ dash \in Account \cup {NoAccount}
  /\ issued \in [Account -> Token]
  /\ excuse \subseteq Account

\* What an earlier gateway process may have left: connected mailboxes, tokens
\* that have died since.
Init ==
  /\ file \in [Account -> {None, 1}]
  /\ dead \in {d \in [Account -> {{}, {1}}] : \A a \in Account : d[a] \subseteq {file[a]}}
  /\ runtime = "down"
  /\ booting = {}
  /\ managed = {}
  /\ seen = [a \in Account |-> None]
  /\ drain = NoDrain
  /\ poll = "asleep"
  /\ listing = [a \in Account |-> None]
  /\ todo = {}
  /\ chat = NoChat
  /\ dash = NoAccount
  /\ issued = file
  /\ excuse = {}

-----------------------------------------------------------------------------
(* Tokens. *)

Connected == {a \in Account : file[a] # None}

\* The mailbox whose token _load_token_for(a) returns: when a has none and one
\* mailbox is connected, that one.
Source(a) ==
  IF file[a] # None THEN a
  ELSE IF \E o \in Account : Connected = {o} THEN CHOOSE o \in Account : Connected = {o}
  ELSE NoAccount

Honoured(a) == file[a] # None /\ file[a] \notin dead[a]

\* A Gmail call for a can succeed.
Reachable(a) == Source(a) # NoAccount /\ Honoured(Source(a))

Revoke(box) ==
  \/ dead' = [dead EXCEPT ![box] = @ \cup {file[box]}]
  \/ UNCHANGED dead

\* A token file is written; of the tokens before it only one that a drain has in
\* hand still counts.
Save(a) ==
  /\ issued[a] < MaxTokens
  /\ issued' = [issued EXCEPT ![a] = @ + 1]
  /\ file' = [file EXCEPT ![a] = issued'[a]]
  /\ dead' = [dead EXCEPT ![a] = IF drain.box = a THEN @ \cap {drain.token} ELSE {}]
  /\ excuse' = excuse \ {a}

\* The files of a are deleted, or that fails.
Delete(a) ==
  /\ file' \in {file, [file EXCEPT ![a] = None]}
  /\ UNCHANGED <<dead, issued>>

\* The lock, which only a drain holds for more than one step.
Free == drain = NoDrain

\* add_account builds the service, arms the watch, seeds the cursor and
\* registers; when a call or the write fails it has registered nothing.
Added(a) == Reachable(a) /\ managed' = managed \cup {a}
NotAdded == UNCHANGED managed

\* What excuses the reconciler from a later try: a's token file is t.
Excuse(a, t) == excuse' = IF file[a] = t /\ t # None THEN excuse \cup {a} ELSE excuse

-----------------------------------------------------------------------------
(* The gateway starts and dies. *)

\* _maybe_start_runtime: without a token there will be no runtime at all.
Boot ==
  /\ runtime = "down"
  /\ runtime' = IF Connected = {} THEN "none" ELSE "starting"
  /\ managed' = Connected
  /\ booting' = Connected
  /\ UNCHANGED <<tokens, seen, drain, polling, chat, dash, excuse>>

\* start() arms one account, or drops it.  The lock is not taken.
ArmAtStart(a) ==
  /\ a \in booting
  /\ booting' = booting \ {a}
  /\ \/ Reachable(a) /\ UNCHANGED managed
     \/ managed' = managed \ {a}
  /\ UNCHANGED <<tokens, runtime, seen, drain, polling, chat, dash, excuse>>

\* Subscribe and start the loops, unless nothing was armed or subscribing fails.
Serve ==
  /\ runtime = "starting" /\ booting = {}
  /\ \/ runtime' = "idle"
     \/ managed # {} /\ runtime' = "running"
  /\ UNCHANGED <<tokens, booting, routing, drain, polling, chat, dash, excuse>>

StartStep == Serve \/ \E a \in Account : ArmAtStart(a)

Crash ==
  /\ runtime # "down"
  /\ runtime' = "down"
  /\ booting' = {} /\ managed' = {} /\ todo' = {} /\ excuse' = {}
  /\ seen' = [a \in Account |-> None]
  /\ listing' = [a \in Account |-> None]
  /\ drain' = NoDrain /\ poll' = "asleep" /\ chat' = NoChat
  /\ UNCHANGED <<tokens, dash>>

-----------------------------------------------------------------------------
(* Drains, by the subscriber's callback or the poll thread. *)

\* A bug that the checks must notice: a drain starts without a token.
BeginDrainBlindly(a, by) ==
  /\ Free
  /\ a \in managed
  /\ drain' = [by |-> by, acct |-> a, box |-> a, token |-> file[a]]

\* The service is built under the lock, from the token file of the moment.
BeginDrain(a, by) ==
  /\ Free
  /\ a \in managed
  /\ Source(a) # NoAccount
  /\ drain' = [by |-> by, acct |-> a, box |-> Source(a), token |-> file[Source(a)]]

PushDrain(a) ==
  /\ runtime = "running"
  /\ BeginDrain(a, "push")
  /\ UNCHANGED <<tokens, runtime, booting, routing, polling, chat, dash, excuse>>

DrainDone ==
  /\ ~Free
  /\ drain' = NoDrain
  /\ UNCHANGED <<tokens, runtime, booting, routing, polling, chat, dash, excuse>>

\* _note_auth_failure drops the account, still under the lock.
DrainAuthFails ==
  /\ ~Free
  /\ drain.token \in dead[drain.box]
  /\ managed' = managed \ {drain.acct}
  /\ drain' = NoDrain
  /\ IF drain.box = drain.acct THEN Excuse(drain.acct, drain.token) ELSE UNCHANGED excuse
  /\ UNCHANGED <<tokens, runtime, booting, seen, polling, chat, dash>>

DrainStep == DrainDone \/ DrainAuthFails

-----------------------------------------------------------------------------
(* One pass of the poll thread: reconcile_accounts, then a drain for each. *)

Polling(at) == runtime = "running" /\ poll = at /\ drain.by # "poll"

PollList ==
  /\ Polling("asleep")
  /\ poll' = "listed"
  /\ listing' = file
  /\ UNCHANGED <<tokens, runtime, booting, routing, drain, todo, chat, dash, excuse>>

\* The file of a cannot be read, perhaps because it is being written: a looks
\* disconnected.
PollListTorn(a) ==
  /\ Polling("asleep")
  /\ file[a] # None
  /\ poll' = "listed"
  /\ listing' = [file EXCEPT ![a] = None]
  /\ UNCHANGED <<tokens, runtime, booting, routing, drain, todo, chat, dash, excuse>>

\* The files cannot be listed: nothing is reconciled in this pass.
PollListFails ==
  /\ Polling("asleep")
  /\ poll' = "draining"
  /\ todo' = managed
  /\ UNCHANGED <<tokens, runtime, booting, routing, drain, listing, chat, dash, excuse>>

\* A bug that the checks must notice: current is read without the lock.
PollCompareUnlocked ==
  /\ Polling("listed")
  /\ poll' = "removing"
  /\ todo' = {a \in managed : listing[a] = None}
  /\ UNCHANGED <<tokens, runtime, booting, routing, drain, listing, chat, dash, excuse>>

\* A bug that the checks must notice: only what an earlier pass saw is removed.
PollCompareSeen ==
  /\ Polling("listed")
  /\ Free
  /\ poll' = "removing"
  /\ todo' = {a \in managed : listing[a] = None /\ seen[a] # None}
  /\ UNCHANGED <<tokens, runtime, booting, routing, drain, listing, chat, dash, excuse>>

\* current is read under the lock: a drain that runs is waited for.
PollCompare ==
  /\ Polling("listed")
  /\ Free
  /\ poll' = "removing"
  /\ todo' = {a \in managed : listing[a] = None}
  /\ UNCHANGED <<tokens, runtime, booting, routing, drain, listing, chat, dash, excuse>>

\* remove_account, which finds nothing when a drain or a tool was faster.
PollRemove(a) ==
  /\ Polling("removing")
  /\ a \in todo
  /\ Free
  /\ todo' = todo \ {a}
  /\ managed' = managed \ {a}
  /\ seen' = [seen EXCEPT ![a] = None]
  /\ UNCHANGED <<tokens, runtime, booting, drain, poll, listing, chat, dash, excuse>>

PollRemoved ==
  /\ Polling("removing") /\ todo = {}
  /\ poll' = "adding"
  /\ todo' = {a \in Account : listing[a] # None}
  /\ UNCHANGED <<tokens, runtime, booting, routing, drain, listing, chat, dash, excuse>>

\* A bug that the checks must notice: any token of the account counts as tried.
PollPassByName(a) ==
  /\ Polling("adding")
  /\ a \in todo
  /\ a \in managed \/ seen[a] # None
  /\ todo' = todo \ {a}
  /\ seen' = [seen EXCEPT ![a] = listing[a]]
  /\ UNCHANGED <<tokens, runtime, booting, managed, drain, poll, listing, chat, dash, excuse>>

\* A listed account that is managed, or whose token was tried already.
PollPass(a) ==
  /\ Polling("adding")
  /\ a \in todo
  /\ a \in managed \/ seen[a] = listing[a]
  /\ todo' = todo \ {a}
  /\ seen' = [seen EXCEPT ![a] = listing[a]]
  /\ UNCHANGED <<tokens, runtime, booting, managed, drain, poll, listing, chat, dash, excuse>>

\* A token not tried yet: recorded first, so that a bad one is tried once.
PollAdd(a) ==
  /\ Polling("adding")
  /\ a \in todo
  /\ a \notin managed /\ seen[a] # listing[a]
  /\ Free
  /\ todo' = todo \ {a}
  /\ seen' = [seen EXCEPT ![a] = listing[a]]
  /\ \/ Added(a) /\ UNCHANGED excuse
     \/ NotAdded /\ Excuse(a, listing[a])
  /\ UNCHANGED <<tokens, runtime, booting, drain, poll, listing, chat, dash>>

PollReconciled ==
  /\ Polling("adding") /\ todo = {}
  /\ poll' = "draining"
  /\ todo' = managed
  /\ listing' = [a \in Account |-> None]
  /\ UNCHANGED <<tokens, runtime, booting, routing, drain, chat, dash, excuse>>

\* The next account of the snapshot, if it is still managed and has a service.
PollDrain(a) ==
  /\ Polling("draining")
  /\ a \in todo
  /\ todo' = todo \ {a}
  /\ \/ BeginDrain(a, "poll")
     \/ Free /\ (a \notin managed \/ Source(a) = NoAccount) /\ UNCHANGED drain
  /\ UNCHANGED <<tokens, runtime, booting, routing, poll, listing, chat, dash, excuse>>

PollSleep ==
  /\ Polling("draining") /\ todo = {}
  /\ poll' = "asleep"
  /\ UNCHANGED <<tokens, runtime, booting, routing, drain, listing, todo, chat, dash, excuse>>

PollStep ==
  \/ PollList \/ PollListFails \/ PollCompare \/ PollRemoved \/ PollReconciled \/ PollSleep
  \/ \E a \in Account : PollRemove(a) \/ PollPass(a) \/ PollAdd(a) \/ PollDrain(a)

-----------------------------------------------------------------------------
(* The chat tools, one call at a time. *)

\* inbox_complete_connection stores the token ...
ChatConnect(a) ==
  /\ runtime # "down"
  /\ chat = NoChat
  /\ Save(a)
  /\ chat' = [at |-> "saved", acct |-> a]
  /\ UNCHANGED <<runtime, booting, routing, drain, polling, dash>>

\* ... and _hot_add_account adds the account, if there is a runtime and it is
\* not managed.
ChatAdd ==
  /\ chat.at = "saved"
  /\ Free
  /\ \/ runtime # "none" /\ Added(chat.acct)
     \/ NotAdded
  /\ chat' = NoChat
  /\ UNCHANGED <<tokens, runtime, booting, seen, drain, polling, dash, excuse>>

\* inbox_disconnect_account, for any address, revokes the token ...
ChatDisconnect(a) ==
  /\ runtime # "down"
  /\ chat = NoChat
  /\ IF Source(a) = NoAccount THEN UNCHANGED dead ELSE Revoke(Source(a))
  /\ chat' = [at |-> "revoked", acct |-> a]
  /\ UNCHANGED <<file, issued, runtime, booting, routing, drain, polling, dash, excuse>>

\* ... deletes the file ...
ChatDelete ==
  /\ chat.at = "revoked"
  /\ Delete(chat.acct)
  /\ chat' = [chat EXCEPT !.at = "deleted"]
  /\ UNCHANGED <<runtime, booting, routing, drain, polling, dash, excuse>>

\* ... and takes the account out of routing.
ChatRemove ==
  /\ chat.at = "deleted"
  /\ Free
  /\ managed' = managed \ {chat.acct}
  /\ IF chat.acct \in managed THEN Excuse(chat.acct, file[chat.acct]) ELSE UNCHANGED excuse
  /\ chat' = NoChat
  /\ UNCHANGED <<tokens, runtime, booting, seen, drain, polling, dash>>

ChatStep == ChatAdd \/ ChatDelete \/ ChatRemove

-----------------------------------------------------------------------------
(* The dashboard, and Google. *)

DashConnect(a) ==
  /\ dash = NoAccount
  /\ Save(a)
  /\ UNCHANGED <<runtime, booting, routing, drain, polling, chat, dash>>

\* disconnect() revokes the tokens it found, then deletes the files.
DashDisconnect(a) ==
  /\ dash = NoAccount
  /\ file[a] # None
  /\ Revoke(a)
  /\ dash' = a
  /\ UNCHANGED <<file, issued, runtime, booting, routing, drain, polling, chat, excuse>>

DashDelete ==
  /\ dash # NoAccount
  /\ Delete(dash)
  /\ dash' = NoAccount
  /\ UNCHANGED <<runtime, booting, routing, drain, polling, chat, excuse>>

\* A refresh token expires or is revoked at Google.
TokenDies(a) ==
  /\ Honoured(a)
  /\ dead' = [dead EXCEPT ![a] = @ \cup {file[a]}]
  /\ UNCHANGED <<file, issued, runtime, booting, routing, drain, polling, chat, dash, excuse>>

-----------------------------------------------------------------------------
Next ==
  \/ Boot \/ StartStep \/ Crash
  \/ DrainStep \/ PollStep \/ ChatStep \/ DashDelete
  \/ \E a \in Account : PushDrain(a) \/ TokenDies(a)
  \/ \E a \in Busy :
       \/ ChatConnect(a) \/ ChatDisconnect(a) \/ DashConnect(a) \/ DashDisconnect(a)
       \/ PollListTorn(a)

Spec == Init /\ [][Next]_vars

\* The loops are daemon threads that sleep and go on, and a drain ends one way
\* or the other.  A thread that waits for the lock gets it in the end, however
\* many notifications come, and listing the token files does not fail every
\* time.  Nothing is assumed of the owner's requests.
FairSpec ==
  /\ Spec
  /\ WF_vars(StartStep)
  /\ WF_vars(DrainStep)
  /\ SF_vars(PollStep) /\ SF_vars(PollList)

-----------------------------------------------------------------------------
(* Properties. *)

\* An account that is not served and whose token the reconciler takes for tried
\* has a reason: that very token failed, or was in the file when a disconnect
\* took the account out (reconcile_accounts, 330-337).  Drains, hot adds and
\* reconnects run between the steps of the pass, and none of them makes it skip
\* a good token for ever.
SkippedForCause ==
  \A a \in Account :
    file[a] # None /\ a \notin managed /\ seen[a] = file[a] => a \in excuse

\* A mailbox whose token file is gone is dropped by the poll, whoever deleted
\* the file (reconcile_accounts, 327-329).
DisconnectTakesEffect ==
  \A a \in Account :
    runtime = "running" /\ file[a] = None ~>
      runtime # "running" \/ file[a] # None \/ a \notin managed

\* While the loops run, a token that stays is served or has a reason not to be
\* (reconcile_accounts, 330-346).
ConnectTakesEffect ==
  \A a \in Account :
    runtime = "running" /\ file[a] # None ~>
      runtime # "running" \/ file[a] = None \/ a \in managed \cup excuse
=============================================================================
