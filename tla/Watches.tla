------------------------------- MODULE Watches -------------------------------
(***************************************************************************)
(* Gmail's push watches and the reconnect nudge.  A watch runs out unless  *)
(* the renewal loop arms it again (runtime.py _renewal_loop); adding an    *)
(* account arms one, removing an account stops one, outside the lock; a    *)
(* drain that finds its credentials dead drops the account and flags it    *)
(* for the owner, and connecting again takes the flag back (__init__.py).  *)
(*                                                                         *)
(* Time passes in renewal checks of six hours.  Which accounts are served  *)
(* is in AccountSet with every thread's steps; here the poll looks at one  *)
(* account at a time.                                                      *)
(***************************************************************************)
EXTENDS Integers

CONSTANTS
  Account,
  NoAccount,
  Busy,       \* accounts whose tokens die and are replaced; the others keep theirs
  MaxTokens,  \* bound: token files written for a mailbox
  Life,       \* checks a watch lives
  Buffer      \* RENEWAL_BUFFER_MS in checks

ASSUME WatchesAssumption ==
  /\ NoAccount \notin Account /\ Busy \subseteq Account
  /\ MaxTokens \in Nat \ {0}
  /\ Buffer \in Nat \ {0} /\ Life \in Nat /\ Life > Buffer

None == 0
Token == 1 .. MaxTokens

VARIABLES
  file,     \* file[a]: the token file's token, or None
  issued,   \* issued[a]: token files written for a so far
  dead,     \* dead[a]: tokens of a Google no longer honours
  managed,  \* _by_email
  believed, \* believed[a]: checks until watch_expiration of the managed object
  watch,    \* watch[a]: checks until Gmail's watch of the mailbox ends
  todo,     \* accounts the renewal loop has still to come to in its pass
  old,      \* those of them whose object is no longer the managed one
  drain,    \* the drain that holds the lock: account and token
  poll,     \* the reconciler: where it is, with which account and fingerprint
  chat,     \* the chat tool: where it is, with which account
  seen,     \* _seen_token_fps
  failed,   \* _auth_failed
  flagged,  \* _NEEDS_RECONNECT
  misses,   \* history: renewals of a that failed in a row, up to Buffer
  astray,   \* history: mailboxes without the watch their account believes in, for
            \* it was stopped for another's removal or a late one, or went elsewhere
  stale,    \* history: flags that came from a token no longer in the file, or
            \* were there when the dashboard replaced the token of an account that
            \* was served, or that the chat was about to add
  dropped,  \* history: accounts dropped for a token that is still in the file
  silent    \* history: those of them left without a flag, for it was not their
            \* first failure, or a connect under way took the flag back

tokens  == <<file, issued, dead>>
watches == <<believed, watch, misses, astray>>
flags   == <<failed, flagged, stale, dropped, silent>>
vars == <<tokens, managed, watches, todo, old, drain, poll, chat, seen, flags>>

NoDrain == [acct |-> NoAccount, token |-> None]
NoPoll  == [at |-> "asleep", acct |-> NoAccount, token |-> None]
NoChat  == [at |-> "idle", acct |-> NoAccount]

TypeOK ==
  /\ file \in [Account -> Token \cup {None}]
  /\ issued \in [Account -> Token] /\ dead \in [Account -> SUBSET Token]
  /\ managed \subseteq Account
  /\ believed \in [Account -> 0 .. Life] /\ watch \in [Account -> 0 .. Life]
  /\ todo \subseteq Account /\ old \subseteq todo
  /\ drain \in [acct : Account, token : Token] \cup {NoDrain}
  /\ poll \in [at : {"listed", "removed", "trying", "added"}, acct : Account,
               token : Token \cup {None}] \cup {NoPoll}
  /\ chat \in [at : {"saved", "unflagged", "deleted", "removed"}, acct : Account]
                 \cup {NoChat}
  /\ seen \in [Account -> Token \cup {None}]
  /\ failed \subseteq Account /\ flagged \subseteq Account

\* A gateway that serves every mailbox, just started.
Init ==
  /\ file = [a \in Account |-> 1] /\ issued = file
  /\ dead = [a \in Account |-> {}]
  /\ managed = Account
  /\ believed = [a \in Account |-> Life] /\ watch = believed
  /\ todo = {} /\ old = {}
  /\ drain = NoDrain /\ poll = NoPoll /\ chat = NoChat
  /\ seen = [a \in Account |-> None]
  /\ failed = {} /\ flagged = {} /\ stale = {} /\ silent = {}
  /\ dropped = {}
  /\ misses = [a \in Account |-> 0] /\ astray = {}

Free  == drain = NoDrain

Connected == {a \in Account : file[a] # None}

\* The mailbox whose token _load_token_for returns: the only one there is, when a
\* has none.
Source(a) ==
  IF file[a] # None THEN a
  ELSE IF \E o \in Account : Connected = {o} THEN CHOOSE o \in Account : Connected = {o}
  ELSE NoAccount

Honoured(a)  == file[a] # None /\ file[a] \notin dead[a]
Reachable(a) == Source(a) # NoAccount /\ Honoured(Source(a))

-----------------------------------------------------------------------------
(* Arming and stopping. *)

\* Only the watch is armed, not the account's expiry noted.
Watch(a) ==
  /\ watch' = [watch EXCEPT ![Source(a)] = Life]
  /\ UNCHANGED <<believed, misses, astray>>

\* The watch of the mailbox the token belongs to, and a's watch_expiration.
Arm(a) ==
  /\ watch' = [watch EXCEPT ![Source(a)] = Life]
  /\ believed' = [believed EXCEPT ![a] = Life]
  /\ misses' = [misses EXCEPT ![a] = 0]
  /\ astray' = IF Source(a) = a THEN astray \ {a} ELSE astray \cup {a}

\* The watch is stopped with whatever token a finds now, best effort.
StopWatch(a) ==
  \/ UNCHANGED watches
  \/ /\ Reachable(a)
     /\ watch' = [watch EXCEPT ![Source(a)] = 0]
     /\ astray' = astray \cup {Source(a)}
     /\ UNCHANGED <<believed, misses>>

\* The managed object goes; the renewal loop may still hold it.
Drop(a) ==
  /\ managed' = managed \ {a}
  /\ old' = old \cup ({a} \cap managed \cap todo)

\* add_account, under the lock: the watch first, then the map.
Add(a) ==
  \/ a \in managed /\ UNCHANGED <<managed, watches>>
  \/ a \notin managed /\ Reachable(a) /\ Arm(a) /\ managed' = managed \cup {a}
  \/ a \notin managed /\ UNCHANGED <<managed, watches>>

Unflag(a) ==
  /\ flagged' = flagged \ {a}
  /\ stale' = stale \ {a}
  /\ silent' = silent \cup ({a} \cap flagged \cap dropped)
  /\ UNCHANGED <<failed, dropped>>

-----------------------------------------------------------------------------
(* The renewal loop. *)

\* Six hours pass, and the loop takes its snapshot; a pass is over before the next.
Tick ==
  /\ todo = {}
  /\ todo' = managed
  /\ believed' = [a \in Account |-> IF believed[a] = 0 THEN 0 ELSE believed[a] - 1]
  /\ watch' = [a \in Account |-> IF watch[a] = 0 THEN 0 ELSE watch[a] - 1]
  /\ UNCHANGED <<tokens, managed, misses, astray, old, drain, poll, chat, seen, flags>>

\* A watch is renewed only once it has run out.
DueWhenOver(a) == believed[a] = 0

\* should_renew.
ShouldRenew(a) == believed[a] <= Buffer

RenewNotYet(a) ==
  /\ a \in todo
  /\ a \in old \/ ~ShouldRenew(a)
  /\ todo' = todo \ {a} /\ old' = old \ {a}
  /\ UNCHANGED <<tokens, managed, watches, drain, poll, chat, seen, flags>>

\* The lock is not taken.  An object no longer managed is renewed like any other;
\* its own expiry, which only it reads, is not kept here.
Renew(a) ==
  /\ a \in todo
  /\ Reachable(a)
  /\ IF a \in old THEN Watch(a) ELSE ShouldRenew(a) /\ Arm(a)
  /\ todo' = todo \ {a} /\ old' = old \ {a}
  /\ UNCHANGED <<tokens, managed, drain, poll, chat, seen, flags>>

\* The token is dead or gone, or the call fails.
RenewFails(a) ==
  /\ a \in todo
  /\ a \in old \/ ShouldRenew(a)
  /\ misses' = [misses EXCEPT ![a] = IF a \in old \/ @ = Buffer THEN @ ELSE @ + 1]
  /\ todo' = todo \ {a} /\ old' = old \ {a}
  /\ UNCHANGED <<tokens, managed, believed, watch, astray, drain, poll, chat, seen, flags>>

RenewStep(a) == RenewNotYet(a) \/ Renew(a) \/ RenewFails(a)

-----------------------------------------------------------------------------
(* A drain, and a rollup. *)

BeginDrain(a) ==
  /\ Free
  /\ a \in managed /\ file[a] # None
  /\ drain' = [acct |-> a, token |-> file[a]]
  /\ UNCHANGED <<tokens, managed, watches, todo, old, poll, chat, seen, flags>>

DrainDone ==
  /\ ~Free
  /\ drain' = NoDrain
  /\ UNCHANGED <<tokens, managed, watches, todo, old, poll, chat, seen, flags>>

\* _note_auth_failure: dropped with its watch, and flagged the first time.
DrainAuthFails ==
  LET a == drain.acct
      first == a \notin failed
  IN  /\ ~Free
      /\ drain.token \in dead[a]
      /\ Drop(a)
      /\ IF a \in managed THEN StopWatch(a) ELSE UNCHANGED watches
      /\ failed' = failed \cup {a}
      /\ flagged' = IF first THEN flagged \cup {a} ELSE flagged
      /\ stale' = IF first /\ drain.token # file[a] THEN stale \cup {a} ELSE stale
      /\ IF drain.token # file[a] THEN UNCHANGED <<dropped, silent>>
         ELSE /\ dropped' = dropped \cup {a}
              /\ silent' = IF first \/ a \in flagged THEN silent ELSE silent \cup {a}
      /\ drain' = NoDrain
      /\ UNCHANGED <<tokens, todo, poll, chat, seen>>

\* build_rollup flags a mailbox whose token is dead, and leaves it in routing.  It
\* may have loaded that token before the one in the file was written.
RollupFlags(a) ==
  /\ \E t \in dead[a] :
       /\ flagged' = flagged \cup {a}
       /\ stale' = IF t # file[a] THEN stale \cup {a} ELSE stale
  /\ UNCHANGED <<tokens, managed, watches, todo, old, drain, poll, chat, seen, failed,
                 dropped, silent>>

-----------------------------------------------------------------------------
(* reconcile_accounts. *)

PollList(a) ==
  /\ poll = NoPoll
  /\ poll' = [at |-> "listed", acct |-> a, token |-> file[a]]
  /\ UNCHANGED <<tokens, managed, watches, todo, old, drain, chat, seen, flags>>

\* The token file is gone: the account is dropped ...
PollRemove ==
  /\ poll.at = "listed" /\ poll.token = None
  /\ Free
  /\ Drop(poll.acct)
  /\ poll' = IF poll.acct \in managed THEN [poll EXCEPT !.at = "removed"] ELSE NoPoll
  /\ UNCHANGED <<tokens, watches, todo, drain, chat, seen, flags>>

\* ... and, out of the lock, its watch stopped.
PollStop ==
  /\ poll.at = "removed"
  /\ StopWatch(poll.acct)
  /\ seen' = [seen EXCEPT ![poll.acct] = None]
  /\ poll' = NoPoll
  /\ UNCHANGED <<tokens, managed, todo, old, drain, chat, flags>>

\* Nothing to do for a managed account, or for a token tried before; any other
\* token is recorded first.
PollLook ==
  /\ poll.at = "listed" /\ poll.token # None
  /\ seen' = [seen EXCEPT ![poll.acct] = poll.token]
  /\ poll' = IF poll.acct \in managed \/ seen[poll.acct] = poll.token THEN NoPoll
             ELSE [poll EXCEPT !.at = "trying"]
  /\ UNCHANGED <<tokens, managed, watches, todo, old, drain, chat, flags>>

PollAdd ==
  /\ poll.at = "trying"
  /\ Free
  /\ Add(poll.acct)
  /\ poll' = IF managed' = managed THEN NoPoll ELSE [poll EXCEPT !.at = "added"]
  /\ UNCHANGED <<tokens, todo, old, drain, chat, seen, flags>>

\* on_account_added.
PollUnflag ==
  /\ poll.at = "added"
  /\ Unflag(poll.acct)
  /\ poll' = NoPoll
  /\ UNCHANGED <<tokens, managed, watches, todo, old, drain, chat, seen>>

PollStep == PollRemove \/ PollStop \/ PollLook \/ PollAdd \/ PollUnflag

-----------------------------------------------------------------------------
(* The owner connects and disconnects, in the chat or in the dashboard. *)

NoLongerDropped(a) == dropped' = dropped \ {a} /\ silent' = silent \ {a}

Save(a) ==
  /\ issued[a] < MaxTokens
  /\ issued' = [issued EXCEPT ![a] = @ + 1]
  /\ file' = [file EXCEPT ![a] = issued'[a]]
  /\ NoLongerDropped(a)
  /\ UNCHANGED dead

ChatSave(a) ==
  /\ chat = NoChat
  /\ Save(a)
  /\ chat' = [at |-> "saved", acct |-> a]
  /\ UNCHANGED <<managed, watches, todo, old, drain, poll, seen, failed, flagged, stale>>

\* The flag stays where it is.
ChatKeepFlag ==
  /\ chat.at = "saved"
  /\ chat' = [chat EXCEPT !.at = "unflagged"]
  /\ UNCHANGED <<tokens, managed, watches, todo, old, drain, poll, seen, flags>>

\* _hot_add_account takes the flag back first ...
ChatUnflag ==
  /\ chat.at = "saved"
  /\ Unflag(chat.acct)
  /\ chat' = [chat EXCEPT !.at = "unflagged"]
  /\ UNCHANGED <<tokens, managed, watches, todo, old, drain, poll, seen>>

ChatAdd ==
  /\ chat.at = "unflagged"
  /\ Free
  /\ Add(chat.acct)
  /\ chat' = NoChat
  /\ UNCHANGED <<tokens, todo, old, drain, poll, seen, flags>>

\* inbox_disconnect_account has the token revoked, which is a TokenDies, deletes
\* the file, if it can, then drops the account and stops its watch.
ChatDisconnect(a) ==
  /\ chat = NoChat
  /\ file[a] # None
  /\ \/ file' = [file EXCEPT ![a] = None] /\ NoLongerDropped(a)
     \/ UNCHANGED <<file, dropped, silent>>
  /\ chat' = [at |-> "deleted", acct |-> a]
  /\ UNCHANGED <<issued, dead, managed, watches, todo, old, drain, poll, seen, failed, flagged,
                 stale>>

ChatRemove ==
  /\ chat.at = "deleted"
  /\ Free
  /\ Drop(chat.acct)
  /\ chat' = IF chat.acct \in managed THEN [chat EXCEPT !.at = "removed"] ELSE NoChat
  /\ UNCHANGED <<tokens, watches, todo, drain, poll, seen, flags>>

ChatStop ==
  /\ chat.at = "removed"
  /\ StopWatch(chat.acct)
  /\ chat' = NoChat
  /\ UNCHANGED <<tokens, managed, todo, old, drain, poll, seen, flags>>

ChatStep == ChatUnflag \/ ChatAdd \/ ChatRemove \/ ChatStop

DashSave(a) ==
  /\ Save(a)
  /\ stale' = IF a \in flagged /\ (a \in managed \/ chat = [at |-> "unflagged", acct |-> a])
              THEN stale \cup {a} ELSE stale
  /\ UNCHANGED <<managed, watches, todo, old, drain, poll, chat, seen, failed, flagged>>

DashDelete(a) ==
  /\ file[a] # None
  /\ file' = [file EXCEPT ![a] = None]
  /\ NoLongerDropped(a)
  /\ UNCHANGED <<issued, dead, managed, watches, todo, old, drain, poll, chat, seen, failed,
                 flagged, stale>>

TokenDies(a) ==
  /\ Honoured(a)
  /\ dead' = [dead EXCEPT ![a] = @ \cup {file[a]}]
  /\ UNCHANGED <<file, issued, managed, watches, todo, old, drain, poll, chat, seen, flags>>

\* The gateway is restarted: what it kept in memory is lost, and start() arms
\* every mailbox it can, flagging none.
Restart ==
  /\ \E armed \in SUBSET {a \in Account : Honoured(a)} :
       /\ managed' = armed
       /\ believed' = [a \in Account |-> IF a \in armed THEN Life ELSE 0]
       /\ watch' = [a \in Account |-> IF a \in armed THEN Life ELSE watch[a]]
       /\ astray' = astray \ armed
  /\ misses' = [a \in Account |-> 0]
  /\ todo' = {} /\ old' = {}
  /\ drain' = NoDrain /\ poll' = NoPoll /\ chat' = NoChat
  /\ seen' = [a \in Account |-> None]
  /\ failed' = {} /\ flagged' = {} /\ stale' = {} /\ silent' = {}
  /\ dropped' = {}
  /\ UNCHANGED tokens

-----------------------------------------------------------------------------
Next ==
  \/ Tick \/ DrainDone \/ DrainAuthFails \/ PollStep \/ ChatStep
  \/ \E a \in Account : RenewStep(a)
  \/ \E a \in Busy :
       \/ BeginDrain(a) \/ RollupFlags(a) \/ PollList(a) \/ ChatSave(a) \/ ChatDisconnect(a)
       \/ DashSave(a) \/ DashDelete(a) \/ TokenDies(a)
  \/ Restart

Spec == Init /\ [][Next]_vars

-----------------------------------------------------------------------------
(* Properties. *)

\* A served mailbox whose token works is without a watch only if so many
\* renewals failed in a row as the buffer has checks (should_renew: a day before
\* a watch ends, every six hours), or if its watch was stopped or armed with the
\* token of another account.
LapseExplained ==
  \A a \in managed :
    Honoured(a) /\ watch[a] = 0 => a \in astray \/ misses[a] >= Buffer

\* The reconnect nudge tells the truth.  A mailbox served with a token that
\* works is flagged only while its connect is under way, or by the failure of an
\* earlier token, or because the dashboard replaced the token before a drain had
\* noticed (stale).  A mailbox dropped for the token it still has is flagged, unless it
\* failed before in this process (_auth_failed is never cleared) or a connect
\* under way took the flag back.
NudgeExplained ==
  /\ \A a \in flagged \cap managed :
       Honoured(a) => \/ a \in stale
                      \/ chat = [at |-> "saved", acct |-> a]
                      \/ poll.at = "added" /\ poll.acct = a
  /\ dropped \ managed \subseteq flagged \cup silent

=============================================================================
