-------------------------------- MODULE Turns --------------------------------
(***************************************************************************)
(* The hooks around a turn of the agent (__init__.py): _AuthContext ties a *)
(* turn to the owner who wrote the message, so that the connect tools act  *)
(* for that owner, and _DraftTurnGuard holds the autonomous draft turns    *)
(* back to the tools they need.  Turns run side by side; a message may     *)
(* come without a user id, and some turns answer no message at all (a cron *)
(* job, the API).  A draft turn is started over HTTP, and any turn may be  *)
(* interrupted, when its post_llm_call never comes.                        *)
(***************************************************************************)
EXTENDS Naturals, FiniteSets

CONSTANTS
  Sender,
  NoSender,
  Owner,      \* INBOX_OWNER_MATRIX_IDS
  Chat,       \* turns that answer a message
  Author,     \* Author[t]: who wrote the message, NoSender without a user id
  SessionOf,  \* SessionOf[t]
  Session,
  Draft,      \* autonomous draft turns
  Unprompted, \* other turns that answer no message
  Max         \* _DraftTurnGuard._MAX

ASSUME TurnsAssumption ==
  /\ NoSender \notin Sender /\ Owner \subseteq Sender
  /\ Chat \cap Draft = {} /\ Unprompted \cap (Chat \cup Draft) = {}
  /\ Author \in [Chat -> Sender \cup {NoSender}]
  /\ SessionOf \in [Chat \cup Draft \cup Unprompted -> Session]
  /\ Max \in Nat \ {0}

Turn == Chat \cup Draft \cup Unprompted

\* Turns that answer a message with a user id.
Signed == {t \in Chat : Author[t] # NoSender}

VARIABLES
  last,    \* _last_sender
  bound,   \* _by_session
  at,      \* at[t]: "idle", "sent" (its message came), "going", "over"
  guarded, \* the keys of _turns: draft turns noted and not cleared
  rank,    \* rank[d]: the place of d in the order in which turns were noted,
           \* which the dict keeps; 0 before
  noted,   \* how many were noted so far
  acted,   \* acted[t]: the sender the turn's last connect tool acted for
  between  \* history: turns bound after another message than theirs came, or
           \* whose session was bound again

guard == <<guarded, rank, noted>>
turnsVars == <<last, bound, at, guard, acted, between>>

TurnsTypeOK ==
  /\ last \in Sender \cup {NoSender}
  /\ bound \in [Session -> Sender \cup {NoSender}]
  /\ at \in [Turn -> {"idle", "sent", "going", "over"}]
  /\ guarded \subseteq Draft /\ rank \in [Draft -> Nat] /\ noted \in Nat
  /\ acted \in [Turn -> Sender \cup {NoSender}]
  /\ between \subseteq Turn

TurnsInit ==
  /\ last = NoSender
  /\ bound = [s \in Session |-> NoSender]
  /\ at = [t \in Turn |-> "idle"]
  /\ guarded = {} /\ rank = [d \in Draft |-> 0] /\ noted = 0
  /\ acted = [t \in Turn |-> NoSender]
  /\ between = {}

Going == {t \in Turn : at[t] = "going"}

\* Draft turns noted after d was.
Newer(d) == noted - rank[d]

\* pre_gateway_dispatch: a message comes in.  Without a user id it leaves the
\* last sender as he was.
Dispatch(t) ==
  /\ at[t] = "idle"
  /\ at' = [at EXCEPT ![t] = "sent"]
  /\ IF Author[t] = NoSender
     THEN UNCHANGED <<last, between>>
     ELSE /\ last' = Author[t]
          /\ between' = between \cup {u \in Chat : at[u] = "sent" /\ Author[u] # Author[t]}
  /\ UNCHANGED <<bound, guard, acted>>

\* When there are too many, the turn noted last goes.
EvictNewest(turns, order) ==
  IF Cardinality(turns) > Max THEN {d \in turns : \E e \in turns : order[d] < order[e]}
  ELSE turns

\* When there are too many, the turn noted first goes.
Evict(turns, order) ==
  IF Cardinality(turns) > Max THEN {d \in turns : \E e \in turns : order[e] < order[d]}
  ELSE turns

\* A session that is bound stays as it is.
BindOnce(t) ==
  /\ bound' = IF bound[SessionOf[t]] # NoSender THEN bound
              ELSE [bound EXCEPT ![SessionOf[t]] = last]
  /\ at' = [at EXCEPT ![t] = "going"]

\* pre_llm_call: the session is bound to the last sender, if there was one.
Bind(t) ==
  /\ bound' = IF last = NoSender THEN bound ELSE [bound EXCEPT ![SessionOf[t]] = last]
  /\ at' = [at EXCEPT ![t] = "going"]

\* A turn that answers a message, or none.
BeginTurn(t) ==
  /\ at[t] = IF t \in Chat THEN "sent" ELSE "idle"
  /\ Bind(t)
  /\ between' = between \cup {u \in Going : SessionOf[u] = SessionOf[t]}
  /\ UNCHANGED <<last, guard, acted>>

\* The instruction of a draft turn has the sentinel: the turn is noted.
BeginDraft(t) ==
  /\ at[t] = "idle"
  /\ Bind(t)
  /\ between' = between \cup {u \in Going : SessionOf[u] = SessionOf[t]}
  /\ noted' = noted + 1 /\ rank' = [rank EXCEPT ![t] = noted']
  /\ guarded' = Evict(guarded \cup {t}, rank')
  /\ UNCHANGED <<last, acted>>

\* pre_tool_call: the guard first, then the owners.
MayConnect(t) == t \notin guarded /\ bound[SessionOf[t]] \in Owner

\* A tool that connects a mailbox acts for the sender of the session.
ConnectTool(t) ==
  /\ at[t] = "going"
  /\ MayConnect(t)
  /\ acted' = [acted EXCEPT ![t] = bound[SessionOf[t]]]
  /\ UNCHANGED <<last, bound, at, guard, between>>

\* post_llm_call, which an interrupted turn does not reach.
EndTurn(t) ==
  /\ at[t] = "going"
  /\ at' = [at EXCEPT ![t] = IF t \in Draft THEN "over" ELSE "idle"]
  /\ guarded' \in {guarded, guarded \ {t}}
  /\ acted' = [acted EXCEPT ![t] = NoSender]
  /\ between' = between \ {t}
  /\ UNCHANGED <<last, bound, rank, noted>>

TurnsNext ==
  \/ \E t \in Chat : Dispatch(t)
  \/ \E t \in Chat \cup Unprompted : BeginTurn(t)
  \/ \E t \in Draft : BeginDraft(t)
  \/ \E t \in Turn : ConnectTool(t) \/ EndTurn(t)

TurnsSpec == TurnsInit /\ [][TurnsNext]_turnsVars

-----------------------------------------------------------------------------
(* Properties. *)

\* A draft turn that goes on is restricted unless Max draft turns were noted
\* since it was: turns that were interrupted and never cleared do not push it
\* out before.  (The comment at the eviction takes the oldest turn for completed,
\* which nothing ensures.)
DraftStaysGuarded == \A d \in Draft \cap Going : d \in guarded \/ Newer(d) >= Max

\* A connect tool acts for an owner: for the author of the message its turn
\* answers, unless somebody else's message came in before the turn was bound, or
\* its session was bound again since; and in a draft turn for nobody while the
\* turn is still restricted.  A turn whose message names nobody, or that answers
\* no message, acts for the owner who wrote last when its session was bound: the
\* program cannot tell, and nothing is claimed of it here but that he is an owner.
ActsForItsAuthor ==
  \A t \in Turn :
    acted[t] # NoSender =>
      /\ acted[t] \in Owner
      /\ t \in Signed => acted[t] = Author[t] \/ t \in between
      /\ t \in Draft => Newer(t) >= Max

=============================================================================
