----------------------------- MODULE ConnectFlow -----------------------------
(***************************************************************************)
(* Connecting a mailbox, from the link the owner is given to the token     *)
(* that is stored: the chat tools with their PendingStore                  *)
(* (onboarding_tools.py, oauth.py), and the dashboard, a process of its    *)
(* own, with the table oauth_pending (dashboard_api.py, db.py).            *)
(*                                                                         *)
(* A consent is one round of Google's page: its state parameter, its PKCE  *)
(* verifier and the code the owner is shown are all called by its name.    *)
(* Whoever completes a connect names a state, or none in the chat, and     *)
(* pastes any code: also another consent's, or an invalid one (mistyped,   *)
(* or used before).                                                        *)
(* The sender a tool acts for is the one its turn is bound to (Turns).     *)
(* What happens after a token is stored is in AccountSet and Watches.      *)
(***************************************************************************)
EXTENDS Naturals, Sequences

CONSTANTS
  Requester, \* owners who connect in the chat
  Consent,
  Request,   \* requests the dashboard serves at a time
  TTL        \* of a pending connect, in clock steps

ASSUME ConnectAssumption ==
  /\ Requester \cap {"dashboard", "nobody"} = {}
  /\ "invalid" \notin Consent
  /\ TTL \in Nat

VARIABLES
  store,   \* PendingStore: the consents it has; their senders are in begun
  place,   \* place[c]: the place of c in the order in which they were created
  count,   \* how many were created
  table,   \* oauth_pending
  begun,   \* begun[c]: who began it: a sender, "dashboard", or "nobody" so far
  age,     \* age[c]: clock steps since then, up to TTL + 1
  code,    \* code[c]: the code at Google: "none", "shown" to the owner, or "used"
  call,    \* call[s]: inbox_complete_connection: the verifier it took, whether by
           \* its state, and the code it has
  request, \* request[r]: a connect_complete of the dashboard: its state and code
  taken,   \* history: taken[c]: how often the verifier was given out
  overlap, \* history: consents whose row two requests had read at once
  saved    \* history: saved[c]: tokens stored for it, by whom

chatStore == <<store, place, count>>
pending == <<chatStore, table>>
google  == <<begun, age, code>>
calls   == <<call, request>>
history == <<taken, overlap, saved>>
flowVars == <<pending, google, calls, history>>

Idle == [step |-> "idle"]
Code == Consent \cup {"invalid"}

FlowTypeOK ==
  /\ store \subseteq Consent /\ place \in [Consent -> Nat] /\ count \in Nat
  /\ table \subseteq Consent
  /\ begun \in [Consent -> Requester \cup {"dashboard", "nobody"}]
  /\ age \in [Consent -> 0 .. TTL + 1]
  /\ code \in [Consent -> {"none", "shown", "used"}]
  /\ call \in [Requester -> {Idle} \cup [step : {"exchange"}, verifier : Consent,
                                          named : BOOLEAN, code : Code]]
  /\ request \in [Request -> {Idle}
       \cup [step : {"read"}, state : Consent, code : Code, fresh : BOOLEAN]
       \cup [step : {"exchange"}, state : Consent, code : Code]]
  /\ taken \in [Consent -> Nat] /\ overlap \subseteq Consent
  /\ saved \in [Consent -> Seq(Requester \cup {"dashboard"})]

FlowInit ==
  /\ store = {} /\ place = [c \in Consent |-> 0] /\ count = 0
  /\ table = {}
  /\ begun = [c \in Consent |-> "nobody"]
  /\ age = [c \in Consent |-> 0]
  /\ code = [c \in Consent |-> "none"]
  /\ call = [s \in Requester |-> Idle]
  /\ request = [r \in Request |-> Idle]
  /\ taken = [c \in Consent |-> 0] /\ overlap = {}
  /\ saved = [c \in Consent |-> <<>>]

-----------------------------------------------------------------------------
(* Google. *)

\* Every link has a new state and a new verifier.
NewConsent(c, by) ==
  /\ begun[c] = "nobody"
  /\ begun' = [begun EXCEPT ![c] = by]
  /\ UNCHANGED <<age, code>>

\* The owner approves and is shown the code.
Approve(c) ==
  /\ begun[c] # "nobody" /\ code[c] = "none"
  /\ code' = [code EXCEPT ![c] = "shown"]
  /\ UNCHANGED <<pending, begun, age, calls, history>>

\* What may be pasted.
Pasted == {c \in Consent : code[c] = "shown"} \cup {"invalid"}

\* exchange_code, then the token is stored: Google gives a token for a code once,
\* and only with its own verifier; a call that fails may have used the code up.
Exchange(verifier, k, by) ==
  \/ UNCHANGED <<code, saved>>
  \/ /\ k \in Consent
     /\ code' = [code EXCEPT ![k] = "used"]
     /\ \/ UNCHANGED saved
        \/ /\ verifier = k /\ code[k] = "shown"
           /\ saved' = [saved EXCEPT ![k] = Append(@, by)]

\* Ages are told apart up to TTL + 1.
Tick ==
  /\ \E c \in Consent : begun[c] # "nobody" /\ age[c] <= TTL
  /\ age' = [c \in Consent |-> IF begun[c] = "nobody" \/ age[c] > TTL THEN age[c]
                               ELSE age[c] + 1]
  /\ UNCHANGED <<pending, begun, code, calls, history>>

-----------------------------------------------------------------------------
(* The chat. *)

\* Every pending connect is swept but the newest, whatever its age.
SweepOthers(pendings) == {c \in pendings : \A o \in pendings : place[o] <= place[c]}

\* _sweep.
Sweep(pendings) == {c \in pendings : ~(age[c] > TTL)}

\* inbox_connect_account.
ChatStart(s, c) ==
  /\ NewConsent(c, s)
  /\ store' = Sweep(store) \cup {c}
  /\ count' = count + 1 /\ place' = [place EXCEPT ![c] = count']
  /\ UNCHANGED <<table, calls, history>>

OwnedBy(s) == {c \in Sweep(store) : begun[c] = s}

\* What complete_handler does once it has the pending connect.
Take(s, found, named, k) ==
  /\ call' = [call EXCEPT ![s] =
       [step |-> "exchange", verifier |-> found, named |-> named, code |-> k]]
  /\ taken' = [taken EXCEPT ![found] = @ + 1]

\* It found none.
NoneFound == store' = Sweep(store) /\ UNCHANGED <<call, taken>>

Newest(own) == {c \in own : \A o \in own : place[o] <= place[c]}

\* take_for_sender reads the newest and leaves it where it is.
PeekForSender(s, k) ==
  \/ OwnedBy(s) = {} /\ NoneFound
  \/ \E found \in Newest(OwnedBy(s)) :
       Take(s, found, FALSE, k) /\ store' = Sweep(store)

\* take_for_sender: the sender's newest.
TakeForSender(s, k) ==
  \/ OwnedBy(s) = {} /\ NoneFound
  \/ \E found \in Newest(OwnedBy(s)) :
       Take(s, found, FALSE, k) /\ store' = Sweep(store) \ {found}

\* take_by_state: that very one, whoever began it.
TakeByState(s, c, k) ==
  \/ c \notin Sweep(store) /\ NoneFound
  \/ c \in Sweep(store) /\ store' = Sweep(store) \ {c} /\ Take(s, c, TRUE, k)

\* inbox_complete_connection takes the pending connect before it looks at the
\* code, with the state of any consent or without.
ChatTake(s, k) ==
  /\ call[s] = Idle
  /\ k \in Pasted
  /\ TakeForSender(s, k) \/ \E c \in Consent : TakeByState(s, c, k)
  /\ UNCHANGED <<place, count, table, google, request, overlap, saved>>

\* The pending connect is not compared with the sender.
ChatExchangeUnchecked(s) ==
  /\ call[s].step = "exchange"
  /\ Exchange(call[s].verifier, call[s].code, s)
  /\ call' = [call EXCEPT ![s] = Idle]
  /\ UNCHANGED <<pending, begun, age, request, taken, overlap>>

\* It is refused if it is another sender's, and gone all the same; else the code
\* is exchanged.
ChatExchange(s) ==
  /\ call[s].step = "exchange"
  /\ IF begun[call[s].verifier] = s THEN Exchange(call[s].verifier, call[s].code, s)
                                   ELSE UNCHANGED <<code, saved>>
  /\ call' = [call EXCEPT ![s] = Idle]
  /\ UNCHANGED <<pending, begun, age, request, taken, overlap>>

-----------------------------------------------------------------------------
(* The dashboard. *)

\* connect_start sweeps the table, taking a row just TTL old for expired.
Young == {c \in table : age[c] < TTL}

DashStart(c) ==
  /\ NewConsent(c, "dashboard")
  /\ table' = Young \cup {c}
  /\ UNCHANGED <<chatStore, calls, history>>

\* take_oauth_pending reads the row of the state, and how old it is, with whatever
\* code was pasted ...
DashRead(r, c, k) ==
  /\ request[r] = Idle
  /\ c \in table /\ k \in Pasted
  /\ request' = [request EXCEPT ![r] =
       [step |-> "read", state |-> c, code |-> k, fresh |-> age[c] <= TTL]]
  /\ overlap' = IF \E o \in Request : request[o].step = "read" /\ request[o].state = c
                THEN overlap \cup {c} ELSE overlap
  /\ UNCHANGED <<pending, google, call, taken, saved>>

\* ... then deletes it, in a transaction of its own: it does not matter who finds
\* it still there.
DashTake(r) ==
  /\ request[r].step = "read"
  /\ LET c == request[r].state
     IN  /\ table' = table \ {c}
         /\ IF request[r].fresh
            THEN /\ request' = [request EXCEPT ![r] =
                      [step |-> "exchange", state |-> c, code |-> request[r].code]]
                 /\ taken' = [taken EXCEPT ![c] = @ + 1]
            ELSE request' = [request EXCEPT ![r] = Idle] /\ UNCHANGED taken
  /\ UNCHANGED <<chatStore, google, call, overlap, saved>>

DashExchange(r) ==
  /\ request[r].step = "exchange"
  /\ Exchange(request[r].state, request[r].code, "dashboard")
  /\ request' = [request EXCEPT ![r] = Idle]
  /\ UNCHANGED <<pending, begun, age, call, taken, overlap>>

\* A statement raises: connect_start has swept the table and gives no link, and
\* connect_complete leaves the row it has read.
DashStartFails ==
  /\ table' = Young /\ table' # table
  /\ UNCHANGED <<chatStore, google, calls, history>>

DashTakeFails(r) ==
  /\ request[r].step = "read"
  /\ request' = [request EXCEPT ![r] = Idle]
  /\ UNCHANGED <<pending, google, call, history>>

\* A process dies; the chat's store goes with it, the table stays.
GatewayRestarts ==
  /\ store # {} \/ \E s \in Requester : call[s] # Idle
  /\ store' = {}
  /\ call' = [s \in Requester |-> Idle]
  /\ UNCHANGED <<place, count, table, google, request, history>>

DashboardRestarts ==
  /\ \E r \in Request : request[r] # Idle
  /\ request' = [r \in Request |-> Idle]
  /\ UNCHANGED <<pending, google, call, history>>

-----------------------------------------------------------------------------
FlowNext ==
  \/ Tick \/ DashStartFails \/ GatewayRestarts \/ DashboardRestarts
  \/ \E s \in Requester :
       \/ ChatExchange(s)
       \/ \E c \in Consent : ChatStart(s, c)
       \/ \E k \in Code : ChatTake(s, k)
  \/ \E r \in Request :
       \/ \E c \in Consent, k \in Code : DashRead(r, c, k)
       \/ DashTake(r) \/ DashTakeFails(r) \/ DashExchange(r)
  \/ \E c \in Consent : DashStart(c) \/ Approve(c)

FlowSpec == FlowInit /\ [][FlowNext]_flowVars

-----------------------------------------------------------------------------
(* Properties. *)

\* A verifier is given out once, and to two requests of the dashboard only if
\* they read the row at the same time.
VerifierTakenOnce == \A c \in Consent : taken[c] > 1 => c \in overlap

IsNewest(c) == c \in Newest({o \in store : begun[o] = begun[c]})
BeginsExchange(s, c) == call[s] = Idle /\ call'[s] # Idle /\ call'[s].verifier = c

\* Whatever connects are begun, completed or fail meanwhile, a pending one that
\* is not yet TTL old stays until somebody completes a connect with its state or,
\* in the chat, its sender completes one without a state while it is the newest:
\* no other link, sweep or completion takes it.  The code is not looked at: a
\* completion uses the pending connect up with a mistyped code or another
\* consent's, and in the chat also when it is somebody else's state.  The chat
\* forgets it when the gateway dies.
FreshIsKept ==
  [][\A c \in Consent :
       age'[c] < TTL =>
         /\ c \in table \ table' =>
              \E r \in Request : request[r].step = "read" /\ request[r].state = c
         /\ c \in store \ store' =>
              \/ \E s \in Requester : BeginsExchange(s, c) /\ call'[s].named
              \/ BeginsExchange(begun[c], c) /\ IsNewest(c)
              \/ store' = {} /\ \A s \in Requester : call'[s] = Idle]_flowVars

\* At most one token is stored for a consent, and it is stored by the sender who
\* began it or, for one begun in the dashboard, there: with a state or without,
\* with whatever code, and whoever completes at the same time.
SavedForItsSender ==
  \A c \in Consent :
    Len(saved[c]) <= 1 /\ \A i \in DOMAIN saved[c] : saved[c][i] = begun[c]

=============================================================================
