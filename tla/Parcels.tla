------------------------------- MODULE Parcels -------------------------------
(***************************************************************************)
(* What the observers push to the owner: the parcels of modules/shipping.py*)
(* and the login codes of modules/twofa.py, on the workers of the module   *)
(* registry, with the tables tracked_packages and module_notified (db.py), *)
(* the notifier, and the periodic poll of 17track.                         *)
(*                                                                         *)
(* A parcel is a tracking number seen in a mailbox.  Mail text is reduced  *)
(* to the numbers and the code that were detected in it.                   *)
(***************************************************************************)
EXTENDS Integers, Sequences, FiniteSets

CONSTANTS
  Account,    \* connected mailboxes
  Number,     \* tracking numbers
  Message,    \* inbound messages
  AccountOf,  \* AccountOf[m]: the mailbox m came to
  NumbersOf,  \* NumbersOf[m]: the tracking numbers detected in m, in order
  Coded,      \* messages with a login code from an allowed sender
  Worker,     \* threads of the module registry's pool
  MaxActive,  \* shipping.max_active
  BatchSize,  \* MAX_PER_CALL of 17track
  Stage,      \* what 17track reports for a parcel
  Terminal,   \* TERMINAL_STAGES
  Moves,      \* the stages a parcel goes through: pairs of a stage and the next
  Faults,     \* which of AllFaults may happen
  None,       \* SQL NULL, no row, no answer
  MaxFaults,  \* bound: faults of any kind
  MaxDrains   \* bound: messages handed to the observers, repeats included

AllFaults == {"db", "push", "late", "track17", "crash"}

Parcel == Account \X Number

\* A row of tracked_packages.
Row == [registered : BOOLEAN, stage : Stage \cup {None}, notified : Stage \cup {None},
        terminal : BOOLEAN]
NewRow == [registered |-> FALSE, stage |-> None, notified |-> None, terminal |-> FALSE]

\* A call of an observer that a worker is in: its next step, the message, and
\* the numbers still to be looked at (the first is in hand).
Call == [step : {"code", "push", "add", "register", "mark"}, msg : Message,
         todo : Seq(Number)]
Idle == [step |-> "idle"]

\* A status in the poll's hands: the parcel, the stage 17track gave, and
\* last_notified_stage as read when the poll began.
Status == [parcel : Parcel, stage : Stage, read : Stage \cup {None}]

ASSUME ParcelsAssumption ==
  /\ AccountOf \in [Message -> Account]
  /\ NumbersOf \in [Message -> Seq(Number)]
  /\ Coded \subseteq Message
  /\ IsFiniteSet(Worker) /\ IsFiniteSet(Account) /\ IsFiniteSet(Number)
  /\ MaxActive \in Nat /\ BatchSize \in Nat \ {0}
  /\ Terminal \subseteq Stage
  /\ Moves \subseteq (Stage \cup {None}) \X Stage
  /\ Faults \subseteq AllFaults
  /\ MaxFaults \in Nat /\ MaxDrains \in Nat
  /\ None \notin Stage \cup Row \cup Status

VARIABLES
  pkg,      \* tracked_packages
  noted,    \* module_notified: messages whose code went through note_once
  queue,    \* calls submitted to the pool and not taken up
  worker,   \* worker[w]: the call it runs, or Idle
  poll,     \* the step of poll_once
  asked,    \* parcels of the snapshot still to be asked about, with `read`
  answers,  \* statuses of the batch still to be handled
  inHand,   \* the status being handled, or None
  captured, \* the notifier has a gateway and a destination
  remote,   \* remote[n]: what 17track would report
  drains,   \* how often a message was handed to the observers
  faults,   \* faults so far
  pushes,   \* history: pushes[m]: pushes of m's code that were started
  spent,    \* history: spent[p]: registrations 17track accepted for p
  told,     \* history: told[p]: the stage the owner was last told
  missed    \* history: parcels whose last push failed, or was cut off by a
            \* crash or a failing write before it was made or marked

pollVars == <<poll, asked, answers, inHand>>
tables   == <<pkg, noted>>
history  == <<pushes, spent, told, missed>>
vars == <<tables, queue, worker, pollVars, captured, remote, drains, faults, history>>

TypeOK ==
  /\ pkg \in [Parcel -> Row \cup {None}]
  /\ noted \subseteq Coded
  /\ queue \in Seq(Call)
  /\ worker \in [Worker -> Call \cup {Idle}]
  /\ poll \in {"idle", "ask", "store", "push", "mark"}
  /\ asked \subseteq [parcel : Parcel, read : Stage \cup {None}]
  /\ answers \subseteq Status
  /\ inHand \in Status \cup {None}
  /\ captured \in BOOLEAN
  /\ remote \in [Number -> Stage \cup {None}]
  /\ drains \in 0 .. MaxDrains
  /\ faults \in 0 .. MaxFaults
  /\ pushes \in [Message -> Nat]
  /\ spent \in [Parcel -> Nat]
  /\ told \in [Parcel -> Stage \cup {None}]
  /\ missed \subseteq Parcel

Init ==
  /\ pkg = [p \in Parcel |-> None]
  /\ noted = {}
  /\ queue = <<>>
  /\ worker = [w \in Worker |-> Idle]
  /\ poll = "idle"
  /\ asked = {}
  /\ answers = {}
  /\ inHand = None
  /\ captured = FALSE
  /\ remote = [n \in Number |-> None]
  /\ drains = 0
  /\ faults = 0
  /\ pushes = [m \in Message |-> 0]
  /\ spent = [p \in Parcel |-> 0]
  /\ told = [p \in Parcel |-> None]
  /\ missed = {}

Fault(kind) == kind \in Faults /\ faults < MaxFaults /\ faults' = faults + 1

Active == {p \in Parcel : pkg[p] # None /\ pkg[p].registered /\ ~pkg[p].terminal}

-----------------------------------------------------------------------------
(* The notifier. *)

\* One push: delivered, not delivered, or delivered although the wait for it
\* timed out and send() answered False.
Push(ok, lands) ==
  \/ captured /\ ok /\ lands /\ UNCHANGED faults
  \/ ~captured /\ ~ok /\ ~lands /\ UNCHANGED faults
  \/ captured /\ ~ok /\ ~lands /\ Fault("push")
  \/ captured /\ ~ok /\ lands /\ Fault("late")

\* The owner's first turn after a start: the gateway is captured.
OwnerTurn ==
  /\ ~captured
  /\ captured' = TRUE
  /\ UNCHANGED <<tables, queue, worker, pollVars, remote, drains, faults, history>>

-----------------------------------------------------------------------------
(* The registry: an inbound message, possibly again, goes to both observers. *)

\* Codes from any sender.
CallsForAnySender(m) ==
  <<[step |-> "code", msg |-> m, todo |-> <<>>]>>
  \o (IF NumbersOf[m] # <<>>
      THEN <<[step |-> "add", msg |-> m, todo |-> NumbersOf[m]]>> ELSE <<>>)

\* The codes' observer before the parcels', the order of _build_modules.
CallsFor(m) ==
  (IF m \in Coded THEN <<[step |-> "code", msg |-> m, todo |-> <<>>]>> ELSE <<>>)
  \o (IF NumbersOf[m] # <<>>
      THEN <<[step |-> "add", msg |-> m, todo |-> NumbersOf[m]]>> ELSE <<>>)

DispatchInbound(m) ==
  /\ drains < MaxDrains
  /\ drains' = drains + 1
  /\ queue' = queue \o CallsFor(m)
  /\ UNCHANGED <<tables, worker, pollVars, captured, remote, faults, history>>

\* Which of its idle threads the pool uses is all the same.
Take(w) ==
  /\ {v \in Worker : worker[v] = Idle} # {}
  /\ w = CHOOSE v \in Worker : worker[v] = Idle
  /\ queue # <<>>
  /\ worker' = [worker EXCEPT ![w] = Head(queue)]
  /\ queue' = Tail(queue)
  /\ UNCHANGED <<tables, pollVars, captured, remote, drains, faults, history>>

Now(w, step) == worker[w] # Idle /\ worker[w].step = step

Goto(w, step) == worker' = [worker EXCEPT ![w].step = step]

Return(w) == worker' = [worker EXCEPT ![w] = Idle]

\* The next number of the message, or the end of the call.
After(c) == IF Len(c.todo) = 1 THEN Idle
            ELSE [c EXCEPT !.step = "add", !.todo = Tail(c.todo)]
NextNumber(w) == worker' = [worker EXCEPT ![w] = After(worker[w])]

\* A call whose database write raises ends there; the registry logs it.
CallRaises(w) ==
  /\ worker[w] # Idle /\ worker[w].step \in {"code", "add", "mark"}
  /\ Fault("db")
  /\ Return(w)
  /\ UNCHANGED <<tables, queue, pollVars, captured, remote, drains, history>>

-----------------------------------------------------------------------------
(* twofa.on_inbound: the marker first, then the push. *)

\* The marker written, its answer not looked at.
NoteAgain(w) ==
  /\ Now(w, "code")
  /\ noted' = noted \cup {worker[w].msg}
  /\ Goto(w, "push")
  /\ UNCHANGED <<pkg, queue, pollVars, captured, remote, drains, faults, history>>

NoteOnce(w) ==
  /\ Now(w, "code")
  /\ noted' = noted \cup {worker[w].msg}
  /\ IF worker[w].msg \in noted THEN Return(w) ELSE Goto(w, "push")
  /\ UNCHANGED <<pkg, queue, pollVars, captured, remote, drains, faults, history>>

PushCode(w) ==
  /\ Now(w, "push")
  /\ \E ok, lands \in BOOLEAN : Push(ok, lands)
  /\ pushes' = [pushes EXCEPT ![worker[w].msg] = @ + 1]
  /\ Return(w)
  /\ UNCHANGED <<tables, queue, pollVars, captured, remote, drains, spent, told, missed>>

-----------------------------------------------------------------------------
(* shipping.on_inbound: record the number, mind the limit, register it. *)

InHand(w) == <<AccountOf[worker[w].msg], Head(worker[w].todo)>>

\* A number this mailbox has seen before is left alone.
SeenBefore(w) ==
  /\ Now(w, "add")
  /\ pkg[InHand(w)] # None
  /\ NextNumber(w)
  /\ UNCHANGED <<tables, queue, pollVars, captured, remote, drains, faults, history>>

\* Registered whatever the limit says.
AddAnyway(w) ==
  /\ Now(w, "add")
  /\ pkg[InHand(w)] = None
  /\ pkg' = [pkg EXCEPT ![InHand(w)] = NewRow]
  /\ Goto(w, "register")
  /\ UNCHANGED <<noted, queue, pollVars, captured, remote, drains, faults, history>>

\* The row is added whatever the limit says; at the limit it is not registered.
AddParcel(w) ==
  /\ Now(w, "add")
  /\ pkg[InHand(w)] = None
  /\ pkg' = [pkg EXCEPT ![InHand(w)] = NewRow]
  /\ IF Cardinality(Active) >= MaxActive THEN NextNumber(w) ELSE Goto(w, "register")
  /\ UNCHANGED <<noted, queue, pollVars, captured, remote, drains, faults, history>>

\* 17track raises, has no quota left, or rejects the number.
RegisterFails(w) ==
  /\ Now(w, "register")
  /\ Fault("track17")
  /\ NextNumber(w)
  /\ UNCHANGED <<tables, queue, pollVars, captured, remote, drains, history>>

Register(w) ==
  /\ Now(w, "register")
  /\ spent' = [spent EXCEPT ![InHand(w)] = @ + 1]
  /\ Goto(w, "mark")
  /\ UNCHANGED <<tables, queue, pollVars, captured, remote, drains, faults,
                 pushes, told, missed>>

MarkRegistered(w) ==
  /\ Now(w, "mark")
  /\ pkg' = [pkg EXCEPT ![InHand(w)].registered = TRUE]
  /\ NextNumber(w)
  /\ UNCHANGED <<noted, queue, pollVars, captured, remote, drains, faults, history>>

WorkerStep(w) ==
  \/ Take(w) \/ CallRaises(w)
  \/ NoteOnce(w) \/ PushCode(w)
  \/ SeenBefore(w) \/ AddParcel(w) \/ RegisterFails(w) \/ Register(w) \/ MarkRegistered(w)

-----------------------------------------------------------------------------
(* shipping.poll_once, on the thread of its periodic job. *)

\* The active parcels are read once; of those with the same number one stays.
PollBegin ==
  /\ poll = "idle"
  /\ Active # {}
  /\ \E keep \in [{p[2] : p \in Active} -> Active] :
       /\ \A n \in DOMAIN keep : keep[n][2] = n
       /\ asked' = {[parcel |-> keep[n], read |-> pkg[keep[n]].notified] : n \in DOMAIN keep}
  /\ poll' = "ask"
  /\ UNCHANGED <<tables, queue, worker, answers, inHand, captured, remote, drains,
                 faults, history>>

Batch(b) ==
  b \in SUBSET asked /\ b # {} /\ Cardinality(b) <= BatchSize
    /\ (b # asked => Cardinality(b) = BatchSize)

\* A batch is answered, numbers without a stage being passed over.
PollAsk ==
  /\ poll = "ask"
  /\ \E b \in SUBSET asked :
       /\ Batch(b)
       /\ asked' = asked \ b
       /\ answers' = {[parcel |-> a.parcel, stage |-> remote[a.parcel[2]], read |-> a.read] :
                         a \in {x \in b : remote[x.parcel[2]] # None}}
  /\ poll' = IF answers' = {} THEN "ask" ELSE "store"
  /\ UNCHANGED <<tables, queue, worker, inHand, captured, remote, drains, faults, history>>

\* A batch whose call raises is left out of this poll.
PollAskFails ==
  /\ poll = "ask"
  /\ \E b \in SUBSET asked : Batch(b) /\ asked' = asked \ b
  /\ Fault("track17")
  /\ UNCHANGED <<tables, queue, worker, poll, answers, inHand, captured, remote, drains, history>>

PollEnd ==
  /\ poll = "ask" /\ asked = {}
  /\ poll' = "idle"
  /\ UNCHANGED <<tables, queue, worker, asked, answers, inHand, captured, remote, drains,
                 faults, history>>

NextStatus == poll' = IF answers = {} THEN "ask" ELSE "store"

\* The new stage compared with the last one polled, not the last one pushed.
PollStoreAgainstLast ==
  /\ poll = "store"
  /\ \E st \in answers :
       /\ pkg' = [pkg EXCEPT ![st.parcel].stage = st.stage,
                             ![st.parcel].terminal = st.stage \in Terminal]
       /\ answers' = answers \ {st}
       /\ \/ /\ st.stage = pkg[st.parcel].stage
             /\ poll' = IF answers' = {} THEN "ask" ELSE "store"
             /\ UNCHANGED inHand
          \/ /\ st.stage # pkg[st.parcel].stage
             /\ poll' = "push"
             /\ inHand' = st
  /\ UNCHANGED <<noted, queue, worker, asked, captured, remote, drains, faults, history>>

\* _handle_status: the stage is stored, terminal or not, before the owner hears.
PollStore ==
  /\ poll = "store"
  /\ \E st \in answers :
       /\ pkg' = [pkg EXCEPT ![st.parcel].stage = st.stage,
                             ![st.parcel].terminal = st.stage \in Terminal]
       /\ answers' = answers \ {st}
       /\ \/ /\ st.stage = st.read
             /\ poll' = IF answers' = {} THEN "ask" ELSE "store"
             /\ UNCHANGED inHand
          \/ /\ st.stage # st.read
             /\ poll' = "push"
             /\ inHand' = st
  /\ UNCHANGED <<noted, queue, worker, asked, captured, remote, drains, faults, history>>

\* The marker written whatever send() answered.
PollPushBlindly ==
  /\ poll = "push"
  /\ \E ok, lands \in BOOLEAN :
       /\ Push(ok, lands)
       /\ told' = IF lands THEN [told EXCEPT ![inHand.parcel] = inHand.stage] ELSE told
  /\ poll' = "mark"
  /\ UNCHANGED <<tables, queue, worker, asked, answers, inHand, captured, remote, drains,
                 pushes, spent, missed>>

PollPush ==
  /\ poll = "push"
  /\ \E ok, lands \in BOOLEAN :
       /\ Push(ok, lands)
       /\ told' = IF lands THEN [told EXCEPT ![inHand.parcel] = inHand.stage] ELSE told
       /\ \/ ok /\ poll' = "mark" /\ UNCHANGED <<inHand, missed>>
          \/ ~ok /\ NextStatus /\ inHand' = None /\ missed' = missed \cup {inHand.parcel}
  /\ UNCHANGED <<tables, queue, worker, asked, answers, captured, remote, drains, pushes, spent>>

PollMark ==
  /\ poll = "mark"
  /\ pkg' = [pkg EXCEPT ![inHand.parcel].notified = inHand.stage]
  /\ inHand' = None
  /\ missed' = missed \ {inHand.parcel}
  /\ NextStatus
  /\ UNCHANGED <<noted, queue, worker, asked, answers, captured, remote, drains, faults,
                 pushes, spent, told>>

Dropped == IF inHand = None THEN {} ELSE {inHand.parcel}

\* A write that raises ends the whole poll.
PollRaises ==
  /\ poll \in {"store", "mark"}
  /\ Fault("db")
  /\ poll' = "idle" /\ asked' = {} /\ answers' = {} /\ inHand' = None
  /\ missed' = missed \cup Dropped
  /\ UNCHANGED <<tables, queue, worker, captured, remote, drains, pushes, spent, told>>

PollStep ==
  \/ PollBegin \/ PollAsk \/ PollAskFails \/ PollEnd
  \/ PollStore \/ PollPush \/ PollMark \/ PollRaises

-----------------------------------------------------------------------------
(* The world. *)

\* The carrier moves a parcel on.
ParcelMoves(n, st) ==
  /\ <<remote[n], st>> \in Moves
  /\ remote' = [remote EXCEPT ![n] = st]
  /\ UNCHANGED <<tables, queue, worker, pollVars, captured, drains, faults, history>>

\* The process dies: the pool, the poll and the captured gateway go.
Crash ==
  /\ Fault("crash")
  /\ queue' = <<>>
  /\ worker' = [w \in Worker |-> Idle]
  /\ poll' = "idle" /\ asked' = {} /\ answers' = {} /\ inHand' = None
  /\ captured' = FALSE
  /\ missed' = missed \cup Dropped
  /\ UNCHANGED <<tables, remote, drains, pushes, spent, told>>

Next ==
  \/ OwnerTurn
  \/ \E m \in Message : DispatchInbound(m)
  \/ \E w \in Worker : WorkerStep(w)
  \/ PollStep
  \/ \E n \in Number, st \in Stage : ParcelMoves(n, st)
  \/ Crash

Spec == Init /\ [][Next]_vars

\* The periodic job runs every poll_interval_s and the pool's threads run.
FairSpec ==
  /\ Spec
  /\ WF_vars(PollStep)
  /\ \A w \in Worker : WF_vars(WorkerStep(w))

-----------------------------------------------------------------------------
(* Properties. *)

\* However often a message is drained, on however many workers, its code is
\* pushed at most once (note_once) and each of its numbers costs one
\* registration at most (add_tracked_package), also across restarts.
OnceOnly ==
  /\ \A m \in Message : pushes[m] <= 1
  /\ \A p \in Parcel : spent[p] <= 1

\* The limit on active parcels is looked at and then added to by each worker
\* for itself, so it can be passed, by one parcel for each other worker and no
\* more.
LimitOverrunBounded ==
  Cardinality(Active) < MaxActive + Cardinality(Worker) \/ Active = {}

InThePollsHands(p) == inHand # None /\ inHand.parcel = p

\* The stage stored for a parcel, the stage marked as notified and the stage
\* the owner was last told are the same, unless the poll is pushing it now or
\* its last push failed or was cut off.  A parcel that is terminal is not
\* polled again, so there the owner misses the last stage for good.
MarkedIsTold ==
  \A p \in Parcel :
    pkg[p] # None /\ p \notin missed /\ ~InThePollsHands(p)
      => pkg[p].stage = pkg[p].notified /\ pkg[p].notified = told[p]

\* Another mailbox has the same number among the active parcels: the poll
\* keeps one row per number.
Shadowed(p) == \E q \in Active : q # p /\ q[2] = p[2]

InTheEnd(p) ==
  \/ pkg[p] = None
  \/ ~pkg[p].registered
  \/ pkg[p].terminal
  \/ Shadowed(p)
  \/ remote[p[2]] = None
  \/ told[p] = remote[p[2]]

\* With a gateway to push to, and faults that end, the owner is told of the
\* stage of every parcel that is polled: a failed push of a stage that is not
\* terminal is repeated by the next poll (B3 of shipping.py).
ToldInTheEnd == <>[]captured => \A p \in Parcel : <>[]InTheEnd(p)

=============================================================================
