--------------------------- MODULE ParcelsProofs ---------------------------
(***************************************************************************)
(* Proofs about Parcels for every set of mailboxes, numbers, messages and  *)
(* workers, every limit and batch size, and every kind and number of       *)
(* faults.                                                                 *)
(***************************************************************************)
EXTENDS Parcels, FiniteSetTheorems, SequenceTheorems, TLAPS

\* A call that an observer can be in, and one that waits for a worker.
Fit ==
  {c \in Call : /\ c.step \in {"code", "push"} => c.msg \in Coded
                /\ c.step \in {"add", "register", "mark"} => c.todo # <<>>}
Waiting == {c \in Fit : c.step \in {"code", "add"}}

PkgInv == pkg \in [Parcel -> Row \cup {None}]

WorkInv == worker \in [Worker -> Fit \cup {Idle}] /\ queue \in Seq(Waiting)

Pushing(w, m) == Now(w, "push") /\ worker[w].msg = m

\* A code was noted before it is pushed, and one worker at most has it.
CodeInv ==
  /\ pushes \in [Message -> Nat]
  /\ \A m \in Message :
       /\ pushes[m] > 0 => m \in noted
       /\ pushes[m] <= 1
       /\ \A w \in Worker : Pushing(w, m) =>
            m \in noted /\ pushes[m] = 0 /\ \A v \in Worker : Pushing(v, m) => v = w

Registering(w, p) == Now(w, "register") /\ InHand(w) = p
Marking(w, p) == Now(w, "mark") /\ InHand(w) = p

\* A parcel has its row before it is registered, and one worker at most has it.
SpentInv ==
  /\ spent \in [Parcel -> Nat]
  /\ \A p \in Parcel :
       /\ spent[p] > 0 => pkg[p] # None
       /\ spent[p] <= 1
       /\ \A w \in Worker : Marking(w, p) => pkg[p] # None
       /\ \A w \in Worker : Registering(w, p) =>
            pkg[p] # None /\ spent[p] = 0 /\ \A v \in Worker : Registering(v, p) => v = w

ToldInv ==
  /\ told \in [Parcel -> Stage \cup {None}]
  /\ remote \in [Number -> Stage \cup {None}]
  /\ \A p \in Parcel : pkg[p] = None => told[p] = None

\* What the poll has still to handle is active, known by one status, and its
\* marker is still what was read.
AskInv ==
  /\ asked \subseteq [parcel : Parcel, read : Stage \cup {None}]
  /\ answers \subseteq Status
  /\ \A a \in asked \cup answers : a.parcel \in Active /\ a.read = pkg[a.parcel].notified
  /\ \A a, b \in asked : a.parcel = b.parcel => a = b
  /\ \A a, b \in answers : a.parcel = b.parcel => a = b
  /\ \A a \in asked, b \in answers : a.parcel # b.parcel
  /\ poll \in {"idle", "ask"} => answers = {}

\* The status in hand is stored and, when it is to be marked, was told.
HandInv ==
  /\ poll \in {"push", "mark"} <=> inHand # None
  /\ inHand # None =>
       /\ inHand \in Status
       /\ pkg[inHand.parcel] # None
       /\ pkg[inHand.parcel].stage = inHand.stage
       /\ \A a \in asked \cup answers : a.parcel # inHand.parcel
  /\ poll = "mark" => told[inHand.parcel] = inHand.stage

PollInv == ToldInv /\ AskInv /\ HandInv /\ MarkedIsTold

\* Workers that may still make a parcel active.
Adding == {w \in Worker : Now(w, "register") \/ Now(w, "mark")}

LimitInv ==
  \/ Cardinality(Active) + Cardinality(Adding) < MaxActive + Cardinality(Worker)
  \/ Worker = {} /\ Active = {}

IndInv == PkgInv /\ WorkInv /\ CodeInv /\ SpentInv /\ PollInv /\ LimitInv

-----------------------------------------------------------------------------
LEMMA Finite == IsFiniteSet(Parcel) /\ IsFiniteSet(Worker)
BY ParcelsAssumption, FS_Product DEF ParcelsAssumption, Parcel

LEMMA NoneApart == None \notin Row /\ None \notin Status /\ None \notin Stage /\ NewRow \in Row
BY ParcelsAssumption DEF ParcelsAssumption, Row, NewRow

\* The number a worker has in hand.
LEMMA InHandType ==
  ASSUME WorkInv, NEW w \in Worker, worker[w] # Idle,
         worker[w].step \in {"add", "register", "mark"}
  PROVE  /\ worker[w] \in Fit /\ worker[w].todo \in Seq(Number) /\ worker[w].todo # <<>>
         /\ InHand(w) \in Parcel
<1>1. worker[w] \in Fit /\ worker[w].msg \in Message
  BY DEF WorkInv, Fit, Call
<1>2. worker[w].todo \in Seq(Number) /\ worker[w].todo # <<>>
  BY <1>1 DEF Fit, Call
<1>3. Head(worker[w].todo) \in Number
  BY <1>2
<1>4. QED
  BY <1>1, <1>2, <1>3, ParcelsAssumption DEF InHand, Parcel, ParcelsAssumption

LEMMA LongTail ==
  ASSUME NEW S, NEW s \in Seq(S), s # <<>>, Len(s) # 1
  PROVE  Tail(s) # <<>>
<1>1. Len(s) \in Nat \ {0}
  BY EmptySeq
<1>2. Len(Tail(s)) = Len(s) - 1
  BY HeadTailProperties
<1>3. Len(Tail(s)) # 0
  BY <1>1, <1>2
<1>4. Len(<<>>) = 0
  BY EmptySeq
<1>5. QED
  BY <1>3, <1>4

\* What a worker goes on to with the number in hand, and with the next one.
LEMMA GotoType ==
  ASSUME WorkInv, NEW w \in Worker, worker[w] # Idle,
         worker[w].step \in {"add", "register", "mark"}, NEW s \in {"register", "mark"}
  PROVE  [worker[w] EXCEPT !.step = s] \in Fit
BY InHandType DEF Fit, Call

LEMMA NextNumberType ==
  ASSUME WorkInv, NEW w \in Worker, worker[w] # Idle,
         worker[w].step \in {"add", "register", "mark"}, NextNumber(w)
  PROVE  \E c \in Waiting \cup {Idle} : worker' = [worker EXCEPT ![w] = c]
<1> DEFINE todo == worker[w].todo
<1>1. worker[w] \in Fit /\ todo \in Seq(Number) /\ todo # <<>>
  BY InHandType
<1>2. After(worker[w]) \in Waiting \cup {Idle}
  <2>1. CASE Len(todo) = 1
    BY <2>1 DEF After
  <2>2. CASE Len(todo) # 1
    <3>1. Tail(todo) \in Seq(Number)
      BY <1>1, HeadTailProperties
    <3>2. Tail(todo) # <<>>
      BY <1>1, <2>2, LongTail
    <3>3. After(worker[w]) = [worker[w] EXCEPT !.step = "add", !.todo = Tail(todo)]
      BY <2>2 DEF After
    <3>4. /\ After(worker[w]) \in Call
          /\ After(worker[w]).step = "add" /\ After(worker[w]).todo # <<>>
      BY <1>1, <3>1, <3>2, <3>3 DEF Fit, Call
    <3>5. QED
      BY <3>4 DEF Fit, Waiting
  <2>3. QED
    BY <2>1, <2>2
<1>3. QED
  BY <1>2 DEF NextNumber

\* A worker that ends its call, or goes on to the next number, leaves nothing
\* behind that the invariants speak of.
LEMMA Settles ==
  ASSUME WorkInv, NEW w \in Worker, NEW c \in Waiting \cup {Idle},
         worker' = [worker EXCEPT ![w] = c]
  PROVE  /\ worker' \in [Worker -> Fit \cup {Idle}]
         /\ Adding' \subseteq Adding \ {w}
         /\ \A v \in Worker : \A m : Pushing(v, m)' => v # w /\ Pushing(v, m)
         /\ \A v \in Worker : \A p : Registering(v, p)' => v # w /\ Registering(v, p)
         /\ \A v \in Worker : \A p : Marking(v, p)' => v # w /\ Marking(v, p)
<1>1. /\ worker' \in [Worker -> Fit \cup {Idle}]
      /\ worker'[w] = c
      /\ \A v \in Worker : v # w => worker'[v] = worker[v]
  BY DEF WorkInv, Waiting
<1>2. \A s : Now(w, s)' => s \in {"code", "add"}
  BY <1>1 DEF Now, Waiting
<1>3. QED
  BY <1>1, <1>2 DEF Adding, Pushing, Registering, Marking, Now, InHand

LEMMA CodeKept ==
  ASSUME CodeInv, pushes' = pushes, noted \subseteq noted',
         \A w \in Worker, m \in Message : Pushing(w, m)' => Pushing(w, m)
  PROVE  CodeInv'
BY DEF CodeInv

LEMMA SpentKept ==
  ASSUME SpentInv, spent' = spent,
         \A p \in Parcel : pkg[p] # None => pkg'[p] # None,
         \A w \in Worker, p \in Parcel : Registering(w, p)' => Registering(w, p),
         \A w \in Worker, p \in Parcel : Marking(w, p)' => Marking(w, p)
  PROVE  SpentInv'
BY DEF SpentInv

LEMMA LimitKept ==
  ASSUME LimitInv, Active' \subseteq Active, Adding' \subseteq Adding
  PROVE  LimitInv'
<1>1. IsFiniteSet(Active) /\ IsFiniteSet(Adding) /\ IsFiniteSet(Active') /\ IsFiniteSet(Adding')
  BY Finite, FS_Subset DEF Active, Adding
<1>2. /\ Cardinality(Active') <= Cardinality(Active)
      /\ Cardinality(Adding') <= Cardinality(Adding)
      /\ Cardinality(Active) \in Nat /\ Cardinality(Adding) \in Nat
      /\ Cardinality(Active') \in Nat /\ Cardinality(Adding') \in Nat
  BY <1>1, FS_Subset, FS_CardinalityType
<1>3. MaxActive \in Nat /\ Cardinality(Worker) \in Nat
  BY ParcelsAssumption, FS_CardinalityType DEF ParcelsAssumption
<1>4. QED
  BY <1>2, <1>3 DEF LimitInv

LEMMA PollSame ==
  ASSUME PollInv, UNCHANGED <<pkg, pollVars, remote, told, missed>>
  PROVE  PollInv' /\ Active' = Active
<1>1. Active' = Active
  BY DEF Active
<1>2. QED
  BY <1>1 DEF PollInv, ToldInv, AskInv, HandInv, MarkedIsTold, InThePollsHands, pollVars

LEMMA WorkersSame ==
  ASSUME WorkInv, CodeInv, SpentInv, UNCHANGED <<worker, queue, pushes, spent, noted>>,
         \A p \in Parcel : pkg[p] # None => pkg'[p] # None
  PROVE  WorkInv' /\ CodeInv' /\ SpentInv' /\ Adding' = Adding
<1>1. /\ \A w, m : Pushing(w, m)' = Pushing(w, m)
      /\ \A w, p : Registering(w, p)' = Registering(w, p)
      /\ \A w, p : Marking(w, p)' = Marking(w, p)
      /\ Adding' = Adding
  BY DEF Pushing, Registering, Marking, Adding, Now, InHand
<1>2. CodeInv' /\ SpentInv'
  BY <1>1, CodeKept, SpentKept
<1>3. QED
  BY <1>1, <1>2 DEF WorkInv

\* A worker adds a row, or sets its registered flag: neither touches what the
\* poll has in hand or what was told.
LEMMA RowChanges ==
  ASSUME PkgInv, PollInv, UNCHANGED <<pollVars, remote, told, missed>>,
         NEW p \in Parcel, NEW r \in Row, pkg' = [pkg EXCEPT ![p] = r],
         \/ pkg[p] = None /\ r = NewRow
         \/ pkg[p] # None /\ r = [pkg[p] EXCEPT !.registered = TRUE]
  PROVE  /\ PkgInv' /\ PollInv'
         /\ \A q \in Parcel : pkg[q] # None => pkg'[q] # None
         /\ Active' \subseteq Active \cup {p}
         /\ pkg[p] = None => Active' = Active
<1>1. PkgInv' /\ pkg'[p] = r /\ r # None /\ \A q \in Parcel : q # p => pkg'[q] = pkg[q]
  BY NoneApart DEF PkgInv
<1>2. \A q \in Parcel : pkg[q] # None =>
        /\ pkg'[q] # None
        /\ pkg'[q].stage = pkg[q].stage /\ pkg'[q].notified = pkg[q].notified
        /\ pkg'[q].terminal = pkg[q].terminal
        /\ pkg[q].registered => pkg'[q].registered
  BY <1>1 DEF PkgInv, Row
<1>3. \A q \in Parcel : pkg[q] = None /\ pkg'[q] # None =>
        /\ pkg'[q].stage = None /\ pkg'[q].notified = None /\ ~pkg'[q].registered
  BY <1>1 DEF NewRow
<1>4. Active \subseteq Active' /\ Active' \subseteq Active \cup {p}
  BY <1>1, <1>2 DEF Active
<1>5. pkg[p] = None => Active' = Active
  BY <1>1, <1>3, <1>4 DEF Active
<1>6. ToldInv'
  BY <1>2 DEF PollInv, ToldInv
<1>7. AskInv'
  BY <1>2, <1>4 DEF PollInv, AskInv, Active, pollVars
<1>8. HandInv'
  BY <1>2 DEF PollInv, HandInv, Status, pollVars
<1>9. MarkedIsTold'
  BY <1>2, <1>3 DEF PollInv, MarkedIsTold, ToldInv, InThePollsHands, pollVars
<1>10. QED
  BY <1>1, <1>2, <1>4, <1>5, <1>6, <1>7, <1>8, <1>9 DEF PollInv

-----------------------------------------------------------------------------
(* The workers. *)

\* A step of a worker that writes nothing the invariants speak of.
LEMMA SettledInv ==
  ASSUME IndInv, NEW w \in Worker, NEW c \in Waiting \cup {Idle},
         worker' = [worker EXCEPT ![w] = c], queue' \in Seq(Waiting),
         noted \subseteq noted',
         UNCHANGED <<pkg, pollVars, remote, pushes, spent, told, missed>>
  PROVE  IndInv'
<1>1. WorkInv' /\ Adding' \subseteq Adding
  BY Settles DEF IndInv, WorkInv
<1>2. CodeInv'
  BY Settles, CodeKept DEF IndInv
<1>3. SpentInv'
  BY Settles, SpentKept DEF IndInv
<1>4. PollInv' /\ Active' = Active
  BY PollSame DEF IndInv
<1>5. QED
  BY <1>1, <1>2, <1>3, <1>4, LimitKept DEF IndInv, PkgInv

LEMMA TakeInv == ASSUME IndInv, NEW w \in Worker, Take(w) PROVE IndInv'
<1>1. Head(queue) \in Waiting /\ Tail(queue) \in Seq(Waiting)
  BY HeadTailProperties DEF IndInv, WorkInv, Take
<1>2. QED
  BY <1>1, SettledInv DEF Take, tables, history

LEMMA CallRaisesInv == ASSUME IndInv, NEW w \in Worker, CallRaises(w) PROVE IndInv'
BY SettledInv DEF CallRaises, Return, IndInv, WorkInv, tables, history

LEMMA NextInv ==
  ASSUME IndInv, NEW w \in Worker, SeenBefore(w) \/ RegisterFails(w) PROVE IndInv'
<1>1. /\ worker[w] # Idle /\ worker[w].step \in {"add", "register", "mark"} /\ NextNumber(w)
      /\ UNCHANGED <<queue, noted, pkg, pollVars, remote, pushes, spent, told, missed>>
  BY DEF SeenBefore, RegisterFails, Now, tables, history
<1>2. PICK c \in Waiting \cup {Idle} : worker' = [worker EXCEPT ![w] = c]
  BY <1>1, NextNumberType DEF IndInv
<1>3. QED
  BY <1>1, <1>2, SettledInv DEF IndInv, WorkInv

\* A worker that goes on with its call leaves the others where they are.
LEMMA GoesOn ==
  ASSUME WorkInv, NEW w \in Worker, NEW c \in Fit \cup {Idle},
         worker' = [worker EXCEPT ![w] = c]
  PROVE  /\ worker' \in [Worker -> Fit \cup {Idle}] /\ worker'[w] = c
         /\ \A v \in Worker : v # w => worker'[v] = worker[v]
         /\ \A v \in Worker : \A m : v # w => Pushing(v, m)' <=> Pushing(v, m)
         /\ \A v \in Worker : \A p : v # w => Registering(v, p)' <=> Registering(v, p)
         /\ \A v \in Worker : \A p : v # w => Marking(v, p)' <=> Marking(v, p)
         /\ Adding' \subseteq Adding \cup {w}
<1>1. /\ worker' \in [Worker -> Fit \cup {Idle}] /\ worker'[w] = c
      /\ \A v \in Worker : v # w => worker'[v] = worker[v]
  BY DEF WorkInv
<1>2. QED
  BY <1>1 DEF Pushing, Registering, Marking, Adding, Now, InHand

LEMMA NoteOnceInv == ASSUME IndInv, NEW w \in Worker, NoteOnce(w) PROVE IndInv'
<1> DEFINE m == worker[w].msg
           c == [worker[w] EXCEPT !.step = "push"]
<1>1. /\ worker[w] \in Fit /\ m \in Message /\ Now(w, "code")
      /\ noted' = noted \cup {m}
      /\ UNCHANGED <<queue, pkg, pollVars, remote, pushes, spent, told, missed>>
  BY DEF NoteOnce, Now, IndInv, WorkInv, Fit, Call, history
<1>2. CASE m \in noted
  BY <1>1, <1>2, SettledInv DEF NoteOnce, Return, IndInv, WorkInv
<1>3. CASE m \notin noted
  <2>1. worker' = [worker EXCEPT ![w] = c]
    BY <1>3 DEF NoteOnce, Goto
  <2>2. c \in Fit /\ c.step = "push" /\ c.msg = m
    BY <1>1 DEF Fit, Call, Now
  <2> HIDE DEF c
  <2>3. WorkInv'
    BY <1>1, <2>1, <2>2, GoesOn DEF IndInv, WorkInv
  <2>4. /\ \A n : Pushing(w, n)' => n = m
        /\ \A p : ~Registering(w, p)' /\ ~Marking(w, p)'
        /\ w \notin Adding'
    BY <2>1, <2>2, GoesOn DEF IndInv, Pushing, Registering, Marking, Adding, Now
  <2>5. CodeInv'
    <3>1. pushes[m] = 0 /\ \A v \in Worker : ~Pushing(v, m)
      BY <1>1, <1>3 DEF IndInv, CodeInv
    <3>2. \A v \in Worker, n \in Message : Pushing(v, n)' =>
            (v = w /\ n = m) \/ (v # w /\ n # m /\ Pushing(v, n))
      <4>1. \A v \in Worker, n \in Message : v # w => (Pushing(v, n)' <=> Pushing(v, n))
        BY <2>1, <2>2, GoesOn DEF IndInv
      <4> HIDE DEF m
      <4>2. QED
        BY <2>4, <3>1, <4>1
    <3>3. QED
      BY <1>1, <3>1, <3>2 DEF IndInv, CodeInv
  <2>6. SpentInv'
    BY <1>1, <2>1, <2>2, <2>4, GoesOn, SpentKept DEF IndInv
  <2>7. PollInv' /\ Active' = Active
    BY <1>1, PollSame DEF IndInv
  <2>8. LimitInv'
    BY <2>1, <2>2, <2>4, <2>7, GoesOn, LimitKept DEF IndInv
  <2>9. QED
    BY <1>1, <2>3, <2>5, <2>6, <2>7, <2>8 DEF IndInv, PkgInv
<1>4. QED
  BY <1>2, <1>3

LEMMA PushCodeInv == ASSUME IndInv, NEW w \in Worker, PushCode(w) PROVE IndInv'
<1> DEFINE m == worker[w].msg
<1>1. /\ m \in Message /\ Pushing(w, m)
      /\ pushes' = [pushes EXCEPT ![m] = @ + 1]
      /\ worker' = [worker EXCEPT ![w] = Idle]
      /\ UNCHANGED <<queue, noted, pkg, pollVars, remote, spent, told, missed>>
  BY DEF PushCode, Now, Pushing, Return, IndInv, WorkInv, Fit, Call, tables
<1>2. /\ worker' \in [Worker -> Fit \cup {Idle}] /\ Adding' \subseteq Adding
      /\ \A v \in Worker : \A n : Pushing(v, n)' => v # w /\ Pushing(v, n)
      /\ \A v \in Worker : \A p : Registering(v, p)' => Registering(v, p)
      /\ \A v \in Worker : \A p : Marking(v, p)' => Marking(v, p)
  BY <1>1, Settles DEF IndInv
<1>3. CodeInv'
  <2>1. m \in noted /\ pushes[m] = 0 /\ \A v \in Worker : Pushing(v, m) => v = w
    BY <1>1 DEF IndInv, CodeInv
  <2>2. \A v \in Worker, n \in Message : Pushing(v, n)' => n # m /\ Pushing(v, n)
    BY <1>2, <2>1
  <2>3. pushes' \in [Message -> Nat] /\ pushes'[m] = 1
        /\ \A n \in Message : n # m => pushes'[n] = pushes[n]
    BY <1>1, <2>1 DEF IndInv, CodeInv
  <2> HIDE DEF m
  <2>4. QED
    BY <1>1, <2>1, <2>2, <2>3 DEF IndInv, CodeInv
<1>4. SpentInv'
  BY <1>1, <1>2, SpentKept DEF IndInv
<1>5. PollInv' /\ Active' = Active
  BY <1>1, PollSame DEF IndInv
<1>6. QED
  BY <1>1, <1>2, <1>3, <1>4, <1>5, LimitKept DEF IndInv, WorkInv, PkgInv

\* The sizes that the limit is about.
LEMMA Sizes ==
  /\ IsFiniteSet(Active) /\ IsFiniteSet(Adding) /\ IsFiniteSet(Active') /\ IsFiniteSet(Adding')
  /\ Cardinality(Active) \in Nat /\ Cardinality(Adding) \in Nat
  /\ Cardinality(Active') \in Nat /\ Cardinality(Adding') \in Nat
  /\ MaxActive \in Nat /\ Cardinality(Worker) \in Nat
  /\ Cardinality(Adding') <= Cardinality(Worker)
<1>1. Active \subseteq Parcel /\ Active' \subseteq Parcel /\ Adding \subseteq Worker /\ Adding' \subseteq Worker
  BY DEF Active, Adding
<1>2. QED
  BY <1>1, Finite, FS_Subset, FS_CardinalityType, ParcelsAssumption DEF ParcelsAssumption

LEMMA AddParcelInv == ASSUME IndInv, NEW w \in Worker, AddParcel(w) PROVE IndInv'
<1> DEFINE p == InHand(w)
           c == [worker[w] EXCEPT !.step = "register"]
<1>1. /\ worker[w] # Idle /\ worker[w].step = "add" /\ Now(w, "add")
      /\ pkg[p] = None /\ pkg' = [pkg EXCEPT ![p] = NewRow]
      /\ UNCHANGED <<noted, queue, pollVars, remote, pushes, spent, told, missed>>
  BY DEF AddParcel, Now, history
<1>2. p \in Parcel /\ NewRow \in Row
  BY <1>1, InHandType, NoneApart DEF IndInv
<1>3. /\ PkgInv' /\ PollInv' /\ Active' = Active
      /\ \A q \in Parcel : pkg[q] # None => pkg'[q] # None
      /\ pkg'[p] # None
  <2> HIDE DEF p
  <2>1. /\ PkgInv' /\ PollInv' /\ Active' = Active
        /\ \A q \in Parcel : pkg[q] # None => pkg'[q] # None
    BY <1>1, <1>2, RowChanges DEF IndInv
  <2>2. pkg'[p] # None
    BY <1>1, <1>2, NoneApart DEF IndInv, PkgInv
  <2>3. QED
    BY <2>1, <2>2
<1>4. CASE NextNumber(w)
  <2>1. PICK d \in Waiting \cup {Idle} : worker' = [worker EXCEPT ![w] = d]
    BY <1>1, <1>4, NextNumberType DEF IndInv
  <2>2. WorkInv' /\ CodeInv' /\ SpentInv' /\ Adding' \subseteq Adding
    BY <1>1, <1>3, <2>1, Settles, CodeKept, SpentKept DEF IndInv, WorkInv
  <2>3. QED
    BY <1>3, <2>2, LimitKept DEF IndInv
<1>5. CASE Cardinality(Active) < MaxActive /\ Goto(w, "register")
  <2>1. worker' = [worker EXCEPT ![w] = c] /\ c \in Fit /\ c.step = "register"
    BY <1>1, <1>5, GotoType, InHandType DEF IndInv, Goto, Fit, Call
  <2>2. c.msg = worker[w].msg /\ c.todo = worker[w].todo
    BY <1>1, InHandType DEF IndInv, Fit, Call
  <2> HIDE DEF c
  <2>3. WorkInv'
    BY <1>1, <2>1, GoesOn DEF IndInv, WorkInv
  <2>4. worker'[w] = c
    BY <2>1, GoesOn DEF IndInv
  <2>5. /\ \A n : ~Pushing(w, n)'
        /\ \A q : ~Marking(w, q)'
        /\ \A q : Registering(w, q)' => q = p
    BY <2>1, <2>2, <2>4 DEF Pushing, Registering, Marking, Now, InHand
  <2>6. CodeInv'
    BY <1>1, <2>1, <2>5, GoesOn, CodeKept DEF IndInv
  <2>7. SpentInv'
    <3>1. spent[p] = 0 /\ \A v \in Worker : ~Registering(v, p)
      BY <1>1, <1>2 DEF IndInv, SpentInv
    <3>2. /\ \A v \in Worker : \A q : v # w => (Registering(v, q)' <=> Registering(v, q))
          /\ \A v \in Worker : \A q : v # w => (Marking(v, q)' <=> Marking(v, q))
      BY <2>1, GoesOn DEF IndInv
    <3> HIDE DEF p
    <3>3. QED
      BY <1>1, <1>3, <2>5, <3>1, <3>2 DEF IndInv, SpentInv
  <2>8. LimitInv'
    BY <1>3, <1>5, Sizes DEF LimitInv
  <2>9. QED
    BY <1>3, <2>3, <2>6, <2>7, <2>8 DEF IndInv
<1>6. QED
  BY <1>4, <1>5, Sizes DEF AddParcel

LEMMA RegisterInv == ASSUME IndInv, NEW w \in Worker, Register(w) PROVE IndInv'
<1> DEFINE p == InHand(w)
           c == [worker[w] EXCEPT !.step = "mark"]
<1>1. /\ worker[w] # Idle /\ worker[w].step = "register" /\ Registering(w, p)
      /\ spent' = [spent EXCEPT ![p] = @ + 1]
      /\ UNCHANGED <<pkg, noted, queue, pollVars, remote, pushes, told, missed>>
  BY DEF Register, Now, Registering, tables
<1>2. p \in Parcel
  BY <1>1, InHandType DEF IndInv
<1>3. worker' = [worker EXCEPT ![w] = c] /\ c \in Fit /\ c.step = "mark"
  BY <1>1, GotoType, InHandType DEF IndInv, Goto, Register, Fit, Call
<1>4. c.msg = worker[w].msg /\ c.todo = worker[w].todo
  BY <1>1, InHandType DEF IndInv, Fit, Call
<1> HIDE DEF c
<1>5. WorkInv' /\ worker'[w] = c
  BY <1>1, <1>3, GoesOn DEF IndInv, WorkInv
<1>6. /\ \A n : ~Pushing(w, n)'
      /\ \A q : ~Registering(w, q)'
      /\ \A q : Marking(w, q)' => q = p
  BY <1>3, <1>4, <1>5 DEF Pushing, Registering, Marking, Now, InHand
<1>7. CodeInv'
  BY <1>1, <1>3, <1>6, GoesOn, CodeKept DEF IndInv
<1>8. SpentInv'
  <2>1. pkg[p] # None /\ spent[p] = 0 /\ \A v \in Worker : Registering(v, p) => v = w
    BY <1>1, <1>2 DEF IndInv, SpentInv
  <2>2. /\ \A v \in Worker : \A q : v # w => (Registering(v, q)' <=> Registering(v, q))
        /\ \A v \in Worker : \A q : v # w => (Marking(v, q)' <=> Marking(v, q))
    BY <1>3, GoesOn DEF IndInv
  <2> HIDE DEF p
  <2>3. spent' \in [Parcel -> Nat] /\ spent'[p] = 1
        /\ \A q \in Parcel : q # p => spent'[q] = spent[q]
    BY <1>1, <1>2, <2>1 DEF IndInv, SpentInv
  <2>4. QED
    BY <1>1, <1>2, <1>6, <2>1, <2>2, <2>3 DEF IndInv, SpentInv
<1>9. PollInv' /\ Active' = Active
  BY <1>1, PollSame DEF IndInv
<1>10. Adding' \subseteq Adding
  BY <1>1, <1>3, GoesOn DEF IndInv, Adding, Now
<1>11. QED
  BY <1>1, <1>5, <1>7, <1>8, <1>9, <1>10, LimitKept DEF IndInv, PkgInv

LEMMA MarkRegisteredInv == ASSUME IndInv, NEW w \in Worker, MarkRegistered(w) PROVE IndInv'
<1> DEFINE p == InHand(w)
           r == [pkg[p] EXCEPT !.registered = TRUE]
<1>1. /\ worker[w] # Idle /\ worker[w].step = "mark" /\ Marking(w, p) /\ w \in Adding
      /\ pkg' = [pkg EXCEPT ![p] = r] /\ NextNumber(w)
      /\ UNCHANGED <<noted, queue, pollVars, remote, pushes, spent, told, missed>>
  BY DEF MarkRegistered, Now, Marking, Adding, history
<1>2. p \in Parcel /\ pkg[p] # None
  BY <1>1, InHandType DEF IndInv, SpentInv
<1>3. r \in Row
  BY <1>2 DEF IndInv, PkgInv, Row
<1>4. /\ PkgInv' /\ PollInv' /\ Active' \subseteq Active \cup {p}
      /\ \A q \in Parcel : pkg[q] # None => pkg'[q] # None
  <2> HIDE DEF p
  <2> QED
    BY <1>1, <1>2, <1>3, RowChanges DEF IndInv
<1>5. PICK d \in Waiting \cup {Idle} : worker' = [worker EXCEPT ![w] = d]
  BY <1>1, NextNumberType DEF IndInv
<1>6. WorkInv' /\ CodeInv' /\ SpentInv' /\ Adding' \subseteq Adding \ {w}
  BY <1>1, <1>4, <1>5, Settles, CodeKept, SpentKept DEF IndInv, WorkInv
<1>7. LimitInv'
  <2>1. Cardinality(Adding \ {w}) = Cardinality(Adding) - 1
    BY <1>1, Sizes, FS_RemoveElement
  <2>2. Cardinality(Adding') <= Cardinality(Adding) - 1
    BY <1>6, <2>1, Sizes, FS_Subset
  <2>3. Cardinality(Active') <= Cardinality(Active) + 1
    <3> HIDE DEF p
    <3>1. /\ IsFiniteSet(Active \cup {p})
          /\ \/ Cardinality(Active \cup {p}) = Cardinality(Active) + 1
             \/ Cardinality(Active \cup {p}) = Cardinality(Active)
      BY Sizes, FS_AddElement
    <3>2. Cardinality(Active') <= Cardinality(Active \cup {p})
      BY <1>4, <3>1, FS_Subset
    <3>3. QED
      BY <3>1, <3>2, Sizes
  <2>4. Worker # {}
    OBVIOUS
  <2>5. QED
    BY <2>2, <2>3, <2>4, Sizes DEF IndInv, LimitInv
<1>8. QED
  BY <1>4, <1>6, <1>7 DEF IndInv

-----------------------------------------------------------------------------
(* The poll. *)

LEMMA PollBeginInv == ASSUME IndInv, PollBegin PROVE IndInv'
<1>1. PICK keep \in [{p[2] : p \in Active} -> Active] :
        asked' = {[parcel |-> keep[n], read |-> pkg[keep[n]].notified] : n \in DOMAIN keep}
  BY DEF PollBegin
<1>2. /\ poll = "idle" /\ poll' = "ask"
      /\ UNCHANGED <<pkg, noted, queue, worker, answers, inHand, remote, pushes, spent,
                     told, missed>>
  BY DEF PollBegin, tables, history
<1>3. \A a \in asked' : /\ a \in [parcel : Parcel, read : Stage \cup {None}]
                        /\ a.parcel \in Active /\ a.read = pkg[a.parcel].notified
  BY <1>1 DEF Active, IndInv, PkgInv, Row
<1>4. \A a, b \in asked' : a.parcel = b.parcel => a = b
  BY <1>1
<1>5. answers = {} /\ inHand = None /\ Active' = Active
  BY <1>2 DEF IndInv, PollInv, AskInv, HandInv, Active
<1>6. AskInv'
  BY <1>2, <1>3, <1>4, <1>5 DEF IndInv, PollInv, AskInv
<1>7. ToldInv' /\ HandInv' /\ MarkedIsTold'
  BY <1>2, <1>5 DEF IndInv, PollInv, ToldInv, HandInv, MarkedIsTold, InThePollsHands
<1>8. WorkInv' /\ CodeInv' /\ SpentInv' /\ Adding' = Adding
  BY <1>2, WorkersSame DEF IndInv
<1>9. QED
  BY <1>2, <1>5, <1>6, <1>7, <1>8, LimitKept DEF IndInv, PkgInv, PollInv

LEMMA PollAskInv == ASSUME IndInv, PollAsk PROVE IndInv'
<1>1. PICK b \in SUBSET asked :
        /\ asked' = asked \ b
        /\ answers' = {[parcel |-> a.parcel, stage |-> remote[a.parcel[2]], read |-> a.read] :
                          a \in {x \in b : remote[x.parcel[2]] # None}}
  BY DEF PollAsk
<1>2. /\ poll = "ask" /\ poll' = (IF answers' = {} THEN "ask" ELSE "store")
      /\ UNCHANGED <<pkg, noted, queue, worker, inHand, remote, pushes, spent, told, missed>>
  BY DEF PollAsk, tables, history
<1>3. inHand = None /\ Active' = Active
  BY <1>2 DEF IndInv, PollInv, HandInv, Active
<1>4. \A y \in answers' : \E a \in b : y.parcel = a.parcel /\ y.read = a.read
                                       /\ y.stage = remote[a.parcel[2]] /\ y.stage # None
  BY <1>1
<1>5. answers' \subseteq Status
  <2>1. \A a \in b : /\ a.parcel \in Account \X Number /\ a.read \in Stage \cup {None}
                     /\ a.parcel[2] \in Number
    BY DEF IndInv, PollInv, AskInv, Parcel
  <2>2. \A a \in b : remote[a.parcel[2]] \in Stage \cup {None}
    BY <2>1 DEF IndInv, PollInv, ToldInv
  <2>3. QED
    BY <1>1, <2>1, <2>2 DEF Status, Parcel
<1>6. \A x, y \in answers' : x.parcel = y.parcel => x = y
  BY <1>1 DEF IndInv, PollInv, AskInv
<1>7. \A a \in asked', y \in answers' : a.parcel # y.parcel
  BY <1>1, <1>4 DEF IndInv, PollInv, AskInv
<1>8. AskInv'
  BY <1>1, <1>2, <1>3, <1>4, <1>5, <1>6, <1>7 DEF IndInv, PollInv, AskInv
<1>9. ToldInv' /\ HandInv' /\ MarkedIsTold'
  BY <1>2, <1>3 DEF IndInv, PollInv, ToldInv, HandInv, MarkedIsTold, InThePollsHands
<1>10. WorkInv' /\ CodeInv' /\ SpentInv' /\ Adding' = Adding
  BY <1>2, WorkersSame DEF IndInv
<1>11. QED
  BY <1>2, <1>3, <1>8, <1>9, <1>10, LimitKept DEF IndInv, PkgInv, PollInv

\* A batch that is left out, and the end of the poll.
LEMMA PollSkipInv == ASSUME IndInv, PollAskFails \/ PollEnd PROVE IndInv'
<1>1. /\ poll = "ask" /\ poll' \in {"ask", "idle"} /\ asked' \subseteq asked
      /\ UNCHANGED <<pkg, noted, queue, worker, answers, inHand, remote, pushes, spent,
                     told, missed>>
  BY DEF PollAskFails, PollEnd, tables, history
<1>2. inHand = None /\ Active' = Active
  BY <1>1 DEF IndInv, PollInv, HandInv, Active
<1>3. AskInv'
  BY <1>1, <1>2 DEF IndInv, PollInv, AskInv
<1>4. ToldInv' /\ HandInv' /\ MarkedIsTold'
  BY <1>1, <1>2 DEF IndInv, PollInv, ToldInv, HandInv, MarkedIsTold, InThePollsHands
<1>5. WorkInv' /\ CodeInv' /\ SpentInv' /\ Adding' = Adding
  BY <1>1, WorkersSame DEF IndInv
<1>6. QED
  BY <1>1, <1>2, <1>3, <1>4, <1>5, LimitKept DEF IndInv, PkgInv, PollInv

LEMMA RowStored ==
  ASSUME NEW x \in Row, NEW s \in Stage, NEW t \in BOOLEAN
  PROVE  LET r == [x EXCEPT !.stage = s, !.terminal = t]
         IN  r \in Row /\ r.stage = s /\ r.notified = x.notified /\ r.registered = x.registered
BY DEF Row

LEMMA PollStoreInv == ASSUME IndInv, PollStore PROVE IndInv'
<1>1. PICK st \in answers :
        /\ pkg' = [pkg EXCEPT ![st.parcel].stage = st.stage,
                              ![st.parcel].terminal = st.stage \in Terminal]
        /\ answers' = answers \ {st}
        /\ \/ /\ st.stage = st.read
              /\ poll' = IF answers' = {} THEN "ask" ELSE "store"
              /\ UNCHANGED inHand
           \/ /\ st.stage # st.read
              /\ poll' = "push"
              /\ inHand' = st
  BY DEF PollStore
<1> DEFINE p == st.parcel
           r == [pkg[p] EXCEPT !.stage = st.stage, !.terminal = st.stage \in Terminal]
<1>2. /\ poll = "store"
      /\ UNCHANGED <<noted, queue, worker, asked, remote, pushes, spent, told, missed>>
  BY DEF PollStore, history
<1>3. /\ st \in Status /\ st # None /\ p \in Active /\ p \in Parcel
      /\ pkg[p] \in Row /\ st.read = pkg[p].notified /\ inHand = None
      /\ \A a \in asked \cup answers' : a.parcel # p
  BY <1>1, <1>2, NoneApart
  DEF IndInv, PkgInv, PollInv, AskInv, HandInv, Active, Status
<1>4. /\ r \in Row /\ r.stage = st.stage /\ r.notified = pkg[p].notified
      /\ r.registered = pkg[p].registered
  <2>1. st.stage \in Stage /\ (st.stage \in Terminal) \in BOOLEAN
    BY <1>3 DEF Status
  <2>2. QED
    BY <1>3, <2>1, RowStored
<1>5. pkg' = [pkg EXCEPT ![p] = r]
  BY <1>1, <1>3 DEF IndInv, PkgInv
<1> HIDE DEF r
<1>6. PkgInv' /\ pkg'[p] = r /\ pkg'[p] # None /\ \A q \in Parcel : q # p => pkg'[q] = pkg[q]
  BY <1>3, <1>4, <1>5, NoneApart DEF IndInv, PkgInv
<1>7. /\ \A q \in Parcel : pkg[q] # None <=> pkg'[q] # None
      /\ Active' \subseteq Active
      /\ \A q \in Active : q # p => q \in Active'
  BY <1>3, <1>6 DEF Active
<1>8. ToldInv'
  BY <1>2, <1>7 DEF IndInv, PollInv, ToldInv
<1>9. AskInv'
  <2>1. \A a \in asked' \cup answers' : a.parcel \in Active' /\ a.read = pkg'[a.parcel].notified
    BY <1>1, <1>2, <1>3, <1>6, <1>7 DEF IndInv, PollInv, AskInv, Active
  <2>2. poll' \in {"idle", "ask"} => answers' = {}
    BY <1>1
  <2>3. QED
    BY <1>1, <1>2, <2>1, <2>2 DEF IndInv, PollInv, AskInv
<1>10. HandInv' /\ MarkedIsTold'
  <2>1. CASE st.stage = st.read
    <3>1. inHand' = None /\ poll' \in {"ask", "store"}
      BY <1>1, <1>3, <2>1
    <3>2. \A q \in Parcel : pkg[q] # None /\ q \notin missed =>
            pkg[q].stage = pkg[q].notified /\ pkg[q].notified = told[q]
      BY <1>3 DEF IndInv, PollInv, MarkedIsTold, InThePollsHands
    <3>3. \A q \in Parcel : pkg'[q] # None /\ q \notin missed =>
            pkg'[q].stage = pkg'[q].notified /\ pkg'[q].notified = told[q]
      BY <1>3, <1>4, <1>6, <1>7, <2>1, <3>2
    <3>4. QED
      BY <1>2, <3>1, <3>3 DEF HandInv, MarkedIsTold
  <2>2. CASE st.stage # st.read
    <3>1. inHand' = st /\ poll' = "push"
      BY <1>1, <2>2
    <3>2. HandInv'
      BY <1>2, <1>3, <1>4, <1>6, <3>1 DEF HandInv
    <3>3. MarkedIsTold'
      BY <1>2, <1>3, <1>6, <1>7, <3>1
      DEF IndInv, PollInv, MarkedIsTold, InThePollsHands
    <3>4. QED
      BY <3>2, <3>3
  <2>3. QED
    BY <2>1, <2>2
<1>11. WorkInv' /\ CodeInv' /\ SpentInv' /\ Adding' = Adding
  BY <1>2, <1>7, WorkersSame DEF IndInv
<1>12. QED
  BY <1>6, <1>7, <1>8, <1>9, <1>10, <1>11, LimitKept DEF IndInv, PollInv

LEMMA PollPushInv == ASSUME IndInv, PollPush PROVE IndInv'
<1> DEFINE p == inHand.parcel
<1>1. PICK ok \in BOOLEAN, lands \in BOOLEAN :
        /\ Push(ok, lands)
        /\ told' = IF lands THEN [told EXCEPT ![p] = inHand.stage] ELSE told
        /\ \/ ok /\ poll' = "mark" /\ UNCHANGED <<inHand, missed>>
           \/ ~ok /\ NextStatus /\ inHand' = None /\ missed' = missed \cup {p}
  BY DEF PollPush
<1>2. /\ poll = "push"
      /\ UNCHANGED <<pkg, noted, queue, worker, asked, answers, remote, pushes, spent>>
  BY DEF PollPush, tables
<1>3. /\ inHand # None /\ inHand \in Status /\ p \in Parcel /\ inHand.stage \in Stage
      /\ pkg[p] # None
  BY <1>2 DEF IndInv, PollInv, HandInv, Status
<1>4. Active' = Active
  BY <1>2 DEF Active
<1>5. ok => lands
  BY <1>1 DEF Push
<1>6. ToldInv' /\ \A q \in Parcel : q # p => told'[q] = told[q]
  BY <1>1, <1>2, <1>3 DEF IndInv, PollInv, ToldInv
<1>7. AskInv'
  BY <1>1, <1>2, <1>4 DEF IndInv, PollInv, AskInv, NextStatus
<1>8. HandInv' /\ MarkedIsTold'
  <2>1. CASE ok
    <3>1. poll' = "mark" /\ inHand' = inHand /\ missed' = missed
      BY <1>1, <2>1
    <3>2. told'[p] = inHand.stage
      BY <1>1, <1>3, <1>5, <2>1 DEF IndInv, PollInv, ToldInv
    <3>3. QED
      BY <1>2, <1>3, <1>6, <3>1, <3>2
      DEF IndInv, PollInv, HandInv, MarkedIsTold, InThePollsHands
  <2>2. CASE ~ok
    <3>1. inHand' = None /\ missed' = missed \cup {p} /\ poll' \in {"ask", "store"}
      BY <1>1, <2>2 DEF NextStatus
    <3>2. QED
      BY <1>2, <1>6, <3>1 DEF IndInv, PollInv, HandInv, MarkedIsTold, InThePollsHands
  <2>3. QED
    BY <2>1, <2>2
<1>9. WorkInv' /\ CodeInv' /\ SpentInv' /\ Adding' = Adding
  BY <1>2, WorkersSame DEF IndInv
<1>10. QED
  BY <1>2, <1>4, <1>6, <1>7, <1>8, <1>9, LimitKept DEF IndInv, PkgInv, PollInv

LEMMA PollMarkInv == ASSUME IndInv, PollMark PROVE IndInv'
<1> DEFINE p == inHand.parcel
           r == [pkg[p] EXCEPT !.notified = inHand.stage]
<1>1. /\ poll = "mark" /\ poll' = (IF answers = {} THEN "ask" ELSE "store")
      /\ pkg' = [pkg EXCEPT ![p] = r]
      /\ inHand' = None /\ missed' = missed \ {p}
      /\ UNCHANGED <<noted, queue, worker, asked, answers, remote, pushes, spent, told>>
  BY DEF PollMark, NextStatus
<1>2. /\ inHand # None /\ p \in Parcel /\ inHand.stage \in Stage
      /\ pkg[p] # None /\ pkg[p] \in Row
      /\ pkg[p].stage = inHand.stage /\ told[p] = inHand.stage
      /\ \A a \in asked \cup answers : a.parcel # p
  BY <1>1 DEF IndInv, PkgInv, PollInv, HandInv, Status
<1>3. /\ r \in Row /\ r.stage = inHand.stage /\ r.notified = inHand.stage
      /\ r.registered = pkg[p].registered /\ r.terminal = pkg[p].terminal
  BY <1>2 DEF Row
<1> HIDE DEF r
<1>4. PkgInv' /\ pkg'[p] = r /\ pkg'[p] # None /\ \A q \in Parcel : q # p => pkg'[q] = pkg[q]
  BY <1>1, <1>2, <1>3, NoneApart DEF IndInv, PkgInv
<1> HIDE DEF p
<1>5. Active' = Active /\ \A q \in Parcel : pkg[q] # None <=> pkg'[q] # None
  BY <1>2, <1>3, <1>4 DEF Active
<1>6. ToldInv'
  BY <1>1, <1>5 DEF IndInv, PollInv, ToldInv
<1>7. AskInv'
  <2>1. \A a \in asked \cup answers : a.parcel \in Active' /\ a.read = pkg'[a.parcel].notified
    BY <1>2, <1>4, <1>5 DEF IndInv, PollInv, AskInv, Active
  <2>2. QED
    BY <1>1, <2>1 DEF IndInv, PollInv, AskInv
<1>8. HandInv'
  BY <1>1 DEF HandInv
<1>9. MarkedIsTold'
  <2> SUFFICES ASSUME NEW q \in Parcel, pkg'[q] # None, q \notin missed'
               PROVE  pkg'[q].stage = pkg'[q].notified /\ pkg'[q].notified = told'[q]
    BY DEF MarkedIsTold
  <2>1. CASE q = p
    BY <1>1, <1>2, <1>3, <1>4, <2>1
  <2>2. CASE q # p
    BY <1>1, <1>4, <2>2 DEF p, IndInv, PollInv, MarkedIsTold, InThePollsHands
  <2>3. QED
    BY <2>1, <2>2
<1>10. WorkInv' /\ CodeInv' /\ SpentInv' /\ Adding' = Adding
  BY <1>1, <1>5, WorkersSame DEF IndInv
<1>11. QED
  BY <1>4, <1>5, <1>6, <1>7, <1>8, <1>9, <1>10, LimitKept DEF IndInv, PollInv

\* The poll gone, and with it the status in hand, which counts as missed.
LEMMA PollGone ==
  ASSUME PollInv, poll' = "idle", asked' = {}, answers' = {}, inHand' = None,
         missed' = missed \cup Dropped, UNCHANGED <<pkg, remote, told>>
  PROVE  PollInv' /\ Active' = Active
<1>1. Active' = Active
  BY DEF Active
<1>2. ToldInv' /\ AskInv' /\ HandInv'
  BY DEF PollInv, ToldInv, AskInv, HandInv
<1>3. MarkedIsTold'
  BY DEF PollInv, MarkedIsTold, InThePollsHands, Dropped
<1>4. QED
  BY <1>1, <1>2, <1>3 DEF PollInv

LEMMA PollRaisesInv == ASSUME IndInv, PollRaises PROVE IndInv'
<1>1. /\ poll' = "idle" /\ asked' = {} /\ answers' = {} /\ inHand' = None
      /\ missed' = missed \cup Dropped
      /\ UNCHANGED <<pkg, noted, queue, worker, remote, pushes, spent, told>>
  BY DEF PollRaises, tables
<1>2. PollInv' /\ Active' = Active
  BY <1>1, PollGone DEF IndInv
<1>3. WorkInv' /\ CodeInv' /\ SpentInv' /\ Adding' = Adding
  BY <1>1, WorkersSame DEF IndInv
<1>4. QED
  BY <1>1, <1>2, <1>3, LimitKept DEF IndInv, PkgInv

-----------------------------------------------------------------------------
(* The world, and the registry. *)

LEMMA CallsForType == ASSUME NEW m \in Message PROVE CallsFor(m) \in Seq(Waiting)
<1> DEFINE code == [step |-> "code", msg |-> m, todo |-> <<>>]
           add == [step |-> "add", msg |-> m, todo |-> NumbersOf[m]]
<1>1. NumbersOf[m] \in Seq(Number) /\ <<>> \in Seq(Number)
  BY ParcelsAssumption DEF ParcelsAssumption
<1>2. m \in Coded => code \in Waiting
  BY <1>1 DEF Waiting, Fit, Call
<1>3. NumbersOf[m] # <<>> => add \in Waiting
  BY <1>1 DEF Waiting, Fit, Call
<1> DEFINE first == IF m \in Coded THEN <<code>> ELSE <<>>
           second == IF NumbersOf[m] # <<>> THEN <<add>> ELSE <<>>
<1>4. first \in Seq(Waiting)
  <2> HIDE DEF code
  <2> QED
    BY <1>2
<1>5. second \in Seq(Waiting)
  <2> HIDE DEF add
  <2> QED
    BY <1>3
<1>6. CallsFor(m) = first \o second
  BY DEF CallsFor
<1> HIDE DEF first, second
<1>7. QED
  BY <1>4, <1>5, <1>6

LEMMA WorldInv ==
  ASSUME IndInv,
         \/ OwnerTurn
         \/ \E m \in Message : DispatchInbound(m)
         \/ \E n \in Number, st \in Stage : ParcelMoves(n, st)
  PROVE  IndInv'
<1>1. UNCHANGED <<pkg, noted, worker, pollVars, pushes, spent, told, missed>>
  BY DEF OwnerTurn, DispatchInbound, ParcelMoves, tables, history
<1>2. queue' \in Seq(Waiting)
  <2>1. CASE queue' = queue
    BY <2>1 DEF IndInv, WorkInv
  <2>2. CASE \E m \in Message : DispatchInbound(m)
    BY <2>2, CallsForType DEF DispatchInbound, IndInv, WorkInv
  <2>3. QED
    BY <2>1, <2>2 DEF OwnerTurn, ParcelMoves
<1>3. remote' \in [Number -> Stage \cup {None}]
  BY DEF OwnerTurn, DispatchInbound, ParcelMoves, IndInv, PollInv, ToldInv
<1>4. Active' = Active /\ Adding' = Adding
  BY <1>1 DEF Active, Adding, Now
<1>5. PollInv'
  BY <1>1, <1>3, <1>4
  DEF IndInv, PollInv, ToldInv, AskInv, HandInv, MarkedIsTold, InThePollsHands, pollVars
<1>6. CodeInv' /\ SpentInv'
  BY <1>1 DEF IndInv, CodeInv, SpentInv, Pushing, Registering, Marking, Now, InHand
<1>7. QED
  BY <1>1, <1>2, <1>4, <1>5, <1>6, LimitKept DEF IndInv, PkgInv, WorkInv

LEMMA CrashInv == ASSUME IndInv, Crash PROVE IndInv'
<1>1. /\ poll' = "idle" /\ asked' = {} /\ answers' = {} /\ inHand' = None
      /\ missed' = missed \cup Dropped
      /\ queue' = <<>> /\ worker' = [w \in Worker |-> Idle]
      /\ UNCHANGED <<pkg, noted, remote, pushes, spent, told>>
  BY DEF Crash, tables
<1>2. PollInv' /\ Active' = Active
  BY <1>1, PollGone DEF IndInv
<1>3. WorkInv'
  BY <1>1 DEF WorkInv
<1>4. \A w \in Worker : \A s : ~Now(w, s)'
  BY <1>1 DEF Now
<1>5. CodeInv' /\ SpentInv'
  BY <1>1, <1>4, CodeKept, SpentKept DEF IndInv, Pushing, Registering, Marking
<1>6. Adding' = {}
  BY <1>4 DEF Adding
<1>7. QED
  BY <1>1, <1>2, <1>3, <1>5, <1>6, LimitKept DEF IndInv, PkgInv

-----------------------------------------------------------------------------
(* The invariant, and what follows from it. *)

LEMMA InitInv == Init => IndInv
<1> SUFFICES ASSUME Init PROVE IndInv
  OBVIOUS
<1>1. PkgInv /\ WorkInv
  BY DEF Init, PkgInv, WorkInv
<1>2. \A w \in Worker : \A s : ~Now(w, s)
  BY DEF Init, Now
<1>3. CodeInv /\ SpentInv
  BY <1>2 DEF Init, CodeInv, SpentInv, Pushing, Registering, Marking
<1>4. PollInv
  BY DEF Init, PollInv, ToldInv, AskInv, HandInv, MarkedIsTold
<1>5. Active = {} /\ Adding = {}
  BY <1>2 DEF Init, Active, Adding
<1>6. LimitInv
  <2>1. Worker # {} => Cardinality(Worker) # 0
    BY Finite, FS_EmptySet
  <2>2. Cardinality(Active) = 0 /\ Cardinality(Adding) = 0
    BY <1>5, FS_EmptySet
  <2>3. QED
    BY <1>5, <2>1, <2>2, Sizes DEF LimitInv
<1>7. QED
  BY <1>1, <1>3, <1>4, <1>6 DEF IndInv

LEMMA StutterInv == ASSUME IndInv, UNCHANGED vars PROVE IndInv'
<1>1. UNCHANGED <<pkg, noted, queue, worker, pollVars, remote, pushes, spent, told, missed>>
  BY DEF vars, tables, history
<1>2. PollInv' /\ Active' = Active
  BY <1>1, PollSame DEF IndInv
<1>3. WorkInv' /\ CodeInv' /\ SpentInv' /\ Adding' = Adding
  BY <1>1, WorkersSame DEF IndInv
<1>4. QED
  BY <1>1, <1>2, <1>3, LimitKept DEF IndInv, PkgInv

LEMMA StepInv == IndInv /\ [Next]_vars => IndInv'
<1> SUFFICES ASSUME IndInv, [Next]_vars PROVE IndInv'
  OBVIOUS
<1>1. CASE \/ OwnerTurn
           \/ \E m \in Message : DispatchInbound(m)
           \/ \E n \in Number, st \in Stage : ParcelMoves(n, st)
  BY <1>1, WorldInv
<1>2. CASE \E w \in Worker : WorkerStep(w)
  <2>1. PICK w \in Worker : WorkerStep(w)
    BY <1>2
  <2>2. QED
    BY <2>1, TakeInv, CallRaisesInv, NextInv, NoteOnceInv, PushCodeInv, AddParcelInv,
       RegisterInv, MarkRegisteredInv DEF WorkerStep
<1>3. CASE PollStep
  BY <1>3, PollBeginInv, PollAskInv, PollSkipInv, PollStoreInv, PollPushInv, PollMarkInv,
     PollRaisesInv DEF PollStep
<1>4. CASE Crash
  BY <1>4, CrashInv
<1>5. CASE UNCHANGED vars
  BY <1>5, StutterInv
<1>6. QED
  BY <1>1, <1>2, <1>3, <1>4, <1>5 DEF Next

LEMMA Inductive == Spec => []IndInv
BY InitInv, StepInv, PTL DEF Spec

\* For any number of workers, repeats of a message and restarts: note_once lets
\* each login code be pushed once at most, and add_tracked_package lets each
\* parcel cost one registration at most.
THEOREM PushedOnce == Spec => []OnceOnly
<1>1. IndInv => OnceOnly
  BY DEF IndInv, CodeInv, SpentInv, OnceOnly
<1>2. QED
  BY <1>1, Inductive, PTL

\* For any batch size, any number of parcels and any faults: last_notified_stage
\* says what the owner was last told, except for a parcel whose push is under
\* way or was lost.
THEOREM MarkersAreTrue == Spec => []MarkedIsTold
<1>1. IndInv => MarkedIsTold
  BY DEF IndInv, PollInv
<1>2. QED
  BY <1>1, Inductive, PTL

\* max_active is passed by fewer parcels than there are workers, whatever the
\* limit and however many workers check it at the same time.
THEOREM LimitHolds == Spec => []LimitOverrunBounded
<1>1. IndInv => LimitOverrunBounded
  BY Sizes DEF IndInv, LimitInv, LimitOverrunBounded
<1>2. QED
  BY <1>1, Inductive, PTL

\* The parts of TypeOK that the invariant does not need.
Plain ==
  /\ noted \subseteq Coded
  /\ poll \in {"idle", "ask", "store", "push", "mark"}
  /\ captured \in BOOLEAN
  /\ drains \in 0 .. MaxDrains
  /\ faults \in 0 .. MaxFaults
  /\ missed \subseteq Parcel

LEMMA BoundsAreNat == MaxFaults \in Nat /\ MaxDrains \in Nat
BY ParcelsAssumption DEF ParcelsAssumption

LEMMA FaultBound ==
  ASSUME faults \in 0 .. MaxFaults,
         UNCHANGED faults \/ \E kind : Fault(kind)
  PROVE  faults' \in 0 .. MaxFaults
BY BoundsAreNat DEF Fault

LEMMA StepPlain == IndInv /\ Plain /\ [Next]_vars => Plain'
<1> SUFFICES ASSUME IndInv, Plain, [Next]_vars PROVE Plain'
  OBVIOUS
<1>1. faults' \in 0 .. MaxFaults
  <2>1. UNCHANGED faults \/ \E kind : Fault(kind)
    BY DEF Next, WorkerStep, PollStep, OwnerTurn, DispatchInbound, ParcelMoves, Crash, Take,
           CallRaises, NoteOnce, PushCode, SeenBefore, AddParcel, RegisterFails, Register,
           MarkRegistered, PollBegin, PollAsk, PollAskFails, PollEnd, PollStore, PollPush,
           PollMark, PollRaises, Push, vars
  <2>2. QED
    BY <2>1, FaultBound DEF Plain
<1>2. drains' \in 0 .. MaxDrains
  <2>1. drains' = drains \/ (drains < MaxDrains /\ drains' = drains + 1)
    BY DEF Next, WorkerStep, PollStep, OwnerTurn, DispatchInbound, ParcelMoves, Crash, Take,
           CallRaises, NoteOnce, PushCode, SeenBefore, AddParcel, RegisterFails, Register,
           MarkRegistered, PollBegin, PollAsk, PollAskFails, PollEnd, PollStore, PollPush,
           PollMark, PollRaises, vars
  <2>2. QED
    BY <2>1, BoundsAreNat DEF Plain
<1>3. captured' \in BOOLEAN
  BY DEF Plain, Next, WorkerStep, PollStep, OwnerTurn, DispatchInbound,
      ParcelMoves, Crash, Take, CallRaises, NoteOnce, PushCode, SeenBefore, AddParcel,
      RegisterFails, Register, MarkRegistered, PollBegin, PollAsk, PollAskFails, PollEnd,
      PollStore, PollPush, PollMark, PollRaises, vars
<1>4. noted' \subseteq Coded
  <2>1. CASE \E w \in Worker : NoteOnce(w)
    BY <2>1 DEF NoteOnce, Now, IndInv, WorkInv, Fit, Plain
  <2>2. CASE UNCHANGED noted
    BY <2>2 DEF Plain
  <2>3. QED
    BY <2>1, <2>2 DEF Next, WorkerStep, PollStep, OwnerTurn, DispatchInbound,
      ParcelMoves, Crash, Take, CallRaises, PushCode, SeenBefore, AddParcel,
      RegisterFails, Register, MarkRegistered, PollBegin, PollAsk, PollAskFails, PollEnd,
      PollStore, PollPush, PollMark, PollRaises, vars, tables
<1>5. poll' \in {"idle", "ask", "store", "push", "mark"} /\ missed' \subseteq Parcel
  <2>1. inHand # None => inHand.parcel \in Parcel
    BY DEF IndInv, PollInv, HandInv, Status
  <2>2. CASE UNCHANGED <<poll, missed>>
    BY <2>2 DEF Plain
  <2>3. CASE PollStep
    BY <2>1, <2>3 DEF Plain, PollStep, PollBegin, PollAsk, PollAskFails, PollEnd, PollStore,
       PollPush, PollMark, PollRaises, NextStatus, Dropped, history, IndInv, PollInv, HandInv
  <2>4. CASE Crash
    BY <2>1, <2>4 DEF Plain, Crash, Dropped
  <2>5. QED
    BY <2>2, <2>3, <2>4 DEF Next, WorkerStep, OwnerTurn, DispatchInbound,
      ParcelMoves, Take, CallRaises, NoteOnce, PushCode, SeenBefore, AddParcel,
      RegisterFails, Register, MarkRegistered, vars, history, pollVars
<1>6. QED
  BY <1>1, <1>2, <1>3, <1>4, <1>5 DEF Plain

\* The tables, the pool's calls and the poll hold what their types say, for
\* every value of the constants.
THEOREM TypeCorrect == Spec => []TypeOK
<1>1. Init => Plain
  <2> SUFFICES ASSUME Init PROVE Plain
    OBVIOUS
  <2>1. drains \in 0 .. MaxDrains /\ faults \in 0 .. MaxFaults
    BY BoundsAreNat DEF Init
  <2>2. QED
    BY <2>1 DEF Init, Plain
<1>2. Spec => []Plain
  BY <1>1, StepPlain, Inductive, PTL DEF Spec
<1>3. IndInv /\ Plain => TypeOK
  <2> SUFFICES ASSUME IndInv, Plain PROVE TypeOK
    OBVIOUS
  <2>1. queue \in Seq(Call)
    <3>1. Waiting \subseteq Call
      BY DEF Waiting, Fit
    <3>2. QED
      BY <3>1 DEF IndInv, WorkInv
  <2>2. worker \in [Worker -> Call \cup {Idle}]
    BY DEF IndInv, WorkInv, Fit
  <2>3. QED
    BY <2>1, <2>2
    DEF IndInv, PkgInv, CodeInv, SpentInv, PollInv, ToldInv, AskInv, HandInv, Plain, TypeOK
<1>4. QED
  BY <1>2, <1>3, Inductive, PTL

=============================================================================
