----------------------- MODULE SchemaMigrationProofs -----------------------
(***************************************************************************)
(* Proofs about SchemaMigration for every set of processes, every number   *)
(* of threads in each, and every number of failures and crashes.           *)
(***************************************************************************)
EXTENDS SchemaMigration, TLAPS

\* Where a thread may be.
Place ==
  {Out} \cup [step : {"create"}, at : 1..3] \cup [step : {"version", "stamp", "cache"}]
    \cup [step : {"look"}, at : {1, 5}]
    \cup [step : {"add"}, at : 1..6, existing : SUBSET Column]

\* What a thread at p takes to be there is among ts and cs.
Sound(p, ts, cs) == Reached(p) \subseteq ts /\ Passed(p) \subseteq cs

\* The file only grows.
Grows == tables \subseteq tables' /\ columns \subseteq columns'

LEMMA Typed == ASSUME TypeOK PROVE thread \in [Thread -> Place]
BY DEF TypeOK, Place

LEMMA ColumnsSplit ==
  /\ ColumnsOf("draft_requests") = {ColumnOrder[i] : i \in 1..4}
  /\ \A table : ColumnsOf(table) \subseteq Column
BY DEF ColumnsOf, Column

LEMMA TablesKnown ==
  /\ Table = {"draft_requests", "sender_profiles", "the newer tables"}
  /\ \A i \in 1..3 : TableOrder[i] \in Table
<1>1. 1..3 = {1, 2, 3}
  OBVIOUS
<1>2. Table = {TableOrder[1], TableOrder[2], TableOrder[3]}
  BY <1>1 DEF Table
<1>3. QED
  BY <1>1, <1>2 DEF TableOrder

\* Nobody's knowledge is lost when one thread moves on and the file grows.
LEMMA OneMoves ==
  ASSUME Progress, TypeOK, NEW t \in Thread, NEW p \in Place, Go(t, p), Grows, Sound(p, tables', columns')
  PROVE  Progress' /\ thread' \in [Thread -> Place]
<1>1. thread' = [thread EXCEPT ![t] = p] /\ thread \in [Thread -> Place]
  BY Typed DEF Go
<1>2. ASSUME NEW u \in Thread
      PROVE  Reached(thread'[u]) \subseteq tables' /\ Passed(thread'[u]) \subseteq columns'
  <2>1. CASE u = t
    BY <1>1, <2>1 DEF Sound
  <2>2. CASE u # t
    BY <1>1, <2>2 DEF Progress, Grows
  <2>3. QED
    BY <2>1, <2>2
<1>3. QED
  BY <1>1, <1>2 DEF Progress

\* Neither version nor what is ready changes for the worse.
LEMMA StaysTrue ==
  ASSUME IInv, Grows, tables' \subseteq Table, columns' \subseteq Column,
         version' = version, initialized' \subseteq initialized
  PROVE  VersionIsTrue' /\ ReadyIsComplete'
BY DEF IInv, Grows, VersionIsTrue, ReadyIsComplete

-----------------------------------------------------------------------------
LEMMA InitInv == Init => IInv
<1> SUFFICES ASSUME Init PROVE IInv
  OBVIOUS
<1>1. TypeOK
  <2>1. tables \subseteq Table /\ columns \subseteq Column
    BY ColumnsSplit, TablesKnown DEF Init
  <2>2. QED
    BY <2>1, SchemaAssumption DEF Init, TypeOK, SchemaAssumption
<1>2. Progress
  BY DEF Init, Progress, Reached, Passed, Out
<1>3. VersionIsTrue
  BY ColumnsSplit DEF Init, VersionIsTrue
<1>4. ReadyIsComplete
  BY DEF Init, ReadyIsComplete
<1>5. QED
  BY <1>1, <1>2, <1>3, <1>4 DEF IInv

-----------------------------------------------------------------------------
LEMMA ConnectInv == ASSUME IInv, NEW t \in Thread, Connect(t) PROVE IInv'
<1> DEFINE p == [step |-> "create", at |-> 1]
<1>1. p \in Place /\ Go(t, p) /\ Grows /\ UNCHANGED <<tables, columns, version, initialized, faults>>
  BY DEF Connect, Place, Grows
<1>2. Reached(p) = {} /\ Passed(p) = {}
  BY DEF Reached, Passed
<1>3. Progress' /\ thread' \in [Thread -> Place]
  BY <1>1, <1>2, OneMoves DEF IInv, Sound
<1>4. VersionIsTrue' /\ ReadyIsComplete'
  BY <1>1, StaysTrue DEF IInv, TypeOK
<1>5. QED
  BY <1>1, <1>3, <1>4 DEF IInv, TypeOK, Place

LEMMA CreateTableInv == ASSUME IInv, NEW t \in Thread, CreateTable(t) PROVE IInv'
<1> DEFINE n == thread[t].at
           p == IF n < 3 THEN [thread[t] EXCEPT !.at = @ + 1] ELSE [step |-> "version"]
<1>1. /\ Go(t, p) /\ UNCHANGED <<version, initialized, faults>>
      /\ tables' = tables \cup {TableOrder[n]}
      /\ columns' = columns \/ columns' = columns \cup ColumnsOf(TableOrder[n])
  BY DEF CreateTable
<1>2. thread[t] \in [step : {"create"}, at : 1..3]
  BY Typed DEF CreateTable, IInv, Place, Out
<1>3. Grows /\ tables' \subseteq Table /\ columns' \subseteq Column
  BY <1>1, <1>2, TablesKnown, ColumnsSplit DEF Grows, IInv, TypeOK
<1>4. {TableOrder[i] : i \in 1..n} \subseteq tables'
  BY <1>1, <1>2 DEF IInv, Progress, Reached
<1>5. p \in Place /\ Sound(p, tables', columns')
  <2>1. CASE n < 3
    <3>1. p = [step |-> "create", at |-> n + 1] /\ n + 1 \in 1..3
      BY <1>2, <2>1
    <3>2. Passed(p) = {} /\ Reached(p) = {TableOrder[i] : i \in 1..(n + 1)} \ {TableOrder[n + 1]}
      BY <3>1 DEF Passed, Reached
    <3>3. QED
      BY <1>2, <1>4, <3>1, <3>2 DEF Place, Sound
  <2>2. CASE ~(n < 3)
    <3>1. p = [step |-> "version"] /\ n = 3
      BY <1>2, <2>2
    <3>2. Passed(p) = {} /\ Reached(p) = Table
      BY <3>1 DEF Passed, Reached
    <3>3. QED
      BY <1>4, <3>1, <3>2 DEF Place, Sound, Table
  <2>3. QED
    BY <2>1, <2>2
<1>6. Progress' /\ thread' \in [Thread -> Place]
  <2> HIDE DEF p
  <2> QED
    BY <1>1, <1>3, <1>5, OneMoves DEF IInv
<1>7. VersionIsTrue' /\ ReadyIsComplete'
  BY <1>1, <1>3, StaysTrue
<1>8. QED
  BY <1>1, <1>3, <1>6, <1>7 DEF IInv, TypeOK, Place

LEMMA ReadVersionInv == ASSUME IInv, NEW t \in Thread, ReadVersion(t) PROVE IInv'
<1> DEFINE p == IF version >= 3 THEN [step |-> "cache"]
                ELSE [step |-> "look", at |-> IF version < 2 THEN 1 ELSE 5]
<1>1. Go(t, p) /\ Grows /\ UNCHANGED <<tables, columns, version, initialized, faults>>
  BY DEF ReadVersion, Grows
<1>2. version \in 0..3 /\ Table \subseteq tables
  BY DEF ReadVersion, IInv, TypeOK, Progress, Reached
<1>3. p \in Place /\ Sound(p, tables', columns')
  <2>1. CASE version >= 3
    <3>1. p = [step |-> "cache"]
      BY <2>1
    <3>2. Reached(p) = Table /\ Passed(p) = Column
      BY <3>1 DEF Reached, Passed
    <3>3. QED
      BY <1>1, <1>2, <2>1, <3>1, <3>2 DEF Place, Sound, IInv, VersionIsTrue
  <2>2. CASE version = 2
    <3>1. p = [step |-> "look", at |-> 5]
      BY <2>2
    <3>2. Reached(p) = Table /\ Passed(p) = {ColumnOrder[i] : i \in {n \in 1..6 : n < 5}}
      BY <3>1 DEF Reached, Passed
    <3>3. Passed(p) \subseteq columns
      BY <2>2, <3>2, ColumnsSplit DEF IInv, VersionIsTrue
    <3>4. QED
      BY <1>1, <1>2, <3>1, <3>2, <3>3 DEF Place, Sound
  <2>3. CASE version < 2
    <3>1. p = [step |-> "look", at |-> 1]
      BY <1>2, <2>3
    <3>2. Reached(p) = Table /\ Passed(p) = {}
      BY <3>1 DEF Reached, Passed
    <3>3. QED
      BY <1>1, <1>2, <3>1, <3>2 DEF Place, Sound
  <2>4. QED
    BY <1>2, <2>1, <2>2, <2>3
<1>4. Progress' /\ thread' \in [Thread -> Place]
  <2> HIDE DEF p
  <2> QED
    BY <1>1, <1>3, OneMoves DEF IInv
<1>5. VersionIsTrue' /\ ReadyIsComplete'
  BY <1>1, StaysTrue DEF IInv, TypeOK
<1>6. QED
  BY <1>1, <1>4, <1>5 DEF IInv, TypeOK, Place

LEMMA LookInv == ASSUME IInv, NEW t \in Thread, Look(t) PROVE IInv'
<1> DEFINE n == thread[t].at
           p == [step |-> "add", at |-> n, existing |-> columns \cap ColumnsOf(TableOf(n))]
<1>1. Go(t, p) /\ Grows /\ UNCHANGED <<tables, columns, version, initialized, faults>>
  BY DEF Look, Grows
<1>2. thread[t] \in [step : {"look"}, at : {1, 5}]
  BY Typed DEF Look, IInv, Place, Out
<1>3. n \in 1..6 /\ columns \cap ColumnsOf(TableOf(n)) \in SUBSET Column
  BY <1>2, ColumnsSplit
<1>4. p \in [step : {"add"}, at : 1..6, existing : SUBSET Column]
  <2> HIDE DEF n
  <2> QED
    BY <1>3
<1>5. Reached(p) \subseteq tables
  BY <1>2 DEF Reached, IInv, Progress
<1>6. Passed(p) \subseteq columns
  <2>1. Passed(p) = {ColumnOrder[i] : i \in {k \in 1..6 : k < n}}
                      \cup (columns \cap ColumnsOf(TableOf(n)))
    BY DEF Passed
  <2>2. Passed(thread[t]) = {ColumnOrder[i] : i \in {k \in 1..6 : k < n}}
    BY <1>2 DEF Passed
  <2>3. QED
    BY <2>1, <2>2 DEF IInv, Progress
<1>7. Progress' /\ thread' \in [Thread -> Place]
  <2>1. p \in Place /\ Sound(p, tables', columns')
    BY <1>1, <1>4, <1>5, <1>6 DEF Place, Sound
  <2> HIDE DEF p
  <2> QED
    BY <1>1, <2>1, OneMoves DEF IInv
<1>8. VersionIsTrue' /\ ReadyIsComplete'
  BY <1>1, StaysTrue DEF IInv, TypeOK
<1>9. QED
  BY <1>1, <1>7, <1>8 DEF IInv, TypeOK, Place

\* A thread that goes out of connect takes nothing for granted.
LEMMA OutInv ==
  ASSUME IInv, NEW t \in Thread, Go(t, Out), UNCHANGED <<tables, columns, version>>,
         initialized' = initialized \/ (tables = Table /\ columns = Column),
         initialized' \subseteq Process, faults' \in Nat
  PROVE  IInv'
<1>1. Out \in Place /\ Grows /\ Reached(Out) = {} /\ Passed(Out) = {}
  BY DEF Place, Grows, Reached, Passed, Out
<1>2. Progress' /\ thread' \in [Thread -> Place]
  BY <1>1, OneMoves DEF IInv, Sound
<1>3. VersionIsTrue' /\ ReadyIsComplete'
  BY DEF IInv, VersionIsTrue, ReadyIsComplete
<1>4. QED
  BY <1>2, <1>3 DEF IInv, TypeOK, Place

LEMMA AddColumnInv == ASSUME IInv, NEW t \in Thread, AddColumn(t) PROVE IInv'
<1> DEFINE n == thread[t].at
           c == ColumnOrder[n]
           p == After(thread[t])
<1>1. thread[t] \in [step : {"add"}, at : 1..6, existing : SUBSET Column]
  BY Typed DEF AddColumn, IInv, Place, Out
<1>2. CASE c \notin thread[t].existing /\ c \in columns
  BY <1>2, OutInv DEF AddColumn, IInv, TypeOK
<1>3. CASE ~(c \notin thread[t].existing /\ c \in columns)
  <2>1. /\ Go(t, p) /\ columns' = columns \cup {c} /\ Grows
        /\ UNCHANGED <<tables, version, initialized, faults>>
    BY <1>3 DEF AddColumn, Grows
  <2>2. c \in Column
    BY <1>1 DEF Column
  <2>3. Table \subseteq tables
    BY <1>1 DEF IInv, Progress, Reached
  <2>4. /\ {ColumnOrder[i] : i \in {k \in 1..6 : k < n + 1}} \subseteq columns'
        /\ thread[t].existing \subseteq columns'
    <3>1. Passed(thread[t]) = {ColumnOrder[i] : i \in {k \in 1..6 : k < n}}
                                \cup thread[t].existing
      BY <1>1 DEF Passed
    <3>2. QED
      BY <1>1, <2>1, <3>1 DEF IInv, Progress
  <2>5. p \in Place /\ Sound(p, tables', columns')
    <3>1. CASE n = 4
      <4>1. p = [step |-> "look", at |-> 5]
        BY <3>1 DEF After
      <4>2. Reached(p) = Table /\ Passed(p) = {ColumnOrder[i] : i \in {k \in 1..6 : k < 5}}
        BY <4>1 DEF Reached, Passed
      <4>3. QED
        BY <2>1, <2>3, <2>4, <3>1, <4>1, <4>2 DEF Place, Sound
    <3>2. CASE n = 6
      <4>1. p = [step |-> "stamp"]
        BY <3>2 DEF After
      <4>2. Reached(p) = Table /\ Passed(p) = Column
        BY <4>1 DEF Reached, Passed
      <4>3. Column \subseteq columns'
        BY <2>4, <3>2 DEF Column
      <4>4. QED
        BY <2>1, <2>3, <4>1, <4>2, <4>3 DEF Place, Sound
    <3>3. CASE n \notin {4, 6}
      <4>1. /\ p = [step |-> "add", at |-> n + 1, existing |-> thread[t].existing]
            /\ n + 1 \in 1..6
        BY <1>1, <3>3 DEF After
      <4>2. /\ Reached(p) = Table
            /\ Passed(p) = {ColumnOrder[i] : i \in {k \in 1..6 : k < n + 1}}
                              \cup thread[t].existing
        BY <4>1 DEF Reached, Passed
      <4>3. p \in Place
        BY <1>1, <4>1 DEF Place
      <4>4. QED
        BY <2>1, <2>3, <2>4, <4>2, <4>3 DEF Sound
    <3>4. QED
      BY <3>1, <3>2, <3>3
  <2>6. Progress' /\ thread' \in [Thread -> Place]
    <3> HIDE DEF p
    <3> QED
      BY <2>1, <2>5, OneMoves DEF IInv
  <2>7. columns' \subseteq Column
    BY <2>1, <2>2 DEF IInv, TypeOK
  <2>8. VersionIsTrue' /\ ReadyIsComplete'
    BY <2>1, <2>7, StaysTrue DEF IInv, TypeOK
  <2>9. QED
    BY <2>1, <2>6, <2>7, <2>8 DEF IInv, TypeOK, Place
<1>4. QED
  BY <1>2, <1>3

LEMMA StampInv == ASSUME IInv, NEW t \in Thread, Stamp(t) PROVE IInv'
<1> DEFINE p == [step |-> "cache"]
<1>1. /\ Go(t, p) /\ Grows /\ version' = 3
      /\ UNCHANGED <<tables, columns, initialized, faults>>
  BY DEF Stamp, Grows
<1>2. tables = Table /\ columns = Column
  BY DEF Stamp, IInv, TypeOK, Progress, Reached, Passed
<1>3. p \in Place /\ Reached(p) = Table /\ Passed(p) = Column
  BY DEF Place, Reached, Passed
<1>4. Progress' /\ thread' \in [Thread -> Place]
  BY <1>1, <1>2, <1>3, OneMoves DEF IInv, Sound
<1>5. VersionIsTrue' /\ ReadyIsComplete'
  BY <1>1, <1>2, ColumnsSplit DEF VersionIsTrue, ReadyIsComplete
<1>6. QED
  BY <1>1, <1>4, <1>5 DEF IInv, TypeOK, Place

LEMMA CacheInv == ASSUME IInv, NEW t \in Thread, Cache(t) PROVE IInv'
<1>1. tables = Table /\ columns = Column
  BY DEF Cache, IInv, TypeOK, Progress, Reached, Passed
<1>2. initialized' \subseteq Process
  BY SchemaAssumption DEF Cache, IInv, TypeOK, SchemaAssumption
<1>3. QED
  BY <1>1, <1>2, OutInv DEF Cache, IInv, TypeOK

LEMMA FailInv == ASSUME IInv, NEW t \in Thread, Fail(t) PROVE IInv'
BY OutInv DEF Fail, IInv, TypeOK

LEMMA CrashInv == ASSUME IInv, NEW p \in Process, Crash(p) PROVE IInv'
<1>1. Out \in Place /\ Reached(Out) = {} /\ Passed(Out) = {}
  BY DEF Place, Reached, Passed, Out
<1>2. Progress' /\ thread' \in [Thread -> Place]
  BY <1>1, Typed DEF Crash, IInv, Progress
<1>3. VersionIsTrue' /\ ReadyIsComplete'
  BY StaysTrue DEF Crash, IInv, TypeOK, Grows
<1>4. QED
  BY <1>2, <1>3 DEF Crash, IInv, TypeOK, Place

-----------------------------------------------------------------------------
LEMMA StepInv == IInv /\ [Next]_vars => IInv'
<1> SUFFICES ASSUME IInv, [Next]_vars PROVE IInv'
  OBVIOUS
<1>1. CASE UNCHANGED vars
  BY <1>1 DEF vars, IInv, TypeOK, Progress, VersionIsTrue, ReadyIsComplete
<1>2. ASSUME NEW t \in Thread, Step(t) \/ Fail(t) PROVE IInv'
  BY <1>2, ConnectInv, CreateTableInv, ReadVersionInv, LookInv, AddColumnInv, StampInv,
     CacheInv, FailInv DEF Step
<1>3. ASSUME NEW p \in Process, Crash(p) PROVE IInv'
  BY <1>3, CrashInv
<1>4. QED
  BY <1>1, <1>2, <1>3 DEF Next

\* Every reachable state of the file and of the threads that open it is well
\* typed, and no thread has gone past a table or column that is not there.
THEOREM Invariant == Spec => []IInv
BY InitInv, StepInv, PTL DEF Spec

\* A file that a process or its version number says is done has every table and
\* column, whoever upgrades it and wherever an upgrade was cut off.
THEOREM ReadyFilesAreComplete == Spec => []ReadyIsComplete
<1>1. IInv => ReadyIsComplete
  BY DEF IInv
<1>2. QED
  BY <1>1, Invariant, PTL

=============================================================================
