-------------------------- MODULE SchemaMigration --------------------------
(***************************************************************************)
(* db.connect: the state file is created, or brought to the current        *)
(* schema, by whoever opens it first.  Several processes do so at once     *)
(* (the gateway, the dashboard, a command-line session), each with several *)
(* threads; every statement is a transaction of its own, and the only      *)
(* memory of the work done is a set per process and user_version in the    *)
(* file.  A statement that fails raises out of connect, and the caller     *)
(* tries again when it next needs the file.                                *)
(***************************************************************************)
EXTENDS Naturals, Sequences

CONSTANTS
  Process,
  Thread,
  ProcessOf,  \* ProcessOf[t]: the process a thread belongs to
  MaxFaults   \* bound: failing statements and crashes

ASSUME SchemaAssumption == ProcessOf \in [Thread -> Process] /\ MaxFaults \in Nat

\* Tables in the order SCHEMA_SQL creates them; those _migrate does not touch are
\* one.
TableOrder == <<"draft_requests", "sender_profiles", "the newer tables">>
Table == {TableOrder[i] : i \in 1..3}

\* Columns in the order _migrate adds them, the first four to draft_requests for
\* version 2 and the others to sender_profiles for version 3.
ColumnOrder == <<"from_addr", "subject", "attempts", "last_attempt_ms",
                 "learned_notes", "learned_updated_ms">>
ColumnsOf(table) ==
  CASE table = "draft_requests"  -> {ColumnOrder[i] : i \in 1..4}
    [] table = "sender_profiles" -> {ColumnOrder[i] : i \in 5..6}
    [] OTHER                     -> {}
TableOf(i) == IF i <= 4 THEN "draft_requests" ELSE "sender_profiles"
Column == {ColumnOrder[i] : i \in 1..6}

VARIABLES
  tables,      \* tables of the file
  columns,     \* those of the added columns its tables have
  version,     \* PRAGMA user_version
  initialized, \* processes with the file in _INITIALIZED_PATHS
  thread,      \* thread[t]: where in connect a thread is
  faults

vars == <<tables, columns, version, initialized, thread, faults>>

Out == [step |-> "out"]

TypeOK ==
  /\ tables \subseteq Table /\ columns \subseteq Column
  /\ version \in 0..3
  /\ initialized \subseteq Process
  /\ thread \in [Thread ->
       {Out} \cup [step : {"create"}, at : 1..3] \cup [step : {"version", "stamp", "cache"}]
         \cup [step : {"look"}, at : {1, 5}]
         \cup [step : {"add"}, at : 1..6, existing : SUBSET Column]]
  /\ faults \in Nat

\* No file yet, or one left by an older release or by this one.
Init ==
  /\ \/ tables = {} /\ columns = {} /\ version = 0
     \/ tables = {"draft_requests"} /\ columns = {} /\ version = 1
     \/ tables = {"draft_requests", "sender_profiles"} /\ version \in {1, 2}
        /\ columns = IF version = 1 THEN {} ELSE ColumnsOf("draft_requests")
     \/ tables = Table /\ columns = Column /\ version = 3
  /\ initialized = {}
  /\ thread = [t \in Thread |-> Out]
  /\ faults = 0

Go(t, place) == thread' = [thread EXCEPT ![t] = place]

-----------------------------------------------------------------------------
Connect(t) ==
  /\ thread[t] = Out
  /\ ProcessOf[t] \notin initialized
  /\ Go(t, [step |-> "create", at |-> 1])
  /\ UNCHANGED <<tables, columns, version, initialized, faults>>

\* CREATE TABLE IF NOT EXISTS.
CreateTable(t) ==
  /\ thread[t].step = "create"
  /\ LET table == TableOrder[thread[t].at]
     IN  /\ tables' = tables \cup {table}
         /\ columns' = IF table \in tables THEN columns ELSE columns \cup ColumnsOf(table)
  /\ Go(t, IF thread[t].at < 3 THEN [thread[t] EXCEPT !.at = @ + 1]
           ELSE [step |-> "version"])
  /\ UNCHANGED <<version, initialized, faults>>

\* The version is set before the columns are added.
ReadAndStamp(t) ==
  /\ thread[t].step = "version"
  /\ Go(t, IF version >= 3 THEN [step |-> "cache"]
           ELSE [step |-> "look", at |-> IF version < 2 THEN 1 ELSE 5])
  /\ version' = 3
  /\ UNCHANGED <<tables, columns, initialized, faults>>

ReadVersion(t) ==
  /\ thread[t].step = "version"
  /\ Go(t, IF version >= 3 THEN [step |-> "cache"]
           ELSE [step |-> "look", at |-> IF version < 2 THEN 1 ELSE 5])
  /\ UNCHANGED <<tables, columns, version, initialized, faults>>

\* No look: every column is taken to be missing.
LookAway(t) ==
  /\ thread[t].step = "look"
  /\ Go(t, [step |-> "add", at |-> thread[t].at, existing |-> {}])
  /\ UNCHANGED <<tables, columns, version, initialized, faults>>

\* PRAGMA table_info.
Look(t) ==
  /\ thread[t].step = "look"
  /\ Go(t, [step |-> "add", at |-> thread[t].at,
            existing |-> columns \cap ColumnsOf(TableOf(thread[t].at))])
  /\ UNCHANGED <<tables, columns, version, initialized, faults>>

After(place) ==
  CASE place.at = 4 -> [step |-> "look", at |-> 5]
    [] place.at = 6 -> [step |-> "stamp"]
    [] OTHER        -> [place EXCEPT !.at = @ + 1]

\* ALTER TABLE ADD COLUMN for a column that was missing: an error if another
\* thread has added it since.
AddColumn(t) ==
  /\ thread[t].step = "add"
  /\ LET c == ColumnOrder[thread[t].at]
     IN  IF c \notin thread[t].existing /\ c \in columns
         THEN Go(t, Out) /\ UNCHANGED columns
         ELSE Go(t, After(thread[t])) /\ columns' = columns \cup {c}
  /\ UNCHANGED <<tables, version, initialized, faults>>

Stamp(t) ==
  /\ thread[t].step = "stamp"
  /\ version' = 3
  /\ Go(t, [step |-> "cache"])
  /\ UNCHANGED <<tables, columns, initialized, faults>>

Cache(t) ==
  /\ thread[t].step = "cache"
  /\ initialized' = initialized \cup {ProcessOf[t]}
  /\ Go(t, Out)
  /\ UNCHANGED <<tables, columns, version, faults>>

\* A statement fails, on a lock held too long or a full disk.
Fail(t) ==
  /\ thread[t].step \notin {"out", "cache"}
  /\ faults < MaxFaults /\ faults' = faults + 1
  /\ Go(t, Out)
  /\ UNCHANGED <<tables, columns, version, initialized>>

\* The process dies and is started again.
Crash(p) ==
  /\ faults < MaxFaults /\ faults' = faults + 1
  /\ initialized' = initialized \ {p}
  /\ thread' = [t \in Thread |-> IF ProcessOf[t] = p THEN Out ELSE thread[t]]
  /\ UNCHANGED <<tables, columns, version>>

Step(t) ==
  \/ Connect(t) \/ CreateTable(t) \/ ReadVersion(t) \/ Look(t) \/ AddColumn(t)
  \/ Stamp(t) \/ Cache(t)

Next ==
  \/ \E t \in Thread : Step(t) \/ Fail(t)
  \/ \E p \in Process : Crash(p)

Spec == Init /\ [][Next]_vars

\* A thread in connect goes on, and its process opens the file again and again:
\* every mail, tool call and sweep does.
FairSpec == Spec /\ \A t \in Thread : WF_vars(Step(t))

-----------------------------------------------------------------------------
(* Properties. *)

\* Who has been given the file without running the schema, because the process
\* or the file says it is done, finds every table and column there: whatever the
\* file was, whoever else upgrades it, and wherever an upgrade was cut off.
ReadyIsComplete ==
  version = 3 \/ initialized # {} => tables = Table /\ columns = Column

\* Every process is ready in the end: an upgrade that trips over another's, or
\* fails half way, leaves nothing behind that makes the next attempt fail.
ReadyInTheEnd == \A p \in Process : (\E t \in Thread : ProcessOf[t] = p) => <>[](p \in initialized)

\* What a thread knows is there from how far it has come.
Reached(place) ==
  CASE place.step = "create" -> {TableOrder[i] : i \in 1..place.at} \ {TableOrder[place.at]}
    [] place.step = "out"    -> {}
    [] OTHER                 -> Table

Passed(place) ==
  CASE place.step = "add"   -> {ColumnOrder[i] : i \in {n \in 1..6 : n < place.at}}
                                 \cup place.existing
    [] place.step = "look"  -> {ColumnOrder[i] : i \in {n \in 1..6 : n < place.at}}
    [] place.step \in {"stamp", "cache"} -> Column
    [] OTHER -> {}

Progress ==
  \A t \in Thread : Reached(thread[t]) \subseteq tables /\ Passed(thread[t]) \subseteq columns

\* From version 2 on the columns of that version are there.
VersionIsTrue ==
  /\ version >= 2 => ColumnsOf("draft_requests") \subseteq columns
  /\ version >= 3 => tables = Table /\ columns = Column

IInv == TypeOK /\ Progress /\ VersionIsTrue /\ ReadyIsComplete

=============================================================================
