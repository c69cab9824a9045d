------------------------ MODULE DraftFeedbackProofs ------------------------
(***************************************************************************)
(* Proofs about DraftFeedback for every set of threads, every bound and    *)
(* every combination of faults.                                            *)
(***************************************************************************)
EXTENDS DraftFeedback, FiniteSetTheorems, SequenceTheorems, TLAPS

\* The calls for t at one of the steps.
In(t, steps) == {i \in 1 .. Len(calls[t]) : calls[t][i].step \in steps}

\* Calls that have recorded a send, and those that may still distil it.
Recorded(t) == Cardinality(In(t, {"fresh", "distil", "mark", "done"}))
Owed(t)     == Cardinality(In(t, {"fresh", "distil"}))
Records(step) == IF step \in {"fresh", "distil", "mark", "done"} THEN 1 ELSE 0
Owes(step)    == IF step \in {"fresh", "distil"} THEN 1 ELSE 0

Counted(t) == paired[t] \in Nat /\ paired[t] <= Recorded(t)

\* The sweep's lists are its own pass's, with one entry for a thread.
SweepInv ==
  /\ sweep # "distil" => queue = {} /\ distilling = NoRow
  /\ \A q \in queue : distilling # q.thread
  /\ \A q, r \in queue : q.thread = r.thread => q = r

Listed(t) == {q \in queue : q.thread = t}

Open(t) == row[t] = NoRow \/ row[t].outcome = "pending"

\* Nothing is under way for a thread without a reply.
QuietWhenOpen(t) ==
  Open(t) => /\ row[t] # NoRow => ~row[t].learned /\ row[t].sent = 0
             /\ In(t, {"fresh", "distil", "mark"}) = {}
             /\ distilling # t
             /\ Listed(t) = {}

\* A row that has a reply does not say otherwise.
ReplyShown(t) ==
  row[t] # NoRow /\ row[t].sent > 0 => row[t].outcome \notin {"pending", "no_reply"}

\* The sweep's one distillation, which the learned flag pays for.
Paid(t) == IF distilling = t \/ (row[t] # NoRow /\ row[t].learned) THEN 1 ELSE 0

Evidence(t) ==
  /\ distilled[t] + Owed(t) <= paired[t] + cuts + Paid(t)
  /\ Listed(t) # {} => distilled[t] + Owed(t) <= paired[t] + cuts

\* An edit that was not recorded over a changed row is what everybody distils.
Lesson(t) ==
  /\ \A i \in In(t, {"pair"}) : calls[t][i].read = "pending"
  /\ row[t] # NoRow /\ row[t].outcome = "edited" /\ t \notin overwrote =>
       /\ \A i \in In(t, {"distil"}) : calls[t][i].read = "edited"
       /\ \A q \in Listed(t) : q.outcome = "edited"
       /\ row[t].learned \/ distilling = t \/ In(t, {"mark"}) # {} => distilled[t] > 0

Book(t) == Counted(t) /\ QuietWhenOpen(t) /\ ReplyShown(t) /\ Evidence(t) /\ Lesson(t)

IndInv == TypeOK /\ SweepInv /\ \A t \in Thread : Book(t)

-----------------------------------------------------------------------------
LEMMA Bounds ==
  /\ Window \in Nat /\ MaxSends \in Nat /\ MaxCalls \in Nat /\ MaxTime \in Nat
  /\ MaxCuts \in Nat
  /\ NoRow \notin Row /\ NoRow \notin Outcome /\ NoRow \notin Thread
BY FeedbackAssumption DEF FeedbackAssumption

LEMMA IntervalSize ==
  ASSUME NEW n \in Nat
  PROVE  IsFiniteSet(1 .. n) /\ Cardinality(1 .. n) = n
BY FS_Interval

LEMMA Sizes ==
  ASSUME TypeOK, NEW t \in Thread, NEW S
  PROVE  /\ IsFiniteSet(In(t, S)) /\ Cardinality(In(t, S)) \in Nat
         /\ Cardinality(In(t, S)) <= Len(calls[t]) /\ Len(calls[t]) \in Nat
         /\ distilled[t] \in Nat /\ paired[t] \in Nat /\ cuts \in Nat
<1>1. calls[t] \in Seq(Call)
  BY DEF TypeOK
<1>2. Len(calls[t]) \in Nat
  BY <1>1
<1>3. IsFiniteSet(1 .. Len(calls[t])) /\ Cardinality(1 .. Len(calls[t])) = Len(calls[t])
  BY <1>2, FS_Interval
<1>4. In(t, S) \subseteq 1 .. Len(calls[t])
  BY DEF In
<1>5. IsFiniteSet(In(t, S)) /\ Cardinality(In(t, S)) <= Cardinality(1 .. Len(calls[t]))
  BY <1>3, <1>4, FS_Subset
<1>6. distilled[t] \in Nat /\ paired[t] \in Nat /\ cuts \in Nat
  BY Bounds DEF TypeOK
<1>7. QED
  BY <1>2, <1>3, <1>5, <1>6, FS_CardinalityType

\* A thread that a step leaves alone.
LEMMA Alone ==
  ASSUME NEW t \in Thread, Book(t), row'[t] = row[t], calls'[t] = calls[t],
         distilled'[t] = distilled[t], paired'[t] = paired[t], cuts' = cuts,
         t \in overwrote' <=> t \in overwrote, distilling' = t <=> distilling = t,
         Listed(t)' \subseteq Listed(t)
  PROVE  Book(t)'
BY DEF Book, Counted, Recorded, Owed, In, QuietWhenOpen, Open, ReplyShown, Evidence, Paid,
       Lesson

\* One call goes to its next step.
LEMMA CallMoves ==
  ASSUME TypeOK, NEW t \in Thread, NEW i \in 1 .. Len(calls[t]), NEW step \in Step,
         NEW read \in Outcome \cup {NoRow}, Goto(t, i, step, read)
  PROVE  /\ calls' \in [Thread -> Seq(Call)]
         /\ Len(calls'[t]) = Len(calls[t])
         /\ calls'[t][i].step = step /\ (step # "done" => calls'[t][i].read = read)
         /\ \A j \in 1 .. Len(calls[t]) : j # i => calls'[t][j] = calls[t][j]
         /\ \A u \in Thread : u # t => calls'[u] = calls[u]
<1> DEFINE c == [calls[t][i] EXCEPT !.step = step,
                                    !.read = IF step = "done" THEN NoRow ELSE read]
           s == [calls[t] EXCEPT ![i] = c]
<1>1. calls[t] \in Seq(Call) /\ calls \in [Thread -> Seq(Call)]
  BY DEF TypeOK
<1>2. calls[t][i] \in Call
  BY <1>1
<1>3. c \in Call /\ c.step = step /\ (step # "done" => c.read = read)
  BY <1>2 DEF Call
<1>4. calls' = [calls EXCEPT ![t] = s]
  BY <1>1, <1>2 DEF Goto
<1> HIDE DEF c
<1>5. s \in Seq(Call) /\ Len(s) = Len(calls[t]) /\ s[i] = c
      /\ \A j \in 1 .. Len(calls[t]) : j # i => s[j] = calls[t][j]
  BY <1>1, <1>3
<1> HIDE DEF s
<1>6. QED
  BY <1>1, <1>3, <1>4, <1>5

LEMMA Shift ==
  ASSUME TypeOK, NEW t \in Thread, NEW i \in 1 .. Len(calls[t]), NEW step \in Step,
         NEW read \in Outcome \cup {NoRow}, Goto(t, i, step, read), NEW S
  PROVE  /\ In(t, S)' = IF step \in S THEN In(t, S) \cup {i} ELSE In(t, S) \ {i}
         /\ i \in In(t, S) <=> calls[t][i].step \in S
         /\ calls[t][i].step \in S /\ step \in S =>
              Cardinality(In(t, S)') = Cardinality(In(t, S))
         /\ calls[t][i].step \notin S /\ step \notin S =>
              Cardinality(In(t, S)') = Cardinality(In(t, S))
         /\ calls[t][i].step \notin S /\ step \in S =>
              Cardinality(In(t, S)') = Cardinality(In(t, S)) + 1
         /\ calls[t][i].step \in S /\ step \notin S =>
              Cardinality(In(t, S)') = Cardinality(In(t, S)) - 1
<1>1. /\ Len(calls'[t]) = Len(calls[t]) /\ calls'[t][i].step = step
      /\ \A j \in 1 .. Len(calls[t]) : j # i => calls'[t][j] = calls[t][j]
  BY CallMoves
<1>2. /\ In(t, S)' = IF step \in S THEN In(t, S) \cup {i} ELSE In(t, S) \ {i}
      /\ i \in In(t, S) <=> calls[t][i].step \in S
  BY <1>1 DEF In
<1>3. IsFiniteSet(In(t, S))
  BY Sizes
<1>4. i \in In(t, S) => /\ In(t, S) \cup {i} = In(t, S)
                        /\ Cardinality(In(t, S) \ {i}) = Cardinality(In(t, S)) - 1
  BY <1>3, FS_RemoveElement
<1>5. i \notin In(t, S) => /\ In(t, S) \ {i} = In(t, S)
                           /\ Cardinality(In(t, S) \cup {i}) = Cardinality(In(t, S)) + 1
  BY <1>3, FS_AddElement
<1>6. QED
  BY <1>2, <1>4, <1>5

LEMMA CountMoves ==
  ASSUME TypeOK, NEW t \in Thread, NEW i \in 1 .. Len(calls[t]), NEW step \in Step,
         NEW read \in Outcome \cup {NoRow}, Goto(t, i, step, read)
  PROVE  /\ Owed(t)' = Owed(t) + Owes(step) - Owes(calls[t][i].step)
         /\ Recorded(t)' = Recorded(t) + Records(step) - Records(calls[t][i].step)
<1> DEFINE n(S) == Cardinality(In(t, S))
           N(S) == Cardinality(In(t, S)')
           b(s, S) == IF s \in S THEN 1 ELSE 0
           old == calls[t][i].step
<1>1. \A S : N(S) = n(S) + b(step, S) - b(old, S) /\ n(S) \in Nat
  <2> TAKE S
  <2>1. n(S) \in Nat
    BY Sizes
  <2>2. /\ old \in S /\ step \in S => N(S) = n(S)
        /\ old \notin S /\ step \notin S => N(S) = n(S)
        /\ old \notin S /\ step \in S => N(S) = n(S) + 1
        /\ old \in S /\ step \notin S => N(S) = n(S) - 1
    BY Shift
  <2> HIDE DEF n, N, old
  <2>3. QED
    BY <2>1, <2>2
<1>2. /\ N({"fresh", "distil"}) = n({"fresh", "distil"})
            + b(step, {"fresh", "distil"}) - b(old, {"fresh", "distil"})
      /\ N({"fresh", "distil", "mark", "done"}) = n({"fresh", "distil", "mark", "done"})
            + b(step, {"fresh", "distil", "mark", "done"})
            - b(old, {"fresh", "distil", "mark", "done"})
  <2> HIDE DEF n, N, b, old
  <2> QED
    BY <1>1
<1>3. QED
  BY <1>2 DEF Owed, Recorded, Owes, Records

\* The same, by where the call comes from and goes to.
LEMMA Elsewhere ==
  ASSUME TypeOK, NEW t \in Thread, NEW i \in 1 .. Len(calls[t]), NEW step \in Step,
         NEW read \in Outcome \cup {NoRow}, Goto(t, i, step, read), NEW S,
         calls[t][i].step \notin S, step \notin S
  PROVE  In(t, S)' = In(t, S)
<1>1. In(t, S)' = In(t, S) \ {i} /\ i \notin In(t, S)
  BY Shift
<1>2. QED
  BY <1>1

LEMMA Leaves ==
  ASSUME TypeOK, NEW t \in Thread, NEW i \in 1 .. Len(calls[t]), NEW step \in Step,
         NEW read \in Outcome \cup {NoRow}, Goto(t, i, step, read), NEW S, step \notin S
  PROVE  In(t, S)' \subseteq In(t, S) \ {i}
BY Shift

-----------------------------------------------------------------------------
(* on_sent. *)

BookInv == SweepInv /\ \A t \in Thread : Book(t)

LEMMA SweepKept == ASSUME SweepInv, UNCHANGED sweepVars PROVE SweepInv'
BY DEF SweepInv, sweepVars

\* A step of a call is about its own thread.
LEMMA OthersAlone ==
  ASSUME IndInv, NEW t \in Thread, NEW i \in 1 .. Len(calls[t]), NEW step \in Step,
         NEW read \in Outcome \cup {NoRow}, Goto(t, i, step, read),
         \A u \in Thread : u # t =>
           /\ row'[u] = row[u] /\ distilled'[u] = distilled[u] /\ paired'[u] = paired[u]
           /\ u \in overwrote' <=> u \in overwrote,
         UNCHANGED <<sweepVars, cuts>>,
         Book(t)'
  PROVE  BookInv'
<1>1. \A u \in Thread : u # t => calls'[u] = calls[u]
  BY CallMoves DEF IndInv
<1>2. \A u \in Thread : u # t => Book(u)'
  BY <1>1, Alone DEF IndInv, sweepVars, Listed
<1>3. QED
  BY <1>2, SweepKept DEF IndInv, BookInv

\* What a call reads of the row.
LEMMA ReadType == ASSUME TypeOK, NEW t \in Thread PROVE OutcomeOf(t) \in Outcome \cup {NoRow}
BY DEF TypeOK, OutcomeOf, Row

LEMMA ReadRowStep ==
  ASSUME IndInv, NEW t \in Thread, NEW i \in 1 .. Len(calls[t]), ReadRow(t, i)
  PROVE  BookInv'
<1>1. PICK step \in {"pair", "capture", "done"} :
        /\ Goto(t, i, step, OutcomeOf(t))
        /\ IF row[t] # NoRow /\ row[t].draft
           THEN step = IF row[t].outcome = "pending" THEN "pair" ELSE "done"
           ELSE step = "done" \/ (CaptureAll /\ step = "capture")
  BY DEF ReadRow
<1>2. /\ calls[t][i].step = "queued" /\ step \in Step
      /\ OutcomeOf(t) \in Outcome \cup {NoRow}
      /\ UNCHANGED <<row, sweepVars, cuts, history>> /\ TypeOK /\ Book(t)
  BY ReadType DEF ReadRow, At, IndInv, Step
<1>3. /\ In(t, {"fresh", "distil"})' = In(t, {"fresh", "distil"})
      /\ In(t, {"fresh", "distil", "mark"})' = In(t, {"fresh", "distil", "mark"})
      /\ In(t, {"distil"})' = In(t, {"distil"}) /\ In(t, {"mark"})' = In(t, {"mark"})
      /\ In(t, {"pair"})' \subseteq In(t, {"pair"}) \cup {i}
      /\ i \in In(t, {"pair"})' => step = "pair"
  <2>1. \A s \in {step, calls[t][i].step} :
          s \notin {"fresh", "distil"} /\ s \notin {"fresh", "distil", "mark"}
          /\ s \notin {"distil"} /\ s \notin {"mark"}
    BY <1>1, <1>2
  <2>2. /\ In(t, {"fresh", "distil"})' = In(t, {"fresh", "distil"})
        /\ In(t, {"fresh", "distil", "mark"})' = In(t, {"fresh", "distil", "mark"})
        /\ In(t, {"distil"})' = In(t, {"distil"}) /\ In(t, {"mark"})' = In(t, {"mark"})
    BY <1>1, <1>2, <2>1, Elsewhere, Zenon
  <2>3. /\ In(t, {"pair"})' \subseteq In(t, {"pair"}) \cup {i}
        /\ i \in In(t, {"pair"})' => step = "pair"
    BY <1>1, <1>2, CallMoves DEF In
  <2>4. QED
    BY <2>2, <2>3
<1>4. Recorded(t)' \in Nat /\ Recorded(t)' >= Recorded(t)
  BY <1>1, <1>2, Shift, Sizes DEF Recorded
<1>5. /\ step = "pair" => calls'[t][i].read = "pending"
      /\ \A j \in 1 .. Len(calls[t]) : j # i => calls'[t][j] = calls[t][j]
  BY <1>1, <1>2, CallMoves DEF OutcomeOf
<1>6. Counted(t)'
  BY <1>2, <1>4, Sizes DEF Book, Counted, Recorded, history
<1>7. QuietWhenOpen(t)' /\ ReplyShown(t)' /\ Evidence(t)'
  BY <1>2, <1>3 DEF Book, QuietWhenOpen, Open, ReplyShown, Evidence, Owed, Paid, Listed,
     sweepVars, history
<1>8. Lesson(t)'
  <2>1. i \notin In(t, {"distil"})
    BY <1>2 DEF In
  <2>2. \A j \in In(t, {"distil"}) : calls'[t][j] = calls[t][j]
    BY <1>5, <2>1 DEF In
  <2>3. \A j \in In(t, {"pair"})' : calls'[t][j].read = "pending"
    BY <1>2, <1>3, <1>5 DEF Book, Lesson, In
  <2>4. QED
    BY <1>2, <1>3, <2>2, <2>3 DEF Book, Lesson, Listed, sweepVars, history
<1>9. Book(t)'
  BY <1>6, <1>7, <1>8 DEF Book
<1>10. QED
  BY <1>1, <1>2, <1>9, OthersAlone DEF history

\* The numbers that Evidence compares.
LEMMA Numbers ==
  ASSUME TypeOK, NEW t \in Thread
  PROVE  /\ Owed(t) \in Nat /\ Recorded(t) \in Nat /\ Paid(t) \in 0 .. 1
         /\ distilled[t] \in Nat /\ paired[t] \in Nat /\ cuts \in Nat
BY Sizes DEF Owed, Recorded, Paid

\* What RecordSent leaves in the row, and in the histories.
LEMMA SendRecorded ==
  ASSUME IndInv, NEW t \in Thread, NEW i \in 1 .. Len(calls[t]), NEW o \in Outcome,
         RecordSent(t, i, o)
  PROVE  /\ row' \in [Thread -> Row \cup {NoRow}]
         /\ row'[t] \in Row /\ row'[t] # NoRow /\ row'[t].outcome = o /\ row'[t].sent > 0
         /\ row[t] # NoRow => row'[t].learned = row[t].learned
         /\ row[t] = NoRow => ~row'[t].learned
         /\ paired'[t] = paired[t] + 1 /\ distilled' = distilled
         /\ t \notin overwrote' => t \notin overwrote /\ calls[t][i].read = OutcomeOf(t)
         /\ \A u \in Thread : u # t =>
              /\ row'[u] = row[u] /\ distilled'[u] = distilled[u] /\ paired'[u] = paired[u]
              /\ u \in overwrote' <=> u \in overwrote
<1> DEFINE old == IF row[t] = NoRow
                  THEN [draft |-> FALSE, draftAt |-> 0, outcome |-> o, sent |-> 0,
                        learned |-> FALSE]
                  ELSE row[t]
           new == [old EXCEPT !.outcome = o, !.sent = calls[t][i].msg]
<1>1. /\ row' = [row EXCEPT ![t] = new] /\ paired' = [paired EXCEPT ![t] = @ + 1]
      /\ distilled' = distilled
      /\ overwrote' = IF calls[t][i].read = OutcomeOf(t)
                      THEN overwrote ELSE overwrote \cup {t}
  BY DEF RecordSent
<1>2. calls[t][i].msg \in 1 .. MaxSends
  <2>1. calls[t] \in Seq(Call)
    BY DEF IndInv, TypeOK
  <2>2. calls[t][i] \in Call
    BY <2>1
  <2>3. QED
    BY <2>2 DEF Call
<1>3. old \in Row /\ (row[t] # NoRow => old = row[t]) /\ (row[t] = NoRow => ~old.learned)
  BY Bounds DEF IndInv, TypeOK, Row
<1> HIDE DEF old
<1>4. /\ new \in Row /\ new.outcome = o /\ new.sent = calls[t][i].msg
      /\ new.learned = old.learned
  <2>1. calls[t][i].msg \in 0 .. MaxSends
    BY <1>2, Bounds
  <2>2. old \in Row
    BY <1>3
  <2>3. QED
    BY <2>1, <2>2 DEF Row
<1> HIDE DEF new
<1>5. /\ row' \in [Thread -> Row \cup {NoRow}] /\ row'[t] = new
      /\ \A u \in Thread : u # t => row'[u] = row[u]
  BY <1>1, <1>4 DEF IndInv, TypeOK
<1>6. new # NoRow /\ new.sent > 0
  BY <1>2, <1>4, Bounds
<1>7. /\ paired'[t] = paired[t] + 1
      /\ \A u \in Thread : u # t => paired'[u] = paired[u]
  BY <1>1 DEF IndInv, TypeOK
<1>8. QED
  BY <1>1, <1>3, <1>4, <1>5, <1>6, <1>7

LEMMA PairStep ==
  ASSUME IndInv, NEW t \in Thread, NEW i \in 1 .. Len(calls[t]), PairDrafted(t, i)
  PROVE  BookInv'
<1>1. PICK o \in {"verbatim", "edited"} : RecordSent(t, i, o)
  BY DEF PairDrafted
<1>2. /\ calls[t][i].step = "pair" /\ Goto(t, i, "fresh", NoRow) /\ "fresh" \in Step
      /\ NoRow \in Outcome \cup {NoRow} /\ o \in Outcome
      /\ UNCHANGED <<sweepVars, cuts>> /\ TypeOK /\ Book(t)
  BY DEF PairDrafted, At, IndInv, Step, Outcome
<1>3. /\ Recorded(t)' = Recorded(t) + 1 /\ Owed(t)' = Owed(t) + 1
      /\ In(t, {"distil"})' = In(t, {"distil"}) /\ In(t, {"mark"})' = In(t, {"mark"})
      /\ In(t, {"pair"})' \subseteq In(t, {"pair"}) \ {i}
  <2>1. /\ Owed(t)' = Owed(t) + Owes("fresh") - Owes(calls[t][i].step)
        /\ Recorded(t)' = Recorded(t) + Records("fresh") - Records(calls[t][i].step)
    BY <1>2, CountMoves, Zenon
  <2>2. Recorded(t)' = Recorded(t) + 1 /\ Owed(t)' = Owed(t) + 1
    BY <1>2, <2>1, Numbers DEF Owes, Records
  <2>3. /\ "fresh" \notin {"distil"} /\ "fresh" \notin {"mark"} /\ "fresh" \notin {"pair"}
        /\ calls[t][i].step \notin {"distil"} /\ calls[t][i].step \notin {"mark"}
    BY <1>2
  <2>4. In(t, {"distil"})' = In(t, {"distil"}) /\ In(t, {"mark"})' = In(t, {"mark"})
    BY <1>2, <2>3, Elsewhere, Zenon
  <2>5. In(t, {"pair"})' \subseteq In(t, {"pair"}) \ {i}
    BY <1>2, <2>3, Leaves, Zenon
  <2>6. QED
    BY <2>1, <2>2, <2>4, <2>5
<1>4. \A j \in 1 .. Len(calls[t]) : j # i => calls'[t][j] = calls[t][j]
  BY <1>2, CallMoves
<1>5. /\ row'[t] # NoRow /\ row'[t].outcome = o
      /\ row[t] # NoRow => row'[t].learned = row[t].learned
      /\ row[t] = NoRow => ~row'[t].learned
      /\ paired'[t] = paired[t] + 1 /\ distilled' = distilled
      /\ t \notin overwrote' => t \notin overwrote /\ calls[t][i].read = OutcomeOf(t)
  BY <1>1, <1>2, SendRecorded
<1>6. Paid(t)' = Paid(t) /\ Listed(t)' = Listed(t) /\ distilling' = distilling
  BY <1>2, <1>5 DEF Paid, Listed, sweepVars
<1>7. Counted(t)'
  BY <1>2, <1>3, <1>5, Sizes DEF Book, Counted, Recorded
<1>8. QuietWhenOpen(t)' /\ ReplyShown(t)'
  BY <1>5 DEF QuietWhenOpen, Open, ReplyShown
<1>9. Evidence(t)'
  <2>1. Evidence(t) /\ cuts' = cuts
    BY <1>2 DEF Book
  <2>2. /\ Owed(t) \in Nat /\ Paid(t) \in 0 .. 1
        /\ distilled[t] \in Nat /\ paired[t] \in Nat /\ cuts \in Nat
    BY <1>2, Numbers
  <2>3. /\ distilled'[t] = distilled[t] /\ paired'[t] = paired[t] + 1
        /\ Owed(t)' = Owed(t) + 1 /\ Paid(t)' = Paid(t)
        /\ Listed(t)' # {} => Listed(t) # {}
    BY <1>3, <1>5, <1>6
  <2>4. distilled'[t] + Owed(t)' <= paired'[t] + cuts' + Paid(t)'
    <3>1. distilled[t] + Owed(t) <= paired[t] + cuts + Paid(t)
      BY <2>1 DEF Evidence
    <3>2. QED
      BY <2>1, <2>2, <2>3, <3>1
  <2>5. Listed(t)' # {} => distilled'[t] + Owed(t)' <= paired'[t] + cuts'
    <3>1. Listed(t) # {} => distilled[t] + Owed(t) <= paired[t] + cuts
      BY <2>1 DEF Evidence
    <3>2. QED
      BY <2>1, <2>2, <2>3, <3>1
  <2>6. QED
    BY <2>4, <2>5 DEF Evidence
<1>10. Lesson(t)'
  <2>1. \A j \in In(t, {"pair"})' : calls'[t][j].read = "pending"
    BY <1>2, <1>3, <1>4 DEF Book, Lesson, In
  <2>2. ASSUME t \notin overwrote'
        PROVE  /\ In(t, {"distil"})' = {} /\ In(t, {"mark"})' = {} /\ Listed(t)' = {}
               /\ ~row'[t].learned /\ distilling' # t
    <3>1. OutcomeOf(t) = "pending"
      BY <1>2, <1>5, <2>2 DEF Book, Lesson, In
    <3>2. Open(t) /\ row[t] # NoRow
      BY <3>1, Bounds DEF OutcomeOf, Open, Outcome
    <3>3. In(t, {"distil"}) = {} /\ In(t, {"mark"}) = {}
      BY <1>2, <3>2 DEF Book, QuietWhenOpen, In
    <3>4. QED
      BY <1>2, <1>3, <1>5, <1>6, <3>2, <3>3 DEF Book, QuietWhenOpen
  <2>3. QED
    BY <2>1, <2>2 DEF Lesson
<1>11. Book(t)'
  BY <1>7, <1>8, <1>9, <1>10 DEF Book
<1>12. QED
  BY <1>1, <1>2, <1>11, SendRecorded, OthersAlone

LEMMA CaptureStep ==
  ASSUME IndInv, NEW t \in Thread, NEW i \in 1 .. Len(calls[t]), CaptureNonDrafted(t, i)
  PROVE  BookInv'
<1>1. /\ calls[t][i].step = "capture" /\ Goto(t, i, "done", NoRow) /\ "done" \in Step
      /\ NoRow \in Outcome \cup {NoRow} /\ "sent_no_draft" \in Outcome
      /\ RecordSent(t, i, "sent_no_draft")
      /\ UNCHANGED <<sweepVars, cuts>> /\ TypeOK /\ Book(t)
  BY DEF CaptureNonDrafted, At, IndInv, Step, Outcome
<1>2. /\ Recorded(t)' = Recorded(t) + 1 /\ Owed(t)' = Owed(t)
      /\ In(t, {"pair"})' = In(t, {"pair"})
  <2>1. /\ Owed(t)' = Owed(t) + Owes("done") - Owes(calls[t][i].step)
        /\ Recorded(t)' = Recorded(t) + Records("done") - Records(calls[t][i].step)
    BY <1>1, CountMoves, Zenon
  <2>2. Recorded(t)' = Recorded(t) + 1 /\ Owed(t)' = Owed(t)
    BY <1>1, <2>1, Numbers DEF Owes, Records
  <2>3. "done" \notin {"pair"} /\ calls[t][i].step \notin {"pair"}
    BY <1>1
  <2>4. In(t, {"pair"})' = In(t, {"pair"})
    BY <1>1, <2>3, Elsewhere, Zenon
  <2>5. QED
    BY <2>1, <2>2, <2>4
<1>3. \A j \in 1 .. Len(calls[t]) : j # i => calls'[t][j] = calls[t][j]
  BY <1>1, CallMoves
<1>4. /\ row'[t] # NoRow /\ row'[t].outcome = "sent_no_draft"
      /\ row[t] # NoRow => row'[t].learned = row[t].learned
      /\ row[t] = NoRow => ~row'[t].learned
      /\ paired'[t] = paired[t] + 1 /\ distilled' = distilled
  BY <1>1, SendRecorded
<1>5. Paid(t)' = Paid(t) /\ Listed(t)' = Listed(t)
  BY <1>1, <1>4 DEF Paid, Listed, sweepVars
<1>6. Counted(t)'
  BY <1>1, <1>2, <1>4, Sizes DEF Book, Counted, Recorded
<1>7. QuietWhenOpen(t)' /\ ReplyShown(t)'
  BY <1>4 DEF QuietWhenOpen, Open, ReplyShown
<1>8. Evidence(t)'
  <2>1. Evidence(t) /\ cuts' = cuts
    BY <1>1 DEF Book
  <2>2. /\ Owed(t) \in Nat /\ Paid(t) \in 0 .. 1
        /\ distilled[t] \in Nat /\ paired[t] \in Nat /\ cuts \in Nat
    BY <1>1, Numbers
  <2>3. /\ distilled'[t] = distilled[t] /\ paired'[t] = paired[t] + 1
        /\ Owed(t)' = Owed(t) /\ Paid(t)' = Paid(t)
        /\ Listed(t)' # {} => Listed(t) # {}
    BY <1>2, <1>4, <1>5
  <2>4. QED
    BY <2>1, <2>2, <2>3 DEF Evidence
<1>9. Lesson(t)'
  BY <1>1, <1>2, <1>3, <1>4 DEF Book, Lesson, In
<1>10. Book(t)'
  BY <1>6, <1>7, <1>8, <1>9 DEF Book
<1>11. QED
  BY <1>1, <1>10, SendRecorded, OthersAlone

LEMMA FreshStep ==
  ASSUME IndInv, NEW t \in Thread, NEW i \in 1 .. Len(calls[t]), ReadFresh(t, i)
  PROVE  BookInv'
<1>1. /\ calls[t][i].step = "fresh" /\ TypeOK /\ Book(t)
      /\ Goto(t, i, IF row[t] = NoRow THEN "done" ELSE "distil", OutcomeOf(t))
      /\ OutcomeOf(t) \in Outcome \cup {NoRow}
      /\ UNCHANGED <<row, sweepVars, cuts, history>>
  BY ReadType DEF ReadFresh, At, IndInv
<1>2. ~Open(t) /\ row[t] # NoRow /\ OutcomeOf(t) = row[t].outcome
  <2>1. i \in In(t, {"fresh", "distil", "mark"})
    BY <1>1 DEF In
  <2>2. QED
    BY <1>1, <2>1 DEF Book, QuietWhenOpen, Open, OutcomeOf
<1>3. Goto(t, i, "distil", OutcomeOf(t)) /\ "distil" \in Step
  BY <1>1, <1>2 DEF Step
<1>4. Owed(t)' = Owed(t) /\ Recorded(t)' = Recorded(t)
  <2>1. /\ Owed(t)' = Owed(t) + Owes("distil") - Owes(calls[t][i].step)
        /\ Recorded(t)' = Recorded(t) + Records("distil") - Records(calls[t][i].step)
    BY <1>1, <1>3, CountMoves, Zenon
  <2>2. QED
    BY <1>1, <2>1, Numbers DEF Owes, Records
<1>5. /\ calls'[t][i].read = row[t].outcome /\ calls'[t][i].step = "distil"
      /\ \A j \in 1 .. Len(calls[t]) : j # i => calls'[t][j] = calls[t][j]
      /\ Len(calls'[t]) = Len(calls[t])
  BY <1>1, <1>2, <1>3, CallMoves
<1>6. Paid(t)' = Paid(t) /\ Listed(t)' = Listed(t) /\ distilled'[t] = distilled[t]
      /\ paired'[t] = paired[t] /\ cuts' = cuts
  BY <1>1 DEF Paid, Listed, sweepVars, history
<1>7. Counted(t)'
  BY <1>1, <1>4, <1>6 DEF Book, Counted
<1>8. QuietWhenOpen(t)' /\ ReplyShown(t)'
  BY <1>1, <1>2 DEF Book, QuietWhenOpen, Open, ReplyShown
<1>9. Evidence(t)'
  <2>1. Listed(t)' # {} => Listed(t) # {}
    BY <1>6
  <2>2. Evidence(t) /\ Paid(t)' = Paid(t) /\ distilled'[t] = distilled[t]
        /\ paired'[t] = paired[t] /\ cuts' = cuts
    BY <1>1, <1>6 DEF Book
  <2>3. QED
    BY <1>4, <2>1, <2>2 DEF Evidence
<1>10. Lesson(t)'
  <2>1. /\ \A j \in In(t, {"pair"})' : j \in In(t, {"pair"}) /\ calls'[t][j] = calls[t][j]
        /\ \A j \in In(t, {"distil"})' :
             j = i \/ (j \in In(t, {"distil"}) /\ calls'[t][j] = calls[t][j])
        /\ \A j \in In(t, {"mark"})' : j \in In(t, {"mark"})
    BY <1>1, <1>5 DEF In
  <2>2. Lesson(t)
    BY <1>1 DEF Book
  <2>3. QED
    BY <1>1, <1>5, <2>1, <2>2 DEF Lesson, Listed, sweepVars, history
<1>11. Book(t)'
  BY <1>7, <1>8, <1>9, <1>10 DEF Book
<1>12. QED
  BY <1>1, <1>3, <1>11, OthersAlone, Zenon DEF history

LEMMA DistilStep ==
  ASSUME IndInv, NEW t \in Thread, NEW i \in 1 .. Len(calls[t]), DistilSent(t, i)
  PROVE  BookInv'
<1>1. PICK step \in {"mark", "done"} :
        /\ Goto(t, i, step, NoRow)
        /\ \/ step = "mark" /\ Apply(t, calls[t][i].read)
           \/ step = "done" /\ UNCHANGED distilled
  BY DEF DistilSent
<1>2. /\ calls[t][i].step = "distil" /\ TypeOK /\ Book(t) /\ step \in Step
      /\ NoRow \in Outcome \cup {NoRow}
      /\ UNCHANGED <<row, sweepVars, cuts, paired, overwrote>>
  BY DEF DistilSent, At, IndInv, Step
<1>3. /\ distilled[t] \in Nat /\ distilled'[t] \in {distilled[t], distilled[t] + 1}
      /\ step = "mark" /\ calls[t][i].read = "edited" => distilled'[t] = distilled[t] + 1
      /\ \A u \in Thread : u # t => distilled'[u] = distilled[u]
  BY <1>1, <1>2 DEF Apply, TypeOK
<1>4. ~Open(t) /\ row[t] # NoRow
  <2>1. i \in In(t, {"fresh", "distil", "mark"})
    BY <1>2 DEF In
  <2>2. QED
    BY <1>2, <2>1 DEF Book, QuietWhenOpen, Open
<1>5. Owed(t)' = Owed(t) - 1 /\ Recorded(t)' = Recorded(t)
  <2>1. /\ Owed(t)' = Owed(t) + Owes(step) - Owes(calls[t][i].step)
        /\ Recorded(t)' = Recorded(t) + Records(step) - Records(calls[t][i].step)
    BY <1>1, <1>2, CountMoves, Zenon
  <2>2. QED
    BY <1>1, <1>2, <2>1, Numbers DEF Owes, Records
<1>6. /\ calls'[t][i].step = step
      /\ \A j \in 1 .. Len(calls[t]) : j # i => calls'[t][j] = calls[t][j]
      /\ Len(calls'[t]) = Len(calls[t])
  BY <1>1, <1>2, CallMoves
<1>7. Paid(t)' = Paid(t) /\ Listed(t)' = Listed(t)
      /\ paired'[t] = paired[t] /\ cuts' = cuts
  BY <1>2 DEF Paid, Listed, sweepVars
<1>8. Counted(t)'
  BY <1>2, <1>5, <1>7 DEF Book, Counted
<1>9. QuietWhenOpen(t)' /\ ReplyShown(t)'
  BY <1>2, <1>4 DEF Book, QuietWhenOpen, Open, ReplyShown
<1>10. Evidence(t)'
  <2>1. Listed(t)' # {} => Listed(t) # {}
    BY <1>7
  <2>2. Evidence(t) /\ Paid(t)' = Paid(t) /\ paired'[t] = paired[t] /\ cuts' = cuts
    BY <1>2, <1>7 DEF Book
  <2>3. Owed(t) \in Nat /\ Paid(t) \in 0 .. 1 /\ paired[t] \in Nat /\ cuts \in Nat
    BY <1>2, Numbers
  <2>4. /\ distilled[t] \in Nat /\ distilled'[t] \in Nat
        /\ distilled'[t] <= distilled[t] + 1
    BY <1>3
  <2>5. QED
    BY <1>5, <2>1, <2>2, <2>3, <2>4 DEF Evidence
<1>11. Lesson(t)'
  <2>1. /\ \A j \in In(t, {"pair"})' : j \in In(t, {"pair"}) /\ calls'[t][j] = calls[t][j]
        /\ \A j \in In(t, {"distil"})' :
             j \in In(t, {"distil"}) /\ calls'[t][j] = calls[t][j]
        /\ \A j \in In(t, {"mark"})' : j \in In(t, {"mark"}) \/ step = "mark"
        /\ i \in In(t, {"distil"})
    BY <1>1, <1>2, <1>6 DEF In
  <2>2. Lesson(t)
    BY <1>2 DEF Book
  <2>3. /\ row' = row /\ distilling' = distilling /\ overwrote' = overwrote
        /\ Listed(t)' = Listed(t)
        /\ distilled[t] > 0 => distilled'[t] > 0
    BY <1>2, <1>3, <1>7 DEF sweepVars
  <2>4. ASSUME row[t].outcome = "edited", t \notin overwrote
        PROVE  /\ \A j \in In(t, {"distil"})' : calls'[t][j].read = "edited"
               /\ step = "mark" => distilled'[t] > 0
    <3>1. \A j \in In(t, {"distil"}) : calls[t][j].read = "edited"
      BY <1>4, <2>2, <2>4 DEF Lesson
    <3>2. \A j \in In(t, {"distil"})' : calls'[t][j].read = "edited"
      BY <2>1, <3>1
    <3>3. calls[t][i].read = "edited"
      BY <2>1, <3>1
    <3>4. step = "mark" => distilled'[t] = distilled[t] + 1
      BY <1>3, <3>3
    <3>5. QED
      BY <1>3, <3>2, <3>4
  <2>5. ASSUME row[t].outcome = "edited", t \notin overwrote,
               row[t].learned \/ distilling = t \/ In(t, {"mark"})' # {}
        PROVE  distilled'[t] > 0
    <3>1. row[t].learned \/ distilling = t \/ In(t, {"mark"}) # {} \/ step = "mark"
      BY <2>1, <2>5
    <3>2. CASE step = "mark"
      BY <2>4, <2>5, <3>2
    <3>3. CASE row[t].learned \/ distilling = t \/ In(t, {"mark"}) # {}
      BY <1>4, <2>2, <2>3, <2>5, <3>3 DEF Lesson
    <3>4. QED
      BY <3>1, <3>2, <3>3
  <2>6. \A j \in In(t, {"pair"})' : calls'[t][j].read = "pending"
    BY <2>1, <2>2 DEF Lesson
  <2>7. row[t].outcome = "edited" /\ t \notin overwrote =>
          \A q \in Listed(t) : q.outcome = "edited"
    BY <1>4, <2>2 DEF Lesson
  <2>8. row[t].outcome = "edited" /\ t \notin overwrote =>
          /\ \A j \in In(t, {"distil"})' : calls'[t][j].read = "edited"
          /\ \A q \in Listed(t)' : q.outcome = "edited"
          /\ row[t].learned \/ distilling = t \/ In(t, {"mark"})' # {} => distilled'[t] > 0
    BY <2>3, <2>4, <2>5, <2>7
  <2>9. QED
    BY <2>3, <2>6, <2>8 DEF Lesson
<1>12. Book(t)'
  BY <1>8, <1>9, <1>10, <1>11 DEF Book
<1>13. QED
  BY <1>1, <1>2, <1>3, <1>12, OthersAlone, Zenon

\* The learned flag, set on a row that is there.
LEMMA Learned ==
  ASSUME TypeOK, NEW t \in Thread, row[t] # NoRow, Learn(t)
  PROVE  /\ row' \in [Thread -> Row \cup {NoRow}] /\ row'[t] # NoRow /\ row'[t].learned
         /\ row'[t].outcome = row[t].outcome /\ row'[t].sent = row[t].sent
         /\ \A u \in Thread : u # t => row'[u] = row[u]
<1> DEFINE r == [row[t] EXCEPT !.learned = TRUE]
<1>1. row[t] \in Row
  BY DEF TypeOK
<1>2. r \in Row /\ r.learned /\ r.outcome = row[t].outcome /\ r.sent = row[t].sent
  BY <1>1 DEF Row
<1>3. row' = [row EXCEPT ![t] = r]
  BY DEF Learn, TypeOK
<1> HIDE DEF r
<1>4. QED
  BY <1>2, <1>3, Bounds DEF TypeOK

LEMMA MarkSentStep ==
  ASSUME IndInv, NEW t \in Thread, NEW i \in 1 .. Len(calls[t]), MarkSent(t, i)
  PROVE  BookInv'
<1>1. /\ calls[t][i].step = "mark" /\ TypeOK /\ Book(t) /\ "done" \in Step
      /\ Goto(t, i, "done", NoRow) /\ NoRow \in Outcome \cup {NoRow} /\ Learn(t)
      /\ UNCHANGED <<sweepVars, cuts, history>>
  BY DEF MarkSent, At, IndInv, Step
<1>2. ~Open(t) /\ row[t] # NoRow /\ In(t, {"mark"}) # {}
  <2>1. i \in In(t, {"fresh", "distil", "mark"}) /\ i \in In(t, {"mark"})
    BY <1>1 DEF In
  <2>2. QED
    BY <1>1, <2>1 DEF Book, QuietWhenOpen, Open
<1>3. /\ row'[t] # NoRow /\ row'[t].learned
      /\ row'[t].outcome = row[t].outcome /\ row'[t].sent = row[t].sent
      /\ \A u \in Thread : u # t => row'[u] = row[u]
  BY <1>1, <1>2, Learned
<1>4. Owed(t)' = Owed(t) /\ Recorded(t)' = Recorded(t)
  <2>1. /\ Owed(t)' = Owed(t) + Owes("done") - Owes(calls[t][i].step)
        /\ Recorded(t)' = Recorded(t) + Records("done") - Records(calls[t][i].step)
    BY <1>1, CountMoves, Zenon
  <2>2. QED
    BY <1>1, <2>1, Numbers DEF Owes, Records
<1>5. /\ calls'[t][i].step = "done"
      /\ \A j \in 1 .. Len(calls[t]) : j # i => calls'[t][j] = calls[t][j]
      /\ Len(calls'[t]) = Len(calls[t])
  BY <1>1, CallMoves
<1>6. Paid(t)' = 1 /\ Listed(t)' = Listed(t) /\ distilled'[t] = distilled[t]
      /\ paired'[t] = paired[t] /\ cuts' = cuts
  BY <1>1, <1>3 DEF Paid, Listed, sweepVars, history
<1>7. Counted(t)'
  BY <1>1, <1>4, <1>6 DEF Book, Counted
<1>8. QuietWhenOpen(t)' /\ ReplyShown(t)'
  BY <1>1, <1>2, <1>3 DEF Book, QuietWhenOpen, Open, ReplyShown
<1>9. Evidence(t)'
  <2>1. Listed(t)' # {} => Listed(t) # {}
    BY <1>6
  <2>2. Evidence(t) /\ Paid(t)' = 1 /\ distilled'[t] = distilled[t]
        /\ paired'[t] = paired[t] /\ cuts' = cuts
    BY <1>1, <1>6 DEF Book
  <2>3. Owed(t) \in Nat /\ Paid(t) \in 0 .. 1 /\ paired[t] \in Nat /\ cuts \in Nat
        /\ distilled[t] \in Nat
    BY <1>1, Numbers
  <2>4. QED
    BY <1>4, <2>1, <2>2, <2>3 DEF Evidence
<1>10. Lesson(t)'
  <2>1. /\ \A j \in In(t, {"pair"})' : j \in In(t, {"pair"}) /\ calls'[t][j] = calls[t][j]
        /\ \A j \in In(t, {"distil"})' :
             j \in In(t, {"distil"}) /\ calls'[t][j] = calls[t][j]
        /\ \A j \in In(t, {"mark"})' : j \in In(t, {"mark"})
    BY <1>1, <1>5 DEF In
  <2>2. Lesson(t)
    BY <1>1 DEF Book
  <2>3. QED
    BY <1>1, <1>2, <1>3, <2>1, <2>2 DEF Lesson, Listed, sweepVars, history
<1>11. Book(t)'
  BY <1>7, <1>8, <1>9, <1>10 DEF Book
<1>12. QED
  BY <1>1, <1>3, <1>11, OthersAlone, Zenon DEF history

-----------------------------------------------------------------------------
(* The mailbox, the draft side and the sweep. *)

LEMMA MailboxStep ==
  ASSUME IndInv, UNCHANGED <<row, callVars, sweepVars, cuts, history>>
  PROVE  BookInv'
<1>1. \A t \in Thread : Book(t)'
  BY Alone DEF IndInv, Listed, callVars, sweepVars, history
<1>2. QED
  BY <1>1, SweepKept DEF IndInv, BookInv

LEMMA DispatchStep ==
  ASSUME IndInv, NEW t \in Thread, NEW m \in 1 .. MaxSends, DispatchSent(t, m)
  PROVE  BookInv'
<1> DEFINE c == [step |-> "queued", msg |-> m, read |-> NoRow]
<1>1. /\ calls[t] \in Seq(Call) /\ c \in Call /\ TypeOK /\ Book(t)
      /\ UNCHANGED <<row, sweepVars, cuts, history>>
      /\ calls' = [calls EXCEPT ![t] = Append(@, c)] /\ calls \in [Thread -> Seq(Call)]
  BY DEF DispatchSent, IndInv, TypeOK, Call, Step
<1>2. /\ Len(calls'[t]) = Len(calls[t]) + 1 /\ calls'[t][Len(calls[t]) + 1].step = "queued"
      /\ \A j \in 1 .. Len(calls[t]) : calls'[t][j] = calls[t][j]
      /\ \A u \in Thread : u # t => calls'[u] = calls[u]
  BY <1>1
<1>3. Len(calls[t]) \in Nat
  BY <1>1
<1>4. \A S : "queued" \notin S => In(t, S)' = In(t, S)
  BY <1>2, <1>3 DEF In
<1>5. /\ In(t, {"fresh", "distil", "mark", "done"})' = In(t, {"fresh", "distil", "mark", "done"})
      /\ In(t, {"fresh", "distil"})' = In(t, {"fresh", "distil"})
      /\ In(t, {"fresh", "distil", "mark"})' = In(t, {"fresh", "distil", "mark"})
      /\ In(t, {"distil"})' = In(t, {"distil"}) /\ In(t, {"mark"})' = In(t, {"mark"})
      /\ In(t, {"pair"})' = In(t, {"pair"})
  <2>1. /\ "queued" \notin {"fresh", "distil", "mark", "done"} /\ "queued" \notin {"mark"}
        /\ "queued" \notin {"fresh", "distil"} /\ "queued" \notin {"fresh", "distil", "mark"}
        /\ "queued" \notin {"distil"} /\ "queued" \notin {"pair"}
    OBVIOUS
  <2>2. QED
    BY <1>4, <2>1, Zenon
<1>6. Owed(t)' = Owed(t) /\ Recorded(t)' = Recorded(t)
  BY <1>5 DEF Owed, Recorded
<1>7. Counted(t)' /\ QuietWhenOpen(t)' /\ ReplyShown(t)'
  BY <1>1, <1>5, <1>6 DEF Book, Counted, QuietWhenOpen, Open, ReplyShown, Listed, sweepVars,
     history
<1>8. Evidence(t)'
  BY <1>1, <1>6 DEF Book, Evidence, Paid, Listed, sweepVars, history
<1>9. Lesson(t)'
  <2>1. \A j \in In(t, {"pair"}) \cup In(t, {"distil"}) : calls'[t][j] = calls[t][j]
    BY <1>2 DEF In
  <2>2. QED
    BY <1>1, <1>5, <2>1 DEF Book, Lesson, Listed, sweepVars, history
<1>10. \A u \in Thread : Book(u)'
  <2>1. Book(t)'
    BY <1>7, <1>8, <1>9 DEF Book
  <2>2. \A u \in Thread : u # t => Book(u)'
    BY <1>1, <1>2, Alone DEF IndInv, Listed, sweepVars, history
  <2>3. QED
    BY <2>1, <2>2
<1>11. QED
  BY <1>1, <1>10, SweepKept DEF IndInv, BookInv

\* The calls do not move.
LEMMA CallsRest ==
  ASSUME calls' = calls, NEW t
  PROVE  /\ \A S : In(t, S)' = In(t, S)
         /\ Owed(t)' = Owed(t) /\ Recorded(t)' = Recorded(t)
BY DEF In, Owed, Recorded

LEMMA CaptureDraftStep ==
  ASSUME IndInv, NEW t \in Thread, CaptureDraft(t)
  PROVE  BookInv'
<1>1. /\ Open(t) /\ TypeOK /\ Book(t) /\ calls' = calls
      /\ UNCHANGED <<sweepVars, cuts, history>>
  BY DEF CaptureDraft, Open, IndInv, callVars
<1>2. /\ row'[t] # NoRow /\ row'[t].outcome = "pending" /\ row'[t].sent = 0
      /\ ~row'[t].learned
      /\ \A u \in Thread : u # t => row'[u] = row[u]
  <2> DEFINE r == [draft |-> TRUE, draftAt |-> now, outcome |-> "pending", sent |-> 0,
                   learned |-> FALSE]
  <2>1. r \in Row
    BY <1>1, Bounds DEF Row, Outcome, TypeOK
  <2>2. row' = [row EXCEPT ![t] = r]
    BY DEF CaptureDraft
  <2>3. row'[t] = r /\ \A u \in Thread : u # t => row'[u] = row[u]
    BY <1>1, <2>2 DEF TypeOK
  <2>4. r.outcome = "pending" /\ r.sent = 0 /\ ~r.learned
    OBVIOUS
  <2> HIDE DEF r
  <2>5. QED
    BY <2>1, <2>3, <2>4, Bounds
<1>3. Counted(t)' /\ QuietWhenOpen(t)' /\ ReplyShown(t)'
  BY <1>1, <1>2, CallsRest DEF Book, Counted, QuietWhenOpen, Open, ReplyShown, Listed,
     sweepVars, history
<1>4. Evidence(t)'
  <2>1. Paid(t) = 0 /\ Paid(t)' = 0
    BY <1>1, <1>2 DEF Book, QuietWhenOpen, Open, Paid, sweepVars
  <2>2. QED
    BY <1>1, <2>1, CallsRest DEF Book, Evidence, Listed, sweepVars, history
<1>5. Lesson(t)'
  BY <1>1, <1>2, CallsRest DEF Book, Lesson
<1>6. Book(t)'
  BY <1>3, <1>4, <1>5 DEF Book
<1>7. \A u \in Thread : u # t => Book(u)'
  BY <1>1, <1>2, Alone DEF IndInv, Listed, sweepVars, history
<1>8. QED
  BY <1>1, <1>6, <1>7, SweepKept DEF IndInv, BookInv

LEMMA ListPendingStep == ASSUME IndInv, ListPending PROVE BookInv'
<1>1. /\ sweep = "idle" /\ sweep' = "flip"
      /\ UNCHANGED <<row, calls, queue, distilling, cuts, history>>
  BY DEF ListPending, callVars
<1>2. \A t \in Thread : Book(t)'
  BY <1>1, Alone DEF IndInv, Listed, history
<1>3. SweepInv'
  BY <1>1 DEF IndInv, SweepInv
<1>4. QED
  BY <1>2, <1>3 DEF BookInv

LEMMA NoReplyStep ==
  ASSUME IndInv, NEW f \in flips, MarkNoReply(f)
  PROVE  BookInv'
<1> DEFINE t == f.thread
<1>1. /\ t \in Thread /\ TypeOK /\ Book(t) /\ calls' = calls
      /\ UNCHANGED <<queue, distilling, sweep, cuts, history>>
  BY DEF MarkNoReply, IndInv, TypeOK, callVars
<1>2. SweepInv'
  BY <1>1 DEF IndInv, SweepInv
<1>3. CASE row' = row
  BY <1>1, <1>2, <1>3, Alone DEF IndInv, BookInv, Listed, history
<1>4. CASE /\ row[t] # NoRow /\ row[t].outcome = "pending"
           /\ row' = [row EXCEPT ![t].outcome = "no_reply"]
  <2> DEFINE r == [row[t] EXCEPT !.outcome = "no_reply"]
  <2>1. row[t] \in Row
    BY <1>1, <1>4 DEF TypeOK
  <2>2. r \in Row /\ r.outcome = "no_reply" /\ r.sent = row[t].sent /\ r.learned = row[t].learned
    BY <2>1 DEF Row, Outcome
  <2>3. row'[t] = r /\ \A u \in Thread : u # t => row'[u] = row[u]
    BY <1>1, <1>4 DEF TypeOK
  <2> HIDE DEF r, t
  <2>4. /\ row'[t] # NoRow /\ row'[t].outcome = "no_reply" /\ row'[t].sent = 0
        /\ ~row'[t].learned /\ Open(t)
    BY <1>1, <1>4, <2>2, <2>3, Bounds DEF Book, QuietWhenOpen, Open
  <2>5. Counted(t)' /\ QuietWhenOpen(t)' /\ ReplyShown(t)'
    BY <1>1, <2>4, CallsRest DEF Book, Counted, QuietWhenOpen, Open, ReplyShown, history
  <2>6. Evidence(t)'
    <3>1. Paid(t) = 0 /\ Paid(t)' = 0
      BY <1>1, <2>4 DEF Book, QuietWhenOpen, Open, Paid
    <3>2. QED
      BY <1>1, <3>1, CallsRest DEF Book, Evidence, Listed, history
  <2>7. Lesson(t)'
    BY <1>1, <2>4, CallsRest DEF Book, Lesson
  <2>8. Book(t)'
    BY <2>5, <2>6, <2>7 DEF Book
  <2>9. \A u \in Thread : u # t => Book(u)'
    BY <1>1, <2>3, Alone DEF IndInv, Listed, history
  <2>10. QED
    BY <1>2, <2>8, <2>9 DEF BookInv
<1>5. QED
  BY <1>3, <1>4 DEF MarkNoReply

LEMMA ListUnlearnedStep == ASSUME IndInv, ListUnlearned PROVE BookInv'
<1>1. /\ sweep = "flip" /\ sweep' = "distil" /\ calls' = calls
      /\ UNCHANGED <<row, distilling, cuts, history>>
      /\ queue' = {[thread |-> t, outcome |-> row[t].outcome] :
                     t \in {u \in Thread : /\ row[u] # NoRow
                                           /\ ~row[u].learned
                                           /\ row[u].outcome # "pending"}}
  BY DEF ListUnlearned, callVars
<1>2. /\ queue = {} /\ distilling = NoRow /\ TypeOK
  BY <1>1 DEF IndInv, SweepInv
<1>3. \A q \in queue' : /\ q.thread \in Thread /\ row[q.thread] # NoRow
                         /\ ~row[q.thread].learned /\ row[q.thread].outcome # "pending"
                         /\ q = [thread |-> q.thread, outcome |-> row[q.thread].outcome]
  BY <1>1
<1>4. SweepInv'
  <2>1. \A q \in queue' : distilling' # q.thread
    BY <1>1, <1>2, <1>3, Bounds
  <2>2. \A q, r \in queue' : q.thread = r.thread => q = r
    BY <1>3
  <2>3. QED
    BY <1>1, <2>1, <2>2 DEF SweepInv
<1>5. ASSUME NEW t \in Thread PROVE Book(t)'
  <2>1. /\ Book(t) /\ distilling # t
        /\ \A q \in Listed(t)' : /\ q.outcome = row[t].outcome
                                 /\ ~Open(t) /\ ~row[t].learned
    BY <1>2, <1>3, Bounds DEF IndInv, Listed, Open
  <2>2. Counted(t)' /\ QuietWhenOpen(t)' /\ ReplyShown(t)'
    BY <1>1, <2>1, CallsRest DEF Book, Counted, QuietWhenOpen, Open, ReplyShown, history
  <2>3. Evidence(t)'
    <3>1. Listed(t)' # {} => Paid(t) = 0
      BY <2>1 DEF Paid
    <3>2. Paid(t)' = Paid(t) /\ distilled'[t] = distilled[t] /\ paired'[t] = paired[t]
          /\ cuts' = cuts /\ Owed(t)' = Owed(t) /\ Evidence(t)
      BY <1>1, <2>1, CallsRest DEF Paid, history, Book
    <3>3. QED
      BY <1>2, <3>1, <3>2, Numbers DEF Evidence
  <2>4. Lesson(t)'
    BY <1>1, <2>1, CallsRest DEF Book, Lesson, history
  <2>5. QED
    BY <2>2, <2>3, <2>4 DEF Book
<1>6. QED
  BY <1>4, <1>5 DEF BookInv

\* What is listed has a reply, and taking it from the list takes all of it.
LEMMA TakeListed ==
  ASSUME IndInv, NEW q \in queue, queue' = queue \ {q}
  PROVE  /\ q.thread \in Thread /\ q \in Listed(q.thread) /\ Listed(q.thread)' = {}
         /\ ~Open(q.thread) /\ q.outcome \in Outcome /\ sweep = "distil"
         /\ \A u \in Thread : Listed(u)' \subseteq Listed(u)
         /\ \A r \in queue' : r.thread # q.thread
<1>1. q.thread \in Thread /\ q.outcome \in Outcome
  BY DEF IndInv, TypeOK
<1>2. q \in Listed(q.thread) /\ \A u \in Thread : Listed(u)' \subseteq Listed(u)
  BY DEF Listed
<1>3. \A r \in queue' : r.thread # q.thread
  BY DEF IndInv, SweepInv
<1>4. Listed(q.thread)' = {}
  BY <1>3 DEF Listed
<1>5. ~Open(q.thread)
  BY <1>1, <1>2 DEF IndInv, Book, QuietWhenOpen
<1>6. sweep = "distil"
  BY DEF IndInv, SweepInv
<1>7. QED
  BY <1>1, <1>2, <1>3, <1>4, <1>5, <1>6

LEMMA FailAgainStep ==
  ASSUME IndInv, NEW q \in queue, FailAgain(q)
  PROVE  BookInv'
<1>1. /\ queue' = queue \ {q} /\ calls' = calls
      /\ UNCHANGED <<row, sweep, distilling, cuts, history>>
  BY DEF FailAgain, callVars
<1>2. SweepInv'
  BY <1>1, TakeListed DEF IndInv, SweepInv
<1>3. \A u \in Thread : Listed(u)' \subseteq Listed(u)
  BY <1>1, TakeListed
<1>4. \A u \in Thread : Book(u)'
  BY <1>1, <1>3, Alone DEF IndInv, history
<1>5. QED
  BY <1>2, <1>4 DEF BookInv

LEMMA DistilAgainStep ==
  ASSUME IndInv, NEW q \in queue, DistilAgain(q)
  PROVE  BookInv'
<1> DEFINE t == q.thread
<1>1. /\ queue' = queue \ {q} /\ calls' = calls /\ distilling = NoRow /\ distilling' = t
      /\ sweep = "distil" /\ Apply(t, q.outcome) /\ TypeOK
      /\ UNCHANGED <<row, sweep, cuts, paired, overwrote>>
  BY DEF DistilAgain, callVars, IndInv
<1>2. /\ t \in Thread /\ q \in Listed(t) /\ Listed(t)' = {} /\ ~Open(t)
      /\ \A u \in Thread : Listed(u)' \subseteq Listed(u)
      /\ \A r \in queue' : r.thread # t
  BY <1>1, TakeListed
<1> HIDE DEF t
<1>3. /\ distilled[t] \in Nat /\ distilled'[t] \in Nat /\ distilled'[t] <= distilled[t] + 1
      /\ q.outcome = "edited" => distilled'[t] > 0
      /\ \A u \in Thread : u # t => distilled'[u] = distilled[u]
  BY <1>1, <1>2 DEF Apply, TypeOK
<1>4. SweepInv'
  BY <1>1, <1>2 DEF IndInv, SweepInv
<1>5. Book(t)'
  <2>1. Book(t)
    BY <1>2 DEF IndInv
  <2>2. Counted(t)' /\ QuietWhenOpen(t)' /\ ReplyShown(t)'
    BY <1>1, <1>2, <2>1, CallsRest DEF Book, Counted, QuietWhenOpen, Open, ReplyShown
  <2>3. Evidence(t)'
    <3>1. distilled[t] + Owed(t) <= paired[t] + cuts
      BY <1>2, <2>1 DEF Book, Evidence
    <3>2. Paid(t)' = 1 /\ Owed(t)' = Owed(t) /\ paired'[t] = paired[t] /\ cuts' = cuts
      BY <1>1, CallsRest DEF Paid
    <3>3. Owed(t) \in Nat /\ paired[t] \in Nat /\ cuts \in Nat
      BY <1>1, <1>2, Numbers
    <3>4. distilled'[t] + Owed(t)' <= paired'[t] + cuts' + Paid(t)'
      BY <1>3, <3>1, <3>2, <3>3
    <3>5. QED
      BY <1>2, <3>4 DEF Evidence
  <2>4. Lesson(t)'
    <3>1. row[t] # NoRow /\ row[t].outcome = "edited" /\ t \notin overwrote =>
            q.outcome = "edited"
      BY <1>2, <2>1 DEF Book, Lesson
    <3>2. QED
      BY <1>1, <1>2, <1>3, <2>1, <3>1, CallsRest DEF Book, Lesson
  <2>5. QED
    BY <2>2, <2>3, <2>4 DEF Book
<1>6. \A u \in Thread : u # t => Book(u)'
  BY <1>1, <1>2, <1>3, Alone, Bounds DEF IndInv
<1>7. QED
  BY <1>4, <1>5, <1>6 DEF BookInv

LEMMA MarkAgainStep == ASSUME IndInv, MarkAgain PROVE BookInv'
<1>1. PICK t \in Thread :
        /\ t = distilling /\ Learn(t) /\ distilling' = NoRow /\ calls' = calls
        /\ UNCHANGED <<queue, sweep, cuts, history>> /\ TypeOK /\ Book(t)
  BY DEF MarkAgain, IndInv, TypeOK, callVars
<1>2. ~Open(t) /\ row[t] # NoRow
  BY <1>1 DEF Book, QuietWhenOpen, Open
<1>3. /\ row'[t] # NoRow /\ row'[t].learned
      /\ row'[t].outcome = row[t].outcome /\ row'[t].sent = row[t].sent
      /\ \A u \in Thread : u # t => row'[u] = row[u]
  BY <1>1, <1>2, Learned
<1>4. Listed(t) = {} /\ Listed(t)' = {}
  BY <1>1 DEF IndInv, SweepInv, Listed
<1>5. SweepInv'
  BY <1>1, Bounds DEF IndInv, SweepInv, TypeOK
<1>6. Book(t)'
  <2>1. Counted(t)' /\ QuietWhenOpen(t)' /\ ReplyShown(t)'
    BY <1>1, <1>2, <1>3, CallsRest DEF Book, Counted, QuietWhenOpen, Open, ReplyShown, history
  <2>2. Evidence(t)'
    <3>1. Paid(t) = 1 /\ Paid(t)' = 1 /\ Owed(t)' = Owed(t) /\ distilled' = distilled
          /\ paired' = paired /\ cuts' = cuts
      BY <1>1, <1>3, CallsRest DEF Paid, history
    <3>2. QED
      BY <1>1, <1>4, <3>1 DEF Book, Evidence
  <2>3. Lesson(t)'
    BY <1>1, <1>2, <1>3, <1>4, CallsRest DEF Book, Lesson, history
  <2>4. QED
    BY <2>1, <2>2, <2>3 DEF Book
<1>7. \A u \in Thread : u # t => Book(u)'
  BY <1>1, <1>3, Alone, Bounds DEF IndInv, Listed, history
<1>8. QED
  BY <1>5, <1>6, <1>7 DEF BookInv

LEMMA PruneStep ==
  ASSUME IndInv, NEW gone \in SUBSET Thread, Prune(gone)
  PROVE  BookInv'
<1>1. /\ calls' = calls /\ queue = {} /\ queue' = queue /\ distilling = NoRow
      /\ distilling' = distilling /\ cuts' = cuts
      /\ row' = [t \in Thread |-> IF t \in gone THEN NoRow ELSE row[t]]
      /\ paired' = [t \in Thread |-> IF t \in gone THEN 0 ELSE paired[t]]
      /\ distilled' = [t \in Thread |-> IF t \in gone THEN 0 ELSE distilled[t]]
      /\ overwrote' = overwrote \ gone /\ TypeOK
  BY DEF Prune, callVars, IndInv
<1>2. SweepInv'
  BY <1>1 DEF SweepInv
<1>3. ASSUME NEW t \in gone PROVE Book(t)'
  <2>1. t \in Thread /\ row'[t] = NoRow /\ paired'[t] = 0 /\ distilled'[t] = 0
    BY <1>1
  <2>2. \A i \in 1 .. Len(calls[t]) : calls[t][i].step \in {"queued", "done"}
    BY DEF Prune, Expired
  <2>3. /\ In(t, {"fresh", "distil", "mark"})' = {} /\ In(t, {"fresh", "distil"})' = {}
        /\ In(t, {"pair"})' = {}
    BY <1>1, <2>2 DEF In
  <2>4. Owed(t)' = 0
    BY <2>3, FS_EmptySet DEF Owed
  <2>5. Recorded(t)' \in Nat /\ cuts \in Nat
    BY <1>1, <2>1, Numbers, CallsRest
  <2>6. Listed(t)' = {} /\ distilling' # t
    BY <1>1, <2>1, Bounds DEF Listed
  <2>7. Paid(t)' = 0
    BY <2>1, <2>6 DEF Paid
  <2>8. Evidence(t)'
    BY <1>1, <2>1, <2>4, <2>5, <2>6, <2>7 DEF Evidence
  <2>9. QED
    BY <2>1, <2>3, <2>5, <2>6, <2>8 DEF Book, Counted, QuietWhenOpen, ReplyShown, Lesson
<1>4. \A t \in Thread : t \notin gone => Book(t)'
  BY <1>1, Alone DEF IndInv, Listed
<1>5. QED
  BY <1>2, <1>3, <1>4 DEF BookInv

LEMMA SeqOfFunction ==
  ASSUME NEW n \in Nat, NEW S, NEW f \in [1 .. n -> S]
  PROVE  f \in Seq(S) /\ Len(f) = n
OBVIOUS

LEMMA CrashType ==
  ASSUME IndInv, Crash
  PROVE  /\ calls' \in [Thread -> Seq(Call)]
         /\ \A t \in Thread : Len(calls'[t]) = Len(calls[t])
<1> DEFINE s(t) == [i \in 1 .. Len(calls[t]) |->
                      [calls[t][i] EXCEPT !.step = "done", !.read = NoRow]]
<1>1. ASSUME NEW t \in Thread
      PROVE  s(t) \in Seq(Call) /\ Len(s(t)) = Len(calls[t])
  <2>1. calls[t] \in Seq(Call) /\ Len(calls[t]) \in Nat
    BY DEF IndInv, TypeOK
  <2>2. ASSUME NEW i \in 1 .. Len(calls[t])
        PROVE  [calls[t][i] EXCEPT !.step = "done", !.read = NoRow] \in Call
    <3>1. calls[t][i] \in Call
      BY <2>1
    <3>2. QED
      BY <3>1 DEF Call, Step
  <2>3. s(t) \in [1 .. Len(calls[t]) -> Call]
    BY <2>2
  <2> HIDE DEF s
  <2>4. QED
    BY <2>1, <2>3, SeqOfFunction
<1>2. calls' = [t \in Thread |-> s(t)]
  BY DEF Crash
<1> HIDE DEF s
<1>3. QED
  BY <1>1, <1>2

LEMMA CrashStep == ASSUME IndInv, Crash PROVE BookInv'
<1>1. /\ cuts' = cuts + 1 /\ sweep' = "idle" /\ queue' = {} /\ distilling' = NoRow
      /\ UNCHANGED <<row, history>> /\ TypeOK
  BY DEF Crash, IndInv
<1>2. SweepInv'
  BY <1>1 DEF SweepInv
<1>3. ASSUME NEW t \in Thread PROVE Book(t)'
  <2>1. /\ Len(calls[t]) \in Nat /\ Len(calls'[t]) = Len(calls[t])
        /\ \A i \in 1 .. Len(calls[t]) : calls'[t][i].step = "done"
    <3>1. calls[t] \in Seq(Call)
      BY <1>1 DEF TypeOK
    <3>2. \A i \in 1 .. Len(calls[t]) : calls[t][i] \in Call
      BY <3>1
    <3>3. calls' = [u \in Thread |->
                      [i \in 1 .. Len(calls[u]) |->
                         [calls[u][i] EXCEPT !.step = "done", !.read = NoRow]]]
      BY DEF Crash
    <3>4. \A i \in 1 .. Len(calls[t]) :
            calls'[t][i] = [calls[t][i] EXCEPT !.step = "done", !.read = NoRow]
      BY <3>3
    <3>5. Len(calls[t]) \in Nat /\ Len(calls'[t]) = Len(calls[t])
      BY <3>1, CrashType
    <3>6. QED
      BY <3>2, <3>4, <3>5 DEF Call
  <2>2. /\ In(t, {"fresh", "distil", "mark"})' = {} /\ In(t, {"fresh", "distil"})' = {}
        /\ In(t, {"pair"})' = {} /\ In(t, {"distil"})' = {} /\ In(t, {"mark"})' = {}
        /\ In(t, {"fresh", "distil", "mark", "done"})' = 1 .. Len(calls[t])
    BY <2>1 DEF In
  <2>3. Owed(t)' = 0
    BY <2>2, FS_EmptySet DEF Owed
  <2>4. Recorded(t)' = Len(calls[t]) /\ Recorded(t) <= Len(calls[t]) /\ Recorded(t) \in Nat
    <3>1. Cardinality(1 .. Len(calls[t])) = Len(calls[t])
      BY <2>1, FS_Interval
    <3>2. QED
      BY <1>1, <2>2, <3>1, Sizes DEF Recorded
  <2>5. Listed(t)' = {} /\ distilling' # t /\ Book(t)
    BY <1>1, Bounds DEF Listed, IndInv
  <2>6. Counted(t)'
    BY <1>1, <2>4, <2>5 DEF Book, Counted, history
  <2>7. QuietWhenOpen(t)' /\ ReplyShown(t)'
    BY <1>1, <2>2, <2>5 DEF Book, QuietWhenOpen, Open, ReplyShown
  <2>8. Evidence(t)'
    <3>1. /\ distilled[t] + Owed(t) <= paired[t] + cuts + Paid(t)
          /\ distilled' = distilled /\ paired' = paired
      BY <1>1, <2>5 DEF Book, Evidence, history
    <3>2. Paid(t)' \in 0 .. 1
      BY DEF Paid
    <3>3. QED
      BY <1>1, <2>3, <2>5, <3>1, <3>2, Numbers DEF Evidence
  <2>9. Lesson(t)'
    BY <1>1, <2>2, <2>5 DEF Book, Lesson, history
  <2>10. QED
    BY <2>6, <2>7, <2>8, <2>9 DEF Book
<1>4. QED
  BY <1>2, <1>3 DEF BookInv

-----------------------------------------------------------------------------
(* Types. *)

LEMMA GotoType ==
  ASSUME TypeOK, NEW t \in Thread, NEW i \in 1 .. Len(calls[t]), NEW step \in Step,
         NEW read \in Outcome \cup {NoRow}, Goto(t, i, step, read)
  PROVE  /\ calls' \in [Thread -> Seq(Call)]
         /\ \A u \in Thread : Len(calls'[u]) <= MaxCalls
<1>1. calls' \in [Thread -> Seq(Call)] /\ \A u \in Thread : Len(calls'[u]) = Len(calls[u])
  BY CallMoves
<1>2. QED
  BY <1>1 DEF TypeOK

\* A call that has not recorded its send leaves room for its record.
LEMMA RoomToRecord ==
  ASSUME IndInv, NEW t \in Thread, NEW i \in 1 .. Len(calls[t]),
         calls[t][i].step \in {"pair", "capture"}
  PROVE  paired[t] + 1 \in 0 .. MaxCalls
<1> DEFINE R == In(t, {"fresh", "distil", "mark", "done"})
           all == 1 .. Len(calls[t])
<1>1. TypeOK /\ Counted(t) /\ calls[t] \in Seq(Call) /\ Len(calls[t]) <= MaxCalls
  BY DEF IndInv, Book, TypeOK
<1>2. Len(calls[t]) \in Nat
  BY <1>1
<1>3. IsFiniteSet(all) /\ Cardinality(all) = Len(calls[t])
  BY <1>2, IntervalSize
<1>4. R \subseteq all \ {i}
  BY DEF In
<1> HIDE DEF all
<1>5. IsFiniteSet(all \ {i}) /\ Cardinality(all \ {i}) = Len(calls[t]) - 1
  BY <1>3, FS_RemoveElement DEF all
<1>6. Cardinality(R) <= Len(calls[t]) - 1
  BY <1>4, <1>5, FS_Subset
<1>7. paired[t] \in Nat /\ paired[t] <= Cardinality(R)
  BY <1>1 DEF Counted, Recorded
<1>8. Cardinality(R) \in Nat
  BY <1>1, Sizes
<1> HIDE DEF R
<1>9. QED
  BY <1>1, <1>2, <1>6, <1>7, <1>8, Bounds

LEMMA LearnType ==
  ASSUME TypeOK, NEW t \in Thread, Learn(t)
  PROVE  row' \in [Thread -> Row \cup {NoRow}]
<1>1. CASE row[t] = NoRow
  BY <1>1 DEF Learn, TypeOK
<1>2. CASE row[t] # NoRow
  BY <1>2, Learned
<1>3. QED
  BY <1>1, <1>2

LEMMA LearnSent ==
  ASSUME TypeOK, NEW u \in Thread, Learn(u), NEW t \in Thread, row[t] # NoRow, row[t].sent > 0
  PROVE  row'[t] = row[t] \/ row'[t].sent > 0
<1>1. CASE row[u] = NoRow
  BY <1>1 DEF Learn, TypeOK
<1>2. CASE row[u] # NoRow
  BY <1>2, Learned
<1>3. QED
  BY <1>1, <1>2

LEMMA SentTypes ==
  ASSUME IndInv, NEW t \in Thread, NEW i \in 1 .. Len(calls[t]), OnSent(t, i)
  PROVE  TypeOK'
<1>1. /\ TypeOK /\ calls \in [Thread -> Seq(Call)] /\ row \in [Thread -> Row \cup {NoRow}]
      /\ distilled \in [Thread -> Nat] /\ paired \in [Thread -> 0 .. MaxCalls]
      /\ overwrote \subseteq Thread
  BY DEF IndInv, TypeOK
<1> DEFINE Rest == UNCHANGED <<now, mail, seen, drainedAt, watched, sweepVars, cuts>>
           CallsFine == /\ calls' \in [Thread -> Seq(Call)]
                        /\ \A u \in Thread : Len(calls'[u]) <= MaxCalls
           BookFine == /\ row' \in [Thread -> Row \cup {NoRow}]
                       /\ distilled' \in [Thread -> Nat]
                       /\ paired' \in [Thread -> 0 .. MaxCalls]
                       /\ overwrote' \subseteq Thread
<1>2. Rest /\ CallsFine /\ BookFine => TypeOK'
  BY <1>1 DEF TypeOK, sweepVars
<1>3. NoRow \in Outcome \cup {NoRow}
  OBVIOUS
<1>4. CASE ReadRow(t, i)
  <2>1. PICK step \in {"pair", "capture", "done"} : Goto(t, i, step, OutcomeOf(t))
    BY <1>4 DEF ReadRow
  <2>2. step \in Step
    BY DEF Step
  <2>3. CallsFine
    BY <1>1, <2>1, <2>2, GotoType, ReadType
  <2>4. Rest /\ BookFine
    BY <1>1, <1>4 DEF ReadRow, history
  <2>5. QED
    BY <1>2, <2>3, <2>4
<1>5. CASE PairDrafted(t, i) \/ CaptureNonDrafted(t, i)
  <2>1. PICK o \in Outcome : RecordSent(t, i, o)
    BY <1>5 DEF PairDrafted, CaptureNonDrafted, Outcome
  <2>2. PICK step \in Step : Goto(t, i, step, NoRow)
    BY <1>5 DEF PairDrafted, CaptureNonDrafted, Step
  <2>3. CallsFine
    BY <1>1, <1>3, <2>2, GotoType
  <2>4. row' \in [Thread -> Row \cup {NoRow}] /\ distilled' = distilled
    BY <2>1, SendRecorded
  <2>5. paired' \in [Thread -> 0 .. MaxCalls]
    <3>1. paired[t] + 1 \in 0 .. MaxCalls
      BY <1>5, RoomToRecord DEF PairDrafted, CaptureNonDrafted, At
    <3>2. paired' = [paired EXCEPT ![t] = paired[t] + 1]
      BY <2>1 DEF RecordSent
    <3>3. QED
      BY <1>1, <3>1, <3>2
  <2>6. overwrote' \subseteq Thread
    BY <1>1, <2>1 DEF RecordSent
  <2>7. Rest
    BY <1>5 DEF PairDrafted, CaptureNonDrafted
  <2>8. QED
    BY <1>1, <1>2, <2>3, <2>4, <2>5, <2>6, <2>7
<1>6. CASE ReadFresh(t, i)
  <2>1. PICK step \in Step : Goto(t, i, step, OutcomeOf(t))
    BY <1>6 DEF ReadFresh, Step
  <2>2. CallsFine
    BY <1>1, <2>1, GotoType, ReadType
  <2>3. Rest /\ BookFine
    BY <1>1, <1>6 DEF ReadFresh, history
  <2>4. QED
    BY <1>2, <2>2, <2>3
<1>7. CASE DistilSent(t, i)
  <2>1. PICK step \in Step : Goto(t, i, step, NoRow)
    BY <1>7 DEF DistilSent, Step
  <2>2. CallsFine
    BY <1>1, <1>3, <2>1, GotoType
  <2>3. distilled' \in [Thread -> Nat]
    <3>1. Apply(t, calls[t][i].read) \/ distilled' = distilled
      BY <1>7 DEF DistilSent
    <3>2. distilled[t] \in Nat /\ distilled[t] + 1 \in Nat
      BY <1>1
    <3>3. QED
      BY <1>1, <3>1, <3>2 DEF Apply
  <2>4. Rest /\ BookFine
    BY <1>1, <1>7, <2>3 DEF DistilSent
  <2>5. QED
    BY <1>2, <2>2, <2>4
<1>8. CASE MarkSent(t, i)
  <2>1. Goto(t, i, "done", NoRow) /\ "done" \in Step /\ Learn(t)
    BY <1>8 DEF MarkSent, Step
  <2>2. CallsFine
    BY <1>1, <1>3, <2>1, GotoType
  <2>3. row' \in [Thread -> Row \cup {NoRow}]
    BY <1>1, <2>1, LearnType
  <2>4. Rest /\ BookFine
    BY <1>1, <1>8, <2>3 DEF MarkSent, history
  <2>5. QED
    BY <1>2, <2>2, <2>4
<1>9. QED
  BY <1>4, <1>5, <1>6, <1>7, <1>8 DEF OnSent

LEMMA MailTypes ==
  ASSUME IndInv, NEW t \in Thread, OwnerSends(t) \/ CaptureDraft(t)
  PROVE  TypeOK'
<1>1. CASE OwnerSends(t)
  <2> DEFINE s == Append(mail[t], now)
  <2>1. mail[t] \in Seq(0 .. MaxTime) /\ now \in 0 .. MaxTime
    BY DEF IndInv, TypeOK
  <2>2. s \in Seq(0 .. MaxTime) /\ Len(s) = Len(mail[t]) + 1 /\ Len(mail[t]) \in Nat
    BY <2>1
  <2>3. mail' = [mail EXCEPT ![t] = s] /\ Len(mail[t]) < MaxSends
        /\ UNCHANGED <<now, seen, drainedAt, watched, row, callVars, sweepVars, cuts, history>>
    BY <1>1 DEF OwnerSends
  <2> HIDE DEF s
  <2>4. /\ mail' \in [Thread -> Seq(0 .. MaxTime)] /\ mail'[t] = s
        /\ \A u \in Thread : u # t => mail'[u] = mail[u]
    BY <2>2, <2>3 DEF IndInv, TypeOK
  <2>5. \A u \in Thread : seen'[u] <= Len(mail'[u]) /\ Len(mail'[u]) <= MaxSends
    <3>1. seen' = seen /\ seen[t] \in 0 .. MaxSends /\ seen[t] <= Len(mail[t])
      BY <2>3 DEF IndInv, TypeOK
    <3>2. seen'[t] <= Len(mail'[t]) /\ Len(mail'[t]) <= MaxSends
      BY <2>2, <2>3, <2>4, <3>1, Bounds
    <3>3. \A u \in Thread : u # t => seen'[u] <= Len(mail'[u]) /\ Len(mail'[u]) <= MaxSends
      BY <2>4, <3>1 DEF IndInv, TypeOK
    <3>4. QED
      BY <3>2, <3>3
  <2>6. QED
    BY <2>3, <2>4, <2>5 DEF IndInv, TypeOK, callVars, sweepVars, history
<1>2. CASE CaptureDraft(t)
  <2> DEFINE r == [draft |-> TRUE, draftAt |-> now, outcome |-> "pending", sent |-> 0,
                   learned |-> FALSE]
  <2>1. r \in Row
    BY Bounds DEF IndInv, TypeOK, Row, Outcome
  <2>2. row' = [row EXCEPT ![t] = r]
    BY <1>2 DEF CaptureDraft
  <2> HIDE DEF r
  <2>3. row' \in [Thread -> Row \cup {NoRow}]
    BY <2>1, <2>2 DEF IndInv, TypeOK
  <2>4. UNCHANGED <<now, mail, seen, drainedAt, watched, callVars, sweepVars, cuts, history>>
    BY <1>2 DEF CaptureDraft
  <2>5. QED
    BY <2>3, <2>4 DEF IndInv, TypeOK, callVars, sweepVars, history
<1>3. QED
  BY <1>1, <1>2

LEMMA DrainTypes ==
  ASSUME IndInv,
         \/ \E t \in Thread, m \in 1 .. MaxSends : DispatchSent(t, m)
         \/ EndDrain \/ ResetStale \/ TurnAway \/ Tick
  PROVE  TypeOK'
<1>1. ASSUME NEW t \in Thread, NEW m \in 1 .. MaxSends, DispatchSent(t, m) PROVE TypeOK'
  <2> DEFINE c == [step |-> "queued", msg |-> m, read |-> NoRow]
             s == Append(calls[t], c)
  <2>1. calls[t] \in Seq(Call) /\ c \in Call
    BY DEF IndInv, TypeOK, Call, Step
  <2>2. s \in Seq(Call) /\ Len(s) = Len(calls[t]) + 1 /\ Len(calls[t]) \in Nat
    BY <2>1
  <2>3. /\ calls' = [calls EXCEPT ![t] = s] /\ Len(calls[t]) < MaxCalls
        /\ seen' = [seen EXCEPT ![t] = m] /\ m \in 1 .. Len(mail[t])
        /\ UNCHANGED <<now, mail, drainedAt, watched, row, sweepVars, cuts, history>>
    BY <1>1 DEF DispatchSent
  <2> HIDE DEF s
  <2>4. /\ calls' \in [Thread -> Seq(Call)] /\ calls'[t] = s
        /\ \A u \in Thread : u # t => calls'[u] = calls[u]
    BY <2>2, <2>3 DEF IndInv, TypeOK
  <2>5. \A u \in Thread : Len(calls'[u]) <= MaxCalls
    <3>1. Len(calls'[t]) <= MaxCalls
      BY <2>2, <2>3, <2>4, Bounds
    <3>2. \A u \in Thread : u # t => Len(calls'[u]) <= MaxCalls
      BY <2>4 DEF IndInv, TypeOK
    <3>3. QED
      BY <3>1, <3>2
  <2>6. /\ seen' \in [Thread -> 0 .. MaxSends]
        /\ \A u \in Thread : seen'[u] <= Len(mail[u]) /\ Len(mail[u]) <= MaxSends
    <3>1. m \in 0 .. MaxSends /\ m <= Len(mail[t])
      BY <2>3, Bounds
    <3>2. seen' \in [Thread -> 0 .. MaxSends] /\ seen'[t] = m
          /\ \A u \in Thread : u # t => seen'[u] = seen[u]
      BY <2>3, <3>1 DEF IndInv, TypeOK
    <3>3. QED
      BY <3>1, <3>2 DEF IndInv, TypeOK
  <2>7. QED
    BY <2>3, <2>4, <2>5, <2>6 DEF IndInv, TypeOK, sweepVars, history
<1>2. ASSUME EndDrain \/ TurnAway PROVE TypeOK'
  BY <1>2 DEF EndDrain, TurnAway, IndInv, TypeOK, callVars, sweepVars, history
<1>3. ASSUME ResetStale PROVE TypeOK'
  <2>1. \A t \in Thread : Len(mail[t]) \in 0 .. MaxSends
    <3> TAKE t \in Thread
    <3>1. mail[t] \in Seq(0 .. MaxTime) /\ Len(mail[t]) <= MaxSends
      BY DEF IndInv, TypeOK
    <3>2. Len(mail[t]) \in Nat
      BY <3>1
    <3>3. QED
      BY <3>1, <3>2, Bounds
  <2>2. /\ seen' = [t \in Thread |-> Len(mail[t])] /\ drainedAt' = now
        /\ UNCHANGED <<now, mail, watched, row, callVars, sweepVars, cuts, history>>
    BY <1>3 DEF ResetStale
  <2>3. /\ seen' \in [Thread -> 0 .. MaxSends]
        /\ \A t \in Thread : seen'[t] <= Len(mail[t]) /\ Len(mail[t]) <= MaxSends
    BY <2>1, <2>2
  <2>4. QED
    BY <2>2, <2>3 DEF IndInv, TypeOK, callVars, sweepVars, history
<1>4. ASSUME Tick PROVE TypeOK'
  <2>1. now' \in 0 .. MaxTime
    BY <1>4, Bounds DEF Tick, IndInv, TypeOK
  <2>2. QED
    BY <1>4, <2>1 DEF Tick, IndInv, TypeOK, callVars, sweepVars, history
<1>5. QED
  BY <1>1, <1>2, <1>3, <1>4

LEMMA SweepTypes ==
  ASSUME IndInv, Sweep
  PROVE  TypeOK'
<1>1. /\ TypeOK /\ calls \in [Thread -> Seq(Call)] /\ row \in [Thread -> Row \cup {NoRow}]
      /\ distilled \in [Thread -> Nat] /\ paired \in [Thread -> 0 .. MaxCalls]
      /\ overwrote \subseteq Thread
  BY DEF IndInv, TypeOK
<1> DEFINE Rest == UNCHANGED <<now, mail, seen, drainedAt, watched, calls, cuts>>
           SweepFine == /\ sweep' \in {"idle", "flip", "distil"}
                        /\ flips' \subseteq [thread : Thread, draftAt : 0 .. MaxTime]
                        /\ queue' \subseteq [thread : Thread, outcome : Outcome]
                        /\ distilling' \in Thread \cup {NoRow}
           BookFine == /\ row' \in [Thread -> Row \cup {NoRow}]
                       /\ distilled' \in [Thread -> Nat]
                       /\ paired' \in [Thread -> 0 .. MaxCalls]
                       /\ overwrote' \subseteq Thread
<1>2. Rest /\ SweepFine /\ BookFine => TypeOK'
  BY <1>1 DEF TypeOK
<1>3. CASE ListPending
  <2>1. SweepFine
    <3>1. \A t \in Thread : row[t] # NoRow => row[t].draftAt \in 0 .. MaxTime
      BY <1>1 DEF Row
    <3>2. QED
      BY <1>1, <1>3, <3>1 DEF ListPending, TypeOK
  <2>2. Rest /\ BookFine
    BY <1>1, <1>3 DEF ListPending, callVars, history
  <2>3. QED
    BY <1>2, <2>1, <2>2
<1>4. ASSUME NEW f \in flips, MarkNoReply(f) PROVE TypeOK'
  <2>1. Rest /\ SweepFine
    BY <1>1, <1>4 DEF MarkNoReply, TypeOK, callVars
  <2>2. row' \in [Thread -> Row \cup {NoRow}]
    <3>1. f.thread \in Thread
      BY <1>1 DEF TypeOK
    <3>2. CASE row' = row
      BY <1>1, <3>2
    <3>3. CASE row[f.thread] # NoRow /\ row' = [row EXCEPT ![f.thread].outcome = "no_reply"]
      <4> DEFINE r == [row[f.thread] EXCEPT !.outcome = "no_reply"]
      <4>1. r \in Row
        BY <1>1, <3>1, <3>3 DEF Row, Outcome
      <4>2. row' = [row EXCEPT ![f.thread] = r]
        BY <1>1, <3>1, <3>3
      <4> HIDE DEF r
      <4>3. QED
        BY <1>1, <3>1, <4>1, <4>2
    <3>4. QED
      BY <1>4, <3>2, <3>3 DEF MarkNoReply
  <2>3. BookFine
    BY <1>1, <1>4, <2>2 DEF MarkNoReply, history
  <2>4. QED
    BY <1>2, <2>1, <2>3
<1>5. CASE ListUnlearned
  <2>1. SweepFine
    <3>1. \A t \in Thread : row[t] # NoRow => row[t].outcome \in Outcome
      BY <1>1 DEF Row
    <3>2. queue' \subseteq [thread : Thread, outcome : Outcome]
      BY <1>5, <3>1 DEF ListUnlearned
    <3>3. QED
      BY <1>1, <1>5, <3>2 DEF ListUnlearned, TypeOK
  <2>2. Rest /\ BookFine
    BY <1>1, <1>5 DEF ListUnlearned, callVars, history
  <2>3. QED
    BY <1>2, <2>1, <2>2
<1>6. ASSUME NEW q \in queue, DistilAgain(q) PROVE TypeOK'
  <2>1. q.thread \in Thread
    BY <1>1 DEF TypeOK
  <2>2. Rest /\ SweepFine
    BY <1>1, <1>6, <2>1 DEF DistilAgain, TypeOK, callVars
  <2>3. distilled' \in [Thread -> Nat]
    BY <1>1, <1>6, <2>1 DEF DistilAgain, Apply
  <2>4. BookFine
    BY <1>1, <1>6, <2>3 DEF DistilAgain
  <2>5. QED
    BY <1>2, <2>2, <2>4
<1>7. ASSUME NEW q \in queue, FailAgain(q) PROVE TypeOK'
  <2>1. Rest /\ SweepFine /\ BookFine
    BY <1>1, <1>7 DEF FailAgain, TypeOK, callVars, history
  <2>2. QED
    BY <1>2, <2>1
<1>8. CASE MarkAgain
  <2>1. distilling \in Thread /\ Learn(distilling)
    BY <1>1, <1>8 DEF MarkAgain, TypeOK
  <2>2. row' \in [Thread -> Row \cup {NoRow}]
    BY <1>1, <2>1, LearnType
  <2>3. Rest /\ SweepFine /\ BookFine
    BY <1>1, <1>8, <2>2 DEF MarkAgain, TypeOK, callVars, history
  <2>4. QED
    BY <1>2, <2>3
<1>9. ASSUME NEW gone \in SUBSET Thread, Prune(gone) PROVE TypeOK'
  <2>1. Rest /\ SweepFine
    BY <1>1, <1>9 DEF Prune, TypeOK, callVars
  <2>2. BookFine
    BY <1>1, <1>9, Bounds DEF Prune
  <2>3. QED
    BY <1>2, <2>1, <2>2
<1>10. QED
  BY <1>3, <1>4, <1>5, <1>6, <1>7, <1>8, <1>9 DEF Sweep

LEMMA CrashTypes == ASSUME IndInv, Crash PROVE TypeOK'
<1>1. calls' \in [Thread -> Seq(Call)] /\ \A t \in Thread : Len(calls'[t]) <= MaxCalls
  BY CrashType DEF IndInv, TypeOK
<1>2. cuts' \in 0 .. MaxCuts
  <2>1. cuts \in 0 .. MaxCuts /\ cuts < MaxCuts /\ cuts' = cuts + 1
    BY DEF Crash, IndInv, TypeOK
  <2>2. QED
    BY <2>1, Bounds
<1>3. UNCHANGED <<now, mail, seen, drainedAt, watched, row, history>>
      /\ sweep' = "idle" /\ flips' = {} /\ queue' = {} /\ distilling' = NoRow
  BY DEF Crash
<1>4. QED
  BY <1>1, <1>2, <1>3 DEF IndInv, TypeOK, history

-----------------------------------------------------------------------------
(* Statements that raise. *)

\* A thread whose work is cut off once more: its evidence grows by one at most,
\* and not when it is the mark that is lost.
LEMMA CutKeeps ==
  ASSUME TypeOK, NEW t \in Thread, Book(t), cuts' = cuts + 1,
         row'[t] = row[t], paired'[t] = paired[t], t \in overwrote' <=> t \in overwrote,
         distilled'[t] = distilled[t] \/ distilled'[t] = distilled[t] + 1,
         distilling' = distilling \/ (distilling' = NoRow /\ distilled'[t] = distilled[t]),
         Listed(t)' \subseteq Listed(t),
         Owed(t)' \in Nat, Owed(t)' <= Owed(t),
         Recorded(t)' \in Nat, Recorded(t) <= Recorded(t)',
         In(t, {"fresh", "distil", "mark"})' \subseteq In(t, {"fresh", "distil", "mark"}),
         In(t, {"mark"})' \subseteq In(t, {"mark"}),
         \A j \in In(t, {"pair"})' : j \in In(t, {"pair"}) /\ calls'[t][j] = calls[t][j],
         \A j \in In(t, {"distil"})' : j \in In(t, {"distil"}) /\ calls'[t][j] = calls[t][j]
  PROVE  Book(t)'
<1>1. /\ Owed(t) \in Nat /\ Recorded(t) \in Nat /\ Paid(t) \in 0 .. 1 /\ Paid(t)' \in 0 .. 1
      /\ distilled[t] \in Nat /\ distilled'[t] \in Nat /\ paired[t] \in Nat /\ cuts \in Nat
  BY Numbers DEF Paid
<1>2. distilling' = t => distilling = t
  BY Bounds
<1>3. Counted(t)'
  BY <1>1 DEF Book, Counted
<1>4. QuietWhenOpen(t)' /\ ReplyShown(t)'
  BY <1>2 DEF Book, QuietWhenOpen, Open, ReplyShown
<1>5. Evidence(t)'
  <2>1. /\ distilled[t] + Owed(t) <= paired[t] + cuts + Paid(t)
        /\ Listed(t)' # {} => distilled[t] + Owed(t) <= paired[t] + cuts
    BY DEF Book, Evidence
  <2>2. distilled'[t] = distilled[t] \/ Paid(t)' = Paid(t)
    BY DEF Paid
  <2>3. distilled'[t] + Owed(t)' <= paired[t] + (cuts + 1) + Paid(t)'
    BY <1>1, <2>1, <2>2
  <2>4. Listed(t)' # {} => distilled'[t] + Owed(t)' <= paired[t] + (cuts + 1)
    BY <1>1, <2>1
  <2>5. QED
    BY <2>3, <2>4 DEF Evidence
<1>6. Lesson(t)'
  <2>1. distilled[t] > 0 => distilled'[t] > 0
    BY <1>1
  <2>2. QED
    BY <1>2, <2>1 DEF Book, Lesson
<1>7. QED
  BY <1>3, <1>4, <1>5, <1>6 DEF Book

LEMMA SentFailsStep ==
  ASSUME IndInv, NEW t \in Thread, NEW i \in 1 .. Len(calls[t]), SentFails(t, i)
  PROVE  BookInv'
<1>1. /\ calls[t][i].step # "done" /\ cuts' = cuts + 1 /\ TypeOK /\ Book(t)
      /\ Goto(t, i, "done", NoRow) /\ "done" \in Step /\ NoRow \in Outcome \cup {NoRow}
      /\ UNCHANGED distilled \/ Apply(t, calls[t][i].read)
      /\ UNCHANGED <<row, sweepVars, paired, overwrote>>
  BY DEF SentFails, At, IndInv, Step
<1>2. /\ distilled'[t] = distilled[t] \/ distilled'[t] = distilled[t] + 1
      /\ \A u \in Thread : u # t => distilled'[u] = distilled[u]
  BY <1>1 DEF Apply, TypeOK
<1>3. SweepInv'
  BY <1>1, SweepKept DEF IndInv
<1>4. \A u \in Thread : Listed(u)' = Listed(u) /\ distilling' = distilling
  BY <1>1 DEF Listed, sweepVars
<1>5. /\ Len(calls'[t]) = Len(calls[t]) /\ calls'[t][i].step = "done"
      /\ \A j \in 1 .. Len(calls[t]) : j # i => calls'[t][j] = calls[t][j]
      /\ \A u \in Thread : u # t => calls'[u] = calls[u]
  BY <1>1, CallMoves
<1>6. Book(t)'
  <2>1. Owed(t)' \in Nat /\ Owed(t)' <= Owed(t) /\ Recorded(t)' \in Nat
        /\ Recorded(t) <= Recorded(t)'
    <3>1. /\ Owed(t)' = Owed(t) + Owes("done") - Owes(calls[t][i].step)
          /\ Recorded(t)' = Recorded(t) + Records("done") - Records(calls[t][i].step)
      BY <1>1, CountMoves, Zenon
    <3>2. i \in In(t, {"fresh", "distil"}) <=> Owes(calls[t][i].step) = 1
      BY DEF In, Owes
    <3>3. i \in In(t, {"fresh", "distil"}) => Owed(t) >= 1
      <4>1. IsFiniteSet(In(t, {"fresh", "distil"}))
        BY <1>1, Sizes
      <4>2. i \in In(t, {"fresh", "distil"}) => In(t, {"fresh", "distil"}) # {}
        OBVIOUS
      <4>3. QED
        BY <1>1, <4>1, <4>2, Numbers, FS_EmptySet DEF Owed
    <3>4. Owes("done") = 0 /\ Records("done") = 1
          /\ Owes(calls[t][i].step) \in 0 .. 1 /\ Records(calls[t][i].step) \in 0 .. 1
      BY DEF Owes, Records
    <3>5. QED
      BY <1>1, <3>1, <3>2, <3>3, <3>4, Numbers
  <2>2. /\ In(t, {"fresh", "distil", "mark"})' \subseteq In(t, {"fresh", "distil", "mark"})
        /\ In(t, {"mark"})' \subseteq In(t, {"mark"})
        /\ \A j \in In(t, {"pair"})' : j \in In(t, {"pair"}) /\ calls'[t][j] = calls[t][j]
        /\ \A j \in In(t, {"distil"})' : j \in In(t, {"distil"}) /\ calls'[t][j] = calls[t][j]
    BY <1>5 DEF In
  <2>3. QED
    BY <1>1, <1>2, <1>4, <2>1, <2>2, CutKeeps
<1>7. ASSUME NEW u \in Thread, u # t PROVE Book(u)'
  <2>1. /\ Book(u) /\ row'[u] = row[u] /\ paired'[u] = paired[u] /\ calls'[u] = calls[u]
        /\ u \in overwrote' <=> u \in overwrote
    BY <1>1, <1>5, <1>7 DEF IndInv
  <2>2. \A S : In(u, S)' = In(u, S)
    BY <2>1 DEF In
  <2>3. Owed(u)' = Owed(u) /\ Recorded(u)' = Recorded(u)
    BY <2>2 DEF Owed, Recorded
  <2>4. Owed(u) \in Nat /\ Recorded(u) \in Nat
    BY <1>1, Numbers
  <2>5. QED
    BY <1>1, <1>2, <1>4, <1>7, <2>1, <2>2, <2>3, <2>4, CutKeeps
<1>8. QED
  BY <1>3, <1>6, <1>7 DEF BookInv

LEMMA SweepFailsStep == ASSUME IndInv, SweepFails PROVE BookInv'
<1>1. /\ cuts' = cuts + 1 /\ TypeOK /\ SweepInv /\ calls' = calls
      /\ UNCHANGED <<row, paired, overwrote>>
  BY DEF SweepFails, IndInv, callVars
<1>2. /\ SweepInv'
      /\ queue' \subseteq queue
      /\ distilling' = distilling \/ (distilling' = NoRow /\ distilled' = distilled)
      /\ \A t \in Thread : distilled'[t] = distilled[t] \/ distilled'[t] = distilled[t] + 1
  <2>1. CASE PassFails
    BY <1>1, <2>1 DEF PassFails, SweepInv
  <2>2. ASSUME NEW q \in queue, AgainFails(q) PROVE <1>2
    BY <1>1, <2>2 DEF AgainFails, SweepInv, Apply, TypeOK
  <2>3. CASE MarkFails
    BY <1>1, <2>3, Bounds DEF MarkFails, SweepInv, TypeOK
  <2>4. QED
    BY <2>1, <2>2, <2>3 DEF SweepFails
<1>3. ASSUME NEW t \in Thread PROVE Book(t)'
  <2>1. Book(t) /\ Listed(t)' \subseteq Listed(t)
    BY <1>2 DEF IndInv, Listed
  <2>2. \A S : In(t, S)' = In(t, S)
    BY <1>1 DEF In
  <2>3. Owed(t)' = Owed(t) /\ Recorded(t)' = Recorded(t)
    BY <2>2 DEF Owed, Recorded
  <2>4. Owed(t) \in Nat /\ Recorded(t) \in Nat
    BY <1>1, Numbers
  <2>5. QED
    BY <1>1, <1>2, <2>1, <2>2, <2>3, <2>4, CutKeeps
<1>4. QED
  BY <1>2, <1>3 DEF BookInv

LEMMA CutCounted ==
  ASSUME TypeOK, cuts < MaxCuts, cuts' = cuts + 1
  PROVE  cuts' \in 0 .. MaxCuts
BY Bounds DEF TypeOK

LEMMA FaultTypes ==
  ASSUME IndInv,
         \/ \E t \in Thread : \E i \in 1 .. Len(calls[t]) : SentFails(t, i)
         \/ SweepFails
  PROVE  TypeOK'
<1>1. /\ TypeOK /\ calls \in [Thread -> Seq(Call)] /\ queue \subseteq [thread : Thread, outcome : Outcome]
      /\ distilled \in [Thread -> Nat]
  BY DEF IndInv, TypeOK
<1>2. ASSUME NEW t \in Thread, NEW i \in 1 .. Len(calls[t]), SentFails(t, i) PROVE TypeOK'
  <2>1. /\ Goto(t, i, "done", NoRow) /\ "done" \in Step /\ NoRow \in Outcome \cup {NoRow}
    BY <1>2 DEF SentFails, Step
  <2>2. calls' \in [Thread -> Seq(Call)] /\ \A u \in Thread : Len(calls'[u]) <= MaxCalls
    BY <1>1, <2>1, GotoType
  <2>3. distilled' \in [Thread -> Nat]
    BY <1>1, <1>2 DEF SentFails, Apply
  <2>4. cuts' \in 0 .. MaxCuts
    BY <1>1, <1>2, CutCounted DEF SentFails
  <2>5. UNCHANGED <<now, mail, seen, drainedAt, watched, row, sweep, flips, queue, distilling,
                    paired, overwrote>>
    BY <1>2 DEF SentFails, sweepVars
  <2>6. QED
    BY <1>1, <2>2, <2>3, <2>4, <2>5 DEF TypeOK
<1>3. CASE SweepFails
  <2>1. cuts' \in 0 .. MaxCuts
    BY <1>1, <1>3, CutCounted DEF SweepFails
  <2>2. /\ sweep' \in {"idle", "flip", "distil"} /\ queue' \subseteq queue
        /\ flips' \subseteq flips /\ distilling' \in Thread \cup {NoRow}
        /\ distilled' \in [Thread -> Nat]
    <3>1. CASE PassFails
      BY <1>1, <3>1 DEF PassFails, TypeOK
    <3>2. ASSUME NEW q \in queue, AgainFails(q) PROVE <2>2
      BY <1>1, <3>2 DEF AgainFails, Apply, TypeOK
    <3>3. CASE MarkFails
      BY <1>1, <3>3 DEF MarkFails, TypeOK
    <3>4. QED
      BY <1>3, <3>1, <3>2, <3>3 DEF SweepFails
  <2>3. UNCHANGED <<now, mail, seen, drainedAt, watched, row, calls, paired, overwrote>>
    BY <1>3 DEF SweepFails, callVars
  <2>4. QED
    BY <1>1, <2>1, <2>2, <2>3 DEF TypeOK
<1>4. QED
  BY <1>2, <1>3

-----------------------------------------------------------------------------
(* The invariant. *)

LEMMA Start == Init => IndInv
<1> SUFFICES ASSUME Init PROVE IndInv
  OBVIOUS
<1>1. TypeOK
  BY Bounds DEF Init, TypeOK
<1>2. SweepInv
  BY DEF Init, SweepInv
<1>3. ASSUME NEW t \in Thread PROVE Book(t)
  <2>1. /\ row[t] = NoRow /\ Len(calls[t]) = 0 /\ distilling # t /\ Listed(t) = {}
        /\ paired[t] = 0 /\ distilled[t] = 0 /\ cuts = 0
    BY Bounds DEF Init, Listed
  <2>2. \A S : In(t, S) = {}
    BY <2>1 DEF In
  <2>3. Owed(t) = 0 /\ Recorded(t) = 0 /\ Paid(t) = 0
    BY <2>1, <2>2, FS_EmptySet DEF Owed, Recorded, Paid
  <2>4. QED
    BY <2>1, <2>2, <2>3 DEF Book, Counted, QuietWhenOpen, ReplyShown, Evidence, Lesson
<1>4. QED
  BY <1>1, <1>2, <1>3 DEF IndInv

LEMMA SweepStep == ASSUME IndInv, Sweep PROVE BookInv'
BY ListPendingStep, NoReplyStep, ListUnlearnedStep, DistilAgainStep, FailAgainStep,
   MarkAgainStep, PruneStep DEF Sweep

LEMMA SentStep ==
  ASSUME IndInv, NEW t \in Thread, NEW i \in 1 .. Len(calls[t]), OnSent(t, i)
  PROVE  BookInv'
BY ReadRowStep, PairStep, CaptureStep, FreshStep, DistilStep, MarkSentStep DEF OnSent

LEMMA NextKeeps == IndInv /\ [Next]_vars => IndInv'
<1> SUFFICES ASSUME IndInv, [Next]_vars PROVE TypeOK' /\ BookInv'
  BY DEF IndInv, BookInv
<1>1. CASE UNCHANGED vars
  <2>1. TypeOK'
    BY <1>1 DEF IndInv, TypeOK, vars, callVars, sweepVars, history
  <2>2. BookInv'
    BY <1>1, MailboxStep DEF vars
  <2>3. QED
    BY <2>1, <2>2
<1>2. ASSUME NEW t \in Thread, OwnerSends(t) PROVE TypeOK' /\ BookInv'
  BY <1>2, MailTypes, MailboxStep DEF OwnerSends
<1>3. ASSUME NEW t \in Thread, NEW m \in 1 .. MaxSends, DispatchSent(t, m)
      PROVE  TypeOK' /\ BookInv'
  BY <1>3, DrainTypes, DispatchStep
<1>4. ASSUME NEW t \in Thread, CaptureDraft(t) PROVE TypeOK' /\ BookInv'
  BY <1>4, MailTypes, CaptureDraftStep
<1>5. ASSUME NEW t \in Thread, NEW i \in 1 .. Len(calls[t]), OnSent(t, i)
      PROVE  TypeOK' /\ BookInv'
  BY <1>5, SentTypes, SentStep
<1>6. ASSUME EndDrain \/ ResetStale \/ TurnAway \/ Tick PROVE TypeOK' /\ BookInv'
  BY <1>6, DrainTypes, MailboxStep DEF EndDrain, ResetStale, TurnAway, Tick
<1>7. ASSUME Sweep PROVE TypeOK' /\ BookInv'
  BY <1>7, SweepTypes, SweepStep
<1>8. ASSUME Crash PROVE TypeOK' /\ BookInv'
  BY <1>8, CrashTypes, CrashStep
<1>9. ASSUME NEW t \in Thread, NEW i \in 1 .. Len(calls[t]), SentFails(t, i)
      PROVE  TypeOK' /\ BookInv'
  BY <1>9, FaultTypes, SentFailsStep
<1>10. ASSUME SweepFails PROVE TypeOK' /\ BookInv'
  BY <1>10, FaultTypes, SweepFailsStep
<1>11. QED
  BY <1>1, <1>2, <1>3, <1>4, <1>5, <1>6, <1>7, <1>8, <1>9, <1>10 DEF Next

\* What a step does to the row of a thread whose send is recorded.
LEMMA SentKept ==
  ASSUME IndInv, Next, NEW t \in Thread, row[t] # NoRow, row[t].sent > 0,
         row[t].outcome \notin {"pending", "no_reply"}, row'[t] # NoRow
  PROVE  row'[t] = row[t] \/ row'[t].sent > 0
<1>1. row \in [Thread -> Row \cup {NoRow}] /\ TypeOK
  BY DEF IndInv, TypeOK
<1>2. ASSUME NEW u \in Thread, CaptureDraft(u) PROVE row'[t] = row[t]
  <2>1. u # t
    BY <1>2 DEF CaptureDraft
  <2>2. QED
    BY <1>1, <1>2, <2>1 DEF CaptureDraft
<1>3. ASSUME NEW u \in Thread, NEW i \in 1 .. Len(calls[u]), OnSent(u, i)
      PROVE  row'[t] = row[t] \/ row'[t].sent > 0
  <2>1. ASSUME NEW o \in Outcome, RecordSent(u, i, o) PROVE row'[t] = row[t] \/ row'[t].sent > 0
    BY <2>1, SendRecorded
  <2>2. ASSUME MarkSent(u, i) PROVE row'[t] = row[t] \/ row'[t].sent > 0
    <3>1. Learn(u)
      BY <2>2 DEF MarkSent
    <3>2. QED
      BY <1>1, <3>1, LearnSent
  <2>3. CASE ReadRow(u, i) \/ ReadFresh(u, i) \/ DistilSent(u, i)
    BY <2>3 DEF ReadRow, ReadFresh, DistilSent
  <2>4. QED
    BY <1>3, <2>1, <2>2, <2>3 DEF OnSent, PairDrafted, CaptureNonDrafted, Outcome
<1>4. ASSUME NEW f \in flips, MarkNoReply(f) PROVE row'[t] = row[t]
  <2>1. f.thread \in Thread
    BY <1>1 DEF TypeOK
  <2>2. row' = row \/ (f.thread # t /\ row' = [row EXCEPT ![f.thread].outcome = "no_reply"])
    BY <1>4 DEF MarkNoReply
  <2>3. QED
    BY <1>1, <2>1, <2>2
<1>5. ASSUME MarkAgain PROVE row'[t] = row[t] \/ row'[t].sent > 0
  <2>1. distilling \in Thread /\ Learn(distilling)
    BY <1>1, <1>5 DEF MarkAgain, TypeOK
  <2>2. QED
    BY <1>1, <2>1, LearnSent
<1>6. ASSUME NEW gone \in SUBSET Thread, Prune(gone) PROVE row'[t] = row[t]
  BY <1>6 DEF Prune
<1>7. ASSUME \/ \E u \in Thread : OwnerSends(u) \/ \E m \in 1 .. MaxSends : DispatchSent(u, m)
             \/ EndDrain \/ ResetStale \/ TurnAway \/ Tick \/ Crash
             \/ \E u \in Thread : \E i \in 1 .. Len(calls[u]) : SentFails(u, i)
             \/ SweepFails \/ ListPending \/ ListUnlearned
             \/ \E q \in queue : DistilAgain(q) \/ FailAgain(q)
      PROVE  row'[t] = row[t]
  BY <1>7 DEF OwnerSends, DispatchSent, EndDrain, ResetStale, TurnAway, Tick, Crash, SentFails,
     SweepFails, ListPending, ListUnlearned, DistilAgain, FailAgain
<1>8. QED
  BY <1>2, <1>3, <1>4, <1>5, <1>6, <1>7 DEF Next, Sweep

LEMMA Inductive == Spec => []IndInv
BY Start, NextKeeps, PTL DEF Spec

-----------------------------------------------------------------------------
(* Theorems. *)

\* Every column, list and count keeps its range.
THEOREM TypeCorrect == Spec => []TypeOK
<1>1. IndInv => TypeOK
  BY DEF IndInv
<1>2. QED
  BY <1>1, Inductive, PTL

\* A row counts as evidence at most once for each on_sent call that paired it,
\* once for the sweep, and once more for each restart and each statement that
\* raises, however many threads, sends, repeated drains, failing models and
\* passes there are: the learned flag of mark_outcome_learned is what a sweep
\* pays with.
THEOREM EvidenceIsBounded == Spec => []EvidenceBounded
<1>1. IndInv => EvidenceBounded
  <2> SUFFICES ASSUME IndInv, NEW t \in Thread
               PROVE  distilled[t] <= paired[t] + 1 + cuts
    BY DEF EvidenceBounded
  <2>1. Evidence(t) /\ TypeOK
    BY DEF IndInv, Book
  <2>2. QED
    BY <2>1, Numbers DEF Evidence
<1>2. QED
  BY <1>1, Inductive, PTL

\* distill_and_apply loses no edited reply but the one that on_sent recorded
\* over a row that had changed since get_draft_outcome.
THEOREM LessonsAreKept == Spec => []LessonsLostExplained
<1>1. IndInv => LessonsLostExplained
  <2> SUFFICES ASSUME IndInv, NEW t \in Thread, row[t] # NoRow, row[t].outcome = "edited",
                      row[t].learned, distilled[t] = 0, t \notin overwrote
               PROVE  FALSE
    BY DEF LessonsLostExplained
  <2>1. Lesson(t)
    BY DEF IndInv, Book
  <2>2. QED
    BY <2>1 DEF Lesson
<1>2. QED
  BY <1>1, Inductive, PTL

\* No draft captured later (upsert_draft_outcome_draft) and no sweep that listed
\* the row before (mark_outcome_no_reply) takes a recorded send away.
THEOREM SendsStand == Spec => SentSideStands
<1> DEFINE Stands(t) == row[t] # NoRow /\ row[t].sent > 0 /\ row'[t] # NoRow =>
                          row'[t].sent > 0 /\ row'[t].outcome \notin {"pending", "no_reply"}
<1>1. IndInv /\ IndInv' /\ [Next]_vars => [\A t \in Thread : Stands(t)]_vars
  <2> SUFFICES ASSUME IndInv, IndInv', Next, NEW t \in Thread, row[t] # NoRow,
                      row[t].sent > 0, row'[t] # NoRow
               PROVE  row'[t].sent > 0 /\ row'[t].outcome \notin {"pending", "no_reply"}
    BY DEF vars
  <2>1. row'[t].sent > 0 => row'[t].outcome \notin {"pending", "no_reply"}
    BY DEF IndInv, Book, ReplyShown
  <2>2. row[t].outcome \notin {"pending", "no_reply"}
    BY DEF IndInv, Book, ReplyShown
  <2>3. row'[t] = row[t] \/ row'[t].sent > 0
    BY <2>2, SentKept
  <2>4. QED
    BY <2>1, <2>3
<1>2. QED
  BY <1>1, Inductive, PTL DEF Spec, SentSideStands

=============================================================================
