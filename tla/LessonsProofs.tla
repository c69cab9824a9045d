---------------------------- MODULE LessonsProofs ----------------------------
(***************************************************************************)
(* Proofs about Lessons for every set of correspondents, replies and       *)
(* rules, any number of distillers, failures, crashes and acts of the      *)
(* owner.                                                                  *)
(***************************************************************************)
EXTENDS Lessons, TLAPS

AtModel   == [step : {"model"}, reply : Reply, prior : SUBSET Reply, late : BOOLEAN]
AtLessons == [step : {"lessons"}, reply : Reply, rules : SUBSET Rule]
Running   == [step : {"next", "summarize"}, force : BOOLEAN, todo : SUBSET Sender,
              sender : Sender \cup {None}]

\* What the distillers and the backfills have in hand.
HandInv ==
  /\ distil \in [Distiller -> {IdleDistil} \cup AtModel \cup AtLessons]
  /\ \A d \in Distiller : Busy(d) => distil[d].reply \in rows
  /\ run \in [Runs -> {IdleRun} \cup Running]
  /\ \A b \in Runs : run[b].step = "summarize" => run[b].sender \in Sender

ForgetInv == active \cap forgotten = {}

\* A note the owner has cleared, and those who still hold what it said.
ClearInv ==
  /\ \A s \in Sender : note[s] \cap cleared[s] # {} => s \in revived
  /\ \A d \in Distiller : distil[d].step = "model" =>
       LET s == SenderOf[distil[d].reply]
       IN  (distil[d].prior \cup {distil[d].reply}) \cap cleared[s] # {} =>
             distil[d].late \/ s \in revived

\* The automatic backfill is ahead, at work or over, and what it still has to
\* do or did.
OnceInv ==
  /\ ~once => autoRuns = 0 /\ run["auto"] = IdleRun
  /\ once => autoRuns = 1 /\ \A s \in Sender :
       s \in Unfinished \/ voice[s] # None \/ s \in unvoiced
  /\ run["auto"].step # "idle" => ~run["auto"].force

\* A backfill that would overwrite the agent's voice notes had found none.
RaceInv ==
  \A b \in Runs :
    run[b].step = "summarize" /\ voice[run[b].sender] = "agent" =>
      run[b].force \/ run[b].sender \in raced

IndInv == TypeOK /\ HandInv /\ ForgetInv /\ ClearInv /\ OnceInv /\ RaceInv

-----------------------------------------------------------------------------
LEMMA Constants ==
  /\ NoReply \subseteq Reply /\ SenderOf \in [Reply -> Sender] /\ Quiet \in AllRules
  /\ Rule \subseteq AllRules /\ None \notin Sender /\ None # "agent" /\ None # "backfill"
  /\ "auto" \in Runs /\ "tool" \in Runs
BY LessonsAssumption DEF LessonsAssumption, AllRules, Runs

\* What the steps that leave its subject alone keep of each part.
LEMMA HandKept ==
  ASSUME HandInv, UNCHANGED <<distil, run>>, rows \subseteq rows'
  PROVE  HandInv'
BY DEF HandInv, Busy

LEMMA ClearKept ==
  ASSUME ClearInv, HandInv, UNCHANGED <<note, cleared, revived>>,
         \A d \in Distiller : distil'[d] = distil[d] \/ distil'[d].step # "model"
  PROVE  ClearInv'
BY DEF ClearInv

LEMMA OnceKept ==
  ASSUME OnceInv, UNCHANGED <<once, autoRuns>>, run'["auto"] = run["auto"],
         unvoiced \subseteq unvoiced',
         \A s \in Sender : voice[s] # None => voice'[s] # None
  PROVE  OnceInv'
BY DEF OnceInv, Unfinished

LEMMA RaceKept ==
  ASSUME RaceInv, UNCHANGED <<run, voice, raced>>
  PROVE  RaceInv'
BY DEF RaceInv

\* One distiller goes on.
LEMMA DistillerMoves ==
  ASSUME HandInv, NEW d \in Distiller, NEW x \in {IdleDistil} \cup AtModel \cup AtLessons,
         distil' = [distil EXCEPT ![d] = x], x.step # "idle" => x.reply \in rows,
         UNCHANGED run, rows \subseteq rows'
  PROVE  /\ HandInv' /\ distil'[d] = x
         /\ \A e \in Distiller : e # d => distil'[e] = distil[e]
<1>1. /\ distil'[d] = x /\ \A e \in Distiller : e # d => distil'[e] = distil[e]
      /\ distil' \in [Distiller -> {IdleDistil} \cup AtModel \cup AtLessons]
  BY DEF HandInv
<1>2. QED
  BY <1>1 DEF HandInv, Busy

-----------------------------------------------------------------------------
(* Distilling. *)

LEMMA NoReplyStep == ASSUME IndInv, NEW j \in Reply, MarkedNoReply(j) PROVE IndInv'
<1>1. /\ rows' = rows \cup {j}
      /\ UNCHANGED <<learned, lessons, profiles, distil, once, run, history>>
  BY DEF MarkedNoReply
<1>2. TypeOK'
  BY <1>1 DEF IndInv, TypeOK, lessons, profiles, history
<1>3. HandInv' /\ ClearInv' /\ OnceInv' /\ RaceInv'
  BY <1>1, HandKept, ClearKept, OnceKept, RaceKept DEF IndInv, profiles, history
<1>4. QED
  BY <1>1, <1>2, <1>3 DEF IndInv, ForgetInv, lessons, history

LEMMA ReadPriorStep ==
  ASSUME IndInv, NEW d \in Distiller, NEW j \in Reply, ReadPrior(d, j)
  PROVE  IndInv'
<1> DEFINE s == SenderOf[j]
           x == [step |-> "model", reply |-> j, prior |-> note[s], late |-> FALSE]
<1>1. /\ distil' = [distil EXCEPT ![d] = x] /\ j \in rows
      /\ cleared' = [cleared EXCEPT ![s] = @ \ {j}]
      /\ UNCHANGED <<outcomes, lessons, profiles, once, run, forgotten, revived, autoRuns,
                     unvoiced, raced>>
  BY DEF ReadPrior
<1>2. s \in Sender /\ x \in AtModel
  BY Constants DEF IndInv, TypeOK, AtModel
<1>3. HandInv' /\ distil'[d] = x /\ \A e \in Distiller : e # d => distil'[e] = distil[e]
  BY <1>1, <1>2, DistillerMoves DEF IndInv, outcomes
<1>4. ClearInv'
  <2>1. \A t \in Sender : cleared'[t] \subseteq cleared[t] /\ j \notin cleared'[s]
    BY <1>1, <1>2 DEF IndInv, TypeOK
  <2>2. QED
    BY <1>1, <1>2, <1>3, <2>1 DEF IndInv, ClearInv, profiles
<1>5. TypeOK' /\ OnceInv' /\ RaceInv' /\ ForgetInv'
  BY <1>1, OnceKept, RaceKept DEF IndInv, TypeOK, ForgetInv, outcomes, lessons, profiles
<1>6. QED
  BY <1>3, <1>4, <1>5 DEF IndInv

\* Giving a row up for now.
LEMMA GivesUpStep ==
  ASSUME IndInv, NEW d \in Distiller, ModelFails(d) \/ WriteFails(d)
  PROVE  IndInv'
<1>1. /\ distil' = [distil EXCEPT ![d] = IdleDistil]
      /\ UNCHANGED <<outcomes, lessons, profiles, once, run, history>>
  BY DEF ModelFails, WriteFails
<1>2. HandInv' /\ distil'[d] = IdleDistil /\ \A e \in Distiller : e # d => distil'[e] = distil[e]
  BY <1>1, DistillerMoves DEF IndInv, IdleDistil, outcomes
<1>3. ClearInv'
  BY <1>1, <1>2, ClearKept DEF IndInv, IdleDistil, profiles, history
<1>4. TypeOK' /\ OnceInv' /\ RaceInv' /\ ForgetInv'
  BY <1>1, OnceKept, RaceKept DEF IndInv, TypeOK, ForgetInv, outcomes, lessons, profiles,
     history
<1>5. QED
  BY <1>2, <1>3, <1>4 DEF IndInv

LEMMA WriteNoteStep ==
  ASSUME IndInv, NEW d \in Distiller, WriteNote(d)
  PROVE  IndInv'
<1> DEFINE j == distil[d].reply
           s == SenderOf[j]
<1>1. PICK new \in Answers(d), rules \in SUBSET Rule :
        /\ IF new = {} THEN UNCHANGED <<profile, note, revived>>
           ELSE /\ profile' = profile \cup {s}
                /\ note' = [note EXCEPT ![s] = new]
                /\ revived' = IF distil[d].late THEN revived \cup {s} ELSE revived
        /\ distil' = [distil EXCEPT ![d] = [step |-> "lessons", reply |-> j, rules |-> rules]]
  BY DEF WriteNote
<1>2. UNCHANGED <<outcomes, lessons, voice, once, run, forgotten, cleared, autoRuns, unvoiced,
                  raced>>
  BY DEF WriteNote
<1>3. distil[d].step = "model" /\ distil[d] \in AtModel /\ j \in rows
  BY DEF WriteNote, Busy, IndInv, HandInv, IdleDistil, AtLessons
<1>4. j \in Reply /\ s \in Sender /\ new \subseteq Reply
      /\ new \subseteq distil[d].prior \cup {j}
  BY <1>3, Constants DEF AtModel, Answers
<1> DEFINE x == [step |-> "lessons", reply |-> j, rules |-> rules]
<1>5. x \in AtLessons /\ x.step = "lessons" /\ x.reply = j
  BY <1>4 DEF AtLessons
<1>6. HandInv' /\ distil'[d] = x /\ \A e \in Distiller : e # d => distil'[e] = distil[e]
  <2> HIDE DEF j, x
  <2>1. distil' = [distil EXCEPT ![d] = x]
    BY <1>1 DEF x, j
  <2>2. QED
    BY <1>2, <1>3, <1>5, <2>1, DistillerMoves DEF IndInv, outcomes
<1> HIDE DEF x
<1>7. revived \subseteq revived' /\ profile \subseteq profile' /\ profile' \subseteq Sender
  BY <1>1, <1>4 DEF IndInv, TypeOK
<1>8. TypeOK'
  <2>1. note' \in [Sender -> SUBSET Reply]
    BY <1>1, <1>4 DEF IndInv, TypeOK
  <2>2. \A t \in Sender : t \notin profile' => voice'[t] = None /\ note'[t] = {}
    BY <1>1, <1>2, <1>4 DEF IndInv, TypeOK
  <2>3. QED
    BY <1>2, <1>7, <2>1, <2>2 DEF IndInv, TypeOK, outcomes, lessons
<1>9. ClearInv'
  <2>1. new \cap cleared[s] # {} => distil[d].late \/ s \in revived
    BY <1>3, <1>4 DEF IndInv, ClearInv
  <2>2. ASSUME NEW t \in Sender, note'[t] \cap cleared'[t] # {} PROVE t \in revived'
    <3>1. note'[t] = note[t] \/ (t = s /\ note'[t] = new /\ new # {})
      BY <1>1, <1>4 DEF IndInv, TypeOK
    <3>2. CASE note'[t] = note[t]
      BY <1>2, <1>7, <2>2, <3>2 DEF IndInv, ClearInv
    <3>3. CASE t = s /\ note'[t] = new /\ new # {}
      BY <1>1, <1>2, <2>1, <2>2, <3>3
    <3>4. QED
      BY <3>1, <3>2, <3>3
  <2>3. \A e \in Distiller : distil'[e].step = "model" => distil'[e] = distil[e]
    BY <1>5, <1>6
  <2>4. QED
    BY <1>2, <1>7, <2>2, <2>3 DEF IndInv, ClearInv
<1>10. OnceInv' /\ RaceInv' /\ ForgetInv'
  BY <1>2, OnceKept, RaceKept DEF IndInv, ForgetInv, lessons
<1>11. QED
  BY <1>6, <1>8, <1>9, <1>10 DEF IndInv

LEMMA UpsertKept ==
  ASSUME TypeOK, ForgetInv, NEW r \in AllRules, UpsertLesson(r)
  PROVE  /\ ForgetInv' /\ lesson' \in [AllRules -> Nat]
         /\ active' \subseteq {q \in AllRules : lesson'[q] > 0}
<1>1. lesson' \in [AllRules -> Nat] /\ \A q \in AllRules : lesson'[q] >= lesson[q]
      /\ lesson'[r] > 0
  BY DEF TypeOK, UpsertLesson
<1>2. QED
  BY <1>1 DEF TypeOK, UpsertLesson, ForgetInv

LEMMA WriteLessonStep ==
  ASSUME IndInv, NEW d \in Distiller, WriteLesson(d)
  PROVE  IndInv'
<1>1. PICK r \in distil[d].rules :
        UpsertLesson(r) /\ distil' = [distil EXCEPT ![d].rules = @ \ {r}]
  BY DEF WriteLesson
<1>2. UNCHANGED <<outcomes, profiles, once, run, cleared, revived, autoRuns, unvoiced, raced>>
  BY DEF WriteLesson
<1>3. distil[d].step = "lessons" /\ distil[d] \in AtLessons /\ distil[d].reply \in rows
  BY DEF WriteLesson, Busy, IndInv, HandInv, IdleDistil, AtModel
<1> DEFINE x == [distil[d] EXCEPT !.rules = @ \ {r}]
<1>4. x \in AtLessons /\ x.step = "lessons" /\ x.reply = distil[d].reply
  BY <1>3 DEF AtLessons
<1>5. distil' = [distil EXCEPT ![d] = x]
  BY <1>1 DEF IndInv, HandInv
<1> HIDE DEF x
<1>6. HandInv' /\ distil'[d] = x /\ \A e \in Distiller : e # d => distil'[e] = distil[e]
  BY <1>2, <1>3, <1>4, <1>5, DistillerMoves DEF IndInv, outcomes
<1>7. r \in AllRules
  BY <1>3, Constants DEF AtLessons
<1>8. TypeOK' /\ ForgetInv'
  BY <1>1, <1>2, <1>7, UpsertKept DEF IndInv, TypeOK, outcomes, profiles
<1>9. ClearInv'
  BY <1>2, <1>4, <1>6, ClearKept DEF IndInv, profiles
<1>10. OnceInv' /\ RaceInv'
  BY <1>2, OnceKept, RaceKept DEF IndInv, profiles
<1>11. QED
  BY <1>6, <1>8, <1>9, <1>10 DEF IndInv

LEMMA MarkLearnedStep ==
  ASSUME IndInv, NEW d \in Distiller, MarkLearned(d)
  PROVE  IndInv'
<1>1. /\ distil' = [distil EXCEPT ![d] = IdleDistil]
      /\ learned' = learned \cup {distil[d].reply} /\ distil[d].reply \in rows
      /\ UNCHANGED <<rows, lessons, profiles, once, run, history>>
  BY DEF MarkLearned, IndInv, HandInv
<1>2. HandInv' /\ distil'[d] = IdleDistil /\ \A e \in Distiller : e # d => distil'[e] = distil[e]
  BY <1>1, DistillerMoves DEF IndInv, IdleDistil
<1>3. ClearInv'
  BY <1>1, <1>2, ClearKept DEF IndInv, IdleDistil, profiles, history
<1>4. TypeOK' /\ OnceInv' /\ RaceInv' /\ ForgetInv'
  BY <1>1, OnceKept, RaceKept DEF IndInv, TypeOK, ForgetInv, lessons, profiles, history
<1>5. QED
  BY <1>2, <1>3, <1>4 DEF IndInv

LEMMA DistilNoReplyStep ==
  ASSUME IndInv, NEW d \in Distiller, NEW j \in Reply, DistilNoReply(d, j)
  PROVE  IndInv'
<1>1. /\ learned' = learned \cup {j} /\ j \in rows
      /\ UNCHANGED <<lessons, forgotten>> \/ UpsertLesson(Quiet)
      /\ UNCHANGED <<rows, profiles, distil, once, run, cleared, revived, autoRuns, unvoiced,
                     raced>>
  BY DEF DistilNoReply
<1>2. /\ ForgetInv' /\ lesson' \in [AllRules -> Nat]
      /\ active' \subseteq {q \in AllRules : lesson'[q] > 0}
  <2>1. CASE UNCHANGED <<lessons, forgotten>>
    BY <2>1 DEF IndInv, TypeOK, ForgetInv, lessons
  <2>2. CASE UpsertLesson(Quiet)
    BY <2>2, Constants, UpsertKept DEF IndInv
  <2>3. QED
    BY <1>1, <2>1, <2>2
<1>3. TypeOK'
  BY <1>1, <1>2 DEF IndInv, TypeOK, profiles
<1>4. HandInv' /\ ClearInv' /\ OnceInv' /\ RaceInv'
  BY <1>1, HandKept, ClearKept, OnceKept, RaceKept DEF IndInv, profiles
<1>5. QED
  BY <1>2, <1>3, <1>4 DEF IndInv

-----------------------------------------------------------------------------
(* The owner, and the sweep's pruning. *)

LEMMA ActiveStep ==
  ASSUME IndInv, PruneLessons \/ \E r \in AllRules : Forget(r)
  PROVE  IndInv'
<1>1. /\ active' \subseteq active
      /\ UNCHANGED <<outcomes, lesson, profiles, distil, once, run, cleared, revived, autoRuns,
                     unvoiced, raced>>
  BY DEF PruneLessons, Forget, TopLessons, history
<1>2. active' \cap forgotten' = {}
  BY DEF PruneLessons, Forget, TopLessons, history, IndInv, ForgetInv
<1>3. TypeOK' /\ HandInv' /\ ClearInv' /\ OnceInv' /\ RaceInv'
  BY <1>1, HandKept, ClearKept, OnceKept, RaceKept DEF IndInv, TypeOK, outcomes, profiles
<1>4. QED
  BY <1>2, <1>3 DEF IndInv, ForgetInv

LEMMA ClearNotesStep ==
  ASSUME IndInv, NEW s \in Sender, ClearNotes(s)
  PROVE  IndInv'
<1>1. /\ note' = [note EXCEPT ![s] = {}]
      /\ cleared' = [cleared EXCEPT ![s] = @ \cup note[s]]
      /\ revived' = revived \ {s}
      /\ distil' = [d \in Distiller |-> IF d \in AtWorkOn(s)
                                        THEN [distil[d] EXCEPT !.late = TRUE] ELSE distil[d]]
      /\ UNCHANGED <<outcomes, lessons, profile, voice, once, run, forgotten, autoRuns,
                     unvoiced, raced>>
  BY DEF ClearNotes
<1>2. ASSUME NEW d \in Distiller
      PROVE  \/ distil'[d] = distil[d] /\ d \notin AtWorkOn(s)
             \/ /\ distil[d] \in AtModel /\ distil'[d] \in AtModel /\ distil'[d].late
                /\ distil'[d].reply = distil[d].reply
  <2>1. CASE d \in AtWorkOn(s)
    <3>1. distil[d] \in AtModel
      BY <2>1 DEF AtWorkOn, IndInv, HandInv, IdleDistil, AtLessons
    <3>2. distil'[d] = [distil[d] EXCEPT !.late = TRUE]
      BY <1>1, <2>1
    <3>3. QED
      BY <3>1, <3>2 DEF AtModel
  <2>2. CASE d \notin AtWorkOn(s)
    BY <1>1, <2>2
  <2>3. QED
    BY <2>1, <2>2
<1>3. HandInv'
  <2>1. distil' = [d \in Distiller |-> distil'[d]]
    BY <1>1
  <2>2. \A d \in Distiller : distil'[d] \in {IdleDistil} \cup AtModel \cup AtLessons
    BY <1>2 DEF IndInv, HandInv
  <2>3. distil' \in [Distiller -> {IdleDistil} \cup AtModel \cup AtLessons]
    BY <2>1, <2>2
  <2>4. \A d \in Distiller : Busy(d)' => distil'[d].reply \in rows
    BY <1>2 DEF IndInv, HandInv, Busy, AtModel
  <2>5. QED
    BY <1>1, <2>3, <2>4 DEF IndInv, HandInv, outcomes
<1>4. TypeOK'
  BY <1>1 DEF IndInv, TypeOK, outcomes, lessons
<1>5. /\ note'[s] = {} /\ \A t \in Sender : t # s => note'[t] = note[t] /\ cleared'[t] = cleared[t]
  BY <1>1 DEF IndInv, TypeOK
<1>6. ClearInv'
  <2>1. ASSUME NEW t \in Sender, note'[t] \cap cleared'[t] # {} PROVE t \in revived'
    BY <1>1, <1>5, <2>1 DEF IndInv, ClearInv
  <2>2. ASSUME NEW d \in Distiller, distil'[d].step = "model", ~distil'[d].late,
               (distil'[d].prior \cup {distil'[d].reply})
                 \cap cleared'[SenderOf[distil'[d].reply]] # {}
        PROVE  SenderOf[distil'[d].reply] \in revived'
    <3>1. distil'[d] = distil[d] /\ d \notin AtWorkOn(s)
      BY <1>2, <2>2
    <3>2. SenderOf[distil[d].reply] # s
      BY <2>2, <3>1 DEF AtWorkOn, Busy
    <3>3. distil[d].reply \in Reply
      BY <2>2, <3>1 DEF IndInv, HandInv, Busy, TypeOK
    <3>4. SenderOf[distil[d].reply] \in Sender
      BY <3>3, Constants
    <3>5. cleared'[SenderOf[distil[d].reply]] = cleared[SenderOf[distil[d].reply]]
      BY <1>5, <3>2, <3>4
    <3>6. SenderOf[distil[d].reply] \in revived
      BY <2>2, <3>1, <3>5 DEF IndInv, ClearInv
    <3>7. QED
      BY <1>1, <3>1, <3>2, <3>6
  <2>3. QED
    BY <2>1, <2>2 DEF ClearInv
<1>7. OnceInv' /\ RaceInv' /\ ForgetInv'
  BY <1>1, OnceKept, RaceKept DEF IndInv, ForgetInv, lessons
<1>8. QED
  BY <1>3, <1>4, <1>6, <1>7 DEF IndInv

LEMMA SaveStep ==
  ASSUME IndInv, NEW s \in Sender, NEW given \in BOOLEAN, SaveProfile(s, given)
  PROVE  IndInv'
<1>1. /\ profile' = profile \cup {s}
      /\ voice' = IF given THEN [voice EXCEPT ![s] = "agent"] ELSE voice
      /\ raced' = raced \cup {t \in {s} : \E b \in Runs : run[b].step = "summarize"
                                                         /\ run[b].sender = s}
      /\ UNCHANGED <<outcomes, lessons, note, distil, once, run, forgotten, cleared, revived,
                     autoRuns, unvoiced>>
  BY DEF SaveProfile
<1>2. /\ voice' \in [Sender -> {None, "agent", "backfill"}]
      /\ \A t \in Sender : t # s => voice'[t] = voice[t]
      /\ \A t \in Sender : voice[t] # None => voice'[t] # None
  BY <1>1, Constants DEF IndInv, TypeOK
<1>3. TypeOK'
  BY <1>1, <1>2 DEF IndInv, TypeOK, outcomes, lessons
<1>4. HandInv' /\ ClearInv' /\ OnceInv' /\ ForgetInv'
  BY <1>1, <1>2, HandKept, ClearKept, OnceKept DEF IndInv, ForgetInv, outcomes, lessons
<1>5. RaceInv'
  <2> SUFFICES ASSUME NEW b \in Runs, run[b].step = "summarize",
                      voice'[run[b].sender] = "agent", ~run[b].force
               PROVE  run[b].sender \in raced'
    BY <1>1 DEF RaceInv
  <2>1. run[b].sender \in Sender
    BY DEF IndInv, HandInv
  <2>2. CASE run[b].sender = s
    BY <1>1, <2>2
  <2>3. CASE run[b].sender # s
    BY <1>1, <1>2, <2>1, <2>3 DEF IndInv, RaceInv
  <2>4. QED
    BY <2>2, <2>3
<1>6. QED
  BY <1>3, <1>4, <1>5 DEF IndInv

-----------------------------------------------------------------------------
(* The backfills. *)

\* A backfill goes on, and the tables that distilling is about rest.
LEMMA BackfillMoves ==
  ASSUME IndInv, NEW b \in Runs, NEW x \in {IdleRun} \cup Running,
         run' = [run EXCEPT ![b] = x], x.step = "summarize" => x.sender \in Sender,
         UNCHANGED <<outcomes, lessons, note, distil, forgotten, cleared, revived>>
  PROVE  /\ HandInv' /\ ClearInv' /\ ForgetInv' /\ run'[b] = x
         /\ \A c \in Runs : c # b => run'[c] = run[c]
<1>1. /\ run'[b] = x /\ \A c \in Runs : c # b => run'[c] = run[c]
      /\ run' \in [Runs -> {IdleRun} \cup Running]
  BY DEF IndInv, HandInv
<1>2. HandInv'
  BY <1>1 DEF IndInv, HandInv, Busy, outcomes
<1>3. ClearInv' /\ ForgetInv'
  BY ClearKept DEF IndInv, ForgetInv, lessons
<1>4. QED
  BY <1>1, <1>2, <1>3

LEMMA StartStep ==
  ASSUME IndInv, AutoBackfill \/ \E force \in BOOLEAN : ToolBackfill(force)
  PROVE  IndInv'
<1>1. UNCHANGED <<outcomes, lessons, profiles, distil, forgotten, cleared, revived, unvoiced,
                  raced>>
  BY DEF AutoBackfill, ToolBackfill, history
<1>2. ASSUME NEW force \in BOOLEAN PROVE Started(force) \in Running
  BY DEF Started, Running
<1>3. CASE AutoBackfill
  <2>1. run' = [run EXCEPT !["auto"] = Started(FALSE)] /\ ~once /\ once' = TRUE
        /\ autoRuns' = autoRuns + 1
    BY <1>3 DEF AutoBackfill
  <2>2. /\ HandInv' /\ ClearInv' /\ ForgetInv' /\ run'["auto"] = Started(FALSE)
        /\ \A c \in Runs : c # "auto" => run'[c] = run[c]
    BY <1>1, <1>2, <2>1, Constants, BackfillMoves DEF Started, profiles
  <2>3. OnceInv'
    BY <2>1, <2>2 DEF IndInv, OnceInv, Started, Unfinished
  <2>4. RaceInv'
    BY <1>1, <2>2 DEF IndInv, RaceInv, Started, profiles
  <2>5. TypeOK'
    BY <1>1, <2>1 DEF IndInv, TypeOK, outcomes, lessons, profiles
  <2>6. QED
    BY <2>2, <2>3, <2>4, <2>5 DEF IndInv
<1>4. ASSUME NEW force \in BOOLEAN, ToolBackfill(force) PROVE IndInv'
  <2>1. run' = [run EXCEPT !["tool"] = Started(force)] /\ once' = once
        /\ autoRuns' = autoRuns
    BY <1>4 DEF ToolBackfill, history
  <2>2. /\ HandInv' /\ ClearInv' /\ ForgetInv' /\ run'["tool"] = Started(force)
        /\ \A c \in Runs : c # "tool" => run'[c] = run[c]
    BY <1>1, <1>2, <2>1, Constants, BackfillMoves DEF Started, profiles
  <2>3. OnceInv'
    BY <1>1, <2>1, <2>2, Constants, OnceKept DEF IndInv, profiles
  <2>4. RaceInv'
    BY <1>1, <2>2 DEF IndInv, RaceInv, Started, profiles
  <2>5. TypeOK'
    BY <1>1, <2>1 DEF IndInv, TypeOK, outcomes, lessons, profiles
  <2>6. QED
    BY <2>2, <2>3, <2>4, <2>5 DEF IndInv
<1>5. QED
  BY <1>3, <1>4

LEMMA ListFailsStep == ASSUME IndInv, NEW b \in Runs, ListFails(b) PROVE IndInv'
<1>1. /\ run' = [run EXCEPT ![b] = IdleRun]
      /\ unvoiced' = IF b = "auto" THEN Sender ELSE unvoiced
      /\ UNCHANGED <<outcomes, lessons, profiles, distil, once, forgotten, cleared, revived,
                     autoRuns, raced>>
      /\ run[b].step = "next"
  BY DEF ListFails
<1>2. /\ HandInv' /\ ClearInv' /\ ForgetInv' /\ run'[b] = IdleRun
      /\ \A c \in Runs : c # b => run'[c] = run[c]
  BY <1>1, BackfillMoves DEF IdleRun, profiles
<1>3. unvoiced \subseteq unvoiced' /\ unvoiced' \subseteq Sender
  BY <1>1 DEF IndInv, TypeOK
<1>4. OnceInv'
  <2>1. CASE b = "auto"
    BY <1>1, <1>2, <2>1 DEF IndInv, OnceInv, IdleRun
  <2>2. CASE b # "auto"
    BY <1>1, <1>2, <1>3, <2>2, Constants, OnceKept DEF IndInv, profiles
  <2>3. QED
    BY <2>1, <2>2
<1>5. RaceInv'
  BY <1>1, <1>2 DEF IndInv, RaceInv, IdleRun, profiles
<1>6. TypeOK'
  BY <1>1, <1>3 DEF IndInv, TypeOK, outcomes, lessons, profiles
<1>7. QED
  BY <1>2, <1>4, <1>5, <1>6 DEF IndInv

\* Where a run stands after a sender.
LEMMA DoneRun ==
  ASSUME NEW r \in Running
  PROVE  /\ Done(r) \in {IdleRun} \cup Running /\ Done(r).step \in {"idle", "next"}
         /\ Done(r).step = "idle" => r.todo = {}
         /\ Done(r).step = "next" => Done(r).todo = r.todo /\ Done(r).force = r.force
BY DEF Done, IdleRun, Running

LEMMA AfterSender ==
  ASSUME IndInv, NEW b \in Runs, WriteVoice(b) \/ NoVoice(b)
  PROVE  IndInv'
<1> DEFINE s == run[b].sender
<1>1. /\ run' = [run EXCEPT ![b] = Done(run[b])] /\ run[b].step = "summarize"
      /\ UNCHANGED <<outcomes, lessons, note, distil, once, forgotten, cleared, revived,
                     autoRuns, raced>>
  BY DEF WriteVoice, NoVoice, profiles, history, IndInv, HandInv
<1>2. run[b] \in Running /\ s \in Sender
  BY <1>1 DEF IndInv, HandInv, IdleRun
<1>3. /\ HandInv' /\ ClearInv' /\ ForgetInv' /\ run'[b] = Done(run[b])
      /\ \A c \in Runs : c # b => run'[c] = run[c]
  BY <1>1, <1>2, DoneRun, BackfillMoves
<1>4. \/ /\ profile' = profile \cup {s} /\ voice' = [voice EXCEPT ![s] = "backfill"]
         /\ unvoiced' = unvoiced
      \/ /\ UNCHANGED <<profile, voice>>
         /\ unvoiced' = IF b = "auto" THEN unvoiced \cup {s} ELSE unvoiced
  BY DEF WriteVoice, NoVoice, profiles, history
<1> HIDE DEF s
<1>5. /\ voice' \in [Sender -> {None, "agent", "backfill"}]
      /\ \A t \in Sender : voice'[t] = voice[t] \/ (t = s /\ voice'[t] = "backfill")
      /\ profile \subseteq profile' /\ profile' \subseteq Sender
      /\ unvoiced \subseteq unvoiced' /\ unvoiced' \subseteq Sender
      /\ b = "auto" => voice'[s] # None \/ s \in unvoiced'
      /\ \A t \in Sender : t \notin profile' => voice'[t] = None
  BY <1>2, <1>4, Constants DEF IndInv, TypeOK
<1>6. \A t \in Sender : voice[t] # None => voice'[t] # None
  BY <1>5, Constants
<1>7. OnceInv'
  <2>1. CASE b = "auto"
    <3>1. once
      BY <1>1, <2>1 DEF IndInv, OnceInv, IdleRun
    <3>2. ASSUME NEW t \in Sender PROVE t \in Unfinished' \/ voice'[t] # None \/ t \in unvoiced'
      <4>1. t \in run["auto"].todo \/ t = s \/ voice[t] # None \/ t \in unvoiced
        BY <1>1, <2>1, <3>1 DEF IndInv, OnceInv, Unfinished, s
      <4>2. t \in run["auto"].todo => t \in Unfinished'
        BY <1>2, <1>3, <2>1, DoneRun DEF Unfinished
      <4>3. QED
        BY <1>5, <1>6, <2>1, <4>1, <4>2
    <3>3. run'["auto"].step # "idle" => ~run'["auto"].force
      BY <1>1, <1>2, <1>3, <2>1, DoneRun DEF IndInv, OnceInv
    <3>4. QED
      BY <1>1, <3>1, <3>2, <3>3 DEF IndInv, OnceInv
  <2>2. CASE b # "auto"
    BY <1>1, <1>3, <1>5, <1>6, <2>2, Constants, OnceKept DEF IndInv
  <2>3. QED
    BY <2>1, <2>2
<1>8. RaceInv'
  <2> SUFFICES ASSUME NEW c \in Runs, run'[c].step = "summarize",
                      voice'[run'[c].sender] = "agent", ~run'[c].force
               PROVE  run'[c].sender \in raced'
    BY DEF RaceInv
  <2>1. c # b /\ run'[c] = run[c]
    BY <1>2, <1>3, DoneRun
  <2>2. run[c].sender \in Sender
    BY <2>1 DEF IndInv, HandInv
  <2>3. voice[run[c].sender] = "agent"
    BY <1>5, <2>1, <2>2
  <2>4. QED
    BY <1>1, <2>1, <2>3 DEF IndInv, RaceInv
<1>9. TypeOK'
  BY <1>1, <1>5 DEF IndInv, TypeOK, outcomes, lessons
<1>10. QED
  BY <1>3, <1>7, <1>8, <1>9 DEF IndInv

LEMMA LookUpStep ==
  ASSUME IndInv, NEW b \in Runs, NEW s \in Sender, LookUp(b, s)
  PROVE  IndInv'
<1> DEFINE r == run[b]
           on == [r EXCEPT !.todo = @ \ {s}, !.sender = s]
           skipped == s \in profile /\ ~r.force
           x == IF skipped THEN Done(on) ELSE [on EXCEPT !.step = "summarize"]
<1>1. /\ r.step = "next" /\ s \in r.todo
      /\ raced' = IF s \in profile THEN raced ELSE raced \ {s}
      /\ unvoiced' = IF b = "auto" /\ s \in profile /\ voice[s] = None
                     THEN unvoiced \cup {s} ELSE unvoiced
      /\ UNCHANGED <<outcomes, lessons, profiles, distil, once, forgotten, cleared, revived,
                     autoRuns>>
  BY DEF LookUp
<1>2. r \in Running
  BY <1>1 DEF IndInv, HandInv, IdleRun
<1>3. on \in Running /\ on.todo = r.todo \ {s} /\ on.sender = s /\ on.force = r.force
  BY <1>2 DEF Running
<1>4. run' = [run EXCEPT ![b] = x]
  <2>1. Summarize(r, s) = [on EXCEPT !.step = "summarize"]
    BY <1>2 DEF Summarize, Running
  <2>2. Skip(r, s) = Done(on)
    BY DEF Skip
  <2>3. run' = [run EXCEPT ![b] = IF skipped THEN Skip(r, s) ELSE Summarize(r, s)]
    BY DEF LookUp, IndInv, HandInv
  <2>4. QED
    BY <2>1, <2>2, <2>3
<1> HIDE DEF on
<1>5. /\ x \in {IdleRun} \cup Running
      /\ x.step = "summarize" => x.sender = s /\ ~skipped /\ x.force = r.force
      /\ x.step \in {"idle", "next", "summarize"}
      /\ x.step = "idle" => r.todo \ {s} = {} /\ skipped
      /\ x.step = "next" => x.todo = r.todo \ {s} /\ x.force = r.force /\ skipped
      /\ x.step = "summarize" => x.todo = r.todo \ {s}
  <2>1. CASE skipped
    BY <1>3, <2>1, DoneRun
  <2>2. CASE ~skipped
    <3>1. /\ x \in Running /\ x.step = "summarize" /\ x.sender = s /\ x.force = r.force
          /\ x.todo = r.todo \ {s}
      BY <1>3, <2>2 DEF Running
    <3>2. QED
      BY <2>2, <3>1
  <2>3. QED
    BY <2>1, <2>2
<1> HIDE DEF x
<1>6. /\ HandInv' /\ ClearInv' /\ ForgetInv' /\ run'[b] = x
      /\ \A c \in Runs : c # b => run'[c] = run[c]
  BY <1>1, <1>4, <1>5, BackfillMoves DEF profiles
<1>7. unvoiced \subseteq unvoiced' /\ unvoiced' \subseteq Sender
      /\ b = "auto" /\ skipped => voice[s] # None \/ s \in unvoiced'
  BY <1>1 DEF IndInv, TypeOK
<1>8. OnceInv'
  <2>1. CASE b = "auto"
    <3>1. once /\ ~r.force
      BY <1>1, <2>1 DEF IndInv, OnceInv, IdleRun
    <3>2. ASSUME NEW t \in Sender PROVE t \in Unfinished' \/ voice'[t] # None \/ t \in unvoiced'
      <4>1. t \in r.todo \/ voice[t] # None \/ t \in unvoiced
        BY <1>1, <2>1, <3>1 DEF IndInv, OnceInv, Unfinished
      <4>2. t \in r.todo /\ t # s => t \in Unfinished'
        BY <1>5, <1>6, <2>1 DEF Unfinished
      <4>3. ~skipped => s \in Unfinished'
        BY <1>5, <1>6, <2>1 DEF Unfinished
      <4>4. QED
        BY <1>1, <1>7, <2>1, <4>1, <4>2, <4>3 DEF profiles
    <3>3. run'["auto"].step # "idle" => ~run'["auto"].force
      BY <1>5, <1>6, <2>1, <3>1
    <3>4. QED
      BY <1>1, <3>1, <3>2, <3>3 DEF IndInv, OnceInv
  <2>2. CASE b # "auto"
    BY <1>1, <1>6, <1>7, <2>2, Constants, OnceKept DEF IndInv, profiles
  <2>3. QED
    BY <2>1, <2>2
<1>9. RaceInv'
  <2> SUFFICES ASSUME NEW c \in Runs, run'[c].step = "summarize",
                      voice[run'[c].sender] = "agent", ~run'[c].force
               PROVE  run'[c].sender \in raced'
    BY <1>1 DEF RaceInv, profiles
  <2>1. s \notin profile => voice[s] # "agent"
    BY Constants DEF IndInv, TypeOK
  <2>2. CASE c = b
    BY <1>5, <1>6, <2>1, <2>2
  <2>3. CASE c # b
    <3>1. run[c].sender \in raced /\ run'[c] = run[c]
      BY <1>6, <2>3 DEF IndInv, RaceInv
    <3>2. QED
      BY <1>1, <2>1, <3>1
  <2>4. QED
    BY <2>2, <2>3
<1>10. TypeOK'
  BY <1>1, <1>7 DEF IndInv, TypeOK, outcomes, lessons, profiles
<1>11. QED
  BY <1>6, <1>8, <1>9, <1>10 DEF IndInv

LEMMA CrashStep == ASSUME IndInv, Crash PROVE IndInv'
<1>1. /\ distil' = [d \in Distiller |-> IdleDistil]
      /\ run' = [b \in Runs |-> IdleRun]
      /\ unvoiced' = unvoiced \cup Unfinished
      /\ UNCHANGED <<outcomes, lessons, profiles, once, forgotten, cleared, revived, autoRuns,
                     raced>>
  BY DEF Crash
<1>2. HandInv'
  BY <1>1 DEF HandInv, Busy, IdleDistil, IdleRun
<1>3. ClearInv' /\ RaceInv' /\ ForgetInv'
  BY <1>1 DEF IndInv, ClearInv, RaceInv, ForgetInv, IdleDistil, IdleRun, lessons, profiles
<1>4. Unfinished \subseteq Sender
  <2>1. run["auto"] \in {IdleRun} \cup Running
    BY Constants DEF IndInv, HandInv
  <2>2. run["auto"].step = "summarize" => run["auto"].sender \in Sender
    BY Constants DEF IndInv, HandInv
  <2>3. run["auto"].step \in {"next", "summarize"} => run["auto"].todo \subseteq Sender
    BY <2>1 DEF IdleRun, Running
  <2>4. QED
    BY <2>2, <2>3 DEF Unfinished
<1>5. OnceInv'
  BY <1>1, Constants DEF IndInv, OnceInv, IdleRun, profiles
<1>6. TypeOK'
  BY <1>1, <1>4 DEF IndInv, TypeOK, outcomes, lessons, profiles
<1>7. QED
  BY <1>2, <1>3, <1>5, <1>6 DEF IndInv

-----------------------------------------------------------------------------
(* The invariant. *)

LEMMA Start == Init => IndInv
<1> SUFFICES ASSUME Init PROVE IndInv
  OBVIOUS
<1>1. TypeOK
  BY Constants DEF Init, TypeOK
<1>2. HandInv
  BY DEF Init, HandInv, Busy, IdleDistil, IdleRun
<1>3. ForgetInv /\ ClearInv /\ RaceInv
  BY DEF Init, ForgetInv, ClearInv, RaceInv, IdleDistil, IdleRun
<1>4. OnceInv
  BY Constants DEF Init, OnceInv, IdleRun
<1>5. QED
  BY <1>1, <1>2, <1>3, <1>4 DEF IndInv

LEMMA NextKeeps == IndInv /\ [Next]_vars => IndInv'
<1> SUFFICES ASSUME IndInv, [Next]_vars PROVE IndInv'
  OBVIOUS
<1>1. CASE UNCHANGED vars
  <2>1. TypeOK'
    BY <1>1 DEF IndInv, TypeOK, vars, outcomes, lessons, profiles, history
  <2>2. HandInv' /\ ClearInv' /\ OnceInv' /\ RaceInv'
    BY <1>1, HandKept, ClearKept, OnceKept, RaceKept DEF IndInv, vars, outcomes, profiles,
       history
  <2>3. ForgetInv'
    BY <1>1 DEF IndInv, ForgetInv, vars, lessons, history
  <2>4. QED
    BY <2>1, <2>2, <2>3 DEF IndInv
<1>2. ASSUME NEW j \in Reply, MarkedNoReply(j) PROVE IndInv'
  BY <1>2, NoReplyStep
<1>3. ASSUME NEW d \in Distiller, DistilStep(d) PROVE IndInv'
  <2>1. ASSUME NEW j \in Reply, ReadPrior(d, j) \/ DistilNoReply(d, j) PROVE IndInv'
    BY <2>1, ReadPriorStep, DistilNoReplyStep
  <2>2. QED
    BY <1>3, <2>1, GivesUpStep, WriteNoteStep, WriteLessonStep, MarkLearnedStep DEF DistilStep
<1>4. ASSUME PruneLessons \/ \E r \in AllRules : Forget(r) PROVE IndInv'
  BY <1>4, ActiveStep
<1>5. ASSUME NEW s \in Sender, ClearNotes(s) \/ \E given \in BOOLEAN : SaveProfile(s, given)
      PROVE  IndInv'
  BY <1>5, ClearNotesStep, SaveStep
<1>6. ASSUME AutoBackfill \/ \E force \in BOOLEAN : ToolBackfill(force) PROVE IndInv'
  BY <1>6, StartStep
<1>7. ASSUME NEW b \in Runs, BackfillStep(b) PROVE IndInv'
  BY <1>7, ListFailsStep, AfterSender, LookUpStep DEF BackfillStep
<1>8. ASSUME Crash PROVE IndInv'
  BY <1>8, CrashStep
<1>9. QED
  BY <1>1, <1>2, <1>3, <1>4, <1>5, <1>6, <1>7, <1>8 DEF Next

LEMMA Inductive == Spec => []IndInv
BY Start, NextKeeps, PTL DEF Spec

-----------------------------------------------------------------------------
(* Theorems. *)

\* inbox_forget_lesson keeps a lesson out of every brief until it is learned
\* again, for any limits of the store and of the brief.
THEOREM ForgettingHolds == Spec => []ForgottenIsNotBriefed
<1>1. IndInv => ForgottenIsNotBriefed
  BY DEF IndInv, ForgetInv, ForgottenIsNotBriefed, Briefed, TopLessons
<1>2. QED
  BY <1>1, Inductive, PTL

\* However many distillers work on a correspondent's replies: what the owner
\* cleared from a note comes back only with the reply that said it, or by a
\* distiller that had read the note before (distill_and_apply).
THEOREM ClearingHolds == Spec => []ClearedStaysCleared
<1>1. IndInv => ClearedStaysCleared
  BY DEF IndInv, ClearInv, ClearedStaysCleared
<1>2. QED
  BY <1>1, Inductive, PTL

\* Over any number of restarts there is one automatic backfill, and it accounts
\* for every correspondent: a voice, or one of the named failures.
THEOREM BackfillAccounts == Spec => []BackfilledOnce
<1>1. IndInv => BackfilledOnce
  BY Constants DEF IndInv, OnceInv, BackfilledOnce, Unfinished
<1>2. QED
  BY <1>1, Inductive, PTL

\* For any number of correspondents and any order of saves and backfills: only a
\* forced backfill, or one that had found no profile, overwrites what the agent
\* saved.
THEOREM AgentVoiceStands == Spec => AgentVoiceKept
<1> DEFINE Kept(s) == voice[s] = "agent" /\ voice'[s] # "agent" =>
                        \E b \in Runs : run[b].step = "summarize" /\ run[b].sender = s
                                       /\ (run[b].force \/ s \in raced)
<1>1. IndInv /\ [Next]_vars => [\A s \in Sender : Kept(s)]_vars
  <2> SUFFICES ASSUME IndInv, Next, NEW s \in Sender, voice[s] = "agent", voice'[s] # "agent"
               PROVE  \E b \in Runs : run[b].step = "summarize" /\ run[b].sender = s
                                     /\ (run[b].force \/ s \in raced)
    BY DEF vars
  <2>1. ASSUME NEW t \in Sender, NEW given \in BOOLEAN, SaveProfile(t, given) PROVE FALSE
    BY <2>1 DEF SaveProfile, IndInv, TypeOK
  <2>2. \E b \in Runs : WriteVoice(b)
    BY <2>1 DEF Next, MarkedNoReply, DistilStep, ReadPrior, DistilNoReply, ModelFails,
       WriteNote, WriteLesson, WriteFails, MarkLearned, PruneLessons, Forget, ClearNotes,
       AutoBackfill, ToolBackfill, BackfillStep, ListFails, NoVoice, LookUp, Crash, profiles
  <2>3. PICK b \in Runs : WriteVoice(b)
    BY <2>2
  <2>4. run[b].step = "summarize" /\ voice' = [voice EXCEPT ![run[b].sender] = "backfill"]
    BY <2>3 DEF WriteVoice
  <2>5. run[b].sender = s
    BY <2>4 DEF IndInv, TypeOK
  <2>6. QED
    BY <2>4, <2>5 DEF IndInv, RaceInv
<1>2. QED
  BY <1>1, Inductive, PTL DEF Spec, AgentVoiceKept

=============================================================================
