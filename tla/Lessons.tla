------------------------------- MODULE Lessons -------------------------------
(***************************************************************************)
(* What drafts are written from: the tables draft_lessons and              *)
(* sender_profiles (db.py), with everyone who writes them.  Replies are    *)
(* distilled into lessons and learned notes (draft_learn.py) by several    *)
(* workers and the sweep, the sweep prunes, the owner forgets lessons,     *)
(* clears notes and has the agent save profiles (draft_feedback.py,        *)
(* tools_profile.py), a backfill writes voice profiles (backfill.py), and  *)
(* the brief reads it all (brief.py).                                      *)
(*                                                                         *)
(* One account.  A learned note is the set of replies it was distilled     *)
(* from; a voice note is who wrote it.  Which replies become rows of       *)
(* draft_outcomes, and when, is the matter of DraftFeedback.               *)
(***************************************************************************)
EXTENDS Integers, Sequences, FiniteSets

CONSTANTS
  Sender,     \* correspondents
  Reply,      \* classified rows of draft_outcomes, yet to be learned
  NoReply,    \* those of them that are no_reply; the others were edited
  SenderOf,   \* SenderOf[j]: the correspondent of a row
  Rule,       \* rules the model may come back with, by polarity and text
  Quiet,      \* the rule that replies are often not sent
  Threshold,  \* NO_REPLY_LESSON_THRESHOLD
  MaxStore,   \* MAX_LESSONS_STORE
  MaxBrief,   \* draft_feedback_max_lessons
  Distiller,  \* threads that distil: the pool's workers and the sweep
  None,
  MaxFaults,  \* bound: failures and crashes
  MaxOwner    \* bound: what the owner does

ASSUME LessonsAssumption ==
  /\ NoReply \subseteq Reply
  /\ SenderOf \in [Reply -> Sender]
  /\ Quiet \notin Rule /\ None \notin Sender \cup {"agent", "backfill"}
  /\ Threshold \in Nat /\ MaxStore \in Nat /\ MaxBrief \in Nat
  /\ MaxFaults \in Nat /\ MaxOwner \in Nat

AllRules == Rule \cup {Quiet}
Runs == {"auto", "tool"}

VARIABLES
  rows,      \* rows of draft_outcomes that were classified
  learned,   \* those marked learned
  lesson,    \* lesson[r]: evidence_count, 0 if there is no such lesson
  active,    \* lessons with active = 1
  order,     \* lessons by last_seen_ms, the latest last
  profile,   \* senders with a row in sender_profiles
  voice,     \* voice[s]: who wrote voice_notes, or None
  note,      \* note[s]: learned_notes
  distil,    \* distil[d]: what a distiller is at
  once,      \* the module_notified marker of the automatic backfill
  run,       \* run[b]: what a backfill is at
  faults,    \* failures and crashes so far
  asked,     \* what the owner has done so far
  forgotten, \* history: lessons the owner forgot, not learned again since
  cleared,   \* history: cleared[s]: replies whose note the owner cleared and
             \* that were not distilled again since
  revived,   \* history: senders whose cleared note a distiller that had read it
             \* before wrote back
  autoRuns,  \* history: automatic backfills
  unvoiced,  \* history: senders the automatic backfill gave no voice: it failed,
             \* died with the process, or found a profile without one
  raced      \* history: senders whose profile was saved while a backfill that
             \* had found none was at work on it

outcomes == <<rows, learned>>
lessons  == <<lesson, active, order>>
profiles == <<profile, voice, note>>
history  == <<forgotten, cleared, revived, autoRuns, unvoiced, raced>>
vars == <<outcomes, lessons, profiles, distil, once, run, faults, asked, history>>

IdleDistil == [step |-> "idle"]
IdleRun    == [step |-> "idle"]

TypeOK ==
  /\ rows \subseteq Reply /\ learned \subseteq rows
  /\ lesson \in [AllRules -> Nat]
  /\ active \subseteq {r \in AllRules : lesson[r] > 0}
  /\ profile \subseteq Sender
  /\ voice \in [Sender -> {None, "agent", "backfill"}]
  /\ note \in [Sender -> SUBSET Reply] /\ cleared \in [Sender -> SUBSET Reply]
  /\ \A s \in Sender : s \notin profile => voice[s] = None /\ note[s] = {}
  /\ once \in BOOLEAN /\ unvoiced \subseteq Sender

\* The owner's replies wait to be learned; drafts run out of time later.
Init ==
  /\ rows = Reply \ NoReply /\ learned = {}
  /\ lesson = [r \in AllRules |-> 0]
  /\ active = {}
  /\ order = <<>>
  /\ profile = {}
  /\ voice = [s \in Sender |-> None]
  /\ note = [s \in Sender |-> {}]
  /\ distil = [d \in Distiller |-> IdleDistil]
  /\ once = FALSE
  /\ run = [b \in Runs |-> IdleRun]
  /\ faults = 0 /\ asked = 0
  /\ forgotten = {}
  /\ cleared = [s \in Sender |-> {}]
  /\ revived = {}
  /\ autoRuns = 0
  /\ unvoiced = {}
  /\ raced = {}

Fault == faults < MaxFaults /\ faults' = faults + 1

-----------------------------------------------------------------------------
(* draft_lessons. *)

\* A repeated lesson counts once more, and is active again whoever switched it off.
UpsertLesson(r) ==
  /\ lesson' = [lesson EXCEPT ![r] = @ + 1]
  /\ active' = active \cup {r}
  /\ order' = Append(SelectSeq(order, LAMBDA q : q # r), r)
  /\ forgotten' = forgotten \ {r}

Place(r) == CHOOSE i \in DOMAIN order : order[i] = r

RanksAbove(q, r) ==
  \/ lesson[q] > lesson[r]
  \/ lesson[q] = lesson[r] /\ Place(q) > Place(r)

\* The n best lessons, switched off or not.
TopOfAll(n) ==
  {r \in AllRules : lesson[r] > 0
     /\ Cardinality({q \in AllRules : lesson[q] > 0 /\ RanksAbove(q, r)}) < n}

\* The n best active lessons, by evidence and then by recency.
TopLessons(n) == {r \in active : Cardinality({q \in active : RanksAbove(q, r)}) < n}

\* The lessons a brief is given.
Briefed == TopLessons(MaxBrief)

\* The sweep keeps the MaxStore best and switches the others off.
PruneLessons ==
  /\ active # TopLessons(MaxStore)
  /\ active' = TopLessons(MaxStore)
  /\ UNCHANGED <<outcomes, lesson, order, profiles, distil, once, run, faults, asked, history>>

-----------------------------------------------------------------------------
(* distill_and_apply. *)

\* The sweep marks a draft no_reply.
MarkedNoReply(j) ==
  /\ j \in NoReply \ rows
  /\ rows' = rows \cup {j}
  /\ UNCHANGED <<learned, lessons, profiles, distil, once, run, faults, asked, history>>

Busy(d) == distil[d].step # "idle"

\* Whichever of the idle threads takes a row is all the same.
Free(d) == d = CHOOSE e \in Distiller : ~Busy(e)

\* The prior note put together again from the rows already learned.
ReadPriorRows(d, j) ==
  /\ ~Busy(d) /\ Free(d)
  /\ j \in rows \ (learned \cup NoReply)
  /\ distil' = [distil EXCEPT ![d] = [step |-> "model", reply |-> j,
                                      prior |-> learned \ NoReply, late |-> FALSE]]
  /\ cleared' = [cleared EXCEPT ![SenderOf[j]] = @ \ {j}]
  /\ UNCHANGED <<outcomes, lessons, profiles, once, run, faults, asked, forgotten, revived,
                 autoRuns, unvoiced, raced>>

\* The prior note and the lessons are read, then the model is asked.  (A row that
\* the sweep listed before another call learned it is in DraftFeedback.)
ReadPrior(d, j) ==
  /\ ~Busy(d) /\ Free(d)
  /\ j \in rows \ (learned \cup NoReply)
  /\ distil' = [distil EXCEPT ![d] = [step |-> "model", reply |-> j,
                                      prior |-> note[SenderOf[j]], late |-> FALSE]]
  /\ cleared' = [cleared EXCEPT ![SenderOf[j]] = @ \ {j}]
  /\ UNCHANGED <<outcomes, lessons, profiles, once, run, faults, asked, forgotten, revived,
                 autoRuns, unvoiced, raced>>

\* The model raises or answers nonsense: the row stays unlearned.
ModelFails(d) ==
  /\ Busy(d) /\ distil[d].step = "model"
  /\ Fault
  /\ distil' = [distil EXCEPT ![d] = IdleDistil]
  /\ UNCHANGED <<outcomes, lessons, profiles, once, run, asked, history>>

\* What the model makes of the note: nothing, a new one, or the prior one refined.
Answers(d) == {{}, {distil[d].reply}, distil[d].prior \cup {distil[d].reply}}

WriteNote(d) ==
  /\ Busy(d) /\ distil[d].step = "model"
  /\ \E new \in Answers(d), rules \in SUBSET Rule :
       /\ LET s == SenderOf[distil[d].reply]
          IN  IF new = {} THEN UNCHANGED <<profile, note, revived>>
              ELSE /\ profile' = profile \cup {s}
                   /\ note' = [note EXCEPT ![s] = new]
                   /\ revived' = IF distil[d].late THEN revived \cup {s} ELSE revived
       /\ distil' = [distil EXCEPT ![d] = [step |-> "lessons", reply |-> distil[d].reply,
                                           rules |-> rules]]
  /\ UNCHANGED <<outcomes, lessons, voice, once, run, faults, asked, forgotten, cleared,
                 autoRuns, unvoiced, raced>>

WriteLesson(d) ==
  /\ Busy(d) /\ distil[d].step = "lessons"
  /\ \E r \in distil[d].rules :
       /\ UpsertLesson(r)
       /\ distil' = [distil EXCEPT ![d].rules = @ \ {r}]
  /\ UNCHANGED <<outcomes, profiles, once, run, faults, asked, cleared, revived, autoRuns,
                 unvoiced, raced>>

\* A write fails half way: what is written stays, and the row is distilled again.
WriteFails(d) ==
  /\ Busy(d) /\ distil[d].step = "lessons"
  /\ Fault
  /\ distil' = [distil EXCEPT ![d] = IdleDistil]
  /\ UNCHANGED <<outcomes, lessons, profiles, once, run, asked, history>>

MarkLearned(d) ==
  /\ Busy(d) /\ distil[d].step = "lessons" /\ distil[d].rules = {}
  /\ learned' = learned \cup {distil[d].reply}
  /\ distil' = [distil EXCEPT ![d] = IdleDistil]
  /\ UNCHANGED <<rows, lessons, profiles, once, run, faults, asked, history>>

NoReplies(s) == {j \in rows \cap NoReply : SenderOf[j] = s}

\* A no_reply row teaches one soft lesson, once there are enough of them.
DistilNoReply(d, j) ==
  /\ ~Busy(d) /\ Free(d)
  /\ j \in (rows \cap NoReply) \ learned
  /\ IF Cardinality(NoReplies(SenderOf[j])) < Threshold
     THEN UNCHANGED <<lessons, forgotten>>
     ELSE UpsertLesson(Quiet)
  /\ learned' = learned \cup {j}
  /\ UNCHANGED <<rows, profiles, distil, once, run, faults, asked, cleared, revived,
                 autoRuns, unvoiced, raced>>

DistilStep(d) ==
  \/ \E j \in Reply : ReadPrior(d, j) \/ DistilNoReply(d, j)
  \/ ModelFails(d) \/ WriteNote(d) \/ WriteLesson(d) \/ WriteFails(d) \/ MarkLearned(d)

-----------------------------------------------------------------------------
(* The owner's tools. *)

OwnerActs == asked < MaxOwner /\ asked' = asked + 1

\* inbox_forget_lesson.
Forget(r) ==
  /\ lesson[r] > 0
  /\ OwnerActs
  /\ active' = active \ {r}
  /\ forgotten' = forgotten \cup {r}
  /\ UNCHANGED <<outcomes, lesson, order, profiles, distil, once, run, faults, cleared,
                 revived, autoRuns, unvoiced, raced>>

AtWorkOn(s) == {d \in Distiller : Busy(d) /\ distil[d].step = "model"
                                   /\ SenderOf[distil[d].reply] = s}

\* inbox_clear_learned_notes.
ClearNotes(s) ==
  /\ note[s] # {}
  /\ OwnerActs
  /\ note' = [note EXCEPT ![s] = {}]
  /\ cleared' = [cleared EXCEPT ![s] = @ \cup note[s]]
  /\ revived' = revived \ {s}
  /\ distil' = [d \in Distiller |-> IF d \in AtWorkOn(s)
                                    THEN [distil[d] EXCEPT !.late = TRUE] ELSE distil[d]]
  /\ UNCHANGED <<outcomes, lessons, profile, voice, once, run, faults, forgotten, autoRuns,
                 unvoiced, raced>>

\* inbox_save_sender_profile, with voice notes or without.
SaveProfile(s, given) ==
  /\ OwnerActs
  /\ profile' = profile \cup {s}
  /\ voice' = IF given THEN [voice EXCEPT ![s] = "agent"] ELSE voice
  /\ raced' = raced \cup {t \in {s} : \E b \in Runs : run[b].step = "summarize"
                                                     /\ run[b].sender = s}
  /\ UNCHANGED <<outcomes, lessons, note, distil, once, run, faults, forgotten, cleared,
                 revived, autoRuns, unvoiced>>

-----------------------------------------------------------------------------
(* The backfill. *)

\* A run begins with the list of the owner's correspondents.
Started(force) == [step |-> "next", force |-> force, todo |-> Sender, sender |-> None]

\* The backfill whenever the plugin is loaded.
AutoBackfillAgain ==
  /\ run["auto"].step = "idle"
  /\ once' = TRUE
  /\ run' = [run EXCEPT !["auto"] = Started(FALSE)]
  /\ autoRuns' = autoRuns + 1
  /\ UNCHANGED <<outcomes, lessons, profiles, distil, faults, asked, forgotten, cleared,
                 revived, unvoiced, raced>>

\* At the start of a process: the marker first, then the thread that does it.
AutoBackfill ==
  /\ ~once
  /\ once' = TRUE
  /\ run' = [run EXCEPT !["auto"] = Started(FALSE)]
  /\ autoRuns' = autoRuns + 1
  /\ UNCHANGED <<outcomes, lessons, profiles, distil, faults, asked, forgotten, cleared,
                 revived, unvoiced, raced>>

\* inbox_backfill_profiles.
ToolBackfill(force) ==
  /\ run["tool"].step = "idle"
  /\ OwnerActs
  /\ run' = [run EXCEPT !["tool"] = Started(force)]
  /\ UNCHANGED <<outcomes, lessons, profiles, distil, once, faults, history>>

\* Listing the sent mail fails: the run is over.
ListFails(b) ==
  /\ run[b].step = "next" /\ run[b].sender = None
  /\ Fault
  /\ run' = [run EXCEPT ![b] = IdleRun]
  /\ unvoiced' = IF b = "auto" THEN Sender ELSE unvoiced
  /\ UNCHANGED <<outcomes, lessons, profiles, distil, once, asked, forgotten, cleared,
                 revived, autoRuns, raced>>

\* After a sender comes the next one, and after the last the end.
Done(r) == IF r.todo = {} THEN IdleRun ELSE [r EXCEPT !.step = "next"]

Skip(r, s)      == Done([r EXCEPT !.todo = @ \ {s}, !.sender = s])
Summarize(r, s) == [r EXCEPT !.step = "summarize", !.todo = @ \ {s}, !.sender = s]

\* Every sender profiled, whether or not there is a profile.
LookUpNothing(b, s) ==
  /\ run[b].step = "next"
  /\ s \in run[b].todo
  /\ run' = [run EXCEPT ![b] = Summarize(@, s)]
  /\ raced' = IF s \in profile THEN raced ELSE raced \ {s}
  /\ UNCHANGED <<outcomes, lessons, profiles, distil, once, faults, asked, forgotten,
                 cleared, revived, autoRuns, unvoiced>>

\* A sender with a profile is skipped, unless the owner forces it.
LookUp(b, s) ==
  /\ run[b].step = "next"
  /\ s \in run[b].todo
  /\ run' = [run EXCEPT ![b] = IF s \in profile /\ ~@.force THEN Skip(@, s)
                              ELSE Summarize(@, s)]
  /\ raced' = IF s \in profile THEN raced ELSE raced \ {s}
  /\ unvoiced' = IF b = "auto" /\ s \in profile /\ voice[s] = None
                 THEN unvoiced \cup {s} ELSE unvoiced
  /\ UNCHANGED <<outcomes, lessons, profiles, distil, once, faults, asked, forgotten,
                 cleared, revived, autoRuns>>

\* The sent mail is read, the model writes the voice note, and it is stored.
WriteVoice(b) ==
  /\ run[b].step = "summarize"
  /\ profile' = profile \cup {run[b].sender}
  /\ voice' = [voice EXCEPT ![run[b].sender] = "backfill"]
  /\ run' = [run EXCEPT ![b] = Done(@)]
  /\ UNCHANGED <<outcomes, lessons, note, distil, once, faults, asked, history>>

\* The sender is skipped: nothing to go by, or a failure kept to this sender.
NoVoice(b) ==
  /\ run[b].step = "summarize"
  /\ Fault
  /\ run' = [run EXCEPT ![b] = Done(@)]
  /\ unvoiced' = IF b = "auto" THEN unvoiced \cup {run[b].sender} ELSE unvoiced
  /\ UNCHANGED <<outcomes, lessons, profiles, distil, once, asked, forgotten, cleared,
                 revived, autoRuns, raced>>

BackfillStep(b) ==
  \/ ListFails(b) \/ WriteVoice(b) \/ NoVoice(b)
  \/ \E s \in Sender : LookUp(b, s)

-----------------------------------------------------------------------------
Unfinished ==
  CASE run["auto"].step = "next" -> run["auto"].todo
    [] run["auto"].step = "summarize" -> run["auto"].todo \cup {run["auto"].sender}
    [] OTHER -> {}

Crash ==
  /\ Fault
  /\ distil' = [d \in Distiller |-> IdleDistil]
  /\ run' = [b \in Runs |-> IdleRun]
  /\ unvoiced' = unvoiced \cup Unfinished
  /\ UNCHANGED <<outcomes, lessons, profiles, once, asked, forgotten, cleared, revived,
                 autoRuns, raced>>

Next ==
  \/ \E j \in Reply : MarkedNoReply(j)
  \/ \E d \in Distiller : DistilStep(d)
  \/ PruneLessons
  \/ \E r \in AllRules : Forget(r)
  \/ \E s \in Sender : ClearNotes(s) \/ \E given \in BOOLEAN : SaveProfile(s, given)
  \/ AutoBackfill
  \/ \E force \in BOOLEAN : ToolBackfill(force)
  \/ \E b \in Runs : BackfillStep(b)
  \/ Crash

Spec == Init /\ [][Next]_vars

-----------------------------------------------------------------------------
(* Properties. *)

\* A lesson the owner has forgotten is in no brief until it has been learned
\* once more, whatever is pruned and however lessons rank.  (Learned again it
\* is back at once, with all its old evidence: upsert_lesson sets active.)
ForgottenIsNotBriefed == Briefed \cap forgotten = {}

\* What the owner has cleared out of a learned note does not come back, unless
\* a distiller had read the note before it was cleared and wrote afterwards, or
\* the reply itself was distilled again.
ClearedStaysCleared ==
  \A s \in Sender : note[s] \cap cleared[s] # {} => s \in revived

\* Voice notes the agent saved are overwritten by a backfill only if the owner
\* forced it, or if it had found no profile and was at work when they were saved.
AgentVoiceKept ==
  [][\A s \in Sender : voice[s] = "agent" /\ voice'[s] # "agent" =>
       \E b \in Runs : run[b].step = "summarize" /\ run[b].sender = s
                      /\ (run[b].force \/ s \in raced)]_vars

\* An account is backfilled automatically once, over all restarts, and then
\* every sender has a voice unless the run failed for it, was cut off, or found
\* a profile, which may hold nothing but a learned note.
BackfilledOnce ==
  /\ autoRuns <= 1
  /\ once /\ run["auto"].step = "idle" => \A s \in Sender : voice[s] # None \/ s \in unvoiced

=============================================================================
