--------------------------- MODULE InboxSyncProofs ---------------------------
(***************************************************************************)
(* Proofs about InboxSync for every number of messages, every page limit,  *)
(* every number of drains cut off and every choice of faults.              *)
(***************************************************************************)
EXTENDS InboxSync, TLAPS

\* A drain looks only at messages between the cursor and its target.
DrainInv ==
  /\ phase = "idle" => todo = {} /\ target = 0 /\ caller = 0
  /\ phase # "idle" => cursor <= target
  /\ todo \subseteq Listed(cursor, target)

\* What a running drain has taken off its list, it triaged or failed on.
CoverInv ==
  /\ NoneSilentlyPassed
  /\ \A m \in Listed(cursor, target) \ todo : handled[m] > 0 \/ missed[m] # "no"

\* What is still to be triaged was triaged at most once per drain cut off.
RepeatInv ==
  \A m \in Id :
    /\ handled[m] <= aborts + 1
    /\ m \in todo => handled[m] <= aborts
    /\ phase # "idle" /\ m > target => handled[m] <= aborts
    /\ phase = "idle" /\ m > cursor /\ m > oldest => handled[m] <= aborts

\* m is yet to be looked at, by the running drain or a later one, or was missed.
Ahead(m) ==
  \/ missed[m] # "no"
  \/ phase = "idle" /\ m > cursor
  \/ phase # "idle" /\ (m \in todo \/ m > target \/ m > cursor + PageCap)

FlagInv ==
  \A t \in Thread : label[t] = "ToRespond" /\ t \notin claimed =>
    \E m \in 1 .. Len(log) : Owner(m) = t /\ Inbound(m) /\ Ahead(m)

\* No message of m's thread came after m.
IsLast(m) == \A k \in m + 1 .. Len(log) : Owner(k) # Owner(m)

\* A sent message that a running drain has triaged leaves only sent ones to do.
ReplyInv ==
  /\ RepliedIsUnflagged
  /\ phase = "labelled" =>
       \A m \in todo : IsNext(m) /\ ~Inbound(m) => label[Owner(m)] \in SentLabel
  /\ \A m \in Listed(cursor, target) \ todo : ~Inbound(m) /\ missed[m] = "no" =>
       /\ \A k \in todo : ~Inbound(k)
       /\ label[Owner(m)] \in SentLabel

IndInv ==
  /\ TypeOK
  /\ DrainInv
  /\ CoverInv
  /\ RepeatInv
  /\ FlagInv
  /\ ReplyInv

-----------------------------------------------------------------------------
(* The steps, sorted by what the parts of the invariant can tell apart. *)

\* The numbers and sets that TypeOK bounds.
LEMMA Ranges ==
  ASSUME TypeOK
  PROVE  /\ Len(log) \in Nat /\ Len(log) <= MaxMail
         /\ cursor \in Nat /\ cursor <= Len(log)
         /\ oldest \in Nat /\ oldest <= Len(log)
         /\ target \in Nat /\ target <= Len(log)
         /\ aborts \in Nat /\ aborts <= MaxAborts
         /\ todo \subseteq Id /\ notes \subseteq Id
         /\ handled \in [Id -> Nat]
         /\ \A m \in 1 .. Len(log) : m \in Id /\ log[m] \in Mail
BY SyncAssumption DEF TypeOK, Id

\* Nothing the invariant speaks of changes, but for mail and expiry going on.
Quiet ==
  /\ UNCHANGED <<cursor, drainVars, label, claimed, history, aborts>>
  /\ Len(log') \in Nat /\ Len(log) <= Len(log')
  /\ \A m \in 1 .. Len(log) : log'[m] = log[m]
  /\ oldest' \in Nat /\ oldest <= oldest'

\* New mail goes to the end of the log.
LEMMA ArrivalQuiet ==
  ASSUME TypeOK, NEW t \in Thread, NEW kind \in Kind, MailArrives(t, kind)
  PROVE  Quiet
<1>1. log' = Append(log, [thread |-> t, kind |-> kind]) /\ log \in Seq(Mail)
  BY DEF MailArrives, TypeOK
<1>2. [thread |-> t, kind |-> kind] \in Mail
  BY DEF Mail
<1>3. Len(log') = Len(log) + 1 /\ \A m \in 1 .. Len(log) : log'[m] = log[m]
  BY <1>1, <1>2
<1>4. QED
  BY <1>3, Ranges DEF MailArrives, Quiet, drainVars, history

\* A step that leaves the log and everything of the drain alone is quiet.
LEMMA FrameQuiet ==
  ASSUME TypeOK, log' = log, oldest' \in Nat, oldest <= oldest',
         UNCHANGED <<cursor, drainVars, label, claimed, history, aborts>>
  PROVE  Quiet
<1>1. Len(log') = Len(log) /\ \A m \in 1 .. Len(log) : log'[m] = log[m]
  OBVIOUS
<1>2. QED
  BY <1>1, Ranges DEF Quiet

\* Every step is a quiet one or one of the seven of a drain.
LEMMA Steps ==
  ASSUME TypeOK, [Next]_vars
  PROVE  \/ Quiet
         \/ \E n \in Id \cup {0} : ListHistory(n) \/ ResetStale(n)
         \/ \E m \in todo : \E category \in {"ToRespond", "FYI"} : LabelInbound(m, category)
         \/ \E m \in todo : LabelSent(m) \/ Complete(m) \/ Fail(m)
         \/ FinishDrain
         \/ AbortDrain
<1>1. ASSUME NEW t \in Thread, NEW kind \in Kind, MailArrives(t, kind) PROVE Quiet
  BY <1>1, ArrivalQuiet
<1>2. ASSUME NEW n \in Id, LoseNote(n) \/ IgnoreNote(n) PROVE Quiet
  BY <1>2, Ranges, FrameQuiet DEF LoseNote, IgnoreNote, gmailVars
<1>3. ASSUME NEW id \in 1 .. Len(log), HistoryExpires(id) PROVE Quiet
  BY <1>3, Ranges, FrameQuiet DEF HistoryExpires
<1>4. ASSUME NEW n \in Id \cup {0}, AuthFails(n) PROVE Quiet
  BY <1>4, Ranges, FrameQuiet DEF AuthFails, gmailVars
<1>5. ASSUME Reconnect PROVE Quiet
  BY <1>5, Ranges, FrameQuiet DEF Reconnect, gmailVars
<1>6. ASSUME UNCHANGED vars PROVE Quiet
  BY <1>6, Ranges, FrameQuiet DEF vars, gmailVars
<1>7. QED
  BY <1>1, <1>2, <1>3, <1>4, <1>5, <1>6 DEF Next, Poll, WorkOnDrain

\* A triage to the end counts, for its message only.
LEMMA CompleteAfter ==
  ASSUME TypeOK, NEW m \in todo, Complete(m)
  PROVE  /\ m \in Id /\ handled[m] \in Nat
         /\ handled'[m] = handled[m] + 1 /\ missed'[m] = "no"
         /\ \A k \in Id : k # m => handled'[k] = handled[k] /\ missed'[k] = missed[k]
<1>1. handled \in [Id -> Nat] /\ m \in Id
  BY Ranges
<1>2. handled' = [handled EXCEPT ![m] = handled[m] + 1]
  BY DEF Complete
<1>3. missed \in [Id -> Reason] /\ missed' = [missed EXCEPT ![m] = "no"]
  BY DEF TypeOK, Complete
<1>4. QED
  BY <1>1, <1>2, <1>3

\* A triage that fails is remembered, for its message only.
LEMMA FailAfter ==
  ASSUME TypeOK, NEW m \in todo, Fail(m)
  PROVE  /\ m \in Id /\ handled' = handled /\ missed'[m] = "failed"
         /\ \A k \in Id : k # m => missed'[k] = missed[k]
<1>1. m \in Id
  BY Ranges
<1>2. missed \in [Id -> Reason] /\ missed' = [missed EXCEPT ![m] = "failed"]
  BY DEF TypeOK, Fail
<1>3. QED
  BY <1>1, <1>2 DEF Fail

-----------------------------------------------------------------------------
(* Types. *)

\* The initial states are well typed.
LEMMA InitType == Init => TypeOK
<1> SUFFICES ASSUME Init PROVE TypeOK
  OBVIOUS
<1>1. log \in Seq(Mail) /\ Len(log) = 0
  BY DEF Init
<1>2. QED
  BY <1>1, SyncAssumption DEF Init, TypeOK, Id, Label, Reason

\* An acknowledgement adds no notification.
LEMMA AckShrinks ==
  ASSUME NEW n, Ack(n)
  PROVE  notes' \subseteq notes
BY DEF Ack

\* Every step keeps the types; only a triage to the end needs to know how often
\* its message was triaged before.
LEMMA StepType == TypeOK /\ RepeatInv /\ [Next]_vars => TypeOK'
<1> SUFFICES ASSUME TypeOK, RepeatInv, [Next]_vars PROVE TypeOK'
  OBVIOUS
<1> USE SyncAssumption
<1> USE DEF gmailVars, drainVars, history
<1>1. ASSUME NEW t \in Thread, NEW kind \in Kind, MailArrives(t, kind) PROVE TypeOK'
  <2>1. log \in Seq(Mail) /\ [thread |-> t, kind |-> kind] \in Mail
    BY DEF TypeOK, Mail
  <2>2. log' \in Seq(Mail) /\ Len(log') = Len(log) + 1
    BY <1>1, <2>1 DEF MailArrives
  <2>3. Len(log') \in Nat /\ Len(log) \in Nat /\ Len(log') <= MaxMail
    BY <1>1, <2>2, Ranges DEF MailArrives
  <2>4. 0 .. Len(log) \subseteq 0 .. Len(log') /\ 1 .. Len(log) \subseteq 1 .. Len(log')
    BY <2>2, <2>3
  <2>5. notes' \subseteq 1 .. Len(log')
    <3>1. notes' = notes \cup {Len(log) + 1} /\ notes \subseteq 1 .. Len(log)
      BY <1>1 DEF MailArrives, TypeOK
    <3>2. Len(log) + 1 \in 1 .. Len(log')
      BY <2>2, <2>3
    <3>3. QED
      BY <2>4, <3>1, <3>2
  <2>6. UNCHANGED <<oldest, label, managed, cursor, drainVars, claimed, history, aborts>>
    BY <1>1 DEF MailArrives
  <2>7. oldest' \in 0 .. Len(log') /\ cursor' \in 0 .. Len(log') /\ caller' \in 0 .. Len(log')
        /\ target' \in 0 .. Len(log')
    BY <2>4, <2>6 DEF TypeOK
  <2>8. QED
    BY <2>2, <2>3, <2>5, <2>6, <2>7 DEF TypeOK
<1>2. ASSUME NEW n, LoseNote(n) PROVE TypeOK'
  BY <1>2 DEF LoseNote, TypeOK
<1>3. ASSUME NEW n, IgnoreNote(n) \/ AuthFails(n) PROVE TypeOK'
  BY <1>3, AckShrinks DEF IgnoreNote, AuthFails, TypeOK
<1>4. ASSUME NEW id \in 1 .. Len(log), HistoryExpires(id) PROVE TypeOK'
  BY <1>4, Ranges DEF HistoryExpires, TypeOK
<1>5. CASE Reconnect
  BY <1>5 DEF Reconnect, TypeOK
<1>6. ASSUME NEW n, ListHistory(n) PROVE TypeOK'
  <2>1. n \in 0 .. Len(log)
    BY <1>6, Ranges DEF ListHistory, CanDrain, TypeOK
  <2>2. todo' \subseteq 1 .. Len(log)
    BY <1>6, Ranges DEF ListHistory, Listed, Id
  <2>3. QED
    BY <1>6, <2>1, <2>2, Ranges DEF ListHistory, TypeOK
<1>7. ASSUME NEW n, ResetStale(n) PROVE TypeOK'
  <2>1. Fallback(n) \in 0 .. Len(log)
    BY <1>7, Ranges DEF ResetStale, CanDrain, Fallback, TypeOK
  <2>2. missed' \in [Id -> Reason]
    BY <1>7 DEF ResetStale, Leave, TypeOK, Reason
  <2>3. QED
    BY <1>7, <2>1, <2>2, AckShrinks DEF ResetStale, TypeOK
<1>8. ASSUME NEW m \in todo, NEW category \in Label, Relabel(m, category) PROVE TypeOK'
  <2>1. label' \in [Thread -> Label]
    BY <1>8 DEF Relabel, TypeOK
  <2>2. QED
    BY <1>8, <2>1 DEF Relabel, TypeOK
<1>9. ASSUME NEW m \in todo, Complete(m) PROVE TypeOK'
  <2>1. m \in 1 .. Len(log) /\ log[m] \in Mail /\ m \in Id
    BY Ranges DEF TypeOK
  <2>2. handled[m] + 1 \in 0 .. MaxAborts + 1
    BY <2>1, Ranges DEF RepeatInv, TypeOK
  <2>3. handled' \in [Id -> 0 .. MaxAborts + 1]
    BY <1>9, <2>2 DEF Complete, TypeOK
  <2>4. missed' \in [Id -> Reason]
    BY <1>9 DEF Complete, TypeOK, Reason
  <2>5. claimed' \subseteq Thread
    BY <1>9, <2>1 DEF Complete, TypeOK, Owner, Mail
  <2>6. QED
    BY <1>9, <2>3, <2>4, <2>5 DEF Complete, TypeOK
<1>10. ASSUME NEW m \in todo, Fail(m) PROVE TypeOK'
  <2>1. missed' \in [Id -> Reason]
    BY <1>10 DEF Fail, TypeOK, Reason
  <2>2. QED
    BY <1>10, <2>1 DEF Fail, TypeOK
<1>11. CASE FinishDrain
  <2>1. notes' \subseteq notes
    BY <1>11, AckShrinks DEF FinishDrain
  <2>2. missed' \in [Id -> Reason]
    BY <1>11 DEF FinishDrain, Leave, TypeOK, Reason
  <2>3. QED
    BY <1>11, <2>1, <2>2, Ranges DEF FinishDrain, EndDrain, TypeOK
<1>12. CASE AbortDrain
  BY <1>12, Ranges DEF AbortDrain, EndDrain, TypeOK
<1>13. CASE UNCHANGED vars
  BY <1>13 DEF vars, TypeOK
<1>14. {"ToRespond", "FYI", "Actioned", "AwaitingReply"} \subseteq Label
  BY DEF Label, SentLabel
<1>15. QED
  BY <1>1, <1>2, <1>3, <1>4, <1>5, <1>6, <1>7, <1>8, <1>9, <1>10, <1>11, <1>12,
     <1>13, <1>14 DEF Next, Poll, WorkOnDrain, LabelInbound, LabelSent

-----------------------------------------------------------------------------
(* What a drain looks at, and what it leaves behind. *)

\* The initial states have an idle account with nothing to do.
LEMMA InitParts == Init => DrainInv /\ CoverInv /\ RepeatInv /\ FlagInv /\ ReplyInv
<1> SUFFICES ASSUME Init PROVE DrainInv /\ CoverInv /\ RepeatInv /\ FlagInv /\ ReplyInv
  OBVIOUS
<1> USE SyncAssumption DEF Init
<1>1. Listed(cursor, target) = {}
  BY DEF Listed, Id
<1>2. DrainInv /\ CoverInv
  BY <1>1 DEF DrainInv, CoverInv, NoneSilentlyPassed
<1>3. RepeatInv
  BY DEF RepeatInv, Id
<1>4. FlagInv
  BY DEF FlagInv
<1>5. ReplyInv
  BY <1>1 DEF ReplyInv, RepliedIsUnflagged
<1>6. QED
  BY <1>2, <1>3, <1>4, <1>5

\* A drain takes its list from the history after the cursor and only shortens it.
LEMMA StepDrain == TypeOK /\ DrainInv /\ [Next]_vars => DrainInv'
<1> SUFFICES ASSUME TypeOK, DrainInv, [Next]_vars PROVE DrainInv'
  OBVIOUS
<1>1. ASSUME Quiet PROVE DrainInv'
  BY <1>1 DEF Quiet, drainVars, DrainInv, Listed
<1>2. ASSUME NEW n, ListHistory(n) PROVE DrainInv'
  BY <1>2, Ranges DEF ListHistory, DrainInv, Listed
<1>3. ASSUME NEW n, ResetStale(n) PROVE DrainInv'
  BY <1>3 DEF ResetStale, CanDrain, drainVars, DrainInv
<1>4. ASSUME NEW m \in todo, NEW category, Relabel(m, category) PROVE DrainInv'
  BY <1>4 DEF Relabel, DrainInv, Listed
<1>5. ASSUME NEW m \in todo, Complete(m) \/ Fail(m) PROVE DrainInv'
  BY <1>5 DEF Complete, Fail, DrainInv, Listed
<1>6. ASSUME EndDrain PROVE DrainInv'
  BY <1>6 DEF EndDrain, DrainInv
<1>7. QED
  BY Steps, <1>1, <1>2, <1>3, <1>4, <1>5, <1>6
     DEF LabelInbound, LabelSent, FinishDrain, AbortDrain

\* Nothing is listed for an account at rest.
LEMMA NothingListed ==
  ASSUME NEW c, NEW t, t = 0
  PROVE  Listed(c, t) = {}
BY SyncAssumption DEF Listed, Id

\* The cursor passes only what was triaged, failed, expired or lay beyond.
LEMMA StepCover == TypeOK /\ DrainInv /\ CoverInv /\ [Next]_vars => CoverInv'
<1> SUFFICES ASSUME TypeOK, DrainInv, CoverInv, [Next]_vars PROVE CoverInv'
  OBVIOUS
<1> USE DEF gmailVars, drainVars, history
<1>1. ASSUME Quiet PROVE CoverInv'
  BY <1>1 DEF Quiet, CoverInv, NoneSilentlyPassed, Listed
<1>2. ASSUME NEW n, ListHistory(n) PROVE CoverInv'
  BY <1>2 DEF ListHistory, CoverInv, NoneSilentlyPassed, Listed
<1>3. ASSUME NEW n, ResetStale(n) PROVE CoverInv'
  <2>1. Listed(cursor, target)' = {}
    BY <1>3, NothingListed DEF ResetStale, CanDrain, DrainInv, Listed
  <2>2. cursor' \in Nat /\ cursor' <= Len(log)
    BY <1>3, Ranges DEF ResetStale, CanDrain, Fallback, TypeOK
  <2>3. ASSUME NEW m \in 1 .. cursor' PROVE handled'[m] > 0 \/ missed'[m] # "no"
    <3>1. m \in Id
      BY <2>2, Ranges
    <3>2. CASE m <= cursor
      BY <1>3, <2>2, <3>1, <3>2, Ranges DEF ResetStale, Leave, CoverInv, NoneSilentlyPassed
    <3>3. CASE m > cursor
      BY <1>3, <2>2, <3>1, <3>3, Ranges DEF ResetStale, Leave
    <3>4. QED
      BY <2>2, <3>2, <3>3, Ranges
  <2>4. QED
    BY <2>1, <2>3 DEF CoverInv, NoneSilentlyPassed
<1>4. ASSUME NEW m \in todo, NEW category, Relabel(m, category) PROVE CoverInv'
  BY <1>4 DEF Relabel, CoverInv, NoneSilentlyPassed, Listed
<1>5. ASSUME NEW m \in todo, Complete(m) \/ Fail(m) PROVE CoverInv'
  <2>1. m \in Id /\ (handled'[m] > 0 \/ missed'[m] # "no")
    BY <1>5, CompleteAfter, FailAfter, Ranges
  <2>2. \A k \in Id : k # m => handled'[k] = handled[k] /\ missed'[k] = missed[k]
    BY <1>5, CompleteAfter, FailAfter
  <2>3. UNCHANGED <<cursor, target>> /\ todo' = todo \ {m}
    BY <1>5 DEF Complete, Fail
  <2>4. \A k \in 1 .. cursor : k \in Id
    BY Ranges
  <2>5. QED
    BY <2>1, <2>2, <2>3, <2>4 DEF CoverInv, NoneSilentlyPassed, Listed
<1>6. CASE FinishDrain
  <2>1. Listed(cursor, target)' = {}
    BY <1>6, NothingListed DEF FinishDrain, EndDrain, Listed
  <2>2. ASSUME NEW m \in 1 .. cursor' PROVE handled'[m] > 0 \/ missed'[m] # "no"
    <3>1. m \in Id /\ m \in Nat /\ m <= target
      BY <1>6, Ranges DEF FinishDrain
    <3>2. missed'[m] = missed[m] \/ missed'[m] = "beyond"
      BY <1>6, <3>1 DEF FinishDrain, Leave
    <3>3. CASE m <= cursor \/ m \in Listed(cursor, target)
      BY <1>6, <3>1, <3>2, <3>3, Ranges DEF FinishDrain, CoverInv, NoneSilentlyPassed
    <3>4. CASE ~(m <= cursor \/ m \in Listed(cursor, target))
      BY <1>6, <3>1, <3>4, Ranges, SyncAssumption DEF FinishDrain, Leave, Listed
    <3>5. QED
      BY <3>3, <3>4
  <2>3. QED
    BY <2>1, <2>2 DEF CoverInv, NoneSilentlyPassed
<1>7. CASE AbortDrain
  <2>1. Listed(cursor, target)' = {}
    BY <1>7, NothingListed DEF AbortDrain, EndDrain, Listed
  <2>2. QED
    BY <1>7, <2>1 DEF AbortDrain, CoverInv, NoneSilentlyPassed
<1>8. QED
  BY Steps, <1>1, <1>2, <1>3, <1>4, <1>5, <1>6, <1>7 DEF LabelInbound, LabelSent

\* A message is triaged once more only when a drain was cut off.
LEMMA StepRepeat == TypeOK /\ DrainInv /\ RepeatInv /\ [Next]_vars => RepeatInv'
<1> SUFFICES ASSUME TypeOK, DrainInv, RepeatInv, [Next]_vars, NEW m \in Id
             PROVE  /\ handled'[m] <= aborts' + 1
                    /\ m \in todo' => handled'[m] <= aborts'
                    /\ phase' # "idle" /\ m > target' => handled'[m] <= aborts'
                    /\ phase' = "idle" /\ m > cursor' /\ m > oldest' => handled'[m] <= aborts'
  BY DEF RepeatInv
<1> USE DEF gmailVars, drainVars, history
<1> DEFINE Kept ==
      /\ handled'[m] <= aborts' + 1
      /\ m \in todo' => handled'[m] <= aborts'
      /\ phase' # "idle" /\ m > target' => handled'[m] <= aborts'
      /\ phase' = "idle" /\ m > cursor' /\ m > oldest' => handled'[m] <= aborts'
<1>0. m \in Nat /\ handled[m] \in Nat /\ aborts \in Nat /\ cursor \in Nat /\ oldest \in Nat
      /\ target \in Nat /\ Len(log) \in Nat /\ cursor <= Len(log) /\ oldest <= Len(log)
  BY Ranges DEF Id
<1>1. ASSUME Quiet PROVE Kept
  BY <1>0, <1>1 DEF Quiet, RepeatInv
<1>2. ASSUME NEW n, ListHistory(n) PROVE Kept
  BY <1>0, <1>2 DEF ListHistory, CanDrain, RepeatInv, Listed
<1>3. ASSUME NEW n, ResetStale(n) PROVE Kept
  <2>1. cursor' \in Nat
    BY <1>3, Ranges DEF ResetStale, CanDrain, Fallback, TypeOK
  <2>2. todo' = {} /\ phase' = "idle" /\ cursor < oldest
    BY <1>3 DEF ResetStale, CanDrain, DrainInv
  <2>3. UNCHANGED <<handled, aborts, oldest>> /\ phase = "idle"
    BY <1>3 DEF ResetStale, CanDrain
  <2>4. QED
    BY <1>0, <2>1, <2>2, <2>3 DEF RepeatInv
<1>4. ASSUME NEW k \in todo, NEW category, Relabel(k, category) PROVE Kept
  BY <1>0, <1>4 DEF Relabel, RepeatInv
<1>5. ASSUME NEW k \in todo, Complete(k) PROVE Kept
  <2>1. UNCHANGED <<aborts, cursor, oldest, target>> /\ todo' = todo \ {k}
        /\ phase = "labelled" /\ phase' = "draining"
    BY <1>5 DEF Complete
  <2>2. k <= target /\ handled[k] <= aborts
    BY <1>5, Ranges DEF DrainInv, Listed, RepeatInv
  <2>3. CASE m = k
    BY <1>0, <1>5, <2>1, <2>2, <2>3, CompleteAfter
  <2>4. CASE m # k
    BY <1>0, <1>5, <2>1, <2>4, CompleteAfter DEF RepeatInv
  <2>5. QED
    BY <2>3, <2>4
<1>6. ASSUME NEW k \in todo, Fail(k) PROVE Kept
  BY <1>0, <1>6 DEF Fail, RepeatInv
<1>7. CASE FinishDrain
  BY <1>0, <1>7 DEF FinishDrain, EndDrain, RepeatInv
<1>8. CASE AbortDrain
  BY <1>0, <1>8 DEF AbortDrain, EndDrain, RepeatInv
<1>9. QED
  BY Steps, <1>1, <1>2, <1>3, <1>4, <1>5, <1>6, <1>7, <1>8 DEF LabelInbound, LabelSent

-----------------------------------------------------------------------------
(* The flag and its claim. *)

\* Listing, passing and cutting off keep in view what was ahead.
LEMMA AheadStays ==
  ASSUME TypeOK, DrainInv, NEW m \in 1 .. Len(log), Ahead(m),
         \/ \E n \in Id \cup {0} : ListHistory(n) \/ ResetStale(n)
         \/ \E k \in todo : \E category \in Label : Relabel(k, category)
         \/ \E k \in todo \ {m} : Complete(k)
         \/ \E k \in todo : Fail(k)
         \/ FinishDrain
         \/ AbortDrain
  PROVE  Ahead(m)'
<1> USE DEF gmailVars, drainVars, history
<1>0. m \in Id /\ m \in Nat /\ cursor \in Nat /\ target \in Nat /\ Len(log) \in Nat
      /\ m <= Len(log) /\ cursor <= Len(log) /\ PageCap \in Nat
  BY Ranges, SyncAssumption
<1>1. ASSUME NEW n, ListHistory(n) PROVE Ahead(m)'
  BY <1>0, <1>1 DEF ListHistory, CanDrain, Ahead, Listed
<1>2. ASSUME NEW n, ResetStale(n) PROVE Ahead(m)'
  <2>1. phase = "idle" /\ phase' = "idle" /\ cursor' = Fallback(n) /\ Fallback(n) \in Nat
    BY <1>2, Ranges DEF ResetStale, CanDrain, Fallback, TypeOK
  <2>2. missed'[m] = IF cursor < m /\ m <= Fallback(n) THEN "expired" ELSE missed[m]
    BY <1>0, <1>2 DEF ResetStale, Leave
  <2>3. QED
    BY <1>0, <2>1, <2>2 DEF Ahead
<1>3. ASSUME NEW k \in todo, NEW category, Relabel(k, category) PROVE Ahead(m)'
  BY <1>3 DEF Relabel, Ahead
<1>4. ASSUME NEW k \in todo \ {m}, Complete(k) PROVE Ahead(m)'
  <2>1. missed'[m] = missed[m]
    BY <1>0, <1>4, CompleteAfter
  <2>2. QED
    BY <1>4, <2>1 DEF Complete, Ahead
<1>5. ASSUME NEW k \in todo, Fail(k) PROVE Ahead(m)'
  <2>1. missed'[m] = IF m = k THEN "failed" ELSE missed[m]
    BY <1>0, <1>5, FailAfter
  <2>2. QED
    BY <1>5, <2>1 DEF Fail, Ahead
<1>6. CASE FinishDrain
  <2>1. phase # "idle" /\ todo = {} /\ phase' = "idle" /\ cursor' = target
    BY <1>6 DEF FinishDrain, EndDrain
  <2>2. missed'[m] = IF cursor + PageCap < m /\ m <= target THEN "beyond" ELSE missed[m]
    BY <1>0, <1>6 DEF FinishDrain, Leave
  <2>3. QED
    BY <1>0, <2>1, <2>2 DEF Ahead
<1>7. CASE AbortDrain
  BY <1>0, <1>7 DEF AbortDrain, EndDrain, Ahead, DrainInv, Listed
<1>8. QED
  BY <1>1, <1>2, <1>3, <1>4, <1>5, <1>6, <1>7

\* A flagged thread is claimed, or an inbound message of it is ahead.
LEMMA StepFlag == TypeOK /\ DrainInv /\ FlagInv /\ [Next]_vars => FlagInv'
<1> SUFFICES ASSUME TypeOK, DrainInv, FlagInv, [Next]_vars,
                    NEW t \in Thread, label'[t] = "ToRespond", t \notin claimed'
             PROVE  \E m \in 1 .. Len(log') : (Owner(m) = t /\ Inbound(m) /\ Ahead(m))'
  BY DEF FlagInv
<1> USE DEF gmailVars, drainVars, history
<1> DEFINE Flagger(m) == Owner(m) = t /\ Inbound(m) /\ Ahead(m)
           Goal == \E m \in 1 .. Len(log') : Flagger(m)'
<1>1. ASSUME label[t] = "ToRespond", t \notin claimed,
             \A m \in 1 .. Len(log) : Flagger(m) => m \in 1 .. Len(log') /\ Flagger(m)'
      PROVE  Goal
  BY <1>1 DEF FlagInv
<1>2. ASSUME Quiet PROVE Goal
  BY <1>1, <1>2, Ranges DEF Quiet, Ahead, Owner, Inbound
<1>3. ASSUME log' = log, NEW m \in 1 .. Len(log), Flagger(m), Ahead(m)'
      PROVE  m \in 1 .. Len(log') /\ Flagger(m)'
  BY <1>3 DEF Owner, Inbound
<1>4. ASSUME UNCHANGED <<log, label, claimed>>,
             \/ \E n \in Id \cup {0} : ListHistory(n) \/ ResetStale(n)
             \/ \E k \in todo : Fail(k)
             \/ FinishDrain \/ AbortDrain
      PROVE  Goal
  BY <1>1, <1>3, <1>4, AheadStays
<1>5. ASSUME NEW k \in todo, NEW category \in Label, Relabel(k, category),
             category = "ToRespond" => Inbound(k)
      PROVE  Goal
  <2>1. UNCHANGED <<log, claimed, missed, todo>> /\ phase' = "labelled"
    BY <1>5 DEF Relabel
  <2>2. label' = [label EXCEPT ![Owner(k)] = category] /\ label \in [Thread -> Label]
    BY <1>5 DEF Relabel, TypeOK
  <2>3. k \in 1 .. Len(log)
    BY Ranges DEF TypeOK
  <2>4. CASE t = Owner(k)
    <3>1. Flagger(k)'
      BY <1>5, <2>1, <2>2, <2>4 DEF Ahead, Owner, Inbound
    <3>2. QED
      BY <2>1, <2>3, <3>1
  <2>5. CASE t # Owner(k)
    BY <1>1, <1>3, <1>5, <2>1, <2>2, <2>5, AheadStays
  <2>6. QED
    BY <2>4, <2>5
<1>6. ASSUME NEW k \in todo, Complete(k) PROVE Goal
  <2>1. UNCHANGED <<log, label>> /\ claimed \subseteq claimed'
        /\ (Inbound(k) /\ label[Owner(k)] = "ToRespond" => Owner(k) \in claimed')
    BY <1>6 DEF Complete
  <2>2. ~Flagger(k)
    BY <2>1
  <2>3. QED
    BY <1>1, <1>3, <1>6, <2>1, <2>2, AheadStays
<1>7. {"ToRespond", "FYI", "Actioned", "AwaitingReply"} \subseteq Label
  BY DEF Label, SentLabel
<1>8. ASSUME NEW k \in todo, LabelSent(k) PROVE Goal
  BY <1>5, <1>7, <1>8 DEF LabelSent
<1>9. ASSUME NEW k \in todo, NEW category \in {"ToRespond", "FYI"}, LabelInbound(k, category)
      PROVE  Goal
  BY <1>5, <1>7, <1>9 DEF LabelInbound
<1>10. ASSUME NEW n \in Id \cup {0}, ListHistory(n) \/ ResetStale(n) PROVE Goal
  BY <1>4, <1>10 DEF ListHistory, ResetStale
<1>11. ASSUME NEW k \in todo, Fail(k) PROVE Goal
  BY <1>4, <1>11 DEF Fail
<1>12. ASSUME FinishDrain \/ AbortDrain PROVE Goal
  BY <1>4, <1>12 DEF FinishDrain, AbortDrain
<1>13. QED
  BY Steps, <1>2, <1>6, <1>8, <1>9, <1>10, <1>11, <1>12

-----------------------------------------------------------------------------
(* The reply and the flag. *)

\* Nothing of a triaged reply is touched by the triage of a later message.
LEMMA StepReply == TypeOK /\ DrainInv /\ ReplyInv /\ [Next]_vars => ReplyInv'
<1> SUFFICES ASSUME TypeOK, DrainInv, ReplyInv, [Next]_vars PROVE ReplyInv'
  OBVIOUS
<1> USE DEF gmailVars, drainVars, history
<1>0. /\ cursor \in Nat /\ target \in Nat /\ Len(log) \in Nat /\ PageCap \in Nat
      /\ cursor <= Len(log) /\ target <= Len(log)
      /\ \A m \in 1 .. Len(log) : m \in Id /\ log[m] \in Mail /\ Owner(m) \in Thread
      /\ todo \subseteq 1 .. Len(log) /\ label \in [Thread -> Label]
  BY Ranges, SyncAssumption DEF TypeOK, Owner, Mail
<1>1. ASSUME Quiet PROVE ReplyInv'
  <2>1. \A m \in 1 .. Len(log) : (Owner(m)' = Owner(m)) /\ (Inbound(m)' = Inbound(m))
    BY <1>1 DEF Quiet, Owner, Inbound
  <2>2. \A m \in todo : IsNext(m)' => IsNext(m)
    BY <1>0, <1>1, <2>1 DEF Quiet, IsNext
  <2>3. RepliedIsUnflagged'
    <3> SUFFICES ASSUME NEW m \in 1 .. cursor, ~Inbound(m)', missed[m] = "no",
                        \A k \in m + 1 .. Len(log') : Owner(k)' # Owner(m)'
                 PROVE  label[Owner(m)'] \in SentLabel
      BY <1>1 DEF RepliedIsUnflagged, Quiet
    <3>1. \A k \in m + 1 .. Len(log) : Owner(k) # Owner(m)
      BY <1>0, <1>1, <2>1 DEF Quiet
    <3>2. QED
      BY <1>0, <2>1, <3>1 DEF ReplyInv, RepliedIsUnflagged
  <2>4. UNCHANGED <<phase, cursor, target, todo, label, missed>>
    BY <1>1 DEF Quiet
  <2>5. Listed(cursor, target)' = Listed(cursor, target)
    BY <2>4 DEF Listed
  <2>6. \A m \in Listed(cursor, target) : m \in 1 .. Len(log)
    BY <1>0 DEF Listed, Id
  <2>7. (phase = "labelled" =>
           \A m \in todo : IsNext(m) /\ ~Inbound(m) => label[Owner(m)] \in SentLabel)'
    BY <1>0, <2>1, <2>2, <2>4 DEF ReplyInv
  <2>8. (\A m \in Listed(cursor, target) \ todo : ~Inbound(m) /\ missed[m] = "no" =>
           (\A k \in todo : ~Inbound(k)) /\ label[Owner(m)] \in SentLabel)'
    BY <1>0, <2>1, <2>4, <2>5, <2>6 DEF ReplyInv
  <2>9. QED
    BY <2>3, <2>7, <2>8 DEF ReplyInv
<1>2. ASSUME log' = log PROVE \A m : (Owner(m)' = Owner(m)) /\ (Inbound(m)' = Inbound(m))
  BY <1>2 DEF Owner, Inbound
<1>3. ASSUME UNCHANGED <<log, label, cursor, missed>> PROVE RepliedIsUnflagged'
  BY <1>2, <1>3 DEF ReplyInv, RepliedIsUnflagged
<1>4. ASSUME NEW n, ListHistory(n) PROVE ReplyInv'
  <2>1. RepliedIsUnflagged'
    BY <1>3, <1>4 DEF ListHistory
  <2>2. QED
    BY <1>4, <2>1 DEF ListHistory, ReplyInv, Listed
<1>5. ASSUME NEW n, ResetStale(n) PROVE ReplyInv'
  <2>1. Listed(cursor, target)' = {} /\ phase' = "idle"
    BY <1>5, NothingListed DEF ResetStale, CanDrain, DrainInv, Listed
  <2>2. /\ UNCHANGED <<log, label>> /\ cursor' = Fallback(n) /\ Fallback(n) \in 0 .. Len(log)
        /\ \A m \in Id : missed'[m] = IF cursor < m /\ m <= Fallback(n) THEN "expired" ELSE missed[m]
    BY <1>0, <1>5, Ranges DEF ResetStale, CanDrain, Fallback, TypeOK, Leave
  <2>3. \A m \in 1 .. cursor' : missed'[m] = "no" => m \in 1 .. cursor /\ missed[m] = "no"
    BY <1>0, <2>2
  <2>4. RepliedIsUnflagged'
    BY <1>2, <2>2, <2>3 DEF ReplyInv, RepliedIsUnflagged
  <2>5. QED
    BY <2>1, <2>4 DEF ReplyInv
<1>6. ASSUME NEW k \in todo, NEW category \in Label, Relabel(k, category),
             (~Inbound(k)) => category \in SentLabel
      PROVE  ReplyInv'
  <2>1. UNCHANGED <<log, cursor, target, todo, missed>> /\ phase' = "labelled" /\ IsNext(k)
    BY <1>6 DEF Relabel
  <2>2. \A m \in 1 .. Len(log) :
          label'[Owner(m)] = IF Owner(m) = Owner(k) THEN category ELSE label[Owner(m)]
    BY <1>0, <1>6 DEF Relabel
  <2>3. k > cursor /\ k \in 1 .. Len(log)
    BY <1>0 DEF DrainInv, Listed
  <2>4. RepliedIsUnflagged'
    <3> SUFFICES ASSUME NEW m \in 1 .. cursor, ~Inbound(m), missed[m] = "no",
                        \A j \in m + 1 .. Len(log) : Owner(j) # Owner(m)
                 PROVE  label'[Owner(m)] \in SentLabel
      BY <1>2, <2>1 DEF RepliedIsUnflagged
    <3>1. Owner(m) # Owner(k) /\ m \in 1 .. Len(log)
      BY <1>0, <2>3
    <3>2. QED
      BY <2>2, <3>1 DEF ReplyInv, RepliedIsUnflagged
  <2>5. ASSUME NEW m \in todo, IsNext(m), ~Inbound(m) PROVE label'[Owner(m)] \in SentLabel
    <3>1. m = k
      BY <1>0, <2>1, <2>5 DEF IsNext
    <3>2. QED
      BY <1>0, <1>6, <2>2, <2>5, <3>1
  <2>6. ASSUME NEW m \in Listed(cursor, target) \ todo, ~Inbound(m), missed[m] = "no"
        PROVE  (\A j \in todo : ~Inbound(j)) /\ label'[Owner(m)] \in SentLabel
    <3>1. m \in 1 .. Len(log) /\ (\A j \in todo : ~Inbound(j)) /\ label[Owner(m)] \in SentLabel
      BY <1>0, <2>6 DEF ReplyInv, Listed, Id
    <3>2. QED
      BY <1>6, <2>2, <3>1
  <2>7. \A m \in todo' : IsNext(m)' => IsNext(m)
    BY <1>2, <2>1 DEF IsNext
  <2>8. Listed(cursor, target)' = Listed(cursor, target)
    BY <2>1 DEF Listed
  <2>9. QED
    BY <1>2, <2>1, <2>4, <2>5, <2>6, <2>7, <2>8 DEF ReplyInv
<1>7. ASSUME NEW k \in todo, Complete(k) \/ Fail(k) PROVE ReplyInv'
  <2>1. UNCHANGED <<log, label, cursor, target>> /\ phase' = "draining" /\ todo' = todo \ {k}
        /\ IsNext(k) /\ k > cursor /\ k \in Id
    BY <1>0, <1>7 DEF Complete, Fail, DrainInv, Listed
  <2>2. \A m \in Id : m # k => missed'[m] = missed[m]
    BY <1>7, CompleteAfter, FailAfter
  <2>3. RepliedIsUnflagged'
    <3>1. \A m \in 1 .. cursor : m \in Id /\ m # k
      BY <1>0, <2>1
    <3>2. QED
      BY <1>2, <2>1, <2>2, <3>1 DEF ReplyInv, RepliedIsUnflagged
  <2>4. ASSUME ~Inbound(k), missed'[k] = "no"
        PROVE  (\A j \in todo : ~Inbound(j)) /\ label[Owner(k)] \in SentLabel
    <3>1. Complete(k)
      BY <1>7, <2>4, FailAfter
    <3>2. QED
      BY <2>1, <2>4, <3>1 DEF Complete, IsNext, ReplyInv
  <2>5. \A m \in Listed(cursor, target) \ todo' : m = k \/ (m \in Listed(cursor, target) \ todo /\ m # k /\ m \in Id)
    BY <2>1 DEF Listed
  <2>6. Listed(cursor, target)' = Listed(cursor, target)
    BY <2>1 DEF Listed
  <2>7. QED
    BY <1>2, <2>1, <2>2, <2>3, <2>4, <2>5, <2>6 DEF ReplyInv
<1>8. CASE FinishDrain
  <2>1. Listed(cursor, target)' = {} /\ phase' = "idle"
    BY <1>8, NothingListed DEF FinishDrain, EndDrain, Listed
  <2>2. UNCHANGED <<log, label>> /\ cursor' = target /\ todo = {}
    BY <1>8 DEF FinishDrain
  <2>3. RepliedIsUnflagged'
    <3> SUFFICES ASSUME NEW m \in 1 .. target, ~Inbound(m), missed'[m] = "no",
                        \A k \in m + 1 .. Len(log) : Owner(k) # Owner(m)
                 PROVE  label[Owner(m)] \in SentLabel
      BY <1>2, <2>2 DEF RepliedIsUnflagged
    <3>1. m \in Id /\ missed'[m] = IF cursor + PageCap < m /\ m <= target THEN "beyond" ELSE missed[m]
      BY <1>0, <1>8 DEF FinishDrain, Leave
    <3>2. CASE m <= cursor
      BY <1>0, <3>1, <3>2 DEF ReplyInv, RepliedIsUnflagged
    <3>3. CASE m > cursor
      BY <1>0, <2>2, <3>1, <3>3 DEF ReplyInv, Listed
    <3>4. QED
      BY <1>0, <3>2, <3>3
  <2>4. QED
    BY <2>1, <2>3 DEF ReplyInv
<1>9. CASE AbortDrain
  <2>1. Listed(cursor, target)' = {} /\ phase' = "idle"
    BY <1>9, NothingListed DEF AbortDrain, EndDrain, Listed
  <2>2. RepliedIsUnflagged'
    BY <1>3, <1>9 DEF AbortDrain
  <2>3. QED
    BY <2>1, <2>2 DEF ReplyInv
<1>10. {"ToRespond", "FYI"} \subseteq Label /\ {"Actioned", "AwaitingReply"} \subseteq Label
       /\ {"Actioned", "AwaitingReply"} = SentLabel
  BY DEF Label, SentLabel
<1>11. ASSUME NEW k \in todo, LabelSent(k) PROVE ReplyInv'
  BY <1>6, <1>10, <1>11 DEF LabelSent
<1>12. ASSUME NEW k \in todo, NEW category \in {"ToRespond", "FYI"}, LabelInbound(k, category)
       PROVE  ReplyInv'
  BY <1>6, <1>10, <1>12 DEF LabelInbound
<1>13. QED
  BY Steps, <1>1, <1>4, <1>5, <1>7, <1>8, <1>9, <1>11, <1>12

-----------------------------------------------------------------------------
(* The theorems. *)

\* The invariant is inductive.
LEMMA Invariant == Spec => []IndInv
<1>1. Init => IndInv
  BY InitType, InitParts DEF IndInv
<1>2. IndInv /\ [Next]_vars => IndInv'
  BY StepType, StepDrain, StepCover, StepRepeat, StepFlag, StepReply DEF IndInv
<1>3. QED
  BY <1>1, <1>2, PTL DEF Spec

\* Every reachable state is well typed.
THEOREM TypeCorrect == Spec => []TypeOK
<1>1. IndInv => TypeOK
  BY DEF IndInv
<1>2. QED
  BY <1>1, Invariant, PTL

\* The cursor never silently passes a message (drain_history, set_cursor).
THEOREM CursorCovers == Spec => []NoneSilentlyPassed
<1>1. IndInv => NoneSilentlyPassed
  BY DEF IndInv, CoverInv
<1>2. QED
  BY <1>1, Invariant, PTL

\* A message is triaged at most once more than drains were cut off.
THEOREM RepeatsBounded == Spec => []NoReprocessing
<1>1. IndInv => NoReprocessing
  <2> SUFFICES ASSUME IndInv, NEW m \in Id PROVE handled[m] <= 1 + aborts
    BY DEF NoReprocessing
  <2>1. handled[m] <= aborts + 1 /\ aborts \in Nat
    BY Ranges DEF IndInv, RepeatInv
  <2>2. QED
    BY <2>1
<1>2. QED
  BY <1>1, Invariant, PTL

\* A thread flagged To Respond is in the draft ledger or will be looked at.
THEOREM FlagsHaveClaims == Spec => []FlaggedHasClaim
<1>1. IndInv => FlaggedHasClaim
  <2> SUFFICES ASSUME IndInv, NEW t \in Thread, label[t] = "ToRespond", t \notin claimed
               PROVE  \E m \in 1 .. Len(log) :
                        Owner(m) = t /\ Inbound(m) /\ (m > cursor \/ missed[m] # "no")
    BY DEF FlaggedHasClaim
  <2>1. PICK m \in 1 .. Len(log) : Owner(m) = t /\ Inbound(m) /\ Ahead(m)
    BY DEF IndInv, FlagInv
  <2>2. m > cursor \/ missed[m] # "no"
    BY <2>1, Ranges, SyncAssumption DEF IndInv, Ahead, DrainInv, Listed
  <2>3. QED
    BY <2>1, <2>2
<1>2. QED
  BY <1>1, Invariant, PTL

\* A thread whose last message the owner wrote shows a sent label.
THEOREM RepliesUnflag == Spec => []RepliedIsUnflagged
<1>1. IndInv => RepliedIsUnflagged
  BY DEF IndInv, ReplyInv
<1>2. QED
  BY <1>1, Invariant, PTL

-----------------------------------------------------------------------------
(* InboxSync implements Handover. *)

\* The messages that Handover has for given up.
GivenUp == {m \in Id : missed[m] # "no"}

\* The initial states are initial states of the handover.
LEMMA InitHandover == Init => Queue!Init
BY SyncAssumption DEF Init, Queue!Init, Id

\* A quiet step is an arrival, an expiry or a stutter: seen from Handover, mail
\* comes one at a time.
LEMMA QuietSteps ==
  ASSUME TypeOK, [Next]_vars, Quiet
  PROVE  \/ Queue!Arrive
         \/ \E id \in 1 .. Len(log) : Queue!Expire(id)
         \/ UNCHANGED Queue!handoverVars
<1>1. UNCHANGED <<cursor, handled, missed, aborts>>
  BY DEF Quiet, history
<1>2. ASSUME NEW t \in Thread, NEW kind \in Kind, MailArrives(t, kind) PROVE Queue!Arrive
  <2>1. Len(log') = Len(log) + 1
    BY <1>2 DEF MailArrives, TypeOK, Mail
  <2>2. QED
    BY <1>1, <1>2, <2>1 DEF MailArrives, Queue!Arrive
<1>3. ASSUME NEW id \in 1 .. Len(log), HistoryExpires(id) PROVE Queue!Expire(id)
  BY <1>1, <1>3 DEF HistoryExpires, Queue!Expire
<1>4. ASSUME UNCHANGED <<log, oldest>> PROVE UNCHANGED Queue!handoverVars
  BY <1>1, <1>4 DEF Queue!handoverVars
<1>5. QED
  BY <1>2, <1>3, <1>4
     DEF Next, Poll, WorkOnDrain, LoseNote, IgnoreNote, ListHistory, ResetStale, AuthFails,
         Reconnect, LabelInbound, LabelSent, Relabel, Complete, Fail, FinishDrain, AbortDrain,
         gmailVars, vars

\* A stale reset is a restart of the mark.
LEMMA ResetRestarts ==
  ASSUME TypeOK, NEW n \in Id \cup {0}, ResetStale(n)
  PROVE  \E to \in 0 .. Len(log) : Queue!Restart(to)
<1>1. cursor < oldest /\ cursor' = Fallback(n) /\ UNCHANGED <<log, oldest, handled, aborts>>
  BY DEF ResetStale, gmailVars
<1>2. Fallback(n) \in 0 .. Len(log) /\ cursor \in Nat /\ Len(log) \in Nat /\ Len(log) <= MaxMail
  BY Ranges DEF ResetStale, CanDrain, Fallback, TypeOK
<1>3. missed' = [m \in Id |-> IF cursor < m /\ m <= Fallback(n) THEN "expired" ELSE missed[m]]
  BY DEF ResetStale, Leave
<1>4. GivenUp' = GivenUp \cup (cursor + 1 .. Fallback(n))
  BY <1>2, <1>3, SyncAssumption DEF GivenUp, Id
<1>5. Queue!Restart(Fallback(n))
  BY <1>1, <1>4 DEF Queue!Restart, GivenUp
<1>6. QED
  BY <1>2, <1>5 DEF Queue!Restart

\* A triage that runs to the end hands its message on: the list holds only what is
\* ahead of the cursor (DrainInv) and was not handed on since the last cut
\* (RepeatInv).
LEMMA CompleteHandsOn ==
  ASSUME TypeOK, DrainInv, RepeatInv, NEW m \in todo, Complete(m)
  PROVE  m \in 1 .. Len(log) /\ Queue!HandOn(m)
<1>1. m \in 1 .. Len(log) /\ m > cursor
  BY Ranges DEF TypeOK, DrainInv, Listed
<1>2. handled[m] <= aborts
  BY Ranges DEF RepeatInv
<1>3. handled' = [handled EXCEPT ![m] = @ + 1] /\ UNCHANGED <<log, oldest, cursor, aborts>>
  BY DEF Complete, gmailVars
<1>4. GivenUp' = GivenUp \ {m}
  BY CompleteAfter DEF GivenUp
<1>5. QED
  BY <1>1, <1>2, <1>3, <1>4 DEF Queue!HandOn, GivenUp

\* A triage that raises gives its message up.
LEMMA FailGivesUp ==
  ASSUME TypeOK, DrainInv, NEW m \in todo, Fail(m)
  PROVE  m \in 1 .. Len(log) /\ Queue!GiveUp(m)
<1>1. m \in 1 .. Len(log) /\ m > cursor
  BY Ranges DEF TypeOK, DrainInv, Listed
<1>2. UNCHANGED <<log, oldest, cursor, handled, aborts>>
  BY DEF Fail, gmailVars
<1>3. GivenUp' = GivenUp \cup {m}
  BY FailAfter DEF GivenUp
<1>4. QED
  BY <1>1, <1>2, <1>3 DEF Queue!GiveUp, GivenUp

\* A drain that ends passes what it settled (CoverInv) and what its pages did not
\* reach.
LEMMA FinishPasses ==
  ASSUME TypeOK, DrainInv, CoverInv, FinishDrain
  PROVE  \E to \in 0 .. Len(log) : Queue!Pass(to)
<1> DEFINE beyond == cursor + PageCap + 1 .. target
<1>1. /\ todo = {} /\ cursor' = target /\ UNCHANGED <<log, oldest, handled, aborts>>
      /\ missed' = [m \in Id |-> IF cursor + PageCap < m /\ m <= target THEN "beyond"
                                ELSE missed[m]]
  BY DEF FinishDrain, Leave, gmailVars
<1>2. cursor <= target /\ target \in 0 .. Len(log) /\ cursor \in Nat /\ PageCap \in Nat
      /\ Len(log) <= MaxMail /\ MaxMail \in Nat /\ Len(log) \in Nat
  BY Ranges, SyncAssumption DEF FinishDrain, DrainInv
<1>3. ASSUME NEW m \in (cursor + 1 .. target) \ beyond PROVE handled[m] > 0 \/ m \in GivenUp
  <2>1. m \in Listed(cursor, target) \ todo
    BY <1>1, <1>2 DEF Listed, Id
  <2>2. QED
    BY <2>1 DEF CoverInv, Listed, GivenUp
<1>4. GivenUp' = GivenUp \cup beyond
  BY <1>1, <1>2 DEF GivenUp, Id
<1>5. Queue!Pass(target)
  BY <1>1, <1>2, <1>3, <1>4 DEF Queue!Pass, GivenUp
<1>6. QED
  BY <1>2, <1>5 DEF Queue!Pass

\* Every step maps to a step of the handover or to a stutter.
LEMMA StepHandover ==
  TypeOK /\ DrainInv /\ CoverInv /\ RepeatInv /\ [Next]_vars
    => [Queue!Next]_Queue!handoverVars
<1> SUFFICES ASSUME TypeOK, DrainInv, CoverInv, RepeatInv, [Next]_vars
             PROVE  [Queue!Next]_Queue!handoverVars
  OBVIOUS
<1> USE DEF gmailVars, drainVars, history
<1>1. CASE Quiet
  BY <1>1, QuietSteps DEF Queue!Next
<1>2. ASSUME NEW n \in Id \cup {0}, ListHistory(n) PROVE UNCHANGED Queue!handoverVars
  BY <1>2 DEF ListHistory, Queue!handoverVars
<1>3. ASSUME NEW n \in Id \cup {0}, ResetStale(n) PROVE Queue!Next
  BY <1>3, ResetRestarts DEF Queue!Next
<1>4. ASSUME NEW m \in todo, NEW category, Relabel(m, category) PROVE UNCHANGED Queue!handoverVars
  BY <1>4 DEF Relabel, Queue!handoverVars
<1>5. ASSUME NEW m \in todo, Complete(m) PROVE Queue!Next
  BY <1>5, CompleteHandsOn DEF Queue!Next
<1>6. ASSUME NEW m \in todo, Fail(m) PROVE Queue!Next
  BY <1>6, FailGivesUp DEF Queue!Next
<1>7. CASE FinishDrain
  BY <1>7, FinishPasses DEF Queue!Next
<1>8. CASE AbortDrain
  BY <1>8 DEF AbortDrain, Queue!Cut, Queue!Next
<1>9. QED
  BY Steps, <1>1, <1>2, <1>3, <1>4, <1>5, <1>6, <1>7, <1>8 DEF LabelInbound, LabelSent

\* Every behaviour of the runtime is one of Handover, whatever threads,
\* notifications, faults and crashes there are: what the owner of an account may
\* rely on is at-least-once delivery with the exceptions named there.
THEOREM ImplementsHandover == Spec => HandoverSpec
<1>1. IndInv /\ [Next]_vars => [Queue!Next]_Queue!handoverVars
  BY StepHandover DEF IndInv
<1>2. QED
  BY InitHandover, <1>1, Invariant, PTL DEF Spec, HandoverSpec, Queue!Spec

-----------------------------------------------------------------------------
(* What Handover promises is what its users need. *)

\* The numbers of a handover are in range, and the mark passed only what was
\* settled.
MarkInv ==
  /\ Len(log) \in 0 .. MaxMail /\ cursor \in 0 .. Len(log)
  /\ handled \in [Id -> Nat] /\ aborts \in Nat
  /\ NoneSilentlyPassed
  /\ NoReprocessing

\* The initial states of a handover have passed nothing.
LEMMA InitMark == Queue!Init => MarkInv
BY SyncAssumption DEF Queue!Init, MarkInv, NoneSilentlyPassed, NoReprocessing, Id

\* Every step of a handover keeps it so.
LEMMA StepMark == MarkInv /\ [Queue!Next]_Queue!handoverVars => MarkInv'
<1> SUFFICES ASSUME MarkInv, [Queue!Next]_Queue!handoverVars PROVE MarkInv'
  OBVIOUS
<1> DEFINE Ranged ==
      /\ Len(log) \in 0 .. MaxMail /\ cursor \in 0 .. Len(log)
      /\ handled \in [Id -> Nat] /\ aborts \in Nat
    Covered == \A m \in 1 .. cursor : handled[m] > 0 \/ m \in GivenUp
    Bounded == \A m \in Id : handled[m] <= 1 + aborts
<1>1. Ranged /\ Covered /\ Bounded
  BY SyncAssumption DEF MarkInv, NoneSilentlyPassed, NoReprocessing, GivenUp, Id
<1>2. MaxMail \in Nat /\ Id = 1 .. MaxMail /\ PageCap \in Nat
  BY SyncAssumption DEF Id
<1>3. Ranged' /\ Covered' /\ Bounded' => MarkInv'
  BY SyncAssumption DEF MarkInv, NoneSilentlyPassed, NoReprocessing, GivenUp, Id
<1>4. CASE Queue!Arrive
  BY <1>1, <1>2, <1>3, <1>4 DEF Queue!Arrive, GivenUp
<1>5. CASE Queue!Cut
  BY <1>1, <1>2, <1>3, <1>5 DEF Queue!Cut, GivenUp
<1>6. ASSUME NEW m \in 1 .. Len(log), Queue!Expire(m) PROVE MarkInv'
  BY <1>1, <1>2, <1>3, <1>6 DEF Queue!Expire, GivenUp
<1>7. ASSUME NEW m \in 1 .. Len(log), Queue!HandOn(m) PROVE MarkInv'
  <2>1. m \in Id /\ m > cursor /\ handled[m] <= aborts /\ handled[m] \in Nat
    BY <1>1, <1>2, <1>7 DEF Queue!HandOn
  <2>2. /\ handled' = [handled EXCEPT ![m] = handled[m] + 1] /\ GivenUp' = GivenUp \ {m}
        /\ UNCHANGED <<Len(log), cursor, aborts>>
    BY <1>7 DEF Queue!HandOn, GivenUp
  <2>3. Ranged' /\ Bounded'
    BY <1>1, <2>1, <2>2
  <2>4. Covered'
    BY <1>1, <1>2, <2>1, <2>2
  <2>5. QED
    BY <1>3, <2>3, <2>4
<1>8. ASSUME NEW m \in 1 .. Len(log), Queue!GiveUp(m) PROVE MarkInv'
  BY <1>1, <1>2, <1>3, <1>8 DEF Queue!GiveUp, GivenUp
<1>9. ASSUME NEW to \in 0 .. Len(log), Queue!Pass(to) PROVE MarkInv'
  <2>1. /\ cursor' = to /\ GivenUp' = GivenUp \cup (cursor + PageCap + 1 .. to)
        /\ UNCHANGED <<Len(log), handled, aborts>>
        /\ \A m \in (cursor + 1 .. to) \ (cursor + PageCap + 1 .. to) :
             handled[m] > 0 \/ m \in GivenUp
    BY <1>9 DEF Queue!Pass, GivenUp
  <2>2. Ranged' /\ Bounded'
    BY <1>1, <2>1
  <2>3. Covered'
    BY <1>1, <1>2, <2>1
  <2>4. QED
    BY <1>3, <2>2, <2>3
<1>10. ASSUME NEW to \in 0 .. Len(log), Queue!Restart(to) PROVE MarkInv'
  <2>1. /\ cursor' = to /\ GivenUp' = GivenUp \cup (cursor + 1 .. to)
        /\ UNCHANGED <<Len(log), handled, aborts>>
    BY <1>10 DEF Queue!Restart, GivenUp
  <2>2. Ranged' /\ Bounded'
    BY <1>1, <2>1
  <2>3. Covered'
    BY <1>1, <1>2, <2>1
  <2>4. QED
    BY <1>3, <2>2, <2>3
<1>11. CASE UNCHANGED Queue!handoverVars
  BY <1>1, <1>3, <1>11 DEF Queue!handoverVars, GivenUp
<1>12. QED
  BY <1>4, <1>5, <1>6, <1>7, <1>8, <1>9, <1>10, <1>11 DEF Queue!Next

\* The cursor moves backward only away from history that Gmail has forgotten.
NoRewind == [][cursor' < cursor => cursor < oldest]_vars

\* Handover says enough: every implementation of it passes nothing silently,
\* repeats only after cuts, and rewinds only a mark that fell behind.
THEOREM HandoverSuffices ==
  HandoverSpec => []NoneSilentlyPassed /\ []NoReprocessing /\ NoRewind
<1>1. MarkInv => NoneSilentlyPassed /\ NoReprocessing
  BY DEF MarkInv
<1>2. MarkInv /\ [Queue!Next]_Queue!handoverVars => [cursor' < cursor => cursor < oldest]_vars
  <2> SUFFICES ASSUME MarkInv, [Queue!Next]_Queue!handoverVars, cursor' < cursor
               PROVE  cursor < oldest
    OBVIOUS
  <2>1. cursor \in Nat /\ Len(log) \in Nat
    BY SyncAssumption DEF MarkInv
  <2>2. cursor' # cursor
    BY <2>1
  <2>3. ASSUME NEW to \in 0 .. Len(log), Queue!Pass(to) PROVE FALSE
    BY <2>1, <2>3 DEF Queue!Pass
  <2>4. ASSUME NEW to, Queue!Restart(to) PROVE cursor < oldest
    BY <2>4 DEF Queue!Restart
  <2>5. QED
    BY <2>2, <2>3, <2>4 DEF Queue!Next, Queue!Arrive, Queue!Cut, Queue!Expire, Queue!HandOn,
                            Queue!GiveUp, Queue!handoverVars
<1>3. QED
  BY InitMark, StepMark, <1>1, <1>2, PTL DEF HandoverSpec, Queue!Spec, NoRewind

\* Late and repeated notifications do not rewind the cursor of a healthy account
\* (set_cursor in _drain_account).
THEOREM CursorForward == Spec => NoRewind
BY ImplementsHandover, HandoverSuffices, PTL
=============================================================================
