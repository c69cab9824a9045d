-------------------------- MODULE DraftLedgerProofs --------------------------
(***************************************************************************)
(* Proofs about DraftLedger for every set of threads, every window, every  *)
(* limit and every choice of faults.                                       *)
(***************************************************************************)
EXTENDS DraftLedger, TLAPS

\* The ledger row and the history of its claims agree.
GrantInv ==
  \A t \in Thread :
    /\ attempts[t] > 0 => lastAttempt[t] = grantedAt[t][attempts[t]]
    /\ \A k \in 1 .. attempts[t] : grantedAt[t][k] <= now
    /\ \A k \in 2 .. attempts[t] : grantedAt[t][k] >= grantedAt[t][k - 1] + TTL

\* A turn that was not claimed does not exist.
FreshInv ==
  \A t \in Thread : \A k \in Slot : k > attempts[t] => turn[t][k] = "none"

\* Real draft ids, in the row, in a turn or in the mailbox, name drafts made.
IdInv ==
  \A t \in Thread :
    /\ draftId[t] \in {NoDraft, Probe} \cup (1 .. created[t])
    /\ mailbox[t] \subseteq 1 .. created[t]
    /\ \A k \in Slot :
         turn[t][k] = "made" => held[t][k] \in {Probe} \cup (1 .. created[t])

\* As long as nothing has happened that excuses a duplicate: one turn at a
\* time, one draft at most, and that draft is in the row or about to be.
SoloInv ==
  \A t \in Thread : excuse[t] = {} =>
    /\ \A j, k \in Slot : IsLive(t, j) /\ IsLive(t, k) => j = k
    /\ created[t] <= 1
    /\ created[t] = 1 /\ draftId[t] = NoDraft =>
         \E k \in Slot : turn[t][k] = "made" /\ held[t][k] = 1
    /\ \A k \in Slot : turn[t][k] = "creating" => created[t] = 0

IndInv ==
  /\ TypeOK
  /\ GrantInv
  /\ FreshInv
  /\ IdInv
  /\ SoloInv

-----------------------------------------------------------------------------
(* Type correctness. *)

\* The initial states are well typed.
LEMMA InitType == Init => TypeOK
BY DraftAssumption
   DEF Init, TypeOK, Slot, Attempt, DraftIdOf, Phase, Excuses

\* A turn enters a phase.
LEMMA TurnMoves ==
  ASSUME TypeOK, NEW t \in Thread, NEW k \in Slot, NEW p \in Phase, SetPhase(t, k, p)
  PROVE  turn' \in [Thread -> [Slot -> Phase]]
BY DEF TypeOK, SetPhase

\* A turn's tool call takes up a draft id.
LEMMA HeldMoves ==
  ASSUME TypeOK, NEW t \in Thread, NEW k \in Slot,
         NEW d \in {NoDraft, Probe} \cup DraftIdOf, SetHeld(t, k, d)
  PROVE  held' \in [Thread -> [Slot -> {NoDraft, Probe} \cup DraftIdOf]]
BY DEF TypeOK, SetHeld

\* An excuse is added to a thread.
LEMMA ExcuseMoves ==
  ASSUME TypeOK, NEW t \in Thread, NEW why \in SUBSET Excuses, Excuse(t, why)
  PROVE  excuse' \in [Thread -> SUBSET Excuses]
BY DEF TypeOK, Excuse

\* The phases and the excuses, by name.
LEMMA PhaseNames ==
  /\ {"none", "ended", "claimed", "running", "creating", "updating", "made"} \subseteq Phase
  /\ {"crowded", "unrecorded", "blind"} = Excuses
BY DEF Phase, Live, InCall, Excuses

\* Winning a claim keeps the type of the five variables it changes.
LEMMA ClaimType ==
  ASSUME TypeOK, NEW t \in Thread, ClaimDraft(t)
  PROVE  /\ attempts' \in [Thread -> 0 .. MaxAttempts]
         /\ lastAttempt' \in [Thread -> Nat]
         /\ turn' \in [Thread -> [Slot -> Phase]]
         /\ grantedAt' \in [Thread -> [Attempt -> Nat]]
         /\ excuse' \in [Thread -> SUBSET Excuses]
<1> DEFINE k == attempts[t] + 1
<1>1. k \in Attempt /\ k \in Slot /\ k \in 0 .. MaxAttempts
  BY DraftAssumption DEF TypeOK, ClaimDraft, Claimable, Attempt, Slot
<1>2. /\ attempts' = [attempts EXCEPT ![t] = k]
      /\ lastAttempt' = [lastAttempt EXCEPT ![t] = now]
      /\ turn' = [turn EXCEPT ![t][k] = "claimed"]
      /\ grantedAt' = [grantedAt EXCEPT ![t][k] = now]
      /\ \/ excuse' = [excuse EXCEPT ![t] = @ \cup {"crowded"}]
         \/ excuse' = [excuse EXCEPT ![t] = @ \cup {}]
  BY DEF ClaimDraft, Excuse
<1> HIDE DEF k
<1>3. attempts' \in [Thread -> 0 .. MaxAttempts] /\ lastAttempt' \in [Thread -> Nat]
  BY <1>1, <1>2 DEF TypeOK
<1>4. turn' \in [Thread -> [Slot -> Phase]]
  BY <1>1, <1>2 DEF TypeOK, Phase, Live
<1>5. grantedAt' \in [Thread -> [Attempt -> Nat]]
  BY <1>1, <1>2 DEF TypeOK
<1>6. excuse' \in [Thread -> SUBSET Excuses]
  BY <1>2 DEF TypeOK, Excuses
<1>7. QED
  BY <1>3, <1>4, <1>5, <1>6

\* Every step of the ledger, the turns and the mailbox keeps the types.
LEMMA StepType == TypeOK /\ [Next]_vars => TypeOK'
<1> SUFFICES ASSUME TypeOK, [Next]_vars PROVE TypeOK'
  OBVIOUS
<1> USE DraftAssumption
<1> USE DEF TypeOK, Phase, Live, InCall, Excuses, ledger, gmail
<1>1. ASSUME NEW t \in Thread, DedupWake(t) PROVE TypeOK'
  BY <1>1, ClaimType DEF DedupWake
<1>2. ASSUME NEW t \in Thread, RetryRow(t) PROVE TypeOK'
  <2>1. CASE ClaimDraft(t)
    BY <1>2, <2>1, ClaimType DEF RetryRow
  <2>2. CASE UNCHANGED <<attempts, lastAttempt, turn, grantedAt, excuse>>
    BY <1>2, <2>2 DEF RetryRow
  <2>3. QED
    BY <1>2, <2>1, <2>2 DEF RetryRow
<1>3. ASSUME NEW t \in Thread, OwnerAsks(t) PROVE TypeOK'
  BY <1>3 DEF OwnerAsks, SetPhase, Excuse
<1>4. ASSUME NEW t \in Thread, OwnerTakesDraft(t) PROVE TypeOK'
  BY <1>4 DEF OwnerTakesDraft
<1>5. ASSUME NEW t \in Thread, NEW k \in Slot, WakeDraft(t, k) PROVE TypeOK'
  BY <1>5, PhaseNames, TurnMoves DEF WakeDraft
<1>6. ASSUME NEW t \in Thread, NEW k \in Slot, EndTurn(t, k) PROVE TypeOK'
  BY <1>6 DEF EndTurn, SetPhase
<1>7. ASSUME NEW t \in Thread, NEW k \in Slot, ToolStep(t, k) PROVE TypeOK'
  <2>1. CASE CallWithProbe(t, k)
    BY <2>1 DEF CallWithProbe, SetPhase, SetHeld
  <2>2. CASE CallWithWriter(t, k)
    BY <2>2 DEF CallWithWriter, SetPhase, SetHeld
  <2>3. CASE CallBlind(t, k)
    BY <2>3 DEF CallBlind, SetPhase, SetHeld, Excuse
  <2>4. CASE CreateDraft(t, k)
    <3>1. created[t] + 1 \in DraftIdOf
      BY <2>4 DEF CreateDraft, DraftIdOf
    <3>2. created' \in [Thread -> 0 .. MaxDrafts] /\ mailbox' \in [Thread -> SUBSET DraftIdOf]
      BY <2>4, <3>1 DEF CreateDraft, DraftIdOf
    <3>3. turn' \in [Thread -> [Slot -> Phase]]
      BY <2>4, PhaseNames, TurnMoves DEF CreateDraft
    <3>4. held' \in [Thread -> [Slot -> {NoDraft, Probe} \cup DraftIdOf]]
      BY <2>4, <3>1, HeldMoves DEF CreateDraft
    <3>5. excuse' \in [Thread -> SUBSET Excuses]
      BY <2>4, PhaseNames, ExcuseMoves DEF CreateDraft
    <3>6. QED
      BY <2>4, <3>2, <3>3, <3>4, <3>5 DEF CreateDraft
  <2>5. CASE UpdateDraft(t, k)
    BY <2>5 DEF UpdateDraft, SetPhase
  <2>6. CASE GmailFails(t, k)
    BY <2>6 DEF GmailFails, SetPhase, SetHeld
  <2>7. CASE RecordDraft(t, k)
    <3>1. draftId' \in [Thread -> {NoDraft, Probe} \cup DraftIdOf]
      <4>1. held[t][k] \in {NoDraft, Probe} \cup DraftIdOf
        OBVIOUS
      <4>2. \/ draftId' = [draftId EXCEPT ![t] = held[t][k]]
            \/ draftId' = draftId
        BY <2>7 DEF RecordDraft
      <4>3. QED
        BY <4>1, <4>2
    <3>2. excuse' \in [Thread -> SUBSET Excuses]
      BY <2>7, PhaseNames, ExcuseMoves DEF RecordDraft
    <3>3. QED
      BY <2>7, <3>1, <3>2 DEF RecordDraft, SetPhase, SetHeld
  <2>8. QED
    BY <1>7, <2>1, <2>2, <2>3, <2>4, <2>5, <2>6, <2>7 DEF ToolStep
<1>8. CASE ListUnfulfilled \/ PassFails
  BY <1>8 DEF ListUnfulfilled, PassFails
<1>9. CASE Crash
  BY <1>9 DEF Crash
<1>10. CASE Tick
  BY <1>10 DEF Tick
<1>11. CASE UNCHANGED vars
  BY <1>11 DEF vars
<1>12. QED
  BY <1>1, <1>2, <1>3, <1>4, <1>5, <1>6, <1>7, <1>8, <1>9, <1>10, <1>11
  DEF Next

\* Every variable keeps its type: attempts never passes MaxAttempts, and the
\* row, the turns and the mailbox hold draft ids or the two special ids.
THEOREM TypeCorrect == Spec => []TypeOK
BY InitType, StepType, PTL DEF Spec

-----------------------------------------------------------------------------
(* The windows between claims. *)

\* Only a claim and the clock touch what the windows depend on.
LEMMA ClaimOrFrame ==
  ASSUME [Next]_vars
  PROVE  \/ \E t \in Thread : ClaimDraft(t) /\ UNCHANGED <<now, draftId, held, gmail>>
         \/ Tick
         \/ UNCHANGED <<now, attempts, lastAttempt, grantedAt>>
<1> USE DEF ledger
<1>1. ASSUME NEW t \in Thread, RetryRow(t)
      PROVE  \/ ClaimDraft(t) /\ UNCHANGED <<now, draftId, held, gmail>>
             \/ UNCHANGED <<now, attempts, lastAttempt, grantedAt>>
  BY <1>1 DEF RetryRow
<1>2. ASSUME NEW t \in Thread, NEW k \in Slot, ToolStep(t, k)
      PROVE  UNCHANGED <<now, attempts, lastAttempt, grantedAt>>
  BY <1>2 DEF ToolStep, CallWithProbe, CallWithWriter, CallBlind, CreateDraft,
              UpdateDraft, GmailFails, RecordDraft
<1>3. QED
  BY <1>1, <1>2
  DEF Next, vars, DedupWake, OwnerAsks, OwnerTakesDraft, WakeDraft, EndTurn,
      ListUnfulfilled, PassFails, Crash

\* A claim extends the history of its thread by a grant a window later.
LEMMA StepGrant == TypeOK /\ GrantInv /\ [Next]_vars => GrantInv'
<1> SUFFICES ASSUME TypeOK, GrantInv, [Next]_vars PROVE GrantInv'
  OBVIOUS
<1>1. ASSUME NEW u \in Thread, ClaimDraft(u), UNCHANGED now PROVE GrantInv'
  <2> DEFINE n == attempts[u] + 1
  <2>1. n \in Attempt /\ n \in Nat /\ n > 0
    BY <1>1, DraftAssumption DEF TypeOK, ClaimDraft, Claimable, Attempt
  <2>2. /\ attempts' = [attempts EXCEPT ![u] = n]
        /\ lastAttempt' = [lastAttempt EXCEPT ![u] = now]
        /\ grantedAt' = [grantedAt EXCEPT ![u][n] = now]
        /\ attempts[u] = 0 \/ lastAttempt[u] <= now - TTL
    BY <1>1 DEF ClaimDraft, Claimable
  <2>3. ASSUME NEW t \in Thread, t # u
        PROVE  /\ attempts'[t] = attempts[t]
               /\ lastAttempt'[t] = lastAttempt[t]
               /\ grantedAt'[t] = grantedAt[t]
    BY <2>2, <2>3 DEF TypeOK
  <2>4. /\ attempts'[u] = n
        /\ lastAttempt'[u] = now
        /\ grantedAt'[u][n] = now
        /\ \A k \in Attempt : k # n => grantedAt'[u][k] = grantedAt[u][k]
    BY <2>1, <2>2 DEF TypeOK
  <2>5. 1 .. attempts[u] \subseteq Attempt /\ 1 .. n = (1 .. attempts[u]) \cup {n}
    BY <2>1, DraftAssumption DEF TypeOK, Attempt
  <2>6. \A k \in 1 .. n : grantedAt'[u][k] <= now
    <3> SUFFICES ASSUME NEW k \in 1 .. n PROVE grantedAt'[u][k] <= now
      OBVIOUS
    <3>1. CASE k = n
      BY <2>4, <3>1 DEF TypeOK
    <3>2. CASE k # n
      <4>1. k \in 1 .. attempts[u] /\ k \in Attempt
        BY <2>5, <3>2
      <4>2. QED
        BY <2>4, <3>2, <4>1 DEF GrantInv
    <3>3. QED
      BY <3>1, <3>2
  <2>7. \A k \in 2 .. n : grantedAt'[u][k] >= grantedAt'[u][k - 1] + TTL
    <3> SUFFICES ASSUME NEW k \in 2 .. n
                 PROVE  grantedAt'[u][k] >= grantedAt'[u][k - 1] + TTL
      OBVIOUS
    <3>1. CASE k = n
      <4>1. n - 1 = attempts[u] /\ attempts[u] > 0 /\ attempts[u] \in Attempt
        BY <2>1, <2>5, <3>1 DEF TypeOK
      <4>2. grantedAt'[u][k - 1] = lastAttempt[u]
        BY <2>1, <2>4, <3>1, <4>1 DEF GrantInv
      <4>3. QED
        BY <2>1, <2>2, <2>4, <3>1, <4>1, <4>2, DraftAssumption DEF TypeOK
    <3>2. CASE k # n
      <4>1. k \in 1 .. attempts[u] /\ k - 1 \in 1 .. attempts[u]
        <5>1. attempts[u] \in Nat /\ k \in Nat /\ 2 <= k /\ k <= attempts[u] + 1
          BY <2>1 DEF TypeOK
        <5>2. QED
          BY <3>2, <5>1
      <4>2. k \in 2 .. attempts[u] /\ k \in Attempt /\ k - 1 \in Attempt /\ k - 1 # n
        <5>1. k \in Attempt /\ k - 1 \in Attempt
          BY <2>5, <4>1
        <5>2. attempts[u] \in Nat
          BY DEF TypeOK
        <5>3. QED
          BY <4>1, <5>1, <5>2
      <4>3. QED
        BY <2>4, <3>2, <4>2 DEF GrantInv
    <3>3. QED
      BY <3>1, <3>2
  <2>8. QED
    BY <1>1, <2>1, <2>3, <2>4, <2>6, <2>7 DEF GrantInv
<1>2. CASE Tick
  <2>1. now' = now + 1 /\ UNCHANGED <<attempts, lastAttempt, grantedAt>>
    BY <1>2 DEF Tick, ledger
  <2>2. ASSUME NEW t \in Thread, NEW k \in 1 .. attempts[t] PROVE grantedAt[t][k] <= now + 1
    <3>1. k \in Attempt
      BY DraftAssumption DEF TypeOK, Attempt
    <3>2. grantedAt[t][k] \in Nat /\ now \in Nat /\ grantedAt[t][k] <= now
      BY <3>1 DEF TypeOK, GrantInv
    <3>3. QED
      BY <3>2
  <2>3. QED
    BY <2>1, <2>2 DEF GrantInv
<1>3. CASE UNCHANGED <<now, attempts, lastAttempt, grantedAt>>
  BY <1>3 DEF GrantInv
<1>4. QED
  BY <1>1, <1>2, <1>3, ClaimOrFrame

\* No claim has been won at the start.
LEMMA InitGrant == Init => GrantInv
BY DEF Init, GrantInv

\* Claims of a thread are a window apart, for every limit, window and set of
\* threads, and whatever crashes, retries and stale listings come between them.
THEOREM WindowsHold == Spec => []WindowsApart
<1>1. Init => TypeOK /\ GrantInv
  BY InitType, InitGrant
<1>2. TypeOK /\ GrantInv /\ [Next]_vars => (TypeOK /\ GrantInv)'
  BY StepType, StepGrant
<1>3. GrantInv => WindowsApart
  BY DEF GrantInv, WindowsApart
<1>4. QED
  BY <1>1, <1>2, <1>3, PTL DEF Spec

-----------------------------------------------------------------------------
(* Draft ids. *)

\* What a turn and its tool call are after a step that moves one of them.
LEMMA TurnAfter ==
  ASSUME TypeOK, NEW t \in Thread, NEW k \in Slot, NEW p, SetPhase(t, k, p)
  PROVE  \A u \in Thread : \A j \in Slot :
           turn'[u][j] = IF u = t /\ j = k THEN p ELSE turn[u][j]
BY DEF TypeOK, SetPhase

\* The same for the draft id the call works with.
LEMMA HeldAfter ==
  ASSUME TypeOK, NEW t \in Thread, NEW k \in Slot, NEW d, SetHeld(t, k, d)
  PROVE  \A u \in Thread : \A j \in Slot :
           held'[u][j] = IF u = t /\ j = k THEN d ELSE held[u][j]
BY DEF TypeOK, SetHeld

\* A won claim starts a turn that was not there: its number is new.
LEMMA ClaimAfter ==
  ASSUME TypeOK, NEW t \in Thread, ClaimDraft(t)
  PROVE  /\ attempts[t] + 1 \in Slot /\ attempts[t] + 1 > 0
         /\ \A u \in Thread : attempts'[u] = IF u = t THEN attempts[t] + 1 ELSE attempts[u]
         /\ \A u \in Thread : \A j \in Slot :
              turn'[u][j] = IF u = t /\ j = attempts[t] + 1 THEN "claimed" ELSE turn[u][j]
<1>1. attempts[t] + 1 \in Slot /\ attempts[t] + 1 > 0
  BY DraftAssumption DEF TypeOK, ClaimDraft, Claimable, Slot
<1>2. /\ turn' = [turn EXCEPT ![t][attempts[t] + 1] = "claimed"]
      /\ attempts' = [attempts EXCEPT ![t] = attempts[t] + 1]
  BY DEF ClaimDraft
<1>3. QED
  BY <1>1, <1>2 DEF TypeOK

\* No draft id exists at the start.
LEMMA InitId == Init => IdInv
BY DraftAssumption DEF Init, IdInv

\* A step that makes no draft, stores no id and puts no turn in "made" keeps
\* every id where it was.
LEMMA IdFrame ==
  ASSUME IdInv, UNCHANGED <<draftId, created>>,
         \A u \in Thread : mailbox'[u] \subseteq mailbox[u],
         \A u \in Thread : \A j \in Slot :
           turn'[u][j] = "made" => turn[u][j] = "made" /\ held'[u][j] = held[u][j]
  PROVE  IdInv'
BY DEF IdInv

\* A tool call never invents a draft id: what it records, it created or read.
LEMMA StepId == TypeOK /\ IdInv /\ [Next]_vars => IdInv'
<1> SUFFICES ASSUME TypeOK, IdInv, [Next]_vars PROVE IdInv'
  OBVIOUS
<1> USE DEF ledger, gmail
<1>1. ASSUME NEW t \in Thread, ClaimDraft(t), UNCHANGED <<draftId, held, gmail>> PROVE IdInv'
  BY <1>1, ClaimAfter, IdFrame
<1>2. ASSUME NEW t \in Thread, RetryRow(t) PROVE IdInv'
  <2>1. CASE ClaimDraft(t)
    BY <1>1, <1>2, <2>1 DEF RetryRow
  <2>2. CASE UNCHANGED turn
    BY <1>2, <2>2, IdFrame DEF RetryRow
  <2>3. QED
    BY <1>2, <2>1, <2>2 DEF RetryRow
<1>3. ASSUME NEW t \in Thread, OwnerAsks(t) PROVE IdInv'
  <2>1. 0 \in Slot
    BY DraftAssumption DEF Slot
  <2>2. QED
    BY <1>3, <2>1, TurnAfter, IdFrame DEF OwnerAsks
<1>4. ASSUME NEW t \in Thread, OwnerTakesDraft(t) PROVE IdInv'
  BY <1>4, IdFrame DEF OwnerTakesDraft, TypeOK
<1>5. ASSUME NEW t \in Thread, NEW k \in Slot, WakeDraft(t, k) PROVE IdInv'
  <2>1. SetPhase(t, k, "running") \/ SetPhase(t, k, "ended")
    BY <1>5 DEF WakeDraft
  <2>2. QED
    BY <1>5, <2>1, TurnAfter, IdFrame DEF WakeDraft
<1>6. ASSUME NEW t \in Thread, NEW k \in Slot, EndTurn(t, k) PROVE IdInv'
  BY <1>6, TurnAfter, IdFrame DEF EndTurn
<1>7. ASSUME NEW t \in Thread, NEW k \in Slot, ToolStep(t, k) PROVE IdInv'
  <2>1. CASE CallWithProbe(t, k)
    <3>1. SetPhase(t, k, "made") /\ SetHeld(t, k, Probe) /\ UNCHANGED <<draftId, gmail>>
      BY <2>1 DEF CallWithProbe
    <3>2. QED
      BY <3>1, TurnAfter, HeldAfter DEF IdInv
  <2>2. CASE CallWithWriter(t, k)
    <3>1. /\ SetPhase(t, k, "creating") \/ SetPhase(t, k, "updating")
          /\ SetHeld(t, k, draftId[t])
          /\ UNCHANGED <<draftId, gmail>>
      BY <2>2 DEF CallWithWriter
    <3>2. QED
      BY <3>1, TurnAfter, HeldAfter, IdFrame
  <2>3. CASE CallBlind(t, k)
    <3>1. SetPhase(t, k, "creating") /\ SetHeld(t, k, NoDraft) /\ UNCHANGED <<draftId, gmail>>
      BY <2>3 DEF CallBlind
    <3>2. QED
      BY <3>1, TurnAfter, HeldAfter, IdFrame
  <2>4. CASE CreateDraft(t, k)
    <3> DEFINE d == created[t] + 1
    <3>1. /\ UNCHANGED draftId
          /\ \A u \in Thread : created'[u] = IF u = t THEN d ELSE created[u]
          /\ \A u \in Thread : mailbox'[u] = IF u = t THEN mailbox[t] \cup {d} ELSE mailbox[u]
      BY <2>4 DEF CreateDraft, TypeOK
    <3>2. \A u \in Thread : 1 .. created[u] \subseteq 1 .. created'[u]
      <4>1. \A u \in Thread : created[u] \in Nat
        BY DEF TypeOK
      <4>2. \A u \in Thread : created'[u] \in Nat /\ created[u] <= created'[u]
        BY <3>1, <4>1
      <4>3. QED
        BY <4>1, <4>2
    <3>3. d \in 1 .. created'[t]
      BY <3>1 DEF TypeOK
    <3>4. ASSUME NEW u \in Thread, NEW j \in Slot, turn'[u][j] = "made"
          PROVE  held'[u][j] \in {Probe} \cup (1 .. created'[u])
      <4>1. CASE SetPhase(t, k, "made") /\ SetHeld(t, k, d)
        BY <3>2, <3>3, <3>4, <4>1, TurnAfter, HeldAfter DEF IdInv
      <4>2. CASE SetPhase(t, k, "running") /\ UNCHANGED held
        BY <3>2, <3>4, <4>2, TurnAfter DEF IdInv
      <4>3. QED
        BY <2>4, <4>1, <4>2 DEF CreateDraft
    <3>5. QED
      BY <3>1, <3>2, <3>3, <3>4 DEF IdInv
  <2>5. CASE UpdateDraft(t, k)
    <3>1. /\ SetPhase(t, k, "made")
          /\ held[t][k] \in mailbox[t]
          /\ UNCHANGED <<draftId, held, gmail>>
      BY <2>5 DEF UpdateDraft
    <3>2. QED
      BY <3>1, TurnAfter DEF IdInv
  <2>6. CASE GmailFails(t, k)
    <3>1. SetPhase(t, k, "running") /\ SetHeld(t, k, NoDraft) /\ UNCHANGED <<draftId, gmail>>
      BY <2>6 DEF GmailFails
    <3>2. QED
      BY <3>1, TurnAfter, HeldAfter, IdFrame
  <2>7. CASE RecordDraft(t, k)
    <3>1. /\ turn[t][k] = "made"
          /\ SetPhase(t, k, "running")
          /\ SetHeld(t, k, NoDraft)
          /\ UNCHANGED gmail
          /\ UNCHANGED draftId \/ draftId' = [draftId EXCEPT ![t] = held[t][k]]
      BY <2>7 DEF RecordDraft
    <3>2. \A u \in Thread : draftId'[u] \in {draftId[u]} \cup (IF u = t THEN {held[t][k]} ELSE {})
      BY <3>1 DEF TypeOK
    <3>3. QED
      BY <3>1, <3>2, TurnAfter, HeldAfter DEF IdInv
  <2>8. QED
    BY <1>7, <2>1, <2>2, <2>3, <2>4, <2>5, <2>6, <2>7 DEF ToolStep
<1>8. CASE Crash
  <2>1. ASSUME NEW u \in Thread, NEW j \in Slot PROVE turn'[u][j] # "made"
    BY <1>8 DEF Crash, IsLive, Live, InCall
  <2>2. QED
    BY <1>8, <2>1, IdFrame DEF Crash
<1>9. CASE ListUnfulfilled \/ PassFails \/ Tick \/ UNCHANGED vars
  BY <1>9, IdFrame DEF ListUnfulfilled, PassFails, Tick, vars
<1>10. QED
  BY <1>1, <1>2, <1>3, <1>4, <1>5, <1>6, <1>7, <1>8, <1>9 DEF Next, DedupWake

-----------------------------------------------------------------------------
(* Duplicates. *)

\* No turn and no draft exists at the start.
LEMMA InitSolo == Init => FreshInv /\ SoloInv
BY DEF Init, FreshInv, SoloInv, IsLive, Live, InCall

\* Only winning the k-th claim brings the k-th turn into being.
LEMMA StepFresh == TypeOK /\ FreshInv /\ [Next]_vars => FreshInv'
<1> SUFFICES ASSUME TypeOK, FreshInv, [Next]_vars PROVE FreshInv'
  OBVIOUS
<1> USE DEF ledger
<1>1. ASSUME NEW t \in Thread, ClaimDraft(t) PROVE FreshInv'
  <2>1. attempts[t] \in Nat /\ Slot \subseteq Nat
    BY DraftAssumption DEF TypeOK, Slot
  <2>2. SUFFICES ASSUME NEW u \in Thread, NEW j \in Slot, j > attempts'[u]
                 PROVE  turn'[u][j] = "none"
    BY DEF FreshInv
  <2>3. j > attempts[u] /\ ~(u = t /\ j = attempts[t] + 1)
    BY <1>1, <2>1, <2>2, ClaimAfter
  <2>4. QED
    BY <1>1, <2>3, ClaimAfter DEF FreshInv
<1>2. ASSUME NEW t \in Thread, RetryRow(t) PROVE FreshInv'
  <2>1. CASE ClaimDraft(t)
    BY <1>1, <2>1
  <2>2. CASE UNCHANGED <<attempts, turn>>
    BY <2>2 DEF FreshInv
  <2>3. QED
    BY <1>2, <2>1, <2>2 DEF RetryRow
<1>3. ASSUME NEW t \in Thread, NEW k \in Slot, NEW p, SetPhase(t, k, p),
             UNCHANGED attempts, k <= attempts[t]
      PROVE  FreshInv'
  <2>1. attempts[t] \in Nat /\ Slot \subseteq Nat
    BY DraftAssumption DEF TypeOK, Slot
  <2>2. QED
    BY <1>3, <2>1, TurnAfter DEF FreshInv
<1>4. ASSUME NEW t \in Thread, NEW k \in Slot, turn[t][k] # "none" PROVE k <= attempts[t]
  <2>1. attempts[t] \in Nat /\ k \in Nat /\ ~(k > attempts[t])
    BY <1>4, DraftAssumption DEF FreshInv, TypeOK, Slot
  <2>2. QED
    BY <2>1
<1>5. ASSUME NEW t \in Thread, OwnerAsks(t) PROVE FreshInv'
  <2>1. 0 \in Slot /\ 0 <= attempts[t]
    BY DraftAssumption DEF TypeOK, Slot
  <2>2. QED
    BY <1>3, <1>5, <2>1 DEF OwnerAsks
<1>6. ASSUME NEW t \in Thread, NEW k \in Slot, WakeDraft(t, k) \/ EndTurn(t, k)
      PROVE  FreshInv'
  <2>1. /\ turn[t][k] # "none"
        /\ UNCHANGED attempts
        /\ SetPhase(t, k, "running") \/ SetPhase(t, k, "ended")
    BY <1>6 DEF WakeDraft, EndTurn
  <2>2. QED
    BY <1>3, <1>4, <2>1
<1>7. ASSUME NEW t \in Thread, NEW k \in Slot, ToolStep(t, k) PROVE FreshInv'
  <2>1. /\ turn[t][k] # "none"
        /\ UNCHANGED attempts
        /\ \E p \in Phase : SetPhase(t, k, p)
    <3>1. turn[t][k] # "none" /\ UNCHANGED attempts
      BY <1>7 DEF ToolStep, CallWithProbe, CallWithWriter, CallBlind, CreateDraft,
                  UpdateDraft, GmailFails, RecordDraft
    <3>2. \/ SetPhase(t, k, "made") \/ SetPhase(t, k, "creating")
          \/ SetPhase(t, k, "updating") \/ SetPhase(t, k, "running")
      BY <1>7 DEF ToolStep, CallWithProbe, CallWithWriter, CallBlind, CreateDraft,
                  UpdateDraft, GmailFails, RecordDraft
    <3>3. QED
      BY <3>1, <3>2, PhaseNames
  <2>2. QED
    BY <1>3, <1>4, <2>1
<1>8. CASE Crash
  BY <1>8, DraftAssumption DEF Crash, FreshInv, TypeOK, IsLive, Live, InCall
<1>9. ASSUME UNCHANGED <<attempts, turn>> PROVE FreshInv'
  BY <1>9 DEF FreshInv
<1>10. QED
  BY <1>1, <1>2, <1>5, <1>6, <1>7, <1>8, <1>9
  DEF Next, DedupWake, OwnerTakesDraft, ListUnfulfilled, PassFails, Tick, vars

\* SoloInv for one thread, in the four parts the proof below takes apart.
AtMostOneLive(t) == \A j, k \in Slot : IsLive(t, j) /\ IsLive(t, k) => j = k
Kept(t) ==
  created[t] = 1 /\ draftId[t] = NoDraft =>
    \E k \in Slot : turn[t][k] = "made" /\ held[t][k] = 1
NotYet(t) == \A k \in Slot : turn[t][k] = "creating" => created[t] = 0
Solo(t) == AtMostOneLive(t) /\ created[t] <= 1 /\ Kept(t) /\ NotYet(t)

\* SoloInv, thread by thread.
LEMMA SoloParts == SoloInv <=> \A t \in Thread : excuse[t] = {} => Solo(t)
BY DEF SoloInv, Solo, AtMostOneLive, Kept, NotYet

\* The same after the step.
LEMMA SoloPartsNext ==
  ASSUME \A t \in Thread : excuse'[t] = {} => Solo(t)'
  PROVE  SoloInv'
BY DEF SoloInv, Solo, AtMostOneLive, Kept, NotYet, IsLive

\* A thread none of whose variables moved keeps Solo.
LEMMA SoloFrame ==
  ASSUME NEW t \in Thread, Solo(t), created'[t] = created[t], draftId'[t] = draftId[t],
         \A k \in Slot : turn'[t][k] = turn[t][k] /\ held'[t][k] = held[t][k]
  PROVE  Solo(t)'
BY DEF Solo, AtMostOneLive, Kept, NotYet, IsLive

\* Without an excuse, a turn outside the Gmail call and the record of its
\* answer finds the draft of the thread, if there is one, in the row.
LEMMA NothingInFlight ==
  ASSUME TypeOK, NEW t \in Thread, NEW k \in Slot, Solo(t), IsLive(t, k),
         turn[t][k] # "made", draftId[t] = NoDraft
  PROVE  created[t] = 0
<1>1. \A j \in Slot : turn[t][j] = "made" => j = k
  BY DEF Solo, AtMostOneLive, IsLive, Live, InCall
<1>2. created[t] # 1
  BY <1>1 DEF Solo, Kept
<1>3. created[t] \in Nat /\ created[t] <= 1
  BY DEF TypeOK, Solo
<1>4. QED
  BY <1>2, <1>3

\* A live turn that moves on, or ends, stays the only one.
LEMMA StillOne ==
  ASSUME TypeOK, NEW t \in Thread, NEW k \in Slot, NEW p, AtMostOneLive(t),
         IsLive(t, k), SetPhase(t, k, p)
  PROVE  AtMostOneLive(t)'
BY TurnAfter DEF AtMostOneLive, IsLive

\* When no turn is live, starting one leaves it the only one.
LEMMA FirstOne ==
  ASSUME TypeOK, NEW t \in Thread, NEW k \in Slot, NEW p, ~Busy(t),
         \A j \in Slot : turn'[t][j] = IF j = k THEN p ELSE turn[t][j]
  PROVE  AtMostOneLive(t)'
BY DEF AtMostOneLive, IsLive, Busy

\* An excuse is never withdrawn.
LEMMA ExcuseAfter ==
  ASSUME TypeOK, NEW t \in Thread, NEW why, Excuse(t, why)
  PROVE  /\ \A u \in Thread : u # t => excuse'[u] = excuse[u]
         /\ excuse'[t] = {} => excuse[t] = {} /\ why = {}
BY DEF TypeOK, Excuse

\* Starting a turn "claimed" or "running", by a claim or by the owner.
LEMMA StartSolo ==
  ASSUME TypeOK, SoloInv, NEW t \in Thread, NEW k \in Slot, NEW p \in {"claimed", "running"},
         turn[t][k] \in {"none", "ended"},
         \A u \in Thread : \A j \in Slot :
           turn'[u][j] = IF u = t /\ j = k THEN p ELSE turn[u][j],
         Excuse(t, IF Busy(t) THEN {"crowded"} ELSE {}),
         UNCHANGED <<created, draftId, held>>
  PROVE  SoloInv'
<1> SUFFICES ASSUME NEW u \in Thread, excuse'[u] = {} PROVE Solo(u)'
  BY SoloPartsNext
<1>1. excuse[u] = {} /\ Solo(u) /\ (u = t => ~Busy(t))
  BY ExcuseAfter, SoloParts
<1>2. CASE u # t
  BY <1>1, <1>2, SoloFrame
<1>3. CASE u = t
  <2>1. AtMostOneLive(t)'
    BY <1>1, <1>3, FirstOne
  <2>2. Kept(t)'
    BY <1>1, <1>3 DEF Solo, Kept
  <2>3. NotYet(t)'
    BY <1>1, <1>3 DEF Solo, NotYet
  <2>4. QED
    BY <1>1, <1>3, <2>1, <2>2, <2>3 DEF Solo
<1>4. QED
  BY <1>2, <1>3

\* A step of the live turn k of thread t leaves every other thread alone, and
\* its own thread Solo when it keeps the draft of the thread accounted for.
LEMMA MoveSolo ==
  ASSUME TypeOK, SoloInv, NEW t \in Thread, NEW k \in Slot, NEW p,
         IsLive(t, k), SetPhase(t, k, p),
         \A u \in Thread : u # t =>
           /\ created'[u] = created[u]
           /\ draftId'[u] = draftId[u]
           /\ excuse'[u] = excuse[u]
           /\ \A j \in Slot : held'[u][j] = held[u][j],
         excuse'[t] = {} =>
           /\ excuse[t] = {}
           /\ Solo(t) => created'[t] <= 1 /\ Kept(t)' /\ NotYet(t)'
  PROVE  SoloInv'
<1> SUFFICES ASSUME NEW u \in Thread, excuse'[u] = {} PROVE Solo(u)'
  BY SoloPartsNext
<1>1. CASE u # t
  <2>1. Solo(u)
    BY <1>1, SoloParts
  <2>2. QED
    BY <1>1, <2>1, TurnAfter, SoloFrame
<1>2. CASE u = t
  <2>1. Solo(t)
    BY <1>2, SoloParts
  <2>2. AtMostOneLive(t)'
    BY <2>1, StillOne DEF Solo
  <2>3. QED
    BY <1>2, <2>1, <2>2 DEF Solo
<1>3. QED
  BY <1>1, <1>2

\* Every step of an unexcused thread keeps its one turn and its one draft.
LEMMA StepSolo == IndInv /\ [Next]_vars => SoloInv'
<1> SUFFICES ASSUME IndInv, [Next]_vars PROVE SoloInv'
  OBVIOUS
<1>0. TypeOK /\ FreshInv /\ IdInv /\ SoloInv
  BY DEF IndInv
<1> USE DEF ledger, gmail
<1>1. ASSUME NEW t \in Thread, ClaimDraft(t), UNCHANGED <<draftId, held, created>>
      PROVE  SoloInv'
  <2>1. turn[t][attempts[t] + 1] = "none"
    BY <1>0, <1>1, ClaimAfter DEF FreshInv, TypeOK
  <2>2. Excuse(t, IF Busy(t) THEN {"crowded"} ELSE {})
    BY <1>1 DEF ClaimDraft
  <2>3. QED
    BY <1>0, <1>1, <2>1, <2>2, ClaimAfter, StartSolo
<1>2. ASSUME NEW t \in Thread, RetryRow(t) PROVE SoloInv'
  <2>1. CASE ClaimDraft(t)
    BY <1>1, <1>2, <2>1 DEF RetryRow
  <2>2. CASE UNCHANGED <<turn, excuse>>
    BY <1>0, <1>2, <2>2 DEF RetryRow, SoloInv, IsLive
  <2>3. QED
    BY <1>2, <2>1, <2>2 DEF RetryRow
<1>3. ASSUME NEW t \in Thread, OwnerAsks(t) PROVE SoloInv'
  <2>1. /\ 0 \in Slot
        /\ turn[t][0] \in {"none", "ended"}
        /\ SetPhase(t, 0, "running")
        /\ Excuse(t, IF Busy(t) THEN {"crowded"} ELSE {})
        /\ UNCHANGED <<created, draftId, held>>
    BY <1>3, DraftAssumption DEF OwnerAsks, Slot
  <2>2. QED
    BY <1>0, <2>1, TurnAfter, StartSolo
<1>4. ASSUME NEW t \in Thread, NEW k \in Slot, WakeDraft(t, k) \/ EndTurn(t, k)
      PROVE  SoloInv'
  <2>1. /\ turn[t][k] \in {"claimed", "running"}
        /\ SetPhase(t, k, "running") \/ SetPhase(t, k, "ended")
        /\ UNCHANGED <<created, draftId, held, excuse>>
    BY <1>4 DEF WakeDraft, EndTurn
  <2>2. IsLive(t, k) /\ turn[t][k] # "made"
    BY <2>1 DEF IsLive, Live
  <2>3. ASSUME Solo(t) PROVE created'[t] <= 1 /\ Kept(t)' /\ NotYet(t)'
    BY <1>0, <2>1, <2>2, <2>3, TurnAfter DEF Solo, Kept, NotYet
  <2>4. QED
    BY <1>0, <2>1, <2>2, <2>3, MoveSolo
<1>5. ASSUME NEW t \in Thread, NEW k \in Slot, ToolStep(t, k) PROVE SoloInv'
  <2>1. CASE CallWithProbe(t, k)
    <3>1. /\ turn[t][k] = "running"
          /\ SetPhase(t, k, "made") /\ SetHeld(t, k, Probe)
          /\ UNCHANGED <<created, draftId, excuse>>
      BY <2>1 DEF CallWithProbe
    <3>2. IsLive(t, k) /\ turn[t][k] # "made"
      BY <3>1 DEF IsLive, Live
    <3>3. ASSUME Solo(t) PROVE created'[t] <= 1 /\ Kept(t)' /\ NotYet(t)'
      BY <1>0, <3>1, <3>2, <3>3, TurnAfter, NothingInFlight DEF Solo, Kept, NotYet
    <3>4. QED
      BY <1>0, <3>1, <3>2, <3>3, HeldAfter, MoveSolo
  <2>2. CASE CallWithWriter(t, k)
    <3>1. /\ turn[t][k] = "running"
          /\ SetPhase(t, k, IF draftId[t] = NoDraft THEN "creating" ELSE "updating")
          /\ SetHeld(t, k, draftId[t])
          /\ UNCHANGED <<created, draftId, excuse>>
      BY <2>2 DEF CallWithWriter
    <3>2. IsLive(t, k) /\ turn[t][k] # "made"
      BY <3>1 DEF IsLive, Live
    <3>3. ASSUME Solo(t) PROVE created'[t] <= 1 /\ Kept(t)' /\ NotYet(t)'
      BY <1>0, <3>1, <3>2, <3>3, TurnAfter, NothingInFlight DEF Solo, Kept, NotYet
    <3>4. QED
      BY <1>0, <3>1, <3>2, <3>3, HeldAfter, MoveSolo
  <2>3. CASE CallBlind(t, k)
    <3>1. /\ turn[t][k] = "running"
          /\ SetPhase(t, k, "creating") /\ SetHeld(t, k, NoDraft)
          /\ Excuse(t, IF draftId[t] = NoDraft THEN {} ELSE {"blind"})
          /\ UNCHANGED <<created, draftId>>
      BY <2>3 DEF CallBlind
    <3>2. IsLive(t, k) /\ turn[t][k] # "made"
      BY <3>1 DEF IsLive, Live
    <3>3. ASSUME Solo(t), excuse'[t] = {} PROVE created'[t] <= 1 /\ Kept(t)' /\ NotYet(t)'
      <4>1. draftId[t] = NoDraft
        BY <1>0, <3>1, <3>3, ExcuseAfter
      <4>2. QED
        BY <1>0, <3>1, <3>2, <3>3, <4>1, TurnAfter, NothingInFlight DEF Solo, Kept, NotYet
    <3>4. QED
      BY <1>0, <3>1, <3>2, <3>3, HeldAfter, ExcuseAfter, MoveSolo
  <2>4. CASE CreateDraft(t, k)
    <3>1. /\ turn[t][k] = "creating"
          /\ created' = [created EXCEPT ![t] = created[t] + 1]
          /\ UNCHANGED draftId
      BY <2>4 DEF CreateDraft
    <3>2. IsLive(t, k)
      BY <3>1 DEF IsLive, Live, InCall
    <3>3. CASE SetPhase(t, k, "made") /\ SetHeld(t, k, created[t] + 1) /\ UNCHANGED excuse
      <4>1. ASSUME Solo(t) PROVE created'[t] <= 1 /\ Kept(t)' /\ NotYet(t)'
        <5>1. created[t] = 0 /\ created'[t] = 1
          BY <1>0, <3>1, <4>1 DEF Solo, NotYet, TypeOK
        <5>2. turn'[t][k] = "made" /\ held'[t][k] = 1
          BY <1>0, <3>3, <5>1, TurnAfter, HeldAfter
        <5>3. \A j \in Slot : turn'[t][j] # "creating"
          <6>1. AtMostOneLive(t)'
            BY <1>0, <3>2, <3>3, <4>1, StillOne DEF Solo
          <6>2. QED
            BY <5>2, <6>1 DEF AtMostOneLive, IsLive, Live, InCall
        <5>4. QED
          BY <5>1, <5>2, <5>3 DEF Kept, NotYet
      <4>2. QED
        <5>1. \A u \in Thread : u # t =>
                /\ created'[u] = created[u]
                /\ draftId'[u] = draftId[u]
                /\ excuse'[u] = excuse[u]
                /\ \A j \in Slot : held'[u][j] = held[u][j]
          BY <1>0, <3>1, <3>3, HeldAfter DEF TypeOK
        <5>2. QED
          BY <1>0, <3>2, <3>3, <4>1, <5>1, MoveSolo
    <3>4. CASE SetPhase(t, k, "running") /\ Excuse(t, {"unrecorded"}) /\ UNCHANGED held
      <4>1. excuse'[t] # {} /\ \A u \in Thread : u # t => excuse'[u] = excuse[u]
        BY <1>0, <3>4, ExcuseAfter
      <4>2. QED
        BY <1>0, <3>1, <3>2, <3>4, <4>1, MoveSolo DEF TypeOK
    <3>5. QED
      BY <2>4, <3>3, <3>4 DEF CreateDraft
  <2>5. CASE UpdateDraft(t, k)
    <3>1. /\ turn[t][k] = "updating" /\ SetPhase(t, k, "made")
          /\ UNCHANGED <<created, draftId, held, excuse>>
      BY <2>5 DEF UpdateDraft
    <3>2. IsLive(t, k) /\ turn[t][k] # "made"
      BY <3>1 DEF IsLive, Live, InCall
    <3>3. ASSUME Solo(t) PROVE created'[t] <= 1 /\ Kept(t)' /\ NotYet(t)'
      BY <1>0, <3>1, <3>2, <3>3, TurnAfter DEF Solo, Kept, NotYet
    <3>4. QED
      BY <1>0, <3>1, <3>2, <3>3, MoveSolo
  <2>6. CASE GmailFails(t, k)
    <3>1. /\ turn[t][k] \in {"creating", "updating"}
          /\ SetPhase(t, k, "running") /\ SetHeld(t, k, NoDraft)
          /\ UNCHANGED <<created, draftId, excuse>>
      BY <2>6 DEF GmailFails
    <3>2. IsLive(t, k) /\ turn[t][k] # "made"
      BY <3>1 DEF IsLive, Live, InCall
    <3>3. ASSUME Solo(t) PROVE created'[t] <= 1 /\ Kept(t)' /\ NotYet(t)'
      BY <1>0, <3>1, <3>2, <3>3, TurnAfter, HeldAfter DEF Solo, Kept, NotYet
    <3>4. QED
      BY <1>0, <3>1, <3>2, <3>3, HeldAfter, MoveSolo
  <2>7. CASE RecordDraft(t, k)
    <3>1. /\ turn[t][k] = "made" /\ SetPhase(t, k, "running") /\ SetHeld(t, k, NoDraft)
          /\ UNCHANGED created
      BY <2>7 DEF RecordDraft
    <3>2. IsLive(t, k)
      BY <3>1 DEF IsLive, Live, InCall
    <3>3. held[t][k] # NoDraft
      BY <1>0, <3>1, DraftAssumption DEF IdInv, TypeOK
    <3>4. CASE draftId' = [draftId EXCEPT ![t] = held[t][k]] /\ UNCHANGED excuse
      <4>1. draftId'[t] # NoDraft /\ \A u \in Thread : u # t => draftId'[u] = draftId[u]
        BY <1>0, <3>3, <3>4 DEF TypeOK
      <4>2. ASSUME Solo(t) PROVE created'[t] <= 1 /\ Kept(t)' /\ NotYet(t)'
        BY <1>0, <3>1, <4>1, <4>2, TurnAfter DEF Solo, Kept, NotYet
      <4>3. QED
        BY <1>0, <3>1, <3>2, <3>4, <4>1, <4>2, HeldAfter, MoveSolo
    <3>5. CASE Excuse(t, IF Unrecorded(t, k) THEN {"unrecorded"} ELSE {}) /\ UNCHANGED draftId
      <4>1. ASSUME Solo(t), excuse'[t] = {} PROVE created'[t] <= 1 /\ Kept(t)' /\ NotYet(t)'
        <5>1. ~Unrecorded(t, k)
          BY <1>0, <3>5, <4>1, ExcuseAfter
        <5>2. held[t][k] = Probe \/ draftId[t] # NoDraft
          BY <3>1, <3>3, <5>1 DEF Unrecorded
        <5>3. ASSUME created[t] = 1, draftId[t] = NoDraft PROVE FALSE
          <6>1. PICK j \in Slot : turn[t][j] = "made" /\ held[t][j] = 1
            BY <4>1, <5>3 DEF Solo, Kept
          <6>2. j = k
            BY <3>2, <4>1, <6>1 DEF Solo, AtMostOneLive, IsLive, Live, InCall
          <6>3. QED
            BY <5>2, <5>3, <6>1, <6>2, DraftAssumption
        <5>4. QED
          BY <1>0, <3>1, <3>5, <4>1, <5>3, TurnAfter DEF Solo, Kept, NotYet
      <4>2. QED
        BY <1>0, <3>1, <3>2, <3>5, <4>1, HeldAfter, ExcuseAfter, MoveSolo
    <3>6. QED
      BY <2>7, <3>4, <3>5 DEF RecordDraft
  <2>8. QED
    BY <1>5, <2>1, <2>2, <2>3, <2>4, <2>5, <2>6, <2>7 DEF ToolStep
<1>6. CASE Crash
  <2>1. SUFFICES ASSUME NEW t \in Thread, excuse'[t] = {} PROVE Solo(t)'
    BY SoloPartsNext
  <2>2. excuse[t] = {} /\ \A k \in Slot : ~Unrecorded(t, k)
    BY <1>6, <2>1 DEF Crash
  <2>3. Solo(t)
    BY <1>0, <2>2, SoloParts
  <2>4. UNCHANGED <<created, draftId>> /\ \A k \in Slot : turn'[t][k] \notin Live
    BY <1>6 DEF Crash, IsLive, Live, InCall
  <2>5. ~(created[t] = 1 /\ draftId[t] = NoDraft)
    BY <2>2, <2>3, DraftAssumption DEF Solo, Kept, Unrecorded
  <2>6. QED
    BY <2>3, <2>4, <2>5 DEF Solo, AtMostOneLive, Kept, NotYet, IsLive, Live, InCall
<1>7. ASSUME UNCHANGED <<turn, held, created, draftId, excuse>> PROVE SoloInv'
  BY <1>0, <1>7 DEF SoloInv, IsLive
<1>8. QED
  BY <1>1, <1>2, <1>3, <1>4, <1>5, <1>6, <1>7
  DEF Next, DedupWake, OwnerTakesDraft, ListUnfulfilled, PassFails, Tick, vars

\* The conjunction of the parts is inductive.
LEMMA Inductive == IndInv /\ [Next]_vars => IndInv'
BY StepType, StepGrant, StepFresh, StepId, StepSolo DEF IndInv

\* A thread gets a second draft only after one of the three events an excuse
\* stands for, for any number of threads, attempts, crashes and faults.
THEOREM DuplicatesHaveExcuse == Spec => []DuplicatesExplained
<1>1. Init => IndInv
  BY InitType, InitGrant, InitId, InitSolo DEF IndInv
<1>2. IndInv => DuplicatesExplained
  <2>1. SUFFICES ASSUME IndInv, NEW t \in Thread, created[t] > 1, excuse[t] = {}
                 PROVE  FALSE
    BY DEF DuplicatesExplained
  <2>2. created[t] \in Nat /\ created[t] <= 1
    BY <2>1 DEF IndInv, SoloInv, TypeOK
  <2>3. QED
    BY <2>1, <2>2
<1>3. QED
  BY <1>1, <1>2, Inductive, PTL DEF Spec

-----------------------------------------------------------------------------
(* The table implements DraftLease. *)

\* The initial states are initial states of the lease.
LEMMA InitLease == Init => Lease!Init
BY DEF Init, Lease!Init

\* Every step maps to a grant, a close or a tick of the lease, or to a stutter.
LEMMA StepLease == TypeOK /\ IdInv /\ [Next]_vars => [Lease!Next]_Lease!leaseVars
<1> SUFFICES ASSUME TypeOK, IdInv, [Next]_vars PROVE [Lease!Next]_Lease!leaseVars
  OBVIOUS
<1> USE DEF ledger
<1>1. ASSUME NEW t \in Thread, ClaimDraft(t), UNCHANGED <<now, draftId>>
      PROVE  Lease!Grant(t)
  BY <1>1, DraftAssumption DEF TypeOK, ClaimDraft, Claimable, Lease!Grant
<1>2. ASSUME NEW t \in Thread, NEW k \in Slot, RecordDraft(t, k)
      PROVE  Lease!Close(t) \/ UNCHANGED Lease!leaseVars
  <2>1. UNCHANGED <<now, attempts, lastAttempt>>
    BY <1>2 DEF RecordDraft
  <2>2. CASE UNCHANGED draftId
    BY <2>1, <2>2 DEF Lease!leaseVars
  <2>3. CASE draftId' = [draftId EXCEPT ![t] = held[t][k]]
    <3>1. held[t][k] # NoDraft
      BY <1>2, DraftAssumption DEF RecordDraft, IdInv, TypeOK
    <3>2. {u \in Thread : draftId'[u] # NoDraft} = {u \in Thread : draftId[u] # NoDraft} \cup {t}
      BY <2>3, <3>1 DEF TypeOK
    <3>3. QED
      BY <2>1, <3>2 DEF Lease!Close
  <2>4. QED
    BY <1>2, <2>2, <2>3 DEF RecordDraft
<1>3. ASSUME NEW t \in Thread, RetryRow(t)
      PROVE  Lease!Grant(t) \/ UNCHANGED Lease!leaseVars
  BY <1>1, <1>3 DEF RetryRow, Lease!leaseVars
<1>4. CASE Tick
  <2>1. now' = now + 1 /\ UNCHANGED attempts /\ UNCHANGED lastAttempt /\ UNCHANGED draftId
    BY <1>4 DEF Tick
  <2>2. {t \in Thread : draftId'[t] # NoDraft} = {t \in Thread : draftId[t] # NoDraft}
    BY <2>1
  <2>3. Lease!Pass
    BY <2>1, <2>2 DEF Lease!Pass
  <2>4. QED
    BY <2>3 DEF Lease!Next
<1>5. ASSUME NEW t \in Thread, NEW k \in Slot, ToolStep(t, k)
      PROVE  Lease!Close(t) \/ UNCHANGED Lease!leaseVars
  BY <1>2, <1>5 DEF ToolStep, CallWithProbe, CallWithWriter, CallBlind,
                    CreateDraft, UpdateDraft, GmailFails, Lease!leaseVars
<1>6. ASSUME NEW t \in Thread, NEW k \in Slot, WakeDraft(t, k) \/ EndTurn(t, k)
      PROVE  UNCHANGED Lease!leaseVars
  BY <1>6 DEF WakeDraft, EndTurn, Lease!leaseVars
<1>7. ASSUME NEW t \in Thread, OwnerAsks(t) \/ OwnerTakesDraft(t)
      PROVE  UNCHANGED Lease!leaseVars
  BY <1>7 DEF OwnerAsks, OwnerTakesDraft, Lease!leaseVars
<1>8. CASE ListUnfulfilled \/ PassFails \/ Crash \/ UNCHANGED vars
  BY <1>8 DEF ListUnfulfilled, PassFails, Crash, vars, Lease!leaseVars
<1>9. QED
  BY <1>1, <1>3, <1>4, <1>5, <1>6, <1>7, <1>8 DEF Next, DedupWake, Lease!Next

\* Every behaviour of the table is one of DraftLease: the claims the three
\* dispatch paths win are leases of at least a window, at most MaxAttempts of
\* them, none after the thread got its draft; and a draft, once recorded, is
\* never forgotten.
THEOREM ImplementsLease == Spec => LeaseSpec
<1>1. Init => TypeOK /\ IdInv /\ Lease!Init
  BY InitType, InitId, InitLease
<1>2. TypeOK /\ IdInv /\ [Next]_vars =>
        (TypeOK /\ IdInv)' /\ [Lease!Next]_Lease!leaseVars
  BY StepType, StepId, StepLease
<1>3. QED
  BY <1>1, <1>2, PTL DEF Spec, LeaseSpec, Lease!Spec
=============================================================================
