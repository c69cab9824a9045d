----------------------------- MODULE OwnerProofs -----------------------------
(***************************************************************************)
(* Proofs about what an owner does and asks: the accounts that are added   *)
(* and dropped (AccountSet), the turns that answer a message (Turns), the  *)
(* mailboxes that are connected (ConnectFlow) and the rollup of unread     *)
(* mail (Rollup).  Each part has an inductive invariant of its own.        *)
(***************************************************************************)
EXTENDS AccountSet, ConnectFlow, Turns, Rollup, FiniteSetTheorems, WellFoundedInduction, TLAPS

\* The least-number principle, for a set of numbers.
LEMMA LeastNumber ==
  ASSUME NEW S \in SUBSET Nat, S # {}
  PROVE  \E n \in S : \A m \in S : n <= m
<1> DEFINE R == OpToRel(<, Nat)
<1>1. IsWellFoundedOn(R, Nat)
  BY NatLessThanWellFounded, Zenon
<1>2. ASSUME NEW m \in Nat, NEW n \in Nat, m < n PROVE <<m, n>> \in R
  BY <1>2, SMT DEF OpToRel
<1> HIDE DEF R
<1>3. PICK n \in S : \A m \in S : <<m, n>> \notin R
  BY <1>1, WFMin
<1>4. ASSUME NEW m \in S PROVE n <= m
  <2>1. ~(m < n)
    BY <1>2, <1>3
  <2>2. QED
    BY <2>1, SMT
<1>5. QED
  BY <1>4

-----------------------------------------------------------------------------
(* The hooks of a turn: Turns. *)

\* Every draft turn that began has a place of its own in the order of notes, and
\* the set is never fuller than it may be.
PlaceInv ==
  /\ \A d \in Draft : IF at[d] = "idle" THEN d \notin guarded ELSE rank[d] \in 1 .. noted
  /\ \A d, e \in Draft : at[d] # "idle" /\ at[e] # "idle" /\ rank[d] = rank[e] => d = e
  /\ IsFiniteSet(guarded) /\ Cardinality(guarded) <= Max

\* The sender that a message's turn will be bound to, or is, is its author unless
\* something came in between.
BoundInv ==
  /\ \A t \in Signed :
       /\ at[t] = "sent"  => last = Author[t] \/ t \in between
       /\ at[t] = "going" => bound[SessionOf[t]] = Author[t] \/ t \in between
  /\ \A t \in Turn : acted[t] # NoSender => at[t] = "going"

TurnsInv == TurnsTypeOK /\ PlaceInv /\ BoundInv /\ DraftStaysGuarded /\ ActsForItsAuthor

LEMMA TurnsInitInv == TurnsInit => TurnsInv
<1> SUFFICES ASSUME TurnsInit PROVE TurnsInv
  OBVIOUS
<1> USE TurnsAssumption DEF TurnsAssumption, TurnsInit, Turn, Signed
<1>1. TurnsTypeOK
  BY DEF TurnsTypeOK
<1>2. PlaceInv
  BY FS_EmptySet DEF PlaceInv
<1>3. BoundInv /\ DraftStaysGuarded /\ ActsForItsAuthor
  BY DEF BoundInv, DraftStaysGuarded, ActsForItsAuthor, Going
<1>4. QED
  BY <1>1, <1>2, <1>3 DEF TurnsInv

\* What Evict leaves of a set of noted turns: all of it, or all but the first
\* noted, after which Max others were noted.
LEMMA EvictsTheFirst ==
  ASSUME NEW turns \in SUBSET Draft, NEW order \in [Draft -> Nat], NEW n \in Nat,
         IsFiniteSet(turns), Cardinality(turns) <= Max + 1,
         \A d \in turns : order[d] \in 1 .. n,
         \A d, e \in turns : order[d] = order[e] => d = e
  PROVE  /\ Evict(turns, order) \subseteq turns
         /\ IsFiniteSet(Evict(turns, order)) /\ Cardinality(Evict(turns, order)) <= Max
         /\ \A d \in turns \ Evict(turns, order) : n - order[d] >= Max
<1> USE TurnsAssumption DEF TurnsAssumption
<1>1. Cardinality(turns) \in Nat
  BY FS_CardinalityType
<1>2. CASE ~(Cardinality(turns) > Max)
  BY <1>1, <1>2 DEF Evict
<1>3. CASE Cardinality(turns) > Max
  <2> DEFINE kept == Evict(turns, order)
  <2>1. kept = {d \in turns : \E e \in turns : order[e] < order[d]}
    BY <1>3 DEF Evict
  <2>2. PICK f \in turns : \A d \in turns : order[f] <= order[d]
    <3> DEFINE S == {order[d] : d \in turns}
    <3>1. S \in SUBSET Nat /\ S # {}
      BY <1>1, <1>3, FS_EmptySet
    <3>2. PICK m \in S : \A k \in S : m <= k
      BY <3>1, LeastNumber
    <3>3. QED
      BY <3>2
  <2>3. kept = turns \ {f}
    <3>1. \A d \in turns \ {f} : order[f] < order[d]
      BY <2>2
    <3>2. QED
      BY <2>1, <2>2, <3>1
  <2> HIDE DEF kept
  <2>4. IsFiniteSet(kept) /\ Cardinality(kept) = Max
    <3>1. /\ IsFiniteSet(turns \ {f})
          /\ Cardinality(turns \ {f}) = IF f \in turns THEN Cardinality(turns) - 1 ELSE Cardinality(turns)
      BY FS_RemoveElement, Zenon
    <3>2. QED
      BY <1>1, <1>3, <2>2, <2>3, <3>1
  <2>5. n - order[f] >= Max
    <3> DEFINE later == order[f] + 1 .. n
               g == [d \in kept |-> order[d]]
    <3>1. \A d \in kept : order[d] \in later
      BY <2>2, <2>3
    <3>2. g \in Injection(kept, later)
      BY <2>3, <3>1 DEF Injection, IsInjective
    <3>3. order[f] + 1 \in Int /\ n \in Int
      OBVIOUS
    <3>4. /\ IsFiniteSet(later)
          /\ Cardinality(later) = IF order[f] + 1 > n THEN 0 ELSE n - (order[f] + 1) + 1
      BY <3>3, FS_Interval, Zenon
    <3> HIDE DEF g, later
    <3>5. Max <= Cardinality(later)
      BY <2>4, <3>2, <3>4, FS_Injection
    <3>6. QED
      BY <3>4, <3>5
  <2>6. QED
    BY <2>3, <2>4, <2>5 DEF kept
<1>4. QED
  BY <1>2, <1>3

-----------------------------------------------------------------------------
LEMMA DispatchInv == ASSUME TurnsInv, NEW t \in Chat, Dispatch(t) PROVE TurnsInv'
<1> USE TurnsAssumption DEF TurnsAssumption, TurnsInv, Turn, Signed, guard
<1>1. TurnsTypeOK'
  BY DEF Dispatch, TurnsTypeOK
<1>2. /\ at' = [at EXCEPT ![t] = "sent"] /\ at[t] = "idle" /\ t \in Turn /\ t \notin Draft
      /\ UNCHANGED <<bound, guard, acted>>
  BY DEF Dispatch
<1>3. PlaceInv' /\ DraftStaysGuarded'
  BY <1>2 DEF PlaceInv, DraftStaysGuarded, Going, Newer, TurnsTypeOK
<1>4. between \subseteq between'
  BY DEF Dispatch
<1>5. BoundInv'
  <2>1. ASSUME NEW u \in Signed, at'[u] = "sent" PROVE last' = Author[u] \/ u \in between'
    BY <2>1 DEF Dispatch, BoundInv, TurnsTypeOK
  <2>2. ASSUME NEW u \in Signed, at'[u] = "going"
        PROVE  bound'[SessionOf[u]] = Author[u] \/ u \in between'
    BY <1>2, <1>4, <2>2 DEF BoundInv, TurnsTypeOK
  <2>3. QED
    BY <1>2, <2>1, <2>2 DEF BoundInv, TurnsTypeOK
<1>6. ActsForItsAuthor'
  BY <1>2, <1>4 DEF ActsForItsAuthor, Newer
<1>7. QED
  BY <1>1, <1>3, <1>5, <1>6

\* What binding t to its session does: whoever else goes on in that session is
\* counted among those that something came between.
LEMMA BindKeeps ==
  ASSUME TurnsInv, NEW t \in Turn, at[t] \in {"idle", "sent"}, t \in Chat <=> at[t] = "sent",
         Bind(t), UNCHANGED <<last, acted>>,
         between' = between \cup {u \in Going : SessionOf[u] = SessionOf[t]}
  PROVE  /\ BoundInv'
         /\ at' \in [Turn -> {"idle", "sent", "going", "over"}]
         /\ bound' \in [Session -> Sender \cup {NoSender}] /\ between' \subseteq Turn
<1> USE TurnsAssumption DEF TurnsAssumption, TurnsInv, Turn, Signed
<1>1. /\ at' = [at EXCEPT ![t] = "going"] /\ SessionOf[t] \in Session
      /\ \A s \in Session \ {SessionOf[t]} : bound'[s] = bound[s]
      /\ last # NoSender => bound'[SessionOf[t]] = last
  BY DEF Bind, TurnsTypeOK
<1>2. /\ at' \in [Turn -> {"idle", "sent", "going", "over"}]
      /\ bound' \in [Session -> Sender \cup {NoSender}] /\ between' \subseteq Turn
  BY DEF Bind, TurnsTypeOK, Going
<1>3. ASSUME NEW u \in Signed, at'[u] = "going"
      PROVE  bound'[SessionOf[u]] = Author[u] \/ u \in between'
  <2>1. CASE u = t
    <3>1. last = Author[u] \/ u \in between
      BY <2>1 DEF BoundInv
    <3>2. Author[u] # NoSender
      OBVIOUS
    <3>3. QED
      BY <1>1, <2>1, <3>1, <3>2
  <2>2. CASE u # t
    <3>1. at[u] = "going"
      BY <1>1, <1>3, <2>2 DEF TurnsTypeOK
    <3>2. bound[SessionOf[u]] = Author[u] \/ u \in between
      BY <3>1 DEF BoundInv
    <3>3. SessionOf[u] = SessionOf[t] => u \in between'
      BY <3>1 DEF Going
    <3>4. QED
      BY <1>1, <3>2, <3>3
  <2>3. QED
    BY <2>1, <2>2
<1>4. QED
  BY <1>1, <1>2, <1>3 DEF BoundInv, TurnsTypeOK

LEMMA BeginTurnInv ==
  ASSUME TurnsInv, NEW t \in Chat \cup Unprompted, BeginTurn(t)
  PROVE  TurnsInv'
<1> USE TurnsAssumption DEF TurnsAssumption, TurnsInv, Turn, guard
<1>1. /\ t \in Turn /\ t \notin Draft /\ at[t] = (IF t \in Chat THEN "sent" ELSE "idle")
      /\ Bind(t) /\ between \subseteq between'
      /\ UNCHANGED <<last, guard, acted>>
      /\ between' = between \cup {u \in Going : SessionOf[u] = SessionOf[t]}
  BY DEF BeginTurn
<1>2. /\ BoundInv'
      /\ at' \in [Turn -> {"idle", "sent", "going", "over"}]
      /\ bound' \in [Session -> Sender \cup {NoSender}] /\ between' \subseteq Turn
  BY <1>1, BindKeeps
<1>3. TurnsTypeOK'
  BY <1>1, <1>2 DEF TurnsTypeOK
<1>4. \A d \in Draft : at'[d] = at[d]
  BY <1>1 DEF Bind, TurnsTypeOK
<1>5. PlaceInv' /\ DraftStaysGuarded'
  BY <1>1, <1>4 DEF PlaceInv, DraftStaysGuarded, Going, Newer
<1>6. ActsForItsAuthor'
  BY <1>1 DEF ActsForItsAuthor, Newer
<1>7. QED
  BY <1>2, <1>3, <1>5, <1>6

LEMMA BeginDraftInv == ASSUME TurnsInv, NEW t \in Draft, BeginDraft(t) PROVE TurnsInv'
<1> USE TurnsAssumption DEF TurnsAssumption, TurnsInv, Turn, guard
<1> DEFINE turns == guarded \cup {t}
<1>1. /\ t \in Turn /\ at[t] = "idle" /\ Bind(t) /\ between \subseteq between'
      /\ UNCHANGED <<last, acted>>
      /\ between' = between \cup {u \in Going : SessionOf[u] = SessionOf[t]}
      /\ noted' = noted + 1 /\ rank' = [rank EXCEPT ![t] = noted + 1]
      /\ guarded' = Evict(turns, rank')
  BY DEF BeginDraft
<1>2. /\ BoundInv'
      /\ at' \in [Turn -> {"idle", "sent", "going", "over"}]
      /\ bound' \in [Session -> Sender \cup {NoSender}] /\ between' \subseteq Turn
  BY <1>1, BindKeeps
<1>3. /\ rank' \in [Draft -> Nat] /\ noted' \in Nat /\ rank'[t] = noted'
      /\ \A d \in Draft \ {t} : rank'[d] = rank[d]
      /\ \A d \in Turn \ {t} : at'[d] = at[d]
      /\ at'[t] = "going"
  BY <1>1 DEF TurnsTypeOK, Bind
<1>4. /\ \A d \in Draft : at'[d] # "idle" => rank'[d] \in 1 .. noted'
      /\ \A d, e \in Draft : at'[d] # "idle" /\ at'[e] # "idle" /\ rank'[d] = rank'[e] => d = e
  <2>1. \A d \in Draft \ {t} : at'[d] # "idle" => rank'[d] \in 1 .. noted
    BY <1>3 DEF PlaceInv
  <2>2. noted \in Nat
    BY DEF TurnsTypeOK
  <2>3. QED
    BY <1>1, <1>3, <2>1, <2>2 DEF PlaceInv
<1>5. turns \subseteq Draft /\ \A d \in turns : at'[d] # "idle"
  BY <1>3 DEF TurnsTypeOK, PlaceInv
<1>6. IsFiniteSet(turns) /\ Cardinality(turns) <= Max + 1
  <2>1. Cardinality(guarded) \in Nat
    BY FS_CardinalityType DEF PlaceInv
  <2>2. /\ IsFiniteSet(turns)
        /\ Cardinality(turns) = IF t \in guarded THEN Cardinality(guarded) ELSE Cardinality(guarded) + 1
    BY FS_AddElement, Zenon DEF PlaceInv
  <2>3. QED
    BY <2>1, <2>2 DEF PlaceInv
<1>7. /\ guarded' \subseteq turns /\ IsFiniteSet(guarded') /\ Cardinality(guarded') <= Max
      /\ \A d \in turns \ guarded' : noted' - rank'[d] >= Max
  <2>1. /\ turns \in SUBSET Draft /\ \A d \in turns : rank'[d] \in 1 .. noted'
        /\ \A d, e \in turns : rank'[d] = rank'[e] => d = e
    BY <1>4, <1>5
  <2> HIDE DEF turns
  <2>2. /\ Evict(turns, rank') \subseteq turns
        /\ IsFiniteSet(Evict(turns, rank')) /\ Cardinality(Evict(turns, rank')) <= Max
        /\ \A d \in turns \ Evict(turns, rank') : noted' - rank'[d] >= Max
    BY <1>3, <1>6, <2>1, EvictsTheFirst
  <2>3. QED
    BY <1>1, <2>2
<1>8. TurnsTypeOK'
  BY <1>1, <1>2, <1>3, <1>5, <1>7 DEF TurnsTypeOK
<1>9. PlaceInv'
  BY <1>4, <1>5, <1>7 DEF PlaceInv
<1>10. DraftStaysGuarded'
  <2>1. ASSUME NEW d \in Draft, at'[d] = "going", d \notin guarded'
        PROVE  noted' - rank'[d] >= Max
    <3>1. CASE d \in turns
      BY <1>7, <2>1, <3>1
    <3>2. CASE d \notin turns
      <4>1. at[d] = "going" /\ d \notin guarded /\ rank'[d] = rank[d]
        BY <1>3, <2>1, <3>2
      <4>2. noted - rank[d] >= Max /\ noted \in Nat /\ rank[d] \in Nat
        BY <4>1 DEF DraftStaysGuarded, Going, Newer, TurnsTypeOK
      <4>3. QED
        BY <1>1, <4>1, <4>2
    <3>3. QED
      BY <3>1, <3>2
  <2>2. QED
    BY <2>1 DEF DraftStaysGuarded, Going, Newer
<1>11. ActsForItsAuthor'
  <2>1. ASSUME NEW u \in Draft, acted[u] # NoSender PROVE noted' - rank'[u] >= Max
    <3>1. u # t /\ rank'[u] = rank[u]
      BY <1>1, <1>3, <2>1 DEF BoundInv
    <3>2. noted - rank[u] >= Max /\ noted \in Nat /\ rank[u] \in Nat
      BY <2>1 DEF ActsForItsAuthor, Newer, TurnsTypeOK
    <3>3. QED
      BY <1>1, <3>1, <3>2
  <2>2. QED
    BY <1>1, <2>1 DEF ActsForItsAuthor, Newer
<1>12. QED
  BY <1>2, <1>8, <1>9, <1>10, <1>11

LEMMA ConnectToolInv == ASSUME TurnsInv, NEW t \in Turn, ConnectTool(t) PROVE TurnsInv'
<1> USE TurnsAssumption DEF TurnsAssumption, TurnsInv, guard
<1>1. /\ at[t] = "going" /\ t \notin guarded /\ bound[SessionOf[t]] \in Owner
      /\ acted' = [acted EXCEPT ![t] = bound[SessionOf[t]]]
      /\ UNCHANGED <<last, bound, at, guard, between>>
  BY DEF ConnectTool, MayConnect
<1>2. TurnsTypeOK'
  BY <1>1 DEF TurnsTypeOK
<1>3. PlaceInv' /\ DraftStaysGuarded'
  BY <1>1 DEF PlaceInv, DraftStaysGuarded, Going, Newer
<1>4. BoundInv'
  BY <1>1 DEF BoundInv, TurnsTypeOK
<1>5. ActsForItsAuthor'
  <2>1. ASSUME NEW u \in Turn, acted'[u] # NoSender, u # t
        PROVE  /\ acted'[u] \in Owner
               /\ u \in Signed => acted'[u] = Author[u] \/ u \in between'
               /\ u \in Draft => Newer(u)' >= Max
    BY <1>1, <2>1 DEF ActsForItsAuthor, Newer, TurnsTypeOK
  <2>2. /\ acted'[t] \in Owner
        /\ t \in Signed => acted'[t] = Author[t] \/ t \in between'
        /\ t \in Draft => Newer(t)' >= Max
    BY <1>1 DEF BoundInv, DraftStaysGuarded, Going, Newer, TurnsTypeOK
  <2>3. QED
    BY <2>1, <2>2 DEF ActsForItsAuthor
<1>6. QED
  BY <1>2, <1>3, <1>4, <1>5

LEMMA EndTurnInv == ASSUME TurnsInv, NEW t \in Turn, EndTurn(t) PROVE TurnsInv'
<1> USE TurnsAssumption DEF TurnsAssumption, TurnsInv, Turn
<1>1. /\ at[t] = "going" /\ at' = [at EXCEPT ![t] = IF t \in Draft THEN "over" ELSE "idle"]
      /\ guarded' \in {guarded, guarded \ {t}}
      /\ acted' = [acted EXCEPT ![t] = NoSender] /\ between' = between \ {t}
      /\ UNCHANGED <<last, bound, rank, noted>>
  BY DEF EndTurn
<1>2. TurnsTypeOK'
  BY <1>1 DEF TurnsTypeOK
<1>3. PlaceInv'
  <2>1. IsFiniteSet(guarded') /\ Cardinality(guarded') <= Max
    <3>1. Cardinality(guarded) \in Nat
      BY FS_CardinalityType DEF PlaceInv
    <3>2. /\ IsFiniteSet(guarded \ {t})
          /\ Cardinality(guarded \ {t}) = IF t \in guarded THEN Cardinality(guarded) - 1 ELSE Cardinality(guarded)
      BY FS_RemoveElement, Zenon DEF PlaceInv
    <3>3. Max \in Nat /\ Cardinality(guarded) <= Max /\ IsFiniteSet(guarded)
      BY DEF PlaceInv
    <3>4. Cardinality(guarded \ {t}) <= Max
      BY <3>1, <3>2, <3>3
    <3>5. guarded' = guarded \/ guarded' = guarded \ {t}
      BY <1>1
    <3>6. QED
      BY <3>2, <3>3, <3>4, <3>5, Zenon
  <2>2. \A d \in Draft : at'[d] = "idle" <=> at[d] = "idle"
    BY <1>1 DEF TurnsTypeOK
  <2>3. QED
    BY <1>1, <2>1, <2>2 DEF PlaceInv
<1>4. DraftStaysGuarded'
  BY <1>1 DEF DraftStaysGuarded, Going, Newer, TurnsTypeOK
<1>5. BoundInv'
  BY <1>1 DEF BoundInv, TurnsTypeOK
<1>6. ActsForItsAuthor'
  BY <1>1 DEF ActsForItsAuthor, Newer, TurnsTypeOK
<1>7. QED
  BY <1>2, <1>3, <1>4, <1>5, <1>6

LEMMA TurnsInvariant == TurnsSpec => []TurnsInv
<1>1. TurnsInv /\ [TurnsNext]_turnsVars => TurnsInv'
  <2> SUFFICES ASSUME TurnsInv, [TurnsNext]_turnsVars PROVE TurnsInv'
    OBVIOUS
  <2>1. CASE UNCHANGED turnsVars
    BY <2>1 DEF turnsVars, guard, TurnsInv, TurnsTypeOK, PlaceInv, BoundInv, DraftStaysGuarded,
       ActsForItsAuthor, Going, Newer, Signed, Turn
  <2>2. QED
    BY <2>1, DispatchInv, BeginTurnInv, BeginDraftInv, ConnectToolInv, EndTurnInv DEF TurnsNext
<1>2. QED
  BY TurnsInitInv, <1>1, PTL DEF TurnsSpec

\* Every reachable state of the hooks is well typed, and the set of guarded turns
\* holds at most Max.
THEOREM TurnsTypeCorrect == TurnsSpec => []TurnsTypeOK
<1>1. TurnsInv => TurnsTypeOK
  BY DEF TurnsInv
<1>2. QED
  BY <1>1, TurnsInvariant, PTL

\* A draft turn at work is restricted until Max later ones were noted, however
\* many turns were interrupted and left in the set (__init__.py 115-121).
THEOREM DraftsAreRestricted == TurnsSpec => []DraftStaysGuarded
<1>1. TurnsInv => DraftStaysGuarded
  BY DEF TurnsInv
<1>2. QED
  BY <1>1, TurnsInvariant, PTL

\* A connect tool acts for the owner whose message it answers, unless somebody
\* else's message or another turn of its session came in between, or the message
\* names nobody or the turn answers none (then it is whichever owner wrote last);
\* and in a restricted draft turn for nobody.  For every number of turns, sessions
\* and messages (__init__.py 176-200, 362-368, 395-416).
THEOREM ToolsActForAuthors == TurnsSpec => []ActsForItsAuthor
<1>1. TurnsInv => ActsForItsAuthor
  BY DEF TurnsInv
<1>2. QED
  BY <1>1, TurnsInvariant, PTL

-----------------------------------------------------------------------------
(* Connecting a mailbox: ConnectFlow. *)

\* Who began the consents that are pending or at work in a request, and that somebody
\* began the ones whose codes are at work; nothing is known of a consent that
\* nobody began.
BegunInv ==
  /\ \A c \in store : begun[c] \in Requester
  /\ \A c \in table : begun[c] = "dashboard"
  /\ \A c \in Consent : begun[c] = "nobody" => code[c] = "none" /\ taken[c] = 0 /\ age[c] = 0
  /\ \A s \in Requester :
       call[s].step = "exchange" /\ call[s].code \in Consent => begun[call[s].code] # "nobody"
  /\ \A r \in Request : request[r].step # "idle" =>
       /\ begun[request[r].state] = "dashboard"
       /\ request[r].code \in Consent => begun[request[r].code] # "nobody"

Reads(r, c) == request[r].step = "read" /\ request[r].state = c

\* Unless two requests had read its row at once, a verifier that was given out is
\* neither pending nor about to be given out, and one request reads it at most.
OnceInv ==
  \A c \in Consent \ overlap :
    /\ taken[c] <= 1
    /\ taken[c] = 1 => c \notin store \cup table /\ \A r \in Request : ~Reads(r, c)
    /\ \A r, q \in Request : Reads(r, c) /\ Reads(q, c) => r = q

\* The order in which pending connects were created is the order of their ages.
PendingInv ==
  /\ \A c \in store : place[c] <= count
  /\ \A c, d \in store : place[c] < place[d] => age[d] <= age[c]

SavedInv ==
  /\ \A c \in Consent : code[c] # "used" => saved[c] = <<>>
  /\ SavedForItsSender

FlowInv == FlowTypeOK /\ BegunInv /\ OnceInv /\ PendingInv /\ SavedInv

LEMMA FlowInitInv == FlowInit => FlowInv
<1> SUFFICES ASSUME FlowInit PROVE FlowInv
  OBVIOUS
<1> USE ConnectAssumption DEF ConnectAssumption, FlowInit, Idle
<1>1. FlowTypeOK
  BY DEF FlowTypeOK
<1>2. BegunInv /\ OnceInv /\ PendingInv
  BY DEF BegunInv, OnceInv, PendingInv, Reads
<1>3. SavedInv
  BY DEF SavedInv, SavedForItsSender
<1>4. QED
  BY <1>1, <1>2, <1>3 DEF FlowInv

\* What a new consent is, and that it disturbs nothing that is known of others.
LEMMA NewConsentKeeps ==
  ASSUME FlowInv, NEW c \in Consent, NEW by \in Requester \cup {"dashboard"}, NewConsent(c, by),
         UNCHANGED <<calls, history>>
  PROVE  /\ begun[c] = "nobody" /\ begun'[c] = by /\ taken[c] = 0 /\ age[c] = 0
         /\ c \notin store /\ c \notin table
         /\ \A o \in Consent \ {c} : begun'[o] = begun[o]
         /\ begun' \in [Consent -> Requester \cup {"dashboard", "nobody"}]
         /\ \A o \in Consent : begun'[o] = "nobody" => code[o] = "none" /\ taken[o] = 0 /\ age[o] = 0
         /\ \A s \in Requester :
              call[s].step = "exchange" /\ call[s].code \in Consent =>
                begun'[call[s].code] # "nobody"
         /\ \A r \in Request : request[r].step # "idle" =>
              /\ begun'[request[r].state] = "dashboard"
              /\ request[r].code \in Consent => begun'[request[r].code] # "nobody"
         /\ SavedInv'
<1> USE ConnectAssumption DEF ConnectAssumption, FlowInv
<1>1. /\ begun[c] = "nobody" /\ begun' = [begun EXCEPT ![c] = by]
      /\ UNCHANGED <<age, code, taken, overlap, saved, call, request>>
  BY DEF NewConsent, calls, history
<1>2. /\ begun'[c] = by /\ \A o \in Consent \ {c} : begun'[o] = begun[o]
      /\ begun' \in [Consent -> Requester \cup {"dashboard", "nobody"}]
  BY <1>1 DEF FlowTypeOK
<1>3. by # "nobody" /\ "nobody" \notin Requester
  OBVIOUS
<1>4. /\ taken[c] = 0 /\ age[c] = 0 /\ code[c] = "none" /\ c \notin store /\ c \notin table
  BY <1>1, <1>3 DEF BegunInv
<1>5. \A o \in Consent : begun'[o] = "nobody" => code[o] = "none" /\ taken[o] = 0 /\ age[o] = 0
  BY <1>2, <1>3 DEF BegunInv
<1>6. ASSUME NEW s \in Requester, call[s].step = "exchange", call[s].code \in Consent
      PROVE  begun'[call[s].code] # "nobody"
  BY <1>2, <1>3, <1>6 DEF BegunInv
<1>7. ASSUME NEW r \in Request, request[r].step # "idle"
      PROVE  /\ begun'[request[r].state] = "dashboard"
             /\ request[r].code \in Consent => begun'[request[r].code] # "nobody"
  <2>1. request[r].state \in Consent
    BY <1>7 DEF FlowTypeOK, Idle
  <2>2. QED
    BY <1>1, <1>2, <1>3, <1>7, <2>1 DEF BegunInv
<1>8. SavedInv'
  <2>1. saved[c] = <<>>
    BY <1>4 DEF SavedInv
  <2>2. \A o \in Consent : code'[o] # "used" => saved'[o] = <<>>
    BY <1>1 DEF SavedInv
  <2>3. ASSUME NEW o \in Consent
        PROVE  Len(saved'[o]) <= 1 /\ \A i \in DOMAIN saved'[o] : saved'[o][i] = begun'[o]
    BY <1>1, <1>2, <2>1, <2>3 DEF SavedInv, SavedForItsSender
  <2>4. QED
    BY <2>2, <2>3 DEF SavedInv, SavedForItsSender
<1>9. QED
  BY <1>1, <1>2, <1>4, <1>5, <1>6, <1>7, <1>8

LEMMA ChatStartInv ==
  ASSUME FlowInv, NEW s \in Requester, NEW c \in Consent, ChatStart(s, c) PROVE FlowInv'
<1> USE ConnectAssumption DEF ConnectAssumption, FlowInv
<1>1. /\ NewConsent(c, s) /\ UNCHANGED <<table, calls, history>>
      /\ store' = Sweep(store) \cup {c} /\ Sweep(store) \subseteq store
      /\ count' = count + 1 /\ place' = [place EXCEPT ![c] = count + 1]
      /\ UNCHANGED <<age, code, taken, overlap, saved, call, request>>
  BY DEF ChatStart, NewConsent, Sweep, calls, history
<1>2. /\ begun[c] = "nobody" /\ begun'[c] = s /\ taken[c] = 0 /\ age[c] = 0
      /\ c \notin store /\ c \notin table
      /\ \A o \in Consent \ {c} : begun'[o] = begun[o]
      /\ begun' \in [Consent -> Requester \cup {"dashboard", "nobody"}]
      /\ \A o \in Consent : begun'[o] = "nobody" => code[o] = "none" /\ taken[o] = 0 /\ age[o] = 0
      /\ \A q \in Requester :
           call[q].step = "exchange" /\ call[q].code \in Consent =>
             begun'[call[q].code] # "nobody"
      /\ \A r \in Request : request[r].step # "idle" =>
           /\ begun'[request[r].state] = "dashboard"
           /\ request[r].code \in Consent => begun'[request[r].code] # "nobody"
      /\ SavedInv'
  BY <1>1, NewConsentKeeps
<1>3. FlowTypeOK'
  <2>1. store' \subseteq Consent
    BY <1>1 DEF FlowTypeOK
  <2>2. place' \in [Consent -> Nat] /\ count' \in Nat
    BY <1>1 DEF FlowTypeOK
  <2>3. QED
    BY <1>1, <1>2, <2>1, <2>2 DEF FlowTypeOK
<1>4. BegunInv'
  BY <1>1, <1>2 DEF BegunInv, FlowTypeOK
<1>5. OnceInv'
  BY <1>1, <1>2 DEF OnceInv, Reads
<1>6. PendingInv'
  <2>1. place'[c] = count + 1 /\ \A o \in store : place'[o] = place[o] /\ place[o] \in Nat /\ age[o] \in Nat
    BY <1>1, <1>2 DEF FlowTypeOK
  <2>2. count \in Nat
    BY DEF FlowTypeOK
  <2>3. QED
    BY <1>1, <1>2, <2>1, <2>2 DEF PendingInv
<1>7. QED
  BY <1>2, <1>3, <1>4, <1>5, <1>6

LEMMA DashStartInv == ASSUME FlowInv, NEW c \in Consent, DashStart(c) PROVE FlowInv'
<1> USE ConnectAssumption DEF ConnectAssumption, FlowInv
<1>1. /\ NewConsent(c, "dashboard") /\ UNCHANGED <<chatStore, calls, history>>
      /\ table' \subseteq table \cup {c}
      /\ UNCHANGED <<store, place, count, age, code, taken, overlap, saved, call, request>>
  BY DEF DashStart, Young, NewConsent, chatStore, calls, history
<1>2. /\ begun[c] = "nobody" /\ begun'[c] = "dashboard" /\ taken[c] = 0 /\ age[c] = 0
      /\ c \notin store /\ c \notin table
      /\ \A o \in Consent \ {c} : begun'[o] = begun[o]
      /\ begun' \in [Consent -> Requester \cup {"dashboard", "nobody"}]
      /\ \A o \in Consent : begun'[o] = "nobody" => code[o] = "none" /\ taken[o] = 0 /\ age[o] = 0
      /\ \A q \in Requester :
           call[q].step = "exchange" /\ call[q].code \in Consent =>
             begun'[call[q].code] # "nobody"
      /\ \A r \in Request : request[r].step # "idle" =>
           /\ begun'[request[r].state] = "dashboard"
           /\ request[r].code \in Consent => begun'[request[r].code] # "nobody"
      /\ SavedInv'
  BY <1>1, NewConsentKeeps
<1>3. FlowTypeOK'
  BY <1>1, <1>2 DEF FlowTypeOK
<1>4. BegunInv'
  <2>1. \A o \in store' : begun'[o] \in Requester
    BY <1>1, <1>2 DEF BegunInv, FlowTypeOK
  <2>2. \A o \in table' : begun'[o] = "dashboard"
    BY <1>1, <1>2 DEF BegunInv, FlowTypeOK
  <2>3. QED
    BY <1>1, <1>2, <2>1, <2>2 DEF BegunInv
<1>5. OnceInv'
  BY <1>1, <1>2 DEF OnceInv, Reads
<1>6. PendingInv'
  BY <1>1 DEF PendingInv
<1>7. QED
  BY <1>2, <1>3, <1>4, <1>5, <1>6

LEMMA ApproveInv == ASSUME FlowInv, NEW c \in Consent, Approve(c) PROVE FlowInv'
<1> USE ConnectAssumption DEF ConnectAssumption, FlowInv
<1>1. /\ begun[c] # "nobody" /\ code[c] = "none" /\ code' = [code EXCEPT ![c] = "shown"]
      /\ UNCHANGED <<store, place, count, table, begun, age, call, request, taken, overlap, saved>>
  BY DEF Approve, pending, chatStore, calls, history
<1>2. FlowTypeOK'
  BY <1>1 DEF FlowTypeOK
<1>3. BegunInv'
  BY <1>1 DEF BegunInv, FlowTypeOK
<1>4. OnceInv' /\ PendingInv'
  BY <1>1 DEF OnceInv, PendingInv, Reads
<1>5. SavedInv'
  BY <1>1 DEF SavedInv, SavedForItsSender, FlowTypeOK
<1>6. QED
  BY <1>2, <1>3, <1>4, <1>5

LEMMA TickInv == ASSUME FlowInv, Tick PROVE FlowInv'
<1> USE ConnectAssumption DEF ConnectAssumption, FlowInv
<1>1. /\ age' = [c \in Consent |-> IF begun[c] = "nobody" \/ age[c] > TTL THEN age[c] ELSE age[c] + 1]
      /\ UNCHANGED <<store, place, count, table, begun, code, call, request, taken, overlap, saved>>
  BY DEF Tick, pending, chatStore, calls, history
<1>2. FlowTypeOK'
  <2>1. ASSUME NEW c \in Consent PROVE age'[c] \in 0 .. TTL + 1
    BY <1>1, <2>1 DEF FlowTypeOK
  <2>2. age' \in [Consent -> 0 .. TTL + 1]
    BY <1>1, <2>1
  <2>3. QED
    BY <1>1, <2>2 DEF FlowTypeOK
<1>3. BegunInv'
  BY <1>1 DEF BegunInv
<1>4. OnceInv'
  BY <1>1 DEF OnceInv, Reads
<1>5. PendingInv'
  <2>1. ASSUME NEW c \in store, NEW d \in store, place[c] < place[d] PROVE age'[d] <= age'[c]
    <3>1. age[d] <= age[c] /\ age[c] \in 0 .. TTL + 1 /\ age[d] \in 0 .. TTL + 1
      BY <2>1 DEF PendingInv, FlowTypeOK
    <3>2. begun[c] # "nobody" /\ begun[d] # "nobody" /\ c \in Consent /\ d \in Consent
      BY DEF BegunInv, FlowTypeOK
    <3>3. QED
      BY <1>1, <3>1, <3>2
  <2>2. QED
    BY <1>1, <2>1 DEF PendingInv
<1>6. SavedInv'
  BY <1>1 DEF SavedInv, SavedForItsSender
<1>7. QED
  BY <1>2, <1>3, <1>4, <1>5, <1>6

\* What a completion in the chat takes was pending.
LEMMA ChatTakeCases ==
  ASSUME FlowInv, NEW s \in Requester, NEW k \in Code, ChatTake(s, k)
  PROVE  /\ call[s] = Idle /\ (k \in Consent => begun[k] # "nobody") /\ store' \subseteq store
         /\ UNCHANGED <<place, count, table, begun, age, code, request, overlap, saved>>
         /\ \/ UNCHANGED <<call, taken>>
            \/ \E own \in store, named \in BOOLEAN : own \notin store' /\ Take(s, own, named, k)
<1> USE ConnectAssumption DEF ConnectAssumption, FlowInv
<1>1. /\ call[s] = Idle /\ k \in Pasted
      /\ UNCHANGED <<place, count, table, begun, age, code, request, overlap, saved>>
      /\ TakeForSender(s, k) \/ \E c \in Consent : TakeByState(s, c, k)
  BY DEF ChatTake, google
<1>2. Sweep(store) \subseteq store
  BY DEF Sweep
<1>3. ASSUME TakeForSender(s, k)
      PROVE  /\ store' \subseteq store
             /\ \/ UNCHANGED <<call, taken>>
                \/ \E own \in store : own \notin store' /\ Take(s, own, FALSE, k)
  <2>1. CASE NoneFound
    BY <1>2, <2>1 DEF NoneFound
  <2>2. ASSUME NEW own \in Newest(OwnedBy(s)), Take(s, own, FALSE, k), store' = Sweep(store) \ {own}
        PROVE  store' \subseteq store /\ own \in store /\ own \notin store'
    BY <1>2, <2>2 DEF OwnedBy, Newest
  <2>3. QED
    BY <1>3, <2>1, <2>2 DEF TakeForSender
<1>4. ASSUME NEW c \in Consent, TakeByState(s, c, k)
      PROVE  /\ store' \subseteq store
             /\ \/ UNCHANGED <<call, taken>>
                \/ c \in store /\ c \notin store' /\ Take(s, c, TRUE, k)
  BY <1>2, <1>4 DEF TakeByState, NoneFound
<1>5. k \in Consent => begun[k] # "nobody"
  BY <1>1 DEF Pasted, BegunInv
<1>6. QED
  BY <1>1, <1>3, <1>4, <1>5

LEMMA ChatTakeInv ==
  ASSUME FlowInv, NEW s \in Requester, NEW k \in Code, ChatTake(s, k) PROVE FlowInv'
<1> USE ConnectAssumption DEF ConnectAssumption, FlowInv
<1>1. /\ call[s] = Idle /\ (k \in Consent => begun[k] # "nobody") /\ store' \subseteq store
      /\ UNCHANGED <<place, count, table, begun, age, code, request, overlap, saved>>
  BY ChatTakeCases
<1>2. PendingInv'
  BY <1>1 DEF PendingInv
<1>3. SavedInv'
  BY <1>1 DEF SavedInv, SavedForItsSender
<1>4. CASE UNCHANGED <<call, taken>>
  <2>1. FlowTypeOK'
    BY <1>1, <1>4 DEF FlowTypeOK
  <2>2. BegunInv'
    BY <1>1, <1>4 DEF BegunInv
  <2>3. OnceInv'
    BY <1>1, <1>4 DEF OnceInv, Reads
  <2>4. QED
    BY <1>2, <1>3, <2>1, <2>2, <2>3
<1>5. ASSUME NEW own \in store, NEW named \in BOOLEAN, own \notin store', Take(s, own, named, k)
      PROVE  FlowInv'
  <2> DEFINE taking == [step |-> "exchange", verifier |-> own, named |-> named, code |-> k]
  <2>1. /\ call' = [call EXCEPT ![s] = taking]
        /\ taken' = [taken EXCEPT ![own] = @ + 1] /\ own \in Consent
    BY <1>5 DEF Take, FlowTypeOK
  <2>2. FlowTypeOK'
    <3>1. call' \in [Requester -> {Idle} \cup [step : {"exchange"}, verifier : Consent,
                                                named : BOOLEAN, code : Code]]
      BY <2>1 DEF FlowTypeOK
    <3>2. taken' \in [Consent -> Nat] /\ store' \subseteq Consent
      BY <1>1, <2>1 DEF FlowTypeOK
    <3>3. QED
      BY <1>1, <3>1, <3>2 DEF FlowTypeOK
  <2>3. begun[own] # "nobody" /\ own \notin table
    BY <1>1, <1>5, <2>1 DEF BegunInv
  <2>4. BegunInv'
    <3>1. ASSUME NEW q \in Requester, call'[q].step = "exchange", call'[q].code \in Consent
          PROVE  begun[call'[q].code] # "nobody"
      <4>1. call'[s] = taking /\ (q # s => call'[q] = call[q])
        BY <2>1 DEF FlowTypeOK
      <4>2. QED
        BY <1>1, <3>1, <4>1 DEF BegunInv
    <3>2. \A o \in Consent : begun[o] = "nobody" => taken'[o] = 0
      BY <2>1, <2>3 DEF BegunInv, FlowTypeOK
    <3>3. QED
      BY <1>1, <3>1, <3>2 DEF BegunInv
  <2>5. OnceInv'
    <3>1. \A r \in Request : ~Reads(r, own)
      BY <1>5 DEF Reads, BegunInv
    <3>2. ASSUME NEW o \in Consent \ overlap, o # own
          PROVE  /\ taken'[o] <= 1
                 /\ taken'[o] = 1 => o \notin store' \cup table /\ \A r \in Request : ~Reads(r, o)
      BY <1>1, <2>1, <3>2 DEF OnceInv, FlowTypeOK
    <3>3. own \notin overlap => taken'[own] = 1
      <4>1. own \notin overlap => taken[own] <= 1 /\ taken[own] # 1 /\ taken[own] \in Nat
        BY <2>1, <1>5 DEF OnceInv, FlowTypeOK
      <4>2. taken'[own] = taken[own] + 1
        BY <2>1 DEF FlowTypeOK
      <4>3. QED
        BY <4>1, <4>2
    <3>4. \A o : \A r \in Request : Reads(r, o)' <=> Reads(r, o)
      BY <1>1 DEF Reads
    <3>5. QED
      BY <1>1, <1>5, <2>3, <3>1, <3>2, <3>3, <3>4 DEF OnceInv
  <2>6. QED
    BY <1>2, <1>3, <2>2, <2>4, <2>5
<1>6. QED
  BY <1>4, <1>5, ChatTakeCases

\* A token is stored for the consent whose verifier is used, and once.
LEMMA ExchangeKeeps ==
  ASSUME FlowInv, NEW verifier \in Consent, NEW c \in Code, c \in Consent => begun[c] # "nobody",
         begun[verifier] \in Requester \cup {"dashboard"},
         Exchange(verifier, c, begun[verifier]), UNCHANGED <<begun, taken, age>>
  PROVE  /\ code' \in [Consent -> {"none", "shown", "used"}]
         /\ saved' \in [Consent -> Seq(Requester \cup {"dashboard"})]
         /\ \A o \in Consent : begun'[o] = "nobody" => code'[o] = "none" /\ taken'[o] = 0 /\ age'[o] = 0
         /\ SavedInv'
<1> USE ConnectAssumption DEF ConnectAssumption, FlowInv
<1> DEFINE by == begun[verifier]
<1>1. code' = code \/ (c \in Consent /\ code' = [code EXCEPT ![c] = "used"])
  BY DEF Exchange
<1>2. code' \in [Consent -> {"none", "shown", "used"}]
  BY <1>1 DEF FlowTypeOK
<1>3. \A o \in Consent : begun'[o] = "nobody" => code'[o] = "none" /\ taken'[o] = 0 /\ age'[o] = 0
  BY <1>1 DEF FlowTypeOK, BegunInv
<1>4. CASE saved' = saved
  <2>1. \A o \in Consent : code'[o] # "used" => code[o] # "used"
    BY <1>1 DEF FlowTypeOK
  <2>2. SavedInv'
    BY <1>4, <2>1 DEF SavedInv, SavedForItsSender
  <2>3. saved' \in [Consent -> Seq(Requester \cup {"dashboard"})]
    BY <1>4 DEF FlowTypeOK
  <2>4. QED
    BY <1>2, <1>3, <2>2, <2>3
<1>5. CASE saved' # saved
  <2>1. /\ verifier = c /\ c \in Consent /\ code[c] = "shown" /\ code' = [code EXCEPT ![c] = "used"]
        /\ saved' = [saved EXCEPT ![c] = Append(@, by)]
    BY <1>5 DEF Exchange
  <2>2. saved[c] = <<>>
    BY <2>1 DEF SavedInv
  <2>3. saved'[c] = Append(<<>>, by) /\ \A o \in Consent \ {c} : saved'[o] = saved[o]
    BY <2>1, <2>2 DEF FlowTypeOK
  <2>4. /\ saved'[c] \in Seq(Requester \cup {"dashboard"}) /\ Len(saved'[c]) = 1
        /\ \A i \in DOMAIN saved'[c] : saved'[c][i] = by
    BY <2>3
  <2>5. saved' \in [Consent -> Seq(Requester \cup {"dashboard"})]
    BY <2>1, <2>3, <2>4 DEF FlowTypeOK
  <2>6. \A o \in Consent : code'[o] # "used" => saved'[o] = <<>>
    BY <2>1, <2>3 DEF SavedInv, FlowTypeOK
  <2>7. ASSUME NEW o \in Consent
        PROVE  Len(saved'[o]) <= 1 /\ \A i \in DOMAIN saved'[o] : saved'[o][i] = begun'[o]
    BY <2>1, <2>3, <2>4, <2>7 DEF SavedInv, SavedForItsSender
  <2>8. SavedInv'
    BY <2>6, <2>7 DEF SavedInv, SavedForItsSender
  <2>9. QED
    BY <1>2, <1>3, <2>5, <2>8
<1>6. QED
  BY <1>4, <1>5

LEMMA ChatExchangeInv == ASSUME FlowInv, NEW s \in Requester, ChatExchange(s) PROVE FlowInv'
<1> USE ConnectAssumption DEF ConnectAssumption, FlowInv
<1>1. /\ call[s].step = "exchange"
      /\ call' = [call EXCEPT ![s] = Idle]
      /\ UNCHANGED <<store, place, count, table, begun, age, request, taken, overlap>>
  BY DEF ChatExchange, pending, chatStore
<1>2. /\ call[s].verifier \in Consent /\ call[s].code \in Code
      /\ call[s].code \in Consent => begun[call[s].code] # "nobody"
  BY <1>1 DEF FlowTypeOK, BegunInv, Idle
<1>3. /\ code' \in [Consent -> {"none", "shown", "used"}]
      /\ saved' \in [Consent -> Seq(Requester \cup {"dashboard"})]
      /\ \A o \in Consent : begun'[o] = "nobody" => code'[o] = "none" /\ taken'[o] = 0 /\ age'[o] = 0
      /\ SavedInv'
  <2>1. CASE begun[call[s].verifier] = s
    <3>1. Exchange(call[s].verifier, call[s].code, begun[call[s].verifier])
      BY <2>1 DEF ChatExchange
    <3>2. QED
      BY <1>1, <1>2, <2>1, <3>1, ExchangeKeeps
  <2>2. CASE begun[call[s].verifier] # s
    <3>1. UNCHANGED <<code, saved>>
      BY <2>2 DEF ChatExchange
    <3>2. QED
      BY <1>1, <3>1 DEF FlowTypeOK, BegunInv, SavedInv, SavedForItsSender
  <2>3. QED
    BY <2>1, <2>2
<1>4. FlowTypeOK'
  BY <1>1, <1>3 DEF FlowTypeOK
<1>5. BegunInv'
  <2>1. \A q \in Requester : call'[q].step = "exchange" => call'[q] = call[q]
    BY <1>1 DEF FlowTypeOK, Idle
  <2>2. QED
    BY <1>1, <1>3, <2>1 DEF BegunInv
<1>6. OnceInv' /\ PendingInv'
  BY <1>1 DEF OnceInv, PendingInv, Reads
<1>7. QED
  BY <1>3, <1>4, <1>5, <1>6

LEMMA DashExchangeInv == ASSUME FlowInv, NEW r \in Request, DashExchange(r) PROVE FlowInv'
<1> USE ConnectAssumption DEF ConnectAssumption, FlowInv
<1>1. /\ request[r].step = "exchange"
      /\ Exchange(request[r].state, request[r].code, "dashboard")
      /\ request' = [request EXCEPT ![r] = Idle]
      /\ UNCHANGED <<store, place, count, table, begun, age, call, taken, overlap>>
  BY DEF DashExchange, pending, chatStore
<1>2. /\ request[r].state \in Consent /\ begun[request[r].state] = "dashboard"
      /\ request[r].code \in Code
      /\ request[r].code \in Consent => begun[request[r].code] # "nobody"
  BY <1>1 DEF FlowTypeOK, BegunInv, Idle
<1>3. /\ code' \in [Consent -> {"none", "shown", "used"}]
      /\ saved' \in [Consent -> Seq(Requester \cup {"dashboard"})]
      /\ \A o \in Consent : begun'[o] = "nobody" => code'[o] = "none" /\ taken'[o] = 0 /\ age'[o] = 0
      /\ SavedInv'
  BY <1>1, <1>2, ExchangeKeeps
<1>4. FlowTypeOK'
  BY <1>1, <1>3 DEF FlowTypeOK
<1>5. \A q \in Request : request'[q].step # "idle" => request'[q] = request[q]
  BY <1>1 DEF FlowTypeOK, Idle
<1>6. BegunInv'
  BY <1>1, <1>3, <1>5 DEF BegunInv
<1>7. OnceInv'
  <2>1. \A o : \A q \in Request : Reads(q, o)' => Reads(q, o)
    BY <1>5 DEF Reads
  <2>2. QED
    BY <1>1, <2>1 DEF OnceInv
<1>8. PendingInv'
  BY <1>1 DEF PendingInv
<1>9. QED
  BY <1>3, <1>4, <1>6, <1>7, <1>8

LEMMA DashReadInv ==
  ASSUME FlowInv, NEW r \in Request, NEW c \in Consent, NEW k \in Code, DashRead(r, c, k)
  PROVE  FlowInv'
<1> USE ConnectAssumption DEF ConnectAssumption, FlowInv
<1> DEFINE reading == [step |-> "read", state |-> c, code |-> k, fresh |-> age[c] <= TTL]
<1>1. /\ request[r] = Idle /\ c \in table /\ k \in Pasted
      /\ request' = [request EXCEPT ![r] = reading]
      /\ overlap' = IF \E o \in Request : Reads(o, c) THEN overlap \cup {c} ELSE overlap
      /\ UNCHANGED <<store, place, count, table, begun, age, code, call, taken, saved>>
  BY DEF DashRead, pending, chatStore, google, Reads
<1>2. FlowTypeOK'
  <2>1. request' \in [Request -> {Idle}
           \cup [step : {"read"}, state : Consent, code : Code, fresh : BOOLEAN]
           \cup [step : {"exchange"}, state : Consent, code : Code]]
    <3>1. (age[c] <= TTL) \in BOOLEAN
      OBVIOUS
    <3>2. QED
      BY <1>1, <3>1 DEF FlowTypeOK
  <2>2. overlap' \subseteq Consent
    BY <1>1 DEF FlowTypeOK
  <2>3. QED
    BY <1>1, <2>1, <2>2 DEF FlowTypeOK
<1>3. BegunInv'
  <2>1. request'[r] = reading /\ \A q \in Request \ {r} : request'[q] = request[q]
    BY <1>1 DEF FlowTypeOK
  <2>2. k \in Consent => begun[k] # "nobody"
    BY <1>1 DEF Pasted, BegunInv
  <2>3. begun[c] = "dashboard"
    BY <1>1 DEF BegunInv
  <2>4. ASSUME NEW q \in Request, request'[q].step # "idle"
        PROVE  /\ begun[request'[q].state] = "dashboard"
               /\ request'[q].code \in Consent => begun[request'[q].code] # "nobody"
    BY <2>1, <2>2, <2>3, <2>4 DEF BegunInv
  <2>5. QED
    BY <1>1, <2>4 DEF BegunInv
<1>4. OnceInv'
  <2>1. ASSUME NEW q \in Request, NEW o, Reads(q, o)' PROVE Reads(q, o) \/ (q = r /\ o = c)
    BY <1>1, <2>1 DEF Reads, FlowTypeOK
  <2>2. c \notin overlap => taken[c] # 1
    BY <1>1 DEF OnceInv
  <2>3. overlap \subseteq overlap' /\ (c \notin overlap' => \A q \in Request : ~Reads(q, c))
    BY <1>1
  <2>4. QED
    BY <1>1, <2>1, <2>2, <2>3 DEF OnceInv
<1>5. PendingInv' /\ SavedInv'
  BY <1>1 DEF PendingInv, SavedInv, SavedForItsSender
<1>6. QED
  BY <1>2, <1>3, <1>4, <1>5

LEMMA DashTakeInv == ASSUME FlowInv, NEW r \in Request, DashTake(r) PROVE FlowInv'
<1> USE ConnectAssumption DEF ConnectAssumption, FlowInv
<1>0. PICK c \in Consent, k \in Code :
        request[r].step = "read" /\ request[r].state = c /\ request[r].code = k
  BY DEF DashTake, FlowTypeOK, Idle
<1> DEFINE exchanging == [step |-> "exchange", state |-> c, code |-> k]
<1>1. /\ table' = table \ {c}
      /\ \/ /\ request' = [request EXCEPT ![r] = exchanging]
            /\ taken' = [taken EXCEPT ![c] = @ + 1]
         \/ request' = [request EXCEPT ![r] = Idle] /\ taken' = taken
      /\ UNCHANGED <<store, place, count, begun, age, code, call, overlap, saved>>
  BY <1>0 DEF DashTake, chatStore, google
<1>2. begun[c] = "dashboard" /\ c \notin store
  BY <1>0 DEF BegunInv
<1>3. FlowTypeOK'
  <2>1. request' \in [Request -> {Idle}
           \cup [step : {"read"}, state : Consent, code : Code, fresh : BOOLEAN]
           \cup [step : {"exchange"}, state : Consent, code : Code]]
    <3>1. CASE request' = [request EXCEPT ![r] = exchanging]
      BY <3>1 DEF FlowTypeOK
    <3>2. CASE request' = [request EXCEPT ![r] = Idle]
      BY <3>2 DEF FlowTypeOK
    <3>3. QED
      BY <1>1, <3>1, <3>2
  <2>2. taken' \in [Consent -> Nat] /\ table' \subseteq Consent
    <3>1. table' \subseteq Consent
      BY <1>1 DEF FlowTypeOK
    <3>2. taken' = taken \/ taken' = [taken EXCEPT ![c] = @ + 1]
      BY <1>1
    <3>3. taken \in [Consent -> Nat]
      BY DEF FlowTypeOK
    <3>4. taken' \in [Consent -> Nat]
      BY <3>2, <3>3
    <3>5. QED
      BY <3>1, <3>4
  <2>3. QED
    BY <1>1, <2>1, <2>2 DEF FlowTypeOK
<1>4. /\ \A q \in Request \ {r} : request'[q] = request[q]
      /\ request'[r].step # "read"
      /\ request'[r].step # "idle" => request'[r].state = c /\ request'[r].code = k
  <2>1. CASE request' = [request EXCEPT ![r] = exchanging]
    <3>1. request'[r] = exchanging
      BY <2>1 DEF FlowTypeOK
    <3>2. QED
      BY <2>1, <3>1 DEF FlowTypeOK
  <2>2. CASE request' = [request EXCEPT ![r] = Idle]
    <3>1. request'[r] = Idle
      BY <2>2 DEF FlowTypeOK
    <3>2. QED
      BY <2>2, <3>1 DEF FlowTypeOK, Idle
  <2>3. QED
    BY <1>1, <2>1, <2>2
<1>5. BegunInv'
  <2>1. \A q \in Request : request'[q].step # "idle" =>
          /\ request[q].step # "idle"
          /\ request'[q].state = request[q].state /\ request'[q].code = request[q].code
    BY <1>0, <1>4
  <2>2. \A o \in Consent : begun[o] = "nobody" => taken'[o] = 0
    BY <1>1, <1>2 DEF BegunInv, FlowTypeOK
  <2>3. QED
    BY <1>1, <2>1, <2>2 DEF BegunInv
<1>6. OnceInv'
  <2>1. ASSUME NEW q \in Request, NEW o, Reads(q, o)' PROVE Reads(q, o) /\ q # r
    BY <1>4, <2>1 DEF Reads
  <2>2. Reads(r, c)
    BY <1>0 DEF Reads
  <2>3. c \notin overlap => taken'[c] <= 1 /\ \A q \in Request : ~(Reads(q, c)')
    <3>1. c \notin overlap => taken[c] <= 1 /\ taken[c] # 1 /\ taken[c] \in Nat
      BY <1>2, <2>2 DEF OnceInv, FlowTypeOK
    <3>2. taken'[c] = taken[c] \/ taken'[c] = taken[c] + 1
      BY <1>1, <1>2 DEF FlowTypeOK
    <3>3. c \notin overlap => \A q \in Request : ~(Reads(q, c)')
      BY <1>2, <2>1, <2>2 DEF OnceInv
    <3>4. QED
      BY <3>1, <3>2, <3>3
  <2>4. \A o \in Consent \ {c} : taken'[o] = taken[o]
    BY <1>1, <1>2 DEF FlowTypeOK
  <2>5. c \notin store' /\ c \notin table'
    BY <1>1, <1>2
  <2>6. QED
    BY <1>1, <1>2, <2>1, <2>3, <2>4, <2>5 DEF OnceInv
<1>7. PendingInv' /\ SavedInv'
  BY <1>1 DEF PendingInv, SavedInv, SavedForItsSender
<1>8. QED
  BY <1>3, <1>5, <1>6, <1>7

\* The steps that only forget: a sweep that gives no link, a request that gives up
\* the row it has read, the death of a process.
Forgets ==
  DashStartFails \/ GatewayRestarts \/ DashboardRestarts \/ \E r \in Request : DashTakeFails(r)

LEMMA ForgetsInv == ASSUME FlowInv, Forgets PROVE FlowInv'
<1> USE ConnectAssumption DEF ConnectAssumption, FlowInv
<1>1. /\ store' = {} \/ store' = store
      /\ table' \subseteq table
      /\ call' = call \/ call' = [s \in Requester |-> Idle]
      /\ UNCHANGED <<place, count, begun, age, code, taken, overlap, saved>>
  BY DEF Forgets, DashStartFails, Young, DashTakeFails, GatewayRestarts, DashboardRestarts,
     pending, chatStore, google, calls, history
<1> DEFINE RequestsKept ==
      /\ request' \in [Request -> {Idle}
           \cup [step : {"read"}, state : Consent, code : Code, fresh : BOOLEAN]
           \cup [step : {"exchange"}, state : Consent, code : Code]]
      /\ \A r \in Request : request'[r].step # "idle" => request'[r] = request[r]
<1>2. RequestsKept
  <2>1. CASE request' = request
    BY <2>1 DEF FlowTypeOK
  <2>2. CASE request' = [r \in Request |-> Idle]
    BY <2>2 DEF Idle
  <2>3. ASSUME NEW q \in Request, request' = [request EXCEPT ![q] = Idle] PROVE RequestsKept
    BY <2>3 DEF FlowTypeOK, Idle
  <2>4. QED
    BY <2>1, <2>2, <2>3 DEF Forgets, DashStartFails, DashTakeFails, GatewayRestarts,
       DashboardRestarts, calls
<1>3. FlowTypeOK'
  BY <1>1, <1>2 DEF FlowTypeOK
<1>4. BegunInv'
  BY <1>1, <1>2 DEF BegunInv, Idle
<1>5. OnceInv'
  <2>1. \A o : \A q \in Request : Reads(q, o)' => Reads(q, o)
    BY <1>2 DEF Reads
  <2>2. QED
    BY <1>1, <2>1 DEF OnceInv
<1>6. PendingInv' /\ SavedInv'
  BY <1>1 DEF PendingInv, SavedInv, SavedForItsSender
<1>7. QED
  BY <1>3, <1>4, <1>5, <1>6

LEMMA FlowInvariant == FlowSpec => []FlowInv
<1>1. FlowInv /\ [FlowNext]_flowVars => FlowInv'
  <2> SUFFICES ASSUME FlowInv, [FlowNext]_flowVars PROVE FlowInv'
    OBVIOUS
  <2>1. CASE UNCHANGED flowVars
    BY <2>1 DEF flowVars, pending, chatStore, google, calls, history, FlowInv, FlowTypeOK, BegunInv,
       OnceInv, PendingInv, SavedInv, SavedForItsSender, Reads
  <2>2. QED
    BY <2>1, ChatStartInv, DashStartInv, ApproveInv, TickInv, ChatTakeInv, ChatExchangeInv,
       DashExchangeInv, DashReadInv, DashTakeInv, ForgetsInv DEF FlowNext, Forgets
<1>2. QED
  BY FlowInitInv, <1>1, PTL DEF FlowSpec

\* What is swept is at least TTL old, and is gone.
LEMMA SweepTakesTheOld == ASSUME FlowInv, NEW c \in store, c \notin Sweep(store) PROVE age[c] > TTL
  BY DEF FlowInv, FlowTypeOK, Sweep

\* The newest of a sender's connects that are not swept is the newest of all of
\* them: what is swept is older.
LEMMA NewestIsNewest ==
  ASSUME FlowInv, NEW s \in Requester, NEW c \in Newest(OwnedBy(s)) PROVE IsNewest(c)
<1> USE ConnectAssumption DEF ConnectAssumption, FlowInv, FlowTypeOK
<1>1. c \in store /\ begun[c] = s /\ ~(age[c] > TTL) /\ \A o \in OwnedBy(s) : place[o] <= place[c]
  BY DEF Newest, OwnedBy, Sweep
<1>2. ASSUME NEW o \in store, begun[o] = s PROVE place[o] <= place[c]
  <2>1. CASE o \in OwnedBy(s)
    BY <1>1, <2>1
  <2>2. CASE o \notin OwnedBy(s)
    <3>1. age[o] > TTL
      BY <1>2, <2>2, SweepTakesTheOld DEF OwnedBy
    <3>2. ~(place[c] < place[o])
      <4>1. c \in Consent /\ o \in Consent /\ age[c] \in Nat /\ age[o] \in Nat
        BY <1>1
      <4>2. place[c] < place[o] => age[o] <= age[c]
        BY <1>1 DEF PendingInv
      <4>3. QED
        BY <1>1, <3>1, <4>1, <4>2
    <3>3. c \in Consent /\ o \in Consent /\ place[c] \in Nat /\ place[o] \in Nat
      BY <1>1
    <3>4. QED
      BY <3>2, <3>3
  <2>3. QED
    BY <2>1, <2>2
<1>3. QED
  BY <1>1, <1>2 DEF IsNewest, Newest

\* What a step does with a pending connect that is not yet TTL old after it.
Keeps ==
  \A c \in Consent :
    age'[c] < TTL =>
      /\ c \in table \ table' =>
           \E r \in Request : request[r].step = "read" /\ request[r].state = c
      /\ c \in store \ store' =>
           \/ \E s \in Requester : BeginsExchange(s, c) /\ call'[s].named
           \/ BeginsExchange(begun[c], c) /\ IsNewest(c)
           \/ store' = {} /\ \A s \in Requester : call'[s] = Idle

LEMMA ChatStartKeeps ==
  ASSUME FlowInv, NEW s \in Requester, NEW c \in Consent, ChatStart(s, c) PROVE Keeps
<1>1. table' = table /\ age' = age
  BY DEF ChatStart, NewConsent
<1>2. ASSUME NEW o \in Consent, age[o] < TTL PROVE o \notin store \ store'
  BY <1>2, ConnectAssumption DEF ChatStart, Sweep, ConnectAssumption, FlowInv, FlowTypeOK
<1>3. QED
  BY <1>1, <1>2 DEF Keeps

LEMMA ChatTakeKeeps ==
  ASSUME FlowInv, NEW s \in Requester, NEW k \in Code, ChatTake(s, k) PROVE Keeps
<1> USE ConnectAssumption DEF ConnectAssumption, FlowInv
<1>1. table' = table /\ age' = age /\ call[s] = Idle
  BY DEF ChatTake, google
<1>2. ASSUME NEW o \in Consent, age[o] < TTL, o \in store \ store'
      PROVE  \/ \E q \in Requester : BeginsExchange(q, o) /\ call'[q].named
             \/ BeginsExchange(begun[o], o) /\ IsNewest(o)
  <2>1. o \in Sweep(store)
    BY <1>2 DEF FlowTypeOK, Sweep
  <2>2. ASSUME NEW named \in BOOLEAN, Take(s, o, named, k)
        PROVE  BeginsExchange(s, o) /\ call'[s].named = named
    <3>1. call'[s] = [step |-> "exchange", verifier |-> o, named |-> named, code |-> k]
      BY <2>2 DEF Take, FlowTypeOK
    <3>2. QED
      BY <1>1, <3>1 DEF BeginsExchange, Idle
  <2>3. CASE TakeForSender(s, k)
    <3>1. o \in Newest(OwnedBy(s)) /\ Take(s, o, FALSE, k)
      BY <1>2, <2>1, <2>3 DEF TakeForSender, NoneFound
    <3>2. begun[o] = s
      BY <3>1 DEF Newest, OwnedBy
    <3>3. QED
      BY <2>2, <3>1, <3>2, NewestIsNewest
  <2>4. ASSUME NEW c \in Consent, TakeByState(s, c, k) PROVE Take(s, o, TRUE, k)
    BY <1>2, <2>1, <2>4 DEF TakeByState, NoneFound
  <2>5. QED
    BY <2>2, <2>3, <2>4 DEF ChatTake
<1>3. QED
  BY <1>1, <1>2 DEF Keeps

LEMMA DashTakeKeeps == ASSUME FlowInv, NEW r \in Request, DashTake(r) PROVE Keeps
<1>1. store' = store /\ age' = age
  BY DEF DashTake, chatStore, google
<1>2. ASSUME NEW c \in table \ table' PROVE request[r].step = "read" /\ request[r].state = c
  BY <1>2 DEF DashTake
<1>3. QED
  BY <1>1, <1>2 DEF Keeps

LEMMA DashStartKeeps ==
  ASSUME FlowInv, DashStartFails \/ \E c \in Consent : DashStart(c) PROVE Keeps
<1>1. store' = store /\ age' = age
  BY DEF DashStartFails, DashStart, NewConsent, chatStore, google
<1>2. ASSUME NEW o \in Consent, age[o] < TTL PROVE o \notin table \ table'
  BY <1>2 DEF DashStartFails, DashStart, Young
<1>3. QED
  BY <1>1, <1>2 DEF Keeps

LEMMA EveryStepKeeps == FlowInv /\ [FlowNext]_flowVars => Keeps
<1> SUFFICES ASSUME FlowInv, [FlowNext]_flowVars PROVE Keeps
  OBVIOUS
<1>1. ASSUME store' = store, table' = table PROVE Keeps
  BY <1>1 DEF Keeps
<1>2. CASE UNCHANGED flowVars
  BY <1>1, <1>2 DEF flowVars, pending, chatStore
<1>3. CASE Tick \/ DashboardRestarts
  BY <1>1, <1>3 DEF Tick, DashboardRestarts, pending, chatStore
<1>4. CASE GatewayRestarts
  BY <1>4 DEF GatewayRestarts, Keeps
<1>5. ASSUME NEW s \in Requester, ChatExchange(s) PROVE Keeps
  BY <1>1, <1>5 DEF ChatExchange, pending, chatStore
<1>6. ASSUME NEW r \in Request, DashExchange(r) \/ DashTakeFails(r) PROVE Keeps
  BY <1>1, <1>6 DEF DashExchange, DashTakeFails, pending, chatStore
<1>7. ASSUME NEW c \in Consent, Approve(c) PROVE Keeps
  BY <1>1, <1>7 DEF Approve, pending, chatStore
<1>8. ASSUME NEW r \in Request, NEW c \in Consent, NEW k \in Code, DashRead(r, c, k) PROVE Keeps
  BY <1>1, <1>8 DEF DashRead, pending, chatStore
<1>9. QED
  BY <1>2, <1>3, <1>4, <1>5, <1>6, <1>7, <1>8, ChatStartKeeps, ChatTakeKeeps, DashStartKeeps,
     DashTakeKeeps DEF FlowNext

\* Every reachable state of the connect flow is well typed.
THEOREM FlowTypeCorrect == FlowSpec => []FlowTypeOK
<1>1. FlowInv => FlowTypeOK
  BY DEF FlowInv
<1>2. QED
  BY <1>1, FlowInvariant, PTL

\* A verifier is given out once, unless two requests read its row at once, for any
\* number of owners, consents and requests (oauth.py 111-140, db.py 925-951).
THEOREM VerifiersTakenOnce == FlowSpec => []VerifierTakenOnce
<1>1. FlowInv => VerifierTakenOnce
  BY DEF FlowInv, FlowTypeOK, OnceInv, VerifierTakenOnce
<1>2. QED
  BY <1>1, FlowInvariant, PTL

\* At most one token is stored for a consent, by the one who began it
\* (onboarding_tools.py 105-170, dashboard_api.py).
THEOREM TokensAreTheRequesters == FlowSpec => []SavedForItsSender
<1>1. FlowInv => SavedForItsSender
  BY DEF FlowInv, SavedInv
<1>2. QED
  BY <1>1, FlowInvariant, PTL

\* A pending connect that is not yet TTL old is kept by every step but the
\* completions that take it, and, in the chat, the death of the gateway.  A
\* completion takes it by its state, whoever it is that names the state, or as the
\* sender's newest, and with whatever code: a mistyped or another consent's code
\* uses it up (onboarding_tools.py 105-140, dashboard_api.py 136-160).
THEOREM FreshConnectsAreKept == FlowSpec => FreshIsKept
<1>1. FlowInv /\ [FlowNext]_flowVars => Keeps
  BY EveryStepKeeps
<1>2. QED
  BY <1>1, FlowInvariant, PTL DEF FlowSpec, FreshIsKept, Keeps

-----------------------------------------------------------------------------
(* The rollup: Rollup. *)

\* The messages to keep among the first n of a mailbox, and those of one thread.
KeptOf(a, n)     == {mailbox[a][i] : i \in {k \in 1 .. n : Kept(mailbox[a][k])}}
OfThread(ms, t)  == {m \in ms : m.thread = t}

\* m is of the most urgent category there is, and the newest of that category.
StandsFor(m, ms) ==
  m \in ms /\ \A o \in ms : m.kind < o.kind \/ (m.kind = o.kind /\ o.date <= m.date)

Threads == UNION {[T -> [message : Message, unread : Nat]] : T \in SUBSET Thread}
Box     == [acct : Mailbox, listed : Nat, scanned : Nat, uncertain : Nat, remaining : BOOLEAN,
            threads : Threads, stopped : BOOLEAN]
Entry   == [account : Mailbox, thread : Thread, kind : Nat, date : Nat, unread : Nat]
Summary == {NotAsked} \cup [is : Failures]
             \cup [is : {"read"}, scanned : Nat, truncated : BOOLEAN, uncertain : Nat]

ResultTypeOK ==
  /\ mailbox \in [Mailbox -> Seq(Message)]
  /\ summary \in [Mailbox -> Summary]
  /\ found \subseteq Entry
  /\ step = "read" => box \in Box

\* How far the mailbox that is being read has been read, and what was found so far.
BoxInv ==
  step = "read" =>
    /\ box.scanned <= box.listed /\ box.listed <= Len(Messages)
    /\ box.remaining \/ box.scanned = Len(Messages)
    /\ box.stopped => ~box.remaining \/ Full(box)
    /\ DOMAIN box.threads = {m.thread : m \in KeptOf(box.acct, box.scanned)}
    /\ \A t \in DOMAIN box.threads :
         StandsFor(box.threads[t].message, OfThread(KeptOf(box.acct, box.scanned), t))

\* Nothing is said yet of the mailboxes that are still to be read.
AheadInv ==
  /\ \A a \in left \cup (IF step = "read" THEN {box.acct} ELSE {}) : summary[a] = NotAsked
  /\ step = "read" => box.acct \notin left
  /\ step = "resolve" => left = {} /\ summary = [a \in Mailbox |-> NotAsked]

Shown(f) == [thread |-> f.thread, kind |-> f.kind, date |-> f.date]

FoundInv ==
  /\ \A f \in found : summary[f.account].is = "read"
  /\ \A a \in Mailbox :
       summary[a].is = "read" /\ ~summary[a].truncated =>
         {Shown(f) : f \in {g \in found : g.account = a}} = Expected(a)

DoneInv ==
  /\ step = "done" => output \in Sorted(found)
  /\ caughtUp => step = "done" /\ NothingToReport

RollupInv == RollupTypeOK /\ ResultTypeOK /\ BoxInv /\ AheadInv /\ FoundInv /\ DoneInv

LEMMA RollupInitInv == RollupInit => RollupInv
<1> SUFFICES ASSUME RollupInit PROVE RollupInv
  OBVIOUS
<1> USE RollupAssumption DEF RollupAssumption, RollupInit
<1>1. RollupTypeOK
  <2>1. PICK n \in Requested : cap = Clamp(n)
    OBVIOUS
  <2>2. cap \in 1 .. MaxResults
    BY <2>1 DEF Clamp
  <2>3. \A a \in Mailbox : mailbox[a] \in Seq(Message)
    <3>1. \A S : <<>> \in Seq(S)
      OBVIOUS
    <3>2. QED
      BY <3>1
  <2>4. QED
    BY <2>2, <2>3 DEF RollupTypeOK
<1>2. ResultTypeOK
  BY DEF ResultTypeOK, Summary
<1>3. BoxInv /\ AheadInv /\ DoneInv
  BY DEF BoxInv, AheadInv, DoneInv
<1>4. FoundInv
  BY DEF FoundInv, NotAsked
<1>5. QED
  BY <1>1, <1>2, <1>3, <1>4 DEF RollupInv

-----------------------------------------------------------------------------
\* The message that stands for a thread has its most urgent category and the date
\* of its newest message of that category.
LEMMA StandsIsTheTop ==
  ASSUME NEW ms \in SUBSET Message, NEW m, StandsFor(m, ms)
  PROVE  /\ UrgencyOf(ms) = m.kind
         /\ NewestOf({o \in ms : o.kind = UrgencyOf(ms)}) = m.date
<1>1. m \in ms /\ \A o \in ms : o.kind \in Nat /\ o.date \in Nat
  BY DEF StandsFor, Message, ToRespond, FYI, Noise, Uncertain
<1>2. \A o \in ms : m.kind <= o.kind /\ (o.kind = m.kind => o.date <= m.date)
  BY <1>1 DEF StandsFor
<1>3. UrgencyOf(ms) = m.kind
  <2>1. ASSUME NEW k \in {o.kind : o \in ms}, \A o \in ms : k <= o.kind PROVE k = m.kind
    BY <1>1, <1>2, <2>1
  <2>2. m.kind \in {o.kind : o \in ms} /\ \A o \in ms : m.kind <= o.kind
    BY <1>1, <1>2
  <2>3. QED
    BY <2>1, <2>2, Zenon DEF UrgencyOf
<1>4. NewestOf({o \in ms : o.kind = m.kind}) = m.date
  <2> DEFINE top == {o \in ms : o.kind = m.kind}
  <2>1. m.date \in {o.date : o \in top} /\ \A o \in top : m.date >= o.date
    BY <1>1, <1>2
  <2>2. ASSUME NEW d \in {o.date : o \in top}, \A o \in top : d >= o.date PROVE d = m.date
    BY <1>1, <1>2, <2>2
  <2> HIDE DEF top
  <2>3. NewestOf(top) = m.date
    BY <2>1, <2>2, Zenon DEF NewestOf
  <2>4. QED
    BY <2>3 DEF top
<1>5. QED
  BY <1>3, <1>4

LEMMA KeptAreMessages ==
  ASSUME ResultTypeOK, NEW a \in Mailbox, NEW n \in Nat, n <= Len(mailbox[a])
  PROVE  KeptOf(a, n) \subseteq Message
<1>1. mailbox[a] \in Seq(Message)
  BY DEF ResultTypeOK
<1>2. QED
  BY <1>1 DEF KeptOf

LEMMA KeptOfAll ==
  ASSUME ResultTypeOK, NEW a \in Mailbox PROVE KeptOf(a, Len(mailbox[a])) = Wanted(a)
<1>1. DOMAIN mailbox[a] = 1 .. Len(mailbox[a])
  BY DEF ResultTypeOK
<1>2. QED
  BY <1>1 DEF KeptOf, Wanted

LEMMA KeptGrows ==
  ASSUME NEW a \in Mailbox, NEW n \in Nat
  PROVE  KeptOf(a, n + 1) =
           IF Kept(mailbox[a][n + 1]) THEN KeptOf(a, n) \cup {mailbox[a][n + 1]} ELSE KeptOf(a, n)
<1>1. 1 .. n + 1 = (1 .. n) \cup {n + 1}
  OBVIOUS
<1>2. QED
  BY <1>1 DEF KeptOf

\* A message that is added leaves each thread with the message that stands for it.
LEMMA WithMessageStands ==
  ASSUME NEW threads \in Threads, NEW ms \in SUBSET Message, NEW m \in Message,
         DOMAIN threads = {o.thread : o \in ms},
         \A t \in DOMAIN threads : StandsFor(threads[t].message, OfThread(ms, t))
  PROVE  /\ WithMessage(threads, m) \in Threads
         /\ DOMAIN WithMessage(threads, m) = {o.thread : o \in ms \cup {m}}
         /\ \A t \in DOMAIN WithMessage(threads, m) :
              StandsFor(WithMessage(threads, m)[t].message, OfThread(ms \cup {m}, t))
<1> DEFINE new == WithMessage(threads, m)
           D == DOMAIN threads \cup {m.thread}
<1>1. PICK T \in SUBSET Thread : threads \in [T -> [message : Message, unread : Nat]]
  BY DEF Threads
<1>2. DOMAIN new = D /\ D \in SUBSET Thread
  BY <1>1 DEF WithMessage, Message
<1>3. \A t \in DOMAIN threads \ {m.thread} : new[t] = threads[t]
  BY DEF WithMessage
<1>4. new[m.thread] =
        IF m.thread \notin DOMAIN threads THEN [message |-> m, unread |-> 1]
        ELSE [message |-> IF Better(m, threads[m.thread].message) THEN m ELSE threads[m.thread].message,
              unread |-> threads[m.thread].unread + 1]
  BY DEF WithMessage
<1>5. new = [t \in D |-> new[t]]
  BY DEF WithMessage
<1>6. \A o \in ms \cup {m} : o.kind \in Nat /\ o.date \in Nat /\ o.thread \in Thread
  BY DEF Message, ToRespond, FYI, Noise, Uncertain
<1> HIDE DEF new, D
<1>7. \A t \in D : new[t] \in [message : Message, unread : Nat]
  <2>1. \A t \in DOMAIN threads : threads[t] \in [message : Message, unread : Nat]
    BY <1>1
  <2>2. new[m.thread] \in [message : Message, unread : Nat]
    <3>1. CASE m.thread \notin DOMAIN threads
      BY <1>4, <3>1
    <3>2. CASE m.thread \in DOMAIN threads
      <4>1. threads[m.thread].message \in Message /\ threads[m.thread].unread \in Nat
        BY <2>1, <3>2
      <4>2. QED
        BY <1>4, <3>2, <4>1
    <3>3. QED
      BY <3>1, <3>2
  <2>3. QED
    BY <1>3, <2>1, <2>2 DEF D
<1>8. new \in Threads
  BY <1>2, <1>5, <1>7 DEF Threads
<1>9. ASSUME NEW t \in D PROVE StandsFor(new[t].message, OfThread(ms \cup {m}, t))
  <2>1. CASE t # m.thread
    <3>1. OfThread(ms \cup {m}, t) = OfThread(ms, t) /\ t \in DOMAIN threads
      BY <2>1 DEF OfThread, D
    <3>2. QED
      BY <1>3, <2>1, <3>1
  <2>2. CASE t = m.thread /\ t \notin DOMAIN threads
    <3>1. OfThread(ms \cup {m}, t) = {m}
      BY <2>2 DEF OfThread
    <3>2. new[t].message = m
      BY <1>4, <2>2
    <3>3. m.date \in Nat /\ m.date <= m.date
      BY <1>6
    <3>4. StandsFor(m, {m})
      BY <3>3 DEF StandsFor
    <3>5. QED
      BY <3>1, <3>2, <3>4
  <2>3. CASE t = m.thread /\ t \in DOMAIN threads
    <3> DEFINE held == threads[t].message
    <3>1. OfThread(ms \cup {m}, t) = OfThread(ms, t) \cup {m} /\ OfThread(ms, t) \subseteq ms
      BY <2>3 DEF OfThread
    <3>2. new[t].message = IF Better(m, held) THEN m ELSE held
      BY <1>4, <2>3
    <3>3. StandsFor(held, OfThread(ms, t))
      BY <2>3
    <3> HIDE DEF held
    <3>4. held \in OfThread(ms, t) /\ held \in ms
      BY <3>1, <3>3 DEF StandsFor
    <3>5. CASE Better(m, held)
      <4>1. \A o \in OfThread(ms, t) \cup {m} : m.kind < o.kind \/ (m.kind = o.kind /\ o.date <= m.date)
        BY <1>6, <3>1, <3>3, <3>4, <3>5 DEF StandsFor, Better
      <4>2. QED
        BY <3>1, <3>2, <3>5, <4>1 DEF StandsFor
    <3>6. CASE ~Better(m, held)
      <4>1. \A o \in OfThread(ms, t) \cup {m} :
              held.kind < o.kind \/ (held.kind = o.kind /\ o.date <= held.date)
        BY <1>6, <3>1, <3>3, <3>4, <3>6 DEF StandsFor, Better
      <4>2. QED
        BY <3>1, <3>2, <3>4, <3>6, <4>1 DEF StandsFor
    <3>7. QED
      BY <3>5, <3>6
  <2>4. QED
    BY <2>1, <2>2, <2>3
<1>10. D = {o.thread : o \in ms \cup {m}}
  BY DEF D
<1>11. QED
  BY <1>2, <1>8, <1>9, <1>10 DEF new

\* When the messages that stand for the threads are those of all messages to keep,
\* the threads are what is expected of the mailbox.
LEMMA StandsAsExpected ==
  ASSUME ResultTypeOK, NEW a \in Mailbox, NEW threads,
         DOMAIN threads = {m.thread : m \in Wanted(a)},
         \A t \in DOMAIN threads : StandsFor(threads[t].message, OfThread(Wanted(a), t))
  PROVE  {[thread |-> t, kind |-> threads[t].message.kind, date |-> threads[t].message.date] :
            t \in DOMAIN threads} = Expected(a)
<1>1. Wanted(a) \subseteq Message
  BY KeptOfAll, KeptAreMessages DEF ResultTypeOK
<1> DEFINE E(t) == LET ms == {m \in Wanted(a) : m.thread = t}
                       top == {m \in ms : m.kind = UrgencyOf(ms)}
                   IN  [thread |-> t, kind |-> UrgencyOf(ms), date |-> NewestOf(top)]
           F(t) == [thread |-> t, kind |-> threads[t].message.kind,
                    date |-> threads[t].message.date]
<1>2. ASSUME NEW t \in DOMAIN threads PROVE E(t) = F(t)
  <2> DEFINE ms == OfThread(Wanted(a), t)
  <2>1. ms \in SUBSET Message /\ StandsFor(threads[t].message, ms)
    BY <1>1 DEF OfThread
  <2>2. ms = {m \in Wanted(a) : m.thread = t}
    BY DEF OfThread
  <2> HIDE DEF ms
  <2>3. /\ UrgencyOf(ms) = threads[t].message.kind
        /\ NewestOf({o \in ms : o.kind = UrgencyOf(ms)}) = threads[t].message.date
    BY <2>1, StandsIsTheTop
  <2>4. QED
    BY <2>2, <2>3
<1>3. Expected(a) = {E(t) : t \in DOMAIN threads}
  BY DEF Expected
<1> HIDE DEF E, F
<1>4. {E(t) : t \in DOMAIN threads} = {F(t) : t \in DOMAIN threads}
  BY <1>2
<1>5. QED
  BY <1>3, <1>4 DEF F

-----------------------------------------------------------------------------
LEMMA ExpectedStays ==
  ASSUME NEW a \in Mailbox, mailbox'[a] = mailbox[a]
  PROVE  /\ Wanted(a)' = Wanted(a) /\ Expected(a)' = Expected(a)
         /\ \A n : KeptOf(a, n)' = KeptOf(a, n)
  BY DEF Wanted, Expected, KeptOf

LEMMA ResolveInv == ASSUME RollupInv, Resolve PROVE RollupInv'
<1> USE RollupAssumption DEF RollupAssumption, RollupInv
<1>1. /\ step = "resolve" /\ step' = "next"
      /\ UNCHANGED <<mailbox, cap, box, found, output, caughtUp>>
  BY DEF Resolve
<1>2. PICK asked \in {Mailbox} \cup {{a} : a \in Mailbox} :
           \E readers \in SUBSET asked, lost \in SUBSET asked :
             /\ lost \cap readers = {}
             /\ left' = readers
             /\ flagged' = flagged \cup lost
             /\ summary' = [a \in Mailbox |->
                  IF a \in lost THEN Error("needs_reconnect")
                  ELSE IF a \in asked \ readers THEN Error("failed") ELSE NotAsked]
  BY Zenon DEF Resolve
<1>3. PICK readers \in SUBSET asked, lost \in SUBSET asked :
           /\ lost \cap readers = {}
           /\ left' = readers
           /\ flagged' = flagged \cup lost
           /\ summary' = [a \in Mailbox |->
                IF a \in lost THEN Error("needs_reconnect")
                ELSE IF a \in asked \ readers THEN Error("failed") ELSE NotAsked]
  BY <1>2
<1>4. asked \subseteq Mailbox
  OBVIOUS
<1>5. found = {}
  BY <1>1 DEF AheadInv, FoundInv, ResultTypeOK, Entry, NotAsked
<1>6. RollupTypeOK'
  BY <1>1, <1>3, <1>4 DEF RollupTypeOK
<1>7. \A a \in Mailbox : summary'[a] \in Summary /\ summary'[a].is # "read"
  BY <1>3 DEF Summary, Failures, Error, NotAsked
<1>8. ResultTypeOK'
  BY <1>1, <1>3, <1>7 DEF ResultTypeOK
<1>9. AheadInv'
  BY <1>1, <1>3, <1>4 DEF AheadInv
<1>10. BoxInv' /\ FoundInv' /\ DoneInv'
  BY <1>1, <1>5, <1>7 DEF BoxInv, FoundInv, DoneInv
<1>11. QED
  BY <1>6, <1>8, <1>9, <1>10

LEMMA BeginInv == ASSUME RollupInv, NEW a \in Mailbox, Begin(a) PROVE RollupInv'
<1> USE RollupAssumption DEF RollupAssumption, RollupInv
<1>1. /\ step = "next" /\ a \in left /\ step' = "read" /\ left' = left \ {a}
      /\ box' = [acct |-> a, listed |-> 0, scanned |-> 0, uncertain |-> 0, remaining |-> TRUE,
                 threads |-> [t \in {} |-> 0], stopped |-> FALSE]
      /\ UNCHANGED <<cap, summary, found, output, caughtUp, flagged>>
  BY DEF Begin
<1>2. PICK list \in Unread[a] : mailbox' = [mailbox EXCEPT ![a] = list]
  BY DEF Begin
<1>3. list \in Seq(Message)
  OBVIOUS
<1>4. /\ mailbox' \in [Mailbox -> Seq(Message)] /\ mailbox'[a] = list
      /\ \A b \in Mailbox \ {a} : mailbox'[b] = mailbox[b]
  BY <1>2, <1>3 DEF ResultTypeOK
<1>5. RollupTypeOK'
  BY <1>1, <1>4 DEF RollupTypeOK
<1>6. ResultTypeOK'
  <2>1. [t \in {} |-> 0] \in Threads
    <3>1. [t \in {} |-> 0] \in [{} -> [message : Message, unread : Nat]] /\ {} \in SUBSET Thread
      OBVIOUS
    <3>2. QED
      BY <3>1, Zenon DEF Threads
  <2>2. box' \in Box
    BY <1>1, <2>1 DEF Box
  <2>3. QED
    BY <1>1, <1>4, <2>2 DEF ResultTypeOK
<1>7. BoxInv'
  <2>1. KeptOf(a, 0)' = {}
    BY DEF KeptOf
  <2>2. /\ box'.acct = a /\ box'.listed = 0 /\ box'.scanned = 0 /\ box'.remaining = TRUE
        /\ box'.stopped = FALSE /\ DOMAIN box'.threads = {}
    BY <1>1
  <2>3. Len(Messages)' \in Nat
    BY <1>3, <1>4, <2>2 DEF Messages
  <2>4. QED
    BY <2>1, <2>2, <2>3 DEF BoxInv
<1>8. AheadInv'
  BY <1>1 DEF AheadInv
<1>9. FoundInv'
  <2>1. summary[a].is # "read"
    BY <1>1 DEF AheadInv, NotAsked
  <2>2. ASSUME NEW b \in Mailbox, summary'[b].is = "read", ~summary'[b].truncated
        PROVE  {Shown(f) : f \in {g \in found' : g.account = b}} = Expected(b)'
    BY <1>1, <1>4, <2>1, <2>2, ExpectedStays DEF FoundInv
  <2>3. QED
    BY <1>1, <2>2 DEF FoundInv, Shown
<1>10. DoneInv'
  BY <1>1 DEF DoneInv
<1>11. QED
  BY <1>5, <1>6, <1>7, <1>8, <1>9, <1>10

\* Reading changes nothing but the box.
LEMMA ReadingKeeps ==
  ASSUME RollupInv, step = "read", box' \in Box, box'.acct = box.acct, BoxInv',
         UNCHANGED <<mailbox, step, cap, left, summary, found, output, caughtUp, flagged>>
  PROVE  RollupInv'
<1> USE DEF RollupInv
<1>1. RollupTypeOK' /\ ResultTypeOK'
  BY DEF RollupTypeOK, ResultTypeOK
<1>2. AheadInv'
  BY DEF AheadInv
<1>3. FoundInv'
  BY ExpectedStays DEF FoundInv, Shown
<1>4. DoneInv'
  BY DEF DoneInv
<1>5. QED
  BY <1>1, <1>2, <1>3, <1>4

LEMMA ListPageInv == ASSUME RollupInv, ListPage PROVE RollupInv'
<1> USE RollupAssumption DEF RollupAssumption, RollupInv
<1>1. /\ step = "read" /\ ~box.stopped /\ box.scanned = box.listed
      /\ UNCHANGED <<mailbox, step, cap, left, summary, found, output, caughtUp, flagged>>
  BY DEF ListPage
<1>2. box \in Box /\ box.acct \in Mailbox /\ box.listed \in Nat /\ Len(Messages) \in Nat
  BY <1>1 DEF ResultTypeOK, Box, Messages
<1>3. PICK next \in Nat :
        /\ box.listed <= next /\ next <= Len(Messages)
        /\ next = box.listed => next = Len(Messages)
        /\ box' = IF Full(box) THEN [box EXCEPT !.stopped = TRUE]
                  ELSE IF next = box.listed THEN [box EXCEPT !.stopped = TRUE, !.remaining = FALSE]
                  ELSE [box EXCEPT !.listed = next]
  <2> DEFINE n == IF box.listed + PageSize > Len(Messages) THEN Len(Messages)
                  ELSE box.listed + PageSize
  <2>1. n \in Nat /\ box.listed <= n /\ n <= Len(Messages) /\ (n = box.listed => n = Len(Messages))
    BY <1>1, <1>2 DEF BoxInv
  <2>2. box' = IF Full(box) THEN [box EXCEPT !.stopped = TRUE]
               ELSE IF n = box.listed THEN [box EXCEPT !.stopped = TRUE, !.remaining = FALSE]
               ELSE [box EXCEPT !.listed = n]
    BY DEF ListPage
  <2> HIDE DEF n
  <2>3. QED
    BY <2>1, <2>2
<1>4. /\ box' \in Box /\ box'.acct = box.acct /\ box'.scanned = box.scanned
      /\ box'.threads = box.threads
  BY <1>2, <1>3 DEF Box
<1>5. /\ box'.scanned <= box'.listed /\ box'.listed <= Len(Messages)
      /\ box'.remaining \/ box'.scanned = Len(Messages)
      /\ box'.stopped => ~box'.remaining \/ Full(box)
  <2>1. CASE Full(box)
    BY <1>1, <1>2, <1>3, <2>1 DEF Box, BoxInv
  <2>2. CASE ~Full(box) /\ next = box.listed
    BY <1>1, <1>2, <1>3, <2>2 DEF Box, BoxInv
  <2>3. CASE ~Full(box) /\ next # box.listed
    BY <1>1, <1>2, <1>3, <2>3 DEF Box, BoxInv
  <2>4. QED
    BY <2>1, <2>2, <2>3
<1>6. BoxInv'
  <2>1. Messages' = Messages /\ Full(box)' = Full(box)
    BY <1>1, <1>4 DEF Messages, Full, Meaningful
  <2>2. KeptOf(box.acct, box.scanned)' = KeptOf(box.acct, box.scanned)
    BY <1>1, <1>4 DEF KeptOf
  <2>3. QED
    BY <1>1, <1>4, <1>5, <2>1, <2>2 DEF BoxInv, OfThread
<1>7. QED
  BY <1>1, <1>4, <1>6, ReadingKeeps

LEMMA ScanInv == ASSUME RollupInv, Scan PROVE RollupInv'
<1> USE RollupAssumption DEF RollupAssumption, RollupInv
<1> DEFINE n == box.scanned
           m == Messages[n + 1]
           ms == KeptOf(box.acct, n)
           b == [box EXCEPT !.scanned = @ + 1,
                   !.uncertain = IF m.date >= Since /\ m.kind = Uncertain THEN @ + 1 ELSE @,
                   !.threads = IF Kept(m) THEN WithMessage(@, m) ELSE @]
<1>1. /\ step = "read" /\ ~box.stopped /\ n < box.listed /\ box' = Looked(b)
      /\ UNCHANGED <<mailbox, step, cap, left, summary, found, output, caughtUp, flagged>>
  BY DEF Scan
<1>2. /\ box \in Box /\ box.acct \in Mailbox /\ n \in Nat /\ box.listed \in Nat
      /\ Len(Messages) \in Nat /\ box.listed <= Len(Messages) /\ Messages \in Seq(Message)
  BY <1>1 DEF ResultTypeOK, Box, Messages, BoxInv
<1>3. m \in Message /\ ms \in SUBSET Message
  <2>1. n + 1 \in 1 .. Len(Messages)
    BY <1>1, <1>2
  <2>2. m \in Message
    BY <1>2, <2>1
  <2>3. ms \in SUBSET Message
    BY <1>1, <1>2, KeptAreMessages DEF Messages
  <2>4. QED
    BY <2>2, <2>3
<1>4. KeptOf(box.acct, n + 1) = IF Kept(m) THEN ms \cup {m} ELSE ms
  BY <1>2, KeptGrows DEF Messages
<1>5. /\ DOMAIN box.threads = {o.thread : o \in ms} /\ box.threads \in Threads
      /\ \A t \in DOMAIN box.threads : StandsFor(box.threads[t].message, OfThread(ms, t))
  BY <1>1, <1>2 DEF BoxInv, Box
<1> DEFINE new == IF Kept(m) THEN WithMessage(box.threads, m) ELSE box.threads
<1>6. /\ new \in Threads /\ DOMAIN new = {o.thread : o \in KeptOf(box.acct, n + 1)}
      /\ \A t \in DOMAIN new : StandsFor(new[t].message, OfThread(KeptOf(box.acct, n + 1), t))
  <2> HIDE DEF n, m, ms
  <2>1. CASE Kept(m)
    <3>1. /\ WithMessage(box.threads, m) \in Threads
          /\ DOMAIN WithMessage(box.threads, m) = {o.thread : o \in ms \cup {m}}
          /\ \A t \in DOMAIN WithMessage(box.threads, m) :
               StandsFor(WithMessage(box.threads, m)[t].message, OfThread(ms \cup {m}, t))
      BY <1>3, <1>5, WithMessageStands
    <3>2. new = WithMessage(box.threads, m) /\ KeptOf(box.acct, n + 1) = ms \cup {m}
      BY <1>4, <2>1
    <3> HIDE DEF new
    <3>3. QED
      BY <3>1, <3>2
  <2>2. CASE ~Kept(m)
    BY <1>4, <1>5, <2>2
  <2>3. QED
    BY <2>1, <2>2
<1>7. /\ b \in Box /\ b.acct = box.acct /\ b.scanned = n + 1 /\ b.listed = box.listed
      /\ b.threads = new /\ b.remaining = box.remaining /\ b.stopped = FALSE
  <2> HIDE DEF m, new
  <2>1. new = IF Kept(m) THEN WithMessage(box.threads, m) ELSE box.threads
    BY DEF new
  <2>2. (IF m.date >= Since /\ m.kind = Uncertain THEN box.uncertain + 1 ELSE box.uncertain) \in Nat
    BY <1>2 DEF Box
  <2> DEFINE u == IF m.date >= Since /\ m.kind = Uncertain THEN box.uncertain + 1 ELSE box.uncertain
  <2>3. b = [box EXCEPT !.scanned = n + 1, !.uncertain = u, !.threads = new]
    BY <2>1
  <2>4. u \in Nat /\ n + 1 \in Nat /\ box \in Box /\ new \in Threads
    BY <1>2, <1>6, <2>2 DEF u
  <2> HIDE DEF b, u, n
  <2>5. /\ b \in Box /\ b.acct = box.acct /\ b.scanned = n + 1 /\ b.listed = box.listed
        /\ b.threads = new /\ b.remaining = box.remaining /\ b.stopped = box.stopped
    BY <2>3, <2>4 DEF Box
  <2>6. box.stopped = FALSE
    BY <1>1, <1>2 DEF Box
  <2>7. QED
    BY <2>5, <2>6
<1> HIDE DEF b, new, m, ms, n
<1>8. /\ box' \in Box /\ box'.acct = box.acct /\ box'.scanned = n + 1 /\ box'.listed = box.listed
      /\ box'.threads = new
      /\ box'.remaining \/ n + 1 = Len(Messages)
      /\ box'.stopped => ~box'.remaining \/ Full(b)
  <2>1. n \in Nat /\ n < box.listed /\ box.listed \in Nat /\ Len(Messages) \in Nat
        /\ box.listed <= Len(Messages)
    BY <1>1, <1>2
  <2>2. box.remaining \/ n = Len(Messages)
    BY <1>1 DEF BoxInv, n
  <2>3. box.remaining /\ box.remaining \in BOOLEAN
    BY <1>2, <2>1, <2>2 DEF Box
  <2>4. CASE box' = b /\ n + 1 <= box.listed
    BY <1>7, <2>3, <2>4
  <2>5. CASE box' = [b EXCEPT !.stopped = TRUE] /\ Full(b)
    BY <1>7, <2>3, <2>5 DEF Box
  <2>6. CASE box' = [b EXCEPT !.stopped = TRUE, !.remaining = FALSE] /\ n + 1 = Len(Messages)
    BY <1>7, <2>6 DEF Box
  <2>7. CASE n + 1 < box.listed
    BY <1>1, <1>7, <2>1, <2>4, <2>5, <2>7 DEF Looked
  <2>8. CASE ~(n + 1 < box.listed)
    <3>1. n + 1 = box.listed
      BY <2>1, <2>8
    <3>2. QED
      BY <1>1, <1>7, <2>1, <2>4, <2>6, <2>8, <3>1 DEF Looked
  <2>9. QED
    BY <2>7, <2>8
<1>9. BoxInv'
  <2>1. Messages' = Messages /\ Full(box)' = Full(b)
    BY <1>1, <1>7, <1>8 DEF Messages, Full, Meaningful
  <2>2. KeptOf(box.acct, box.scanned)' = KeptOf(box.acct, n + 1)
    BY <1>1, <1>8 DEF KeptOf
  <2>3. n + 1 <= box.listed
    BY <1>1, <1>2
  <2>4. QED
    BY <1>1, <1>2, <1>6, <1>8, <2>1, <2>2, <2>3 DEF BoxInv, OfThread
<1>10. QED
  BY <1>1, <1>8, <1>9, ReadingKeeps

LEMMA MailboxDoneInv == ASSUME RollupInv, MailboxDone PROVE RollupInv'
<1> USE RollupAssumption DEF RollupAssumption, RollupInv
<1>1. /\ step = "read" /\ box.stopped /\ step' = "next"
      /\ UNCHANGED <<mailbox, cap, left, output, caughtUp, flagged>>
  BY DEF MailboxDone
<1>2. PICK a \in Mailbox : a = box.acct /\ box \in Box
  BY <1>1 DEF ResultTypeOK, Box
<1>3. PICK threads \in Threads, truncated \in BOOLEAN, scanned \in Nat, uncertain \in Nat :
        /\ threads = box.threads /\ truncated = (box.remaining /\ Full(box))
        /\ scanned = box.scanned /\ uncertain = box.uncertain
  BY <1>2 DEF Box
<1> DEFINE entries == {[account |-> a, thread |-> t, kind |-> threads[t].message.kind,
                        date |-> threads[t].message.date,
                        unread |-> threads[t].unread] : t \in DOMAIN threads}
<1>4. /\ summary' = [summary EXCEPT ![a] = Read(scanned, truncated, uncertain)]
      /\ found' = found \cup entries
  BY <1>2, <1>3 DEF MailboxDone
<1>5. summary[a] = NotAsked /\ a \notin left
  BY <1>1, <1>2 DEF AheadInv
<1>6. entries \subseteq Entry
  <2>1. PICK T \in SUBSET Thread : threads \in [T -> [message : Message, unread : Nat]]
    BY DEF Threads
  <2>2. \A t \in T : /\ threads[t].message.kind \in Nat /\ threads[t].message.date \in Nat
                     /\ threads[t].unread \in Nat /\ t \in Thread
    BY <2>1 DEF Message, ToRespond, FYI, Noise, Uncertain
  <2>3. QED
    BY <2>1, <2>2 DEF Entry
<1>7. /\ summary' \in [Mailbox -> Summary] /\ summary'[a] = Read(scanned, truncated, uncertain)
      /\ \A b \in Mailbox \ {a} : summary'[b] = summary[b]
  BY <1>4 DEF ResultTypeOK, Read, Summary
<1>8. RollupTypeOK' /\ ResultTypeOK'
  <2>1. found' \subseteq Entry
    BY <1>4, <1>6 DEF ResultTypeOK
  <2>2. QED
    BY <1>1, <1>7, <2>1 DEF RollupTypeOK, ResultTypeOK
<1>9. BoxInv' /\ DoneInv'
  BY <1>1 DEF BoxInv, DoneInv
<1>10. AheadInv'
  <2>1. \A b \in left : b \in Mailbox /\ b # a /\ summary[b] = NotAsked
    BY <1>5 DEF AheadInv, RollupTypeOK
  <2>2. QED
    BY <1>1, <1>7, <2>1 DEF AheadInv
<1>11. \A g \in found : g.account \in Mailbox /\ g.account # a
  BY <1>5 DEF FoundInv, NotAsked, ResultTypeOK, Entry
<1>12. \A g \in entries : g.account = a
  OBVIOUS
<1>13. ASSUME ~truncated
       PROVE  {Shown(f) : f \in {g \in found' : g.account = a}} = Expected(a)
  <2>1. box.scanned = Len(mailbox[a])
    BY <1>1, <1>2, <1>3, <1>13 DEF BoxInv, Messages
  <2>2. KeptOf(a, box.scanned) = Wanted(a)
    BY <2>1, KeptOfAll
  <2>3. /\ DOMAIN threads = {m.thread : m \in Wanted(a)}
        /\ \A t \in DOMAIN threads : StandsFor(threads[t].message, OfThread(Wanted(a), t))
    BY <1>1, <1>2, <1>3, <2>2 DEF BoxInv
  <2>4. {[thread |-> t, kind |-> threads[t].message.kind, date |-> threads[t].message.date] :
           t \in DOMAIN threads} = Expected(a)
    BY <2>3, StandsAsExpected
  <2>5. {g \in found' : g.account = a} = entries
    <3> HIDE DEF entries
    <3>1. QED
      BY <1>4, <1>11, <1>12
  <2>6. {Shown(f) : f \in entries} =
          {[thread |-> t, kind |-> threads[t].message.kind, date |-> threads[t].message.date] :
             t \in DOMAIN threads}
    <3> DEFINE E(t) == [account |-> a, thread |-> t, kind |-> threads[t].message.kind,
                        date |-> threads[t].message.date, unread |-> threads[t].unread]
               G(t) == [thread |-> t, kind |-> threads[t].message.kind,
                        date |-> threads[t].message.date]
    <3>1. \A t : Shown(E(t)) = G(t)
      BY DEF Shown
    <3> HIDE DEF E, G
    <3>2. {Shown(f) : f \in {E(t) : t \in DOMAIN threads}} = {G(t) : t \in DOMAIN threads}
      BY <3>1
    <3>3. QED
      BY <3>2 DEF E, G
  <2> HIDE DEF entries
  <2>7. QED
    BY <2>4, <2>5, <2>6
<1>14. FoundInv'
  <2> HIDE DEF entries
  <2>1. \A f \in found' : summary'[f.account].is = "read"
    BY <1>4, <1>7, <1>11, <1>12 DEF FoundInv, Read
  <2>2. ASSUME NEW b \in Mailbox, summary'[b].is = "read", ~summary'[b].truncated
        PROVE  {Shown(f) : f \in {g \in found' : g.account = b}} = Expected(b)'
    <3>1. Expected(b)' = Expected(b)
      BY <1>1, ExpectedStays
    <3>2. CASE b = a
      BY <1>7, <1>13, <2>2, <3>1, <3>2 DEF Read
    <3>3. CASE b # a
      <4>1. {g \in found' : g.account = b} = {g \in found : g.account = b}
        BY <1>4, <1>12, <3>3
      <4>2. {Shown(f) : f \in {g \in found : g.account = b}} = Expected(b)
        BY <1>7, <2>2, <3>3 DEF FoundInv
      <4>3. QED
        BY <3>1, <4>1, <4>2
    <3>4. QED
      BY <3>2, <3>3
  <2>3. QED
    BY <2>1, <2>2 DEF FoundInv, Shown
<1>15. QED
  BY <1>8, <1>9, <1>10, <1>14

LEMMA MailboxFailsInv ==
  ASSUME RollupInv, NEW e \in Failures, MailboxFails(e) PROVE RollupInv'
<1> USE RollupAssumption DEF RollupAssumption, RollupInv
<1>1. /\ step = "read" /\ step' = "next" /\ UNCHANGED <<mailbox, cap, left, found, output, caughtUp>>
      /\ summary' = [summary EXCEPT ![box.acct] = Error(e)]
  BY DEF MailboxFails
<1>2. PICK a \in Mailbox : a = box.acct /\ summary[a] = NotAsked /\ a \notin left
  BY <1>1 DEF ResultTypeOK, Box, AheadInv
<1>3. /\ summary' \in [Mailbox -> Summary] /\ summary'[a] = Error(e)
      /\ \A b \in Mailbox \ {a} : summary'[b] = summary[b]
  BY <1>1, <1>2 DEF ResultTypeOK, Error, Summary
<1>4. RollupTypeOK'
  <2>1. flagged' \subseteq Mailbox
    BY <1>2 DEF MailboxFails, RollupTypeOK
  <2>2. QED
    BY <1>1, <2>1 DEF RollupTypeOK
<1>5. ResultTypeOK' /\ BoxInv' /\ DoneInv'
  BY <1>1, <1>3 DEF ResultTypeOK, BoxInv, DoneInv
<1>6. AheadInv'
  <2>1. \A b \in left : b \in Mailbox /\ b # a /\ summary[b] = NotAsked
    BY <1>2 DEF AheadInv, RollupTypeOK
  <2>2. QED
    BY <1>1, <1>3, <2>1 DEF AheadInv
<1>7. FoundInv'
  <2>1. \A g \in found : g.account \in Mailbox /\ g.account # a
    BY <1>2 DEF FoundInv, NotAsked, ResultTypeOK, Entry
  <2>2. ASSUME NEW b \in Mailbox, summary'[b].is = "read", ~summary'[b].truncated
        PROVE  {Shown(f) : f \in {g \in found' : g.account = b}} = Expected(b)'
    <3>1. b # a
      BY <1>3, <2>2 DEF Error, Failures
    <3>2. QED
      BY <1>1, <1>3, <2>2, <3>1, ExpectedStays DEF FoundInv
  <2>3. QED
    BY <1>1, <1>3, <2>1, <2>2 DEF FoundInv, Shown
<1>8. QED
  BY <1>4, <1>5, <1>6, <1>7

LEMMA FinishInv == ASSUME RollupInv, Finish PROVE RollupInv'
<1> USE RollupAssumption DEF RollupAssumption, RollupInv
<1>1. /\ step = "next" /\ left = {} /\ step' = "done" /\ output' \in Sorted(found)
      /\ caughtUp' = NothingToReport
      /\ UNCHANGED <<mailbox, cap, left, box, summary, found, flagged>>
  BY DEF Finish
<1>2. RollupTypeOK'
  BY <1>1 DEF RollupTypeOK, NothingToReport
<1>3. ResultTypeOK' /\ BoxInv' /\ AheadInv'
  BY <1>1 DEF ResultTypeOK, BoxInv, AheadInv
<1>4. FoundInv'
  BY <1>1, ExpectedStays DEF FoundInv, Shown
<1>5. DoneInv'
  <2>1. Sorted(found)' = Sorted(found)
    BY <1>1 DEF Sorted, Before
  <2>2. NothingToReport' = NothingToReport
    BY <1>1 DEF NothingToReport
  <2>3. QED
    BY <1>1, <2>1, <2>2 DEF DoneInv
<1>6. QED
  BY <1>2, <1>3, <1>4, <1>5

LEMMA RollupInvariant == RollupSpec => []RollupInv
<1>1. RollupInv /\ [RollupNext]_rollupVars => RollupInv'
  <2> SUFFICES ASSUME RollupInv, [RollupNext]_rollupVars PROVE RollupInv'
    OBVIOUS
  <2>1. CASE UNCHANGED rollupVars
    <3> USE <2>1 DEF rollupVars, RollupInv
    <3>1. RollupTypeOK' /\ ResultTypeOK'
      <4>1. RollupTypeOK'
        BY DEF RollupTypeOK
      <4>2. ResultTypeOK'
        BY DEF ResultTypeOK
      <4>3. QED
        BY <4>1, <4>2
    <3>2. BoxInv'
      <4>1. /\ Messages' = Messages /\ Full(box)' = Full(box)
            /\ KeptOf(box.acct, box.scanned)' = KeptOf(box.acct, box.scanned)
        BY DEF Messages, Full, Meaningful, KeptOf
      <4>2. QED
        BY <4>1 DEF BoxInv, OfThread
    <3>3. AheadInv'
      BY DEF AheadInv
    <3>4. FoundInv'
      BY ExpectedStays DEF FoundInv, Shown
    <3>5. DoneInv'
      BY DEF DoneInv, Sorted, Before, NothingToReport
    <3>6. QED
      BY <3>1, <3>2, <3>3, <3>4, <3>5
  <2>2. QED
    BY <2>1, ResolveInv, BeginInv, ListPageInv, ScanInv, MailboxDoneInv, MailboxFailsInv, FinishInv
       DEF RollupNext
<1>2. QED
  BY RollupInitInv, <1>1, PTL DEF RollupSpec

\* Every reachable state of the rollup is well typed.
THEOREM RollupTypeCorrect == RollupSpec => []RollupTypeOK
<1>1. RollupInv => RollupTypeOK
  BY DEF RollupInv
<1>2. QED
  BY <1>1, RollupInvariant, PTL

LEMMA WholeFromInv == RollupInv => WholeUnlessTruncated
<1> SUFFICES ASSUME RollupInv, step = "done" PROVE
      /\ \A a \in Mailbox :
           summary[a].is = "read" /\ ~summary[a].truncated => Reported(a) = Expected(a)
      /\ \A i, j \in DOMAIN output : i < j =>
           \/ output[i].kind < output[j].kind
           \/ output[i].kind = output[j].kind /\ output[i].date >= output[j].date
  BY DEF WholeUnlessTruncated
<1> USE DEF RollupInv
<1>1. /\ output \in [1 .. Cardinality(found) -> found]
      /\ \A p \in found : \E i \in DOMAIN output : output[i] = p
      /\ \A i, j \in DOMAIN output : i < j => ~Before(output[j], output[i])
  BY DEF DoneInv, Sorted
<1>2. ASSUME NEW a \in Mailbox, summary[a].is = "read", ~summary[a].truncated
      PROVE  Reported(a) = Expected(a)
  <2>1. {output[i] : i \in {n \in DOMAIN output : output[n].account = a}} =
          {g \in found : g.account = a}
    BY <1>1
  <2>2. Reported(a) = {Shown(f) : f \in {g \in found : g.account = a}}
    BY <2>1 DEF Reported, Shown
  <2>3. QED
    BY <1>2, <2>2 DEF FoundInv
<1>3. ASSUME NEW i \in DOMAIN output, NEW j \in DOMAIN output, i < j
      PROVE  \/ output[i].kind < output[j].kind
             \/ output[i].kind = output[j].kind /\ output[i].date >= output[j].date
  <2>1. ~Before(output[j], output[i])
    BY <1>1, <1>3
  <2>2. /\ output[i].kind \in Nat /\ output[i].date \in Nat
        /\ output[j].kind \in Nat /\ output[j].date \in Nat
    BY <1>1 DEF ResultTypeOK, Entry
  <2>3. QED
    BY <2>1, <2>2 DEF Before
<1>4. QED
  BY <1>2, <1>3

\* A mailbox reported without an error and without a truncation is reported whole
\* and in order, for every list of messages, page size and limit
\* (rollup.py, build_rollup).
THEOREM RollupIsWhole == RollupSpec => []WholeUnlessTruncated
  BY WholeFromInv, RollupInvariant, PTL

LEMMA CaughtUpFromInv == RollupInv => CaughtUpExplained
<1> SUFFICES ASSUME RollupInv, caughtUp, NEW a \in Mailbox, summary[a] # NotAsked
             PROVE  \/ summary[a].is = "read" /\ (Wanted(a) = {} \/ summary[a].truncated)
                    \/ summary[a].is = "silent"
  BY DEF CaughtUpExplained
<1> USE DEF RollupInv
<1>1. found = {} /\ summary[a].is \in {"none", "read", "silent"}
  BY DEF DoneInv, NothingToReport
<1>2. summary[a].is \in {"read", "silent"}
  BY <1>1 DEF ResultTypeOK, Summary, Failures, NotAsked
<1>3. ASSUME summary[a].is = "read", ~summary[a].truncated PROVE Wanted(a) = {}
  <2>1. Expected(a) = {}
    BY <1>1, <1>3 DEF FoundInv
  <2>2. QED
    BY <2>1 DEF Expected
<1>4. QED
  BY <1>2, <1>3

\* The owner is told to be caught up only if every mailbox that was asked for was
\* read, and what was not cut off has no message to keep; but for a failure whose
\* text is empty (__init__.py and rollup.py).
THEOREM CaughtUpIsExplained == RollupSpec => []CaughtUpExplained
  BY CaughtUpFromInv, RollupInvariant, PTL

-----------------------------------------------------------------------------
(* The accounts: AccountSet. *)

\* A new token is later than all that memory knows.
CountInv ==
  \A a \in Account : file[a] <= issued[a] /\ seen[a] <= issued[a] /\ listing[a] <= issued[a]

\* Until the loops run, nothing was reconciled.
StartInv ==
  /\ booting # {} => runtime = "starting"
  /\ runtime # "running" => \A a \in Account : seen[a] = None

\* A drain that serves a with another token than the one in a's file.
Outdated(a) ==
  /\ drain.acct = a
  /\ file[a] # None
  /\ ~(drain.box = a /\ drain.token = file[a])

\* While it runs, the reconciler cannot have taken the file's token for tried,
\* and will not: that is what PollCompare waits for.
DrainInv ==
  \A a \in Account : Outdated(a) =>
    /\ seen[a] # file[a]
    /\ poll \in {"removing", "adding"} => listing[a] # file[a]

IndInv == TypeOK /\ CountInv /\ StartInv /\ DrainInv /\ SkippedForCause

-----------------------------------------------------------------------------
\* The steps, with the ones that only move the poll thread or the tools on.
LEMMA Steps ==
  ASSUME [Next]_vars
  PROVE  \/ UNCHANGED vars
         \/ Boot \/ Serve \/ Crash \/ DrainDone \/ DrainAuthFails
         \/ PollList \/ PollListFails \/ PollCompare \/ PollRemoved \/ PollReconciled
         \/ PollSleep \/ ChatAdd \/ ChatDelete \/ ChatRemove \/ DashDelete
         \/ \E a \in Account :
              \/ ArmAtStart(a) \/ PushDrain(a) \/ TokenDies(a)
              \/ PollRemove(a) \/ PollPass(a) \/ PollAdd(a) \/ PollDrain(a)
              \/ ChatConnect(a) \/ ChatDisconnect(a) \/ DashConnect(a) \/ DashDisconnect(a)
              \/ PollListTorn(a)
BY AccountSetAssumption DEF Next, StartStep, DrainStep, PollStep, ChatStep, AccountSetAssumption

\* A service is built for a connected mailbox.
LEMMA SourceConnected ==
  ASSUME NEW a \in Account, Source(a) # NoAccount
  PROVE  Source(a) \in Account /\ file[Source(a)] # None
<1>1. CASE file[a] # None
  BY <1>1 DEF Source
<1>2. CASE file[a] = None /\ \E o \in Account : Connected = {o}
  <2>1. Source(a) = CHOOSE o \in Account : Connected = {o}
    BY <1>2 DEF Source
  <2>2. Source(a) \in Account /\ Connected = {Source(a)}
    BY <1>2, <2>1
  <2>3. QED
    BY <2>2 DEF Connected
<1>3. QED
  BY <1>1, <1>2 DEF Source

-----------------------------------------------------------------------------
LEMMA InitInv == Init => IndInv
<1> SUFFICES ASSUME Init PROVE IndInv
  OBVIOUS
<1> USE AccountSetAssumption DEF AccountSetAssumption, Init, Token, None
<1>1. TypeOK
  BY DEF TypeOK
<1>2. CountInv /\ StartInv
  BY DEF CountInv, StartInv
<1>3. DrainInv
  BY DEF DrainInv, Outdated, NoDrain
<1>4. SkippedForCause
  BY DEF SkippedForCause
<1>5. QED
  BY <1>1, <1>2, <1>3, <1>4 DEF IndInv

LEMMA SaveType ==
  ASSUME TypeOK, NEW a \in Account, Save(a)
  PROVE  /\ file' \in [Account -> Token] /\ issued' \in [Account -> Token]
         /\ dead' \in [Account -> SUBSET (Token \ {None})]
         /\ excuse' \subseteq Account
         /\ issued'[a] = issued[a] + 1
<1>1. issued'[a] \in Token /\ issued'[a] = issued[a] + 1
  BY AccountSetAssumption DEF AccountSetAssumption, Save, TypeOK, Token, None
<1>2. QED
  BY <1>1 DEF Save, TypeOK

LEMMA BeginType ==
  ASSUME TypeOK, NEW a \in Account, NEW by \in {"poll", "push"}, BeginDrain(a, by)
  PROVE  drain' \in [by : {"poll", "push"}, acct : Account, box : Account,
                     token : Token \ {None}]
<1>1. Source(a) \in Account /\ file[Source(a)] # None
  BY SourceConnected DEF BeginDrain
<1>2. QED
  BY <1>1 DEF BeginDrain, TypeOK

LEMMA StepType == TypeOK /\ [Next]_vars => TypeOK'
<1> SUFFICES ASSUME TypeOK, [Next]_vars PROVE TypeOK'
  OBVIOUS
<1> USE DEF tokens, routing, polling
<1>1. CASE UNCHANGED vars
  BY <1>1 DEF vars, TypeOK
<1>2. CASE Boot \/ Serve \/ Crash \/ \E a \in Account : ArmAtStart(a)
  BY <1>2, AccountSetAssumption
     DEF Boot, Serve, Crash, ArmAtStart, TypeOK, Connected, Token, None, AccountSetAssumption
<1>3. CASE DrainDone \/ DrainAuthFails
  <2>1. excuse' \subseteq Account /\ managed' \subseteq Account /\ drain' = NoDrain
    BY <1>3 DEF DrainDone, DrainAuthFails, TypeOK, Excuse, Free, NoDrain
  <2>2. UNCHANGED <<tokens, runtime, booting, seen, polling, chat, dash>>
    BY <1>3 DEF DrainDone, DrainAuthFails
  <2>3. QED
    BY <2>1, <2>2 DEF TypeOK
<1>4. ASSUME NEW a \in Account, PushDrain(a) \/ PollDrain(a) PROVE TypeOK'
  <2>1. drain' \in [by : {"poll", "push"}, acct : Account, box : Account,
                    token : Token \ {None}] \cup {NoDrain}
    BY <1>4, BeginType DEF PushDrain, PollDrain, TypeOK
  <2>2. QED
    BY <1>4, <2>1 DEF PushDrain, PollDrain, TypeOK
<1>5. CASE PollList \/ PollListFails \/ PollCompare \/ PollRemoved \/ PollReconciled \/ PollSleep
  BY <1>5, AccountSetAssumption
     DEF PollList, PollListFails, PollCompare, PollRemoved, PollReconciled, PollSleep, TypeOK,
         Token, None, AccountSetAssumption
<1>5a. ASSUME NEW a \in Account, PollListTorn(a) PROVE TypeOK'
  BY <1>5a, AccountSetAssumption DEF PollListTorn, TypeOK, Token, None, AccountSetAssumption
<1>6. ASSUME NEW a \in Account, PollRemove(a) \/ PollPass(a) \/ PollAdd(a) PROVE TypeOK'
  BY <1>6, AccountSetAssumption
     DEF PollRemove, PollPass, PollAdd, Added, NotAdded, Excuse, TypeOK, Token, None,
         AccountSetAssumption
<1>7. ASSUME NEW a \in Account, ChatConnect(a) \/ DashConnect(a) PROVE TypeOK'
  <2>1. Save(a)
    BY <1>7 DEF ChatConnect, DashConnect
  <2>2. QED
    BY <1>7, <2>1, SaveType DEF ChatConnect, DashConnect, TypeOK
<1>8. ASSUME NEW a \in Account, ChatDisconnect(a) \/ DashDisconnect(a) \/ TokenDies(a)
      PROVE  TypeOK'
  <2>1. \A o \in Account : file[o] # None => file[o] \in Token \ {None}
    BY DEF TypeOK
  <2>2. dead' \in [Account -> SUBSET (Token \ {None})]
    BY <1>8, <2>1, SourceConnected
       DEF ChatDisconnect, DashDisconnect, TokenDies, Revoke, Honoured, TypeOK
  <2>3. QED
    BY <1>8, <2>2 DEF ChatDisconnect, DashDisconnect, TokenDies, TypeOK
<1>9. CASE ChatAdd \/ ChatRemove \/ ChatDelete
  <2>1. chat \in [at : {"saved", "revoked", "deleted"}, acct : Account]
    BY <1>9 DEF ChatAdd, ChatRemove, ChatDelete, TypeOK, NoChat
  <2>2. CASE ChatAdd \/ ChatRemove
    BY <2>1, <2>2 DEF ChatAdd, ChatRemove, Added, NotAdded, Excuse, TypeOK
  <2>3. CASE ChatDelete
    <3>1. file' \in [Account -> Token]
      BY <2>1, <2>3, AccountSetAssumption
         DEF ChatDelete, Delete, TypeOK, Token, None, AccountSetAssumption
    <3>2. QED
      BY <2>1, <2>3, <3>1 DEF ChatDelete, Delete, TypeOK
  <2>4. QED
    BY <1>9, <2>2, <2>3
<1>10. CASE DashDelete
  BY <1>10, AccountSetAssumption
     DEF DashDelete, Delete, TypeOK, Token, None, AccountSetAssumption
<1>11. QED
  BY Steps, <1>1, <1>2, <1>3, <1>4, <1>5, <1>5a, <1>6, <1>7, <1>8, <1>9, <1>10

-----------------------------------------------------------------------------
LEMMA StepCount == TypeOK /\ CountInv /\ [Next]_vars => CountInv'
<1> SUFFICES ASSUME TypeOK, CountInv, [Next]_vars PROVE CountInv'
  OBVIOUS
<1> USE DEF tokens, routing, polling
<1>0. \A a \in Account : /\ file[a] \in Nat /\ seen[a] \in Nat
                         /\ listing[a] \in Nat /\ issued[a] \in Nat
  BY AccountSetAssumption DEF TypeOK, Token, None, AccountSetAssumption
<1>1. ASSUME UNCHANGED <<file, seen, listing, issued>> PROVE CountInv'
  BY <1>1 DEF CountInv
<1>2. CASE Crash \/ PollList \/ PollReconciled
  BY <1>0, <1>2 DEF Crash, PollList, PollReconciled, CountInv, None
<1>2a. ASSUME NEW a \in Account, PollListTorn(a) PROVE CountInv'
  BY <1>0, <1>2a DEF PollListTorn, CountInv, TypeOK, None
<1>3. ASSUME NEW a \in Account, PollRemove(a) \/ PollPass(a) \/ PollAdd(a) PROVE CountInv'
  BY <1>0, <1>3 DEF PollRemove, PollPass, PollAdd, CountInv, TypeOK, None
<1>4. ASSUME NEW a \in Account, ChatConnect(a) \/ DashConnect(a) PROVE CountInv'
  <2>1. Save(a) /\ UNCHANGED <<seen, listing>>
    BY <1>4 DEF ChatConnect, DashConnect
  <2>2. QED
    BY <1>0, <2>1, SaveType DEF Save, CountInv, TypeOK
<1>5. CASE ChatDelete \/ DashDelete
  <2>1. /\ UNCHANGED <<seen, listing, issued>>
        /\ \A a \in Account : file'[a] \in {file[a], None}
    BY <1>5 DEF ChatDelete, DashDelete, Delete, TypeOK
  <2>2. QED
    BY <1>0, <2>1 DEF CountInv, None
<1>6. QED
  BY Steps, <1>1, <1>2, <1>2a, <1>3, <1>4, <1>5
     DEF vars, Boot, Serve, ArmAtStart, DrainDone, DrainAuthFails, PushDrain, TokenDies,
         PollListFails, PollCompare, PollRemoved, PollSleep, PollDrain, ChatAdd, ChatRemove,
         ChatDisconnect, DashDisconnect

LEMMA StepStart == TypeOK /\ StartInv /\ [Next]_vars => StartInv'
<1> SUFFICES ASSUME TypeOK, StartInv, [Next]_vars PROVE StartInv'
  OBVIOUS
<1> USE DEF tokens, routing, polling
<1>1. ASSUME UNCHANGED <<runtime, booting, seen>> PROVE StartInv'
  BY <1>1 DEF StartInv
<1>2. CASE Boot \/ Serve \/ Crash \/ \E a \in Account : ArmAtStart(a)
  BY <1>2 DEF Boot, Serve, Crash, ArmAtStart, StartInv
<1>3. ASSUME NEW a \in Account, PollRemove(a) \/ PollPass(a) \/ PollAdd(a) PROVE StartInv'
  BY <1>3 DEF PollRemove, PollPass, PollAdd, Polling, StartInv
<1>4. QED
  BY Steps, <1>1, <1>2, <1>3
     DEF vars, DrainDone, DrainAuthFails, PushDrain, TokenDies, PollList, PollListTorn, PollReconciled,
         PollListFails, PollCompare, PollRemoved, PollSleep, PollDrain, ChatAdd, ChatRemove,
         ChatDelete, DashDelete, ChatConnect, DashConnect, ChatDisconnect, DashDisconnect

-----------------------------------------------------------------------------
\* A token just saved is none that the reconciler knows.
LEMMA SavedIsNew ==
  ASSUME TypeOK, CountInv, NEW a \in Account, Save(a)
  PROVE  /\ file'[a] # seen[a] /\ file'[a] # listing[a]
         /\ \A o \in Account \ {a} : file'[o] = file[o]
<1>1. issued[a] \in Nat /\ seen[a] \in Nat /\ listing[a] \in Nat
  BY AccountSetAssumption DEF TypeOK, Token, None, AccountSetAssumption
<1>2. file'[a] = issued[a] + 1 /\ \A o \in Account \ {a} : file'[o] = file[o]
  BY SaveType DEF Save, TypeOK
<1>3. QED
  BY <1>1, <1>2 DEF CountInv

LEMMA StepDrain == TypeOK /\ CountInv /\ DrainInv /\ [Next]_vars => DrainInv'
<1> SUFFICES ASSUME TypeOK, CountInv, DrainInv, [Next]_vars,
                    NEW a \in Account, Outdated(a)'
             PROVE  /\ seen'[a] # file'[a]
                    /\ poll' \in {"removing", "adding"} => listing'[a] # file'[a]
  BY DEF DrainInv
<1> USE DEF tokens, routing, polling
<1>1. ASSUME drain = NoDrain, UNCHANGED drain PROVE FALSE
  BY <1>1, AccountSetAssumption DEF Outdated, NoDrain, AccountSetAssumption
<1>2. ASSUME drain' = NoDrain PROVE FALSE
  BY <1>2, AccountSetAssumption DEF Outdated, NoDrain, AccountSetAssumption
<1>3. ASSUME NEW b \in Account, NEW by, BeginDrain(b, by), UNCHANGED file PROVE FALSE
  BY <1>3 DEF BeginDrain, Outdated, Source
<1>4. CASE UNCHANGED <<drain, file, seen>> /\
           (poll' \in {"removing", "adding"} => poll \in {"removing", "adding"} /\ UNCHANGED listing)
  BY <1>4 DEF DrainInv, Outdated
<1>5. CASE \E b \in Account : PollPass(b)
  <2>1. Outdated(a)
    BY <1>5 DEF PollPass, Outdated
  <2>2. poll = "adding" /\ seen'[a] \in {seen[a], listing[a]}
    BY <1>5 DEF PollPass, Polling, TypeOK
  <2>3. QED
    BY <1>5, <2>1, <2>2 DEF PollPass, DrainInv
<1>6. ASSUME NEW b \in Account, ChatConnect(b) \/ DashConnect(b)
      PROVE  /\ seen'[a] # file'[a]
             /\ poll' \in {"removing", "adding"} => listing'[a] # file'[a]
  <2>1. Save(b) /\ UNCHANGED <<drain, seen, poll, listing>>
    BY <1>6 DEF ChatConnect, DashConnect
  <2>2. CASE a = b
    BY <2>1, <2>2, SavedIsNew
  <2>3. CASE a # b
    BY <2>1, <2>3, SavedIsNew DEF Outdated, DrainInv
  <2>4. QED
    BY <2>2, <2>3
<1>7. CASE ChatDelete \/ DashDelete
  <2>1. UNCHANGED <<drain, seen, poll, listing>> /\ file'[a] \in {file[a], None}
    BY <1>7 DEF ChatDelete, DashDelete, Delete, TypeOK
  <2>2. QED
    BY <2>1 DEF Outdated, DrainInv
<1>8. CASE Crash \/ DrainDone \/ DrainAuthFails
  BY <1>2, <1>8 DEF Crash, DrainDone, DrainAuthFails
<1>9. CASE PollCompare \/ \E b \in Account : PollRemove(b) \/ PollAdd(b)
  BY <1>1, <1>9 DEF PollCompare, PollRemove, PollAdd, Free
<1>10. ASSUME NEW b \in Account, PushDrain(b) \/ PollDrain(b) PROVE FALSE
  BY <1>1, <1>3, <1>10 DEF PushDrain, PollDrain, Free
<1>11. QED
  BY Steps, <1>4, <1>5, <1>6, <1>7, <1>8, <1>9, <1>10
     DEF vars, Boot, Serve, ArmAtStart, TokenDies, PollList, PollListTorn, PollReconciled, PollListFails,
         PollRemoved, PollSleep, ChatAdd, ChatRemove, ChatDisconnect, DashDisconnect, Polling

-----------------------------------------------------------------------------
LEMMA StepSkipped == IndInv /\ [Next]_vars => SkippedForCause'
<1> SUFFICES ASSUME IndInv, [Next]_vars, NEW a \in Account,
                    file'[a] # None, a \notin managed', seen'[a] = file'[a]
             PROVE  a \in excuse'
  BY DEF SkippedForCause
<1> USE DEF IndInv, tokens, routing, polling
<1>1. CASE /\ UNCHANGED <<file, seen>> /\ excuse \subseteq excuse'
           /\ a \in managed => a \in managed'
  BY <1>1 DEF SkippedForCause
<1>2. CASE Crash \/ \E b \in Account : ArmAtStart(b)
  BY <1>2 DEF Crash, ArmAtStart, StartInv
<1>3. CASE DrainAuthFails
  <2>1. UNCHANGED <<file, seen>> /\ excuse \subseteq excuse'
    BY <1>3 DEF DrainAuthFails, Excuse
  <2>2. CASE a # drain.acct
    BY <1>1, <1>3, <2>1, <2>2 DEF DrainAuthFails
  <2>3. CASE a = drain.acct /\ Outdated(a)
    BY <2>1, <2>3 DEF DrainInv
  <2>4. CASE a = drain.acct /\ ~Outdated(a)
    BY <1>3, <2>1, <2>4 DEF DrainAuthFails, Excuse, Outdated
  <2>5. QED
    BY <2>2, <2>3, <2>4
<1>4. ASSUME NEW b \in Account, PollRemove(b) PROVE a \in excuse'
  <2>1. a # b
    BY <1>4 DEF PollRemove, TypeOK
  <2>2. QED
    BY <1>1, <1>4, <2>1 DEF PollRemove, TypeOK, SkippedForCause
<1>5. ASSUME NEW b \in Account, PollPass(b) PROVE a \in excuse'
  <2>1. seen'[a] = seen[a]
    BY <1>5 DEF PollPass, TypeOK
  <2>2. QED
    BY <1>5, <2>1 DEF PollPass, SkippedForCause
<1>6. ASSUME NEW b \in Account, PollAdd(b) PROVE a \in excuse'
  <2>1. CASE a = b
    BY <1>6, <2>1 DEF PollAdd, Added, NotAdded, Excuse, TypeOK
  <2>2. CASE a # b
    BY <1>6, <2>2 DEF PollAdd, Added, NotAdded, Excuse, TypeOK, SkippedForCause
  <2>3. QED
    BY <2>1, <2>2
<1>7. ASSUME NEW b \in Account, ChatConnect(b) \/ DashConnect(b) PROVE a \in excuse'
  <2>1. Save(b) /\ UNCHANGED <<managed, seen>>
    BY <1>7 DEF ChatConnect, DashConnect
  <2>2. a # b /\ file'[a] = file[a]
    BY <2>1, SavedIsNew
  <2>3. QED
    BY <2>1, <2>2 DEF Save, SkippedForCause
<1>8. CASE ChatDelete \/ DashDelete
  <2>1. file'[a] = file[a] /\ UNCHANGED <<managed, seen, excuse>>
    BY <1>8 DEF ChatDelete, DashDelete, Delete, TypeOK
  <2>2. QED
    BY <2>1 DEF SkippedForCause
<1>9. CASE ChatRemove
  <2>1. CASE a = chat.acct /\ a \in managed
    BY <1>9, <2>1 DEF ChatRemove, Excuse
  <2>2. CASE ~(a = chat.acct /\ a \in managed)
    BY <1>9, <2>2 DEF ChatRemove, Excuse, SkippedForCause
  <2>3. QED
    BY <2>1, <2>2
<1>10. CASE ChatAdd \/ Boot
  BY <1>10 DEF ChatAdd, Added, NotAdded, Boot, Connected, SkippedForCause
<1>11. QED
  BY Steps, <1>1, <1>2, <1>3, <1>4, <1>5, <1>6, <1>7, <1>8, <1>9, <1>10
     DEF vars, Serve, DrainDone, PushDrain, TokenDies, PollList, PollListTorn, PollReconciled, PollListFails,
         PollCompare, PollRemoved, PollSleep, PollDrain, ChatDisconnect, DashDisconnect

-----------------------------------------------------------------------------
LEMMA Invariant == Spec => []IndInv
<1>1. IndInv /\ [Next]_vars => IndInv'
  BY StepType, StepCount, StepStart, StepDrain, StepSkipped DEF IndInv
<1>2. QED
  BY InitInv, <1>1, PTL DEF Spec

\* Every reachable state of the gateway, its tools and the dashboard is well
\* typed; no drain starts without a token (BeginDrain).
THEOREM TypeCorrect == Spec => []TypeOK
<1>1. IndInv => TypeOK
  BY DEF IndInv
<1>2. QED
  BY <1>1, Invariant, PTL

\* The reconciler takes no token for tried that was not, whatever drains, hot
\* adds, reconnects and disconnects run between its steps (runtime.py 300-346).
THEOREM SkipsForCause == Spec => []SkippedForCause
<1>1. IndInv => SkippedForCause
  BY DEF IndInv
<1>2. QED
  BY <1>1, Invariant, PTL

==============================================================================
