---------------------------- MODULE WatchesProofs ----------------------------
(***************************************************************************)
(* Proofs about Watches for every set of accounts, every life of a watch   *)
(* and every buffer shorter than it, and any number of tokens.             *)
(***************************************************************************)
EXTENDS Watches, TLAPS

MissesInv == misses \in [Account -> 0 .. Buffer]

\* Gmail's watch lives at least as long as the account believes.
OutlivesBelief(a) == a \notin astray => watch[a] >= believed[a]

\* An expiry within the buffer was met by a failure at each check since, the
\* one of the pass under way perhaps still to come.
FailedSinceDue(a) ==
  believed[a] <= Buffer =>
    \/ misses[a] = Buffer
    \/ misses[a] + believed[a] > Buffer
    \/ a \in todo \ old /\ misses[a] + believed[a] = Buffer

WatchInv == \A a \in managed : OutlivesBelief(a) /\ FailedSinceDue(a)

\* An account dropped for the token it still has cannot be added with it.
DropInv ==
  /\ dropped \cap managed = {}
  /\ \A a \in dropped : file[a] \in dead[a]
  /\ dropped \subseteq flagged \cup silent

\* The chat is about to add a, or the account is served already.
Serving(a) == a \in managed \/ chat = [at |-> "unflagged", acct |-> a]

FlagInv ==
  \A a \in Account :
    a \in flagged /\ Serving(a) /\ Honoured(a) =>
      \/ a \in stale
      \/ chat = [at |-> "saved", acct |-> a]
      \/ poll.at = "added" /\ poll.acct = a

IndInv == TypeOK /\ MissesInv /\ dropped \subseteq Account /\ WatchInv /\ DropInv /\ FlagInv

-----------------------------------------------------------------------------
(* Types. *)

LEMMA Bounds ==
  /\ Buffer \in Nat /\ Buffer >= 1 /\ Life \in Nat /\ Life > Buffer
  /\ MaxTokens \in Nat /\ MaxTokens >= 1 /\ NoAccount \notin Account /\ Busy \subseteq Account
BY WatchesAssumption DEF WatchesAssumption

LEMMA SourceType ==
  ASSUME NEW a \in Account, Reachable(a)
  PROVE  Source(a) \in Account /\ Honoured(Source(a)) /\ (file[a] # None => Source(a) = a)
<1>1. Source(a) # NoAccount /\ Honoured(Source(a))
  BY DEF Reachable
<1>2. CASE file[a] # None
  BY <1>1, <1>2 DEF Source
<1>3. CASE file[a] = None
  <2>1. \E o \in Account : Connected = {o}
    BY <1>1, <1>3 DEF Source
  <2>2. Source(a) = CHOOSE o \in Account : Connected = {o}
    BY <1>3, <2>1 DEF Source
  <2>3. Source(a) \in Account
    BY <2>1, <2>2
  <2>4. QED
    BY <1>1, <1>3, <2>3
<1>4. QED
  BY <1>2, <1>3

WatchTypes ==
  believed \in [Account -> 0 .. Life] /\ watch \in [Account -> 0 .. Life] /\ MissesInv

LEMMA SameTypes == ASSUME WatchTypes, UNCHANGED watches PROVE WatchTypes'
BY DEF WatchTypes, MissesInv, watches

LEMMA ArmTypes ==
  ASSUME WatchTypes, NEW a \in Account, Reachable(a), Arm(a) \/ Watch(a) PROVE WatchTypes'
BY SourceType, Bounds DEF WatchTypes, MissesInv, Arm, Watch

LEMMA StopTypes == ASSUME WatchTypes, NEW a \in Account, StopWatch(a) PROVE WatchTypes'
BY SourceType, SameTypes, Bounds DEF WatchTypes, MissesInv, StopWatch

LEMMA AddTypes ==
  ASSUME WatchTypes, managed \subseteq Account, NEW a \in Account, Add(a)
  PROVE  WatchTypes' /\ managed' \subseteq Account
BY ArmTypes, SameTypes DEF Add

\* The watches and the renewal loop.
LoopTypes == managed \subseteq Account /\ WatchTypes /\ todo \subseteq Account /\ old \subseteq todo

PollTurn == [at : {"listed", "removed", "trying", "added"}, acct : Account,
             token : Token \cup {None}]
ChatTurn == [at : {"saved", "unflagged", "deleted", "removed"}, acct : Account]

\* The tokens, and who has one in hand.
HandTypes ==
  /\ file \in [Account -> Token \cup {None}]
  /\ issued \in [Account -> Token] /\ dead \in [Account -> SUBSET Token]
  /\ drain \in [acct : Account, token : Token] \cup {NoDrain}
  /\ poll \in PollTurn \cup {NoPoll} /\ chat \in ChatTurn \cup {NoChat}
  /\ seen \in [Account -> Token \cup {None}]
  /\ failed \subseteq Account /\ flagged \subseteq Account

LEMMA TypesApart == TypeOK /\ MissesInv <=> LoopTypes /\ HandTypes
BY DEF TypeOK, MissesInv, LoopTypes, HandTypes, WatchTypes, PollTurn, ChatTurn

\* Whoever works on an account works on one of Account.
LEMMA InHands ==
  ASSUME HandTypes
  PROVE  /\ poll.at \in {"listed", "removed", "trying", "added"} =>
              /\ poll.acct \in Account /\ poll.token \in Token \cup {None}
              /\ \A s \in {"removed", "trying", "added"} : [poll EXCEPT !.at = s] \in PollTurn
         /\ chat.at \in {"saved", "unflagged", "deleted", "removed"} =>
              /\ chat.acct \in Account
              /\ \A s \in {"unflagged", "removed"} : [chat EXCEPT !.at = s] \in ChatTurn
         /\ ~Free => drain.acct \in Account /\ drain.token \in Token
BY DEF HandTypes, PollTurn, ChatTurn, NoPoll, NoChat, Free

LEMMA LoopStep == ASSUME LoopTypes, HandTypes, [Next]_vars PROVE LoopTypes'
<1>1. CASE UNCHANGED <<managed, watches, todo, old>>
  BY <1>1, SameTypes DEF LoopTypes
<1>2. CASE Tick
  BY <1>2, Bounds DEF Tick, LoopTypes, WatchTypes, MissesInv
<1>3. ASSUME NEW a \in Account, RenewStep(a) PROVE LoopTypes'
  <2>1. CASE RenewNotYet(a)
    BY <2>1, SameTypes DEF RenewNotYet, LoopTypes
  <2>2. CASE Renew(a)
    BY <2>2, ArmTypes DEF Renew, LoopTypes
  <2>3. CASE RenewFails(a)
    BY <2>3, Bounds DEF RenewFails, LoopTypes, WatchTypes, MissesInv
  <2>4. QED
    BY <1>3, <2>1, <2>2, <2>3 DEF RenewStep
<1>4. CASE DrainAuthFails
  BY <1>4, InHands, StopTypes, SameTypes DEF DrainAuthFails, Drop, LoopTypes
<1>5. CASE PollRemove \/ ChatRemove
  BY <1>5, SameTypes DEF PollRemove, ChatRemove, Drop, LoopTypes
<1>6. CASE PollStop \/ ChatStop
  BY <1>6, InHands, StopTypes DEF PollStop, ChatStop, LoopTypes
<1>7. CASE PollAdd \/ ChatAdd
  BY <1>7, InHands, AddTypes DEF PollAdd, ChatAdd, LoopTypes
<1>8. CASE Restart
  BY <1>8, Bounds DEF Restart, LoopTypes, WatchTypes, MissesInv
<1>9. QED
  BY <1>1, <1>2, <1>3, <1>4, <1>5, <1>6, <1>7, <1>8
  DEF Next, PollStep, ChatStep, DrainDone, PollLook, PollUnflag, ChatUnflag, BeginDrain,
      RollupFlags, PollList, ChatSave, ChatDisconnect, DashSave, DashDelete, TokenDies,
      vars, watches

LEMMA SaveTypes ==
  ASSUME HandTypes, NEW a \in Account, Save(a)
  PROVE  /\ file' \in [Account -> Token \cup {None}] /\ issued' \in [Account -> Token]
         /\ dead' = dead
BY Bounds DEF HandTypes, Save, Token

LEMMA HandStep == ASSUME HandTypes, [Next]_vars PROVE HandTypes'
<1> USE Bounds
<1>1. CASE Tick \/ \E a \in Account : RenewStep(a)
  BY <1>1 DEF Tick, RenewStep, RenewNotYet, Renew, RenewFails, HandTypes, tokens, flags
<1>2. CASE DrainDone \/ DrainAuthFails
  BY <1>2, InHands DEF DrainDone, DrainAuthFails, HandTypes, tokens, flags
<1>3. CASE PollStep
  <2>1. CASE PollRemove \/ PollStop
    BY <2>1, InHands DEF PollRemove, PollStop, HandTypes, tokens, flags
  <2>2. CASE PollLook
    BY <2>2, InHands DEF PollLook, HandTypes, tokens, flags
  <2>3. CASE PollAdd
    BY <2>3, InHands DEF PollAdd, HandTypes, tokens, flags
  <2>4. CASE PollUnflag
    BY <2>4, InHands DEF PollUnflag, Unflag, HandTypes, tokens
  <2>5. QED
    BY <1>3, <2>1, <2>2, <2>3, <2>4 DEF PollStep
<1>4. CASE ChatStep
  <2>1. CASE ChatUnflag
    BY <2>1, InHands DEF ChatUnflag, Unflag, HandTypes, tokens
  <2>2. CASE ChatAdd \/ ChatRemove \/ ChatStop
    BY <2>2, InHands DEF ChatAdd, ChatRemove, ChatStop, HandTypes, tokens, flags
  <2>3. QED
    BY <1>4, <2>1, <2>2 DEF ChatStep
<1>5. ASSUME NEW a \in Busy,
             \/ BeginDrain(a) \/ RollupFlags(a) \/ PollList(a) \/ ChatSave(a)
             \/ ChatDisconnect(a) \/ DashSave(a) \/ DashDelete(a) \/ TokenDies(a)
      PROVE  HandTypes'
  <2>1. a \in Account
    OBVIOUS
  <2>2. CASE BeginDrain(a) \/ RollupFlags(a) \/ PollList(a)
    BY <2>1, <2>2 DEF BeginDrain, RollupFlags, PollList, HandTypes, PollTurn, tokens,
       flags
  <2>3. CASE ChatSave(a) \/ DashSave(a)
    BY <2>1, <2>3, SaveTypes DEF ChatSave, DashSave, HandTypes, ChatTurn
  <2>4. CASE ChatDisconnect(a)
    BY <2>1, <2>4 DEF ChatDisconnect, HandTypes, ChatTurn
  <2>5. CASE DashDelete(a)
    BY <2>1, <2>5 DEF DashDelete, HandTypes
  <2>6. CASE TokenDies(a)
    BY <2>1, <2>6 DEF TokenDies, Honoured, HandTypes, flags
  <2>7. QED
    BY <1>5, <2>2, <2>3, <2>4, <2>5, <2>6
<1>6. CASE Restart
  BY <1>6 DEF Restart, HandTypes, tokens
<1>7. CASE UNCHANGED vars
  BY <1>7 DEF vars, HandTypes, tokens, flags
<1>8. QED
  BY <1>1, <1>2, <1>3, <1>4, <1>5, <1>6, <1>7 DEF Next

-----------------------------------------------------------------------------
(* Watches. *)

\* Nobody but a joins, and of the rest nobody leaves the loop's pass.
Joins(a) ==
  /\ managed' \subseteq managed \cup {a}
  /\ \A b \in managed \cap managed' : b # a /\ b \in todo \ old => b \in todo' \ old'

LEMMA WatchKept ==
  ASSUME WatchInv, UNCHANGED watches, managed' \subseteq managed,
         \A b \in managed' : b \in todo \ old => b \in todo' \ old'
  PROVE  WatchInv'
BY DEF WatchInv, OutlivesBelief, FailedSinceDue, watches

LEMMA WatchArmed ==
  ASSUME LoopTypes, WatchInv, NEW a \in Account, Reachable(a), Arm(a), Joins(a)
  PROVE  WatchInv'
<1> DEFINE s == Source(a)
<1>1. s \in Account /\ Life \in Nat /\ Life > Buffer /\ Buffer \in Nat
  BY SourceType, Bounds
<1>2. /\ watch' = [watch EXCEPT ![s] = Life] /\ believed' = [believed EXCEPT ![a] = Life]
      /\ misses' = [misses EXCEPT ![a] = 0]
      /\ astray' = IF s = a THEN astray \ {a} ELSE astray \cup {a}
  BY DEF Arm
<1> HIDE DEF s
<1>3. /\ believed \in [Account -> 0 .. Life] /\ watch \in [Account -> 0 .. Life]
      /\ misses \in [Account -> 0 .. Buffer] /\ managed \subseteq Account
  BY DEF LoopTypes, WatchTypes, MissesInv
<1> SUFFICES ASSUME NEW b \in managed' PROVE OutlivesBelief(b)' /\ FailedSinceDue(b)'
  BY DEF WatchInv
<1>4. CASE b = a
  BY <1>1, <1>2, <1>3, <1>4 DEF OutlivesBelief, FailedSinceDue
<1>5. CASE b # a
  <2>1. /\ b \in managed /\ b \in Account /\ OutlivesBelief(b) /\ FailedSinceDue(b)
        /\ b \in todo \ old => b \in todo' \ old'
    BY <1>3, <1>5 DEF WatchInv, Joins
  <2>2. /\ believed'[b] = believed[b] /\ misses'[b] = misses[b]
        /\ watch'[b] = watch[b] \/ watch'[b] = Life
        /\ believed[b] <= Life
    BY <1>1, <1>2, <1>3, <1>5, <2>1
  <2>3. b \notin astray' => b \notin astray
    BY <1>2, <1>5
  <2>4. QED
    BY <2>1, <2>2, <2>3 DEF OutlivesBelief, FailedSinceDue
<1>6. QED
  BY <1>4, <1>5

LEMMA WatchStopped ==
  ASSUME LoopTypes, WatchInv, NEW a \in Account, StopWatch(a), managed' \subseteq managed,
         \A b \in managed' : b \in todo \ old => b \in todo' \ old'
  PROVE  WatchInv'
<1>1. CASE UNCHANGED watches
  BY <1>1, WatchKept
<1>2. CASE /\ watch' = [watch EXCEPT ![Source(a)] = 0]
           /\ astray' = astray \cup {Source(a)}
           /\ UNCHANGED <<believed, misses>>
  BY <1>2 DEF WatchInv, OutlivesBelief, FailedSinceDue, LoopTypes, WatchTypes
<1>3. QED
  BY <1>1, <1>2 DEF StopWatch

LEMMA WatchAdded ==
  ASSUME LoopTypes, WatchInv, NEW a \in Account, Add(a), UNCHANGED <<todo, old>>
  PROVE  WatchInv'
BY WatchArmed, WatchKept DEF Add, Joins

\* A check passes: what was due before has failed, so the count is ahead.
LEMMA WatchTicks == ASSUME LoopTypes, WatchInv, Tick PROVE WatchInv'
<1>1. /\ believed \in [Account -> 0 .. Life] /\ watch \in [Account -> 0 .. Life]
      /\ misses \in [Account -> 0 .. Buffer] /\ managed \subseteq Account
      /\ Buffer \in Nat /\ Life \in Nat
      /\ todo = {} /\ old = {}
  BY Bounds DEF LoopTypes, WatchTypes, MissesInv, Tick
<1>2. /\ todo' = managed /\ old' = {} /\ managed' = managed /\ misses' = misses
      /\ astray' = astray
      /\ believed' = [a \in Account |-> IF believed[a] = 0 THEN 0 ELSE believed[a] - 1]
      /\ watch' = [a \in Account |-> IF watch[a] = 0 THEN 0 ELSE watch[a] - 1]
  BY <1>1 DEF Tick
<1> SUFFICES ASSUME NEW b \in managed PROVE OutlivesBelief(b)' /\ FailedSinceDue(b)'
  BY <1>2 DEF WatchInv
<1>3. OutlivesBelief(b) /\ FailedSinceDue(b) /\ b \in Account
  BY <1>1 DEF WatchInv
<1>4. OutlivesBelief(b)'
  BY <1>1, <1>2, <1>3 DEF OutlivesBelief
<1>5. FailedSinceDue(b)'
  <2>1. believed[b] \in 0 .. Life /\ misses[b] \in 0 .. Buffer
    BY <1>1, <1>3
  <2>2. believed'[b] = IF believed[b] = 0 THEN 0 ELSE believed[b] - 1
    BY <1>2, <1>3
  <2>3. believed[b] <= Buffer => misses[b] = Buffer \/ misses[b] + believed[b] > Buffer
    BY <1>1, <1>3 DEF FailedSinceDue
  <2>4. b \in todo' \ old'
    BY <1>2
  <2>5. believed'[b] <= Buffer =>
          misses[b] = Buffer \/ misses[b] + believed'[b] > Buffer
          \/ misses[b] + believed'[b] = Buffer
    BY <1>1, <2>1, <2>2, <2>3
  <2>6. QED
    BY <1>2, <2>4, <2>5 DEF FailedSinceDue
<1>6. QED
  BY <1>4, <1>5

LEMMA WatchRenews ==
  ASSUME LoopTypes, WatchInv, NEW a \in Account, RenewStep(a) PROVE WatchInv'
<1>1. /\ believed \in [Account -> 0 .. Life] /\ watch \in [Account -> 0 .. Life]
      /\ misses \in [Account -> 0 .. Buffer] /\ managed \subseteq Account
      /\ Buffer \in Nat /\ Life \in Nat
  BY Bounds DEF LoopTypes, WatchTypes, MissesInv
<1>2. CASE RenewNotYet(a)
  BY <1>1, <1>2 DEF RenewNotYet, ShouldRenew, WatchInv, OutlivesBelief, FailedSinceDue, watches
<1>3. CASE Renew(a)
  <2>1. CASE a \in old
    <3>1. Source(a) \in Account /\ Life > Buffer
      BY <1>3, SourceType, Bounds DEF Renew
    <3>2. QED
      BY <1>1, <1>3, <2>1, <3>1
      DEF Renew, Watch, WatchInv, OutlivesBelief, FailedSinceDue
  <2>2. CASE a \notin old
    BY <1>3, <2>2, WatchArmed DEF Renew, Joins
  <2>3. QED
    BY <2>1, <2>2
<1>4. CASE RenewFails(a)
  <2>1. /\ UNCHANGED <<managed, believed, watch, astray>>
        /\ todo' = todo \ {a} /\ old' = old \ {a}
        /\ misses' = [misses EXCEPT ![a] = IF a \in old \/ @ = Buffer THEN @ ELSE @ + 1]
        /\ a \in old \/ believed[a] <= Buffer
    BY <1>4 DEF RenewFails, ShouldRenew
  <2> SUFFICES ASSUME NEW b \in managed PROVE OutlivesBelief(b)' /\ FailedSinceDue(b)'
    BY <2>1 DEF WatchInv
  <2>2. OutlivesBelief(b) /\ FailedSinceDue(b) /\ b \in Account
    BY <1>1 DEF WatchInv
  <2>3. OutlivesBelief(b)'
    BY <2>1, <2>2 DEF OutlivesBelief
  <2>4. CASE b # a
    BY <1>1, <2>1, <2>2, <2>4, <2>3 DEF FailedSinceDue
  <2>5. CASE b = a /\ (a \in old \/ misses[a] = Buffer)
    BY <1>1, <2>1, <2>2, <2>5, <2>3 DEF FailedSinceDue
  <2>6. CASE b = a /\ a \notin old /\ misses[a] # Buffer
    <3>1. misses'[a] = misses[a] + 1
      BY <1>1, <2>1, <2>6
    <3>2. QED
      BY <1>1, <2>1, <2>2, <2>3, <2>6, <3>1 DEF FailedSinceDue
  <2>7. QED
    BY <2>4, <2>5, <2>6
<1>5. QED
  BY <1>2, <1>3, <1>4 DEF RenewStep

LEMMA WatchStep ==
  ASSUME LoopTypes, HandTypes, WatchInv, [Next]_vars PROVE WatchInv'
<1>1. CASE UNCHANGED <<managed, watches, todo, old>>
  BY <1>1, WatchKept
<1>2. CASE Tick
  BY <1>2, WatchTicks
<1>3. CASE \E a \in Account : RenewStep(a)
  BY <1>3, WatchRenews
<1>4. CASE DrainAuthFails
  BY <1>4, InHands, WatchStopped, WatchKept DEF DrainAuthFails, Drop
<1>5. CASE PollRemove \/ ChatRemove
  BY <1>5, WatchKept DEF PollRemove, ChatRemove, Drop
<1>6. CASE PollStop \/ ChatStop
  BY <1>6, InHands, WatchStopped DEF PollStop, ChatStop
<1>7. CASE PollAdd \/ ChatAdd
  BY <1>7, InHands, WatchAdded DEF PollAdd, ChatAdd
<1>8. CASE Restart
  BY <1>8, Bounds DEF Restart, WatchInv, OutlivesBelief, FailedSinceDue
<1>9. QED
  BY <1>1, <1>2, <1>3, <1>4, <1>5, <1>6, <1>7, <1>8
  DEF Next, PollStep, ChatStep, DrainDone, PollLook, PollUnflag, ChatUnflag, BeginDrain,
      RollupFlags, PollList, ChatSave, ChatDisconnect, DashSave, DashDelete, TokenDies,
      vars, watches

-----------------------------------------------------------------------------
(* The nudge. *)

\* Which tokens are there, and which are honoured.
TokenInv == HandTypes /\ managed \subseteq Account /\ dropped \subseteq Account

LEMMA DeadStaysOut ==
  ASSUME TokenInv, DropInv, NEW a \in Account, Add(a)
  PROVE  managed' \subseteq managed \cup {a} /\ dropped \cap managed' = {}
<1>1. CASE managed' = managed
  BY <1>1 DEF DropInv
<1>2. CASE a \notin managed /\ Reachable(a) /\ managed' = managed \cup {a}
  <2>1. a \notin dropped
    <3> SUFFICES ASSUME a \in dropped PROVE FALSE
      OBVIOUS
    <3>1. file[a] \in dead[a]
      BY DEF DropInv
    <3>2. file[a] # None
      BY <3>1 DEF TokenInv, HandTypes, Token, None
    <3>3. Honoured(a)
      BY <1>2, <3>2, SourceType
    <3>4. QED
      BY <3>1, <3>3 DEF Honoured
  <2>2. QED
    BY <1>2, <2>1 DEF DropInv
<1>3. QED
  BY <1>1, <1>2 DEF Add

LEMMA DropStep == ASSUME TokenInv, DropInv, [Next]_vars PROVE DropInv'
<1>1. CASE /\ UNCHANGED <<file, dead, flagged, dropped, silent>> /\ managed' \subseteq managed
  BY <1>1 DEF DropInv
<1>2. CASE DrainAuthFails
  <2>1. drain.acct \in Account /\ drain.token \in dead[drain.acct]
    BY <1>2, InHands DEF DrainAuthFails, TokenInv
  <2>2. QED
    BY <1>2, <2>1 DEF DrainAuthFails, Drop, DropInv, tokens
<1>3. CASE PollAdd \/ ChatAdd
  BY <1>3, InHands, DeadStaysOut DEF PollAdd, ChatAdd, DropInv, TokenInv, tokens, flags
<1>4. CASE PollUnflag \/ ChatUnflag
  BY <1>4 DEF PollUnflag, ChatUnflag, Unflag, DropInv, tokens
<1>5. CASE \E a \in Busy : RollupFlags(a)
  BY <1>5 DEF RollupFlags, DropInv, tokens
<1>6. ASSUME NEW a \in Busy, ChatSave(a) \/ DashSave(a) PROVE DropInv'
  <2>1. a \in Account
    BY Bounds
  <2>2. /\ \A b \in Account : b # a => file'[b] = file[b]
        /\ dead' = dead /\ dropped' = dropped \ {a} /\ silent' = silent \ {a}
        /\ managed' = managed /\ flagged' = flagged
    BY <1>6, <2>1 DEF ChatSave, DashSave, Save, NoLongerDropped, TokenInv, HandTypes
  <2>3. QED
    BY <2>2 DEF DropInv, TokenInv
<1>7. ASSUME NEW a \in Busy, ChatDisconnect(a) \/ DashDelete(a) PROVE DropInv'
  <2>1. a \in Account
    BY Bounds
  <2>2. /\ dead' = dead /\ managed' = managed /\ flagged' = flagged
        /\ \/ UNCHANGED <<file, dropped, silent>>
           \/ /\ dropped' = dropped \ {a} /\ silent' = silent \ {a}
              /\ \A b \in Account : b # a => file'[b] = file[b]
    BY <1>7, <2>1 DEF ChatDisconnect, DashDelete, NoLongerDropped, TokenInv, HandTypes
  <2>3. QED
    BY <2>2 DEF DropInv, TokenInv
<1>8. ASSUME NEW a \in Busy, TokenDies(a) PROVE DropInv'
  <2>1. /\ \A b \in Account : dead[b] \subseteq dead'[b]
        /\ UNCHANGED <<file, managed, flags>>
    BY <1>8, Bounds DEF TokenDies, TokenInv, HandTypes
  <2>2. QED
    BY <2>1 DEF DropInv, TokenInv, flags
<1>9. CASE Restart
  BY <1>9 DEF Restart, DropInv, tokens
<1>10. QED
  BY <1>1, <1>2, <1>3, <1>4, <1>5, <1>6, <1>7, <1>8, <1>9
  DEF Next, PollStep, ChatStep, RenewStep, Tick, RenewNotYet, Renew, RenewFails, DrainDone,
      PollRemove, PollStop, PollLook, ChatRemove, ChatStop, BeginDrain, PollList, Drop,
      vars, tokens, flags

LEMMA FlagStep == ASSUME TokenInv, FlagInv, [Next]_vars PROVE FlagInv'
<1>1. CASE UNCHANGED <<file, dead, flagged, stale, chat, poll>> /\ managed' \subseteq managed
  BY <1>1 DEF FlagInv, Serving, Honoured
<1>2. CASE DrainAuthFails
  <2>1. drain.acct \in Account /\ drain.token \in dead[drain.acct]
    BY <1>2, InHands DEF DrainAuthFails, TokenInv
  <2>2. QED
    BY <1>2, <2>1 DEF DrainAuthFails, Drop, FlagInv, Serving, Honoured, tokens
<1>3. CASE PollRemove \/ PollStop \/ PollLook
  BY <1>3 DEF PollRemove, PollStop, PollLook, Drop, FlagInv, Serving, Honoured, tokens, flags
<1>4. CASE PollAdd
  <2>1. poll.acct \in Account /\ managed' \subseteq managed \cup {poll.acct}
    BY <1>4, InHands DEF PollAdd, Add, TokenInv
  <2>2. CASE managed' = managed
    BY <1>4, <2>2 DEF PollAdd, FlagInv, Serving, Honoured, tokens, flags
  <2>3. CASE managed' # managed
    <3>1. poll'.at = "added" /\ poll'.acct = poll.acct
      <4>1. poll' = [poll EXCEPT !.at = "added"] /\ poll \in PollTurn
        BY <1>4, <2>3 DEF PollAdd, TokenInv, HandTypes, NoPoll
      <4>2. QED
        BY <4>1 DEF PollTurn
    <3>2. QED
      BY <1>4, <2>1, <3>1 DEF PollAdd, FlagInv, Serving, Honoured, tokens, flags
  <2>4. QED
    BY <2>2, <2>3
<1>5. CASE PollUnflag
  BY <1>5 DEF PollUnflag, Unflag, FlagInv, Serving, Honoured, tokens
<1>6. CASE ChatUnflag
  <2>1. chat.acct \in Account /\ chat' = [at |-> "unflagged", acct |-> chat.acct]
    BY <1>6 DEF ChatUnflag, TokenInv, HandTypes, ChatTurn, NoChat
  <2>2. \A b \in Account : chat = [at |-> "saved", acct |-> b] => b = chat.acct
    OBVIOUS
  <2>3. /\ flagged' = flagged \ {chat.acct} /\ stale' = stale \ {chat.acct}
        /\ UNCHANGED <<tokens, managed, poll>>
    BY <1>6 DEF ChatUnflag, Unflag
  <2>4. QED
    BY <2>1, <2>2, <2>3 DEF FlagInv, Serving, Honoured, tokens
<1>7. CASE ChatAdd
  <2>1. chat = [at |-> "unflagged", acct |-> chat.acct]
    BY <1>7 DEF ChatAdd, TokenInv, HandTypes, ChatTurn, NoChat
  <2>2. managed' \subseteq managed \cup {chat.acct} /\ chat' = NoChat
    BY <1>7 DEF ChatAdd, Add
  <2>3. \A b : chat # [at |-> "saved", acct |-> b]
    BY <2>1
  <2>4. UNCHANGED <<tokens, poll, flags>>
    BY <1>7 DEF ChatAdd
  <2>5. \A b : chat' # [at |-> "unflagged", acct |-> b]
    BY <2>2 DEF NoChat
  <2>6. QED
    BY <2>1, <2>2, <2>3, <2>4, <2>5 DEF FlagInv, Serving, Honoured, tokens, flags
<1>8. CASE ChatRemove \/ ChatStop
  <2>1. \A b : /\ chat # [at |-> "saved", acct |-> b]
               /\ chat' # [at |-> "unflagged", acct |-> b]
    BY <1>8 DEF ChatRemove, ChatStop, TokenInv, HandTypes, ChatTurn, NoChat
  <2>2. UNCHANGED <<tokens, poll, flags>> /\ managed' \subseteq managed
    BY <1>8 DEF ChatRemove, ChatStop, Drop
  <2>3. QED
    BY <2>1, <2>2 DEF FlagInv, Serving, Honoured, tokens, flags
<1>9. ASSUME NEW a \in Busy,
             \/ RollupFlags(a) \/ PollList(a) \/ ChatSave(a)
             \/ ChatDisconnect(a) \/ DashSave(a) \/ DashDelete(a) \/ TokenDies(a)
      PROVE  FlagInv'
  <2>1. a \in Account
    BY Bounds
  <2>2. CASE RollupFlags(a)
    BY <2>1, <2>2 DEF RollupFlags, FlagInv, Serving, Honoured, tokens
  <2>3. CASE PollList(a)
    BY <2>3 DEF PollList, NoPoll, FlagInv, Serving, Honoured, tokens, flags
  <2>4. CASE ChatSave(a)
    <3>1. /\ \A b \in Account : b # a => file'[b] = file[b]
          /\ dead' = dead /\ chat = NoChat /\ chat' = [at |-> "saved", acct |-> a]
          /\ UNCHANGED <<managed, poll, flagged, stale>>
      BY <2>1, <2>4 DEF ChatSave, Save, TokenInv, HandTypes
    <3>2. \A b : /\ chat # [at |-> "saved", acct |-> b]
                 /\ chat' # [at |-> "unflagged", acct |-> b]
      BY <3>1 DEF NoChat
    <3>3. QED
      BY <3>1, <3>2 DEF FlagInv, Serving, Honoured
  <2>5. CASE DashSave(a)
    <3>1. /\ \A b \in Account : b # a => file'[b] = file[b]
          /\ dead' = dead
          /\ stale' = IF a \in flagged /\ Serving(a) THEN stale \cup {a} ELSE stale
          /\ UNCHANGED <<managed, poll, chat, flagged>>
      BY <2>1, <2>5 DEF DashSave, Save, TokenInv, HandTypes, Serving
    <3>2. QED
      BY <3>1 DEF FlagInv, Serving, Honoured
  <2>6. CASE ChatDisconnect(a)
    <3>1. /\ \A b \in Account : file'[b] = None \/ file'[b] = file[b]
          /\ dead' = dead /\ chat = NoChat /\ chat' = [at |-> "deleted", acct |-> a]
          /\ UNCHANGED <<managed, poll, flagged, stale>>
      BY <2>1, <2>6 DEF ChatDisconnect, NoLongerDropped, TokenInv, HandTypes
    <3>2. \A b : /\ chat # [at |-> "saved", acct |-> b]
                 /\ chat' # [at |-> "unflagged", acct |-> b]
      BY <3>1 DEF NoChat
    <3>3. QED
      BY <3>1, <3>2 DEF FlagInv, Serving, Honoured
  <2>7. CASE DashDelete(a)
    <3>1. /\ \A b \in Account : file'[b] = None \/ file'[b] = file[b]
          /\ UNCHANGED <<dead, managed, poll, chat, flagged, stale>>
      BY <2>1, <2>7 DEF DashDelete, NoLongerDropped, TokenInv, HandTypes
    <3>2. QED
      BY <3>1 DEF FlagInv, Serving, Honoured
  <2>8. CASE TokenDies(a)
    <3>1. /\ \A b \in Account : dead[b] \subseteq dead'[b]
          /\ UNCHANGED <<file, managed, poll, chat, flagged, stale>>
      BY <2>1, <2>8 DEF TokenDies, TokenInv, HandTypes, flags
    <3>2. QED
      BY <3>1 DEF FlagInv, Serving, Honoured
  <2>9. QED
    BY <1>9, <2>2, <2>3, <2>4, <2>5, <2>6, <2>7, <2>8
<1>10. CASE Restart
  BY <1>10 DEF Restart, FlagInv
<1>11. QED
  BY <1>1, <1>2, <1>3, <1>4, <1>5, <1>6, <1>7, <1>8, <1>9, <1>10
  DEF Next, PollStep, ChatStep, RenewStep, Tick, RenewNotYet, Renew, RenewFails, DrainDone,
      BeginDrain, vars, tokens, flags

-----------------------------------------------------------------------------
(* The invariant, and what follows from it. *)

LEMMA DroppedStep ==
  ASSUME HandTypes, dropped \subseteq Account, [Next]_vars PROVE dropped' \subseteq Account
BY InHands
DEF Next, PollStep, ChatStep, RenewStep, Tick, RenewNotYet, Renew, RenewFails, DrainDone,
    DrainAuthFails, PollRemove, PollStop, PollLook, PollAdd, PollUnflag, ChatUnflag, ChatAdd,
    ChatRemove, ChatStop, BeginDrain, RollupFlags, PollList, ChatSave, ChatDisconnect,
    DashSave, DashDelete, TokenDies, Restart, Save, NoLongerDropped, Unflag, vars, flags

LEMMA InitInv == Init => IndInv
<1> SUFFICES ASSUME Init PROVE IndInv
  OBVIOUS
<1>1. LoopTypes
  BY Bounds DEF Init, LoopTypes, WatchTypes, MissesInv
<1>2. HandTypes
  BY Bounds DEF Init, HandTypes, Token
<1>3. WatchInv
  <2>1. \A a \in Account : believed[a] = Life /\ watch[a] = Life
    BY DEF Init
  <2>2. managed = Account /\ Life \in Nat /\ Buffer \in Nat /\ Life > Buffer
    BY Bounds DEF Init
  <2> SUFFICES ASSUME NEW a \in managed PROVE OutlivesBelief(a) /\ FailedSinceDue(a)
    BY DEF WatchInv
  <2>3. believed[a] = Life /\ watch[a] = Life
    BY <2>1, <2>2
  <2>4. OutlivesBelief(a)
    BY <2>2, <2>3 DEF OutlivesBelief
  <2>5. FailedSinceDue(a)
    BY <2>2, <2>3 DEF FailedSinceDue
  <2>6. QED
    BY <2>4, <2>5
<1>4. DropInv /\ FlagInv /\ dropped \subseteq Account
  BY DEF Init, DropInv, FlagInv
<1>5. QED
  BY <1>1, <1>2, <1>3, <1>4, TypesApart DEF IndInv

LEMMA StepInv == IndInv /\ [Next]_vars => IndInv'
<1> SUFFICES ASSUME IndInv, [Next]_vars PROVE IndInv'
  OBVIOUS
<1>1. LoopTypes /\ HandTypes /\ TokenInv
  BY TypesApart DEF IndInv, TokenInv, LoopTypes
<1>2. LoopTypes' /\ HandTypes'
  BY <1>1, LoopStep, HandStep
<1>3. TypeOK' /\ MissesInv'
  BY <1>2 DEF TypeOK, MissesInv, LoopTypes, HandTypes, WatchTypes, PollTurn, ChatTurn
<1>4. WatchInv' /\ dropped' \subseteq Account
  BY <1>1, WatchStep, DroppedStep DEF IndInv
<1>5. DropInv' /\ FlagInv'
  BY <1>1, DropStep, FlagStep DEF IndInv
<1>6. QED
  BY <1>3, <1>4, <1>5 DEF IndInv

LEMMA Inductive == Spec => []IndInv
BY InitInv, StepInv, PTL DEF Spec

\* Tokens, watches, the loop's pass and the three actors hold what their types
\* say, however many accounts, tokens and checks there are.
THEOREM TypeCorrect == Spec => []TypeOK
<1>1. IndInv => TypeOK
  BY DEF IndInv
<1>2. QED
  BY <1>1, Inductive, PTL

\* However long a watch lives and however early it is renewed: a served mailbox
\* loses its watch only after a whole buffer of failed renewals, or because its
\* watch was stopped or armed with the token of another account.
THEOREM LapsesOnlyByFailures == Spec => []LapseExplained
<1>1. IndInv => LapseExplained
  <2> SUFFICES ASSUME IndInv, NEW a \in managed, watch[a] = 0, a \notin astray
               PROVE  misses[a] >= Buffer
    BY DEF LapseExplained
  <2>1. OutlivesBelief(a) /\ FailedSinceDue(a)
    BY DEF IndInv, WatchInv
  <2>2. believed[a] \in 0 .. Life /\ misses[a] \in 0 .. Buffer /\ Buffer \in Nat /\ Life \in Nat
    BY Bounds DEF IndInv, TypeOK, MissesInv
  <2>3. believed[a] = 0
    BY <2>1, <2>2 DEF OutlivesBelief
  <2>4. QED
    BY <2>1, <2>2, <2>3 DEF FailedSinceDue
<1>2. QED
  BY <1>1, Inductive, PTL

\* For any accounts and any order of drains, polls, connects and disconnects: the
\* reconnect nudge is up for a mailbox that works only in the named cases, and
\* up for one dropped for its token except in the named ones.
THEOREM NudgeTellsTheTruth == Spec => []NudgeExplained
<1>1. IndInv => NudgeExplained
  BY DEF IndInv, TypeOK, DropInv, FlagInv, Serving, NudgeExplained
<1>2. QED
  BY <1>1, Inductive, PTL

=============================================================================
