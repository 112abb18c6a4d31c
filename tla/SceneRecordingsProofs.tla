------------------------ MODULE SceneRecordingsProofs ------------------------
(***************************************************************************)
(* Proofs about SceneRecordings for any finite set of scenes, any files    *)
(* and any limits.  The heart of the inductive invariant IInv is the set   *)
(* Reserved: the outputs that are active and those that a start which is   *)
(* under way has created and may still start.  Only the checks of start    *)
(* add to it, all at once and before anything runs; outputs that end       *)
(* meanwhile only take away from it.                                       *)
(***************************************************************************)
EXTENDS SceneRecordings, FiniteSetTheorems, FunctionTheorems,
        WellFoundedInduction, TLAPS

OutputStates == Running \cup {"created", "ended", "released"}
OneRecording == [path : Paths, output : OutputStates, stopRequested : BOOLEAN]
RecordingSets == UNION {[chosen -> OneRecording] : chosen \in SUBSET Scenes}

TypeInv ==
    /\ created \in 0..MaxSessions
    /\ sessions \subseteq 1..created
    /\ building \in (0..created) \ sessions
    /\ recordings \in [Sessions -> RecordingSets]
    /\ stoppedAt \subseteq 1..created
    /\ stops \in [Sessions -> 0..2]

\* Two outputs record different scenes under different names, and different files
\* unless they are of one session.
Apart(o, other) ==
    /\ o[2] = other[2] \/ PathOf(o) = PathOf(other) => o = other
    /\ WrittenBy(o) = WrittenBy(other) => o[1] = other[1]

\* The outputs that are active, and those that a start may still start.
Reserved ==
    {o \in Sessions \X Scenes :
        /\ o[2] \in DOMAIN recordings[o[1]]
        /\ o[1] = building \/ recordings[o[1]][o[2]].output \in Running}

LimitInv ==
    /\ Cardinality(Reserved) <= OutputLimit
    /\ Cardinality(sessions) <= HistoryLimit
    /\ building # 0 => DOMAIN recordings[building] # {}

ExclusiveInv ==
    /\ \A o, other \in Reserved : Apart(o, other)
    /\ \A o \in ActiveOutputs : WrittenBy(o) \in files

OwnerInv ==
    \A s \in Sessions : ActiveIn(recordings[s]) # {} => s \in sessions \cup {building}

StopInv ==
    /\ building \notin stoppedAt
    /\ \A s \in stoppedAt : ActiveIn(recordings[s]) = {}
    /\ \A s \in Sessions :
          /\ s = building \/ s > created => stops[s] = 0
          /\ \A x \in ActiveIn(recordings[s]) :
                /\ stops[s] > 0 => recordings[s][x].stopRequested
                /\ stops[s] = 2 => recordings[s][x].output = "forced"

IInv == /\ TypeInv
        /\ LimitInv
        /\ ExclusiveInv
        /\ OwnerInv
        /\ StopInv

-----------------------------------------------------------------------------
(* Sets of recordings.                                                     *)

\* Nothing starts: fewer recordings are active, of fewer there are.
Shrinks(rs, rs2) ==
    /\ DOMAIN rs2 \subseteq DOMAIN rs
    /\ \A x \in DOMAIN rs2 : /\ rs2[x].path = rs[x].path
                             /\ rs2[x].output \in Running => rs[x].output \in Running

\* What is still active is as it was.
Calm(rs, rs2) ==
    /\ DOMAIN rs2 \subseteq DOMAIN rs
    /\ \A x \in DOMAIN rs2 : /\ rs2[x].path = rs[x].path
                             /\ rs2[x].output \in Running => rs2[x] = rs[x]

\* A set of recordings, said without the union over its domains.
LEMMA SetsFact ==
    ASSUME NEW rs
    PROVE  rs \in RecordingSets <=>
              DOMAIN rs \in SUBSET Scenes /\ rs \in [DOMAIN rs -> OneRecording]
  BY DEF RecordingSets

\* Where nothing begins or is stopped, the active outputs can only become fewer.
LEMMA CalmShrinks ==
    ASSUME NEW rs, NEW rs2, Calm(rs, rs2)
    PROVE  Shrinks(rs, rs2) /\ ActiveIn(rs2) \subseteq ActiveIn(rs)
  BY DEF Calm, Shrinks, ActiveIn

\* The empty set of recordings.
LEMMA EmptyFact ==
    /\ NoRecordings \in RecordingSets /\ DOMAIN NoRecordings = {}
    /\ ActiveIn(NoRecordings) = {}
    /\ \A rs : Calm(rs, NoRecordings)
<1>1. DOMAIN NoRecordings = {} /\ NoRecordings \in [{} -> OneRecording]
  BY DEF NoRecordings
<1>2. QED
  BY <1>1, SetsFact DEF ActiveIn, Calm

(* release_inactive changes nothing of what is active.                     *)
LEMMA TidiedFact ==
    ASSUME NEW rs \in RecordingSets, NEW rs2,
           rs2 = SetOutput(rs, DOMAIN rs \ ActiveIn(rs), "released")
    PROVE  /\ rs2 \in RecordingSets /\ DOMAIN rs2 = DOMAIN rs
           /\ Calm(rs, rs2) /\ ActiveIn(rs2) = ActiveIn(rs)
<1>1. DOMAIN rs \in SUBSET Scenes /\ \A x \in DOMAIN rs : rs[x] \in OneRecording
  BY SetsFact
<1>2. /\ DOMAIN rs2 = DOMAIN rs
      /\ \A x \in DOMAIN rs : rs2[x] = IF x \in ActiveIn(rs) THEN rs[x]
                                       ELSE [rs[x] EXCEPT !.output = "released"]
  BY DEF SetOutput
<1>3. \A x \in DOMAIN rs : /\ rs2[x] \in OneRecording /\ rs2[x].path = rs[x].path
                           /\ x \in ActiveIn(rs) => rs2[x] = rs[x]
                           /\ x \notin ActiveIn(rs) => rs2[x].output = "released"
  <2>1. "released" \in OutputStates
    BY DEF OutputStates
  <2>2. ASSUME NEW r \in OneRecording
        PROVE  LET q == [r EXCEPT !.output = "released"]
               IN  q \in OneRecording /\ q.path = r.path /\ q.output = "released"
    BY <2>1 DEF OneRecording
  <2>3. ASSUME NEW x \in DOMAIN rs
        PROVE  /\ rs2[x] \in OneRecording /\ rs2[x].path = rs[x].path
               /\ x \in ActiveIn(rs) => rs2[x] = rs[x]
               /\ x \notin ActiveIn(rs) => rs2[x].output = "released"
    <3>1. rs[x] \in OneRecording
      BY <1>1
    <3>2. CASE x \in ActiveIn(rs)
      BY <1>2, <3>1, <3>2
    <3>3. CASE x \notin ActiveIn(rs)
      BY <1>2, <2>2, <3>1, <3>3
    <3>4. QED
      BY <3>2, <3>3
  <2>4. QED
    BY <2>3
<1>4. rs2 \in RecordingSets
  <2>1. rs2 = [x \in DOMAIN rs2 |-> rs2[x]]
    BY DEF SetOutput
  <2>2. rs2 \in [DOMAIN rs2 -> OneRecording]
    BY <1>2, <1>3, <2>1
  <2>3. QED
    BY <1>1, <1>2, <2>2, SetsFact
<1>5. ActiveIn(rs2) = ActiveIn(rs)
  BY <1>2, <1>3 DEF ActiveIn, Running
<1>6. Calm(rs, rs2)
  BY <1>2, <1>3, <1>5 DEF Calm, ActiveIn
<1>7. QED
  BY <1>2, <1>4, <1>5, <1>6

\* One output changes its state, the others and all paths stay.
LEMMA ChangedFact ==
    ASSUME NEW rs \in RecordingSets, NEW x \in DOMAIN rs, NEW st \in OutputStates,
           NEW rs2, rs2 = [rs EXCEPT ![x].output = st]
    PROVE  /\ rs2 \in RecordingSets /\ DOMAIN rs2 = DOMAIN rs
           /\ \A y \in DOMAIN rs \ {x} : rs2[y] = rs[y]
           /\ rs2[x].path = rs[x].path /\ rs2[x].output = st
<1>1. DOMAIN rs \in SUBSET Scenes /\ rs \in [DOMAIN rs -> OneRecording]
  BY SetsFact
<1>2. rs[x] \in OneRecording
  BY <1>1
<1>3. [rs[x] EXCEPT !.output = st] \in OneRecording
  BY <1>2 DEF OneRecording
<1>4. rs2 \in [DOMAIN rs -> OneRecording]
  BY <1>1, <1>3
<1>5. DOMAIN rs2 = DOMAIN rs
  BY <1>4
<1>6. rs2 \in RecordingSets
  BY <1>1, <1>4, <1>5, SetsFact
<1>7. QED
  BY <1>2, <1>5, <1>6 DEF OneRecording

(* One recording in stop(): a stop, forced from the second on.             *)
LEMMA StoppedFact ==
    ASSUME NEW rs \in RecordingSets, NEW rs2,
           rs2 = [x \in DOMAIN rs |-> Stopped(rs[x])]
    PROVE  /\ rs2 \in RecordingSets /\ DOMAIN rs2 = DOMAIN rs
           /\ Shrinks(rs, rs2) /\ ActiveIn(rs2) = ActiveIn(rs)
           /\ \A x \in ActiveIn(rs) :
                 /\ rs2[x].stopRequested
                 /\ rs[x].stopRequested => rs2[x].output = "forced"
<1>1. DOMAIN rs \in SUBSET Scenes /\ \A x \in DOMAIN rs : rs[x] \in OneRecording
  BY SetsFact
<1>2. DOMAIN rs2 = DOMAIN rs /\ \A x \in DOMAIN rs : rs2[x] = Stopped(rs[x])
  OBVIOUS
<1>3. ASSUME NEW x \in DOMAIN rs
      PROVE  /\ rs2[x] \in OneRecording /\ rs2[x].path = rs[x].path
             /\ rs2[x].output \in Running <=> rs[x].output \in Running
             /\ rs[x].output \in Running =>
                   /\ rs2[x].stopRequested
                   /\ rs[x].stopRequested => rs2[x].output = "forced"
  <2>1. rs[x] \in OneRecording /\ rs2[x] = Stopped(rs[x])
    BY <1>1, <1>2
  <2>2. QED
    BY <2>1 DEF Stopped, OneRecording, OutputStates, Running
<1>4. rs2 \in RecordingSets
  <2>1. rs2 \in [DOMAIN rs2 -> OneRecording]
    BY <1>2, <1>3
  <2>2. QED
    BY <1>1, <1>2, <2>1, SetsFact
<1>5. QED
  BY <1>2, <1>3, <1>4 DEF Shrinks, ActiveIn

-----------------------------------------------------------------------------
(* Counting.                                                               *)

(* Sets of outputs, and of sessions, are finite.                           *)
LEMMA FiniteFact ==
    /\ \A S \in SUBSET (Sessions \X Scenes) : IsFiniteSet(S)
    /\ \A S \in SUBSET Sessions : IsFiniteSet(S)
<1>1. IsFiniteSet(Sessions)
  BY LimitsAssumption, FS_Interval DEF Sessions
<1>2. IsFiniteSet(Sessions \X Scenes)
  BY <1>1, ScenesAssumption, FS_Product
<1>3. QED
  BY <1>1, <1>2, FS_Subset

\* The active outputs are those reserved ones that run.
LEMMA ReservedFact ==
    TypeInv => /\ Reserved \in SUBSET (Sessions \X Scenes)
               /\ ActiveOutputs = {o \in Reserved : recordings[o[1]][o[2]].output \in Running}
<1> SUFFICES ASSUME TypeInv PROVE ActiveOutputs \subseteq Reserved
  BY DEF Reserved, ActiveOutputs, ActiveIn
<1>1. QED
  BY DEF Reserved, ActiveOutputs, ActiveIn

\* The relation < on the natural numbers.
Less == {pair \in Nat \X Nat : pair[1] < pair[2]}

LEMMA LessIsWellFounded == IsWellFoundedOn(Less, Nat)
  BY NatLessThanWellFounded DEF OpToRel, Less

(* Of some numbers one is the least: Oldest is what its name says.         *)
LEMMA OldestFact ==
    ASSUME NEW ss \in SUBSET Nat, ss # {}
    PROVE  Oldest(ss) \in ss /\ \A s \in ss : Oldest(ss) <= s
<1>1. PICK s \in ss : \A other \in ss : <<other, s>> \notin Less
  BY LessIsWellFounded, WFMin
<1>2. \A other \in ss : ~(other < s)
  BY <1>1 DEF Less
<1>3. s \in Nat /\ \A other \in ss : other \in Nat
  OBVIOUS
<1>4. \A other \in ss : s <= other
  BY <1>2, <1>3
<1>5. QED
  BY <1>4 DEF Oldest

\* The sessions, and those of them that are over, are numbers.
LEMMA OverFact ==
    ASSUME TypeInv
    PROVE  sessions \in SUBSET Nat /\ Over(sessions) \in SUBSET Nat
<1>1. sessions \in SUBSET Nat
  BY LimitsAssumption DEF TypeInv
<1>2. Over(sessions) \subseteq sessions
  BY DEF Over
<1>3. QED
  BY <1>1, <1>2

(* What prune_history drops is over.                                       *)
LEMMA PrunedFact ==
    ASSUME TypeInv
    PROVE  Pruned \subseteq Over(sessions)
<1>1. CASE Over(sessions) = {}
  BY <1>1 DEF Pruned
<1>2. CASE Over(sessions) # {}
  BY <1>2, OverFact, OldestFact DEF Pruned
<1>3. QED
  BY <1>1, <1>2

(* The history has room for the session that is built: every session there *)
(* is has an output that runs, or one of them is dropped.                  *)
LEMMA HistoryHasRoom ==
    ASSUME TypeInv, LimitInv, building # 0
    PROVE  Cardinality((sessions \ Pruned) \cup {building}) <= HistoryLimit
<1>1. IsFiniteSet(sessions) /\ building \in Sessions /\ building \notin sessions
  <2>1. sessions \in SUBSET Sessions /\ building \in Sessions
    BY LimitsAssumption DEF TypeInv, Sessions
  <2>2. QED
    BY <2>1, FiniteFact DEF TypeInv
<1>2. Cardinality(sessions) \in Nat
  BY <1>1, FS_CardinalityType
<1>3. CASE Cardinality(sessions) < HistoryLimit
  <2>1. Pruned = {}
    BY <1>3 DEF Pruned
  <2>2. Cardinality(sessions \cup {building}) = Cardinality(sessions) + 1
    BY <1>1, FS_AddElement
  <2>3. (sessions \ Pruned) \cup {building} = sessions \cup {building}
    BY <2>1
  <2>4. Cardinality((sessions \ Pruned) \cup {building}) = Cardinality(sessions) + 1
    BY <2>2, <2>3, Zenon
  <2>5. QED
    BY <1>2, <1>3, <2>4, LimitsAssumption
<1>4. CASE Over(sessions) # {} /\ ~(Cardinality(sessions) < HistoryLimit)
  <2> DEFINE old == Oldest(Over(sessions))
  <2>1. old \in sessions
    <3>1. old \in Over(sessions)
      BY <1>4, OverFact, OldestFact
    <3>2. QED
      BY <3>1 DEF Over
  <2>2. Pruned = {old}
    BY <1>4 DEF Pruned
  <2> HIDE DEF old
  <2>3. /\ IsFiniteSet(sessions \ {old})
        /\ Cardinality(sessions \ {old}) = Cardinality(sessions) - 1
    BY <1>1, <2>1, FS_RemoveElement
  <2>4. building \notin sessions \ {old}
    BY <1>1
  <2>5. Cardinality((sessions \ {old}) \cup {building})
              = Cardinality(sessions \ {old}) + 1
    BY <2>3, <2>4, FS_AddElement
  <2>6. Cardinality((sessions \ {old}) \cup {building}) = Cardinality(sessions)
    BY <1>2, <2>3, <2>5
  <2>7. Cardinality((sessions \ Pruned) \cup {building}) = Cardinality(sessions)
    BY <2>2, <2>6, Zenon
  <2>8. QED
    BY <2>7 DEF LimitInv
<1>5. CASE Over(sessions) = {}
  <2> DEFINE all == sessions \cup {building}
             one == [s \in all |-> <<s, CHOOSE x \in Scenes : <<s, x>> \in Reserved>>]
  <2>1. ASSUME NEW s \in all PROVE \E x \in Scenes : <<s, x>> \in Reserved
    <3>1. s \in Sessions
      BY <1>1, LimitsAssumption DEF TypeInv, Sessions
    <3>2. DOMAIN recordings[s] \in SUBSET Scenes
      BY <3>1, SetsFact DEF TypeInv
    <3>3. CASE s \in sessions
      <4>1. PICK x \in ActiveIn(recordings[s]) : TRUE
        BY <1>5, <3>3 DEF Over, SessionActive
      <4>2. QED
        BY <3>1, <3>2, <4>1 DEF Reserved, ActiveIn
    <3>4. CASE s = building
      <4>1. PICK x \in DOMAIN recordings[s] : TRUE
        BY <3>4 DEF LimitInv
      <4>2. QED
        BY <3>1, <3>2, <3>4, <4>1 DEF Reserved
    <3>5. QED
      BY <3>3, <3>4
  <2>2. one \in [all -> Reserved]
    BY <2>1
  <2>3. \A s, other \in all : one[s] = one[other] => s = other
    OBVIOUS
  <2> HIDE DEF one
  <2>4. one \in Injection(all, Reserved)
    BY <2>2, <2>3, Fun_IsInj
  <2>5. Cardinality(all) <= Cardinality(Reserved) /\ IsFiniteSet(Reserved)
    BY <2>4, ReservedFact, FiniteFact, FS_Injection
  <2>6. Cardinality(all) = Cardinality(sessions) + 1
    BY <1>1, FS_AddElement
  <2>7. Cardinality(Reserved) \in Nat
    BY <2>5, FS_CardinalityType
  <2>8. Cardinality(sessions) < HistoryLimit
    BY <1>2, <2>5, <2>6, <2>7, LimitsAssumption DEF LimitInv
  <2>9. QED
    BY <1>3, <2>8
<1>6. QED
  BY <1>3, <1>4, <1>5

-----------------------------------------------------------------------------
(* Steps that start nothing.                                               *)

(* Such a step reserves nothing, and what is reserved keeps its file.      *)
LEMMA ReservedShrinks ==
    ASSUME TypeInv, TypeInv', building' \in {building, 0},
           \A s \in Sessions : Shrinks(recordings[s], recordings'[s])
    PROVE  /\ Reserved' \subseteq Reserved
           /\ ActiveOutputs' \subseteq ActiveOutputs
           /\ \A o \in Reserved' : PathOf(o)' = PathOf(o)
           /\ ActiveOutputs' \subseteq Reserved'
<1>1. ASSUME NEW o \in Reserved'
      PROVE  o \in Reserved /\ PathOf(o)' = PathOf(o)
  <2>1. /\ o \in Sessions \X Scenes /\ o[2] \in DOMAIN recordings'[o[1]]
        /\ o[1] = building' \/ recordings'[o[1]][o[2]].output \in Running
    BY DEF Reserved
  <2>2. o[1] \in Sessions /\ o[1] # 0
    BY <2>1 DEF Sessions
  <2>3. /\ o[2] \in DOMAIN recordings[o[1]]
        /\ recordings'[o[1]][o[2]].path = recordings[o[1]][o[2]].path
        /\ o[1] = building \/ recordings[o[1]][o[2]].output \in Running
    BY <2>1, <2>2 DEF Shrinks
  <2>4. QED
    BY <2>1, <2>3 DEF Reserved, PathOf
<1>2. ASSUME NEW o \in ActiveOutputs'
      PROVE  o \in ActiveOutputs /\ o \in Reserved'
  <2>1. /\ o \in Sessions \X Scenes /\ o[1] \in Sessions
        /\ o[2] \in DOMAIN recordings'[o[1]]
        /\ recordings'[o[1]][o[2]].output \in Running
    BY DEF ActiveOutputs, ActiveIn
  <2>2. /\ o[2] \in DOMAIN recordings[o[1]]
        /\ recordings[o[1]][o[2]].output \in Running
    BY <2>1 DEF Shrinks
  <2>3. QED
    BY <2>1, <2>2 DEF ActiveOutputs, ActiveIn, Reserved
<1>3. QED
  BY <1>1, <1>2

\* A step in which no output begins keeps the limits, the exclusion and the ownership.
LEMMA ShrinkStep ==
    ASSUME TypeInv, LimitInv, ExclusiveInv, OwnerInv, TypeInv',
           \A s \in Sessions : Shrinks(recordings[s], recordings'[s]),
           building' \in {building, 0},
           building' # 0 => DOMAIN recordings'[building] = DOMAIN recordings[building],
           Cardinality(sessions') <= HistoryLimit,
           \A o \in ActiveOutputs' : WrittenBy(o) \in files',
           \A s \in (sessions \cup {building}) \ (sessions' \cup {building'}) :
              s \in Sessions => ActiveIn(recordings'[s]) = {}
    PROVE  LimitInv' /\ ExclusiveInv' /\ OwnerInv'
<1>1. /\ Reserved' \subseteq Reserved
      /\ ActiveOutputs' \subseteq ActiveOutputs
      /\ \A o \in Reserved' : PathOf(o)' = PathOf(o)
      /\ ActiveOutputs' \subseteq Reserved'
  BY ReservedShrinks
<1>2. LimitInv'
  <2>1. IsFiniteSet(Reserved)
    BY ReservedFact, FiniteFact
  <2>2. Cardinality(Reserved') <= Cardinality(Reserved) /\ IsFiniteSet(Reserved')
    BY <1>1, <2>1, FS_Subset
  <2>3. Cardinality(Reserved) \in Nat /\ Cardinality(Reserved') \in Nat
    BY <2>1, <2>2, FS_CardinalityType
  <2>4. Cardinality(Reserved') <= OutputLimit
    BY <2>2, <2>3, LimitsAssumption DEF LimitInv
  <2>5. building' # 0 => DOMAIN recordings'[building'] # {}
    BY DEF LimitInv
  <2>6. QED
    BY <2>4, <2>5 DEF LimitInv
<1>3. ExclusiveInv'
  <2>1. \A o, other \in Reserved' : Apart(o, other)'
    BY <1>1 DEF ExclusiveInv, Apart, WrittenBy
  <2>2. \A o \in ActiveOutputs' : WrittenBy(o)' \in files'
    BY <1>1 DEF WrittenBy
  <2>3. QED
    BY <2>1, <2>2 DEF ExclusiveInv
<1>4. OwnerInv'
  <2>1. ASSUME NEW s \in Sessions, ActiveIn(recordings'[s]) # {}
        PROVE  s \in sessions' \cup {building'}
    <3>1. ActiveIn(recordings[s]) # {}
      BY <2>1 DEF Shrinks, ActiveIn
    <3>2. s \in sessions \cup {building}
      BY <3>1 DEF OwnerInv
    <3>3. QED
      BY <2>1, <3>2
  <2>2. QED
    BY <2>1 DEF OwnerInv
<1>5. QED
  BY <1>2, <1>3, <1>4

(* What is true of the stops of a session stays true while its outputs end *)
(* or are dropped.                                                         *)
LEMMA CalmStops ==
    ASSUME TypeInv, StopInv,
           \A s \in Sessions : Calm(recordings[s], recordings'[s]),
           building' \in {building, 0}, created' = created, stops' = stops,
           building' \notin stoppedAt',
           \A s \in stoppedAt' : ActiveIn(recordings'[s]) = {}
    PROVE  StopInv'
<1>1. ASSUME NEW s \in Sessions, s = building' \/ s > created PROVE stops'[s] = 0
  BY <1>1 DEF StopInv, Sessions
<1>2. ASSUME NEW s \in Sessions, NEW x \in ActiveIn(recordings'[s])
      PROVE  /\ stops'[s] > 0 => recordings'[s][x].stopRequested
             /\ stops'[s] = 2 => recordings'[s][x].output = "forced"
  <2>1. x \in ActiveIn(recordings[s]) /\ recordings'[s][x] = recordings[s][x]
    BY DEF Calm, ActiveIn
  <2>2. QED
    BY <2>1 DEF StopInv
<1>3. StopInv'
  BY <1>1, <1>2 DEF StopInv
<1>4. QED
  BY <1>3

(* Both at once, for a step in which no session is new or is dropped.      *)
LEMMA CalmStep ==
    ASSUME IInv, recordings' \in [Sessions -> RecordingSets],
           \A s \in Sessions : /\ Calm(recordings[s], recordings'[s])
                               /\ DOMAIN recordings'[s] = DOMAIN recordings[s],
           UNCHANGED <<created, sessions, building, stops>>,
           stoppedAt' \in SUBSET (stoppedAt \cup sessions),
           \A s \in stoppedAt' : ActiveIn(recordings'[s]) = {},
           \A o \in ActiveOutputs' : WrittenBy(o) \in files'
    PROVE  IInv'
<1>1. TypeInv /\ LimitInv /\ ExclusiveInv /\ OwnerInv /\ StopInv
  BY DEF IInv
<1>2. TypeInv'
  BY <1>1 DEF TypeInv
<1>3. \A s \in Sessions : Shrinks(recordings[s], recordings'[s])
  BY CalmShrinks
<1>4. building' # 0 => DOMAIN recordings'[building] = DOMAIN recordings[building]
  <2>1. building \in 0..MaxSessions
    BY <1>1, LimitsAssumption DEF TypeInv
  <2>2. QED
    BY <2>1, LimitsAssumption DEF Sessions
<1>5. LimitInv' /\ ExclusiveInv' /\ OwnerInv'
  <2>1. Cardinality(sessions') <= HistoryLimit
    BY <1>1 DEF LimitInv
  <2>2. QED
    BY <1>1, <1>2, <1>3, <1>4, <2>1, ShrinkStep
<1>6. StopInv'
  <2>1. building' \notin stoppedAt'
    BY <1>1 DEF StopInv, TypeInv
  <2>2. QED
    BY <1>1, <2>1, CalmStops
<1>7. QED
  BY <1>2, <1>5, <1>6 DEF IInv

-----------------------------------------------------------------------------
(* The steps.                                                              *)

\* The invariant holds at the start.
LEMMA InitIInv == Init => IInv
<1> SUFFICES ASSUME Init PROVE IInv
  OBVIOUS
<1>1. \A s \in Sessions : recordings[s] = NoRecordings
  BY DEF Init
<1>2. TypeInv
  BY <1>1, EmptyFact, LimitsAssumption DEF Init, TypeInv
<1>3. Reserved = {}
  BY <1>1, EmptyFact DEF Reserved
<1>4. ActiveOutputs = {}
  BY <1>2, <1>3, ReservedFact
<1>5. LimitInv
  BY <1>3, FS_EmptySet, LimitsAssumption DEF LimitInv, Init
<1>6. ExclusiveInv
  BY <1>3, <1>4 DEF ExclusiveInv
<1>7. OwnerInv
  BY <1>1, EmptyFact DEF OwnerInv
<1>8. StopInv
  BY <1>1, EmptyFact DEF Init, StopInv
<1>9. QED
  BY <1>2, <1>5, <1>6, <1>7, <1>8 DEF IInv

(* status_data and a start that is refused tidy up.                        *)
LEMMA ReleaseStep ==
    ASSUME IInv, NEW ss \in SUBSET sessions, ReleaseInactive(ss),
           UNCHANGED <<created, sessions, building, files, stops>>
    PROVE  IInv'
<1>1. TypeInv /\ ExclusiveInv /\ StopInv
  BY DEF IInv
<1>2. ASSUME NEW s \in Sessions
      PROVE  /\ recordings'[s] \in RecordingSets
             /\ Calm(recordings[s], recordings'[s])
             /\ DOMAIN recordings'[s] = DOMAIN recordings[s]
             /\ ActiveIn(recordings'[s]) = ActiveIn(recordings[s])
  <2>1. recordings[s] \in RecordingSets
    BY <1>1 DEF TypeInv
  <2>2. CASE s \in ss
    BY <2>1, <2>2, TidiedFact DEF ReleaseInactive, Released
  <2>3. CASE s \notin ss
    <3>1. recordings'[s] = recordings[s]
      BY <2>3 DEF ReleaseInactive, Released
    <3>2. QED
      BY <2>1, <3>1 DEF Calm
  <2>4. QED
    BY <2>2, <2>3
<1>3. recordings' \in [Sessions -> RecordingSets]
  <2>1. recordings' = [s \in Sessions |-> recordings'[s]]
    BY DEF ReleaseInactive, Released
  <2>2. QED
    BY <1>2, <2>1
<1>4. stoppedAt' = stoppedAt \cup Over(ss) /\ Over(ss) \subseteq sessions
  BY DEF ReleaseInactive, Over
<1>5. ASSUME NEW s \in stoppedAt' PROVE ActiveIn(recordings'[s]) = {}
  <2>1. s \in Sessions
    BY <1>1, <1>4, LimitsAssumption DEF TypeInv, Sessions
  <2>2. ActiveIn(recordings[s]) = {}
    BY <1>1, <1>4 DEF StopInv, Over, SessionActive
  <2>3. QED
    BY <1>2, <2>1, <2>2
<1>6. ASSUME NEW o \in ActiveOutputs' PROVE WrittenBy(o) \in files'
  <2>1. o \in ActiveOutputs
    BY <1>2 DEF ActiveOutputs
  <2>2. QED
    BY <1>1, <2>1 DEF ExclusiveInv
<1>7. QED
  BY <1>2, <1>3, <1>4, <1>5, <1>6, CalmStep

(* An output ends.                                                         *)
LEMMA OutputEndsStep ==
    ASSUME IInv, NEW s \in Sessions, NEW x \in Scenes, OutputEnds(s, x)
    PROVE  IInv'
<1>1. TypeInv /\ ExclusiveInv /\ StopInv
  BY DEF IInv
<1>2. /\ recordings'[s] \in RecordingSets
      /\ DOMAIN recordings'[s] = DOMAIN recordings[s]
      /\ Calm(recordings[s], recordings'[s])
  <2>1. recordings[s] \in RecordingSets /\ x \in DOMAIN recordings[s]
    BY <1>1 DEF TypeInv, OutputEnds, ActiveIn
  <2>2. recordings'[s] = [recordings[s] EXCEPT ![x].output = "ended"]
    BY <1>1 DEF TypeInv, OutputEnds
  <2>3. "ended" \in OutputStates \ Running
    BY DEF OutputStates, Running
  <2>4. QED
    BY <2>1, <2>2, <2>3, ChangedFact DEF Calm
<1>3. \A other \in Sessions \ {s} : recordings'[other] = recordings[other]
  BY <1>1 DEF TypeInv, OutputEnds
<1>4. \A other \in Sessions : /\ recordings'[other] \in RecordingSets
                              /\ Calm(recordings[other], recordings'[other])
                              /\ DOMAIN recordings'[other] = DOMAIN recordings[other]
  BY <1>1, <1>2, <1>3 DEF TypeInv, Calm
<1>5. recordings' \in [Sessions -> RecordingSets]
  <2>1. recordings' = [other \in Sessions |-> recordings'[other]]
    BY <1>1 DEF TypeInv, OutputEnds
  <2>2. QED
    BY <1>4, <2>1
<1>6. \A other \in Sessions : ActiveIn(recordings'[other]) \subseteq ActiveIn(recordings[other])
  BY <1>4, CalmShrinks
<1>7. ASSUME NEW other \in stoppedAt' PROVE ActiveIn(recordings'[other]) = {}
  <2>1. other \in Sessions /\ other \in stoppedAt
    BY <1>1, LimitsAssumption DEF OutputEnds, TypeInv, Sessions
  <2>2. QED
    BY <1>1, <1>6, <2>1 DEF StopInv
<1>8. \A o \in ActiveOutputs' : WrittenBy(o) \in files'
  <2>1. \A o \in ActiveOutputs' : o \in ActiveOutputs
    BY <1>6 DEF ActiveOutputs
  <2>2. QED
    BY <1>1, <2>1 DEF ExclusiveInv, OutputEnds
<1>9. UNCHANGED <<created, sessions, building, stops, stoppedAt>>
  BY DEF OutputEnds
<1>10. QED
  BY <1>4, <1>5, <1>7, <1>8, <1>9, CalmStep

(* A file is removed that no output writes, or nothing happens.            *)
LEMMA RemoveFileStep ==
    ASSUME IInv,
           UNCHANGED <<created, sessions, building, recordings, stoppedAt, stops>>,
           files' = files \/ \E f \in Files : RemoveFile(f)
    PROVE  IInv'
<1>1. TypeInv /\ ExclusiveInv /\ StopInv
  BY DEF IInv
<1>2. ActiveOutputs' = ActiveOutputs
  BY DEF ActiveOutputs
<1>3. \A o \in ActiveOutputs : WrittenBy(o) \in files'
  BY <1>1 DEF ExclusiveInv, RemoveFile
<1>4. recordings' \in [Sessions -> RecordingSets]
  BY <1>1 DEF TypeInv
<1>5. \A s \in Sessions : Calm(recordings[s], recordings'[s])
  BY DEF Calm
<1>6. \A s \in stoppedAt' : ActiveIn(recordings'[s]) = {}
  BY <1>1 DEF StopInv
<1>7. QED
  BY <1>2, <1>3, <1>4, <1>5, <1>6, CalmStep

(* The outputs of a failed start are released, and their files are nobody  *)
(* else's.                                                                 *)
LEMMA RollbackStep == IInv /\ Rollback => IInv'
<1> SUFFICES ASSUME IInv, Rollback PROVE IInv'
  OBVIOUS
<1>1. TypeInv /\ LimitInv /\ ExclusiveInv /\ OwnerInv /\ StopInv
  BY DEF IInv
<1>2. building \in Sessions
  BY <1>1, LimitsAssumption DEF TypeInv, Rollback, Sessions
<1>3. /\ recordings'[building] = NoRecordings
      /\ \A s \in Sessions \ {building} : recordings'[s] = recordings[s]
  BY <1>1, <1>2 DEF Rollback, TypeInv
<1>4. building' = 0 /\ UNCHANGED <<created, sessions, stoppedAt, stops>>
  BY DEF Rollback, StartReturns
<1>5. TypeInv'
  <2>1. recordings' \in [Sessions -> RecordingSets]
    BY <1>1, EmptyFact DEF TypeInv, Rollback
  <2>2. 0 \in 0..created /\ 0 \notin sessions
    BY <1>1, LimitsAssumption DEF TypeInv
  <2>3. QED
    BY <1>1, <1>4, <2>1, <2>2 DEF TypeInv
<1>6. \A s \in Sessions : Calm(recordings[s], recordings'[s])
  BY <1>3, EmptyFact DEF Calm
<1>7. \A s \in Sessions : Shrinks(recordings[s], recordings'[s])
  BY <1>6, CalmShrinks
<1>8. ASSUME NEW o \in ActiveOutputs' PROVE WrittenBy(o) \in files'
  <2>1. o \in ActiveOutputs /\ o \in Reserved
    BY <1>1, <1>4, <1>5, <1>7, ReservedShrinks
  <2>2. o[1] # building
    BY <1>2, <1>3, EmptyFact DEF ActiveOutputs
  <2>3. ASSUME NEW x \in DOMAIN recordings[building],
               WrittenBy(o) = WrittenBy(<<building, x>>)
        PROVE  FALSE
    <3>1. x \in Scenes
      BY <1>1, <1>2, SetsFact DEF TypeInv
    <3>2. <<building, x>> \in Reserved
      BY <1>2, <3>1 DEF Reserved
    <3>3. o[1] = <<building, x>>[1]
      BY <1>1, <2>1, <2>3, <3>2 DEF ExclusiveInv, Apart
    <3>4. QED
      BY <2>2, <3>3
  <2>4. WrittenBy(o) \in files
    BY <1>1, <2>1 DEF ExclusiveInv
  <2>5. QED
    BY <2>3, <2>4 DEF Rollback, PlannedFiles
<1>9. LimitInv' /\ ExclusiveInv' /\ OwnerInv'
  <2>1. Cardinality(sessions') <= HistoryLimit
    BY <1>1, <1>4 DEF LimitInv
  <2>2. \A s \in (sessions \cup {building}) \ (sessions' \cup {building'}) :
            s \in Sessions => ActiveIn(recordings'[s]) = {}
    BY <1>3, <1>4, EmptyFact
  <2>3. QED
    BY <1>1, <1>4, <1>5, <1>7, <1>8, <2>1, <2>2, ShrinkStep
<1>10. StopInv'
  <2>1. \A s \in stoppedAt' : ActiveIn(recordings'[s]) = {}
    <3>1. stoppedAt \subseteq Sessions
      BY <1>1, LimitsAssumption DEF TypeInv, Sessions
    <3>2. \A s \in stoppedAt : s # building /\ ActiveIn(recordings[s]) = {}
      BY <1>1 DEF StopInv
    <3>3. QED
      BY <1>3, <1>4, <3>1, <3>2
  <2>2. building' \notin stoppedAt'
    BY <1>1, <1>4, LimitsAssumption DEF TypeInv
  <2>3. QED
    BY <1>1, <1>4, <1>6, <2>1, <2>2, CalmStops
<1>11. QED
  BY <1>5, <1>9, <1>10 DEF IInv

(* The session is kept, for one that is over.                              *)
LEMMA KeepStep == IInv /\ Keep => IInv'
<1> SUFFICES ASSUME IInv, Keep PROVE IInv'
  OBVIOUS
<1>1. TypeInv /\ LimitInv /\ ExclusiveInv /\ OwnerInv /\ StopInv
  BY DEF IInv
<1>2. building \in Sessions
  BY <1>1, LimitsAssumption DEF TypeInv, Keep, Sessions
<1>3. Pruned \subseteq Over(sessions)
  BY <1>1, PrunedFact
<1>4. /\ \A s \in Pruned : s \in sessions /\ ActiveIn(recordings[s]) = {}
      /\ building \notin Pruned
  BY <1>1, <1>3 DEF Over, SessionActive, TypeInv
<1>5. \A s \in Sessions : recordings'[s] = IF s \in Pruned THEN NoRecordings
                                           ELSE recordings[s]
  BY DEF Keep
<1>6. /\ building' = 0 /\ UNCHANGED <<created, stoppedAt, files, stops>>
      /\ sessions' = (sessions \ Pruned) \cup {building}
  BY <1>3 DEF Keep, StartReturns
<1>7. TypeInv'
  <2>1. recordings' \in [Sessions -> RecordingSets]
    BY <1>1, EmptyFact DEF TypeInv, Keep
  <2>2. sessions' \subseteq 1..created /\ 0 \notin sessions' /\ 0 \in 0..created
    <3>1. sessions \subseteq 1..created /\ building \in 1..created /\ created \in Nat
      BY <1>1, <1>2, LimitsAssumption DEF TypeInv, Sessions
    <3>2. sessions' \subseteq 1..created
      BY <1>6, <3>1
    <3>3. 0 \notin 1..created /\ 0 \in 0..created
      BY <3>1
    <3>4. QED
      BY <3>2, <3>3
  <2>3. QED
    BY <1>1, <1>6, <2>1, <2>2 DEF TypeInv
<1>8. \A s \in Sessions : Calm(recordings[s], recordings'[s])
  BY <1>5, EmptyFact DEF Calm
<1>9. \A s \in Sessions : Shrinks(recordings[s], recordings'[s])
  BY <1>8, CalmShrinks
<1>10. LimitInv' /\ ExclusiveInv' /\ OwnerInv'
  <2>1. Cardinality(sessions') <= HistoryLimit
    BY <1>1, <1>6, HistoryHasRoom DEF Keep
  <2>2. \A o \in ActiveOutputs' : WrittenBy(o) \in files'
    <3>1. \A o \in ActiveOutputs' : o \in ActiveOutputs
      BY <1>1, <1>6, <1>7, <1>9, ReservedShrinks
    <3>2. QED
      BY <1>1, <1>6, <3>1 DEF ExclusiveInv
  <2>3. \A s \in (sessions \cup {building}) \ (sessions' \cup {building'}) :
            s \in Sessions => ActiveIn(recordings'[s]) = {}
    BY <1>5, <1>6, EmptyFact
  <2>4. QED
    BY <1>1, <1>6, <1>7, <1>9, <2>1, <2>2, <2>3, ShrinkStep
<1>11. StopInv'
  <2>1. \A s \in stoppedAt' : ActiveIn(recordings'[s]) = {}
    BY <1>1, <1>5, <1>6, EmptyFact, LimitsAssumption DEF StopInv, TypeInv, Sessions
  <2>2. building' \notin stoppedAt'
    BY <1>1, <1>6, LimitsAssumption DEF TypeInv
  <2>3. QED
    BY <1>1, <1>6, <1>8, <2>1, <2>2, CalmStops
<1>12. QED
  BY <1>7, <1>10, <1>11 DEF IInv

(* Everything ends.                                                        *)
LEMMA ShutdownStep == IInv /\ Shutdown => IInv'
<1> SUFFICES ASSUME IInv, Shutdown PROVE IInv'
  OBVIOUS
<1>1. TypeInv /\ LimitInv /\ ExclusiveInv /\ OwnerInv /\ StopInv
  BY DEF IInv
<1>2. \A s \in Sessions : recordings'[s] = NoRecordings
  BY DEF Shutdown
<1>3. /\ building = 0 /\ building' = 0 /\ sessions' = {}
      /\ stoppedAt' = stoppedAt \cup sessions
      /\ UNCHANGED <<created, files, stops>>
  BY DEF Shutdown
<1>4. TypeInv'
  <2>1. recordings' \in [Sessions -> RecordingSets]
    BY EmptyFact DEF Shutdown
  <2>2. QED
    BY <1>1, <1>3, <2>1 DEF TypeInv
<1>5. \A s \in Sessions : Calm(recordings[s], recordings'[s])
  BY <1>2, EmptyFact
<1>6. \A s \in Sessions : Shrinks(recordings[s], recordings'[s])
  BY <1>5, CalmShrinks
<1>7. LimitInv' /\ ExclusiveInv' /\ OwnerInv'
  <2>1. Cardinality(sessions') <= HistoryLimit
    BY <1>3, FS_EmptySet, LimitsAssumption
  <2>2. ActiveOutputs' = {}
    BY <1>2, EmptyFact DEF ActiveOutputs
  <2>3. QED
    BY <1>1, <1>2, <1>3, <1>4, <1>6, <2>1, <2>2, EmptyFact, ShrinkStep
<1>8. StopInv'
  <2>1. building' \notin stoppedAt'
    BY <1>1, <1>3, LimitsAssumption DEF TypeInv
  <2>2. \A s \in stoppedAt' : ActiveIn(recordings'[s]) = {}
    BY <1>1, <1>2, <1>3, EmptyFact, LimitsAssumption DEF TypeInv, Sessions
  <2>3. QED
    BY <1>1, <1>3, <1>5, <2>1, <2>2, CalmStops
<1>9. QED
  BY <1>4, <1>7, <1>8 DEF IInv

(* A session is stopped, for the first time or by force.                   *)
LEMMA StopStep ==
    ASSUME IInv, NEW s \in Sessions, Stop(s)
    PROVE  IInv'
<1>1. TypeInv /\ LimitInv /\ ExclusiveInv /\ OwnerInv /\ StopInv
  BY DEF IInv
<1>2. /\ building = 0 /\ s \in sessions
      /\ UNCHANGED <<created, sessions, building, stoppedAt, files>>
  BY DEF Stop
<1>3. recordings[s] \in RecordingSets
  BY <1>1 DEF TypeInv
<1>4. /\ recordings'[s] = [x \in DOMAIN recordings[s] |-> Stopped(recordings[s][x])]
      /\ \A other \in Sessions \ {s} : recordings'[other] = recordings[other]
  BY <1>1 DEF Stop, TypeInv
<1>5. /\ recordings'[s] \in RecordingSets
      /\ Shrinks(recordings[s], recordings'[s])
      /\ ActiveIn(recordings'[s]) = ActiveIn(recordings[s])
      /\ \A x \in ActiveIn(recordings[s]) :
            /\ recordings'[s][x].stopRequested
            /\ recordings[s][x].stopRequested => recordings'[s][x].output = "forced"
  BY <1>3, <1>4, StoppedFact
<1>6. /\ stops[s] \in 0..2 /\ stops'[s] = IF stops[s] = 2 THEN 2 ELSE stops[s] + 1
      /\ \A other \in Sessions \ {s} : stops'[other] = stops[other]
  BY <1>1 DEF Stop, TypeInv
<1>7. TypeInv'
  <2>1. recordings' \in [Sessions -> RecordingSets]
    <3>1. \A other \in Sessions : recordings'[other] \in RecordingSets
      BY <1>1, <1>4, <1>5 DEF TypeInv
    <3>2. recordings' = [other \in Sessions |-> recordings'[other]]
      BY <1>1 DEF TypeInv, Stop
    <3>3. QED
      BY <3>1, <3>2
  <2>2. stops' \in [Sessions -> 0..2]
    BY <1>1 DEF Stop, TypeInv
  <2>3. QED
    BY <1>1, <1>2, <2>1, <2>2 DEF TypeInv
<1>8. \A other \in Sessions : Shrinks(recordings[other], recordings'[other])
  BY <1>4, <1>5 DEF Shrinks
<1>9. \A other \in Sessions : ActiveIn(recordings'[other]) = ActiveIn(recordings[other])
  BY <1>4, <1>5
<1>10. LimitInv' /\ ExclusiveInv' /\ OwnerInv'
  <2>1. Cardinality(sessions') <= HistoryLimit
    BY <1>1, <1>2 DEF LimitInv
  <2>2. \A o \in ActiveOutputs' : WrittenBy(o) \in files'
    <3>1. \A o \in ActiveOutputs' : o \in ActiveOutputs
      BY <1>9 DEF ActiveOutputs
    <3>2. QED
      BY <1>1, <1>2, <3>1 DEF ExclusiveInv
  <2>3. QED
    BY <1>1, <1>2, <1>7, <1>8, <2>1, <2>2, ShrinkStep
<1>11. StopInv'
  <2>1. ASSUME NEW other \in Sessions, other = building' \/ other > created'
        PROVE  stops'[other] = 0
    <3>1. other # s
      BY <1>1, <1>2, <2>1, LimitsAssumption DEF TypeInv, Sessions
    <3>2. QED
      BY <1>1, <1>2, <1>6, <2>1, <3>1 DEF StopInv
  <2>2. ASSUME NEW other \in Sessions, NEW x \in ActiveIn(recordings'[other])
        PROVE  /\ stops'[other] > 0 => recordings'[other][x].stopRequested
               /\ stops'[other] = 2 => recordings'[other][x].output = "forced"
    <3>1. x \in ActiveIn(recordings[other])
      BY <1>9
    <3>2. CASE other = s
      BY <1>1, <1>5, <1>6, <3>1, <3>2 DEF StopInv
    <3>3. CASE other # s
      BY <1>1, <1>4, <1>6, <3>1, <3>3 DEF StopInv
    <3>4. QED
      BY <3>2, <3>3
  <2>3. \A other \in stoppedAt' : ActiveIn(recordings'[other]) = {}
    BY <1>1, <1>2, <1>9, LimitsAssumption DEF StopInv, TypeInv, Sessions
  <2>4. QED
    BY <1>1, <1>2, <2>1, <2>2, <2>3 DEF StopInv
<1>12. QED
  BY <1>7, <1>10, <1>11 DEF IInv

(* An output is started: it was reserved.                                  *)
LEMMA StartOutputStep ==
    ASSUME IInv, NEW x \in Scenes, StartOutput(x)
    PROVE  IInv'
<1>1. TypeInv /\ LimitInv /\ ExclusiveInv /\ OwnerInv /\ StopInv
  BY DEF IInv
<1>2. building \in Sessions
  BY <1>1, LimitsAssumption DEF TypeInv, StartOutput, Sessions
<1>3. recordings[building] \in RecordingSets /\ x \in DOMAIN recordings[building]
  BY <1>1, <1>2 DEF TypeInv, StartOutput
<1>4. /\ recordings'[building] = [recordings[building] EXCEPT ![x].output = "active"]
      /\ \A s \in Sessions \ {building} : recordings'[s] = recordings[s]
  BY <1>1, <1>2 DEF StartOutput, TypeInv
<1>5. /\ recordings'[building] \in RecordingSets
      /\ DOMAIN recordings'[building] = DOMAIN recordings[building]
      /\ \A y \in DOMAIN recordings[building] \ {x} :
            recordings'[building][y] = recordings[building][y]
      /\ recordings'[building][x].path = recordings[building][x].path
      /\ recordings'[building][x].output = "active"
  <2>1. "active" \in OutputStates
    BY DEF OutputStates, Running
  <2>2. QED
    BY <1>3, <1>4, <2>1, ChangedFact
<1>6. /\ UNCHANGED <<created, sessions, building, stoppedAt, stops>>
      /\ files' = files \cup {WrittenBy(<<building, x>>)}
  BY DEF StartOutput
<1>7. TypeInv'
  <2>1. recordings' \in [Sessions -> RecordingSets]
    <3>1. \A s \in Sessions : recordings'[s] \in RecordingSets
      BY <1>1, <1>4, <1>5 DEF TypeInv
    <3>2. recordings' = [s \in Sessions |-> recordings'[s]]
      BY <1>1 DEF TypeInv, StartOutput
    <3>3. QED
      BY <3>1, <3>2
  <2>2. QED
    BY <1>1, <1>6, <2>1 DEF TypeInv
<1>8. Reserved' = Reserved
  BY <1>2, <1>4, <1>5, <1>6 DEF Reserved
<1>9. ASSUME NEW o \in Reserved PROVE PathOf(o)' = PathOf(o)
  <2>1. o[1] \in Sessions /\ o[2] \in DOMAIN recordings[o[1]]
    BY DEF Reserved
  <2>2. QED
    BY <1>4, <1>5, <2>1 DEF PathOf
<1>10. ASSUME NEW o \in ActiveOutputs'
       PROVE  o \in ActiveOutputs \/ o = <<building, x>>
  <2>1. /\ o \in Sessions \X Scenes /\ o[2] \in DOMAIN recordings'[o[1]]
        /\ recordings'[o[1]][o[2]].output \in Running
    BY DEF ActiveOutputs, ActiveIn
  <2>2. CASE o[1] = building /\ o[2] = x
    BY <2>1, <2>2
  <2>3. CASE ~(o[1] = building /\ o[2] = x)
    <3>1. /\ o[2] \in DOMAIN recordings[o[1]]
          /\ recordings'[o[1]][o[2]] = recordings[o[1]][o[2]]
      BY <1>4, <1>5, <2>1, <2>3
    <3>2. QED
      BY <2>1, <3>1 DEF ActiveOutputs, ActiveIn
  <2>4. QED
    BY <2>2, <2>3
<1>11. LimitInv'
  <2>1. building' # 0 => DOMAIN recordings'[building'] # {}
    BY <1>5, <1>6, <1>3
  <2>2. QED
    BY <1>1, <1>6, <1>8, <2>1 DEF LimitInv
<1>12. ExclusiveInv'
  <2>1. \A o, other \in Reserved' : Apart(o, other)'
    BY <1>1, <1>8, <1>9 DEF ExclusiveInv, Apart, WrittenBy
  <2>2. ASSUME NEW o \in ActiveOutputs' PROVE WrittenBy(o)' \in files'
    <3>1. o \in Reserved
      <4>1. <<building, x>> \in Reserved
        BY <1>2, <1>3 DEF Reserved
      <4>2. QED
        BY <1>1, <1>10, <4>1, ReservedFact
    <3>2. WrittenBy(o) \in files'
      <4>1. WrittenBy(<<building, x>>) \in files'
        BY <1>6
      <4>2. QED
        BY <1>1, <1>6, <1>10, <4>1 DEF ExclusiveInv
    <3>3. QED
      BY <1>9, <3>1, <3>2 DEF WrittenBy
  <2>3. QED
    BY <2>1, <2>2 DEF ExclusiveInv
<1>13. OwnerInv'
  BY <1>1, <1>4, <1>6 DEF OwnerInv
<1>14. StopInv'
  <2>1. \A s \in stoppedAt' : s # building /\ ActiveIn(recordings'[s]) = {}
    <3>1. stoppedAt \subseteq Sessions
      <4>1. stoppedAt \subseteq 1..created /\ created \in 0..MaxSessions
        BY <1>1 DEF TypeInv
      <4>2. QED
        BY <4>1, LimitsAssumption DEF Sessions
    <3>2. \A s \in stoppedAt : s # building /\ ActiveIn(recordings[s]) = {}
      BY <1>1 DEF StopInv
    <3>3. QED
      BY <1>4, <1>6, <3>1, <3>2
  <2>2. \A s \in Sessions : s = building' \/ s > created' => stops'[s] = 0
    BY <1>1, <1>6 DEF StopInv
  <2>3. ASSUME NEW s \in Sessions, NEW y \in ActiveIn(recordings'[s])
        PROVE  /\ stops'[s] > 0 => recordings'[s][y].stopRequested
               /\ stops'[s] = 2 => recordings'[s][y].output = "forced"
    <3>1. CASE s = building
      BY <1>6, <2>2, <3>1
    <3>2. CASE s # building
      BY <1>1, <1>4, <1>6, <3>2 DEF StopInv
    <3>3. QED
      BY <3>1, <3>2
  <2>4. StopInv'
    BY <1>6, <2>1, <2>2, <2>3 DEF StopInv
  <2>5. QED
    BY <2>4
<1>15. QED
  BY <1>7, <1>11, <1>12, <1>13, <1>14 DEF IInv

(* start has checked and created everything: what it reserves was free.    *)
LEMMA BeginStep ==
    ASSUME IInv, NEW plan \in Plans, Begin(plan)
    PROVE  IInv'
<1> DEFINE new == created + 1
           added == {o \in Sessions \X Scenes : o[1] = new /\ o[2] \in DOMAIN plan}
<1>1. TypeInv /\ LimitInv /\ ExclusiveInv /\ OwnerInv /\ StopInv
  BY DEF IInv
<1>2. /\ new \in Sessions /\ new \notin 0..created /\ building = 0 /\ created \in Nat
      /\ building' = new /\ created' = new
      /\ UNCHANGED <<sessions, files, stops>>
  BY <1>1, LimitsAssumption DEF Begin, TypeInv, Sessions
<1>3. DOMAIN plan \in SUBSET Scenes /\ DOMAIN plan # {} /\ \A x \in DOMAIN plan : plan[x] \in Paths
  BY DEF Plans, Begin
<1>4. /\ sessions \subseteq Sessions /\ new \notin sessions
      /\ stoppedAt \subseteq Sessions /\ new \notin stoppedAt /\ new # 0
  BY <1>1, <1>2, LimitsAssumption DEF TypeInv, Sessions
<1>5. recordings'[new] = [x \in DOMAIN plan |-> [path |-> plan[x], output |-> "created",
                                                stopRequested |-> FALSE]]
  BY <1>2 DEF Begin, Released
<1>6. /\ recordings'[new] \in RecordingSets /\ DOMAIN recordings'[new] = DOMAIN plan
      /\ \A x \in DOMAIN plan : /\ recordings'[new][x].path = plan[x]
                                /\ recordings'[new][x].output = "created"
      /\ ActiveIn(recordings'[new]) = {}
  <2>1. /\ DOMAIN recordings'[new] = DOMAIN plan
        /\ \A x \in DOMAIN plan : /\ recordings'[new][x] \in OneRecording
                                  /\ recordings'[new][x].path = plan[x]
                                  /\ recordings'[new][x].output = "created"
    BY <1>3, <1>5 DEF OneRecording, OutputStates
  <2>2. recordings'[new] \in [DOMAIN recordings'[new] -> OneRecording]
    BY <1>5, <2>1
  <2>3. recordings'[new] \in RecordingSets
    BY <1>3, <2>1, <2>2, SetsFact
  <2>4. QED
    BY <2>1, <2>3 DEF ActiveIn, Running
<1>7. ASSUME NEW s \in Sessions \ {new}
      PROVE  /\ recordings'[s] \in RecordingSets
             /\ Calm(recordings[s], recordings'[s])
             /\ ActiveIn(recordings'[s]) = ActiveIn(recordings[s])
  <2>1. recordings[s] \in RecordingSets
    BY <1>1 DEF TypeInv
  <2>2. recordings'[s] = Released(sessions)[s]
    BY <1>2 DEF Begin, Released
  <2>3. CASE s \in sessions
    BY <2>1, <2>2, <2>3, TidiedFact DEF Released
  <2>4. CASE s \notin sessions
    <3>1. recordings'[s] = recordings[s]
      BY <2>2, <2>4 DEF Released
    <3>2. QED
      BY <2>1, <3>1 DEF Calm
  <2>5. QED
    BY <2>3, <2>4
<1>8. TypeInv'
  <2>1. recordings' \in [Sessions -> RecordingSets]
    <3>1. \A s \in Sessions : recordings'[s] \in RecordingSets
      BY <1>6, <1>7
    <3>2. recordings' = [s \in Sessions |-> recordings'[s]]
      BY DEF Begin, Released
    <3>3. QED
      BY <3>1, <3>2
  <2>2. /\ created' \in 0..MaxSessions /\ sessions' \subseteq 1..created'
        /\ building' \in (0..created') \ sessions'
    BY <1>1, <1>2, <1>4, LimitsAssumption DEF TypeInv, Sessions
  <2>3. stoppedAt' \subseteq 1..created'
    <3>1. stoppedAt' = stoppedAt \cup Over(sessions) /\ Over(sessions) \subseteq sessions
      BY DEF Begin, Over
    <3>2. stoppedAt' \subseteq 1..created
      BY <1>1, <3>1 DEF TypeInv
    <3>3. 1..created \subseteq 1..created'
      BY <1>2
    <3>4. QED
      BY <3>2, <3>3
  <2>4. QED
    BY <1>1, <1>2, <2>1, <2>2, <2>3 DEF TypeInv
<1> HIDE DEF new
<1>9. ASSUME NEW o \in Reserved' PROVE o \in added \/ (o \in ActiveOutputs /\ o[1] # new)
  <2>1. /\ o \in Sessions \X Scenes /\ o[2] \in DOMAIN recordings'[o[1]]
        /\ o[1] = new \/ recordings'[o[1]][o[2]].output \in Running
    BY <1>2 DEF Reserved
  <2>2. CASE o[1] = new
    BY <1>6, <2>1, <2>2
  <2>3. CASE o[1] # new
    <3>1. o[2] \in ActiveIn(recordings[o[1]])
      BY <1>7, <2>1, <2>3 DEF ActiveIn
    <3>2. QED
      BY <2>1, <2>3, <3>1 DEF ActiveOutputs
  <2>4. QED
    BY <2>2, <2>3
<1>10. ASSUME NEW o \in ActiveOutputs
       PROVE  /\ o \in Reserved /\ o \in Sessions \X Scenes /\ WrittenBy(o) \in files
              /\ o[1] \in sessions /\ o[1] # new
              /\ o[2] \in ActiveIn(recordings[o[1]]) /\ PathOf(o)' = PathOf(o)
  <2>1. o \in Sessions \X Scenes /\ o[2] \in ActiveIn(recordings[o[1]])
    BY DEF ActiveOutputs
  <2>2. o[1] \in sessions
    BY <1>1, <1>2, <2>1 DEF OwnerInv, Sessions
  <2>3. o[1] # new
    BY <1>4, <2>2
  <2>4. PathOf(o)' = PathOf(o)
    BY <1>7, <2>1, <2>3 DEF PathOf, Calm, ActiveIn
  <2>5. QED
    BY <1>1, <2>1, <2>2, <2>3, <2>4, ReservedFact DEF ExclusiveInv
<1>11. Cardinality(Reserved') <= OutputLimit
  <2>1. Cardinality(added) = Cardinality(DOMAIN plan) /\ IsFiniteSet(added)
    <3> DEFINE pair == [x \in DOMAIN plan |-> <<new, x>>]
    <3>1. pair \in [DOMAIN plan -> added]
      BY <1>2, <1>3
    <3>2. /\ \A x, y \in DOMAIN plan : pair[x] = pair[y] => x = y
          /\ \A o \in added : \E x \in DOMAIN plan : pair[x] = o
      OBVIOUS
    <3> HIDE DEF pair, added
    <3>3. pair \in Bijection(DOMAIN plan, added)
      BY <3>1, <3>2, Fun_IsBij
    <3>4. ExistsBijection(DOMAIN plan, added)
      BY <3>3 DEF ExistsBijection
    <3>5. IsFiniteSet(DOMAIN plan)
      BY <1>3, ScenesAssumption, FS_Subset
    <3>6. QED
      BY <3>4, <3>5, FS_Bijection
  <2>2. IsFiniteSet(ActiveOutputs)
    BY FiniteFact DEF ActiveOutputs
  <2> HIDE DEF added
  <2>3. /\ IsFiniteSet(ActiveOutputs \cup added)
        /\ Cardinality(ActiveOutputs \cup added) <= Cardinality(ActiveOutputs) + Cardinality(added)
    <3>1. IsFiniteSet(ActiveOutputs \cap added)
      BY <2>2, FS_Intersection
    <3>2. Cardinality(ActiveOutputs \cap added) \in Nat /\ Cardinality(ActiveOutputs) \in Nat
          /\ Cardinality(added) \in Nat
      BY <2>1, <2>2, <3>1, FS_CardinalityType
    <3>3. /\ IsFiniteSet(ActiveOutputs \cup added)
          /\ Cardinality(ActiveOutputs \cup added) =
               Cardinality(ActiveOutputs) + Cardinality(added)
                 - Cardinality(ActiveOutputs \cap added)
      BY <2>1, <2>2, FS_Union
    <3>4. QED
      BY <3>2, <3>3
  <2>4. Reserved' \in SUBSET (ActiveOutputs \cup added)
    BY <1>9
  <2>5. Cardinality(Reserved') <= Cardinality(ActiveOutputs \cup added) /\ IsFiniteSet(Reserved')
    BY <2>3, <2>4, FS_Subset
  <2>6. /\ Cardinality(Reserved') \in Nat /\ Cardinality(ActiveOutputs \cup added) \in Nat
        /\ Cardinality(ActiveOutputs) \in Nat /\ Cardinality(added) \in Nat
    BY <2>1, <2>2, <2>3, <2>5, FS_CardinalityType
  <2>7. Cardinality(ActiveOutputs) + Cardinality(DOMAIN plan) <= OutputLimit
    BY DEF Begin, WithinOutputLimit
  <2>8. QED
    BY <2>1, <2>3, <2>5, <2>6, <2>7, LimitsAssumption
<1>12. LimitInv'
  BY <1>1, <1>2, <1>3, <1>6, <1>11 DEF LimitInv
<1>13. ExclusiveInv'
  <2>1. ASSUME NEW o \in added
        PROVE  /\ o = <<new, o[2]>> /\ o[2] \in DOMAIN plan /\ PathOf(o)' = plan[o[2]]
               /\ FileOf[plan[o[2]]] \notin files
               /\ \A s \in sessions : o[2] \notin ActiveIn(recordings[s])
    <3>1. o = <<new, o[2]>> /\ o[1] = new /\ o[2] \in DOMAIN plan
      OBVIOUS
    <3>2. PathOf(o)' = plan[o[2]]
      BY <1>6, <3>1 DEF PathOf
    <3>3. QED
      BY <3>1, <3>2 DEF Begin, Unused
  <2> HIDE DEF added
  <2>2. ASSUME NEW o \in ActiveOutputs, NEW other \in added
        PROVE  Apart(o, other)' /\ Apart(other, o)'
    <3>1. WrittenBy(o)' \in files /\ WrittenBy(other)' \notin files
      BY <1>10, <2>1 DEF WrittenBy
    <3>2. PathOf(o)' # PathOf(other)'
      BY <3>1 DEF WrittenBy
    <3>3. o[2] # other[2]
      BY <1>10, <2>1
    <3>4. QED
      BY <3>1, <3>2, <3>3 DEF Apart
  <2>3. ASSUME NEW o \in added, NEW other \in added
        PROVE  Apart(o, other)'
    <3>1. o[1] = other[1]
      BY <2>1
    <3>2. PathOf(o)' = PathOf(other)' => o[2] = other[2]
      BY <2>1 DEF Begin, Unused
    <3>3. QED
      BY <2>1, <3>1, <3>2 DEF Apart
  <2>4. ASSUME NEW o \in ActiveOutputs, NEW other \in ActiveOutputs
        PROVE  Apart(o, other)'
    <3>1. Apart(o, other)
      BY <1>1, <1>10 DEF ExclusiveInv
    <3>2. QED
      BY <1>10, <3>1 DEF Apart, WrittenBy
  <2>5. \A o, other \in Reserved' : Apart(o, other)'
    BY <1>9, <2>2, <2>3, <2>4
  <2>6. ASSUME NEW o \in ActiveOutputs' PROVE WrittenBy(o)' \in files'
    <3>1. o \in ActiveOutputs
      BY <1>6, <1>7 DEF ActiveOutputs
    <3>2. QED
      BY <1>2, <1>10, <3>1 DEF WrittenBy
  <2>7. QED
    BY <2>5, <2>6 DEF ExclusiveInv
<1>14. OwnerInv'
  <2>1. ASSUME NEW s \in Sessions, ActiveIn(recordings'[s]) # {}
        PROVE  s \in sessions' \cup {building'}
    <3>1. s # new /\ ActiveIn(recordings[s]) # {}
      BY <1>6, <1>7, <2>1
    <3>2. s \in sessions
      BY <1>1, <1>2, <3>1 DEF OwnerInv, Sessions
    <3>3. QED
      BY <1>2, <3>2
  <2>2. QED
    BY <2>1 DEF OwnerInv
<1>15. StopInv'
  <2>1. stoppedAt' = stoppedAt \cup Over(sessions)
    BY DEF Begin
  <2>2. ASSUME NEW s \in stoppedAt' PROVE s # new /\ ActiveIn(recordings'[s]) = {}
    <3>1. s \in Sessions /\ s # new /\ ActiveIn(recordings[s]) = {}
      BY <1>1, <1>4, <2>1 DEF StopInv, Over, SessionActive
    <3>2. QED
      BY <1>7, <3>1
  <2>3. ASSUME NEW s \in Sessions, s = building' \/ s > created' PROVE stops'[s] = 0
    <3>1. s > created
      BY <1>2, <2>3 DEF Sessions, new
    <3>2. QED
      BY <1>1, <1>2, <3>1 DEF StopInv
  <2>4. ASSUME NEW s \in Sessions, NEW x \in ActiveIn(recordings'[s])
        PROVE  /\ stops'[s] > 0 => recordings'[s][x].stopRequested
               /\ stops'[s] = 2 => recordings'[s][x].output = "forced"
    <3>1. s # new
      BY <1>6
    <3>2. x \in ActiveIn(recordings[s]) /\ recordings'[s][x] = recordings[s][x]
      BY <1>7, <3>1 DEF Calm, ActiveIn
    <3>3. QED
      BY <1>1, <1>2, <3>2 DEF StopInv
  <2>5. StopInv'
    BY <1>2, <2>2, <2>3, <2>4 DEF StopInv
  <2>6. QED
    BY <2>5
<1>16. QED
  BY <1>8, <1>12, <1>13, <1>14, <1>15 DEF IInv

\* Every step keeps the invariant.
LEMMA StepIInv == IInv /\ [Next]_vars => IInv'
<1> SUFFICES ASSUME IInv, [Next]_vars PROVE IInv'
  OBVIOUS
<1>1. ASSUME NEW plan \in Plans, Begin(plan) PROVE IInv'
  BY <1>1, BeginStep
<1>2. CASE Reject
  <2>1. sessions \in SUBSET sessions
    OBVIOUS
  <2>2. QED
    BY <1>2, <2>1, ReleaseStep DEF Reject
<1>3. CASE Rollback \/ Keep \/ Shutdown
  BY <1>3, RollbackStep, KeepStep, ShutdownStep
<1>4. ASSUME NEW x \in Scenes, StartOutput(x) PROVE IInv'
  BY <1>4, StartOutputStep
<1>5. ASSUME NEW s \in Sessions, Status(s) PROVE IInv'
  <2>1. {s} \in SUBSET sessions
    BY <1>5 DEF Status
  <2>2. QED
    BY <1>5, <2>1, ReleaseStep DEF Status
<1>6. ASSUME NEW s \in Sessions, Stop(s) PROVE IInv'
  BY <1>6, StopStep
<1>7. ASSUME NEW s \in Sessions, NEW x \in Scenes, OutputEnds(s, x) PROVE IInv'
  BY <1>7, OutputEndsStep
<1>8. CASE UNCHANGED vars \/ \E f \in Files : RemoveFile(f)
  BY <1>8, RemoveFileStep DEF vars, RemoveFile
<1>9. QED
  BY <1>1, <1>2, <1>3, <1>4, <1>5, <1>6, <1>7, <1>8 DEF Next

-----------------------------------------------------------------------------
(* What a step does to the active outputs.                                 *)

\* What OnlyNamedStops says of one step and one active output.
LeftAlone(s, x) ==
    \/ GoesOn(s, x)
    \/ stops'[s] # stops[s]
    \/ s = building /\ building' = 0 /\ s \notin sessions'
    \/ ~loaded'

\* Where the recordings only calm down and no file goes, every active output goes on.
LEMMA CalmGoesOn ==
    ASSUME IInv, NEW s \in Sessions, NEW x \in ActiveIn(recordings[s]),
           x \in DOMAIN recordings'[s],
           recordings'[s][x].output \in {recordings[s][x].output, "ended"},
           WrittenBy(<<s, x>>) \notin files \ files'
    PROVE  GoesOn(s, x)
<1>1. <<s, x>> \in ActiveOutputs
  <2>1. recordings[s] \in RecordingSets
    BY DEF IInv, TypeInv
  <2>2. DOMAIN recordings[s] \in SUBSET Scenes
    BY <2>1, SetsFact
  <2>3. QED
    BY <2>2 DEF ActiveOutputs, ActiveIn
<1>2. WrittenBy(<<s, x>>) \in files
  BY <1>1 DEF IInv, ExclusiveInv
<1>3. QED
  BY <1>2 DEF GoesOn

\* Tidying up the sessions ss leaves what is active as it is.
LEMMA TidiedGoesOn ==
    ASSUME IInv, NEW ss, NEW s \in Sessions, NEW x \in ActiveIn(recordings[s]),
           recordings'[s] = Released(ss)[s], files' = files
    PROVE  GoesOn(s, x)
<1>1. recordings'[s] = recordings[s]
         \/ recordings'[s] = SetOutput(recordings[s],
                 DOMAIN recordings[s] \ ActiveIn(recordings[s]), "released")
  BY DEF Released
<1>2. x \in DOMAIN recordings'[s] /\ recordings'[s][x] = recordings[s][x]
  BY <1>1 DEF SetOutput, ActiveIn
<1>3. QED
  BY <1>2, CalmGoesOn

\* A session of whose start nothing is left to start has been kept or rolled back;
\* its files are nobody else's.
LEMMA OthersGoOn ==
    ASSUME IInv, NEW s \in Sessions, NEW x \in ActiveIn(recordings[s]),
           Rollback \/ Keep
    PROVE  LeftAlone(s, x)
<1>1. TypeInv /\ ExclusiveInv
  BY DEF IInv
<1>2. CASE Keep
  <2>1. s \notin Pruned
    BY <1>1, PrunedFact DEF Over, SessionActive
  <2>2. recordings'[s] = recordings[s] /\ files' = files
    BY <1>2, <2>1 DEF Keep
  <2>3. x \in DOMAIN recordings[s]
    BY DEF ActiveIn
  <2>4. QED
    BY <2>2, <2>3, CalmGoesOn DEF LeftAlone
<1>3. CASE Rollback /\ s = building
  BY <1>1, <1>3 DEF Rollback, StartReturns, LeftAlone, TypeInv
<1>4. CASE Rollback /\ s # building
  <2>1. recordings'[s] = recordings[s] /\ x \in DOMAIN recordings[s]
    BY <1>1, <1>4 DEF Rollback, TypeInv, ActiveIn
  <2>2. building \in Sessions
    BY <1>1, <1>4, LimitsAssumption DEF TypeInv, Rollback, Sessions
  <2>3. recordings[s] \in RecordingSets /\ recordings[building] \in RecordingSets
    BY <1>1, <2>2 DEF TypeInv
  <2>4. DOMAIN recordings[s] \in SUBSET Scenes /\ DOMAIN recordings[building] \in SUBSET Scenes
    BY <2>3, SetsFact
  <2>5. <<s, x>> \in Reserved
    BY <2>1, <2>4 DEF Reserved, ActiveIn
  <2>6. ASSUME NEW y \in DOMAIN recordings[building]
        PROVE  WrittenBy(<<s, x>>) # WrittenBy(<<building, y>>)
    <3>1. <<building, y>> \in Reserved
      BY <2>2, <2>4 DEF Reserved
    <3>2. Apart(<<s, x>>, <<building, y>>)
      BY <1>1, <2>5, <3>1 DEF ExclusiveInv
    <3>3. QED
      BY <1>4, <3>2 DEF Apart
  <2>7. WrittenBy(<<s, x>>) \notin files \ files'
    BY <1>4, <2>6 DEF Rollback, PlannedFiles
  <2>8. QED
    BY <2>1, <2>7, CalmGoesOn DEF LeftAlone
<1>5. QED
  BY <1>2, <1>3, <1>4

\* One output changes: it starts, or ends by itself.
LEMMA ChangeGoesOn ==
    ASSUME IInv, NEW s \in Sessions, NEW x \in ActiveIn(recordings[s]),
           \/ \E y \in Scenes : StartOutput(y)
           \/ \E other \in Sessions, y \in Scenes : OutputEnds(other, y)
    PROVE  GoesOn(s, x)
<1>1. recordings[s] \in RecordingSets /\ x \in DOMAIN recordings[s]
  BY DEF IInv, TypeInv, ActiveIn
<1>2. DOMAIN recordings[s] \in SUBSET Scenes /\ recordings[s][x] \in OneRecording
  BY <1>1, SetsFact
<1>3. ASSUME NEW y \in Scenes, StartOutput(y) PROVE GoesOn(s, x)
  <2>1. recordings' = [recordings EXCEPT ![building][y].output = "active"]
        /\ files \subseteq files' /\ recordings[building][y].output = "created"
    BY <1>3 DEF StartOutput
  <2>2. ~(s = building /\ x = y)
    BY <2>1 DEF ActiveIn, Running
  <2>3. recordings'[s][x] = recordings[s][x] /\ x \in DOMAIN recordings'[s]
    BY <1>1, <2>1, <2>2 DEF IInv, TypeInv
  <2>4. QED
    BY <2>1, <2>3, CalmGoesOn
<1>4. ASSUME NEW other \in Sessions, NEW y \in Scenes, OutputEnds(other, y)
      PROVE  GoesOn(s, x)
  <2>1. recordings' = [recordings EXCEPT ![other][y].output = "ended"] /\ files' = files
    BY <1>4 DEF OutputEnds
  <2>2. /\ x \in DOMAIN recordings'[s]
        /\ recordings'[s][x].output \in {recordings[s][x].output, "ended"}
    BY <1>1, <1>2, <2>1 DEF IInv, TypeInv, OneRecording
  <2>3. QED
    BY <2>1, <2>2, CalmGoesOn
<1>5. QED
  BY <1>3, <1>4

\* A stop is one of its own session, unless it is forced already.
LEMMA StopLeavesAlone ==
    ASSUME IInv, NEW named \in Sessions, Stop(named),
           NEW s \in Sessions, NEW x \in ActiveIn(recordings[s])
    PROVE  LeftAlone(s, x)
<1>1. /\ recordings' = [recordings EXCEPT ![named] =
              [y \in DOMAIN recordings[named] |-> Stopped(recordings[named][y])]]
      /\ stops' = [stops EXCEPT ![named] = IF @ = 2 THEN 2 ELSE @ + 1]
      /\ files' = files /\ x \in DOMAIN recordings[s]
      /\ stops \in [Sessions -> 0..2] /\ DOMAIN recordings = Sessions
  BY DEF Stop, ActiveIn, IInv, TypeInv
<1>2. CASE s # named
  <2>1. recordings'[s] = recordings[s]
    BY <1>1, <1>2
  <2>2. QED
    BY <1>1, <2>1, CalmGoesOn DEF LeftAlone
<1>3. CASE s = named /\ stops[s] # 2
  <2>1. stops[s] \in 0..2 /\ stops'[s] = stops[s] + 1
    BY <1>1, <1>3
  <2>2. QED
    BY <2>1 DEF LeftAlone
<1>4. CASE s = named /\ stops[s] = 2
  <2>1. recordings[s][x].stopRequested /\ recordings[s][x].output = "forced"
    BY <1>4 DEF IInv, StopInv
  <2>2. recordings[s][x] \in OneRecording
    BY <1>1, SetsFact DEF IInv, TypeInv
  <2>3. /\ x \in DOMAIN recordings'[s]
        /\ recordings'[s][x] = Stopped(recordings[s][x])
    BY <1>1, <1>4
  <2>4. Stopped(recordings[s][x]).output = "forced"
    BY <2>1, <2>2 DEF Stopped, Running, OneRecording
  <2>5. QED
    BY <1>1, <2>1, <2>3, <2>4, CalmGoesOn DEF LeftAlone
<1>5. QED
  BY <1>2, <1>3, <1>4

\* No step of any action takes an output or its file from a session it is not about.
LEMMA StepLeavesAlone ==
    ASSUME IInv, [Next]_vars, NEW s \in Sessions, NEW x \in ActiveIn(recordings[s])
    PROVE  LeftAlone(s, x)
<1>1. ASSUME NEW plan \in Plans, Begin(plan) PROVE LeftAlone(s, x)
  <2>1. s # created + 1
    <3>1. s \in sessions
      BY <1>1 DEF IInv, OwnerInv, Begin, Sessions
    <3>2. QED
      BY <3>1, LimitsAssumption DEF IInv, TypeInv
  <2>2. recordings'[s] = Released(sessions)[s] /\ files' = files
    BY <1>1, <2>1 DEF Begin, Released
  <2>3. QED
    BY <2>2, TidiedGoesOn DEF LeftAlone
<1>2. CASE Reject \/ \E other \in Sessions : Status(other)
  <2>1. PICK ss : recordings' = Released(ss) /\ files' = files
    BY <1>2 DEF Reject, Status, ReleaseInactive
  <2>2. QED
    BY <2>1, TidiedGoesOn DEF LeftAlone
<1>3. CASE Rollback \/ Keep
  BY <1>3, OthersGoOn
<1>4. CASE Shutdown
  BY <1>4 DEF Shutdown, LeftAlone
<1>5. CASE \/ \E y \in Scenes : StartOutput(y)
           \/ \E other \in Sessions, y \in Scenes : OutputEnds(other, y)
  BY <1>5, ChangeGoesOn DEF LeftAlone
<1>6. ASSUME NEW named \in Sessions, Stop(named) PROVE LeftAlone(s, x)
  BY <1>6, StopLeavesAlone
<1>7. CASE UNCHANGED vars \/ \E f \in Files : RemoveFile(f)
  <2>1. recordings' = recordings /\ x \in DOMAIN recordings[s]
    BY <1>7 DEF vars, RemoveFile, ActiveIn
  <2>2. <<s, x>> \in ActiveOutputs
    BY <2>1, SetsFact DEF ActiveOutputs, ActiveIn, IInv, TypeInv
  <2>3. WrittenBy(<<s, x>>) \notin files \ files'
    BY <1>7, <2>2 DEF vars, RemoveFile
  <2>4. QED
    BY <2>1, <2>3, CalmGoesOn DEF LeftAlone
<1>8. QED
  BY <1>1, <1>2, <1>3, <1>4, <1>5, <1>6, <1>7 DEF Next

-----------------------------------------------------------------------------
(* The theorems.                                                           *)

(* The invariant that the theorems below are read off.                     *)
THEOREM Invariance == Spec => []IInv
  BY InitIInv, StepIInv, PTL DEF Spec

(* Never more than kMaxSceneRecordings outputs are active, nor more than    *)
(* history_limit sessions kept, however starts, stops and ends follow each  *)
(* other.                                                                   *)
THEOREM LimitsHold == Spec => []WithinLimit
<1>1. IInv => WithinLimit
  <2> SUFFICES ASSUME IInv PROVE WithinLimit
    OBVIOUS
  <2>1. ActiveOutputs \in SUBSET Reserved /\ IsFiniteSet(Reserved)
    BY ReservedFact, FiniteFact DEF IInv
  <2>2. Cardinality(ActiveOutputs) <= Cardinality(Reserved) /\ IsFiniteSet(ActiveOutputs)
    BY <2>1, FS_Subset
  <2>3. Cardinality(ActiveOutputs) \in Nat /\ Cardinality(Reserved) \in Nat
    BY <2>1, <2>2, FS_CardinalityType
  <2>4. Cardinality(Reserved) <= OutputLimit /\ Cardinality(sessions) <= HistoryLimit
    BY DEF IInv, LimitInv
  <2>5. QED
    BY <2>2, <2>3, <2>4, LimitsAssumption DEF WithinLimit
<1>2. QED
  BY <1>1, Invariance, PTL

(* No scene is ever recorded twice at a time, nothing is written twice      *)
(* under one name, and no two sessions write one file, whichever names the  *)
(* disk takes for the same.                                                 *)
THEOREM RecordingsAreExclusive == Spec => []Exclusive
<1>1. IInv => Exclusive
  BY ReservedFact DEF IInv, ExclusiveInv, Exclusive, Apart
<1>2. QED
  BY <1>1, Invariance, PTL

(* Every active output can be asked about and stopped, or its start is      *)
(* still under way.                                                         *)
THEOREM OutputsAreOwned == Spec => []NoOrphans
<1>1. IInv => NoOrphans
  BY DEF IInv, OwnerInv, NoOrphans, ActiveOutputs
<1>2. QED
  BY <1>1, Invariance, PTL

(* No session loses an output, or the file it writes, to the stop or the    *)
(* start of another.                                                        *)
THEOREM OthersAreLeftAlone == Spec => OnlyNamedStops
<1>1. IInv /\ [Next]_vars =>
         \A s \in Sessions : \A x \in ActiveIn(recordings[s]) : LeftAlone(s, x)
  BY StepLeavesAlone
<1>2. IInv /\ [Next]_vars =>
         [\A s \in Sessions : \A x \in ActiveIn(recordings[s]) :
             \/ GoesOn(s, x)
             \/ stops'[s] # stops[s]
             \/ s = building /\ building' = 0 /\ s \notin sessions'
             \/ ~loaded']_vars
  BY <1>1 DEF LeftAlone
<1>3. QED
  BY <1>2, Invariance, PTL DEF Spec, OnlyNamedStops

(* A session with a stop time is over, and a second stop is forced.         *)
THEOREM StopsHold == Spec => []StopsAreTrue
<1>1. IInv => StopsAreTrue
  BY DEF IInv, StopInv, StopsAreTrue, SessionActive
<1>2. QED
  BY <1>1, Invariance, PTL
=============================================================================
