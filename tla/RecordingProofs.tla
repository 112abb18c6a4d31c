-------------------------- MODULE RecordingProofs --------------------------
(***************************************************************************)
(* Proofs about Recording for any clients, operations and bounds.  Every   *)
(* step changes the recorder as Evolves says: recordings are numbered      *)
(* upwards and one that is over never becomes active again.  That carries  *)
(* ClientInv, which compares a client's request with the numbers, over the *)
(* steps of all other actors.                                              *)
(***************************************************************************)
EXTENDS Recording, TLAPS

RecorderTypes ==
    /\ recorder \in {"idle", "recording", "paused", "stopping"}
    /\ number \in 0..MaxRecordings
    /\ directory \in {"profile", "requested"}
    /\ pending \in Seq({"started", "stopped"})
    /\ stopRequested \in BOOLEAN
    /\ stopped \subseteq 1..MaxRecordings

RecorderInv == RecorderTypes /\ (Active => number > 0) /\ FinalizingExplained

Evolves == /\ RecorderInv'
           /\ number <= number'
           /\ Active' /\ number' = number => Active

ClientInv(c) ==
    /\ pc[c] = "done" <=> result[c] # "none"
    /\ before[c] <= number
    /\ pc[c] = "poll" /\ op[c] = "StartInDirectory" /\ Active => number > before[c]
    /\ result[c] = "verified" /\ op[c] = "StartInDirectory" => seen[c] > before[c]
    /\ result[c] = "verified" /\ op[c] \in {"StopRecording", "StopOutput"} =>
          ~(Active /\ number = before[c])

IInv == TypeOK /\ RecorderInv /\ \A c \in Clients : ClientInv(c)

-----------------------------------------------------------------------------
(* The recorder.                                                           *)

\* A recording begins, by the user or on request; it leaves no flag that was not there.
LEMMA StartEvolves ==
    ASSUME RecorderInv, NEW d \in {"profile", "requested"}, RecorderStart(d),
           stopRequested' \in BOOLEAN, stopRequested' => stopRequested, stopped' = stopped
    PROVE  Evolves
<1>1. CASE UNCHANGED recorderVars
  BY <1>1 DEF RecorderInv, RecorderTypes, Evolves, FinalizingExplained, Active, recorderVars
<1>2. CASE /\ ~Active
           /\ number < MaxRecordings
           /\ recorder' = "recording"
           /\ number' = number + 1
           /\ directory' = d
           /\ pending' = Append(pending, "started")
  <2>1. /\ pending' \in Seq({"started", "stopped"})
        /\ pending' # <<>>
    BY <1>2 DEF RecorderInv, RecorderTypes
  <2>2. number' \in 0..MaxRecordings /\ number' > 0 /\ number < number'
    BY <1>2, ConstantsAssumption DEF RecorderInv, RecorderTypes
  <2>3. RecorderTypes'
    BY <1>2, <2>1, <2>2 DEF RecorderInv, RecorderTypes
  <2>4. QED
    BY <1>2, <2>1, <2>2, <2>3, ConstantsAssumption DEF Evolves, RecorderInv, RecorderTypes, FinalizingExplained
<1>3. QED
  BY <1>1, <1>2 DEF RecorderStart

\* A recording is asked to stop.
LEMMA StopEvolves ==
    ASSUME RecorderInv, RecorderStop, stopRequested' \in {stopRequested, Active}
    PROVE  Evolves
<1>1. number \in 0..MaxRecordings /\ number \in Nat /\ (Active => number > 0)
  BY ConstantsAssumption DEF RecorderInv, RecorderTypes
<1>2. stopRequested' \in BOOLEAN
  BY DEF RecorderInv, RecorderTypes, Active
<1>3. stopped' \subseteq 1..MaxRecordings
  BY <1>1, ConstantsAssumption DEF RecorderInv, RecorderTypes, RecorderStop
<1>4. RecorderTypes'
  BY <1>2, <1>3 DEF RecorderInv, RecorderTypes, RecorderStop
<1>5. Active' <=> Active
  BY DEF RecorderStop, Active
<1>6. FinalizingExplained'
  BY <1>5 DEF RecorderInv, RecorderStop, FinalizingExplained
<1>7. QED
  BY <1>1, <1>4, <1>5, <1>6 DEF RecorderInv, RecorderStop, Evolves

\* A recording is paused or goes on.
LEMMA PauseEvolves ==
    ASSUME RecorderInv, UNCHANGED <<stopRequested, stopped>>,
           \/ RecorderPause("recording", "paused")
           \/ RecorderPause("paused", "recording")
    PROVE  Evolves
  BY ConstantsAssumption DEF RecorderInv, RecorderTypes, RecorderPause, Evolves, FinalizingExplained, Active

\* The recorder does nothing; at most the stop flag is cleared.
LEMMA StutterEvolves ==
    ASSUME RecorderInv, UNCHANGED <<recorderVars, stopped>>,
           stopRequested' \in {stopRequested, FALSE}
    PROVE  Evolves
<1>1. RecorderTypes'
  BY DEF RecorderInv, RecorderTypes, recorderVars
<1>2. number \in Nat
  BY ConstantsAssumption DEF RecorderInv, RecorderTypes
<1>3. FinalizingExplained'
  BY DEF RecorderInv, FinalizingExplained, Active, recorderVars
<1>4. QED
  BY <1>1, <1>2, <1>3 DEF RecorderInv, Evolves, Active, recorderVars

(* Any step of any actor.                                                  *)
LEMMA Evolution == RecorderInv /\ [Next]_vars => Evolves
<1> SUFFICES ASSUME RecorderInv, [Next]_vars PROVE Evolves
  OBVIOUS
<1>1. CASE UNCHANGED vars
  BY <1>1, StutterEvolves DEF vars
<1>2. CASE User
  <2>1. UNCHANGED stopRequested /\ stopRequested \in BOOLEAN
    BY <1>2 DEF User, RecorderInv, RecorderTypes
  <2>2. CASE RecorderStart("profile") /\ UNCHANGED stopped
    BY <2>1, <2>2, StartEvolves
  <2>3. CASE RecorderStop
    BY <2>1, <2>3, StopEvolves
  <2>4. CASE RecorderPause("recording", "paused") /\ UNCHANGED stopped
    BY <2>1, <2>4, PauseEvolves
  <2>5. CASE RecorderPause("paused", "recording") /\ UNCHANGED stopped
    BY <2>1, <2>5, PauseEvolves
  <2>6. QED
    BY <1>2, <2>2, <2>3, <2>4, <2>5 DEF User
<1>3. CASE Finalize
  <2>1. pending' \in Seq({"started", "stopped"})
    BY <1>3 DEF Finalize, RecorderInv, RecorderTypes
  <2>2. RecorderTypes'
    BY <1>3, <2>1 DEF Finalize, RecorderInv, RecorderTypes
  <2>3. QED
    BY <1>3, <2>2, ConstantsAssumption DEF Finalize, RecorderInv, RecorderTypes, Evolves, FinalizingExplained, Active
<1>4. CASE FrontendEvent
  <2>1. pending' \in Seq({"started", "stopped"})
    BY <1>4 DEF FrontendEvent, RecorderInv, RecorderTypes
  <2>2. RecorderTypes'
    BY <1>4, <2>1 DEF FrontendEvent, RecorderInv, RecorderTypes
  <2>3. QED
    BY <1>4, <2>2, ConstantsAssumption DEF FrontendEvent, RecorderInv, RecorderTypes, Evolves, FinalizingExplained, Active
<1>5. ASSUME NEW c \in Clients, NEW o \in Operations, Mutate(c, o) PROVE Evolves
  <2>1. stopRequested \in BOOLEAN
    BY DEF RecorderInv, RecorderTypes
  <2>2. CASE StartRecording
    <3>1. CASE Active
      BY <2>2, <3>1, StutterEvolves DEF StartRecording
    <3>2. CASE ~Active
      BY <2>2, <3>2, StartEvolves DEF StartRecording
    <3>3. QED
      BY <3>1, <3>2
  <2>3. CASE StartInDirectory
    BY <2>3, StartEvolves DEF StartInDirectory
  <2>4. CASE StopRecording
    BY <2>4, StopEvolves DEF StopRecording
  <2>5. CASE PauseRecording
    BY <2>5, PauseEvolves DEF PauseRecording
  <2>6. CASE ResumeRecording
    BY <2>6, PauseEvolves DEF ResumeRecording
  <2>7. CASE StartOutput
    BY <2>1, <2>7, StartEvolves DEF StartOutput
  <2>8. CASE StopOutput
    BY <2>8, StopEvolves DEF StopOutput
  <2>9. QED
    BY <1>5, <2>2, <2>3, <2>4, <2>5, <2>6, <2>7, <2>8 DEF Mutate, Perform
<1>6. ASSUME NEW c \in Clients, NEW o \in Operations, Reject(c, o) PROVE Evolves
  <2>1. stopRequested' \in {stopRequested, FALSE}
    BY <1>6 DEF Reject, Refused
  <2>2. QED
    BY <1>6, <2>1, StutterEvolves DEF Reject
<1>7. ASSUME NEW c \in Clients, ReadBack(c) \/ GiveUp(c) PROVE Evolves
  BY <1>7, StutterEvolves DEF ReadBack, GiveUp
<1>8. QED
  BY <1>1, <1>2, <1>3, <1>4, <1>5, <1>6, <1>7 DEF Next

-----------------------------------------------------------------------------
(* The clients.                                                            *)

ClientTypes ==
    /\ pc \in [Clients -> {"idle", "poll", "done"}]
    /\ op \in [Clients -> Operations \cup {"none"}]
    /\ attempts \in [Clients -> 0..Attempts - 1]
    /\ result \in [Clients -> {"none", "verified", "stopPending", "error"}]
    /\ before \in [Clients -> 0..MaxRecordings]
    /\ ending \in [Clients -> BOOLEAN]
    /\ seen \in [Clients -> 0..MaxRecordings]

\* The type invariant, divided between the recorder and its clients.
LEMMA TypeParts == TypeOK <=> RecorderTypes /\ ClientTypes
  BY DEF TypeOK, RecorderTypes, ClientTypes

(* What a client was told stays true when it takes no step itself.         *)
LEMMA ClientFrame ==
    ASSUME RecorderInv, Evolves, ClientTypes, NEW d \in Clients, ClientInv(d),
           /\ pc'[d] = pc[d] /\ op'[d] = op[d] /\ result'[d] = result[d]
           /\ before'[d] = before[d] /\ seen'[d] = seen[d]
    PROVE  ClientInv(d)'
<1>1. before[d] \in Nat /\ number \in Nat /\ number' \in Nat
  BY ConstantsAssumption DEF ClientTypes, RecorderInv, RecorderTypes, Evolves
<1>2. number <= number' /\ (Active' /\ number' = number => Active)
  BY DEF Evolves
<1>3. before[d] <= number /\ before'[d] <= number'
  BY <1>1, <1>2 DEF ClientInv
<1>4. pc'[d] = "poll" /\ op'[d] = "StartInDirectory" /\ Active' => number' > before'[d]
  BY <1>1, <1>2, <1>3 DEF ClientInv
<1>5. result'[d] = "verified" /\ op'[d] \in {"StopRecording", "StopOutput"} =>
         ~(Active' /\ number' = before'[d])
  BY <1>1, <1>2, <1>3 DEF ClientInv
<1>6. QED
  BY <1>3, <1>4, <1>5 DEF ClientInv

\* The clients keep their part of the invariant, whatever evolution the recorder takes.
LEMMA ClientStep ==
    ASSUME RecorderInv, ClientTypes, \A c \in Clients : ClientInv(c), [Next]_vars, Evolves
    PROVE  ClientTypes' /\ \A c \in Clients : ClientInv(c)'
<1> DEFINE Same == UNCHANGED <<clientVars, before, ending, seen>>
<1>0. number \in 0..MaxRecordings /\ number \in Nat
  BY ConstantsAssumption DEF RecorderInv, RecorderTypes
<1>1. CASE Same
  <2>1. ClientTypes'
    BY <1>1 DEF ClientTypes, clientVars
  <2>2. ASSUME NEW d \in Clients PROVE ClientInv(d)'
    BY <1>1, <2>2, ClientFrame DEF clientVars
  <2>3. QED
    BY <2>1, <2>2
<1>2. ASSUME NEW c \in Clients, NEW o \in Operations, Mutate(c, o)
      PROVE ClientTypes' /\ \A d \in Clients : ClientInv(d)'
  <2>1. ClientTypes'
    BY <1>2, <1>0 DEF Mutate, ClientTypes
  <2>2. ASSUME NEW d \in Clients, d # c PROVE ClientInv(d)'
    BY <1>2, <2>2, ClientFrame DEF Mutate, ClientTypes
  <2>3. /\ pc'[c] = "poll" /\ op'[c] = o /\ before'[c] = number
        /\ result'[c] = "none"
    BY <1>2 DEF Mutate, ClientTypes, ClientInv
  <2>4. number <= number'
    BY DEF Evolves
  <2>5. o = "StartInDirectory" /\ Active' => number' > number
    BY <1>2, <1>0 DEF Mutate, Perform, StartInDirectory, RecorderStart, recorderVars, Active
  <2>6. ClientInv(c)'
    BY <2>3, <2>4, <2>5 DEF ClientInv
  <2>7. QED
    BY <2>1, <2>2, <2>6
<1>3. ASSUME NEW c \in Clients, NEW o \in Operations, Reject(c, o)
      PROVE ClientTypes' /\ \A d \in Clients : ClientInv(d)'
  <2>1. ClientTypes'
    BY <1>3 DEF Reject, Finish, ClientTypes
  <2>2. ASSUME NEW d \in Clients, d # c PROVE ClientInv(d)'
    BY <1>3, <2>2, ClientFrame DEF Reject, Finish, ClientTypes
  <2>3. ClientInv(c)'
    BY <1>3 DEF Reject, Finish, ClientTypes, ClientInv, Active, recorderVars
  <2>4. QED
    BY <2>1, <2>2, <2>3
<1>4. ASSUME NEW c \in Clients, GiveUp(c)
      PROVE ClientTypes' /\ \A d \in Clients : ClientInv(d)'
  <2>1. ClientTypes'
    BY <1>4 DEF GiveUp, Finish, ClientTypes
  <2>2. ASSUME NEW d \in Clients, d # c PROVE ClientInv(d)'
    BY <1>4, <2>2, ClientFrame DEF GiveUp, Finish, ClientTypes
  <2>3. ClientInv(c)'
    BY <1>4 DEF GiveUp, Finish, ClientTypes, ClientInv, Active, recorderVars
  <2>4. QED
    BY <2>1, <2>2, <2>3
<1>5. ASSUME NEW c \in Clients, ReadBack(c)
      PROVE ClientTypes' /\ \A d \in Clients : ClientInv(d)'
  <2>1. ClientTypes'
    <3>1. attempts' \in [Clients -> 0..Attempts - 1]
      <4>1. attempts \in [Clients -> 0..Attempts - 1]
        BY DEF ClientTypes
      <4>2. QED
        BY <1>5, <4>1, ConstantsAssumption DEF ReadBack, AttemptsLeft
    <3>2. /\ pc' \in [Clients -> {"idle", "poll", "done"}]
          /\ result' \in [Clients -> {"none", "verified", "stopPending", "error"}]
      BY <1>5 DEF ReadBack, Finish, ClientTypes
    <3>3. seen' \in [Clients -> 0..MaxRecordings]
      BY <1>5, <1>0 DEF ReadBack, ClientTypes
    <3>4. QED
      BY <1>5, <3>1, <3>2, <3>3 DEF ReadBack, ClientTypes
  <2>2. ASSUME NEW d \in Clients, d # c PROVE ClientInv(d)'
    BY <1>5, <2>2, ClientFrame DEF ReadBack, Finish, ClientTypes
  <2>3. /\ pc[c] = "poll" /\ result[c] = "none" /\ seen'[c] = number
        /\ UNCHANGED <<recorder, number, op, before>>
    BY <1>5 DEF ReadBack, ClientTypes, ClientInv, recorderVars
  <2>4. ASSUME Matches(op[c]), Finish(c, "verified") PROVE ClientInv(c)'
    <3>1. pc'[c] = "done" /\ result'[c] = "verified"
      BY <2>4 DEF Finish, ClientTypes
    <3>2. op[c] \in {"StopRecording", "StopOutput"} => ~Active
      BY <2>4 DEF Matches, Active
    <3>3. op[c] = "StartInDirectory" => Active
      BY <2>4 DEF Matches, Active
    <3>4. QED
      BY <2>3, <3>1, <3>2, <3>3 DEF ClientInv, Active
  <2>5. ASSUME ~(Matches(op[c]) /\ Finish(c, "verified")) PROVE ClientInv(c)'
    <3>1. \/ pc'[c] = "done" /\ result'[c] \in {"stopPending", "error"}
          \/ pc'[c] = "poll" /\ result'[c] = "none"
      BY <1>5, <2>3, <2>5 DEF ReadBack, Finish, ClientTypes
    <3>2. QED
      BY <2>3, <3>1 DEF ClientInv, Active
  <2>6. QED
    BY <2>1, <2>2, <2>4, <2>5
<1>6. QED
  BY <1>1, <1>2, <1>3, <1>4, <1>5 DEF Next, vars, User, Finalize, FrontendEvent

-----------------------------------------------------------------------------

\* The invariant holds at the start.
LEMMA InitIInv == Init => IInv
<1> SUFFICES ASSUME Init PROVE IInv
  OBVIOUS
<1>0. <<>> \in Seq({"started", "stopped"})
  OBVIOUS
<1>1. RecorderTypes
  <2>1. pending \in Seq({"started", "stopped"})
    BY <1>0, Zenon DEF Init
  <2>2. /\ recorder = "idle" /\ number = 0 /\ directory = "profile"
        /\ stopRequested = FALSE /\ stopped = {}
    BY DEF Init
  <2>3. number \in 0..MaxRecordings
    BY <2>2, ConstantsAssumption
  <2>4. stopped \subseteq 1..MaxRecordings
    BY <2>2
  <2>5. QED
    BY <2>1, <2>2, <2>3, <2>4 DEF RecorderTypes
<1>2. ClientTypes
  BY ConstantsAssumption DEF Init, ClientTypes
<1>3. RecorderInv
  BY <1>1 DEF Init, RecorderInv, FinalizingExplained, Active
<1>4. ASSUME NEW c \in Clients PROVE ClientInv(c)
  <2>1. pc[c] = "idle" /\ result[c] = "none" /\ before[c] = 0 /\ number = 0
    BY DEF Init
  <2>2. QED
    BY <2>1 DEF ClientInv
<1>5. QED
  BY <1>1, <1>2, <1>3, <1>4, TypeParts DEF IInv

\* Every step keeps the invariant.
LEMMA StepIInv == IInv /\ [Next]_vars => IInv'
<1> SUFFICES ASSUME IInv, [Next]_vars PROVE IInv'
  OBVIOUS
<1>1. RecorderInv /\ ClientTypes
  BY TypeParts DEF IInv
<1>2. Evolves
  BY <1>1, Evolution
<1>3. ClientTypes' /\ \A c \in Clients : ClientInv(c)'
  BY <1>1, <1>2, ClientStep DEF IInv
<1>4. RecorderTypes'
  BY <1>2 DEF Evolves, RecorderInv
<1>5. TypeOK'
  BY <1>3, <1>4 DEF TypeOK, RecorderTypes, ClientTypes
<1>6. QED
  BY <1>2, <1>3, <1>5 DEF IInv, Evolves

(* The invariant that the theorems below are read off.                     *)
THEOREM Invariance == Spec => []IInv
  BY InitIInv, StepIInv, PTL DEF Spec

(* The plugin's flag, the recorder and the bridges keep their types.       *)
THEOREM TypeCorrect == Spec => []TypeOK
<1>1. IInv => TypeOK
  BY DEF IInv
<1>2. QED
  BY <1>1, Invariance, PTL

(* recording_status() says "finalizing" of an active recording only if it  *)
(* was asked to stop, or an event that clears the flag is on its way.      *)
THEOREM FinalizingIsExplained == Spec => []FinalizingExplained
<1>1. IInv => FinalizingExplained
  BY DEF IInv, RecorderInv
<1>2. QED
  BY <1>1, Invariance, PTL

(* A start in a directory is verified only by a recording that began after *)
(* the request, whoever else starts and stops recordings.                  *)
THEOREM RecordingIsFresh == Spec => []FreshRecording
<1>1. IInv => FreshRecording
  BY DEF IInv, ClientInv, FreshRecording
<1>2. QED
  BY <1>1, Invariance, PTL

(* The recording that a verified stop was about never becomes active again.*)
THEOREM StopIsOver == Spec => []StoppedIsOver
<1>1. IInv => StoppedIsOver
  BY DEF IInv, ClientInv, StoppedIsOver
<1>2. QED
  BY <1>1, Invariance, PTL
=============================================================================
