---------------------------- MODULE BridgeProofs ----------------------------
(***************************************************************************)
(* Proofs about Bridge for any threads and bounds.  The sequence a bridge  *)
(* keeps belongs to the instance it is pinned to, and says nothing of      *)
(* another one (PinInv); a thread that holds an answer holds the lock, so  *)
(* the kept sequence does not move until that answer is checked            *)
(* (ThreadInv, OneHolder); and a thread that reads back has had its        *)
(* mutation accepted by the pinned instance before.                        *)
(***************************************************************************)
EXTENDS Bridge, TLAPS

Holders == Asking \cup Answered
ReadingBack == {"read", "reading", "readback", "poll"}

OneHolder == \A t, u \in Threads : pc[t] \in Holders /\ pc[u] \in Holders => t = u

PinInv == /\ pinned <= instance
          /\ pinned = instance => eventSequence <= sequence

AnswerInv(t) ==
    /\ reply[t].instance <= instance
    /\ reply[t].instance = pinned => reply[t].sequence > eventSequence
    /\ reply[t].instance = instance => reply[t].sequence <= sequence

Verified(t) ==
    /\ performedOn[t] = pinned
    /\ reply[t].instance = pinned
    /\ reply[t].active = want[t]
    /\ reply[t].sequence > performedAt[t]

ThreadInv(t) ==
    /\ pinned = 0 => pc[t] = "idle"
    /\ pc[t] = "done" <=> result[t] # "none"
    /\ pc[t] \in Holders => locked
    /\ pc[t] \in Answered => AnswerInv(t)
    /\ pc[t] = "mutated" => /\ performedOn[t] = reply[t].instance
                            /\ performedAt[t] = reply[t].sequence
    /\ pc[t] \in ReadingBack => /\ performedOn[t] = pinned
                                /\ performedAt[t] <= eventSequence
    /\ result[t] # "OBS_EVENT_SEQUENCE_INVALID"
    /\ result[t] = "verified" => Verified(t)

IInv == TypeOK /\ OneHolder /\ PinInv /\ \A t \in Threads : ThreadInv(t)

-----------------------------------------------------------------------------

NumberTypes ==
    /\ instance \in Nat /\ instance \in 1..MaxInstances
    /\ sequence \in Nat /\ eventSequence \in Nat
    /\ pinned \in Nat /\ pinned \in 0..MaxInstances

ReplyTypes == reply \in [Threads -> [instance : 0..MaxInstances, sequence : Nat,
                                     active : BOOLEAN]]

\* The counters of a well-typed state are numbers.
LEMMA Numbers == TypeOK => NumberTypes
  BY BoundsAssumption DEF TypeOK, NumberTypes

\* So are those in the reply a thread holds.
LEMMA ReplyNumbers ==
    ASSUME TypeOK, NEW t \in Threads
    PROVE  /\ reply[t].instance \in Nat /\ reply[t].sequence \in Nat
           /\ performedAt[t] \in Nat
<1>1. reply[t] \in [instance : 0..MaxInstances, sequence : Nat, active : BOOLEAN]
  BY DEF TypeOK
<1>2. performedAt[t] \in Nat
  BY DEF TypeOK
<1>3. QED
  BY <1>1, <1>2, BoundsAssumption

(* Every step keeps the types.                                             *)
LEMMA TypeStep == TypeOK /\ [Next]_vars => TypeOK'
<1> SUFFICES ASSUME TypeOK, [Next]_vars PROVE TypeOK'
  OBVIOUS
<1>0. NumberTypes
  BY Numbers
<1> DEFINE Control ==
        /\ pc \in [Threads -> States]
        /\ result \in [Threads -> Results]
<1>1. Control
  BY DEF TypeOK
<1>2. /\ \A s \in {"idle", "mutate", "read", "poll", "done", "mutating", "reading",
                   "mutated", "readback"} : s \in States
      /\ \A r \in {"verified", "OBS_INSTANCE_DRIFT", "OBS_EVENT_SEQUENCE_INVALID",
                   "OBS_POSTCONDITION_FAILED", "error"} : r \in Results
  BY DEF States, Asking, Answered, Results
<1>3. CASE UNCHANGED vars
  BY <1>3 DEF TypeOK, vars, obsVars, bridgeVars, history
<1>4. CASE Construct
  BY <1>4, <1>0 DEF Construct, TypeOK, NumberTypes, history
<1>5. CASE HostEvent
  BY <1>5, <1>0 DEF HostEvent, TypeOK, NumberTypes, bridgeVars, history
<1>6. CASE Restart
  <2>1. instance' \in 1..MaxInstances /\ sequence' \in Nat
    BY <1>6, <1>0, BoundsAssumption DEF Restart, NumberTypes
  <2>2. active' \in BOOLEAN /\ effects' \in SUBSET BOOLEAN
    BY <1>6 DEF Restart
  <2>3. QED
    BY <1>6, <2>1, <2>2 DEF Restart, TypeOK, bridgeVars, history
<1>7. ASSUME NEW w \in BOOLEAN, Settle(w) PROVE TypeOK'
  BY <1>7 DEF Settle, TypeOK, bridgeVars, history
<1>8. ASSUME NEW t \in Threads, NEW w \in BOOLEAN, Begin(t, w) PROVE TypeOK'
  <2>1. pc' \in [Threads -> States]
    BY <1>8, <1>1, <1>2 DEF Begin, Go
  <2>2. QED
    BY <1>8, <2>1 DEF Begin, Go, TypeOK, obsVars, bridgeVars, history
<1>9. ASSUME NEW t \in Threads, Acquire(t) PROVE TypeOK'
  <2>1. pc' \in [Threads -> States]
    BY <1>9, <1>1, <1>2 DEF Acquire, Go
  <2>2. QED
    BY <1>9, <2>1 DEF Acquire, Go, TypeOK, obsVars, bridgeVars, history
<1>10. ASSUME NEW t \in Threads, Serve(t) PROVE TypeOK'
  <2>1. pc' \in [Threads -> States]
    BY <1>10, <1>1, <1>2 DEF Serve, Go
  <2>2. ReplyTypes'
    <3>1. ReplyTypes /\ active \in BOOLEAN
      BY DEF TypeOK, ReplyTypes
    <3>2. [instance |-> instance, sequence |-> sequence + 1, active |-> active]
             \in [instance : 0..MaxInstances, sequence : Nat, active : BOOLEAN]
      BY <1>0, <3>1 DEF NumberTypes
    <3>3. QED
      BY <1>10, <3>1, <3>2 DEF Serve, ReplyTypes
  <2>3. effects' \in SUBSET BOOLEAN
    BY <1>10 DEF Serve, TypeOK
  <2>4. /\ performedOn' \in [Threads -> 0..MaxInstances]
        /\ performedAt' \in [Threads -> Nat]
    BY <1>10, <1>0, SMTT(30) DEF Serve, TypeOK, NumberTypes, history
  <2>5. socket' \in 0..MaxInstances /\ sequence' \in Nat
    BY <1>10, <1>0 DEF Serve, NumberTypes
  <2>6. QED
    BY <1>10, <2>1, <2>2, <2>3, <2>4, <2>5 DEF Serve, TypeOK, ReplyTypes, bridgeVars
<1>11. ASSUME NEW t \in Threads, Refuse(t) PROVE TypeOK'
  <2>1. Control'
    BY <1>11, <1>1, <1>2 DEF Refuse, Finish, Go
  <2>2. socket' \in 0..MaxInstances /\ sequence' \in Nat
    BY <1>11, <1>0 DEF Refuse, NumberTypes
  <2>3. QED
    BY <1>11, <2>1, <2>2 DEF Refuse, TypeOK, bridgeVars, history
<1>12. ASSUME NEW t \in Threads, GiveUp(t) PROVE TypeOK'
  <2>1. Control'
    BY <1>12, <1>1, <1>2 DEF GiveUp, Finish, Go
  <2>2. socket' \in 0..MaxInstances
    <3>1. socket \in 0..MaxInstances /\ 0 \in 0..MaxInstances
      BY BoundsAssumption DEF TypeOK
    <3>2. socket' = 0 \/ socket' = socket
      BY <1>12 DEF GiveUp
    <3>3. QED
      BY <3>1, <3>2
  <2>3. QED
    BY <1>12, <2>1, <2>2 DEF GiveUp, Finish, Go, TypeOK, obsVars, bridgeVars, history
<1>13. ASSUME NEW t \in Threads, Reject(t) PROVE TypeOK'
  <2>1. Control'
    BY <1>13, <1>1, <1>2 DEF Reject, Finish, Go
  <2>2. QED
    BY <1>13, <2>1 DEF Reject, TypeOK, obsVars, bridgeVars, history
<1>14. ASSUME NEW t \in Threads, Accept(t) PROVE TypeOK'
  <2>1. Control'
    BY <1>14, <1>1, <1>2 DEF Accept, Finish, Go
  <2>2. attempts' \in [Threads -> 0..Attempts - 1]
    <3>1. attempts \in [Threads -> 0..Attempts - 1]
      BY DEF TypeOK
    <3>2. QED
      BY <1>14, <3>1, BoundsAssumption DEF Accept, AttemptsLeft
  <2>3. eventSequence' \in Nat
    BY <1>14, ReplyNumbers DEF Accept
  <2>4. QED
    BY <1>14, <2>1, <2>2, <2>3 DEF Accept, TypeOK, obsVars, history
<1>15. ASSUME NEW t \in Threads, Poll(t) PROVE TypeOK'
  <2>1. Control'
    BY <1>15, <1>1, <1>2 DEF Poll, Finish, Go
  <2>2. QED
    BY <1>15, <2>1 DEF Poll, TypeOK, obsVars, bridgeVars, history
<1>16. QED
  BY <1>3, <1>4, <1>5, <1>6, <1>7, <1>8, <1>9, <1>10, <1>11, <1>12, <1>13, <1>14,
     <1>15 DEF Next, Step

-----------------------------------------------------------------------------
(* Steps seen from a thread that does not take them.                       *)

\* A thread that keeps its place and its reply keeps its part of the invariant, as long
\* as the pinned identity stays and nobody counts on while it holds the lock.
LEMMA ThreadFrame ==
    ASSUME NumberTypes, NumberTypes', TypeOK, PinInv, NEW d \in Threads, ThreadInv(d),
           /\ pc'[d] = pc[d] /\ reply'[d] = reply[d] /\ result'[d] = result[d]
           /\ want'[d] = want[d]
           /\ performedOn'[d] = performedOn[d] /\ performedAt'[d] = performedAt[d],
           pinned' = pinned, eventSequence <= eventSequence',
           pc[d] \in Holders => locked' /\ eventSequence' = eventSequence,
           \/ instance' = instance /\ sequence <= sequence'
           \/ instance' = instance + 1
    PROVE  ThreadInv(d)'
<1>1. /\ reply[d].instance \in Nat /\ reply[d].sequence \in Nat
      /\ performedAt[d] \in Nat
  BY ReplyNumbers
<1>2. pc[d] \in Answered => AnswerInv(d)'
  <2> SUFFICES ASSUME pc[d] \in Answered PROVE AnswerInv(d)'
    OBVIOUS
  <2>1. AnswerInv(d) /\ eventSequence' = eventSequence
    BY DEF ThreadInv, Holders
  <2>2. QED
    BY <1>1, <2>1 DEF AnswerInv, NumberTypes
<1>3. pc[d] \in ReadingBack => performedOn'[d] = pinned' /\ performedAt'[d] <= eventSequence'
  BY <1>1 DEF ThreadInv, NumberTypes
<1>4. result[d] = "verified" => Verified(d)'
  BY DEF ThreadInv, Verified
<1>5. QED
  BY <1>2, <1>3, <1>4 DEF ThreadInv

-----------------------------------------------------------------------------
(* The steps of a thread, for itself.                                      *)

\* The pinned identity, and the events seen from it, never run ahead of OBS.
LEMMA PinStep == TypeOK /\ PinInv /\ (\A t \in Threads : ThreadInv(t)) /\ [Next]_vars => PinInv'
<1> SUFFICES ASSUME TypeOK, PinInv, \A t \in Threads : ThreadInv(t), [Next]_vars
             PROVE  PinInv'
  OBVIOUS
<1>0. NumberTypes
  BY Numbers
<1>1. CASE UNCHANGED vars
  BY <1>1 DEF PinInv, vars, obsVars, bridgeVars
<1>2. CASE Construct
  BY <1>2, <1>0 DEF Construct, PinInv, NumberTypes
<1>3. CASE HostEvent
  BY <1>3, <1>0 DEF HostEvent, PinInv, NumberTypes, bridgeVars
<1>4. CASE Restart
  BY <1>4, <1>0 DEF Restart, PinInv, NumberTypes, bridgeVars
<1>5. ASSUME NEW w \in BOOLEAN, Settle(w) PROVE PinInv'
  BY <1>5 DEF Settle, PinInv, bridgeVars
<1>6. ASSUME NEW t \in Threads, NEW w \in BOOLEAN, Begin(t, w) PROVE PinInv'
  BY <1>6 DEF Begin, PinInv, obsVars, bridgeVars
<1>7. ASSUME NEW t \in Threads, Acquire(t) \/ GiveUp(t) \/ Reject(t) \/ Poll(t)
      PROVE PinInv'
  BY <1>7 DEF Acquire, GiveUp, Reject, Poll, PinInv, obsVars, bridgeVars
<1>8. ASSUME NEW t \in Threads, Serve(t) \/ Refuse(t) PROVE PinInv'
  BY <1>8, <1>0 DEF Serve, Refuse, PinInv, NumberTypes, bridgeVars
<1>9. ASSUME NEW t \in Threads, Accept(t) PROVE PinInv'
  <2>1. AnswerInv(t)
    BY <1>9 DEF Accept, ThreadInv
  <2>2. QED
    BY <1>9, <2>1 DEF Accept, SameInstance, AnswerInv, PinInv, obsVars
<1>10. QED
  BY <1>1, <1>2, <1>3, <1>4, <1>5, <1>6, <1>7, <1>8, <1>9 DEF Next, Step

\* At most one thread is between its request and the check of its answer.
LEMMA HolderStep ==
    ASSUME TypeOK, OneHolder, \A t \in Threads : ThreadInv(t), [Next]_vars
    PROVE  OneHolder'
<1>0. pc \in [Threads -> States]
  BY DEF TypeOK
<1>1. CASE pc' = pc
  BY <1>1 DEF OneHolder
<1>2. ASSUME NEW t \in Threads, \E w \in BOOLEAN : Begin(t, w) PROVE OneHolder'
  BY <1>2, <1>0 DEF Begin, Go, OneHolder, Holders, Asking, Answered
<1>3. ASSUME NEW t \in Threads, Acquire(t) PROVE OneHolder'
  BY <1>3, <1>0 DEF Acquire, Go, OneHolder, ThreadInv
<1>4. ASSUME NEW t \in Threads, Step(t), ~Acquire(t) PROVE OneHolder'
  <2>1. \A u \in Threads : u # t => pc'[u] = pc[u]
    BY <1>4, <1>0 DEF Step, Serve, Refuse, GiveUp, Reject, Accept, Poll, Finish, Go
  <2>2. pc'[t] \in Holders => pc[t] \in Holders
    BY <1>4, <1>0 DEF Step, Serve, Refuse, GiveUp, Reject, Accept, Poll, Finish, Go,
       Holders, Asking, Answered
  <2>3. QED
    BY <2>1, <2>2 DEF OneHolder
<1>5. QED
  BY <1>1, <1>2, <1>3, <1>4 DEF Next, vars, Construct, HostEvent, Restart, Settle

\* Every step keeps the part of the invariant that speaks of one thread, for each of them.
LEMMA ThreadStep ==
    ASSUME IInv, TypeOK', [Next]_vars
    PROVE  \A d \in Threads : ThreadInv(d)'
<1>0. /\ TypeOK /\ OneHolder /\ PinInv /\ \A t \in Threads : ThreadInv(t)
      /\ NumberTypes /\ NumberTypes'
  BY Numbers DEF IInv, NumberTypes, TypeOK
<1>1. /\ pc \in [Threads -> States]
      /\ result \in [Threads -> Results]
      /\ want \in [Threads -> BOOLEAN]
      /\ performedOn \in [Threads -> 0..MaxInstances]
      /\ performedAt \in [Threads -> Nat]
      /\ DOMAIN reply = Threads
  BY <1>0 DEF TypeOK
<1> DEFINE Same(d) ==
        /\ pc'[d] = pc[d] /\ reply'[d] = reply[d] /\ result'[d] = result[d]
        /\ want'[d] = want[d]
        /\ performedOn'[d] = performedOn[d] /\ performedAt'[d] = performedAt[d]
<1>2. CASE UNCHANGED vars
  <2>1. ASSUME NEW d \in Threads PROVE ThreadInv(d)'
    <3>1. /\ Same(d) /\ pinned' = pinned /\ eventSequence' = eventSequence
          /\ locked' = locked /\ instance' = instance /\ sequence' = sequence
      BY <1>2 DEF vars, obsVars, bridgeVars, history
    <3>2. ThreadInv(d) /\ (pc[d] \in Holders => locked)
      BY <1>0 DEF ThreadInv
    <3>3. eventSequence <= eventSequence' /\ sequence <= sequence'
      BY <3>1, <1>0 DEF NumberTypes
    <3>4. QED
      BY <3>1, <3>2, <3>3, <1>0, ThreadFrame
  <2>2. QED
    BY <2>1
<1>3. CASE Construct
  <2>1. ASSUME NEW d \in Threads PROVE ThreadInv(d)'
    <3>1. Same(d) /\ pc[d] = "idle" /\ result[d] = "none"
      BY <1>3, <1>0, <1>1 DEF Construct, ThreadInv, history
    <3>2. QED
      BY <3>1 DEF ThreadInv, Holders, Asking, Answered, ReadingBack
  <2>2. QED
    BY <2>1
<1>4. CASE HostEvent \/ Restart \/ \E w \in BOOLEAN : Settle(w)
  <2>1. ASSUME NEW d \in Threads PROVE ThreadInv(d)'
    <3>1. /\ Same(d) /\ pinned' = pinned /\ eventSequence' = eventSequence
          /\ locked' = locked
      BY <1>4 DEF HostEvent, Restart, Settle, bridgeVars, history
    <3>2. \/ instance' = instance /\ sequence <= sequence'
          \/ instance' = instance + 1
      BY <1>4, <1>0 DEF HostEvent, Restart, Settle, NumberTypes
    <3>3. ThreadInv(d) /\ (pc[d] \in Holders => locked)
      BY <1>0 DEF ThreadInv
    <3>4. eventSequence <= eventSequence'
      BY <3>1, <1>0 DEF NumberTypes
    <3>5. QED
      BY <3>1, <3>2, <3>3, <3>4, <1>0, ThreadFrame
  <2>2. QED
    BY <2>1
<1>5. ASSUME NEW t \in Threads, (\E w \in BOOLEAN : Begin(t, w)) \/ Step(t)
      PROVE  \A d \in Threads : ThreadInv(d)'
  <2>0. \/ \E w \in BOOLEAN : Begin(t, w)
        \/ Acquire(t) \/ Serve(t) \/ Refuse(t) \/ GiveUp(t) \/ Reject(t)
        \/ Accept(t) \/ Poll(t)
    BY <1>5 DEF Step
  <2>1. /\ pinned' = pinned /\ instance' = instance /\ sequence <= sequence'
        /\ \A d \in Threads \ {t} : Same(d)
    <3>1. pinned' = pinned /\ instance' = instance /\ sequence' \in {sequence, sequence + 1}
      BY <2>0 DEF Begin, Acquire, Serve, Refuse, GiveUp, Reject, Accept, Poll,
         obsVars, bridgeVars
    <3>2. sequence <= sequence'
      BY <3>1, <1>0 DEF NumberTypes
    <3>3. ASSUME NEW d \in Threads \ {t} PROVE Same(d)
      <4>1. CASE \E w \in BOOLEAN : Begin(t, w)
        BY <4>1, <1>1 DEF Begin, Go, history
      <4>2. CASE Acquire(t)
        BY <4>2, <1>1 DEF Acquire, Go, history
      <4>3. CASE Serve(t)
        BY <4>3, <1>1 DEF Serve, Go, history
      <4>4. CASE Refuse(t) \/ GiveUp(t) \/ Reject(t)
        BY <4>4, <1>1 DEF Refuse, GiveUp, Reject, Finish, Go, history
      <4>5. CASE Accept(t)
        BY <4>5, <1>1 DEF Accept, Finish, Go, history
      <4>6. CASE Poll(t)
        BY <4>6, <1>1 DEF Poll, Finish, Go, history
      <4>7. QED
        BY <2>0, <4>1, <4>2, <4>3, <4>4, <4>5, <4>6
    <3>4. QED
      BY <3>1, <3>2, <3>3
  <2>2. eventSequence <= eventSequence'
    <3>1. CASE Accept(t)
      <4>1. reply[t].sequence \in Nat /\ reply[t].sequence > eventSequence
        BY <3>1, <1>0, ReplyNumbers DEF Accept, InOrder
      <4>2. QED
        BY <3>1, <4>1, <1>0 DEF Accept, NumberTypes
    <3>2. CASE ~Accept(t)
      BY <3>2, <1>5, <1>0 DEF Begin, Step, Acquire, Serve, Refuse, GiveUp, Reject,
         Poll, bridgeVars, NumberTypes
    <3>3. QED
      BY <3>1, <3>2
  <2>3. ASSUME NEW d \in Threads \ {t} PROVE ThreadInv(d)'
    <3>1. pc[d] \in Holders => pc[t] \notin Holders /\ locked
      BY <1>0 DEF OneHolder, ThreadInv
    <3>2. pc[d] \in Holders => locked' /\ eventSequence' = eventSequence
      BY <3>1, <1>5 DEF Begin, Step, Acquire, Serve, Refuse, GiveUp, Reject, Accept,
         Poll, Holders, bridgeVars
    <3>3. QED
      BY <3>2, <2>1, <2>2, <1>0, ThreadFrame
  <2>4. ThreadInv(t) /\ result[t] \in Results
    BY <1>0, <1>1
  <2>5. CASE \E w \in BOOLEAN : Begin(t, w)
    <3>1. /\ pinned # 0 /\ pinned' = pinned /\ pc[t] = "idle" /\ pc'[t] = "mutate"
          /\ result'[t] = "none"
      BY <2>4, <2>5, <1>1 DEF Begin, Go, bridgeVars, ThreadInv
    <3>2. QED
      BY <2>3, <3>1 DEF ThreadInv, Holders, Asking, Answered, ReadingBack
  <2>6. CASE Acquire(t)
    <3>1. /\ locked' /\ result'[t] = result[t] /\ pinned' = pinned
          /\ performedOn'[t] = performedOn[t] /\ performedAt'[t] = performedAt[t]
          /\ eventSequence' = eventSequence
          /\ \/ pc[t] = "mutate" /\ pc'[t] = "mutating"
             \/ pc[t] = "read" /\ pc'[t] = "reading"
      BY <2>6, <1>1 DEF Acquire, Go, bridgeVars, history
    <3>2. result[t] = "none"
      BY <2>4, <3>1 DEF ThreadInv
    <3>3. ThreadInv(t)'
      BY <2>4, <3>1, <3>2 DEF ThreadInv, Holders, Asking, Answered, ReadingBack
    <3>4. QED
      BY <2>3, <3>3
  <2>7. CASE Serve(t)
    <3>1. /\ locked' = locked /\ result'[t] = result[t] /\ pinned' = pinned
          /\ instance' = instance /\ eventSequence' = eventSequence
          /\ sequence' = sequence + 1
          /\ reply'[t].instance = instance /\ reply'[t].sequence = sequence + 1
          /\ pc[t] \in Asking
      BY <2>7, <1>1 DEF Serve, bridgeVars
    <3>2. AnswerInv(t)'
      BY <3>1, <1>0 DEF AnswerInv, PinInv, NumberTypes
    <3>3. \/ /\ pc[t] = "mutating" /\ pc'[t] = "mutated"
             /\ performedOn'[t] = instance /\ performedAt'[t] = sequence + 1
          \/ /\ pc[t] = "reading" /\ pc'[t] = "readback"
             /\ performedOn'[t] = performedOn[t] /\ performedAt'[t] = performedAt[t]
      BY <2>7, <1>1 DEF Serve, Go, Asking, history
    <3>4. result[t] = "none" /\ locked
      BY <2>4, <3>1, <3>3 DEF ThreadInv, Holders
    <3>5. ThreadInv(t)'
      BY <2>4, <3>1, <3>2, <3>3, <3>4 DEF ThreadInv, Holders, Asking, Answered, ReadingBack
    <3>6. QED
      BY <2>3, <3>5
  <2>8. CASE Refuse(t) \/ GiveUp(t)
    <3>1. pc'[t] = "done" /\ result'[t] = "error" /\ pinned' = pinned /\ pc[t] \in Holders
      BY <2>8, <2>1, <1>1 DEF Refuse, GiveUp, Finish, Go, Holders
    <3>2. ThreadInv(t)'
      BY <2>4, <3>1 DEF ThreadInv, Holders, Asking, Answered, ReadingBack
    <3>3. QED
      BY <2>3, <3>2
  <2>9. CASE Reject(t)
    <3>1. AnswerInv(t)
      BY <2>4, <2>9 DEF Reject, ThreadInv
    <3>2. SameInstance(t) => InOrder(t)
      BY <3>1 DEF AnswerInv, SameInstance, InOrder
    <3>3. pc'[t] = "done" /\ result'[t] = "OBS_INSTANCE_DRIFT" /\ pc[t] \in Holders
      BY <2>9, <3>2, <1>1 DEF Reject, Finish, Go, Holders
    <3>4. ThreadInv(t)'
      BY <2>1, <2>4, <3>3 DEF ThreadInv, Holders, Asking, Answered, ReadingBack
    <3>5. QED
      BY <2>3, <3>4
  <2>10. CASE Accept(t)
    <3>1. /\ reply[t].instance = pinned /\ reply[t].sequence > eventSequence
          /\ eventSequence' = reply[t].sequence /\ pinned' = pinned
          /\ reply'[t] = reply[t] /\ want'[t] = want[t]
          /\ performedOn'[t] = performedOn[t] /\ performedAt'[t] = performedAt[t]
      BY <2>10, <2>1 DEF Accept, SameInstance, InOrder, history
    <3>2. reply[t].sequence \in Nat /\ performedAt[t] \in Nat
      BY <1>0, ReplyNumbers
    <3>3. performedOn'[t] = pinned' /\ performedAt'[t] <= eventSequence'
      <4>1. CASE pc[t] = "mutated"
        BY <4>1, <2>4, <3>1, <3>2 DEF ThreadInv
      <4>2. CASE pc[t] = "readback"
        BY <4>2, <2>4, <3>1, <3>2, <1>0 DEF ThreadInv, ReadingBack, NumberTypes
      <4>3. QED
        BY <4>1, <4>2, <2>10 DEF Accept, Answered
    <3>4. \/ pc'[t] \in {"read", "poll"} /\ result'[t] = result[t]
          \/ pc'[t] = "done" /\ result'[t] = "OBS_POSTCONDITION_FAILED"
          \/ /\ pc[t] = "readback" /\ pc'[t] = "done" /\ result'[t] = "verified"
             /\ reply[t].active = want[t]
      BY <2>10, <1>1 DEF Accept, Finish, Go
    <3>5. result[t] = "none" /\ pinned # 0
      BY <2>4, <2>10 DEF ThreadInv, Accept, Answered
    <3>6. pc[t] = "readback" => reply[t].sequence > performedAt[t]
      BY <2>4, <3>1, <3>2, <1>0 DEF ThreadInv, ReadingBack, NumberTypes
    <3>7. result'[t] = "verified" => Verified(t)'
      BY <3>1, <3>3, <3>4, <3>5, <3>6 DEF Verified
    <3>8. ThreadInv(t)'
      BY <3>1, <3>3, <3>4, <3>5, <3>7 DEF ThreadInv, Holders, Asking, Answered, ReadingBack
    <3>9. QED
      BY <2>3, <3>8
  <2>11. CASE Poll(t)
    <3>1. /\ pc[t] = "poll" /\ pinned' = pinned /\ eventSequence' = eventSequence
          /\ performedOn'[t] = performedOn[t] /\ performedAt'[t] = performedAt[t]
          /\ \/ pc'[t] = "read" /\ result'[t] = result[t]
             \/ pc'[t] = "done" /\ result'[t] = "error"
      BY <2>11, <1>1 DEF Poll, Finish, Go, bridgeVars, history
    <3>2. result[t] = "none"
      BY <2>4, <3>1 DEF ThreadInv
    <3>3. ThreadInv(t)'
      BY <2>4, <3>1, <3>2 DEF ThreadInv, Holders, Asking, Answered, ReadingBack
    <3>4. QED
      BY <2>3, <3>3
  <2>12. QED
    BY <1>5, <2>5, <2>6, <2>7, <2>8, <2>9, <2>10, <2>11 DEF Step
<1>6. QED
  BY <1>2, <1>3, <1>4, <1>5 DEF Next

-----------------------------------------------------------------------------

\* The invariant holds at the start.
LEMMA InitIInv == Init => IInv
<1> SUFFICES ASSUME Init PROVE IInv
  OBVIOUS
<1>1. TypeOK
  <2>1. /\ 1 \in 1..MaxInstances /\ 0 \in 0..MaxInstances
        /\ 0 \in 0..Attempts - 1
    BY BoundsAssumption
  <2>2. reply \in [Threads -> [instance : 0..MaxInstances, sequence : Nat,
                              active : BOOLEAN]]
    BY <2>1 DEF Init
  <2>3. pc \in [Threads -> States] /\ result \in [Threads -> Results]
    BY DEF Init, States, Results
  <2>4. QED
    BY <2>1, <2>2, <2>3 DEF Init, TypeOK
<1>2. OneHolder
  BY DEF Init, OneHolder, Holders, Asking, Answered
<1>3. PinInv
  BY DEF Init, PinInv
<1>4. ASSUME NEW t \in Threads PROVE ThreadInv(t)
  <2>1. pc[t] = "idle" /\ result[t] = "none"
    BY DEF Init
  <2>2. QED
    BY <2>1 DEF ThreadInv, Holders, Asking, Answered, ReadingBack
<1>5. QED
  BY <1>1, <1>2, <1>3, <1>4 DEF IInv

\* Every step keeps the invariant.
LEMMA StepIInv == IInv /\ [Next]_vars => IInv'
<1> SUFFICES ASSUME IInv, [Next]_vars PROVE IInv'
  OBVIOUS
<1>1. TypeOK'
  BY TypeStep DEF IInv
<1>2. OneHolder'
  BY HolderStep DEF IInv
<1>3. PinInv'
  BY PinStep DEF IInv
<1>4. \A t \in Threads : ThreadInv(t)'
  BY <1>1, ThreadStep
<1>5. QED
  BY <1>1, <1>2, <1>3, <1>4 DEF IInv

(* The invariant that the theorems below are read off.                     *)
THEOREM Invariance == Spec => []IInv
  BY InitIInv, StepIInv, PTL DEF Spec

(* The state of the bridge keeps its types.                                *)
THEOREM TypeCorrect == Spec => []TypeOK
<1>1. IInv => TypeOK
  BY DEF IInv
<1>2. QED
  BY <1>1, Invariance, PTL

(* However many threads share a bridge, and however often OBS is restarted *)
(* behind it, _checked never raises OBS_EVENT_SEQUENCE_INVALID while the   *)
(* plugin numbers its responses upwards.                                   *)
THEOREM NoFalseAlarm == Spec => []NoFalseSequenceAlarm
<1>1. IInv => NoFalseSequenceAlarm
  BY DEF IInv, ThreadInv, NoFalseSequenceAlarm
<1>2. QED
  BY <1>1, Invariance, PTL

(* "verified" means accepted by the pinned instance and read back from it  *)
(* later.                                                                  *)
THEOREM VerifiedIsBound == Spec => []VerifiedOnPinned
<1>1. IInv => VerifiedOnPinned
  BY DEF IInv, ThreadInv, Verified, VerifiedOnPinned
<1>2. QED
  BY <1>1, Invariance, PTL
=============================================================================
