------------------------------- MODULE Bridge -------------------------------
(***************************************************************************)
(* ObsControlBridge (src/dcc_mcp_obs/bridge.py): mutate, then read back.   *)
(* The bridge pins the instance that answers its first request and keeps   *)
(* the largest event sequence it has seen; every response must carry the   *)
(* same identity and a larger sequence.  An operation is several requests: *)
(* the lock of the bridge is taken for each of them, never for the whole,  *)
(* so the operations of two threads interleave.  Meanwhile OBS may be      *)
(* restarted, other clients act, and accepted mutations take effect late.  *)
(* The state of OBS that operations change is one bit, active.             *)
(***************************************************************************)
EXTENDS Naturals

CONSTANTS
    Threads,       \* threads that share the bridge, one operation each
    Attempts,      \* postcondition_attempts
    MaxInstances,  \* how many OBS instances there may be (bound of the model)
    MaxEvents      \* frontend events stop at this sequence (bound of the model)

ASSUME BoundsAssumption == /\ Attempts \in Nat \ {0}
                           /\ MaxInstances \in Nat \ {0}
                           /\ MaxEvents \in Nat

VARIABLES
    instance,       \* number of the running OBS instance (g_instance_id)
    sequence,       \* its g_event_sequence
    active,         \* whether the output is active in it
    effects,        \* accepted mutations that have not taken effect yet
    socket,         \* instance the transport is connected to, 0 for none
    pinned,         \* _identity, 0 before the bridge is constructed
    eventSequence,  \* _event_sequence
    locked,         \* _request_lock
    pc,             \* pc[t]: where the operation of t is
    want,           \* want[t]: the state it asks for
    attempts,       \* attempts[t]: read-backs that did not match
    reply,          \* reply[t]: the response t has received last
    result,         \* result[t]: how the operation ended
    performedOn,    \* history: the instance that accepted t's mutation
    performedAt     \* history: the sequence stamped on that response

obsVars == <<instance, sequence, active, effects>>
bridgeVars == <<pinned, eventSequence>>
history == <<performedOn, performedAt>>
vars == <<obsVars, socket, bridgeVars, locked, pc, want, attempts, reply,
          result, history>>

\* "mutate" and "read" wait for the lock, the three after each hold it.
Asking == {"mutating", "reading"}
Answered == {"mutated", "readback"}
States == {"idle", "mutate", "read", "poll", "done"} \cup Asking \cup Answered
Results == {"none", "verified", "OBS_INSTANCE_DRIFT",
            "OBS_EVENT_SEQUENCE_INVALID", "OBS_POSTCONDITION_FAILED", "error"}

TypeOK ==
    /\ instance \in 1..MaxInstances
    /\ sequence \in Nat
    /\ active \in BOOLEAN
    /\ effects \in SUBSET BOOLEAN
    /\ socket \in 0..MaxInstances
    /\ pinned \in 0..MaxInstances
    /\ eventSequence \in Nat
    /\ locked \in BOOLEAN
    /\ pc \in [Threads -> States]
    /\ want \in [Threads -> BOOLEAN]
    /\ attempts \in [Threads -> 0..Attempts - 1]
    /\ reply \in [Threads -> [instance : 0..MaxInstances, sequence : Nat,
                              active : BOOLEAN]]
    /\ result \in [Threads -> Results]
    /\ performedOn \in [Threads -> 0..MaxInstances]
    /\ performedAt \in [Threads -> Nat]

Init ==
    /\ instance = 1
    /\ sequence = 0
    /\ active = FALSE
    /\ effects = {}
    /\ socket = 0
    /\ pinned = 0
    /\ eventSequence = 0
    /\ locked = FALSE
    /\ pc = [t \in Threads |-> "idle"]
    /\ want = [t \in Threads |-> FALSE]
    /\ attempts = [t \in Threads |-> 0]
    /\ reply = [t \in Threads |->
                   [instance |-> 0, sequence |-> 0, active |-> FALSE]]
    /\ result = [t \in Threads |-> "none"]
    /\ performedOn = [t \in Threads |-> 0]
    /\ performedAt = [t \in Threads |-> 0]

-----------------------------------------------------------------------------
(* The bridge.                                                             *)

Go(t, state) == pc' = [pc EXCEPT ![t] = state]

Finish(t, r) == /\ Go(t, "done")
                /\ result' = [result EXCEPT ![t] = r]

\* The constructor pins whoever answers GetPluginStatus.
Construct ==
    /\ pinned = 0
    /\ pinned' = instance
    /\ socket' = instance
    /\ sequence' = sequence + 1
    /\ eventSequence' = sequence + 1
    /\ UNCHANGED <<instance, active, effects, locked, pc, want, attempts,
                   reply, result, history>>

Begin(t, w) ==
    /\ pinned # 0
    /\ pc[t] = "idle"
    /\ Go(t, "mutate")
    /\ want' = [want EXCEPT ![t] = w]
    /\ UNCHANGED <<obsVars, socket, bridgeVars, locked, attempts, reply, result,
                   history>>

\* Mutant of Acquire: requests are not serialised by the bridge.
AcquireUnlocked(t) ==
    /\ pc[t] \in {"mutate", "read"}
    /\ locked' = TRUE
    /\ Go(t, IF pc[t] = "mutate" THEN "mutating" ELSE "reading")
    /\ UNCHANGED <<obsVars, socket, bridgeVars, want, attempts, reply, result,
                   history>>

Acquire(t) ==
    /\ pc[t] \in {"mutate", "read"}
    /\ ~locked
    /\ locked' = TRUE
    /\ Go(t, IF pc[t] = "mutate" THEN "mutating" ELSE "reading")
    /\ UNCHANGED <<obsVars, socket, bridgeVars, want, attempts, reply, result,
                   history>>

\* The request reaches OBS over the connection there is, or over a new one, and
\* is answered.  A mutation is applied by whichever instance it reaches: the
\* request does not name one.
Serve(t) ==
    /\ pc[t] \in Asking
    /\ socket \in {0, instance}
    /\ socket' = instance
    /\ sequence' = sequence + 1
    /\ reply' = [reply EXCEPT ![t] =
                    [instance |-> instance, sequence |-> sequence + 1,
                     active |-> active]]
    /\ IF pc[t] = "mutating"
       THEN /\ Go(t, "mutated")
            /\ effects' = effects \cup {want[t]}
            /\ performedOn' = [performedOn EXCEPT ![t] = instance]
            /\ performedAt' = [performedAt EXCEPT ![t] = sequence + 1]
       ELSE /\ Go(t, "readback")
            /\ UNCHANGED <<effects, history>>
    /\ UNCHANGED <<instance, active, bridgeVars, locked, want, attempts, result>>

\* The plugin refuses the request: it has changed nothing.
Refuse(t) ==
    /\ pc[t] \in Asking
    /\ socket \in {0, instance}
    /\ socket' = instance
    /\ sequence' = sequence + 1
    /\ locked' = FALSE
    /\ Finish(t, "error")
    /\ UNCHANGED <<instance, active, effects, bridgeVars, want, attempts, reply,
                   history>>

\* Mutant of GiveUp: the lock is kept when a request raises.
GiveUpLocked(t) ==
    /\ pc[t] \in Asking \cup Answered
    /\ Finish(t, "error")
    /\ socket' \in {0, socket}
    /\ UNCHANGED <<obsVars, bridgeVars, locked, want, attempts, reply, history>>

\* The request raises, whether OBS has served it or not: the connection failed
\* and is dropped, or the deadline has passed when the answer is there.
GiveUp(t) ==
    /\ pc[t] \in Asking \cup Answered
    /\ Finish(t, "error")
    /\ locked' = FALSE
    /\ socket' \in IF pc[t] \in Asking THEN {0} ELSE {0, socket}
    /\ UNCHANGED <<obsVars, bridgeVars, want, attempts, reply, history>>

\* Mutant of SameInstance: the identity in a response is not compared.
AnyInstance(t) == TRUE

SameInstance(t) == reply[t].instance = pinned

InOrder(t) == reply[t].sequence > eventSequence

\* Mutant of AttemptsLeft: one attempt too many.
AttemptsLeftByOne(t) == attempts[t] < Attempts

AttemptsLeft(t) == attempts[t] + 1 < Attempts

\* _checked, the identity or the sequence of the response is wrong.
Reject(t) ==
    /\ pc[t] \in Answered
    /\ \/ ~SameInstance(t) /\ Finish(t, "OBS_INSTANCE_DRIFT")
       \/ /\ SameInstance(t)
          /\ ~InOrder(t)
          /\ Finish(t, "OBS_EVENT_SEQUENCE_INVALID")
    /\ locked' = FALSE
    /\ UNCHANGED <<obsVars, socket, bridgeVars, want, attempts, reply, history>>

\* _checked returns the response; the caller reads back, is done or polls.
Accept(t) ==
    /\ pc[t] \in Answered
    /\ SameInstance(t)
    /\ InOrder(t)
    /\ eventSequence' = reply[t].sequence
    /\ locked' = FALSE
    /\ \/ /\ pc[t] = "mutated"
          /\ Go(t, "read")
          /\ UNCHANGED <<attempts, result>>
       \/ /\ pc[t] = "readback"
          /\ reply[t].active = want[t]
          /\ Finish(t, "verified")
          /\ UNCHANGED attempts
       \/ /\ pc[t] = "readback"
          /\ reply[t].active # want[t]
          /\ AttemptsLeft(t)
          /\ Go(t, "poll")
          /\ attempts' = [attempts EXCEPT ![t] = @ + 1]
          /\ UNCHANGED result
       \/ /\ pc[t] = "readback"
          /\ reply[t].active # want[t]
          /\ ~AttemptsLeft(t)
          /\ Finish(t, "OBS_POSTCONDITION_FAILED")
          /\ UNCHANGED attempts
    /\ UNCHANGED <<obsVars, socket, pinned, want, reply, history>>

\* _poll sleeps, or finds that the deadline has passed.
Poll(t) ==
    /\ pc[t] = "poll"
    /\ \/ Go(t, "read") /\ UNCHANGED result
       \/ Finish(t, "error")
    /\ UNCHANGED <<obsVars, socket, bridgeVars, locked, want, attempts, reply,
                   history>>

-----------------------------------------------------------------------------
(* OBS and its other clients.                                              *)

\* An accepted mutation takes effect.
Settle(w) ==
    /\ w \in effects
    /\ active' = w
    /\ effects' = effects \ {w}
    /\ UNCHANGED <<instance, sequence, socket, bridgeVars, locked, pc, want,
                   attempts, reply, result, history>>

\* The user or another client changes the state; frontend_event draws a number.
HostEvent ==
    /\ sequence < MaxEvents
    /\ sequence' = sequence + 1
    /\ active' \in BOOLEAN
    /\ UNCHANGED <<instance, effects, socket, bridgeVars, locked, pc, want,
                   attempts, reply, result, history>>

\* OBS ends and another one takes its port.
Restart ==
    /\ instance < MaxInstances
    /\ instance' = instance + 1
    /\ sequence' = 0
    /\ active' = FALSE
    /\ effects' = {}
    /\ UNCHANGED <<socket, bridgeVars, locked, pc, want, attempts, reply,
                   result, history>>

-----------------------------------------------------------------------------

Step(t) == \/ Acquire(t) \/ Serve(t) \/ Refuse(t) \/ GiveUp(t)
           \/ Reject(t) \/ Accept(t) \/ Poll(t)

Next == \/ Construct \/ HostEvent \/ Restart
        \/ \E w \in BOOLEAN : Settle(w)
        \/ \E t \in Threads : Step(t) \/ \E w \in BOOLEAN : Begin(t, w)

Spec == Init /\ [][Next]_vars

\* Threads are scheduled and every request of the transport ends (CallersReturn
\* of Transport); OBS need not ever answer.
FairSpec == Spec /\ \A t \in Threads : WF_vars(Step(t))

-----------------------------------------------------------------------------
(* Properties.                                                             *)

\* Threads that share a bridge never provoke OBS_EVENT_SEQUENCE_INVALID: that
\* error means that something is wrong with OBS, not that responses were checked
\* in another order than they were made (_request_lock).
NoFalseSequenceAlarm ==
    \A t \in Threads : result[t] # "OBS_EVENT_SEQUENCE_INVALID"

\* What is reported as verified was accepted by the instance the bridge is bound
\* to and read back from that same instance afterwards (_checked, the loops of
\* the mutations).
VerifiedOnPinned ==
    \A t \in Threads : result[t] = "verified" =>
        /\ performedOn[t] = pinned
        /\ reply[t].instance = pinned
        /\ reply[t].active = want[t]
        /\ reply[t].sequence > performedAt[t]

\* docs/scene-graph.md: mutations are bound to the exact native plugin instance.
MutationsBound == \A t \in Threads : performedOn[t] \in {0, pinned}

\* Every operation comes to an end, whatever OBS and the other threads do.
OperationsReturn == \A t \in Threads : pc[t] = "mutate" ~> pc[t] = "done"
=============================================================================
