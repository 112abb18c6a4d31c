----------------------------- MODULE UiDispatch -----------------------------
(***************************************************************************)
(* How the native plugin runs a vendor call (native/src/plugin-main.cpp,   *)
(* native/src/ui-task-gate.hpp).  obs-websocket calls vendor_request on a  *)
(* handler thread of its own; run_ui_operation posts the operation to the  *)
(* single OBS UI thread and waits for it on a condition variable, for at   *)
(* most kUiTimeout and never past the deadline of the request.  The two    *)
(* threads race for the UiTaskGate of the call: the UI thread claims it    *)
(* before it changes anything in OBS, the handler cancels it when it gives *)
(* up.  One action is one atomic step of one thread: a compare-exchange,   *)
(* a clock read, a fetch_add of the event sequence, a critical section of  *)
(* the mutex of the call.                                                  *)
(***************************************************************************)
EXTENDS Integers, Sequences

CONSTANTS
    Calls,       \* vendor calls, each handled by a thread of its own
    MaxTime,     \* the clock stops here (bound of the model)
    MaxBudget,   \* longest time a request leaves until its deadline
    UiTimeout    \* kUiTimeout, the longest a handler waits for the UI thread

ASSUME BoundsAssumption == /\ MaxTime \in Nat
                           /\ MaxBudget \in Nat
                           /\ UiTimeout \in Nat \ {0}

VARIABLES
    now,         \* std::chrono::steady_clock
    sequence,    \* g_event_sequence, shared by all threads
    queue,       \* tasks posted to the OBS UI thread, oldest first
    kind,        \* kind[c]: "read" or "mutation", is_mutation of the operation
    handler,     \* handler[c]: where the handler thread of c is
    deadline,    \* deadline[c]: UiState::deadline
    waitUntil,   \* waitUntil[c]: the end of the handler's wait_for
    gate,        \* gate[c]: UiState::gate
    stage,       \* stage[c]: where the UI thread is in execute_ui_operation
    outcome,     \* outcome[c]: the result built by the UI thread
    outSeq,      \* outSeq[c]: the event sequence stamped on that result
    complete,    \* complete[c]: UiState::complete
    reply,       \* reply[c]: the response of the call
    replySeq,    \* replySeq[c]: the event sequence of the response
    performed,   \* history: how often the operation of c has run
    claimedAt,   \* history: the clock when c's claim passed its deadline check
    earlier      \* history: the calls that had returned when c was made

callVars == <<kind, deadline, earlier>>
uiVars == <<queue, stage, outcome, outSeq, complete, performed, claimedAt>>
handlerVars == <<handler, waitUntil, reply, replySeq>>
vars == <<now, sequence, gate, callVars, uiVars, handlerVars>>

Kinds == {"read", "mutation"}
\* Where a handler is.  "expired": its wait is over, it holds UiState::mutex
\* and has not yet tried to cancel.
HandlerStates == {"idle", "posted", "waiting", "expired", "returned"}
Stages == {"absent", "queued", "begin", "claim", "check", "run", "stamp",
           "publish", "done"}
Outcomes == {"ok", "unchanged", "refused", "failed", "timeout"}
Replies == Outcomes \cup {"indeterminate"}

TypeOK ==
    /\ now \in 0..MaxTime
    /\ sequence \in Nat
    /\ queue \in Seq(Calls)
    /\ kind \in [Calls -> Kinds]
    /\ handler \in [Calls -> HandlerStates]
    /\ deadline \in [Calls -> Nat]
    /\ waitUntil \in [Calls -> Nat]
    /\ gate \in [Calls -> {"Pending", "Started", "Cancelled"}]
    /\ stage \in [Calls -> Stages]
    /\ outcome \in [Calls -> Outcomes \cup {"none"}]
    /\ outSeq \in [Calls -> Nat]
    /\ complete \in [Calls -> BOOLEAN]
    /\ reply \in [Calls -> Replies \cup {"none"}]
    /\ replySeq \in [Calls -> Nat]
    /\ performed \in [Calls -> Nat]
    /\ claimedAt \in [Calls -> Nat]
    /\ earlier \in [Calls -> SUBSET Calls]

Init ==
    /\ now = 0
    /\ sequence = 0
    /\ queue = <<>>
    /\ kind = [c \in Calls |-> "read"]
    /\ handler = [c \in Calls |-> "idle"]
    /\ deadline = [c \in Calls |-> 0]
    /\ waitUntil = [c \in Calls |-> 0]
    /\ gate = [c \in Calls |-> "Pending"]
    /\ stage = [c \in Calls |-> "absent"]
    /\ outcome = [c \in Calls |-> "none"]
    /\ outSeq = [c \in Calls |-> 0]
    /\ complete = [c \in Calls |-> FALSE]
    /\ reply = [c \in Calls |-> "none"]
    /\ replySeq = [c \in Calls |-> 0]
    /\ performed = [c \in Calls |-> 0]
    /\ claimedAt = [c \in Calls |-> 0]
    /\ earlier = [c \in Calls |-> {}]

-----------------------------------------------------------------------------
(* The gate: one compare-exchange from Pending for each side.              *)

CompareExchange(c, to) == /\ gate[c] = "Pending"
                          /\ gate' = [gate EXCEPT ![c] = to]

\* Mutant of NextSequence: the counter is read, not advanced.
SequenceKept == UNCHANGED sequence

NextSequence == sequence' = sequence + 1

\* Mutant of Overdue: a claim at the deadline itself still counts as in time.
OverdueByOne(c) == now > deadline[c]

Overdue(c) == now >= deadline[c]

\* Mutant of SteadyDeadline: a wall-clock deadline already past is not clamped.
SteadyDeadlineUnclamped(b) == now + b

\* steady_deadline_from_epoch_ms, b units before the wall-clock deadline.
SteadyDeadline(b) == IF b <= 0 THEN now ELSE now + b

\* The handler answers with an error of its own: set_error draws a sequence.
ReturnError(c, code) ==
    /\ handler' = [handler EXCEPT ![c] = "returned"]
    /\ reply' = [reply EXCEPT ![c] = code]
    /\ replySeq' = [replySeq EXCEPT ![c] = sequence + 1]
    /\ NextSequence
    /\ UNCHANGED waitUntil

\* The UI thread moves to stage s having decided the result of the call.
Conclude(c, result, s) ==
    /\ outcome' = [outcome EXCEPT ![c] = result]
    /\ stage' = [stage EXCEPT ![c] = s]

\* The UI thread has a result that set_error wrote: a sequence is drawn for
\* it here, and the response draws its own later.
Fail(c, result) == /\ Conclude(c, result, "stamp")
                   /\ NextSequence

-----------------------------------------------------------------------------
(* The handler thread: vendor_request and run_ui_operation.                *)

Returned == {c \in Calls : handler[c] = "returned"}

\* A request whose deadline, arguments or capability vendor_request refuses.
Refuse(c) ==
    /\ handler[c] = "idle"
    /\ ReturnError(c, "refused")
    /\ earlier' = [earlier EXCEPT ![c] = Returned]
    /\ UNCHANGED <<now, gate, kind, deadline, uiVars>>

\* The request is accepted b units before its deadline (after it, if b is
\* negative), and its task is posted without waiting.
Post(c, k, b) ==
    /\ handler[c] = "idle"
    /\ SteadyDeadline(b) <= MaxTime + 1
    /\ kind' = [kind EXCEPT ![c] = k]
    /\ deadline' = [deadline EXCEPT ![c] = SteadyDeadline(b)]
    /\ earlier' = [earlier EXCEPT ![c] = Returned]
    /\ handler' = [handler EXCEPT ![c] = "posted"]
    /\ stage' = [stage EXCEPT ![c] = "queued"]
    /\ queue' = Append(queue, c)
    /\ UNCHANGED <<now, sequence, gate, outcome, outSeq, complete, performed,
                   claimedAt, waitUntil, reply, replySeq>>

\* The handler locks the mutex and computes what remains; with nothing left it
\* does not look at the result at all.
CheckRemaining(c) ==
    /\ handler[c] = "posted"
    /\ IF Overdue(c)
       THEN /\ handler' = [handler EXCEPT ![c] = "expired"]
            /\ UNCHANGED waitUntil
       ELSE /\ handler' = [handler EXCEPT ![c] = "waiting"]
            /\ waitUntil' = [waitUntil EXCEPT ![c] =
                  IF now + UiTimeout < deadline[c] THEN now + UiTimeout
                                                   ELSE deadline[c]]
    /\ UNCHANGED <<now, sequence, gate, callVars, uiVars, reply, replySeq>>

\* wait_for finds the predicate true: however late, the result is taken.
TakeResult(c) ==
    /\ handler[c] = "waiting"
    /\ complete[c]
    /\ handler' = [handler EXCEPT ![c] = "returned"]
    /\ reply' = [reply EXCEPT ![c] = outcome[c]]
    /\ replySeq' = [replySeq EXCEPT ![c] = outSeq[c]]
    /\ UNCHANGED <<now, sequence, gate, callVars, uiVars, waitUntil>>

\* Mutant of WaitExpires: the handler waits on for an operation that started.
WaitExpiresPending(c) ==
    /\ handler[c] = "waiting"
    /\ now >= waitUntil[c]
    /\ ~complete[c]
    /\ gate[c] = "Pending"
    /\ handler' = [handler EXCEPT ![c] = "expired"]
    /\ UNCHANGED <<now, sequence, gate, callVars, uiVars, waitUntil, reply,
                   replySeq>>

\* wait_for times out with the predicate false; the mutex is held from here.
WaitExpires(c) ==
    /\ handler[c] = "waiting"
    /\ now >= waitUntil[c]
    /\ ~complete[c]
    /\ handler' = [handler EXCEPT ![c] = "expired"]
    /\ UNCHANGED <<now, sequence, gate, callVars, uiVars, waitUntil, reply,
                   replySeq>>

\* Mutant of CancelPending: the state of the gate is read, not exchanged.
CancelObserved(c) ==
    /\ handler[c] = "expired"
    /\ gate[c] = "Pending"
    /\ ReturnError(c, "timeout")
    /\ UNCHANGED <<now, gate, callVars, uiVars>>

\* cancel_pending succeeds: the operation can no longer run.
CancelPending(c) ==
    /\ handler[c] = "expired"
    /\ CompareExchange(c, "Cancelled")
    /\ ReturnError(c, "timeout")
    /\ UNCHANGED <<now, callVars, uiVars>>

\* Mutant of AnswerIndeterminate: every expired wait is reported as a timeout.
AnswerTimeout(c) ==
    /\ handler[c] = "expired"
    /\ gate[c] # "Pending"
    /\ ReturnError(c, "timeout")
    /\ UNCHANGED <<now, gate, callVars, uiVars>>

\* cancel_pending fails: the UI thread was first.
AnswerIndeterminate(c) ==
    /\ handler[c] = "expired"
    /\ gate[c] # "Pending"
    /\ ReturnError(c, "indeterminate")
    /\ UNCHANGED <<now, gate, callVars, uiVars>>

-----------------------------------------------------------------------------
(* The OBS UI thread: execute_ui_operation, one task at a time.            *)

UiIdle == \A c \in Calls : stage[c] \in {"absent", "queued", "done"}

Dequeue(c) ==
    /\ UiIdle
    /\ queue # <<>>
    /\ c = Head(queue)
    /\ queue' = Tail(queue)
    /\ stage' = [stage EXCEPT ![c] = "begin"]
    /\ UNCHANGED <<now, sequence, gate, outcome, outSeq, complete, performed,
                   claimedAt, callVars, handlerVars>>

\* A read starts only while its handler still waits for it.
StartRead(c) ==
    /\ stage[c] = "begin"
    /\ kind[c] = "read"
    /\ \/ /\ CompareExchange(c, "Started")
          /\ stage' = [stage EXCEPT ![c] = "run"]
          /\ UNCHANGED <<sequence, outcome>>
       \/ /\ gate[c] # "Pending"
          /\ Fail(c, "timeout")
          /\ UNCHANGED gate
    /\ UNCHANGED <<now, queue, outSeq, complete, performed, claimedAt,
                   callVars, handlerVars>>

\* A mutation first looks up and checks its target, its gate untouched: it may
\* be refused, or find that nothing has to change.
Validate(c) ==
    /\ stage[c] = "begin"
    /\ kind[c] = "mutation"
    /\ \/ /\ stage' = [stage EXCEPT ![c] = "claim"]
          /\ UNCHANGED <<sequence, outcome>>
       \/ Fail(c, "refused")
       \/ /\ Conclude(c, "unchanged", "stamp")
          /\ UNCHANGED sequence
    /\ UNCHANGED <<now, gate, queue, outSeq, complete, performed, claimedAt,
                   callVars, handlerVars>>

\* claim_mutation(deadline), its compare-exchange.
Claim(c) ==
    /\ stage[c] = "claim"
    /\ \/ /\ CompareExchange(c, "Started")
          /\ stage' = [stage EXCEPT ![c] = "check"]
          /\ UNCHANGED <<sequence, outcome>>
       \/ /\ gate[c] # "Pending"
          /\ Fail(c, "timeout")
          /\ UNCHANGED gate
    /\ UNCHANGED <<now, queue, outSeq, complete, performed, claimedAt,
                   callVars, handlerVars>>

\* claim_mutation(deadline), the clock read after it.
CheckDeadline(c) ==
    /\ stage[c] = "check"
    /\ \/ /\ ~Overdue(c)
          /\ stage' = [stage EXCEPT ![c] = "run"]
          /\ claimedAt' = [claimedAt EXCEPT ![c] = now]
          /\ UNCHANGED <<sequence, gate, outcome>>
       \/ /\ Overdue(c)
          /\ gate' = [gate EXCEPT ![c] = "Cancelled"]
          /\ Fail(c, "timeout")
          /\ UNCHANGED claimedAt
    /\ UNCHANGED <<now, queue, outSeq, complete, performed, callVars,
                   handlerVars>>

\* The body of the operation.  Once claimed it may still be turned down by OBS
\* ("failed", nothing done) or miss its postcondition ("failed", done).
Run(c) ==
    /\ stage[c] = "run"
    /\ \/ /\ Conclude(c, "ok", "stamp")
          /\ performed' = [performed EXCEPT ![c] = @ + 1]
          /\ UNCHANGED sequence
       \/ /\ Fail(c, "failed")
          /\ \/ performed' = [performed EXCEPT ![c] = @ + 1]
             \/ UNCHANGED performed
    /\ UNCHANGED <<now, gate, queue, outSeq, complete, claimedAt, callVars,
                   handlerVars>>

\* The response draws its sequence, outside the mutex.
Stamp(c) ==
    /\ stage[c] = "stamp"
    /\ outSeq' = [outSeq EXCEPT ![c] = sequence + 1]
    /\ NextSequence
    /\ stage' = [stage EXCEPT ![c] = "publish"]
    /\ UNCHANGED <<now, gate, queue, outcome, complete, performed, claimedAt,
                   callVars, handlerVars>>

\* Mutant of Publish: the result is handed over only to a waiting handler.
PublishToWaiter(c) ==
    /\ stage[c] = "publish"
    /\ handler[c] \in {"posted", "waiting"}
    /\ complete' = [complete EXCEPT ![c] = TRUE]
    /\ stage' = [stage EXCEPT ![c] = "done"]
    /\ UNCHANGED <<now, sequence, gate, queue, outcome, outSeq, performed,
                   claimedAt, callVars, handlerVars>>

\* Under the mutex the result is handed over; notify_one wakes the handler, if
\* it still waits.
Publish(c) ==
    /\ stage[c] = "publish"
    /\ handler[c] # "expired"
    /\ complete' = [complete EXCEPT ![c] = TRUE]
    /\ stage' = [stage EXCEPT ![c] = "done"]
    /\ UNCHANGED <<now, sequence, gate, queue, outcome, outSeq, performed,
                   claimedAt, callVars, handlerVars>>

-----------------------------------------------------------------------------

Tick == /\ now < MaxTime
        /\ now' = now + 1
        /\ UNCHANGED <<sequence, gate, callVars, uiVars, handlerVars>>

HandlerStep(c) == \/ CheckRemaining(c) \/ TakeResult(c) \/ WaitExpires(c)
                  \/ CancelPending(c) \/ AnswerIndeterminate(c)

UiStep(c) == \/ Dequeue(c) \/ StartRead(c) \/ Validate(c) \/ Claim(c)
             \/ CheckDeadline(c) \/ Run(c) \/ Stamp(c) \/ Publish(c)

Next == \/ Tick
        \/ \E c \in Calls : \/ Refuse(c)
                            \/ \E k \in Kinds, b \in -1..MaxBudget : Post(c, k, b)
                            \/ HandlerStep(c)
                            \/ UiStep(c)

Spec == Init /\ [][Next]_vars

\* The operating system schedules the handler threads and time passes.  OBS's
\* UI thread is not the plugin's: it may hang in a dialog or a driver.
HandlerFairness == /\ WF_vars(Tick)
                   /\ \A c \in Calls : WF_vars(HandlerStep(c))

FairSpec == Spec /\ HandlerFairness

\* The UI thread keeps draining its queue.
UiFairness == \A c \in Calls : WF_vars(UiStep(c))

-----------------------------------------------------------------------------
(* Properties.                                                             *)

\* A caller that was told its request was refused, timed out or changed nothing
\* can rely on it: the operation has not run, although its task may still be in
\* the UI queue (run_ui_operation, UiTaskGate).
SettledNeverPerformed ==
    \A c \in Calls : reply[c] \in {"refused", "timeout", "unchanged"}
                        => performed[c] = 0

\* A mutation runs only if its claim was granted strictly before the deadline of
\* the request, however late the UI thread came to it (claim_mutation).
DeadlineHonoured ==
    \A c \in Calls : kind[c] = "mutation" /\ performed[c] > 0
                        => claimedAt[c] < deadline[c]

\* Responses are stamped in an order that respects time: a call made after
\* another one had returned carries the larger event sequence.  The bridge
\* rejects a response that breaks this (ObsControlBridge._checked).
SequenceCausal ==
    \A c \in Calls : \A e \in earlier[c] :
        handler[c] = "returned" => replySeq[e] < replySeq[c]

\* The detailed dispatch implements the promise of VendorCall, in particular
\* that a settled call never runs later and that none runs twice.
AnswerOf(c) == CASE handler[c] = "idle" -> "idle"
                 [] handler[c] = "returned" -> reply[c]
                 [] OTHER -> "open"

Promise == INSTANCE VendorCall WITH answer <- [c \in Calls |-> AnswerOf(c)]

ImplementsVendorCall == Promise!Spec

\* Every accepted call returns, even if the UI thread never runs again (as far as
\* the clock of the model goes).
HandlersReturn ==
    \A c \in Calls : handler[c] = "posted" /\ deadline[c] <= MaxTime
                        ~> handler[c] = "returned"

\* With a live UI thread no posted task stays behind, not even that of a caller
\* that gave up and holds the mutex at that moment.
TasksDisposed ==
    UiFairness => \A c \in Calls : stage[c] = "queued" ~> stage[c] = "done"
=============================================================================
