-------------------------- MODULE UiDispatchProofs --------------------------
(***************************************************************************)
(* Proofs about UiDispatch for any set of calls and any bounds.  The       *)
(* inductive invariant IInv says, call by call, what the stage of the UI   *)
(* thread tells about the gate and the operation (GateInv), what the       *)
(* answer given by the handler tells (ReplyInv), how event sequences are   *)
(* ordered (SequenceInv), and that the UI queue holds exactly tasks that   *)
(* wait to be run, none of them twice (QueueInv).                          *)
(***************************************************************************)
EXTENDS UiDispatch, TLAPS

SettledReplies == {"refused", "timeout", "unchanged"}

QueueInv ==
    /\ \A i \in 1..Len(queue) : stage[queue[i]] = "queued"
    /\ \A i, j \in 1..Len(queue) : queue[i] = queue[j] => i = j

GateInv(c) ==
    /\ stage[c] \in {"absent", "queued", "begin", "claim"} => gate[c] # "Started"
    /\ stage[c] \in {"check", "run"} => gate[c] = "Started" /\ performed[c] = 0
    /\ gate[c] # "Started" => performed[c] = 0
    /\ performed[c] \in {0, 1}
    /\ stage[c] = "run" /\ kind[c] = "mutation" => claimedAt[c] < deadline[c]
    /\ performed[c] = 1 /\ kind[c] = "mutation" => claimedAt[c] < deadline[c]
    /\ stage[c] \in {"stamp", "publish", "done"} =>
          /\ outcome[c] \in Outcomes
          /\ outcome[c] = "ok" => performed[c] = 1
          /\ outcome[c] \in SettledReplies => performed[c] = 0

ReplyInv(c) ==
    /\ handler[c] = "idle" => stage[c] = "absent"
    /\ stage[c] = "absent" => handler[c] \in {"idle", "returned"} /\ performed[c] = 0
    /\ complete[c] => stage[c] = "done"
    /\ handler[c] = "returned" <=> reply[c] # "none"
    /\ reply[c] = "ok" => performed[c] = 1
    /\ reply[c] \in {"ok", "failed"} => stage[c] = "done"
    /\ reply[c] \in SettledReplies =>
          \/ gate[c] = "Cancelled"
          \/ stage[c] = "absent"
          \/ stage[c] = "done" /\ performed[c] = 0

SequenceInv(c) ==
    /\ replySeq[c] <= sequence
    /\ outSeq[c] <= sequence
    /\ earlier[c] \subseteq Returned
    /\ \A e \in earlier[c] :
          /\ stage[c] \in {"publish", "done"} => replySeq[e] < outSeq[c]
          /\ handler[c] = "returned" => replySeq[e] < replySeq[c]

IInv == /\ TypeOK
        /\ QueueInv
        /\ \A c \in Calls : GateInv(c) /\ ReplyInv(c) /\ SequenceInv(c)

-----------------------------------------------------------------------------
(* The names used by the steps are members of their enumerations.          *)
LEMMA MembersFact ==
    /\ \A h \in {"idle", "posted", "waiting", "expired", "returned"} : h \in HandlerStates
    /\ \A s \in {"queued", "begin", "claim", "check", "run", "stamp", "publish", "done"} : s \in Stages
    /\ \A o \in {"ok", "unchanged", "refused", "failed", "timeout"} : o \in Outcomes
    /\ \A r \in Outcomes : r \in Replies
    /\ "indeterminate" \in Replies
  BY DEF HandlerStates, Stages, Outcomes, Replies

(* Every step of a handler or of the UI thread keeps the types.            *)
LEMMA TypeStep == TypeOK /\ [Next]_vars => TypeOK'
<1> SUFFICES ASSUME TypeOK, [Next]_vars PROVE TypeOK'
  OBVIOUS
<1>1. queue \in Seq(Calls)
  BY DEF TypeOK
<1>2. kind \in [Calls -> Kinds]
  BY DEF TypeOK
<1>3. handler \in [Calls -> HandlerStates]
  BY DEF TypeOK
<1>4. deadline \in [Calls -> Nat]
  BY DEF TypeOK
<1>5. waitUntil \in [Calls -> Nat]
  BY DEF TypeOK
<1>6. gate \in [Calls -> {"Pending", "Started", "Cancelled"}]
  BY DEF TypeOK
<1>7. stage \in [Calls -> Stages]
  BY DEF TypeOK
<1>8. outcome \in [Calls -> Outcomes \cup {"none"}]
  BY DEF TypeOK
<1>9. outSeq \in [Calls -> Nat]
  BY DEF TypeOK
<1>10. complete \in [Calls -> BOOLEAN]
  BY DEF TypeOK
<1>11. reply \in [Calls -> Replies \cup {"none"}]
  BY DEF TypeOK
<1>12. replySeq \in [Calls -> Nat]
  BY DEF TypeOK
<1>13. performed \in [Calls -> Nat]
  BY DEF TypeOK
<1>14. claimedAt \in [Calls -> Nat]
  BY DEF TypeOK
<1>15. earlier \in [Calls -> SUBSET Calls]
  BY DEF TypeOK
<1>16. sequence \in Nat
  BY DEF TypeOK
<1>17. now \in Nat /\ now \in 0..MaxTime
  BY BoundsAssumption DEF TypeOK
<1>18. CASE UNCHANGED vars
  BY <1>18 DEF TypeOK, vars, callVars, uiVars, handlerVars
<1>19. CASE Tick
  BY <1>19, BoundsAssumption DEF TypeOK, Tick, callVars, uiVars, handlerVars
<1>20. ASSUME NEW c \in Calls, Refuse(c) PROVE TypeOK'
  <2>1. handler' \in [Calls -> HandlerStates]
    BY <1>20, <1>3, MembersFact DEF Refuse, ReturnError, NextSequence, Returned
  <2>2. reply' \in [Calls -> Replies \cup {"none"}]
    BY <1>20, <1>11, MembersFact DEF Refuse, ReturnError, NextSequence, Returned
  <2>3. replySeq' \in [Calls -> Nat]
    BY <1>20, <1>12, <1>16 DEF Refuse, ReturnError, NextSequence, Returned
  <2>4. sequence' \in Nat
    BY <1>20, <1>16 DEF Refuse, ReturnError, NextSequence, Returned
  <2>5. earlier' \in [Calls -> SUBSET Calls]
    BY <1>20, <1>15, <1>3 DEF Refuse, ReturnError, NextSequence, Returned
  <2>6. QED
    BY <1>20, <2>1, <2>2, <2>3, <2>4, <2>5 DEF TypeOK, Refuse, callVars, uiVars, handlerVars, ReturnError, NextSequence, Returned
<1>21. ASSUME NEW c \in Calls, NEW k \in Kinds, NEW b \in -1..MaxBudget, Post(c, k, b)
       PROVE TypeOK'
  <2>1. kind' \in [Calls -> Kinds]
    BY <1>21, <1>2 DEF Post, Returned
  <2>2. deadline' \in [Calls -> Nat]
    BY <1>21, <1>4, <1>17, BoundsAssumption DEF Post, SteadyDeadline, Returned
  <2>3. earlier' \in [Calls -> SUBSET Calls]
    BY <1>21, <1>15, <1>3 DEF Post, Returned
  <2>4. handler' \in [Calls -> HandlerStates]
    BY <1>21, <1>3, MembersFact DEF Post, Returned
  <2>5. stage' \in [Calls -> Stages]
    BY <1>21, <1>7, MembersFact DEF Post, Returned
  <2>6. queue' \in Seq(Calls)
    BY <1>21, <1>1 DEF Post, Returned
  <2>7. QED
    BY <1>21, <2>1, <2>2, <2>3, <2>4, <2>5, <2>6 DEF TypeOK, Post, callVars, uiVars, handlerVars, Returned
<1>22. ASSUME NEW c \in Calls, HandlerStep(c) PROVE TypeOK'
  <2>1. CASE CheckRemaining(c)
    <3>1. handler' \in [Calls -> HandlerStates]
      BY <2>1, <1>3, MembersFact DEF CheckRemaining, Overdue
    <3>2. waitUntil' \in [Calls -> Nat]
      BY <2>1, <1>5, <1>4, <1>17, BoundsAssumption DEF CheckRemaining, Overdue
    <3>3. QED
      BY <2>1, <3>1, <3>2 DEF TypeOK, CheckRemaining, Overdue, callVars, uiVars, handlerVars
  <2>2. CASE TakeResult(c)
    <3>1. handler' \in [Calls -> HandlerStates]
      BY <2>2, <1>3, MembersFact DEF TakeResult
    <3>2. reply' \in [Calls -> Replies \cup {"none"}]
      BY <2>2, <1>11, <1>8, MembersFact DEF TakeResult
    <3>3. replySeq' \in [Calls -> Nat]
      BY <2>2, <1>12, <1>9 DEF TakeResult
    <3>4. QED
      BY <2>2, <3>1, <3>2, <3>3 DEF TypeOK, TakeResult, callVars, uiVars, handlerVars
  <2>3. CASE WaitExpires(c)
    <3>1. handler' \in [Calls -> HandlerStates]
      BY <2>3, <1>3, MembersFact DEF WaitExpires
    <3>2. QED
      BY <2>3, <3>1 DEF TypeOK, WaitExpires, callVars, uiVars, handlerVars
  <2>4. CASE CancelPending(c)
    <3>1. gate' \in [Calls -> {"Pending", "Started", "Cancelled"}]
      BY <2>4, <1>6 DEF CancelPending, CompareExchange, ReturnError, NextSequence
    <3>2. handler' \in [Calls -> HandlerStates]
      BY <2>4, <1>3, MembersFact DEF CancelPending, CompareExchange, ReturnError, NextSequence
    <3>3. reply' \in [Calls -> Replies \cup {"none"}]
      BY <2>4, <1>11, MembersFact DEF CancelPending, CompareExchange, ReturnError, NextSequence
    <3>4. replySeq' \in [Calls -> Nat]
      BY <2>4, <1>12, <1>16 DEF CancelPending, CompareExchange, ReturnError, NextSequence
    <3>5. sequence' \in Nat
      BY <2>4, <1>16 DEF CancelPending, CompareExchange, ReturnError, NextSequence
    <3>6. QED
      BY <2>4, <3>1, <3>2, <3>3, <3>4, <3>5 DEF TypeOK, CancelPending, callVars, uiVars, handlerVars, CompareExchange, ReturnError, NextSequence
  <2>5. CASE AnswerIndeterminate(c)
    <3>1. handler' \in [Calls -> HandlerStates]
      BY <2>5, <1>3, MembersFact DEF AnswerIndeterminate, ReturnError, NextSequence
    <3>2. reply' \in [Calls -> Replies \cup {"none"}]
      BY <2>5, <1>11, MembersFact DEF AnswerIndeterminate, ReturnError, NextSequence
    <3>3. replySeq' \in [Calls -> Nat]
      BY <2>5, <1>12, <1>16 DEF AnswerIndeterminate, ReturnError, NextSequence
    <3>4. sequence' \in Nat
      BY <2>5, <1>16 DEF AnswerIndeterminate, ReturnError, NextSequence
    <3>5. QED
      BY <2>5, <3>1, <3>2, <3>3, <3>4 DEF TypeOK, AnswerIndeterminate, callVars, uiVars, handlerVars, ReturnError, NextSequence
  <2>6. QED BY <1>22, <2>1, <2>2, <2>3, <2>4, <2>5 DEF HandlerStep
<1>23. ASSUME NEW c \in Calls, UiStep(c) PROVE TypeOK'
  <2>1. CASE Dequeue(c)
    <3>1. queue' \in Seq(Calls)
      BY <2>1, <1>1 DEF Dequeue
    <3>2. stage' \in [Calls -> Stages]
      BY <2>1, <1>7, MembersFact DEF Dequeue
    <3>3. QED
      BY <2>1, <3>1, <3>2 DEF TypeOK, Dequeue, callVars, uiVars, handlerVars
  <2>2. CASE StartRead(c)
    <3>1. gate' \in [Calls -> {"Pending", "Started", "Cancelled"}]
      BY <2>2, <1>6 DEF StartRead, CompareExchange, Fail, Conclude, NextSequence
    <3>2. stage' \in [Calls -> Stages]
      BY <2>2, <1>7, MembersFact DEF StartRead, CompareExchange, Fail, Conclude, NextSequence
    <3>3. sequence' \in Nat
      BY <2>2, <1>16 DEF StartRead, CompareExchange, Fail, Conclude, NextSequence
    <3>4. outcome' \in [Calls -> Outcomes \cup {"none"}]
      BY <2>2, <1>8, MembersFact DEF StartRead, CompareExchange, Fail, Conclude, NextSequence
    <3>5. QED
      BY <2>2, <3>1, <3>2, <3>3, <3>4 DEF TypeOK, StartRead, callVars, uiVars, handlerVars, CompareExchange, Fail, Conclude, NextSequence
  <2>3. CASE Validate(c)
    <3>1. stage' \in [Calls -> Stages]
      BY <2>3, <1>7, MembersFact DEF Validate, Fail, Conclude, NextSequence
    <3>2. sequence' \in Nat
      BY <2>3, <1>16 DEF Validate, Fail, Conclude, NextSequence
    <3>3. outcome' \in [Calls -> Outcomes \cup {"none"}]
      BY <2>3, <1>8, MembersFact DEF Validate, Fail, Conclude, NextSequence
    <3>4. QED
      BY <2>3, <3>1, <3>2, <3>3 DEF TypeOK, Validate, callVars, uiVars, handlerVars, Fail, Conclude, NextSequence
  <2>4. CASE Claim(c)
    <3>1. gate' \in [Calls -> {"Pending", "Started", "Cancelled"}]
      BY <2>4, <1>6 DEF Claim, CompareExchange, Fail, Conclude, NextSequence
    <3>2. stage' \in [Calls -> Stages]
      BY <2>4, <1>7, MembersFact DEF Claim, CompareExchange, Fail, Conclude, NextSequence
    <3>3. sequence' \in Nat
      BY <2>4, <1>16 DEF Claim, CompareExchange, Fail, Conclude, NextSequence
    <3>4. outcome' \in [Calls -> Outcomes \cup {"none"}]
      BY <2>4, <1>8, MembersFact DEF Claim, CompareExchange, Fail, Conclude, NextSequence
    <3>5. QED
      BY <2>4, <3>1, <3>2, <3>3, <3>4 DEF TypeOK, Claim, callVars, uiVars, handlerVars, CompareExchange, Fail, Conclude, NextSequence
  <2>5. CASE CheckDeadline(c)
    <3>1. stage' \in [Calls -> Stages]
      BY <2>5, <1>7, MembersFact DEF CheckDeadline, Overdue, Fail, Conclude, NextSequence
    <3>2. claimedAt' \in [Calls -> Nat]
      BY <2>5, <1>14, <1>17 DEF CheckDeadline, Overdue, Fail, Conclude, NextSequence
    <3>3. sequence' \in Nat
      BY <2>5, <1>16 DEF CheckDeadline, Overdue, Fail, Conclude, NextSequence
    <3>4. gate' \in [Calls -> {"Pending", "Started", "Cancelled"}]
      BY <2>5, <1>6 DEF CheckDeadline, Overdue, Fail, Conclude, NextSequence
    <3>5. outcome' \in [Calls -> Outcomes \cup {"none"}]
      BY <2>5, <1>8, MembersFact DEF CheckDeadline, Overdue, Fail, Conclude, NextSequence
    <3>6. QED
      BY <2>5, <3>1, <3>2, <3>3, <3>4, <3>5 DEF TypeOK, CheckDeadline, callVars, uiVars, handlerVars, Fail, Conclude, NextSequence
  <2>6. CASE Run(c)
    <3>1. stage' \in [Calls -> Stages]
      BY <2>6, <1>7, MembersFact DEF Run, Fail, Conclude, NextSequence
    <3>2. outcome' \in [Calls -> Outcomes \cup {"none"}]
      BY <2>6, <1>8, MembersFact DEF Run, Fail, Conclude, NextSequence
    <3>3. performed' \in [Calls -> Nat]
      BY <2>6, <1>13 DEF Run, Fail, Conclude, NextSequence
    <3>4. sequence' \in Nat
      BY <2>6, <1>16 DEF Run, Fail, Conclude, NextSequence
    <3>5. QED
      BY <2>6, <3>1, <3>2, <3>3, <3>4 DEF TypeOK, Run, callVars, uiVars, handlerVars, Fail, Conclude, NextSequence
  <2>7. CASE Stamp(c)
    <3>1. stage' \in [Calls -> Stages]
      BY <2>7, <1>7, MembersFact DEF Stamp, NextSequence
    <3>2. outSeq' \in [Calls -> Nat]
      BY <2>7, <1>9, <1>16 DEF Stamp, NextSequence
    <3>3. sequence' \in Nat
      BY <2>7, <1>16 DEF Stamp, NextSequence
    <3>4. QED
      BY <2>7, <3>1, <3>2, <3>3 DEF TypeOK, Stamp, callVars, uiVars, handlerVars, NextSequence
  <2>8. CASE Publish(c)
    <3>1. stage' \in [Calls -> Stages]
      BY <2>8, <1>7, MembersFact DEF Publish
    <3>2. complete' \in [Calls -> BOOLEAN]
      BY <2>8, <1>10 DEF Publish
    <3>3. QED
      BY <2>8, <3>1, <3>2 DEF TypeOK, Publish, callVars, uiVars, handlerVars
  <2>9. QED BY <1>23, <2>1, <2>2, <2>3, <2>4, <2>5, <2>6, <2>7, <2>8 DEF UiStep
<1>24. QED
  BY <1>18, <1>19, <1>20, <1>21, <1>22, <1>23 DEF Next

-----------------------------------------------------------------------------
(* A step on call c leaves everything that belongs to another call alone,   *)
(* and a call that has returned keeps its answer.                           *)
Frame(c) ==
    /\ sequence' \in {sequence, sequence + 1}
    /\ \A d \in Calls \ {c} :
          /\ kind'[d] = kind[d]
          /\ handler'[d] = handler[d]
          /\ deadline'[d] = deadline[d]
          /\ waitUntil'[d] = waitUntil[d]
          /\ gate'[d] = gate[d]
          /\ stage'[d] = stage[d]
          /\ outcome'[d] = outcome[d]
          /\ outSeq'[d] = outSeq[d]
          /\ complete'[d] = complete[d]
          /\ reply'[d] = reply[d]
          /\ replySeq'[d] = replySeq[d]
          /\ performed'[d] = performed[d]
          /\ claimedAt'[d] = claimedAt[d]
          /\ earlier'[d] = earlier[d]
    /\ handler[c] = "returned" => /\ handler'[c] = "returned"
                                  /\ replySeq'[c] = replySeq[c]

CallStep(c) == \/ Refuse(c)
               \/ \E k \in Kinds, b \in -1..MaxBudget : Post(c, k, b)
               \/ HandlerStep(c)
               \/ UiStep(c)

\* A step of one call leaves the other calls as they are.
LEMMA FrameStep ==
  ASSUME TypeOK, NEW c \in Calls, CallStep(c)
  PROVE  Frame(c)
<1> USE DEF TypeOK, Frame, callVars, uiVars, handlerVars
<1>1. CASE Refuse(c)
  BY <1>1 DEF Refuse, ReturnError, NextSequence
<1>2. CASE \E k \in Kinds, b \in -1..MaxBudget : Post(c, k, b)
  BY <1>2 DEF Post
<1>3. CASE CheckRemaining(c)
  BY <1>3 DEF CheckRemaining, Overdue
<1>4. CASE TakeResult(c)
  BY <1>4 DEF TakeResult
<1>5. CASE WaitExpires(c)
  BY <1>5 DEF WaitExpires
<1>6. CASE CancelPending(c)
  BY <1>6 DEF CancelPending, CompareExchange, ReturnError, NextSequence
<1>7. CASE AnswerIndeterminate(c)
  BY <1>7 DEF AnswerIndeterminate, ReturnError, NextSequence
<1>8. CASE Dequeue(c)
  BY <1>8 DEF Dequeue
<1>9. CASE StartRead(c)
  BY <1>9, SMTT(30) DEF StartRead, CompareExchange, Fail, Conclude, NextSequence
<1>10. CASE Validate(c)
  BY <1>10 DEF Validate, Fail, Conclude, NextSequence
<1>11. CASE Claim(c)
  BY <1>11, SMTT(30) DEF Claim, CompareExchange, Fail, Conclude, NextSequence
<1>12. CASE CheckDeadline(c)
  BY <1>12, SMTT(30) DEF CheckDeadline, Overdue, Fail, Conclude, NextSequence
<1>13. CASE Run(c)
  BY <1>13, SMTT(30) DEF Run, Fail, Conclude, NextSequence
<1>14. CASE Stamp(c)
  BY <1>14 DEF Stamp, NextSequence
<1>15. CASE Publish(c)
  BY <1>15 DEF Publish
<1>16. QED
  BY <1>1, <1>2, <1>3, <1>4, <1>5, <1>6, <1>7, <1>8, <1>9, <1>10, <1>11, <1>12, <1>13, <1>14, <1>15 DEF CallStep, HandlerStep, UiStep

(* What a step on c does to the gate and answer of c itself.               *)
LEMMA OwnStep ==
  ASSUME IInv, NEW c \in Calls, CallStep(c)
  PROVE  GateInv(c)' /\ ReplyInv(c)'
<1>1. TypeOK /\ GateInv(c) /\ ReplyInv(c) /\ QueueInv
  BY DEF IInv
<1> USE <1>1 DEF TypeOK, GateInv, ReplyInv, Outcomes, SettledReplies, callVars, uiVars, handlerVars
<1>2. CASE Refuse(c)
  <2>1. GateInv(c)'
    BY <1>2 DEF Refuse, ReturnError, NextSequence
  <2>2. ReplyInv(c)'
    BY <1>2 DEF Refuse, ReturnError, NextSequence
  <2>3. QED BY <2>1, <2>2
<1>3. CASE \E k \in Kinds, b \in -1..MaxBudget : Post(c, k, b)
  <2>1. GateInv(c)'
    BY <1>3 DEF Post
  <2>2. ReplyInv(c)'
    BY <1>3 DEF Post
  <2>3. QED BY <2>1, <2>2
<1>4. CASE CheckRemaining(c)
  <2>1. GateInv(c)'
    BY <1>4 DEF CheckRemaining, Overdue
  <2>2. ReplyInv(c)'
    BY <1>4 DEF CheckRemaining, Overdue
  <2>3. QED BY <2>1, <2>2
<1>5. CASE TakeResult(c)
  <2>1. GateInv(c)'
    BY <1>5 DEF TakeResult
  <2>2. ReplyInv(c)'
    BY <1>5 DEF TakeResult
  <2>3. QED BY <2>1, <2>2
<1>6. CASE WaitExpires(c)
  <2>1. GateInv(c)'
    BY <1>6 DEF WaitExpires
  <2>2. ReplyInv(c)'
    BY <1>6 DEF WaitExpires
  <2>3. QED BY <2>1, <2>2
<1>7. CASE CancelPending(c)
  <2>1. GateInv(c)'
    BY <1>7 DEF CancelPending, CompareExchange, ReturnError, NextSequence
  <2>2. ReplyInv(c)'
    BY <1>7 DEF CancelPending, CompareExchange, ReturnError, NextSequence
  <2>3. QED BY <2>1, <2>2
<1>8. CASE AnswerIndeterminate(c)
  <2>1. GateInv(c)'
    BY <1>8 DEF AnswerIndeterminate, ReturnError, NextSequence
  <2>2. ReplyInv(c)'
    BY <1>8 DEF AnswerIndeterminate, ReturnError, NextSequence
  <2>3. QED BY <2>1, <2>2
<1>9. CASE Dequeue(c)
  <2>1. stage[c] = "queued"
    <3>1. queue # <<>> /\ c = Head(queue)
      BY <1>9 DEF Dequeue
    <3>2. 1 \in 1..Len(queue) /\ c = queue[1]
      BY <3>1 DEF TypeOK
    <3>3. QED BY <1>1, <3>2 DEF QueueInv
  <2>2. GateInv(c)'
    BY <1>9, <2>1 DEF Dequeue
  <2>3. ReplyInv(c)'
    BY <1>9, <2>1 DEF Dequeue
  <2>4. QED BY <2>2, <2>3
<1>10. CASE StartRead(c)
  <2>1. GateInv(c)'
    BY <1>10 DEF StartRead, CompareExchange, Fail, Conclude, NextSequence
  <2>2. ReplyInv(c)'
    BY <1>10 DEF StartRead, CompareExchange, Fail, Conclude, NextSequence
  <2>3. QED BY <2>1, <2>2
<1>11. CASE Validate(c)
  <2>1. GateInv(c)'
    BY <1>11 DEF Validate, Fail, Conclude, NextSequence
  <2>2. ReplyInv(c)'
    BY <1>11 DEF Validate, Fail, Conclude, NextSequence
  <2>3. QED BY <2>1, <2>2
<1>12. CASE Claim(c)
  <2>1. GateInv(c)'
    BY <1>12 DEF Claim, CompareExchange, Fail, Conclude, NextSequence
  <2>2. ReplyInv(c)'
    BY <1>12 DEF Claim, CompareExchange, Fail, Conclude, NextSequence
  <2>3. QED BY <2>1, <2>2
<1>13. CASE CheckDeadline(c)
  <2>1. GateInv(c)'
    BY <1>13 DEF CheckDeadline, Overdue, Fail, Conclude, NextSequence
  <2>2. ReplyInv(c)'
    BY <1>13 DEF CheckDeadline, Overdue, Fail, Conclude, NextSequence
  <2>3. QED BY <2>1, <2>2
<1>14. CASE Run(c)
  <2>1. GateInv(c)'
    BY <1>14 DEF Run, Fail, Conclude, NextSequence
  <2>2. ReplyInv(c)'
    BY <1>14 DEF Run, Fail, Conclude, NextSequence
  <2>3. QED BY <2>1, <2>2
<1>15. CASE Stamp(c)
  <2>1. GateInv(c)'
    BY <1>15 DEF Stamp, NextSequence
  <2>2. ReplyInv(c)'
    BY <1>15 DEF Stamp, NextSequence
  <2>3. QED BY <2>1, <2>2
<1>16. CASE Publish(c)
  <2>1. GateInv(c)'
    BY <1>16 DEF Publish
  <2>2. ReplyInv(c)'
    BY <1>16 DEF Publish
  <2>3. QED BY <2>1, <2>2
<1>17. QED
  BY <1>2, <1>3, <1>4, <1>5, <1>6, <1>7, <1>8, <1>9, <1>10, <1>11, <1>12, <1>13, <1>14, <1>15, <1>16 DEF CallStep, HandlerStep, UiStep

(* The sequences of c itself: those of earlier calls no longer change, and  *)
(* a sequence drawn now is larger than all of them.                         *)
LEMMA OwnSequence ==
  ASSUME IInv, NEW c \in Calls, CallStep(c)
  PROVE  SequenceInv(c)'
<1>1. TypeOK /\ ReplyInv(c) /\ SequenceInv(c)
  BY DEF IInv
<1>2. Frame(c)
  BY <1>1, FrameStep
<1>3. \A e \in Returned : /\ e \in Returned'
                          /\ replySeq'[e] = replySeq[e]
                          /\ replySeq[e] \in Nat
                          /\ replySeq[e] <= sequence
  BY <1>2 DEF Frame, Returned, IInv, SequenceInv, TypeOK
<1>4. sequence \in Nat /\ replySeq[c] \in Nat /\ outSeq[c] \in Nat
  BY <1>1 DEF TypeOK
<1> USE <1>1, <1>3, <1>4 DEF SequenceInv, callVars, uiVars, handlerVars
<1>5. CASE Refuse(c)
  BY <1>5 DEF TypeOK, Refuse, ReturnError, NextSequence, ReplyInv
<1>6. CASE \E k \in Kinds, b \in -1..MaxBudget : Post(c, k, b)
  BY <1>6 DEF TypeOK, Post
<1>7. CASE CheckRemaining(c)
  BY <1>7 DEF TypeOK, CheckRemaining, Overdue
<1>8. CASE TakeResult(c)
  BY <1>8 DEF TypeOK, TakeResult, ReplyInv
<1>9. CASE WaitExpires(c)
  BY <1>9 DEF TypeOK, WaitExpires
<1>10. CASE CancelPending(c)
  BY <1>10, SMTT(30) DEF TypeOK, CancelPending, CompareExchange, ReturnError, NextSequence
<1>11. CASE AnswerIndeterminate(c)
  BY <1>11, SMTT(30) DEF TypeOK, AnswerIndeterminate, ReturnError, NextSequence
<1>12. CASE Dequeue(c)
  BY <1>12 DEF TypeOK, Dequeue
<1>13. CASE StartRead(c)
  BY <1>13, SMTT(30) DEF TypeOK, StartRead, CompareExchange, Fail, Conclude, NextSequence
<1>14. CASE Validate(c)
  BY <1>14, SMTT(30) DEF TypeOK, Validate, Fail, Conclude, NextSequence
<1>15. CASE Claim(c)
  BY <1>15, SMTT(30) DEF TypeOK, Claim, CompareExchange, Fail, Conclude, NextSequence
<1>16. CASE CheckDeadline(c)
  BY <1>16, SMTT(30) DEF TypeOK, CheckDeadline, Fail, Conclude, NextSequence
<1>17. CASE Run(c)
  BY <1>17, SMTT(30) DEF TypeOK, Run, Fail, Conclude, NextSequence
<1>18. CASE Stamp(c)
  BY <1>18, SMTT(30) DEF TypeOK, Stamp, NextSequence
<1>19. CASE Publish(c)
  BY <1>19 DEF TypeOK, Publish
<1>20. QED
  BY <1>5, <1>6, <1>7, <1>8, <1>9, <1>10, <1>11, <1>12, <1>13, <1>14, <1>15, <1>16, <1>17, <1>18, <1>19 DEF CallStep, HandlerStep, UiStep

(* A step on c keeps the invariant of every other call.                     *)
LEMMA OtherStep ==
  ASSUME IInv, NEW c \in Calls, CallStep(c), NEW d \in Calls \ {c}
  PROVE  GateInv(d)' /\ ReplyInv(d)' /\ SequenceInv(d)'
<1>1. TypeOK /\ GateInv(d) /\ ReplyInv(d) /\ SequenceInv(d)
  BY DEF IInv
<1>2. Frame(c)
  BY <1>1, FrameStep
<1>3. GateInv(d)'
  BY <1>1, <1>2 DEF Frame, GateInv
<1>4. ReplyInv(d)'
  BY <1>1, <1>2 DEF Frame, ReplyInv
<1>5. \A e \in Returned : e \in Returned' /\ replySeq'[e] = replySeq[e]
  BY <1>2 DEF Frame, Returned
<1>6. SequenceInv(d)'
  <2>1. /\ replySeq'[d] = replySeq[d] /\ outSeq'[d] = outSeq[d]
        /\ handler'[d] = handler[d] /\ stage'[d] = stage[d] /\ earlier'[d] = earlier[d]
        /\ sequence' \in {sequence, sequence + 1}
    BY <1>2 DEF Frame
  <2>2. sequence \in Nat /\ replySeq[d] \in Nat /\ outSeq[d] \in Nat
    BY <1>1 DEF TypeOK
  <2>3. \A e \in earlier[d] : replySeq'[e] = replySeq[e]
    BY <1>1, <1>5 DEF SequenceInv
  <2>4. QED
    BY <1>1, <1>5, <2>1, <2>2, <2>3 DEF SequenceInv
<1>7. QED BY <1>3, <1>4, <1>6

(* The queue gains only a task that was not in it and loses only its head.  *)
LEMMA QueueStep ==
  ASSUME IInv, NEW c \in Calls, CallStep(c)
  PROVE  QueueInv'
<1>1. TypeOK /\ QueueInv /\ GateInv(c) /\ ReplyInv(c)
  BY DEF IInv
<1>2. Frame(c)
  BY <1>1, FrameStep
<1>3. CASE \E k \in Kinds, b \in -1..MaxBudget : Post(c, k, b)
  <2>1. stage[c] = "absent" /\ stage'[c] = "queued" /\ queue' = Append(queue, c)
    BY <1>1, <1>3 DEF Post, ReplyInv, TypeOK
  <2>2. \A i \in 1..Len(queue) : queue[i] \in Calls /\ queue[i] # c
    <3>1. queue \in Seq(Calls)
      BY <1>1 DEF TypeOK
    <3>2. QED BY <1>1, <2>1, <3>1 DEF QueueInv
  <2>3. /\ Len(queue') = Len(queue) + 1
        /\ queue'[Len(queue) + 1] = c
        /\ \A i \in 1..Len(queue) : queue'[i] = queue[i]
        /\ Len(queue) \in Nat
    BY <1>1, <2>1 DEF TypeOK
  <2>4. QED
    BY <1>1, <1>2, <2>1, <2>2, <2>3 DEF QueueInv, Frame
<1>4. CASE Dequeue(c)
  <2>1. queue # <<>> /\ c = Head(queue) /\ queue' = Tail(queue) /\ queue \in Seq(Calls)
    BY <1>1, <1>4 DEF Dequeue, TypeOK
  <2>2. /\ Len(queue) \in Nat \ {0}
        /\ queue[1] = c
        /\ Len(queue') = Len(queue) - 1
        /\ \A i \in 1..Len(queue') : queue'[i] = queue[i + 1]
        /\ \A i \in 1..Len(queue) : queue[i] \in Calls
    BY <2>1
  <2>3. \A i \in 1..Len(queue') : queue'[i] \in Calls \ {c} /\ stage[queue'[i]] = "queued"
    BY <1>1, <2>2 DEF QueueInv
  <2>4. QED
    BY <1>1, <1>2, <2>2, <2>3, SMTT(30) DEF QueueInv, Frame
<1>5. CASE queue' = queue /\ stage[c] # "queued"
  <2>1. \A i \in 1..Len(queue) : queue[i] \in Calls \ {c}
    <3>1. queue \in Seq(Calls)
      BY <1>1 DEF TypeOK
    <3>2. QED BY <1>1, <1>5, <3>1 DEF QueueInv
  <2>2. QED
    BY <1>1, <1>2, <1>5, <2>1 DEF QueueInv, Frame
<1>6. CASE queue' = queue /\ stage' = stage
  BY <1>1, <1>6 DEF QueueInv
<1>7. CASE Refuse(c) \/ HandlerStep(c)
  <2>1. queue' = queue /\ stage' = stage
    BY <1>7 DEF Refuse, HandlerStep, CheckRemaining, TakeResult, WaitExpires, CancelPending, AnswerIndeterminate, uiVars
  <2>2. QED BY <1>6, <2>1
<1>8. CASE UiStep(c) /\ ~Dequeue(c)
  <2>1. queue' = queue /\ stage[c] # "queued"
    BY <1>8 DEF UiStep, StartRead, Validate, Claim, CheckDeadline, Run, Stamp, Publish
  <2>2. QED BY <1>5, <2>1
<1>9. QED
  BY <1>3, <1>4, <1>7, <1>8 DEF CallStep

-----------------------------------------------------------------------------
\* The invariant holds at the start.
LEMMA InitInvariant == Init => IInv
<1> SUFFICES ASSUME Init PROVE IInv
  OBVIOUS
<1>1. TypeOK
  BY BoundsAssumption DEF Init, TypeOK, Kinds, HandlerStates, Stages
<1>2. QueueInv
  BY DEF Init, QueueInv
<1>3. ASSUME NEW c \in Calls PROVE GateInv(c) /\ ReplyInv(c) /\ SequenceInv(c)
  <2>1. /\ handler[c] = "idle" /\ stage[c] = "absent" /\ gate[c] = "Pending"
        /\ performed[c] = 0 /\ reply[c] = "none" /\ ~complete[c]
        /\ replySeq[c] = 0 /\ outSeq[c] = 0 /\ sequence = 0 /\ earlier[c] = {}
    BY DEF Init
  <2>2. QED
    BY <2>1 DEF GateInv, ReplyInv, SequenceInv, SettledReplies
<1>4. QED BY <1>1, <1>2, <1>3 DEF IInv

\* Every step keeps the invariant.
LEMMA StepInvariant == IInv /\ [Next]_vars => IInv'
<1> SUFFICES ASSUME IInv, [Next]_vars PROVE IInv'
  OBVIOUS
<1>1. TypeOK'
  BY TypeStep DEF IInv
<1>2. CASE UNCHANGED vars \/ Tick
  BY <1>1, <1>2 DEF IInv, QueueInv, GateInv, ReplyInv, SequenceInv, Returned, Tick, vars, callVars, uiVars, handlerVars
<1>3. ASSUME NEW c \in Calls, CallStep(c) PROVE IInv'
  <2>1. QueueInv'
    BY <1>3, QueueStep
  <2>2. GateInv(c)' /\ ReplyInv(c)' /\ SequenceInv(c)'
    BY <1>3, OwnStep, OwnSequence
  <2>3. \A d \in Calls \ {c} : GateInv(d)' /\ ReplyInv(d)' /\ SequenceInv(d)'
    BY <1>3, OtherStep
  <2>4. QED BY <1>1, <2>1, <2>2, <2>3 DEF IInv
<1>4. QED
  BY <1>2, <1>3 DEF Next, CallStep

\* The inductive invariant holds in every behaviour of the dispatch.
LEMMA Invariance == Spec => []IInv
  BY InitInvariant, StepInvariant, PTL DEF Spec

(* The variables keep their types, for any number of calls.                 *)
THEOREM TypeCorrect == Spec => []TypeOK
<1>1. IInv => TypeOK
  BY DEF IInv
<1>2. QED BY <1>1, Invariance, PTL

(* A call answered "refused", "timeout" or "unchanged" has not run: the     *)
(* promise run_ui_operation makes through the gate.                         *)
THEOREM SettledNeverRuns == Spec => []SettledNeverPerformed
<1>1. IInv => SettledNeverPerformed
  BY DEF IInv, GateInv, ReplyInv, SettledReplies, SettledNeverPerformed
<1>2. QED BY <1>1, Invariance, PTL

(* No mutation runs on a claim granted at or after its deadline.            *)
THEOREM DeadlineIsHonoured == Spec => []DeadlineHonoured
<1>1. IInv => DeadlineHonoured
  BY DEF IInv, GateInv, DeadlineHonoured
<1>2. QED BY <1>1, Invariance, PTL

(* The event sequence a caller sees grows from each call to the next.       *)
THEOREM SequenceIsCausal == Spec => []SequenceCausal
<1>1. IInv => SequenceCausal
  BY DEF IInv, SequenceInv, SequenceCausal
<1>2. QED BY <1>1, Invariance, PTL
-----------------------------------------------------------------------------
(* Refinement.  Every step is one step of VendorCall on the same call, or a *)
(* stutter.                                                                 *)

Bar == [c \in Calls |-> AnswerOf(c)]

\* The initial states map to initial states of the promise.
LEMMA InitRefines == Init => Promise!Init
  BY DEF Init, Promise!Init, AnswerOf

\* What the abstract call c sees of a step is decided by c's own variables.
LEMMA BarStep ==
  ASSUME TypeOK, NEW c \in Calls, CallStep(c)
  PROVE  /\ Bar' = [Bar EXCEPT ![c] = AnswerOf(c)']
         /\ performed' = [performed EXCEPT ![c] = performed'[c]]
<1>1. Frame(c)
  BY FrameStep
<1>2. \A d \in Calls \ {c} : AnswerOf(d)' = AnswerOf(d)
  BY <1>1 DEF Frame, AnswerOf
<1>3. performed \in [Calls -> Nat] /\ performed' \in [Calls -> Nat]
  BY TypeStep DEF TypeOK, Next, CallStep
<1>4. QED
  BY <1>1, <1>2, <1>3 DEF Bar, Frame

\* Every step of a call maps to a step of the promise or to none.
LEMMA CallStepRefines ==
  ASSUME IInv, NEW c \in Calls, CallStep(c)
  PROVE  \/ Promise!Open(c)
         \/ Promise!Perform(c)
         \/ \E a \in Promise!Answers : Promise!Answer(c, a)
         \/ UNCHANGED Promise!vars
<1>1. TypeOK /\ GateInv(c) /\ ReplyInv(c)
  BY DEF IInv
<1>2. /\ Bar' = [Bar EXCEPT ![c] = AnswerOf(c)']
      /\ performed' = [performed EXCEPT ![c] = performed'[c]]
  BY <1>1, BarStep
<1>3. Bar[c] = AnswerOf(c) /\ DOMAIN Bar = Calls /\ performed \in [Calls -> Nat]
  BY <1>1 DEF Bar, TypeOK
<1>4. CASE AnswerOf(c)' = AnswerOf(c) /\ performed'[c] = performed[c]
  <2>1. Bar' = Bar /\ performed' = performed
    BY <1>2, <1>3, <1>4 DEF Bar
  <2>2. QED
    BY <2>1 DEF Promise!vars, Bar
<1>5. \A a \in Promise!Answers :
         /\ AnswerOf(c) = "open" \/ (AnswerOf(c) = "idle" /\ a = "refused")
         /\ AnswerOf(c)' = a
         /\ a = "ok" => performed[c] = 1
         /\ a \in SettledReplies => performed[c] = 0
         /\ performed'[c] = performed[c]
         => Promise!Answer(c, a)
  BY <1>2, <1>3 DEF Promise!Answer, Promise!Settled, SettledReplies, Bar
<1>6. CASE Refuse(c)
  <2>1. AnswerOf(c) = "idle" /\ AnswerOf(c)' = "refused"
    BY <1>1, <1>6 DEF TypeOK, Refuse, ReturnError, AnswerOf
  <2>2. performed[c] = 0 /\ performed'[c] = 0
    BY <1>1, <1>6 DEF Refuse, ReplyInv, uiVars
  <2>3. QED
    BY <1>5, <2>1, <2>2 DEF Promise!Answers, Promise!Settled
<1>7. CASE \E k \in Kinds, b \in -1..MaxBudget : Post(c, k, b)
  <2>1. AnswerOf(c) = "idle" /\ AnswerOf(c)' = "open" /\ performed' = performed
    BY <1>1, <1>7 DEF TypeOK, Post, AnswerOf
  <2>2. QED
    BY <1>2, <1>3, <2>1 DEF Promise!Open, Bar
<1>8. CASE CheckRemaining(c) \/ WaitExpires(c)
  <2>1. AnswerOf(c) = "open" /\ AnswerOf(c)' = "open" /\ performed' = performed
    BY <1>1, <1>8 DEF TypeOK, CheckRemaining, Overdue, WaitExpires, AnswerOf, uiVars
  <2>2. QED BY <1>4, <2>1
<1>9. CASE TakeResult(c)
  <2>1. AnswerOf(c) = "open" /\ AnswerOf(c)' = outcome[c]
    BY <1>1, <1>9 DEF TypeOK, TakeResult, AnswerOf, uiVars
  <2>2. /\ outcome[c] \in Outcomes
        /\ outcome[c] = "ok" => performed[c] = 1
        /\ outcome[c] \in SettledReplies => performed[c] = 0
    BY <1>1, <1>9 DEF TakeResult, GateInv, ReplyInv
  <2>3. outcome[c] \in Promise!Answers
    BY <2>2 DEF Promise!Answers, Promise!Settled, Outcomes
  <2>4. performed'[c] = performed[c]
    BY <1>9 DEF TakeResult, uiVars
  <2>5. Promise!Answer(c, outcome[c])
    BY <1>5, <2>1, <2>2, <2>3, <2>4
  <2>6. QED BY <2>3, <2>5
<1>10. CASE CancelPending(c)
  <2>1. AnswerOf(c) = "open" /\ AnswerOf(c)' = "timeout"
    BY <1>1, <1>10 DEF TypeOK, CancelPending, ReturnError, AnswerOf, uiVars
  <2>2. performed[c] = 0 /\ performed'[c] = 0
    BY <1>1, <1>10 DEF CancelPending, CompareExchange, GateInv, uiVars
  <2>3. QED
    BY <1>5, <2>1, <2>2 DEF Promise!Answers, Promise!Settled
<1>11. CASE AnswerIndeterminate(c)
  <2>1. AnswerOf(c) = "open" /\ AnswerOf(c)' = "indeterminate"
    BY <1>1, <1>11 DEF TypeOK, AnswerIndeterminate, ReturnError, AnswerOf, uiVars
  <2>2. performed'[c] = performed[c]
    BY <1>11 DEF AnswerIndeterminate, uiVars
  <2>3. QED
    BY <1>5, <2>1, <2>2 DEF Promise!Answers, SettledReplies
<1>12. CASE UiStep(c)
  <2>1. AnswerOf(c)' = AnswerOf(c)
    BY <1>12 DEF UiStep, Dequeue, StartRead, Validate, Claim, CheckDeadline, Run, Stamp, Publish, AnswerOf, handlerVars
  <2>2. CASE performed'[c] = performed[c]
    BY <1>4, <2>1, <2>2
  <2>3. CASE performed'[c] # performed[c]
    <3>1. Run(c)
      BY <1>12, <2>3 DEF UiStep, Dequeue, StartRead, Validate, Claim, CheckDeadline, Stamp, Publish
    <3>2. performed[c] = 0 /\ performed'[c] = 1 /\ stage[c] = "run" /\ gate[c] = "Started"
      BY <1>1, <2>3, <3>1 DEF Run, GateInv, TypeOK
    <3>3. AnswerOf(c) \in {"open", "indeterminate"}
      BY <1>1, <3>2 DEF ReplyInv, AnswerOf, TypeOK, Replies, Outcomes, SettledReplies, HandlerStates
    <3>4. Bar' = Bar
      BY <1>2, <1>3, <2>1 DEF Bar
    <3>5. QED
      BY <1>2, <1>3, <3>2, <3>3, <3>4 DEF Promise!Perform, Bar
  <2>4. QED BY <2>2, <2>3
<1>13. QED
  BY <1>6, <1>7, <1>8, <1>9, <1>10, <1>11, <1>12 DEF CallStep, HandlerStep

(* The two-thread dispatch keeps the promise of VendorCall: one answer, at  *)
(* most one run, and none at all once the caller was told there is none.    *)
THEOREM Refinement == Spec => ImplementsVendorCall
<1>1. IInv /\ [Next]_vars => [Promise!Next]_(Promise!vars)
  <2> SUFFICES ASSUME IInv, [Next]_vars PROVE [Promise!Next]_(Promise!vars)
    OBVIOUS
  <2>1. CASE UNCHANGED vars \/ Tick
    <3>1. UNCHANGED Promise!vars
      BY <2>1 DEF Promise!vars, AnswerOf, Tick, vars, uiVars, handlerVars
    <3>2. QED BY <3>1
  <2>2. ASSUME NEW c \in Calls, CallStep(c) PROVE [Promise!Next]_(Promise!vars)
    BY <2>2, CallStepRefines DEF Promise!Next
  <2>3. QED
    BY <2>1, <2>2 DEF Next, CallStep
<1>2. QED
  BY <1>1, InitRefines, Invariance, PTL DEF Spec, ImplementsVendorCall, Promise!Spec

=============================================================================
