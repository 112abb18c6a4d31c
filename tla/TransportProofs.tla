--------------------------- MODULE TransportProofs ---------------------------
(***************************************************************************)
(* Proofs about Transport for any set of callers and any bounds.  The      *)
(* inductive invariant IInv says what lies in the inbox (InboxInv: every   *)
(* response is what the plugin answered, and there is one per call at      *)
(* most), and, call by call, what a thread knows of the other end: before  *)
(* it has sent anything nothing of it is on its way (CallInv), and a call  *)
(* that is over has nothing to come on the connection that is kept, unless *)
(* it was interrupted (LeftClean).                                         *)
(***************************************************************************)
EXTENDS Transport, SequenceTheorems, TLAPS

Answers == {"refused", "timeout", "unchanged", "ok", "failed", "indeterminate"}
Settled == {"refused", "timeout", "unchanged"}
States == {"idle", "locking", "done"} \cup Holding
Results == Answers \cup ErrorCodes \cup {"interrupted", "none"}
Responses == [kind : {"response"}, id : Callers, body : Answers \cup {"rejected"}]

\* Where a thread is before on_send_attempt.
Before == {"idle", "locking", "connect", "handshake", "prepare"}

\* A response for c waits to be read.
Pending(c) == \E i \in DOMAIN inbox : inbox[i].kind = "response" /\ inbox[i].id = c

TypeInv ==
    /\ socket \in Nat /\ opened \in Nat /\ socket <= opened
    /\ inbox \in Seq(Responses \cup Noise)
    /\ pc \in [Callers -> States]
    /\ mutating \in [Callers -> BOOLEAN]
    /\ sent \in [Callers -> BOOLEAN]
    /\ result \in [Callers -> Results]
    /\ via \in [Callers -> Nat]
    /\ travelling \subseteq Callers
    /\ answer \in [Callers -> Answers \cup {"idle", "open"}]
    /\ performed \in [Callers -> {0, 1}]

InboxInv ==
    /\ \A i \in DOMAIN inbox : inbox[i].kind = "response" =>
          answer[inbox[i].id] = IF inbox[i].body = "rejected" THEN "refused"
                                ELSE inbox[i].body
    /\ \A i, j \in DOMAIN inbox :
          inbox[i].kind = "response" /\ inbox[j].kind = "response"
          /\ inbox[i].id = inbox[j].id => i = j

LeftClean(c) ==
    socket # 0 /\ via[c] = socket /\ pc[c] \notin Holding =>
        \/ result[c] = "interrupted"
        \/ c \notin travelling /\ answer[c] \in Answers /\ ~Pending(c)

CallInv(c) ==
    /\ via[c] <= opened
    /\ pc[c] = "done" <=> result[c] # "none"
    /\ pc[c] \in Before => ~sent[c]
    /\ pc[c] \in {"sending", "receiving", "recv"} => sent[c]
    /\ ~sent[c] => /\ via[c] = 0
                   /\ c \notin travelling
                   /\ answer[c] = "idle"
    /\ pc[c] = "sending" => c \notin travelling /\ answer[c] = "idle"
    /\ c \in travelling => answer[c] = "idle"
    /\ answer[c] = "idle" => performed[c] = 0
    /\ answer[c] = "ok" => performed[c] = 1
    /\ answer[c] \in Settled => performed[c] = 0
    /\ result[c] \in Answers \ {"indeterminate"} => result[c] = answer[c]
    /\ result[c] \in ErrorCodes /\ mutating[c] => ~sent[c]

IInv == /\ TypeInv
        /\ InboxInv
        /\ \A c \in Callers : CallInv(c) /\ LeftClean(c)

\* A step that a thread takes, or that is taken for it at the other end.
StepOf(c) == \/ \E m \in BOOLEAN, b \in 0..MaxBudget : Call(c, m, b)
             \/ CallerStep(c)
             \/ Environment(c)

-----------------------------------------------------------------------------
(* The inbox.                                                              *)

\* Both modules speak of the same answers.
LEMMA AnswersFact == /\ Plugin!Answers = Answers
                     /\ Plugin!Settled = Settled
                     /\ Codes \subseteq Answers
  BY CodesAssumption DEF Plugin!Answers, Plugin!Settled, Answers, Settled

(* What a response at the front of the inbox is.                           *)
LEMMA FrontFact ==
    ASSUME TypeInv, InboxInv, inbox # <<>>, Head(inbox).kind = "response"
    PROVE  /\ Head(inbox).id \in Callers
           /\ Head(inbox).body \in Answers \cup {"rejected"}
           /\ Head(inbox).body # "rejected"
              => answer[Head(inbox).id] = Head(inbox).body
<1>1. 1 \in DOMAIN inbox /\ Head(inbox) = inbox[1]
  BY DEF TypeInv
<1>2. inbox[1] \in Responses
  <2>1. inbox[1] \in Responses \cup Noise
    BY <1>1 DEF TypeInv
  <2>2. QED
    BY <1>1, <2>1 DEF Noise
<1>3. QED
  BY <1>1, <1>2 DEF InboxInv, Responses

(* Reading a frame brings nothing new, and takes the only response of its  *)
(* call.                                                                   *)
LEMMA ReadFrame ==
    ASSUME TypeInv, InboxInv, inbox # <<>>, inbox' = Tail(inbox), answer' = answer
    PROVE  /\ inbox' \in Seq(Responses \cup Noise)
           /\ InboxInv'
           /\ \A d \in Callers : Pending(d)' => Pending(d)
           /\ \A d \in Callers : Head(inbox).kind = "response" /\ Head(inbox).id = d
                                 => ~Pending(d)'
<1>1. /\ Len(inbox) \in Nat \ {0} /\ DOMAIN inbox = 1..Len(inbox)
      /\ Head(inbox) = inbox[1] /\ 1 \in DOMAIN inbox
  BY DEF TypeInv
<1>2. /\ inbox' \in Seq(Responses \cup Noise)
      /\ DOMAIN inbox' = 1..(Len(inbox) - 1)
      /\ \A i \in DOMAIN inbox' : inbox'[i] = inbox[i + 1] /\ i + 1 \in DOMAIN inbox
  BY <1>1 DEF TypeInv
<1>3. InboxInv'
  <2>1. \A i \in DOMAIN inbox' : inbox'[i].kind = "response" =>
            answer'[inbox'[i].id] = IF inbox'[i].body = "rejected" THEN "refused"
                                    ELSE inbox'[i].body
    BY <1>2 DEF InboxInv
  <2>2. ASSUME NEW i \in DOMAIN inbox', NEW j \in DOMAIN inbox',
               inbox'[i].kind = "response", inbox'[j].kind = "response",
               inbox'[i].id = inbox'[j].id
        PROVE  i = j
    <3>1. i + 1 = j + 1
      BY <1>2, <2>2 DEF InboxInv
    <3>2. i \in Nat /\ j \in Nat
      BY <1>1, <1>2
    <3>3. QED
      BY <3>1, <3>2
  <2>3. QED
    BY <2>1, <2>2 DEF InboxInv
<1>4. \A d \in Callers : Pending(d)' => Pending(d)
  BY <1>2 DEF Pending
<1>5. ASSUME NEW d \in Callers, Head(inbox).kind = "response", Head(inbox).id = d,
             Pending(d)'
      PROVE  FALSE
  <2>1. PICK i \in DOMAIN inbox' : /\ inbox'[i].kind = "response"
                                   /\ inbox'[i].id = Head(inbox).id
    BY <1>5 DEF Pending
  <2>2. 1 = i + 1
    BY <1>1, <1>2, <1>5, <2>1 DEF InboxInv
  <2>3. i \in Nat /\ i >= 1
    BY <1>1, <1>2, <2>1
  <2>4. QED
    BY <2>2, <2>3
<1>6. QED
  BY <1>2, <1>3, <1>4, <1>5

(* A frame is appended: noise, or the first response to a call, with the   *)
(* answer that the plugin gives in the same step.                          *)
LEMMA NewFrame ==
    ASSUME TypeInv, InboxInv, NEW m \in Responses \cup Noise,
           inbox' = Append(inbox, m),
           \A d \in Callers : Pending(d) => answer'[d] = answer[d],
           m.kind = "response" =>
               /\ ~Pending(m.id)
               /\ answer'[m.id] = IF m.body = "rejected" THEN "refused" ELSE m.body
    PROVE  /\ inbox' \in Seq(Responses \cup Noise)
           /\ InboxInv'
           /\ \A d \in Callers : Pending(d)' => \/ Pending(d)
                                                \/ m.kind = "response" /\ m.id = d
<1>1. /\ Len(inbox) \in Nat /\ DOMAIN inbox = 1..Len(inbox)
      /\ \A i \in DOMAIN inbox : inbox[i] \in Responses \cup Noise
  BY DEF TypeInv
<1>2. /\ inbox' \in Seq(Responses \cup Noise)
      /\ DOMAIN inbox' = 1..(Len(inbox) + 1)
      /\ \A i \in DOMAIN inbox : inbox'[i] = inbox[i] /\ i \in DOMAIN inbox'
      /\ inbox'[Len(inbox) + 1] = m
  BY <1>1 DEF TypeInv
<1>3. \A i \in DOMAIN inbox' : i \in DOMAIN inbox \/ i = Len(inbox) + 1
  BY <1>1, <1>2
<1>4. ASSUME NEW i \in DOMAIN inbox, inbox[i].kind = "response"
      PROVE  /\ inbox[i].id \in Callers
             /\ Pending(inbox[i].id)
             /\ answer'[inbox[i].id] = answer[inbox[i].id]
  <2>1. inbox[i] \in Responses
    BY <1>1, <1>4 DEF Noise
  <2>2. inbox[i].id \in Callers /\ Pending(inbox[i].id)
    BY <1>4, <2>1 DEF Responses, Pending
  <2>3. QED
    BY <2>2
<1>5. \A i \in DOMAIN inbox' : inbox'[i].kind = "response" =>
          answer'[inbox'[i].id] = IF inbox'[i].body = "rejected" THEN "refused"
                                  ELSE inbox'[i].body
  BY <1>2, <1>3, <1>4 DEF InboxInv
<1>6. ASSUME NEW i \in DOMAIN inbox', NEW j \in DOMAIN inbox',
             inbox'[i].kind = "response", inbox'[j].kind = "response",
             inbox'[i].id = inbox'[j].id
      PROVE  i = j
  <2>1. CASE i \in DOMAIN inbox /\ j \in DOMAIN inbox
    BY <1>2, <1>6, <2>1 DEF InboxInv
  <2>2. CASE i \in DOMAIN inbox /\ j = Len(inbox) + 1
    <3>1. inbox[i].kind = "response" /\ Pending(inbox[i].id)
      BY <1>2, <1>4, <1>6, <2>2
    <3>2. QED
      BY <1>2, <1>6, <2>2, <3>1
  <2>3. CASE j \in DOMAIN inbox /\ i = Len(inbox) + 1
    <3>1. inbox[j].kind = "response" /\ Pending(inbox[j].id)
      BY <1>2, <1>4, <1>6, <2>3
    <3>2. QED
      BY <1>2, <1>6, <2>3, <3>1
  <2>4. QED
    BY <1>3, <2>1, <2>2, <2>3
<1>7. InboxInv'
  BY <1>5, <1>6 DEF InboxInv
<1>8. ASSUME NEW d \in Callers, Pending(d)'
      PROVE  Pending(d) \/ (m.kind = "response" /\ m.id = d)
  BY <1>2, <1>3, <1>8 DEF Pending
<1>9. QED
  BY <1>2, <1>7, <1>8

(* A call that a response waits for has been answered.                     *)
LEMMA PendingAnswered ==
    ASSUME TypeInv, InboxInv, NEW c \in Callers, Pending(c)
    PROVE  answer[c] \in Answers
<1>1. PICK i \in DOMAIN inbox : inbox[i].kind = "response" /\ inbox[i].id = c
  BY DEF Pending
<1>2. inbox[i] \in Responses
  <2>1. inbox[i] \in Responses \cup Noise
    BY DEF TypeInv
  <2>2. QED
    BY <1>1, <2>1 DEF Noise
<1>3. inbox[i].body \in Answers \cup {"rejected"}
  BY <1>2 DEF Responses
<1>4. QED
  BY <1>1, <1>3 DEF InboxInv, Answers

-----------------------------------------------------------------------------
(* What a step for c does to the rest.                                     *)

\* Nothing of the other calls changes.
OthersKeep(c) ==
    \A d \in Callers \ {c} :
        /\ pc'[d] = pc[d] /\ mutating'[d] = mutating[d] /\ sent'[d] = sent[d]
        /\ result'[d] = result[d] /\ via'[d] = via[d]
        /\ answer'[d] = answer[d] /\ performed'[d] = performed[d]
        /\ d \in travelling' <=> d \in travelling

\* The connection is kept, dropped or made anew.
ConnectionStep == \/ socket' = socket /\ opened' = opened
                  \/ socket' = 0 /\ opened' = opened
                  \/ socket' = opened + 1 /\ opened' = opened + 1

\* A step of one caller leaves the others as they are, and the connection in one of a
\* few ways.
LEMMA OthersStep ==
    ASSUME TypeInv, NEW c \in Callers, StepOf(c)
    PROVE  OthersKeep(c) /\ ConnectionStep
<1> USE DEF TypeInv, OthersKeep, ConnectionStep, Go, Return, Fail, Disconnect,
            OnlyGo, connVars, callVars, callerVars, pluginVars
<1>1. CASE \E m \in BOOLEAN, b \in 0..MaxBudget : Call(c, m, b)
  BY <1>1 DEF Call
<1>2. CASE Acquire(c) \/ AcquireTimesOut(c) \/ PrepareTimesOut(c) \/ Connect(c)
           \/ Handshake(c) \/ ConnectFails(c)
  BY <1>2 DEF Acquire, AcquireTimesOut, PrepareTimesOut, Connect, Handshake, ConnectFails
<1>3. CASE MarkSent(c) \/ Send(c) \/ SendFails(c)
  BY <1>3 DEF MarkSent, Send, SendFails
<1>4. CASE BeginRecv(c) \/ RecvTimesOut(c) \/ RecvBreaks(c) \/ Receive(c)
  BY <1>4 DEF BeginRecv, RecvTimesOut, RecvBreaks, Receive
<1>5. CASE Interrupt(c) \/ Deliver(c) \/ Lose(c)
  BY <1>5 DEF Interrupt, Deliver, Lose, Plugin!Open, Plugin!Answer
<1>6. CASE PluginPerforms(c) \/ \E a \in Codes : PluginAnswers(c, a)
  BY <1>6 DEF PluginPerforms, PluginAnswers, Plugin!Perform, Plugin!Answer
<1>7. QED
  BY <1>1, <1>2, <1>3, <1>4, <1>5, <1>6 DEF StepOf, CallerStep, Environment

\* A step for c may bring a response to c, and takes none of another call.
InboxStep(c) ==
    /\ inbox' \in Seq(Responses \cup Noise)
    /\ InboxInv'
    /\ \A d \in Callers \ {c} : Pending(d)' => Pending(d)

\* A step that adds nothing to the inbox keeps what is known of it.
LEMMA InboxKept ==
    ASSUME TypeInv, InboxInv, NEW c \in Callers, OthersKeep(c),
           answer'[c] = answer[c] \/ answer[c] \notin Answers,
           answer' \in [Callers -> Answers \cup {"idle", "open"}],
           inbox' = inbox \/ inbox' = <<>>
    PROVE  InboxStep(c)
<1>1. ASSUME NEW i \in DOMAIN inbox, inbox[i].kind = "response"
      PROVE  answer'[inbox[i].id] = answer[inbox[i].id]
  <2>1. inbox[i] \in Responses
    <3>1. inbox[i] \in Responses \cup Noise
      BY DEF TypeInv
    <3>2. QED
      BY <1>1, <3>1 DEF Noise
  <2>2. inbox[i].id \in Callers /\ Pending(inbox[i].id)
    BY <1>1, <2>1 DEF Responses, Pending
  <2>3. answer[inbox[i].id] \in Answers
    BY <2>2, PendingAnswered
  <2>4. QED
    BY <2>2, <2>3 DEF OthersKeep
<1>2. CASE inbox' = inbox
  BY <1>1, <1>2 DEF InboxStep, InboxInv, Pending, TypeInv
<1>3. CASE inbox' = <<>>
  BY <1>3 DEF InboxStep, InboxInv, Pending
<1>4. QED
  BY <1>2, <1>3

(* The answer of the plugin to a call that had none reaches the inbox or   *)
(* does not.                                                               *)
LEMMA InboxAnswered ==
    ASSUME TypeInv, InboxInv, NEW c \in Callers, OthersKeep(c),
           answer[c] \in {"idle", "open"},
           answer' \in [Callers -> Answers \cup {"idle", "open"}],
           NEW body \in Answers \cup {"rejected"}, Respond(c, body),
           answer'[c] = IF body = "rejected" THEN "refused" ELSE body
    PROVE  InboxStep(c)
<1>1. answer[c] \notin Answers
  BY DEF Answers
<1>2. CASE inbox' = inbox
  BY <1>1, <1>2, InboxKept
<1>3. CASE inbox' # inbox
  <2> DEFINE m == [kind |-> "response", id |-> c, body |-> body]
  <2>1. inbox' = Append(inbox, m)
    BY <1>3 DEF Respond
  <2>2. m \in Responses \cup Noise /\ m.kind = "response" /\ m.id = c /\ m.body = body
    BY DEF Responses
  <2>3. ~Pending(c)
    BY <1>1, PendingAnswered
  <2>4. \A d \in Callers : Pending(d) => answer'[d] = answer[d]
    BY <2>3 DEF OthersKeep
  <2> HIDE DEF m
  <2>5. /\ inbox' \in Seq(Responses \cup Noise)
        /\ InboxInv'
        /\ \A d \in Callers : Pending(d)' => Pending(d) \/ d = c
    BY <2>1, <2>2, <2>3, <2>4, NewFrame
  <2>6. QED
    BY <2>5 DEF InboxStep
<1>4. QED
  BY <1>2, <1>3

\* The types of all but the inbox.
CallerTypes ==
    /\ socket \in Nat /\ opened \in Nat /\ socket <= opened
    /\ pc \in [Callers -> States]
    /\ mutating \in [Callers -> BOOLEAN]
    /\ sent \in [Callers -> BOOLEAN]
    /\ result \in [Callers -> Results]
    /\ via \in [Callers -> Nat]
    /\ travelling \subseteq Callers
    /\ answer \in [Callers -> Answers \cup {"idle", "open"}]
    /\ performed \in [Callers -> {0, 1}]

(* The names the steps use are members of their enumerations.              *)
LEMMA MembersFact ==
    /\ \A state \in {"locking", "connect", "handshake", "prepare", "sending",
                     "receiving", "recv", "done"} : state \in States
    /\ \A r \in {"OBS_TIMEOUT", "error", "interrupted", "indeterminate"} : r \in Results
    /\ \A a \in Answers : a \in Results
    /\ \A a \in Answers \cup {"open"} : a \in Answers \cup {"idle", "open"}
    /\ "refused" \in Answers
  BY DEF States, Holding, Results, ErrorCodes, Answers

\* The variables that belong to a caller keep their types.
LEMMA TypeStep ==
    ASSUME TypeInv, InboxInv, NEW c \in Callers, StepOf(c)
    PROVE  CallerTypes'
<1>1. CallerTypes
  BY DEF TypeInv, CallerTypes
<1> USE DEF CallerTypes, Go, Return, Disconnect, OnlyGo, connVars, callVars,
            callerVars, pluginVars
<1>2. ASSUME NEW code \in {"OBS_TIMEOUT", "error"}, Fail(c, code) PROVE CallerTypes'
  BY <1>1, <1>2, MembersFact DEF Fail, RaisedCode
<1>3. CASE \E m \in BOOLEAN, b \in 0..MaxBudget : Call(c, m, b)
  BY <1>1, <1>3, MembersFact DEF Call
<1>4. CASE Acquire(c) \/ AcquireTimesOut(c) \/ Connect(c) \/ Handshake(c)
  BY <1>1, <1>4, MembersFact DEF Acquire, AcquireTimesOut, Connect, Handshake
<1>5. CASE PrepareTimesOut(c) \/ ConnectFails(c) \/ RecvTimesOut(c) \/ RecvBreaks(c)
  BY <1>2, <1>5 DEF PrepareTimesOut, ConnectFails, RecvTimesOut, RecvBreaks
<1>6. CASE MarkSent(c)
  BY <1>1, <1>6, MembersFact DEF MarkSent
<1>7. CASE Send(c)
  BY <1>1, <1>7, MembersFact DEF Send
<1>8. CASE SendFails(c)
  BY <1>1, <1>8, MembersFact DEF SendFails, RaisedCode
<1>9. CASE BeginRecv(c)
  BY <1>1, <1>2, <1>9, MembersFact DEF BeginRecv
<1>10. CASE Receive(c)
  <2>1. CASE /\ Head(inbox).kind = "response" /\ Head(inbox).body # "rejected"
             /\ Return(c, Head(inbox).body)
             /\ UNCHANGED <<now, socket, opened, broken, callVars, sent, skipped,
                            via, travelling, pluginVars>>
    <3>1. Head(inbox).body \in Answers
      BY <1>10, <2>1, FrontFact DEF Receive
    <3>2. QED
      BY <1>1, <2>1, <3>1, MembersFact
  <2>2. CASE Fail(c, "error")
    BY <1>2, <2>2
  <2>3. CASE /\ Go(c, "receiving")
             /\ UNCHANGED <<now, socket, opened, broken, callVars, sent, result,
                            via, travelling, pluginVars>>
    BY <1>1, <2>3, MembersFact
  <2>4. QED
    BY <1>10, <2>1, <2>2, <2>3 DEF Receive
<1>11. CASE Interrupt(c) \/ Lose(c)
  BY <1>1, <1>11, MembersFact DEF Interrupt, Lose
<1>12. CASE Deliver(c)
  BY <1>1, <1>12, MembersFact DEF Deliver, Plugin!Open, Plugin!Answer
<1>13. CASE PluginPerforms(c)
  BY <1>1, <1>13 DEF PluginPerforms, Plugin!Perform
<1>14. ASSUME NEW a \in Codes, PluginAnswers(c, a) PROVE CallerTypes'
  BY <1>1, <1>14, AnswersFact, MembersFact DEF PluginAnswers, Plugin!Answer
<1>15. QED
  BY <1>3, <1>4, <1>5, <1>6, <1>7, <1>8, <1>9, <1>10, <1>11, <1>12, <1>13, <1>14
     DEF StepOf, CallerStep, Environment

\* Every step of a caller keeps what is known of the inbox.
LEMMA InboxStepOf ==
    ASSUME TypeInv, InboxInv, NEW c \in Callers, StepOf(c)
    PROVE  InboxStep(c)
<1>1. OthersKeep(c) /\ CallerTypes'
  BY OthersStep, TypeStep
<1>2. answer' \in [Callers -> Answers \cup {"idle", "open"}]
  BY <1>1 DEF CallerTypes
<1> USE DEF Go, Return, Fail, Disconnect, OnlyGo, connVars, callVars, callerVars,
            pluginVars
<1>3. CASE (inbox' = inbox \/ inbox' = <<>>) /\ answer' = answer
  BY <1>1, <1>2, <1>3, InboxKept
<1>4. CASE Receive(c)
  <2>1. CASE inbox' = Tail(inbox) /\ answer' = answer
    BY <1>4, <2>1, ReadFrame DEF Receive, InboxStep
  <2>2. CASE inbox' = <<>> /\ answer' = answer
    BY <1>3, <2>2
  <2>3. QED
    BY <1>4, <2>1, <2>2 DEF Receive
<1>5. CASE Deliver(c)
  <2>1. CASE Plugin!Open(c) /\ UNCHANGED inbox
    <3>1. answer[c] \notin Answers
      BY <2>1 DEF Plugin!Open, Answers
    <3>2. QED
      BY <1>1, <1>2, <2>1, <3>1, InboxKept
  <2>2. CASE Plugin!Answer(c, "refused") /\ Respond(c, "rejected")
    <3>1. answer[c] \in {"idle", "open"} /\ answer'[c] = "refused"
      BY <2>2 DEF TypeInv, Plugin!Answer
    <3>2. QED
      BY <1>1, <1>2, <2>2, <3>1, InboxAnswered
  <2>3. QED
    BY <1>5, <2>1, <2>2 DEF Deliver
<1>6. ASSUME NEW a \in Codes, PluginAnswers(c, a) PROVE InboxStep(c)
  <2>1. a \in Answers /\ a # "rejected"
    BY AnswersFact DEF Answers
  <2>2. answer[c] \in {"idle", "open"} /\ answer'[c] = a /\ Respond(c, a)
    BY <1>6 DEF TypeInv, PluginAnswers, Plugin!Answer
  <2>3. QED
    BY <1>1, <1>2, <2>1, <2>2, InboxAnswered
<1>7. CASE \E m \in BOOLEAN, b \in 0..MaxBudget : Call(c, m, b)
  BY <1>3, <1>7 DEF Call
<1>8. CASE Acquire(c) \/ AcquireTimesOut(c) \/ PrepareTimesOut(c) \/ Connect(c)
           \/ Handshake(c) \/ ConnectFails(c)
  BY <1>3, <1>8 DEF Acquire, AcquireTimesOut, PrepareTimesOut, Connect, Handshake,
                    ConnectFails
<1>9. CASE MarkSent(c) \/ Send(c) \/ SendFails(c)
  BY <1>3, <1>9 DEF MarkSent, Send, SendFails
<1>10. CASE BeginRecv(c) \/ RecvTimesOut(c) \/ RecvBreaks(c)
  BY <1>3, <1>10 DEF BeginRecv, RecvTimesOut, RecvBreaks
<1>11. CASE Interrupt(c) \/ Lose(c) \/ PluginPerforms(c)
  BY <1>3, <1>11 DEF Interrupt, Lose, PluginPerforms, Plugin!Perform
<1>12. QED
  BY <1>4, <1>5, <1>6, <1>7, <1>8, <1>9, <1>10, <1>11
     DEF StepOf, CallerStep, Environment

-----------------------------------------------------------------------------
(* The calls.                                                              *)

(* A call is not disturbed by a step for another one.                      *)
LEMMA OtherCall ==
    ASSUME TypeInv, NEW c \in Callers, NEW d \in Callers \ {c},
           OthersKeep(c), ConnectionStep, InboxStep(c), CallInv(d), LeftClean(d)
    PROVE  CallInv(d)' /\ LeftClean(d)'
<1>1. via[d] \in Nat /\ opened \in Nat
  BY DEF TypeInv
<1>2. CallInv(d)'
  BY <1>1 DEF OthersKeep, ConnectionStep, CallInv
<1>3. LeftClean(d)'
  BY <1>1 DEF OthersKeep, ConnectionStep, InboxStep, CallInv, LeftClean
<1>4. QED
  BY <1>2, <1>3

\* Every step of a caller keeps what is known of that caller.
LEMMA OwnCall ==
    ASSUME TypeInv, InboxInv, NEW c \in Callers, CallInv(c), LeftClean(c), StepOf(c)
    PROVE  CallInv(c)' /\ LeftClean(c)'
<1> USE DEF TypeInv, CallInv, LeftClean, Go, Return, Fail, Disconnect, RaisedCode,
            OnlyGo, connVars, callVars, callerVars, pluginVars, Holding, Before,
            ErrorCodes, Answers, Settled
<1>2. CASE \E m \in BOOLEAN, b \in 0..MaxBudget : Call(c, m, b)
  BY <1>2 DEF Call
<1>3. CASE Acquire(c) \/ AcquireTimesOut(c) \/ PrepareTimesOut(c) \/ Connect(c)
           \/ Handshake(c) \/ ConnectFails(c)
  BY <1>3 DEF Acquire, AcquireTimesOut, PrepareTimesOut, Connect, Handshake, ConnectFails
<1>4. CASE MarkSent(c) \/ Send(c) \/ SendFails(c)
  BY <1>4 DEF MarkSent, Send, SendFails
<1>5. CASE BeginRecv(c) \/ RecvTimesOut(c) \/ RecvBreaks(c)
  BY <1>5 DEF BeginRecv, RecvTimesOut, RecvBreaks
<1>6. CASE Receive(c)
  <2>1. CASE Head(inbox).kind = "response" /\ Matches(c, Head(inbox))
             /\ Head(inbox).body # "rejected"
    <3>1. answer[c] = Head(inbox).body /\ Head(inbox).id = c
      BY <1>6, <2>1, FrontFact DEF Receive, Matches
    <3>2. answer[c] \in Answers
      BY <1>6, <2>1, <3>1, FrontFact DEF Receive
    <3>3. inbox' = Tail(inbox) => ~Pending(c)'
      BY <1>6, <2>1, <3>1, ReadFrame DEF Receive
    <3>4. QED
      BY <1>6, <2>1, <3>1, <3>2, <3>3 DEF Receive
  <2>2. CASE ~(Head(inbox).kind = "response" /\ Matches(c, Head(inbox))
               /\ Head(inbox).body # "rejected")
    BY <1>6, <2>2 DEF Receive
  <2>3. QED
    BY <2>1, <2>2
<1>7. CASE Interrupt(c)
  BY <1>7 DEF Interrupt
<1>8. CASE Deliver(c) \/ Lose(c)
  BY <1>8 DEF Deliver, Lose, Plugin!Open, Plugin!Answer
<1>9. CASE PluginPerforms(c)
  <2>1. Pending(c)' <=> Pending(c)
    BY <1>9 DEF PluginPerforms, Pending
  <2>2. /\ UNCHANGED <<mutating, pc, sent, result, via, travelling, answer>>
        /\ socket' = socket /\ opened' = opened
        /\ answer[c] \in {"open", "indeterminate"} /\ performed'[c] = 1
    BY <1>9 DEF PluginPerforms, Plugin!Perform
  <2>3. LeftClean(c)'
    BY <2>1, <2>2
  <2>4. CallInv(c)'
    BY <2>2
  <2>5. QED
    BY <2>3, <2>4
<1>10. ASSUME NEW a \in Codes, PluginAnswers(c, a) PROVE CallInv(c)' /\ LeftClean(c)'
  <2>1. a \in Answers
    BY AnswersFact
  <2>2. QED
    BY <1>10, <2>1 DEF PluginAnswers, Plugin!Answer, Plugin!Settled
<1>11. QED
  BY <1>2, <1>3, <1>4, <1>5, <1>6, <1>7, <1>8, <1>9, <1>10
     DEF StepOf, CallerStep, Environment

-----------------------------------------------------------------------------
(* The invariant.                                                          *)

\* The invariant holds at the start.
LEMMA InitIInv == Init => IInv
<1> SUFFICES ASSUME Init PROVE IInv
  OBVIOUS
<1>1. TypeInv
  BY DEF Init, Plugin!Init, TypeInv, States, Results
<1>2. InboxInv
  BY DEF Init, InboxInv
<1>3. ASSUME NEW c \in Callers PROVE CallInv(c) /\ LeftClean(c)
  BY DEF Init, Plugin!Init, CallInv, LeftClean, Before, Answers, ErrorCodes, Settled
<1>4. QED
  BY <1>1, <1>2, <1>3 DEF IInv

(* Steps of nobody in particular: time, close(), noise, a broken link.     *)
LEMMA LooseStep ==
    ASSUME IInv, Tick \/ Close \/ Break \/ (\E m \in Noise : Emit(m)) \/ UNCHANGED vars
    PROVE  IInv'
<1> USE DEF connVars, callVars, callerVars, pluginVars
<1>1. TypeInv /\ InboxInv /\ \A c \in Callers : CallInv(c) /\ LeftClean(c)
  BY DEF IInv
<1>2. CASE Tick \/ Break \/ UNCHANGED vars
  <2>1. /\ UNCHANGED <<socket, opened, inbox, callerVars, via, travelling, pluginVars>>
        /\ UNCHANGED mutating
    BY <1>2 DEF Tick, Break, vars
  <2>2. TypeInv' /\ InboxInv'
    BY <1>1, <2>1 DEF TypeInv, InboxInv
  <2>3. \A c \in Callers : CallInv(c)' /\ LeftClean(c)'
    BY <1>1, <2>1 DEF CallInv, LeftClean, Pending
  <2>4. QED
    BY <2>2, <2>3 DEF IInv
<1>3. CASE Close
  <2>1. /\ socket' = 0 /\ inbox' = <<>> /\ opened' = opened
        /\ UNCHANGED <<callerVars, via, travelling, pluginVars, mutating>>
    BY <1>3 DEF Close, Disconnect
  <2>2. TypeInv' /\ InboxInv'
    BY <1>1, <2>1 DEF TypeInv, InboxInv
  <2>3. \A c \in Callers : CallInv(c)' /\ LeftClean(c)'
    BY <1>1, <2>1 DEF CallInv, LeftClean
  <2>4. QED
    BY <2>2, <2>3 DEF IInv
<1>4. ASSUME NEW m \in Noise, Emit(m) PROVE IInv'
  <2>1. /\ inbox' = Append(inbox, m)
        /\ UNCHANGED <<socket, opened, callerVars, via, travelling, pluginVars, mutating>>
    BY <1>4 DEF Emit
  <2>2. m \in Responses \cup Noise /\ m.kind # "response"
    BY DEF Noise
  <2>3. /\ inbox' \in Seq(Responses \cup Noise)
        /\ InboxInv'
        /\ \A d \in Callers : Pending(d)' => Pending(d)
    BY <1>1, <2>1, <2>2, NewFrame
  <2>4. TypeInv'
    BY <1>1, <2>1, <2>3 DEF TypeInv
  <2>5. \A c \in Callers : CallInv(c)' /\ LeftClean(c)'
    BY <1>1, <2>1, <2>3 DEF CallInv, LeftClean
  <2>6. QED
    BY <2>3, <2>4, <2>5 DEF IInv
<1>5. QED
  BY <1>2, <1>3, <1>4

\* Every step keeps the invariant.
LEMMA StepIInv == IInv /\ [Next]_vars => IInv'
<1> SUFFICES ASSUME IInv, [Next]_vars PROVE IInv'
  OBVIOUS
<1>1. ASSUME NEW c \in Callers, StepOf(c) PROVE IInv'
  <2>1. TypeInv /\ InboxInv /\ \A d \in Callers : CallInv(d) /\ LeftClean(d)
    BY DEF IInv
  <2>2. OthersKeep(c) /\ ConnectionStep /\ CallerTypes' /\ InboxStep(c)
    BY <1>1, <2>1, OthersStep, TypeStep, InboxStepOf
  <2>3. TypeInv' /\ InboxInv'
    BY <2>2 DEF TypeInv, CallerTypes, InboxStep
  <2>4. ASSUME NEW d \in Callers PROVE CallInv(d)' /\ LeftClean(d)'
    BY <1>1, <2>1, <2>2, OtherCall, OwnCall
  <2>5. QED
    BY <2>3, <2>4 DEF IInv
<1>2. QED
  BY <1>1, LooseStep DEF Next, StepOf

(* The invariant that the theorems below are read off.                     *)
THEOREM Invariance == Spec => []IInv
  BY InitIInv, StepIInv, PTL DEF Spec

(* vendor_request returns the answer of the plugin to this very request,   *)
(* whatever interrupted calls have left in the connection.                 *)
THEOREM AnswerIsOwn == Spec => []OwnAnswer
<1>1. IInv => OwnAnswer
  BY AnswersFact DEF IInv, CallInv, OwnAnswer
<1>2. QED
  BY <1>1, Invariance, PTL

(* The connection that is kept carries nothing of a call that is over,     *)
(* unless the call was interrupted.                                        *)
THEOREM ConnectionIsClean == Spec => []CleanConnection
<1>1. IInv => CleanConnection
  <2> SUFFICES ASSUME IInv, NEW c \in Callers, socket # 0, via[c] = socket,
                      pc[c] \notin Holding, result[c] # "interrupted",
                      c \in travelling \/ answer[c] = "open" \/ Pending(c)
               PROVE  FALSE
    BY DEF CleanConnection, Pending
  <2>1. c \notin travelling /\ answer[c] \in Answers /\ ~Pending(c)
    BY DEF IInv, LeftClean
  <2>2. QED
    BY <2>1 DEF Answers
<1>2. QED
  BY <1>1, Invariance, PTL

-----------------------------------------------------------------------------
(* Refinement.  Every step is one step of VendorCall on the same call, or a *)
(* stutter: a call opens when its thread begins, and is answered when the   *)
(* thread returns.                                                          *)

Seen == [c \in Callers |-> SeenBy(c)]

Told(state, r, m, attempted) ==
    IF r = "none" THEN (IF state = "idle" THEN "idle" ELSE "open")
    ELSE IF r \in Answers THEN r
    ELSE IF r \in ErrorCodes /\ (m \/ ~attempted) THEN "refused"
    ELSE "indeterminate"

(* The cases of SeenBy exclude each other.                                 *)
LEMMA SeenFact ==
    ASSUME NEW c \in Callers
    PROVE  /\ SeenBy(c) = Told(pc[c], result[c], mutating[c], sent[c])
           /\ SeenBy(c)' = Told(pc'[c], result'[c], mutating'[c], sent'[c])
<1> DEFINE State(state, r, m, attempted) ==
        CASE r = "none" /\ state = "idle" -> "idle"
          [] r = "none" /\ state # "idle" -> "open"
          [] r \in Answers -> r
          [] r \in ErrorCodes /\ (m \/ ~attempted) -> "refused"
          [] OTHER -> "indeterminate"
<1>1. \A state, r, m, attempted :
         State(state, r, m, attempted) = Told(state, r, m, attempted)
  BY DEF Told, Answers, ErrorCodes
<1>2. QED
  BY <1>1 DEF SeenBy, Plugin!Answers, Plugin!Settled, Answers

\* The initial states map to initial states of the promise.
LEMMA InitRefines == Init => EndToEnd!Init
  BY SeenFact DEF Init, Plugin!Init, EndToEnd!Init, Told

(* What the caller of c is told changes in the steps for c alone.          *)
LEMMA SeenStep ==
    ASSUME TypeInv, InboxInv, NEW c \in Callers, StepOf(c)
    PROVE  /\ Seen' = [Seen EXCEPT ![c] = SeenBy(c)']
           /\ performed' = [performed EXCEPT ![c] = performed'[c]]
           /\ Seen[c] = SeenBy(c)
<1>1. OthersKeep(c) /\ CallerTypes'
  BY OthersStep, TypeStep
<1>2. \A d \in Callers \ {c} : SeenBy(d)' = SeenBy(d)
  BY <1>1, SeenFact DEF OthersKeep, Told
<1>3. performed \in [Callers -> {0, 1}] /\ performed' \in [Callers -> {0, 1}]
  BY <1>1 DEF TypeInv, CallerTypes
<1>4. QED
  BY <1>1, <1>2, <1>3 DEF Seen, OthersKeep

(* An error is told as what the transport knows: a refusal when nothing    *)
(* was sent, otherwise that nobody knows.                                  *)
LEMMA ErrorSeen ==
    ASSUME TypeInv, NEW c \in Callers, CallInv(c), pc[c] \notin {"idle", "done"},
           NEW code \in ErrorCodes, pc'[c] = "done", result'[c] = RaisedCode(c, code),
           sent'[c] = sent[c], mutating'[c] = mutating[c]
    PROVE  \/ SeenBy(c)' = "refused" /\ performed[c] = 0
           \/ SeenBy(c)' = "indeterminate"
<1>1. sent[c] \in BOOLEAN /\ mutating[c] \in BOOLEAN
  BY DEF TypeInv
<1>2. CASE ~sent[c]
  <2>1. performed[c] = 0
    BY <1>2 DEF CallInv
  <2>2. result'[c] = code
    BY <1>2 DEF RaisedCode
  <2>3. SeenBy(c)' = "refused"
    BY <1>2, <2>2, SeenFact DEF Told, ErrorCodes, Answers
  <2>4. QED
    BY <2>1, <2>3
<1>3. CASE sent[c] /\ mutating[c]
  BY <1>3, SeenFact DEF RaisedCode, Told, Answers
<1>4. CASE sent[c] /\ ~mutating[c]
  BY <1>4, SeenFact DEF RaisedCode, Told, Answers, ErrorCodes
<1>5. QED
  BY <1>1, <1>2, <1>3, <1>4

\* Every step of a caller maps to a step of the promise or to none.
LEMMA StepRefines ==
    ASSUME TypeInv, InboxInv, NEW c \in Callers, CallInv(c), StepOf(c)
    PROVE  \/ EndToEnd!Open(c)
           \/ EndToEnd!Perform(c)
           \/ \E a \in EndToEnd!Answers : EndToEnd!Answer(c, a)
           \/ UNCHANGED EndToEnd!vars
<1>1. /\ Seen' = [Seen EXCEPT ![c] = SeenBy(c)']
      /\ performed' = [performed EXCEPT ![c] = performed'[c]]
      /\ Seen[c] = SeenBy(c) /\ DOMAIN Seen = Callers
  BY SeenStep DEF Seen
<1>2. EndToEnd!Answers = Answers /\ EndToEnd!Settled = Settled
  BY DEF EndToEnd!Answers, EndToEnd!Settled, Answers, Settled
<1>3. performed \in [Callers -> {0, 1}] /\ pc \in [Callers -> States]
      /\ result \in [Callers -> Results] /\ sent \in [Callers -> BOOLEAN]
      /\ mutating \in [Callers -> BOOLEAN]
  BY DEF TypeInv
<1>4. ASSUME SeenBy(c)' = SeenBy(c), performed'[c] = performed[c]
      PROVE  UNCHANGED EndToEnd!vars
  <2>1. Seen' = Seen /\ performed' = performed
    BY <1>1, <1>3, <1>4 DEF Seen
  <2>2. QED
    BY <2>1 DEF EndToEnd!vars, Seen
<1>5. ASSUME NEW a \in Answers,
             SeenBy(c) = "open" \/ (SeenBy(c) = "idle" /\ a = "refused"),
             SeenBy(c)' = a, performed'[c] = performed[c],
             a = "ok" => performed[c] = 1, a \in Settled => performed[c] = 0
      PROVE  \E b \in EndToEnd!Answers : EndToEnd!Answer(c, b)
  <2>1. performed' = performed
    BY <1>1, <1>3, <1>5, ZenonT(40)
  <2>2. EndToEnd!Answer(c, a)
    BY <1>1, <1>2, <1>5, <2>1 DEF EndToEnd!Answer, Seen
  <2>3. QED
    BY <1>2, <2>2
<1>6. pc[c] \notin {"idle", "done"} => SeenBy(c) = "open"
  BY SeenFact DEF CallInv, Told
<1>7. ASSUME NEW code \in ErrorCodes, pc[c] \notin {"idle", "done"},
             pc'[c] = "done", result'[c] = RaisedCode(c, code), sent'[c] = sent[c],
             mutating'[c] = mutating[c], performed'[c] = performed[c]
      PROVE  \E b \in EndToEnd!Answers : EndToEnd!Answer(c, b)
  <2>1. \/ SeenBy(c)' = "refused" /\ performed[c] = 0
        \/ SeenBy(c)' = "indeterminate"
    BY <1>7, ErrorSeen
  <2>2. "refused" \in Answers /\ "indeterminate" \in Answers /\ "indeterminate" \notin Settled
    BY DEF Answers, Settled
  <2>3. QED
    BY <1>5, <1>6, <1>7, <2>1, <2>2
<1>8. ASSUME pc[c] \notin {"idle", "done"}, pc'[c] \notin {"idle", "done"},
             result'[c] = result[c], performed'[c] = performed[c]
      PROVE  UNCHANGED EndToEnd!vars
  <2>1. result[c] = "none"
    BY <1>8 DEF CallInv
  <2>2. SeenBy(c)' = "open"
    BY <1>8, <2>1, SeenFact DEF Told
  <2>3. QED
    BY <1>4, <1>6, <1>8, <2>2
<1>9. ASSUME UNCHANGED <<pc, result, sent, mutating, performed>>
      PROVE  UNCHANGED EndToEnd!vars
  BY <1>4, <1>9, SeenFact DEF Told
<1>10. ASSUME NEW code \in {"OBS_TIMEOUT", "error"}, Fail(c, code),
              pc[c] \in Holding
       PROVE  \E b \in EndToEnd!Answers : EndToEnd!Answer(c, b)
  BY <1>3, <1>7, <1>10 DEF Fail, Return, Go, callVars, pluginVars, ErrorCodes, Holding
<1> USE DEF Go, Return, Fail, OnlyGo, connVars, callVars, callerVars, pluginVars
<1>11. CASE \E m \in BOOLEAN, b \in 0..MaxBudget : Call(c, m, b)
  <2>1. SeenBy(c) = "idle" /\ performed[c] = 0 /\ result[c] = "none" /\ ~sent[c]
    BY <1>11, SeenFact DEF Call, Told, CallInv, Before
  <2>2. performed' = performed /\ sent' = sent
    BY <1>11 DEF Call
  <2>3. CASE pc'[c] = "locking" /\ result'[c] = "none"
    <3>1. SeenBy(c)' = "open"
      BY <2>3, SeenFact DEF Told
    <3>2. QED
      BY <1>1, <2>1, <2>2, <3>1 DEF EndToEnd!Open, Seen
  <2>4. CASE pc'[c] = "done" /\ result'[c] \in ErrorCodes
    <3>1. SeenBy(c)' = "refused"
      BY <2>1, <2>2, <2>4, SeenFact DEF Told, ErrorCodes, Answers
    <3>2. "refused" \in Answers
      BY DEF Answers
    <3>3. QED
      BY <1>5, <2>1, <2>2, <3>1, <3>2
  <2>5. QED
    BY <1>3, <1>11, <2>1, <2>3, <2>4 DEF Call, ErrorCodes
<1>12. CASE Acquire(c) \/ Connect(c) \/ Handshake(c) \/ MarkSent(c) \/ Send(c)
  <2>1. /\ pc[c] \notin {"idle", "done"} /\ pc'[c] \notin {"idle", "done"}
        /\ result'[c] = result[c] /\ performed'[c] = performed[c]
    BY <1>3, <1>12 DEF Acquire, Connect, Handshake, MarkSent, Send
  <2>2. QED
    BY <1>8, <2>1
<1>13. CASE AcquireTimesOut(c)
  <2>1. RaisedCode(c, "OBS_TIMEOUT") = "OBS_TIMEOUT"
    BY <1>13 DEF AcquireTimesOut, RaisedCode, CallInv, Before
  <2>2. QED
    BY <1>3, <1>7, <1>13, <2>1 DEF AcquireTimesOut, ErrorCodes
<1>14. CASE PrepareTimesOut(c) \/ ConnectFails(c) \/ RecvTimesOut(c) \/ RecvBreaks(c)
  BY <1>10, <1>14 DEF PrepareTimesOut, ConnectFails, RecvTimesOut, RecvBreaks, Holding
<1>15. CASE SendFails(c)
  BY <1>3, <1>7, <1>15 DEF SendFails, ErrorCodes
<1>16. CASE BeginRecv(c)
  <2>1. CASE OnlyGo(c, "recv")
    BY <1>3, <1>8, <1>16, <2>1 DEF BeginRecv
  <2>2. CASE Fail(c, "OBS_TIMEOUT")
    BY <1>10, <1>16, <2>2 DEF BeginRecv, Holding
  <2>3. QED
    BY <1>16, <2>1, <2>2 DEF BeginRecv
<1>17. CASE Receive(c)
  <2>1. CASE Fail(c, "error")
    BY <1>10, <1>17, <2>1 DEF Receive, Holding
  <2>2. CASE Go(c, "receiving") /\ UNCHANGED <<result, pluginVars>>
    BY <1>3, <1>8, <1>17, <2>2 DEF Receive
  <2>3. CASE /\ Head(inbox).kind = "response" /\ Matches(c, Head(inbox))
             /\ Head(inbox).body # "rejected" /\ Return(c, Head(inbox).body)
             /\ UNCHANGED pluginVars
    <3>1. answer[c] = Head(inbox).body /\ answer[c] \in Answers
      BY <1>17, <2>3, FrontFact DEF Receive, Matches
    <3>2. pc[c] \notin {"idle", "done"} /\ pc'[c] = "done" /\ result'[c] = answer[c]
          /\ performed'[c] = performed[c]
      BY <1>3, <1>17, <2>3, <3>1 DEF Receive
    <3>3. SeenBy(c)' = answer[c]
      BY <3>1, <3>2, SeenFact DEF Told, Answers
    <3>4. /\ answer[c] = "ok" => performed[c] = 1
          /\ answer[c] \in Settled => performed[c] = 0
      BY DEF CallInv
    <3>5. QED
      BY <1>5, <1>6, <3>1, <3>2, <3>3, <3>4
  <2>4. QED
    BY <1>17, <2>1, <2>2, <2>3 DEF Receive
<1>18. CASE Interrupt(c)
  <2>1. pc[c] \notin {"idle", "done"} /\ pc'[c] = "done" /\ result'[c] = "interrupted"
        /\ performed'[c] = performed[c]
    BY <1>3, <1>18 DEF Interrupt, Holding
  <2>2. SeenBy(c)' = "indeterminate"
    BY <2>1, SeenFact DEF Told, Answers, ErrorCodes
  <2>3. "indeterminate" \in Answers \ Settled /\ "indeterminate" # "ok"
    BY DEF Answers, Settled
  <2>4. QED
    BY <1>5, <1>6, <2>1, <2>2, <2>3
<1>19. CASE Deliver(c) \/ Lose(c) \/ \E a \in Codes : PluginAnswers(c, a)
  BY <1>9, <1>19 DEF Deliver, Lose, PluginAnswers, Plugin!Open, Plugin!Answer
<1>20. CASE PluginPerforms(c)
  <2>1. /\ answer[c] \in {"open", "indeterminate"} /\ performed[c] = 0
        /\ performed'[c] = 1 /\ UNCHANGED <<pc, result, sent, mutating>>
    BY <1>3, <1>20 DEF PluginPerforms, Plugin!Perform
  <2>2. sent[c]
    BY <1>3, <2>1 DEF CallInv
  <2>3. SeenBy(c) \in {"open", "indeterminate"} /\ SeenBy(c)' = SeenBy(c)
    <3>1. pc[c] # "idle"
      BY <2>2 DEF CallInv, Before
    <3>2. result[c] \in Answers => result[c] = "indeterminate"
      BY <2>1 DEF CallInv, Answers
    <3>3. result[c] \in ErrorCodes => ~mutating[c]
      BY <2>2 DEF CallInv
    <3>4. SeenBy(c) \in {"open", "indeterminate"}
      BY <2>2, <3>1, <3>2, <3>3, SeenFact DEF Told
    <3>5. SeenBy(c)' = SeenBy(c)
      BY <2>1, SeenFact DEF Told
    <3>6. QED
      BY <3>4, <3>5
  <2>4. Seen' = Seen
    BY <1>1, <2>3 DEF Seen
  <2>5. QED
    BY <1>1, <2>1, <2>3, <2>4 DEF EndToEnd!Perform, Seen
<1>21. QED
  BY <1>11, <1>12, <1>13, <1>14, <1>15, <1>16, <1>17, <1>18, <1>19, <1>20
     DEF StepOf, CallerStep, Environment

(* Over a connection that breaks, loses frames and is dropped under it, the *)
(* transport keeps for its callers the promise that the plugin makes: one   *)
(* answer, one run at most, none after a refusal.                           *)
THEOREM Refinement == Spec => ImplementsVendorCall
<1>1. IInv /\ [Next]_vars => [EndToEnd!Next]_(EndToEnd!vars)
  <2> SUFFICES ASSUME IInv, [Next]_vars PROVE [EndToEnd!Next]_(EndToEnd!vars)
    OBVIOUS
  <2>1. CASE Tick \/ Close \/ Break \/ (\E m \in Noise : Emit(m)) \/ UNCHANGED vars
    <3>1. UNCHANGED <<pc, result, sent, mutating, performed>>
      BY <2>1 DEF Tick, Close, Break, Emit, vars, callVars, callerVars, pluginVars
    <3>2. UNCHANGED EndToEnd!vars
      BY <3>1 DEF EndToEnd!vars, SeenBy
    <3>3. QED
      BY <3>2
  <2>2. ASSUME NEW c \in Callers, StepOf(c) PROVE [EndToEnd!Next]_(EndToEnd!vars)
    <3>1. TypeInv /\ InboxInv /\ CallInv(c)
      BY DEF IInv
    <3>2. QED
      BY <2>2, <3>1, StepRefines DEF EndToEnd!Next
  <2>3. QED
    BY <2>1, <2>2 DEF Next, StepOf
<1>2. QED
  BY <1>1, InitRefines, Invariance, PTL DEF Spec, ImplementsVendorCall, EndToEnd!Spec
=============================================================================
