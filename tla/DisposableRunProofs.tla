--------------------------- MODULE DisposableRunProofs ---------------------------
(***************************************************************************)
(* Proofs about DisposableRun for any scenarios, any number of recordings  *)
(* made by hand and of interrupted waits.  The program is sequential and   *)
(* long, so the inductive invariant IInv has a part for each question,     *)
(* which says what holds at which place of the program: where it can be    *)
(* (PlaceInv), whether OBS has been asked (AskInv), which error is known   *)
(* (ErrorInv), what is known of the process (CodeInv), who holds the       *)
(* adapter (ServerInv), and how much of the evidence has been earned       *)
(* (ScriptInv for the graph, EvidenceInv for the rest).                    *)
(***************************************************************************)
EXTENDS DisposableRun, SequenceTheorems, TLAPS

Early == {"prepare", "launch", "identify", "connect", "await", "gate", "adapter",
          "session", "exercise", "evidence"}
Failing == {"rescue", "fail", "report", "retain", "hold", "final"}
HostOnly == Failing \cup {"launch", "identify", "connect", "await", "disconnect",
                          "verdict"}
\* The way from the script to the evidence.
Closing == {"evidence", "submit", "closeAdapter", "disconnect", "wait", "verdict",
            "publish"}
SidecarOnly == {"bind", "serve", "stop"}
Pcs == Early \cup Closing \cup HostOnly \cup SidecarOnly \cup {"finally", "exited"}

Causes == {"launch", "identify", "connect", "await", "gate", "adapter", "session",
           "exercise", "evidence", "submit", "closeAdapter", "disconnect", "wait",
           "close", "code", "publish", "finally", "acceptance"}
Errors == Causes \cup {"none"}

ObsType == [phase : {"absent", "booting", "serving", "leaving", "exited"},
            code : {0, 1}, foreign : BOOLEAN]
OwnerType == [process : BOOLEAN, ready : BOOLEAN, attempted : BOOLEAN,
              code : {NoCode, 0, 1}, primary : Errors, cleanup : BOOLEAN,
              transport : {"none", "open", "closed"}]
RunType == [pc : Pcs, step : Nat \ {0}, error : {"none", "other", "owned"},
            rescue : BOOLEAN, closeError : BOOLEAN, stopped : BOOLEAN,
            status : {"none", "ok", "failed"}]
ServerType == [held : {"none", "prior", "ours"}, running : BOOLEAN,
               connection : {"none", "open", "closed"}, loaded : BOOLEAN,
               unmade : {"none", "open"}]
JobType == [state : {"none", "running", "performed", "failed"}, step : Nat]
Reports == {"UNKNOWN", "TERMINAL", "NOT_STARTED"}

TypeInv == /\ obs \in ObsType
           /\ owner \in OwnerType
           /\ run \in RunType
           /\ server \in ServerType
           /\ job \in JobType
           /\ DOMAIN graph = DOMAIN PreparedGraph
           /\ first \in Errors
           /\ said \in Seq(Reports)
           /\ requests \in Nat
           /\ disturbed \in Nat

PlaceInv == /\ run.pc \in HostOnly => Host
            /\ run.pc \in SidecarOnly => scenario.mode = "sidecar"
            /\ run.rescue \/ run.closeError \/ run.error = "owned" => Host
            /\ run.pc \in Early \cup SidecarOnly =>
                  ~run.rescue /\ ~run.closeError /\ ~run.stopped /\ run.error = "none"
            /\ run.status = "none" <=> run.pc # "exited"
            /\ run.status = "ok" => run.error = "none"

AskInv == /\ run.pc \in Early \cup {"submit"} =>
                requests = 0 /\ (Host => ~owner.attempted)
          /\ requests <= 1
          /\ Host /\ requests # 0 => owner.attempted
          /\ Host /\ run.pc \in Closing \ {"evidence", "submit"} => owner.attempted

ErrorInv == /\ owner.primary = IF Host THEN first ELSE "none"
            /\ Host /\ (run.error # "none" \/ run.rescue \/ run.pc \in Failing)
                  => owner.primary # "none"
            /\ run.pc \in Early => first = "none"

CodeInv == /\ owner.code # NoCode => obs.phase = "exited" /\ owner.code = obs.code
           /\ ~Host \/ run.pc \in {"prepare", "launch"} => ~owner.process
           /\ run.pc \in {"prepare", "launch"} => owner.code = NoCode
           /\ record = "TERMINAL" => owner.code # NoCode
           /\ "TERMINAL" \in Range(said) => owner.code # NoCode
           /\ "NOT_STARTED" \in Range(said) => run.pc = "exited" /\ ~owner.process
           /\ run.pc = "final" => ~owner.process \/ owner.code # NoCode
           /\ run.pc = "exited" => ~owner.process \/ owner.code # NoCode

ServerInv == /\ server.connection = "open" => server.held # "none"
             /\ run.stopped => server.held = "none"
             /\ run.status = "ok" => server.connection # "open"
             /\ server.unmade = "open" =>
                   /\ run.status = "failed" \/ run.error # "none"
                   /\ Host => owner.primary = "adapter"

\* The calls of the script that have taken effect.
Steps == IF job.state = "performed" THEN run.step ELSE run.step - 1

ScriptDone(n) == /\ n >= 2 => "baseline" \in graph.scenes
                 /\ n >= 15 => ~graph.studio
                 /\ n >= 23 => graph.current = "baseline"
                 /\ n >= 26 => "preview" \notin graph.scenes
                 /\ n >= 27 => "program" \notin graph.scenes /\ ~graph.source

ScriptInv == /\ run.pc \in Early \ {"evidence"} /\ run.pc # "exercise" =>
                    run.step = 1 /\ job.state = "none"
             /\ run.pc = "exercise" => /\ run.step <= 27
                                       /\ job.state # "none" => job.step = run.step
                                       /\ ScriptDone(Steps)

EvidenceInv ==
    /\ run.pc \in Closing /\ ~run.rescue =>
          run.step = 28 /\ job.state = "none" /\ ScriptDone(27) /\ output = "none"
    /\ ~run.rescue /\ ~run.closeError =>
          /\ run.pc \in {"closeAdapter", "disconnect", "wait", "verdict", "publish"} =>
                /\ obs.phase \in {"leaving", "exited"}
                /\ graph.recording = "stopped" \/ disturbed > 0
          /\ run.pc \in {"disconnect", "wait", "verdict", "publish"} => run.stopped
          /\ run.pc \in {"wait", "verdict", "publish"} /\ Host =>
                owner.transport # "open"
          /\ run.pc \in {"verdict", "publish"} /\ Host =>
                owner.code # NoCode /\ record = "TERMINAL"
    /\ run.pc = "publish" =>
          /\ ~run.rescue /\ ~run.closeError
          /\ obs.phase = "exited" /\ obs.code = 0
    /\ output # "none" =>
          /\ run.pc \in Failing \cup {"finally", "exited"}
          /\ run.step = 28 /\ ScriptDone(27)
          /\ graph.recording = "stopped" \/ disturbed > 0
          /\ obs.phase = "exited" /\ obs.code = 0
          /\ run.stopped
          /\ Host => owner.code = 0 /\ owner.transport # "open" /\ owner.attempted
    /\ \/ run.pc = "finally" /\ run.error = "none"
       \/ run.status = "ok" /\ scenario.mode # "sidecar"
       =>
          output = "whole" /\ (Host => record = "TERMINAL")

IInv == /\ TypeInv
        /\ PlaceInv
        /\ AskInv
        /\ ErrorInv
        /\ CodeInv
        /\ ServerInv
        /\ ScriptInv
        /\ EvidenceInv

-----------------------------------------------------------------------------
(* The script, and the adapter.                                            *)

(* The steps of the script that give the graph its last form.              *)
LEMMA ScriptFact ==
    /\ Len(Script) = 27
    /\ Script[2].tool = "create_scene" /\ Script[2].argument = "baseline"
    /\ \A n \in 3..27 : Script[n].tool = "remove_scene" => Script[n].argument # "baseline"
    /\ Script[23].tool = "set_current_scene" /\ Script[23].argument = "baseline"
    /\ \A n \in 24..27 : Script[n].tool \notin {"set_current_scene", "trigger_transition",
                                               "transition_to_program"}
    /\ Script[15].tool = "set_studio_mode" /\ Script[15].argument = "off"
    /\ \A n \in 16..27 : Script[n].tool # "set_studio_mode"
    /\ Script[26].tool = "remove_scene" /\ Script[26].argument = "preview"
    /\ Script[27].tool = "remove_scene" /\ Script[27].argument = "program"
<1>1. Len(SceneSteps) = 10 /\ Len(StudioSteps) = 7 /\ Len(RecordingSteps) = 5 /\ Len(CleanupSteps) = 5
  BY DEF SceneSteps, StudioSteps, RecordingSteps, CleanupSteps
<1>2. QED
  BY <1>1 DEF Script, SceneSteps, StudioSteps, RecordingSteps, CleanupSteps, Call, Query

(* ObsMcpServer.stop leaves a server of the same kind, held by whom it was. *)
LEMMA LeftFact ==
    ASSUME NEW s \in ServerType, NEW c \in Channels(s), NEW r \in Runs(s)
    PROVE  /\ Left(s, c, r) \in ServerType
           /\ Left(s, c, r).held = s.held /\ Left(s, c, r).unmade = s.unmade
<1>1. c \in {"none", "open", "closed"}
  BY DEF ServerType, Channels
<1>2. r \in BOOLEAN
  <2>1. s.running \in BOOLEAN
    BY DEF ServerType
  <2>2. QED
    BY <2>1, Zenon DEF Runs
<1>3. QED
  BY <1>1, <1>2, Zenon DEF ServerType, Left

(* ObsMcpServer.stop: it raises unless nothing is left open or running, and
   does not touch _server.                                                 *)
LEMMA OutcomeOfStop ==
    ASSUME NEW s \in ServerType, NEW o \in Stop(s)
    PROVE  /\ o.server \in ServerType /\ o.raised \in BOOLEAN
           /\ o.server.held = s.held /\ o.server.unmade = s.unmade
           /\ ~o.raised => o.server.connection # "open"
<1>1. PICK l \in {Left(s, c, r) : c \in Channels(s), r \in Runs(s)}, failed \in BOOLEAN :
          /\ o = Outcome(l, failed)
          /\ o.server.connection = "open" \/ o.server.running => o.raised
  BY DEF Stop
<1>2. o.server = l /\ o.raised = failed
  BY <1>1 DEF Outcome
<1>3. PICK c \in Channels(s), r \in Runs(s) : l = Left(s, c, r)
  BY <1>1
<1>4. QED
  BY <1>1, <1>2, <1>3, LeftFact

(* stop_server: only an adapter that is stopped is forgotten.              *)
LEMMA StopFact ==
    ASSUME NEW s \in ServerType, s.connection = "open" => s.held # "none",
           NEW o \in StopServer(s)
    PROVE  /\ o.server \in ServerType /\ o.raised \in BOOLEAN
           /\ o.server.connection = "open" => o.server.held # "none"
           /\ s.held = "none" => o.server = s
           /\ ~o.raised => o.server.held = "none" /\ o.server.connection # "open"
           /\ o.server.unmade = s.unmade
<1>1. CASE s.held = "none"
  <2>1. o = Outcome(s, FALSE)
    BY <1>1 DEF StopServer
  <2>2. o.server = s /\ o.raised = FALSE
    BY <2>1 DEF Outcome
  <2>3. QED
    BY <1>1, <2>2
<1>2. CASE s.held # "none"
  <2>1. PICK q \in Stop(s) :
            o = IF q.raised THEN q
                ELSE Outcome(Forgotten(s), FALSE)
    BY <1>2 DEF StopServer
  <2>2. CASE q.raised
    BY <1>2, <2>1, <2>2, OutcomeOfStop
  <2>3. CASE ~q.raised
    <3>1. o.server = Forgotten(s) /\ o.raised = FALSE
      BY <2>1, <2>3 DEF Outcome
    <3>2. QED
      BY <1>2, <3>1 DEF Forgotten, NoServer, ServerType
  <2>4. QED
    BY <2>2, <2>3, OutcomeOfStop, <2>1
<1>3. QED
  BY <1>1, <1>2

(* start_server: whatever fails, an open connection has a holder; one that was
   opened for an adapter that was not made is left only by an error.       *)
LEMMA StartFact ==
    ASSUME NEW s \in ServerType, s.connection = "open" => s.held # "none",
           NEW bound, NEW o \in StartServer(s, bound)
    PROVE  /\ o.server \in ServerType /\ o.raised \in BOOLEAN
           /\ o.server.connection = "open" => o.server.held # "none"
           /\ ~o.raised => o.server.unmade = s.unmade
<1> DEFINE Sound(q) == /\ q.server \in ServerType /\ q.raised \in BOOLEAN
                       /\ q.server.connection = "open" => q.server.held # "none"
                       /\ ~q.raised => q.server.unmade = s.unmade
           Ready == IF s.held = "none" THEN {Outcome(s, FALSE)} ELSE Stop(s)
<1>1. ASSUME NEW q \in Ready
      PROVE  Sound(q)
  <2>1. CASE s.held = "none"
    <3>1. q = Outcome(s, FALSE)
      BY <1>1, <2>1
    <3>2. q.server = s /\ q.raised = FALSE
      BY <3>1 DEF Outcome
    <3>3. QED
      BY <3>2
  <2>2. CASE s.held # "none"
    BY <1>1, <2>2, OutcomeOfStop
  <2>3. QED
    BY <2>1, <2>2
<1>2. CASE s.running
  <2>1. o = Outcome(s, FALSE)
    BY <1>2 DEF StartServer
  <2>2. o.server = s /\ o.raised = FALSE
    BY <2>1 DEF Outcome
  <2>3. QED
    BY <2>2
<1>3. CASE ~s.running
  <2>1. \/ o \in Ready
        \/ \E q \in {r \in Ready : ~r.raised} :
              \/ o \in ConstructionFails(q.server)
              \/ o \in StartupFails(q.server)
              \/ o = Outcome([Candidate(q.server) EXCEPT !.running = TRUE,
                                                         !.loaded = TRUE], FALSE)
    BY <1>3 DEF StartServer
  <2>2. CASE o \in Ready
    BY <1>1, <2>2
  <2>3. ASSUME NEW q \in Ready, o \in ConstructionFails(q.server)
        PROVE  Sound(o)
    <3>1. \/ o = Outcome(q.server, TRUE)
          \/ o = Outcome([q.server EXCEPT !.unmade = "open"], TRUE)
      BY <2>3 DEF ConstructionFails
    <3>2. CASE o = Outcome(q.server, TRUE)
      <4>1. o.server = q.server /\ o.raised = TRUE
        BY <3>2 DEF Outcome
      <4>2. QED
        BY <1>1, <4>1
    <3>3. CASE o = Outcome([q.server EXCEPT !.unmade = "open"], TRUE)
      <4>1. o.server = [q.server EXCEPT !.unmade = "open"] /\ o.raised = TRUE
        BY <3>3 DEF Outcome
      <4>2. QED
        BY <1>1, <4>1, ZenonT(40) DEF ServerType
    <3>4. QED
      BY <3>1, <3>2, <3>3
  <2>4. ASSUME NEW q \in Ready, o \in StartupFails(q.server)
        PROVE  Sound(o)
    <3>0. PICK r \in BOOLEAN :
              \E t \in Stop([Candidate(q.server) EXCEPT !.running = r]) :
                  o = Outcome(IF t.raised THEN t.server
                              ELSE Forgotten(q.server), TRUE)
      BY <2>4 DEF StartupFails
    <3>1. PICK t \in Stop([Candidate(q.server) EXCEPT !.running = r]) :
              o = Outcome(IF t.raised THEN t.server
                          ELSE Forgotten(q.server), TRUE)
      BY <3>0
    <3> DEFINE c == [Candidate(q.server) EXCEPT !.running = r]
    <3>2. c \in ServerType /\ c.held = "ours"
      BY <1>1 DEF Candidate, ServerType
    <3>3. t.server \in ServerType /\ t.server.held = "ours"
      BY <3>2, OutcomeOfStop
    <3>4. Forgotten(q.server) \in ServerType /\ Forgotten(q.server).connection = "none"
      BY <1>1 DEF Forgotten, NoServer, ServerType
    <3>5. o.raised = TRUE /\ \/ o.server = t.server
                             \/ o.server = Forgotten(q.server)
      BY <3>1 DEF Outcome
    <3>6. QED
      BY <3>3, <3>4, <3>5
  <2>5. ASSUME NEW q \in Ready, ~q.raised,
               o = Outcome([Candidate(q.server) EXCEPT !.running = TRUE,
                                                       !.loaded = TRUE], FALSE)
        PROVE  Sound(o)
    <3>1. o.server = [Candidate(q.server) EXCEPT !.running = TRUE, !.loaded = TRUE]
          /\ o.raised = FALSE
      BY <2>5 DEF Outcome
    <3>2. /\ o.server \in ServerType
          /\ o.server.held = "ours" /\ o.server.unmade = q.server.unmade
      BY <1>1, <3>1, ZenonT(40) DEF Candidate, ServerType
    <3>3. QED
      BY <1>1, <2>5, <3>1, <3>2
  <2>6. QED
    BY <2>1, <2>2, <2>3, <2>4, <2>5
<1>4. QED
  BY <1>2, <1>3

(* failure(): the first error is kept, the rest of the owner is as it was, and
   what is recorded is what is known of the process.                       *)
LEMMA FailureFact ==
    ASSUME NEW o \in OwnerType, NEW error \in Causes, Failure(o, error)
    PROVE  /\ owner' \in OwnerType
           /\ owner'.process = o.process
           /\ owner'.attempted = o.attempted
           /\ owner'.code = o.code
           /\ owner'.transport = o.transport
           /\ owner'.primary = IF o.primary = "none" THEN error ELSE o.primary
           /\ record' # record => (record' = "TERMINAL" <=> o.code # NoCode)
  BY DEF Failure, Blamed, RecordedState, OwnerType, Errors

-----------------------------------------------------------------------------
(* What the moves of the program do to its variables.                      *)

MovesTo(pc) == /\ run' \in RunType
               /\ run'.pc = pc
               /\ run'.step = run.step
               /\ run'.rescue = run.rescue

KeepsOwner == /\ owner' \in OwnerType
              /\ owner'.process = owner.process
              /\ owner'.attempted = owner.attempted
              /\ owner'.code = owner.code
              /\ owner'.transport = owner.transport

\* What is recorded, if anything is, is what was known of the process.
Records == record' # record => (record' = "TERMINAL" <=> owner.code # NoCode)

\* The owner and the history are told of an error.
Tells(error) == /\ owner'.primary = IF owner.primary = "none" THEN error
                                    ELSE owner.primary
                /\ first' = IF first = "none" THEN error ELSE first

\* The program goes on without an error.
GoesOn(pc) == /\ MovesTo(pc)
              /\ run'.stopped = run.stopped
              /\ run'.error = run.error
              /\ run'.closeError = run.closeError
              /\ run'.status = run.status

\* It ends, with an error it goes to a handler, or close goes on.
Exits(status) == /\ MovesTo("exited")
                 /\ run'.stopped = run.stopped
                 /\ run'.error = run.error
                 /\ run'.closeError = run.closeError
                 /\ run'.status = status

Unwinds(pc, error) == /\ MovesTo(pc)
                      /\ run'.stopped = run.stopped
                      /\ run'.error = error
                      /\ run'.closeError = run.closeError
                      /\ run'.status = run.status

ClosesOn(pc) == /\ MovesTo(pc)
                /\ run'.stopped = run.stopped
                /\ run'.error = run.error
                /\ run'.closeError
                /\ run'.status = run.status

\* An error inside the try.
Failed(error) == /\ Unwinds("finally", "other")
                 /\ KeepsOwner
                 /\ Host => Tells(error)
                 /\ ~Host => owner'.primary = owner.primary
                 /\ first' \in Errors /\ first' # "none"

\* The helpers of the actions, said field by field.  Goto: the program goes on.
LEMMA GotoFact ==
    ASSUME run \in RunType, NEW pc \in Pcs, Goto(pc)
    PROVE  GoesOn(pc)
  BY DEF Goto, RunType, MovesTo, GoesOn

\* The program ends.
LEMMA ExitFact ==
    ASSUME run \in RunType, NEW status \in {"ok", "failed"}, Exit(status)
    PROVE  Exits(status)
  BY DEF Exit, RunType, MovesTo, Pcs, Exits

\* An exception leaves the block it was raised in.
LEMMA UnwindFact ==
    ASSUME run \in RunType, NEW pc \in Pcs, NEW error \in {"other", "owned"},
           Unwind(pc, error)
    PROVE  Unwinds(pc, error)
  BY DEF Unwind, RunType, MovesTo, Pcs, Unwinds

\* close notes the error and goes on closing.
LEMMA CloseOnFact ==
    ASSUME run \in RunType, NEW pc \in Pcs, CloseOn(pc)
    PROVE  ClosesOn(pc)
  BY DEF CloseOn, RunType, MovesTo, ClosesOn

\* Once an error has been raised there is a first one.
LEMMA RaiseFact ==
    ASSUME NEW error \in Causes, first \in Errors, Raise(error)
    PROVE  /\ first' = IF first = "none" THEN error ELSE first
           /\ first' \in Errors
           /\ first' # "none"
<1>1. error \in Errors /\ error # "none"
  BY DEF Errors, Causes
<1>2. QED
  BY <1>1 DEF Raise

\* The owner hears of an error of the run, and the adapter is stopped next.
LEMMA FailsFact ==
    ASSUME run \in RunType, owner \in OwnerType, first \in Errors,
           NEW error \in Causes, Fails(error)
    PROVE  Failed(error)
<1>1. Unwind("finally", "other") /\ Raise(error)
  BY DEF Fails
<1>2. KeepsOwner /\ (Host => owner'.primary = IF owner.primary = "none" THEN error
                                            ELSE owner.primary)
                 /\ (~Host => owner' = owner)
  BY DEF Fails, Blamed, OwnerType, KeepsOwner, Errors
<1>3. QED
  BY <1>1, <1>2, UnwindFact, RaiseFact DEF Failed, Tells, Pcs

(* failure() of the owner as it is.                                        *)
LEMMA OwnerFails ==
    ASSUME owner \in OwnerType, NEW error \in Causes, Failure(owner, error)
    PROVE  /\ KeepsOwner
           /\ owner'.primary = IF owner.primary = "none" THEN error ELSE owner.primary
           /\ Records
  BY FailureFact DEF KeepsOwner, Records

(* The wait on the handle has returned, whether that can be recorded or not. *)
KnowsExit == /\ owner' \in OwnerType
             /\ owner'.process = owner.process
             /\ owner'.attempted = owner.attempted
             /\ owner'.transport = owner.transport
             /\ owner'.code = obs.code /\ obs.code # NoCode
             /\ obs.phase = "exited" /\ obs' = obs
             /\ record' \in {record, "TERMINAL"}

\* An exit code is not taken for the absence of one.
LEMMA CodeFact ==
    ASSUME obs \in ObsType
    PROVE  obs.code # NoCode /\ obs.code \in {NoCode, 0, 1}
  BY DEF ObsType, NoCode

\* The wait returns: the exit is known and recorded.
LEMMA WaitReturnsFact ==
    ASSUME obs \in ObsType, owner \in OwnerType, WaitReturns
    PROVE  KnowsExit /\ owner'.primary = owner.primary /\ record' = "TERMINAL"
  BY CodeFact DEF WaitReturns, RecordedState, OwnerType, KnowsExit

\* The wait returns but cannot be recorded: the exit is known, and there is an error.
LEMMA WaitUnrecordedFact ==
    ASSUME obs \in ObsType, owner \in OwnerType, WaitUnrecorded
    PROVE  KnowsExit /\ owner'.primary = IF owner.primary = "none" THEN "wait"
                                         ELSE owner.primary
<1> DEFINE o == [owner EXCEPT !.code = obs.code]
<1>1. /\ o \in OwnerType
      /\ o.code = obs.code /\ o.primary = owner.primary
      /\ o.process = owner.process /\ o.attempted = owner.attempted
      /\ o.transport = owner.transport
  BY CodeFact DEF OwnerType
<1>2. Failure(o, "wait") /\ "wait" \in Causes
  BY DEF WaitUnrecorded, Causes
<1> HIDE DEF o
<1>3. QED
  BY <1>1, <1>2, CodeFact, FailureFact DEF WaitUnrecorded, KnowsExit

-----------------------------------------------------------------------------
(* What the longer actions do.                                             *)

\* Submit asks OBS at most once more, and an owner remembers that it tried; close is
\* never called twice (AskInv).
LEMMA SubmitFact ==
    ASSUME TypeInv, AskInv, Submit
    PROVE  /\ owner' \in OwnerType
           /\ owner'.process = owner.process
           /\ owner'.code = owner.code
           /\ owner'.transport = owner.transport
           /\ Host => owner'.attempted
           /\ record' = record
           /\ requests' \in {requests, requests + 1}
           /\ \/ obs' = obs
              \/ /\ obs.phase = "serving" /\ graph.recording = "stopped"
                 /\ obs' \in ObsType /\ obs'.phase = "leaving" /\ obs'.code = obs.code
           /\ \/ /\ GoesOn("closeAdapter")
                 /\ owner'.primary = owner.primary /\ first' = first
                 /\ obs'.phase = "leaving" /\ graph.recording = "stopped"
              \/ /\ Host /\ ClosesOn("closeAdapter")
                 /\ Tells("submit") /\ first' \in Errors /\ first' # "none"
              \/ /\ ~Host /\ Unwinds("finally", "other")
                 /\ owner' = owner /\ first' \in Errors
<1> DEFINE asked == [owner EXCEPT !.attempted = TRUE]
           blamed == [Blamed(owner, "submit") EXCEPT !.attempted = TRUE]
<1>1. /\ asked \in OwnerType /\ asked.attempted /\ asked.process = owner.process
      /\ asked.code = owner.code /\ asked.transport = owner.transport
      /\ asked.primary = owner.primary
  BY DEF TypeInv, OwnerType
<1>2. /\ blamed \in OwnerType /\ blamed.attempted /\ blamed.process = owner.process
      /\ blamed.code = owner.code /\ blamed.transport = owner.transport
      /\ blamed.primary = IF owner.primary = "none" THEN "submit" ELSE owner.primary
  BY DEF TypeInv, OwnerType, Blamed, Causes, Errors
<1>3. Leaves => /\ obs.phase = "serving" /\ graph.recording = "stopped"
                /\ obs' \in ObsType /\ obs'.phase = "leaving" /\ obs'.code = obs.code
  BY DEF Leaves, TypeInv, ObsType
<1>4. "submit" \in Causes /\ {"closeAdapter", "finally"} \subseteq Pcs
  BY DEF Causes, Pcs, Closing
<1> HIDE DEF asked, blamed
<1>5. CASE /\ Leaves /\ requests' = requests + 1
           /\ owner' = IF Host THEN asked ELSE owner
           /\ Goto("closeAdapter") /\ UNCHANGED <<first, record>>
  BY <1>1, <1>3, <1>4, <1>5, GotoFact DEF TypeInv
<1>6. CASE /\ Leaves \/ obs' = obs
           /\ requests' \in {requests, requests + 1}
           /\ owner' = IF Host THEN blamed ELSE owner
           /\ Raise("submit") /\ UNCHANGED record
           /\ IF Host THEN CloseOn("closeAdapter") ELSE Unwind("finally", "other")
  BY <1>2, <1>3, <1>4, <1>6, CloseOnFact, UnwindFact, RaiseFact DEF TypeInv, Tells
<1>7. ~(Host /\ owner.attempted)
  BY DEF Submit, At, AskInv
<1>8. QED
  BY <1>5, <1>6, <1>7 DEF Submit, Asked, asked, blamed

\* The adapter has been stopped.
StoppedAt(pc) == /\ MovesTo(pc)
                 /\ run'.stopped
                 /\ run'.error = run.error
                 /\ run'.closeError = run.closeError
                 /\ run'.status = run.status

\* Closing the adapter closes it, or leaves a holder and an error.
LEMMA CloseAdapterFact ==
    ASSUME TypeInv, ServerInv, CloseAdapter
    PROVE  /\ server' \in ServerType /\ KeepsOwner /\ first' \in Errors
           /\ server'.connection = "open" => server'.held # "none"
           /\ server.held = "none" => server' = server
           /\ server'.unmade = server.unmade
           /\ \/ /\ run.rescue /\ GoesOn("disconnect")
                 /\ owner' = owner /\ first' = first /\ server' = server
              \/ /\ StoppedAt(IF Host THEN "disconnect" ELSE "wait")
                 /\ ~run.rescue /\ owner' = owner /\ first' = first
                 /\ server'.held = "none"
              \/ /\ Host /\ ClosesOn("disconnect")
                 /\ Tells("closeAdapter") /\ first' # "none"
              \/ /\ ~Host /\ Unwinds("finally", "other")
                 /\ owner' = owner
<1>1. "closeAdapter" \in Causes /\ {"disconnect", "wait", "finally"} \subseteq Pcs
  BY DEF Causes, Pcs, Closing
<1>2. CASE run.rescue
  BY <1>1, <1>2, GotoFact DEF CloseAdapter, TypeInv, ServerInv, KeepsOwner
<1>3. CASE ~run.rescue
  <2>1. PICK o \in StopServer(server) :
            /\ server' = o.server
            /\ IF ~o.raised
               THEN /\ run' = [run EXCEPT !.stopped = TRUE,
                                   !.pc = IF Host THEN "disconnect" ELSE "wait"]
                    /\ UNCHANGED <<owner, first>>
               ELSE /\ Raise("closeAdapter")
                    /\ IF Host
                       THEN /\ owner' = [Blamed(owner, "closeAdapter")
                                            EXCEPT !.cleanup = TRUE]
                            /\ CloseOn("disconnect")
                       ELSE Unwind("finally", "other") /\ UNCHANGED owner
    BY <1>3 DEF CloseAdapter
  <2>2. /\ server' \in ServerType
        /\ server'.connection = "open" => server'.held # "none"
        /\ server.held = "none" => server' = server
        /\ server'.unmade = server.unmade
        /\ ~o.raised => server'.held = "none"
    BY <2>1, StopFact DEF TypeInv, ServerInv
  <2>3. CASE ~o.raised
    <3>1. owner' = owner /\ first' = first
      BY <2>1, <2>3
    <3>2. StoppedAt(IF Host THEN "disconnect" ELSE "wait")
      <4>1. CASE Host
        BY <1>1, <2>1, <2>3, <4>1, ZenonT(40) DEF TypeInv, RunType, StoppedAt, MovesTo
      <4>2. CASE ~Host
        BY <1>1, <2>1, <2>3, <4>2, ZenonT(40) DEF TypeInv, RunType, StoppedAt, MovesTo
      <4>3. QED
        BY <4>1, <4>2
    <3>3. QED
      BY <1>3, <2>2, <2>3, <3>1, <3>2 DEF TypeInv, KeepsOwner
  <2>4. CASE o.raised /\ Host
    <3>1. KeepsOwner /\ owner'.primary = IF owner.primary = "none" THEN "closeAdapter"
                                         ELSE owner.primary
      BY <2>1, <2>4, ZenonT(40) DEF Blamed, TypeInv, OwnerType, KeepsOwner, Errors, Causes
    <3>2. QED
      BY <1>1, <2>1, <2>2, <2>4, <3>1, CloseOnFact, RaiseFact DEF TypeInv, Tells
  <2>5. CASE o.raised /\ ~Host
    BY <1>1, <2>1, <2>2, <2>5, UnwindFact, RaiseFact DEF TypeInv, KeepsOwner
  <2>6. QED
    BY <2>3, <2>4, <2>5
<1>4. QED
  BY <1>2, <1>3

\* Disconnecting touches neither the process nor what is known of its end.
LEMMA DisconnectFact ==
    ASSUME TypeInv, Disconnect
    PROVE  /\ owner' \in OwnerType
           /\ owner'.process = owner.process
           /\ owner'.attempted = owner.attempted
           /\ owner'.code = owner.code
           /\ \/ /\ GoesOn("wait") /\ owner'.transport # "open"
                 /\ owner'.primary = owner.primary /\ first' = first
              \/ /\ ClosesOn("wait")
                 /\ Tells("disconnect") /\ first' \in Errors /\ first' # "none"
<1>1. "disconnect" \in Causes /\ "wait" \in Pcs
  BY DEF Causes, Pcs, Closing
<1>2. CASE owner' = [Disconnected(owner) EXCEPT !.ready = FALSE] /\ Goto("wait")
           /\ first' = first
  BY <1>1, <1>2, GotoFact DEF Disconnected, TypeInv, OwnerType
<1>3. CASE /\ owner' = [Blamed(owner, "disconnect") EXCEPT !.ready = FALSE,
                                                         !.cleanup = TRUE]
           /\ Raise("disconnect") /\ CloseOn("wait")
  <2>1. KeepsOwner /\ owner'.primary = IF owner.primary = "none" THEN "disconnect"
                                       ELSE owner.primary
    BY <1>3, ZenonT(40) DEF Blamed, TypeInv, OwnerType, KeepsOwner, Errors, Causes
  <2>2. QED
    BY <1>1, <1>3, <2>1, CloseOnFact, RaiseFact DEF TypeInv, Tells, KeepsOwner
<1>4. QED
  BY <1>2, <1>3 DEF Disconnect

\* One step of start(): it goes on, or the owner has failed.
StartFailed(here) == /\ GoesOn("report")
                     /\ owner' \in OwnerType
                     /\ owner'.attempted = owner.attempted
                     /\ owner'.code = owner.code
                     /\ Tells(here) /\ first' \in Errors /\ first' # "none"
                     /\ Records

StartedAs(pc) == /\ GoesOn(pc)
                 /\ owner' \in OwnerType
                 /\ owner'.attempted = owner.attempted
                 /\ owner'.code = owner.code
                 /\ owner'.primary = owner.primary /\ first' = first
                 /\ Records

\* A step of start goes on to the next, or fails where it is.
LEMMA StartsFact ==
    ASSUME TypeInv, Start
    PROVE  /\ run.pc \in {"launch", "identify", "connect", "await"}
           /\ obs' \in ObsType
           /\ obs' = obs \/ run.pc = "launch"
           /\ \/ StartFailed(run.pc)
              \/ \E next \in {"identify", "connect", "await", "gate"} : StartedAs(next)
<1>1. /\ {"launch", "identify", "connect", "await"} \subseteq Causes
      /\ {"identify", "connect", "await", "gate", "report"} \subseteq Pcs
  BY DEF Causes, Pcs, Early, HostOnly, Failing
<1>2. ASSUME NEW here \in {"launch", "identify", "connect", "await"}, run.pc = here,
             Goto("report"), Raise(here), Failure(owner, here)
      PROVE  StartFailed(here)
  BY <1>1, <1>2, GotoFact, RaiseFact, OwnerFails
  DEF TypeInv, StartFailed, Tells, KeepsOwner
<1>3. CASE StartStep("launch", "identify", Launch, LaunchFails \/ LaunchedButFails)
  <2>1. run.pc = "launch"
    BY <1>3 DEF StartStep, At
  <2>2. CASE Launch /\ Goto("identify") /\ first' = first
    BY <1>1, <2>1, <2>2, GotoFact
    DEF Launch, TypeInv, ObsType, OwnerType, StartedAs, Records
  <2>3. CASE LaunchFails /\ Goto("report") /\ Raise("launch")
    BY <1>2, <2>1, <2>3 DEF LaunchFails, TypeInv
  <2>4. CASE LaunchedButFails /\ Goto("report") /\ Raise("launch")
    <3> DEFINE o == [owner EXCEPT !.process = TRUE]
    <3>1. /\ o \in OwnerType /\ o.code = owner.code /\ o.primary = owner.primary
          /\ o.attempted = owner.attempted
      BY DEF TypeInv, OwnerType
    <3>2. Failure(o, "launch") /\ obs' \in ObsType
      BY <2>4 DEF LaunchedButFails, TypeInv, ObsType
    <3> HIDE DEF o
    <3>3. StartFailed("launch")
      BY <1>1, <2>4, <3>1, <3>2, GotoFact, RaiseFact, FailureFact
      DEF TypeInv, StartFailed, Tells, Records
    <3>4. QED
      BY <2>1, <3>2, <3>3
  <2>5. QED
    BY <1>3, <2>2, <2>3, <2>4 DEF StartStep
<1>4. CASE StartStep("identify", "connect", Identify, StartFails("identify"))
  <2>1. run.pc = "identify"
    BY <1>4 DEF StartStep, At
  <2>2. CASE Identify /\ Goto("connect") /\ first' = first
    BY <1>1, <2>1, <2>2, GotoFact DEF Identify, TypeInv, RecordedState, StartedAs, Records
  <2>3. CASE StartFails("identify") /\ Goto("report") /\ Raise("identify")
    BY <1>2, <2>1, <2>3 DEF StartFails, TypeInv
  <2>4. QED
    BY <1>4, <2>2, <2>3 DEF StartStep
<1>5. CASE StartStep("connect", "await", Connect, StartFails("connect"))
  <2>1. run.pc = "connect"
    BY <1>5 DEF StartStep, At
  <2>2. CASE Connect /\ Goto("await") /\ first' = first
    BY <1>1, <2>1, <2>2, GotoFact DEF Connect, TypeInv, OwnerType, StartedAs, Records
  <2>3. CASE StartFails("connect") /\ Goto("report") /\ Raise("connect")
    BY <1>2, <2>1, <2>3 DEF StartFails, TypeInv
  <2>4. QED
    BY <1>5, <2>2, <2>3 DEF StartStep
<1>6. CASE StartStep("await", "gate", BecomeReady, StartFails("await"))
  <2>1. run.pc = "await"
    BY <1>6 DEF StartStep, At
  <2>2. CASE BecomeReady /\ Goto("gate") /\ first' = first
    BY <1>1, <2>1, <2>2, GotoFact
    DEF BecomeReady, RecordedState, TypeInv, OwnerType, StartedAs, Records
  <2>3. CASE StartFails("await") /\ Goto("report") /\ Raise("await")
    BY <1>2, <2>1, <2>3 DEF StartFails, TypeInv
  <2>4. QED
    BY <1>6, <2>2, <2>3 DEF StartStep
<1>7. QED
  BY <1>3, <1>4, <1>5, <1>6 DEF Start

\* The wait of close: the verdict is reached with the exit known, or with an error.
LEMMA AwaitExitFact ==
    ASSUME TypeInv, AwaitExit
    PROVE  /\ obs' = obs
           /\ \/ /\ GoesOn("verdict") /\ KnowsExit /\ record' = "TERMINAL"
                 /\ owner'.primary = owner.primary /\ first' = first
              \/ /\ ClosesOn("verdict")
                 /\ KnowsExit \/ (KeepsOwner /\ Records)
                 /\ Tells("wait") /\ first' \in Errors /\ first' # "none"
<1>1. "wait" \in Causes /\ "verdict" \in Pcs
  BY DEF Causes, Pcs, Closing
<1>2. CASE WaitReturns /\ Goto("verdict") /\ first' = first
  BY <1>1, <1>2, GotoFact, WaitReturnsFact DEF TypeInv, WaitReturns
<1>3. CASE WaitUnrecorded /\ Raise("wait") /\ CloseOn("verdict")
  BY <1>1, <1>3, CloseOnFact, RaiseFact, WaitUnrecordedFact
  DEF TypeInv, WaitUnrecorded, Tells
<1>4. CASE WaitFails /\ Raise("wait") /\ CloseOn("verdict")
  BY <1>1, <1>4, CloseOnFact, RaiseFact, OwnerFails DEF TypeInv, WaitFails, Tells
<1>5. QED
  BY <1>2, <1>3, <1>4 DEF AwaitExit, CloseOn

\* The verdict lets only an OBS that ended with code 0 through to the publication.
LEMMA VerdictFact ==
    ASSUME TypeInv, PlaceInv, Verdict
    PROVE  /\ KeepsOwner /\ Records
           /\ \/ /\ run.closeError /\ Tells("close") /\ first' \in Errors /\ first' # "none"
                 /\ \/ run.rescue /\ Unwinds("fail", "other")
                    \/ ~run.rescue /\ Unwinds("finally", "owned")
              \/ /\ ~run.closeError /\ owner' = owner /\ record' = record /\ first' = first
                 /\ \/ run.rescue /\ GoesOn("fail")
                    \/ ~run.rescue /\ owner.code = 0 /\ GoesOn("publish")
              \/ /\ ~run.closeError /\ ~run.rescue /\ Unwinds("finally", "other")
                 /\ Tells("code") /\ first' \in Errors /\ first' # "none"
<1>1. {"close", "code"} \subseteq Causes /\ {"fail", "finally", "publish"} \subseteq Pcs
  BY DEF Causes, Pcs, Closing, HostOnly, Failing
<1>2. Host
  BY DEF Verdict, At, PlaceInv, HostOnly
<1>3. CASE run.closeError
  BY <1>1, <1>3, UnwindFact, RaiseFact, OwnerFails
  DEF Verdict, CloseRaises, TypeInv, Tells
<1>4. CASE ~run.closeError /\ run.rescue
  BY <1>1, <1>4, GotoFact DEF Verdict, TypeInv, KeepsOwner, Records
<1>5. CASE ~run.closeError /\ ~run.rescue /\ owner.code = 0
  BY <1>1, <1>5, GotoFact DEF Verdict, TypeInv, KeepsOwner, Records
<1>6. CASE ~run.closeError /\ ~run.rescue /\ owner.code # 0
  BY <1>1, <1>2, <1>6, FailsFact DEF Failed, Verdict, TypeInv, Records
<1>7. QED
  BY <1>3, <1>4, <1>5, <1>6

\* The last attempt at the adapter closes it, or leaves a holder and a failed program.
LEMMA FinallyFact ==
    ASSUME TypeInv, ServerInv, Finally
    PROVE  /\ server' \in ServerType /\ KeepsOwner /\ first' \in Errors
           /\ server'.connection = "open" => server'.held # "none"
           /\ server.held = "none" => server' = server
           /\ server'.unmade = server.unmade
           /\ \/ /\ Host /\ Unwinds("report", "owned") /\ Records
                 /\ Tells("finally") /\ first' # "none"
              \/ /\ ~Host /\ Exits("failed")
                 /\ owner' = owner /\ record' = record
              \/ /\ owner' = owner /\ record' = record /\ first' = first
                 /\ \/ run.error = "none" /\ Exits("ok") /\ server'.connection # "open"
                    \/ run.error = "owned" /\ GoesOn("report")
                    \/ run.error = "other" /\ Host /\ GoesOn("rescue")
<1>1. "finally" \in Causes /\ {"report", "rescue"} \subseteq Pcs
  BY DEF Causes, Pcs, HostOnly, Failing
<1>2. PICK o \in IF run.stopped THEN {Outcome(server, FALSE)} ELSE StopServer(server) :
          /\ server' = o.server
          /\ IF o.raised /\ Host
             THEN /\ Failure([owner EXCEPT !.cleanup = TRUE], "finally")
                  /\ Unwind("report", "owned")
                  /\ Raise("finally")
             ELSE /\ UNCHANGED <<owner, record>>
                  /\ IF o.raised THEN Exit("failed") /\ Raise("finally")
                     ELSE /\ UNCHANGED first
                          /\ \/ run.error = "none" /\ Exit("ok")
                             \/ run.error = "owned" /\ Goto("report")
                             \/ run.error = "other" /\ Host /\ Goto("rescue")
                             \/ run.error = "other" /\ ~Host /\ Exit("failed")
  BY DEF Finally
<1>3. /\ server' \in ServerType
      /\ server'.connection = "open" => server'.held # "none"
      /\ server.held = "none" => server' = server
      /\ server'.unmade = server.unmade
      /\ ~o.raised => server'.connection # "open"
  <2>1. CASE run.stopped
    <3>1. o = Outcome(server, FALSE)
      BY <1>2, <2>1
    <3>2. server' = server /\ server.held = "none"
      BY <1>2, <2>1, <3>1 DEF Outcome, ServerInv
    <3>3. QED
      BY <3>2 DEF TypeInv, ServerInv
  <2>2. CASE ~run.stopped
    BY <1>2, <2>2, StopFact DEF TypeInv, ServerInv
  <2>3. QED
    BY <2>1, <2>2
<1>4. CASE o.raised /\ Host
  <2> DEFINE q == [owner EXCEPT !.cleanup = TRUE]
  <2>1. /\ q \in OwnerType /\ q.process = owner.process /\ q.code = owner.code
        /\ q.attempted = owner.attempted /\ q.transport = owner.transport
        /\ q.primary = owner.primary
    BY DEF TypeInv, OwnerType
  <2>2. Failure(q, "finally") /\ Unwind("report", "owned") /\ Raise("finally")
    BY <1>2, <1>4
  <2> HIDE DEF q
  <2>3. QED
    BY <1>1, <1>3, <1>4, <2>1, <2>2, UnwindFact, RaiseFact, FailureFact
    DEF TypeInv, KeepsOwner, Records, Tells
<1>5. CASE o.raised /\ ~Host
  BY <1>1, <1>2, <1>3, <1>5, ExitFact, RaiseFact DEF TypeInv, KeepsOwner
<1>6. CASE ~o.raised
  BY <1>1, <1>2, <1>3, <1>6, ExitFact, GotoFact DEF TypeInv, KeepsOwner
<1>7. QED
  BY <1>4, <1>5, <1>6

\* The rescue submits only if close has not done so.
LEMMA RescueFact ==
    ASSUME TypeInv, Rescue
    PROVE  \/ GoesOn("fail")
           \/ /\ ~owner.attempted
              /\ run' \in RunType /\ run'.pc = "submit" /\ run'.rescue /\ ~run'.closeError
              /\ run'.stopped = run.stopped /\ run'.step = run.step
              /\ run'.error = run.error /\ run'.status = run.status
<1>1. {"fail", "submit"} \subseteq Pcs
  BY DEF Pcs, Closing, HostOnly, Failing
<1>2. CASE owner.ready /\ ~owner.attempted
  BY <1>1, <1>2 DEF Rescue, TypeInv, RunType
<1>3. CASE ~(owner.ready /\ ~owner.attempted)
  BY <1>1, <1>3, GotoFact DEF Rescue, TypeInv
<1>4. QED
  BY <1>2, <1>3

\* The failure that is raised blames the error that is already known.
LEMMA FailRunFact ==
    ASSUME TypeInv, FailRun
    PROVE  /\ GoesOn("report") /\ KeepsOwner /\ Records
           /\ owner.primary # "none" => owner'.primary = owner.primary
<1>1. "acceptance" \in Causes /\ "report" \in Pcs
  BY DEF Causes, Pcs, HostOnly, Failing
<1>2. QED
  BY <1>1, GotoFact, OwnerFails DEF FailRun, TypeInv

\* Before the program waits for good it lets the connection go, not the process.
LEMMA RetainFact ==
    ASSUME TypeInv, Retain
    PROVE  /\ GoesOn("hold")
           /\ owner' \in OwnerType
           /\ owner'.process = owner.process
           /\ owner'.attempted = owner.attempted
           /\ owner'.code = owner.code
           /\ owner'.primary = owner.primary
           /\ owner.transport # "open" => owner'.transport # "open"
<1>1. "hold" \in Pcs
  BY DEF Pcs, HostOnly, Failing
<1>2. CASE owner' = Disconnected(owner)
  BY <1>1, <1>2, GotoFact DEF Retain, Disconnected, TypeInv, OwnerType
<1>3. CASE owner.transport = "open" /\ owner' = [owner EXCEPT !.cleanup = TRUE]
  BY <1>1, <1>3, GotoFact DEF Retain, TypeInv, OwnerType
<1>4. QED
  BY <1>2, <1>3 DEF Retain

\* The program is let go only when the process has never been started or has ended.
LEMMA HoldFact ==
    ASSUME TypeInv, Hold
    PROVE  /\ obs' = obs
           /\ \/ /\ GoesOn("final") /\ owner' = owner /\ record' = record
                 /\ ~owner.process \/ owner.code # NoCode
              \/ /\ run' = run /\ owner.process /\ owner.code = NoCode
                 /\ KnowsExit \/ (KeepsOwner /\ Records)
                 /\ owner.primary # "none" => owner'.primary = owner.primary
<1>1. "wait" \in Causes /\ "final" \in Pcs
  BY DEF Causes, Pcs, HostOnly, Failing
<1>2. CASE ~owner.process \/ owner.code # NoCode
  BY <1>1, <1>2, GotoFact DEF Hold, TypeInv, hostVars
<1>3. CASE owner.process /\ owner.code = NoCode
  <2>1. CASE WaitReturns /\ run' = run
    BY <1>3, <2>1, WaitReturnsFact DEF TypeInv, WaitReturns
  <2>2. CASE WaitUnrecorded /\ run' = run
    BY <1>3, <2>2, WaitUnrecordedFact DEF TypeInv, WaitUnrecorded
  <2>3. CASE WaitFails /\ run' = run
    BY <1>1, <1>3, <2>3, OwnerFails DEF TypeInv, WaitFails
  <2>4. QED
    BY <1>3, <2>1, <2>2, <2>3 DEF Hold
<1>4. QED
  BY <1>2, <1>3

(* Where these actions take place, and what they leave alone.              *)
LEMMA FrameFact ==
    /\ Start => UNCHANGED <<scenario, server, job, graph, output, requests, said,
                            disturbed>>
    /\ Submit => /\ run.pc = "submit"
                 /\ UNCHANGED <<scenario, server, job, graph, output, said, disturbed>>
    /\ CloseAdapter => /\ run.pc = "closeAdapter"
                       /\ UNCHANGED <<obs, record, scenario, job, graph, output,
                                      requests, said, disturbed>>
    /\ Disconnect => /\ run.pc = "disconnect"
                     /\ UNCHANGED <<obs, record, scenario, server, job, graph, output,
                                    requests, said, disturbed>>
    /\ AwaitExit => /\ run.pc = "wait" /\ Host
                    /\ UNCHANGED <<scenario, server, job, graph, output, requests,
                                   said, disturbed>>
    /\ Verdict => /\ run.pc = "verdict"
                  /\ UNCHANGED <<obs, scenario, server, job, graph, output, requests,
                                 said, disturbed>>
    /\ Finally => /\ run.pc = "finally"
                  /\ UNCHANGED <<obs, scenario, job, graph, output, requests, said,
                                 disturbed>>
    /\ Rescue => /\ run.pc = "rescue"
                 /\ UNCHANGED <<obs, owner, record, scenario, server, job, graph, output,
                                requests, first, said, disturbed>>
    /\ FailRun => /\ run.pc = "fail"
                  /\ UNCHANGED <<obs, scenario, server, job, graph, output, requests, first,
                                 said, disturbed>>
    /\ Retain => /\ run.pc = "retain"
                 /\ UNCHANGED <<obs, record, scenario, server, job, graph, output, requests,
                                first, said, disturbed>>
    /\ Hold => /\ run.pc = "hold"
               /\ UNCHANGED <<scenario, server, job, graph, output, requests, first,
                              said, disturbed>>
<1>1. Start => UNCHANGED <<scenario, server, job, graph, output, requests, said,
                           disturbed>>
  BY DEF Start, StartStep
<1>2. /\ Submit => /\ run.pc = "submit"
                   /\ UNCHANGED <<scenario, server, job, graph, output, said, disturbed>>
      /\ CloseAdapter => /\ run.pc = "closeAdapter"
                         /\ UNCHANGED <<obs, record, scenario, job, graph, output, requests,
                                        said, disturbed>>
      /\ Disconnect => /\ run.pc = "disconnect"
                       /\ UNCHANGED <<obs, record, scenario, server, job, graph, output,
                                      requests, said, disturbed>>
  BY DEF Submit, CloseAdapter, Disconnect, At
<1>3. /\ AwaitExit => /\ run.pc = "wait" /\ Host
                      /\ UNCHANGED <<scenario, server, job, graph, output, requests,
                                     said, disturbed>>
      /\ Verdict => /\ run.pc = "verdict"
                    /\ UNCHANGED <<obs, scenario, server, job, graph, output, requests,
                                   said, disturbed>>
      /\ Finally => /\ run.pc = "finally"
                    /\ UNCHANGED <<obs, scenario, job, graph, output, requests, said,
                                   disturbed>>
  BY DEF AwaitExit, Verdict, Finally, At
<1>4. /\ Rescue => /\ run.pc = "rescue"
                   /\ UNCHANGED <<obs, owner, record, scenario, server, job, graph, output,
                                  requests, first, said, disturbed>>
      /\ FailRun => /\ run.pc = "fail"
                    /\ UNCHANGED <<obs, scenario, server, job, graph, output, requests,
                                   first, said, disturbed>>
      /\ Retain => /\ run.pc = "retain"
                   /\ UNCHANGED <<obs, record, scenario, server, job, graph, output,
                                  requests, first, said, disturbed>>
      /\ Hold => /\ run.pc = "hold"
                 /\ UNCHANGED <<scenario, server, job, graph, output, requests, first,
                                said, disturbed>>
  BY DEF Rescue, FailRun, Retain, Hold, At, hostVars, histories
<1>5. QED
  BY <1>1, <1>2, <1>3, <1>4

\* The gate opens, or fails towards the rescue (owned) or the end (attached).
LEMMA GateFact ==
    ASSUME TypeInv, Gate
    PROVE  /\ run.pc = "gate"
           /\ UNCHANGED <<obs, record, scenario, server, job, graph, output, requests,
                          said, disturbed>>
           /\ KeepsOwner /\ first' \in Errors
           /\ \/ GoesOn("adapter") /\ owner' = owner /\ first' = first
              \/ Host /\ Unwinds("rescue", "other") /\ Tells("gate") /\ first' # "none"
              \/ ~Host /\ Exits("failed") /\ owner' = owner
<1>1. "gate" \in Causes /\ {"adapter", "rescue"} \subseteq Pcs
  BY DEF Causes, Pcs, Early, HostOnly, Failing
<1>2. /\ run.pc = "gate"
      /\ UNCHANGED <<obs, record, scenario, server, job, graph, output, requests, said,
                     disturbed>>
  BY DEF Gate, At
<1>3. CASE Goto("adapter") /\ owner' = owner /\ first' = first
  BY <1>1, <1>2, <1>3, GotoFact DEF TypeInv, KeepsOwner
<1>4. CASE /\ Host /\ Unwind("rescue", "other") /\ Raise("gate")
           /\ owner' = Blamed(owner, "gate")
  <2>1. KeepsOwner /\ owner'.primary = IF owner.primary = "none" THEN "gate"
                                       ELSE owner.primary
    BY <1>4 DEF Blamed, TypeInv, OwnerType, KeepsOwner, Errors, Causes
  <2>2. QED
    BY <1>1, <1>2, <1>4, <2>1, UnwindFact, RaiseFact DEF TypeInv, Tells
<1>5. CASE ~Host /\ Exit("failed") /\ Raise("gate") /\ owner' = owner
  BY <1>1, <1>2, <1>5, ExitFact, RaiseFact DEF TypeInv, KeepsOwner
<1>6. QED
  BY <1>3, <1>4, <1>5 DEF Gate

\* OBS, once it leaves, can only end.
LEMMA HostStepFact ==
    ASSUME TypeInv, HostStep
    PROVE  /\ obs' \in ObsType
           /\ obs.phase # "exited"
           /\ obs.phase = "leaving" => obs'.phase \in {"leaving", "exited"}
           /\ UNCHANGED <<owner, record, scenario, run, server, job, graph, output, requests,
                          first, said, disturbed>>
  BY DEF HostStep, ObsBoots, PortIsTaken, ObsExits, TypeInv, ObsType, histories, run1

(* What has been printed.                                                  *)
LEMMA AppendFact ==
    ASSUME NEW s \in Seq(Reports), NEW r \in Reports
    PROVE  Append(s, r) \in Seq(Reports) /\ Range(Append(s, r)) = Range(s) \cup {r}
<1>1. /\ Append(s, r) \in Seq(Reports)
      /\ DOMAIN Append(s, r) = 1..(Len(s) + 1) /\ DOMAIN s = 1..Len(s) /\ Len(s) \in Nat
      /\ \A i \in 1..Len(s) : Append(s, r)[i] = s[i]
      /\ Append(s, r)[Len(s) + 1] = r
  OBVIOUS
<1>2. QED
  BY <1>1 DEF Range

\* The report says nothing of the process that is not known.
LEMMA ReportFact ==
    ASSUME TypeInv, Report
    PROVE  /\ said' \in Seq(Reports)
           /\ "NOT_STARTED" \in Range(said') => "NOT_STARTED" \in Range(said)
           /\ "TERMINAL" \in Range(said') => \/ "TERMINAL" \in Range(said)
                                             \/ owner.code # NoCode
  BY AppendFact, ZenonT(40) DEF Report, TypeInv, Reports

\* Nor does the last line that is printed.
LEMMA FinalFact ==
    ASSUME TypeInv, Final
    PROVE  /\ said' \in Seq(Reports)
           /\ "NOT_STARTED" \in Range(said') => \/ "NOT_STARTED" \in Range(said)
                                                \/ owner.code = NoCode
           /\ "TERMINAL" \in Range(said') => \/ "TERMINAL" \in Range(said)
                                             \/ owner.code # NoCode
  BY AppendFact DEF Final, TypeInv, Reports

(* The jobs of the adapter.                                                *)
LEMMA CallToolFact ==
    ASSUME TypeInv, CallTool
    PROVE  /\ run.pc = "exercise" /\ job.state = "none"
           /\ job' \in JobType /\ job'.state = "running" /\ job'.step = run.step
           /\ UNCHANGED <<obs, owner, record, run, scenario, server, graph, output, requests,
                          first, said, disturbed>>
  BY DEF CallTool, At, TypeInv, JobType, RunType, hostVars, run1, histories

\* A performed call is followed by the next step of the script.
LEMMA ToolReturnsFact ==
    ASSUME TypeInv, ToolReturns
    PROVE  /\ run.pc = "exercise" /\ job.state = "performed"
           /\ job' \in JobType /\ job'.state = "none"
           /\ run' \in RunType /\ run'.step = run.step + 1
           /\ run'.pc = IF run.step = 27 THEN "evidence" ELSE "exercise"
           /\ run'.rescue = run.rescue /\ run'.stopped = run.stopped
           /\ run'.error = run.error /\ run'.closeError = run.closeError
           /\ run'.status = run.status
           /\ UNCHANGED <<obs, owner, record, scenario, server, graph, output, requests,
                          first, said, disturbed>>
<1>1. {"evidence", "exercise"} \subseteq Pcs
  BY DEF Pcs, Early
<1>2. /\ run.pc = "exercise" /\ job.state = "performed" /\ job' = NoJob
      /\ UNCHANGED <<obs, owner, record, scenario, server, graph, output, requests,
                     first, said, disturbed>>
  BY DEF ToolReturns, At, hostVars, histories
<1>3. NoJob \in JobType /\ NoJob.state = "none"
  BY DEF NoJob, JobType
<1>4. CASE run.step = 27
  <2>1. run' = [run EXCEPT !.step = run.step + 1, !.pc = "evidence"]
    BY <1>4, ScriptFact DEF ToolReturns
  <2>2. run.step + 1 \in Nat \ {0}
    BY DEF TypeInv, RunType
  <2>3. /\ run' \in RunType /\ run'.step = run.step + 1 /\ run'.pc = "evidence"
        /\ run'.rescue = run.rescue /\ run'.stopped = run.stopped
        /\ run'.error = run.error /\ run'.closeError = run.closeError
        /\ run'.status = run.status
    BY <1>1, <2>1, <2>2 DEF TypeInv, RunType
  <2>4. QED
    BY <1>2, <1>3, <1>4, <2>3
<1>5. CASE run.step # 27
  <2>1. run' = [run EXCEPT !.step = run.step + 1]
    BY <1>5, ScriptFact DEF ToolReturns, TypeInv, RunType
  <2>2. QED
    BY <1>1, <1>2, <1>3, <1>5, <2>1, SMTT(30) DEF TypeInv, RunType
<1>6. QED
  BY <1>4, <1>5

\* A call that fails fails the run.
LEMMA ToolFailsFact ==
    ASSUME TypeInv, ToolFails
    PROVE  /\ run.pc = "exercise" /\ job' \in JobType /\ Failed("exercise")
           /\ UNCHANGED <<obs, record, scenario, server, graph, output, requests, said,
                          disturbed>>
<1>1. run.pc = "exercise" /\ job' \in JobType /\ Fails("exercise")
  BY DEF ToolFails, At, TypeInv, JobType, NoJob
<1>2. "exercise" \in Causes
  BY DEF Causes
<1>3. QED
  BY <1>1, <1>2, FailsFact DEF ToolFails, TypeInv

\* A running call is performed by an OBS that serves, or fails without effect.
LEMMA JobEndsFact ==
    ASSUME TypeInv, JobEnds
    PROVE  /\ job.state = "running"
           /\ job' \in JobType /\ job'.step = job.step
           /\ \/ /\ job'.state = "performed" /\ obs.phase = "serving"
                 /\ graph' = Performed(graph, Script[job.step])
              \/ job'.state = "failed" /\ graph' = graph
           /\ UNCHANGED <<obs, owner, record, run, scenario, server, output, requests, first,
                          said, disturbed>>
  BY DEF JobEnds, TypeInv, JobType, hostVars, run1, histories

(* What becomes of the acceptance scenes in a step of the script.          *)
LEMMA PerformedFact ==
    ASSUME NEW g, DOMAIN g = DOMAIN PreparedGraph, NEW step
    PROVE  /\ DOMAIN Performed(g, step) = DOMAIN PreparedGraph
           /\ step.tool # "set_studio_mode" => Performed(g, step).studio = g.studio
           /\ step.tool = "set_studio_mode" /\ step.argument = "off" =>
                 Performed(g, step).studio = FALSE
           /\ step.tool = "create_scene" => step.argument \in Performed(g, step).scenes
           /\ step.tool # "remove_scene" => g.scenes \subseteq Performed(g, step).scenes
           /\ step.tool = "set_current_scene" => Performed(g, step).current = step.argument
           /\ step.tool \notin {"set_current_scene", "trigger_transition",
                               "transition_to_program"} =>
                 Performed(g, step).current = g.current
           /\ step.tool = "remove_scene" =>
                 /\ g.scenes \ {step.argument} \subseteq Performed(g, step).scenes
                 /\ step.argument \notin Performed(g, step).scenes
                 /\ Performed(g, step).scenes \subseteq g.scenes
                 /\ step.argument = "program" => Performed(g, step).source = FALSE
  BY DEF Performed, PreparedGraph

(* The short actions.                                                      *)
LEMMA PrepareFact ==
    ASSUME TypeInv, Prepare
    PROVE  /\ run.pc = "prepare"
           /\ \/ Host /\ GoesOn("launch")
              \/ ~Host /\ GoesOn("gate")
              \/ Host /\ Exits("failed")
           /\ UNCHANGED <<obs, owner, record, scenario, server, job, graph, output, requests,
                          first, said, disturbed>>
<1>1. {"launch", "gate"} \subseteq Pcs
  BY DEF Pcs, Early
<1>2. QED
  BY <1>1, GotoFact, ExitFact DEF Prepare, At, TypeInv, hostVars, histories

\* An adapter whose construction or start fails is not left without a holder.
LEMMA StartAdapterFact ==
    ASSUME TypeInv, ServerInv, StartAdapter
    PROVE  /\ run.pc = "adapter"
           /\ server' \in ServerType
           /\ server'.connection = "open" => server'.held # "none"
           /\ \/ /\ GoesOn("session") /\ owner' = owner /\ first' = first
                 /\ server'.unmade = server.unmade
              \/ Failed("adapter")
           /\ UNCHANGED <<obs, record, scenario, job, graph, output, requests, said,
                          disturbed>>
<1>1. "adapter" \in Causes /\ "session" \in Pcs
  BY DEF Causes, Pcs, Early
<1>2. PICK o \in StartServer(server, obs.phase = "serving") :
          /\ server' = o.server
          /\ IF o.raised THEN Fails("adapter")
             ELSE Goto("session") /\ UNCHANGED <<owner, first, disturbed>>
  BY DEF StartAdapter
<1>3. /\ server' \in ServerType
      /\ server'.connection = "open" => server'.held # "none"
      /\ ~o.raised => server'.unmade = server.unmade
  BY <1>2, StartFact DEF TypeInv, ServerInv
<1>4. /\ run.pc = "adapter"
      /\ UNCHANGED <<obs, record, scenario, job, graph, output, requests, said,
                     disturbed>>
  BY DEF StartAdapter, At
<1>5. QED
  BY <1>1, <1>2, <1>3, <1>4, GotoFact, FailsFact DEF TypeInv

\* The session with the adapter opens, or the run fails.
LEMMA InitializeFact ==
    ASSUME TypeInv, Initialize
    PROVE  /\ run.pc = "session"
           /\ \/ GoesOn("exercise") /\ owner' = owner /\ first' = first
              \/ Failed("session")
           /\ UNCHANGED <<obs, record, scenario, server, job, graph, output, requests,
                          said, disturbed>>
<1>1. "session" \in Causes /\ "exercise" \in Pcs
  BY DEF Causes, Pcs, Early
<1>2. QED
  BY <1>1, GotoFact, FailsFact DEF Initialize, At, TypeInv

\* The evidence is built, or the run fails.
LEMMA BuildEvidenceFact ==
    ASSUME TypeInv, BuildEvidence
    PROVE  /\ run.pc = "evidence"
           /\ \/ GoesOn("submit") /\ owner' = owner /\ first' = first
              \/ Failed("evidence")
           /\ UNCHANGED <<obs, record, scenario, server, job, graph, output, requests,
                          said, disturbed>>
<1>1. "evidence" \in Causes /\ "submit" \in Pcs
  BY DEF Causes, Pcs, Closing
<1>2. QED
  BY <1>1, GotoFact, FailsFact DEF BuildEvidence, At, TypeInv

\* An attached run publishes only after OBS has ended with code 0.
LEMMA AwaitForeignExitFact ==
    ASSUME TypeInv, AwaitForeignExit
    PROVE  /\ run.pc = "wait" /\ ~Host
           /\ \/ /\ obs.phase = "exited" /\ obs.code = 0
                 /\ GoesOn("publish") /\ first' = first
              \/ Unwinds("finally", "other") /\ first' \in Errors
           /\ UNCHANGED <<obs, owner, record, scenario, server, job, graph, output, requests,
                          said, disturbed>>
<1>1. "wait" \in Causes /\ {"publish", "finally"} \subseteq Pcs
  BY DEF Causes, Pcs, Closing
<1>2. QED
  BY <1>1, GotoFact, UnwindFact, RaiseFact DEF AwaitForeignExit, At, TypeInv, hostVars

\* The evidence is on disk as a whole when publishing succeeds.
LEMMA PublishFact ==
    ASSUME TypeInv, Publish
    PROVE  /\ run.pc = "publish"
           /\ \/ GoesOn("finally") /\ output' = "whole" /\ owner' = owner /\ first' = first
              \/ Failed("publish")
           /\ UNCHANGED <<obs, record, scenario, server, job, graph, requests, said,
                          disturbed>>
<1>1. "publish" \in Causes /\ "finally" \in Pcs
  BY DEF Causes, Pcs
<1>2. QED
  BY <1>1, GotoFact, FailsFact DEF Publish, At, TypeInv

\* A sidecar ends well only with its connection closed.
LEMMA SidecarFact ==
    ASSUME TypeInv, ServerInv, SidecarStep \/ Signal
    PROVE  /\ run.pc \in SidecarOnly
           /\ server' \in ServerType
           /\ server'.connection = "open" => server'.held # "none"
           /\ \/ /\ \E next \in {"serve", "stop"} : GoesOn(next)
                 /\ server'.unmade = server.unmade
              \/ Exits("failed")
              \/ /\ Exits("ok") /\ server'.connection # "open"
                 /\ server'.unmade = server.unmade
           /\ UNCHANGED <<obs, owner, record, scenario, job, graph, output, requests, first,
                          said, disturbed>>
<1>1. {"serve", "stop"} \subseteq Pcs
  BY DEF Pcs, SidecarOnly
<1>2. UNCHANGED <<obs, owner, record, scenario, job, graph, output, requests, first,
                  said, disturbed>>
  BY DEF SidecarStep, Signal, hostVars, histories
<1>3. CASE run.pc = "bind" /\ SidecarStep
  <2>1. CASE server' = server /\ Exit("failed")
    BY <1>2, <1>3, <2>1, ExitFact DEF TypeInv, ServerInv, SidecarOnly
  <2>2. ASSUME NEW bound, NEW o \in StartServer(server, bound),
               server' = o.server,
               IF o.raised THEN Exit("failed") ELSE Goto("serve")
        PROVE  /\ server' \in ServerType
               /\ server'.connection = "open" => server'.held # "none"
               /\ \/ GoesOn("serve") /\ server'.unmade = server.unmade
                  \/ Exits("failed")
    BY <1>1, <2>2, StartFact, GotoFact, ExitFact DEF TypeInv, ServerInv
  <2>3. QED
    BY <1>2, <1>3, <2>1, <2>2 DEF SidecarStep, Sidecar, At, SidecarOnly
<1>4. CASE run.pc = "stop" /\ SidecarStep
  <2>1. PICK o \in StopServer(server) :
            /\ server' = o.server
            /\ Exit(IF o.raised THEN "failed" ELSE "ok")
    BY <1>4 DEF SidecarStep, Sidecar, At
  <2>2. CASE o.raised
    BY <1>2, <1>4, <2>1, <2>2, StopFact, ExitFact DEF TypeInv, ServerInv, SidecarOnly
  <2>3. CASE ~o.raised
    BY <1>2, <1>4, <2>1, <2>3, StopFact, ExitFact DEF TypeInv, ServerInv, SidecarOnly
  <2>4. QED
    BY <2>2, <2>3
<1>5. CASE run.pc = "serve"
  <2>1. server' = server /\ Goto("stop")
    BY <1>5 DEF SidecarStep, Sidecar, Signal, At
  <2>2. QED
    BY <1>1, <1>2, <1>5, <2>1, GotoFact DEF TypeInv, ServerInv, SidecarOnly
<1>6. QED
  BY <1>3, <1>4, <1>5 DEF SidecarStep, Sidecar, Signal, At

\* The user of OBS starts or stops a recording and changes nothing else.
LEMMA DisturbFact ==
    ASSUME TypeInv, Disturb
    PROVE  /\ obs.phase \in {"serving", "leaving"}
           /\ disturbed' \in Nat /\ disturbed' > 0
           /\ DOMAIN graph' = DOMAIN PreparedGraph
           /\ graph'.scenes = graph.scenes /\ graph'.current = graph.current
           /\ graph'.studio = graph.studio /\ graph'.source = graph.source
           /\ UNCHANGED <<obs, owner, record, scenario, run, server, job, output, requests,
                          first, said>>
  BY DEF Disturb, TypeInv, PreparedGraph, hostVars, run1, histories

\* What is printed changes nothing but the place of the program.
LEMMA ReportMoves ==
    ASSUME TypeInv, Report \/ Final
    PROVE  /\ Report => run.pc = "report" /\ GoesOn("retain")
           /\ Final => run.pc = "final" /\ Exits("failed")
           /\ UNCHANGED <<obs, owner, record, scenario, server, job, graph, output, requests,
                          first, disturbed>>
<1>1. "retain" \in Pcs
  BY DEF Pcs, HostOnly, Failing
<1>2. QED
  BY <1>1, GotoFact, ExitFact DEF Report, Final, At, TypeInv, hostVars

-----------------------------------------------------------------------------
(* Each part of the invariant is preserved.                                *)

USE DEF Host, MovesTo, GoesOn, Exits, Unwinds, ClosesOn, StoppedAt, Failed, StartFailed,
           StartedAs, Tells, Records, KeepsOwner, KnowsExit, Pcs, Early, Closing, HostOnly,
           SidecarOnly, Failing, Causes

(* The types. *)
LEMMA TypeStep ==
    ASSUME TypeInv, PlaceInv, AskInv, ServerInv, [Next]_vars
    PROVE  TypeInv'
<1>1. CASE Prepare \/ Start
  BY <1>1, PrepareFact, StartsFact, FrameFact DEF TypeInv
<1>2. CASE Gate \/ StartAdapter \/ Initialize
  BY <1>2, GateFact, StartAdapterFact, InitializeFact DEF TypeInv
<1>3. CASE CallTool \/ ToolReturns
  BY <1>3, CallToolFact, ToolReturnsFact DEF TypeInv
<1>4. CASE ToolFails \/ BuildEvidence
  BY <1>4, ToolFailsFact, BuildEvidenceFact DEF TypeInv
<1>5. CASE Submit
  BY <1>5, SubmitFact, FrameFact DEF TypeInv
<1>6. CASE CloseAdapter
  BY <1>6, CloseAdapterFact, FrameFact DEF TypeInv
<1>7. CASE Disconnect
  BY <1>7, DisconnectFact, FrameFact DEF TypeInv
<1>8. CASE AwaitExit \/ AwaitForeignExit
  BY <1>8, AwaitExitFact, AwaitForeignExitFact, FrameFact DEF TypeInv
<1>9. CASE Verdict
  BY <1>9, VerdictFact, FrameFact DEF TypeInv
<1>10. CASE Publish
  BY <1>10, PublishFact DEF TypeInv
<1>11. CASE Finally
  BY <1>11, FinallyFact, FrameFact DEF TypeInv
<1>12. CASE Rescue \/ FailRun
  BY <1>12, RescueFact, FailRunFact, FrameFact DEF TypeInv
<1>13. CASE Report \/ Retain
  BY <1>13, ReportFact, RetainFact, ReportMoves, FrameFact DEF TypeInv
<1>14. CASE Hold \/ Final
  BY <1>14, HoldFact, FinalFact, ReportMoves, FrameFact DEF TypeInv
<1>15. CASE SidecarStep \/ Signal
  BY <1>15, SidecarFact DEF TypeInv
<1>16. CASE JobEnds \/ Disturb \/ HostStep
  <2>1. JobEnds => DOMAIN graph' = DOMAIN PreparedGraph
    <3>1. DOMAIN graph = DOMAIN PreparedGraph
      BY DEF TypeInv
    <3>2. ASSUME NEW step PROVE DOMAIN Performed(graph, step) = DOMAIN PreparedGraph
      BY <3>1, PerformedFact, ZenonT(40)
    <3>3. QED
      BY <3>1, <3>2, JobEndsFact
  <2>2. QED
    BY <1>16, <2>1, JobEndsFact, DisturbFact, HostStepFact DEF TypeInv
<1>17. CASE UNCHANGED vars
  BY <1>17 DEF TypeInv, vars, hostVars
<1>18. QED
  BY <1>1, <1>2, <1>3, <1>4, <1>5, <1>6, <1>7, <1>8, <1>9, <1>10, <1>11, <1>12, <1>13,
     <1>14, <1>15, <1>16, <1>17
  DEF Next, Program

(* Where the program can be. *)
LEMMA PlaceStep ==
    ASSUME TypeInv, PlaceInv, AskInv, ServerInv, [Next]_vars
    PROVE  PlaceInv'
<1>1. CASE Prepare \/ Start
  BY <1>1, PrepareFact, StartsFact, FrameFact DEF TypeInv, PlaceInv
<1>2. CASE Gate \/ StartAdapter \/ Initialize
  BY <1>2, GateFact, StartAdapterFact, InitializeFact DEF TypeInv, PlaceInv
<1>3. CASE CallTool \/ ToolReturns
  BY <1>3, CallToolFact, ToolReturnsFact DEF TypeInv, PlaceInv
<1>4. CASE ToolFails \/ BuildEvidence
  BY <1>4, ToolFailsFact, BuildEvidenceFact DEF TypeInv, PlaceInv
<1>5. CASE Submit
  BY <1>5, SubmitFact, FrameFact DEF TypeInv, PlaceInv
<1>6. CASE CloseAdapter
  BY <1>6, CloseAdapterFact, FrameFact DEF TypeInv, PlaceInv
<1>7. CASE Disconnect
  BY <1>7, DisconnectFact, FrameFact DEF TypeInv, PlaceInv
<1>8. CASE AwaitExit \/ AwaitForeignExit
  BY <1>8, AwaitExitFact, AwaitForeignExitFact, FrameFact DEF TypeInv, PlaceInv
<1>9. CASE Verdict
  BY <1>9, VerdictFact, FrameFact DEF TypeInv, PlaceInv
<1>10. CASE Publish
  BY <1>10, PublishFact DEF TypeInv, PlaceInv
<1>11. CASE Finally
  BY <1>11, FinallyFact, FrameFact DEF TypeInv, PlaceInv
<1>12. CASE Rescue \/ FailRun
  BY <1>12, RescueFact, FailRunFact, FrameFact DEF TypeInv, PlaceInv
<1>13. CASE Report \/ Retain
  BY <1>13, ReportFact, RetainFact, ReportMoves, FrameFact DEF TypeInv, PlaceInv
<1>14. CASE Hold \/ Final
  BY <1>14, HoldFact, FinalFact, ReportMoves, FrameFact DEF TypeInv, PlaceInv
<1>15. CASE SidecarStep \/ Signal
  BY <1>15, SidecarFact DEF TypeInv, PlaceInv
<1>16. CASE JobEnds \/ Disturb \/ HostStep
  BY <1>16, JobEndsFact, DisturbFact, HostStepFact DEF TypeInv, PlaceInv
<1>17. CASE UNCHANGED vars
  BY <1>17 DEF TypeInv, PlaceInv, vars, hostVars
<1>18. QED
  BY <1>1, <1>2, <1>3, <1>4, <1>5, <1>6, <1>7, <1>8, <1>9, <1>10, <1>11, <1>12, <1>13,
     <1>14, <1>15, <1>16, <1>17
  DEF Next, Program

(* OBS is asked only where it has not been. *)
LEMMA AskStep ==
    ASSUME TypeInv, PlaceInv, ServerInv, AskInv, [Next]_vars
    PROVE  AskInv'
<1>1. CASE Prepare \/ Start
  BY <1>1, PrepareFact, StartsFact, FrameFact DEF TypeInv, PlaceInv, AskInv
<1>2. CASE Gate \/ StartAdapter \/ Initialize
  BY <1>2, GateFact, StartAdapterFact, InitializeFact DEF TypeInv, PlaceInv, AskInv
<1>3. CASE CallTool \/ ToolReturns
  BY <1>3, CallToolFact, ToolReturnsFact DEF TypeInv, PlaceInv, AskInv
<1>4. CASE ToolFails \/ BuildEvidence
  BY <1>4, ToolFailsFact, BuildEvidenceFact DEF TypeInv, PlaceInv, AskInv
<1>5. CASE Submit
  BY <1>5, SubmitFact, FrameFact DEF TypeInv, PlaceInv, AskInv
<1>6. CASE CloseAdapter
  BY <1>6, CloseAdapterFact, FrameFact DEF TypeInv, PlaceInv, AskInv
<1>7. CASE Disconnect
  BY <1>7, DisconnectFact, FrameFact DEF TypeInv, PlaceInv, AskInv
<1>8. CASE AwaitExit \/ AwaitForeignExit
  BY <1>8, AwaitExitFact, AwaitForeignExitFact, FrameFact DEF TypeInv, PlaceInv, AskInv
<1>9. CASE Verdict
  BY <1>9, VerdictFact, FrameFact DEF TypeInv, PlaceInv, AskInv
<1>10. CASE Publish
  BY <1>10, PublishFact DEF TypeInv, PlaceInv, AskInv
<1>11. CASE Finally
  BY <1>11, FinallyFact, FrameFact DEF TypeInv, PlaceInv, AskInv
<1>12. CASE Rescue \/ FailRun
  BY <1>12, RescueFact, FailRunFact, FrameFact DEF TypeInv, PlaceInv, AskInv
<1>13. CASE Report \/ Retain
  BY <1>13, ReportFact, RetainFact, ReportMoves, FrameFact DEF TypeInv, PlaceInv, AskInv
<1>14. CASE Hold \/ Final
  BY <1>14, HoldFact, FinalFact, ReportMoves, FrameFact DEF TypeInv, PlaceInv, AskInv
<1>15. CASE SidecarStep \/ Signal
  BY <1>15, SidecarFact DEF TypeInv, PlaceInv, AskInv
<1>16. CASE JobEnds \/ Disturb \/ HostStep
  BY <1>16, JobEndsFact, DisturbFact, HostStepFact DEF TypeInv, PlaceInv, AskInv
<1>17. CASE UNCHANGED vars
  BY <1>17 DEF TypeInv, PlaceInv, AskInv, vars, hostVars
<1>18. QED
  BY <1>1, <1>2, <1>3, <1>4, <1>5, <1>6, <1>7, <1>8, <1>9, <1>10, <1>11, <1>12, <1>13,
     <1>14, <1>15, <1>16, <1>17
  DEF Next, Program

(* The first error. *)
LEMMA ErrorStep ==
    ASSUME TypeInv, PlaceInv, AskInv, ServerInv, ErrorInv, [Next]_vars
    PROVE  ErrorInv'
<1>1. CASE Prepare \/ Start
  BY <1>1, PrepareFact, StartsFact, FrameFact DEF TypeInv, PlaceInv, ErrorInv
<1>2. CASE Gate \/ StartAdapter \/ Initialize
  BY <1>2, GateFact, StartAdapterFact, InitializeFact DEF TypeInv, PlaceInv, ErrorInv
<1>3. CASE CallTool \/ ToolReturns
  BY <1>3, CallToolFact, ToolReturnsFact DEF TypeInv, PlaceInv, ErrorInv
<1>4. CASE ToolFails \/ BuildEvidence
  BY <1>4, ToolFailsFact, BuildEvidenceFact DEF TypeInv, PlaceInv, ErrorInv
<1>5. CASE Submit
  BY <1>5, SubmitFact, FrameFact DEF TypeInv, PlaceInv, ErrorInv
<1>6. CASE CloseAdapter
  BY <1>6, CloseAdapterFact, FrameFact DEF TypeInv, PlaceInv, ErrorInv
<1>7. CASE Disconnect
  BY <1>7, DisconnectFact, FrameFact DEF TypeInv, PlaceInv, ErrorInv
<1>8. CASE AwaitExit \/ AwaitForeignExit
  BY <1>8, AwaitExitFact, AwaitForeignExitFact, FrameFact DEF TypeInv, PlaceInv, ErrorInv
<1>9. CASE Verdict
  BY <1>9, VerdictFact, FrameFact DEF TypeInv, PlaceInv, ErrorInv
<1>10. CASE Publish
  BY <1>10, PublishFact DEF TypeInv, PlaceInv, ErrorInv
<1>11. CASE Finally
  BY <1>11, FinallyFact, FrameFact DEF TypeInv, PlaceInv, ErrorInv
<1>12. CASE Rescue \/ FailRun
  BY <1>12, RescueFact, FailRunFact, FrameFact DEF TypeInv, PlaceInv, ErrorInv
<1>13. CASE Report \/ Retain
  BY <1>13, ReportFact, RetainFact, ReportMoves, FrameFact DEF TypeInv, PlaceInv, ErrorInv
<1>14. CASE Hold \/ Final
  BY <1>14, HoldFact, FinalFact, ReportMoves, FrameFact DEF TypeInv, PlaceInv, ErrorInv
<1>15. CASE SidecarStep \/ Signal
  BY <1>15, SidecarFact DEF TypeInv, PlaceInv, ErrorInv
<1>16. CASE JobEnds \/ Disturb \/ HostStep
  BY <1>16, JobEndsFact, DisturbFact, HostStepFact DEF TypeInv, PlaceInv, ErrorInv
<1>17. CASE UNCHANGED vars
  BY <1>17 DEF TypeInv, PlaceInv, ErrorInv, vars, hostVars
<1>18. QED
  BY <1>1, <1>2, <1>3, <1>4, <1>5, <1>6, <1>7, <1>8, <1>9, <1>10, <1>11, <1>12, <1>13,
     <1>14, <1>15, <1>16, <1>17
  DEF Next, Program

(* What is known of the process. *)
LEMMA CodeStep ==
    ASSUME TypeInv, PlaceInv, AskInv, ServerInv, CodeInv, EvidenceInv, [Next]_vars
    PROVE  CodeInv'
<1>1. CASE Prepare \/ Start
  BY <1>1, PrepareFact, StartsFact, FrameFact DEF TypeInv, PlaceInv, CodeInv, EvidenceInv
<1>2. CASE Gate \/ StartAdapter \/ Initialize
  BY <1>2, GateFact, StartAdapterFact, InitializeFact
  DEF TypeInv, PlaceInv, CodeInv, EvidenceInv
<1>3. CASE CallTool \/ ToolReturns
  BY <1>3, CallToolFact, ToolReturnsFact DEF TypeInv, PlaceInv, CodeInv, EvidenceInv
<1>4. CASE ToolFails \/ BuildEvidence
  BY <1>4, ToolFailsFact, BuildEvidenceFact DEF TypeInv, PlaceInv, CodeInv, EvidenceInv
<1>5. CASE Submit
  BY <1>5, SubmitFact, FrameFact DEF TypeInv, PlaceInv, CodeInv, EvidenceInv
<1>6. CASE CloseAdapter
  BY <1>6, CloseAdapterFact, FrameFact DEF TypeInv, PlaceInv, CodeInv, EvidenceInv
<1>7. CASE Disconnect
  BY <1>7, DisconnectFact, FrameFact DEF TypeInv, PlaceInv, CodeInv, EvidenceInv
<1>8. CASE AwaitExit \/ AwaitForeignExit
  BY <1>8, AwaitExitFact, AwaitForeignExitFact, FrameFact
  DEF TypeInv, PlaceInv, CodeInv, EvidenceInv
<1>9. CASE Verdict
  BY <1>9, VerdictFact, FrameFact DEF TypeInv, PlaceInv, CodeInv, EvidenceInv
<1>10. CASE Publish
  BY <1>10, PublishFact DEF TypeInv, PlaceInv, CodeInv, EvidenceInv
<1>11. CASE Finally
  BY <1>11, FinallyFact, FrameFact DEF TypeInv, PlaceInv, CodeInv, EvidenceInv
<1>12. CASE Rescue \/ FailRun
  BY <1>12, RescueFact, FailRunFact, FrameFact DEF TypeInv, PlaceInv, CodeInv, EvidenceInv
<1>13. CASE Report \/ Retain
  BY <1>13, ReportFact, RetainFact, ReportMoves, FrameFact
  DEF TypeInv, PlaceInv, CodeInv, EvidenceInv
<1>14. CASE Hold \/ Final
  BY <1>14, HoldFact, FinalFact, ReportMoves, FrameFact
  DEF TypeInv, PlaceInv, CodeInv, EvidenceInv
<1>15. CASE SidecarStep \/ Signal
  BY <1>15, SidecarFact DEF TypeInv, PlaceInv, CodeInv, EvidenceInv
<1>16. CASE JobEnds \/ Disturb \/ HostStep
  BY <1>16, JobEndsFact, DisturbFact, HostStepFact
  DEF TypeInv, PlaceInv, CodeInv, EvidenceInv
<1>17. CASE UNCHANGED vars
  BY <1>17 DEF TypeInv, PlaceInv, CodeInv, EvidenceInv, vars, hostVars
<1>18. QED
  BY <1>1, <1>2, <1>3, <1>4, <1>5, <1>6, <1>7, <1>8, <1>9, <1>10, <1>11, <1>12, <1>13,
     <1>14, <1>15, <1>16, <1>17
  DEF Next, Program

(* Who holds the adapter. *)
LEMMA ServerStep ==
    ASSUME TypeInv, PlaceInv, AskInv, ErrorInv, ServerInv, [Next]_vars
    PROVE  ServerInv'
<1>1. CASE Prepare \/ Start
  BY <1>1, PrepareFact, StartsFact, FrameFact DEF TypeInv, PlaceInv, ErrorInv, ServerInv
<1>2. CASE Gate \/ StartAdapter \/ Initialize
  BY <1>2, GateFact, StartAdapterFact, InitializeFact
  DEF TypeInv, PlaceInv, ErrorInv, ServerInv
<1>3. CASE CallTool \/ ToolReturns
  BY <1>3, CallToolFact, ToolReturnsFact DEF TypeInv, PlaceInv, ErrorInv, ServerInv
<1>4. CASE ToolFails \/ BuildEvidence
  BY <1>4, ToolFailsFact, BuildEvidenceFact DEF TypeInv, PlaceInv, ErrorInv, ServerInv
<1>5. CASE Submit
  BY <1>5, SubmitFact, FrameFact DEF TypeInv, PlaceInv, ErrorInv, ServerInv
<1>6. CASE CloseAdapter
  BY <1>6, CloseAdapterFact, FrameFact DEF TypeInv, PlaceInv, ErrorInv, ServerInv
<1>7. CASE Disconnect
  BY <1>7, DisconnectFact, FrameFact DEF TypeInv, PlaceInv, ErrorInv, ServerInv
<1>8. CASE AwaitExit \/ AwaitForeignExit
  BY <1>8, AwaitExitFact, AwaitForeignExitFact, FrameFact
  DEF TypeInv, PlaceInv, ErrorInv, ServerInv
<1>9. CASE Verdict
  BY <1>9, VerdictFact, FrameFact DEF TypeInv, PlaceInv, ErrorInv, ServerInv
<1>10. CASE Publish
  BY <1>10, PublishFact DEF TypeInv, PlaceInv, ErrorInv, ServerInv
<1>11. CASE Finally
  BY <1>11, FinallyFact, FrameFact DEF TypeInv, PlaceInv, ErrorInv, ServerInv
<1>12. CASE Rescue \/ FailRun
  BY <1>12, RescueFact, FailRunFact, FrameFact DEF TypeInv, PlaceInv, ErrorInv, ServerInv
<1>13. CASE Report \/ Retain
  BY <1>13, ReportFact, RetainFact, ReportMoves, FrameFact
  DEF TypeInv, PlaceInv, ErrorInv, ServerInv
<1>14. CASE Hold \/ Final
  BY <1>14, HoldFact, FinalFact, ReportMoves, FrameFact
  DEF TypeInv, PlaceInv, ErrorInv, ServerInv
<1>15. CASE SidecarStep \/ Signal
  BY <1>15, SidecarFact DEF TypeInv, PlaceInv, ErrorInv, ServerInv
<1>16. CASE JobEnds \/ Disturb \/ HostStep
  BY <1>16, JobEndsFact, DisturbFact, HostStepFact
  DEF TypeInv, PlaceInv, ErrorInv, ServerInv
<1>17. CASE UNCHANGED vars
  BY <1>17 DEF TypeInv, PlaceInv, ErrorInv, ServerInv, vars, hostVars
<1>18. QED
  BY <1>1, <1>2, <1>3, <1>4, <1>5, <1>6, <1>7, <1>8, <1>9, <1>10, <1>11, <1>12, <1>13,
     <1>14, <1>15, <1>16, <1>17
  DEF Next, Program

(* How far the script has come. *)
LEMMA ScriptStep ==
    ASSUME TypeInv, PlaceInv, AskInv, ServerInv, ScriptInv, [Next]_vars
    PROVE  ScriptInv'
<1>1. CASE Prepare \/ Start
  BY <1>1, PrepareFact, StartsFact, FrameFact
  DEF TypeInv, PlaceInv, ScriptInv, Steps, ScriptDone
<1>2. CASE Gate \/ StartAdapter \/ Initialize
  BY <1>2, GateFact, StartAdapterFact, InitializeFact
  DEF TypeInv, PlaceInv, ScriptInv, Steps, ScriptDone
<1>3. CASE CallTool \/ ToolReturns
  <2>1. CASE CallTool
    BY <2>1, CallToolFact DEF TypeInv, ScriptInv, Steps, ScriptDone
  <2>2. CASE ToolReturns
    <3>1. run.step \in Nat /\ run.step + 1 - 1 = run.step
      BY DEF TypeInv, RunType
    <3>2. run.step <= 27 /\ ScriptDone(run.step)
      BY <2>2, ToolReturnsFact DEF ScriptInv, Steps
    <3>3. graph' = graph /\ job'.state = "none" /\ run'.step = run.step + 1
          /\ run'.pc = IF run.step = 27 THEN "evidence" ELSE "exercise"
      BY <2>2, ToolReturnsFact
    <3>4. QED
      BY <3>1, <3>2, <3>3 DEF ScriptInv, Steps, ScriptDone
  <2>3. QED
    BY <1>3, <2>1, <2>2
<1>4. CASE ToolFails \/ BuildEvidence
  BY <1>4, ToolFailsFact, BuildEvidenceFact
  DEF TypeInv, PlaceInv, ScriptInv, Steps, ScriptDone
<1>5. CASE Submit
  BY <1>5, SubmitFact, FrameFact DEF TypeInv, PlaceInv, ScriptInv, Steps, ScriptDone
<1>6. CASE CloseAdapter
  BY <1>6, CloseAdapterFact, FrameFact DEF TypeInv, PlaceInv, ScriptInv, Steps, ScriptDone
<1>7. CASE Disconnect
  BY <1>7, DisconnectFact, FrameFact DEF TypeInv, PlaceInv, ScriptInv, Steps, ScriptDone
<1>8. CASE AwaitExit \/ AwaitForeignExit
  BY <1>8, AwaitExitFact, AwaitForeignExitFact, FrameFact
  DEF TypeInv, PlaceInv, ScriptInv, Steps, ScriptDone
<1>9. CASE Verdict
  BY <1>9, VerdictFact, FrameFact DEF TypeInv, PlaceInv, ScriptInv, Steps, ScriptDone
<1>10. CASE Publish
  BY <1>10, PublishFact DEF TypeInv, PlaceInv, ScriptInv, Steps, ScriptDone
<1>11. CASE Finally
  BY <1>11, FinallyFact, FrameFact DEF TypeInv, PlaceInv, ScriptInv, Steps, ScriptDone
<1>12. CASE Rescue \/ FailRun
  BY <1>12, RescueFact, FailRunFact, FrameFact
  DEF TypeInv, PlaceInv, ScriptInv, Steps, ScriptDone
<1>13. CASE Report \/ Retain
  BY <1>13, ReportFact, RetainFact, ReportMoves, FrameFact
  DEF TypeInv, PlaceInv, ScriptInv, Steps, ScriptDone
<1>14. CASE Hold \/ Final
  BY <1>14, HoldFact, FinalFact, ReportMoves, FrameFact
  DEF TypeInv, PlaceInv, ScriptInv, Steps, ScriptDone
<1>15. CASE SidecarStep \/ Signal
  BY <1>15, SidecarFact DEF TypeInv, PlaceInv, ScriptInv, Steps, ScriptDone
<1>16. CASE JobEnds \/ Disturb \/ HostStep
  <2>1. CASE JobEnds /\ run.pc = "exercise" /\ job'.state = "performed"
    <3> DEFINE n == run.step
               step == Script[n]
    <3>1. n \in 1..27 /\ job.step = n /\ Steps = n - 1 /\ ScriptDone(Steps)
      <4>1. n \in Nat \ {0}
        BY DEF TypeInv, RunType
      <4>2. run.step <= 27 /\ job.step = n /\ ScriptDone(Steps)
        BY <2>1, JobEndsFact DEF ScriptInv
      <4>3. Steps = n - 1
        BY <2>1, JobEndsFact DEF Steps
      <4>4. QED
        BY <4>1, <4>2, <4>3
    <3>2. graph' = Performed(graph, step) /\ run' = run /\ job'.step = job.step
      BY <2>1, <3>1, JobEndsFact
    <3>3. /\ n - 1 >= 2 => "baseline" \in graph.scenes
          /\ n - 1 >= 15 => ~graph.studio
          /\ n - 1 >= 23 => graph.current = "baseline"
          /\ n - 1 >= 26 => "preview" \notin graph.scenes
      BY <3>1 DEF ScriptDone
    <3> HIDE DEF step
    <3>4. /\ step.tool # "set_studio_mode" => graph'.studio = graph.studio
          /\ step.tool = "set_studio_mode" /\ step.argument = "off" => graph'.studio = FALSE
          /\ step.tool = "create_scene" => step.argument \in graph'.scenes
          /\ step.tool # "remove_scene" => graph.scenes \subseteq graph'.scenes
          /\ step.tool = "set_current_scene" => graph'.current = step.argument
          /\ step.tool \notin {"set_current_scene", "trigger_transition",
                              "transition_to_program"} => graph'.current = graph.current
          /\ step.tool = "remove_scene" =>
                /\ graph.scenes \ {step.argument} \subseteq graph'.scenes
                /\ step.argument \notin graph'.scenes
                /\ graph'.scenes \subseteq graph.scenes
                /\ step.argument = "program" => graph'.source = FALSE
      <4>1. DOMAIN graph = DOMAIN PreparedGraph
        BY DEF TypeInv
      <4>2. ASSUME NEW s
            PROVE  /\ s.tool # "set_studio_mode" => Performed(graph, s).studio = graph.studio
                   /\ s.tool = "set_studio_mode" /\ s.argument = "off" =>
                         Performed(graph, s).studio = FALSE
                   /\ s.tool = "create_scene" => s.argument \in Performed(graph, s).scenes
                   /\ s.tool # "remove_scene" =>
                         graph.scenes \subseteq Performed(graph, s).scenes
                   /\ s.tool = "set_current_scene" =>
                         Performed(graph, s).current = s.argument
                   /\ s.tool \notin {"set_current_scene", "trigger_transition",
                                    "transition_to_program"} =>
                         Performed(graph, s).current = graph.current
                   /\ s.tool = "remove_scene" =>
                         /\ graph.scenes \ {s.argument} \subseteq Performed(graph, s).scenes
                         /\ s.argument \notin Performed(graph, s).scenes
                         /\ Performed(graph, s).scenes \subseteq graph.scenes
                         /\ s.argument = "program" => Performed(graph, s).source = FALSE
        BY <4>1, PerformedFact, ZenonT(40)
      <4>3. QED
        BY <3>2, <4>2
    <3>5. /\ n = 2 => step.tool = "create_scene" /\ step.argument = "baseline"
          /\ n \in 3..27 /\ step.tool = "remove_scene" => step.argument # "baseline"
          /\ n = 15 => step.tool = "set_studio_mode" /\ step.argument = "off"
          /\ n \in 16..27 => step.tool # "set_studio_mode"
          /\ n = 23 => step.tool = "set_current_scene" /\ step.argument = "baseline"
          /\ n \in 24..27 => step.tool \notin {"set_current_scene", "trigger_transition",
                                              "transition_to_program"}
          /\ n = 26 => step.tool = "remove_scene" /\ step.argument = "preview"
          /\ n = 27 => step.tool = "remove_scene" /\ step.argument = "program"
      BY ScriptFact DEF step
    <3>6. n >= 2 => "baseline" \in graph'.scenes
      BY <3>1, <3>3, <3>4, <3>5
    <3>7. n >= 15 => ~graph'.studio
      BY <3>1, <3>3, <3>4, <3>5
    <3>8. n >= 23 => graph'.current = "baseline"
      BY <3>1, <3>3, <3>4, <3>5
    <3>9. n >= 26 => "preview" \notin graph'.scenes
      BY <3>1, <3>3, <3>4, <3>5
    <3>10. n >= 27 => "program" \notin graph'.scenes /\ ~graph'.source
      BY <3>1, <3>4, <3>5
    <3>11. QED
      BY <2>1, <3>1, <3>2, <3>6, <3>7, <3>8, <3>9, <3>10 DEF ScriptInv, Steps, ScriptDone
  <2>2. CASE JobEnds /\ (run.pc # "exercise" \/ job'.state = "failed")
    BY <2>2, JobEndsFact DEF TypeInv, ScriptInv, Steps, ScriptDone
  <2>3. CASE Disturb \/ HostStep
    BY <2>3, DisturbFact, HostStepFact DEF TypeInv, ScriptInv, Steps, ScriptDone
  <2>4. QED
    BY <1>16, <2>1, <2>2, <2>3, JobEndsFact
<1>17. CASE UNCHANGED vars
  BY <1>17 DEF TypeInv, PlaceInv, ScriptInv, Steps, ScriptDone, vars, hostVars
<1>18. QED
  BY <1>1, <1>2, <1>3, <1>4, <1>5, <1>6, <1>7, <1>8, <1>9, <1>10, <1>11, <1>12, <1>13,
     <1>14, <1>15, <1>16, <1>17
  DEF Next, Program

(* The evidence. *)
LEMMA EvidenceStep ==
    ASSUME TypeInv, PlaceInv, AskInv, CodeInv, ServerInv, ScriptInv, EvidenceInv, [Next]_vars
    PROVE  EvidenceInv'
<1>1. CASE Prepare \/ Start
  BY <1>1, PrepareFact, StartsFact, FrameFact
  DEF TypeInv, PlaceInv, AskInv, CodeInv, ServerInv, ScriptInv, EvidenceInv, Steps,
      ScriptDone
<1>2. CASE Gate \/ StartAdapter \/ Initialize
  BY <1>2, GateFact, StartAdapterFact, InitializeFact
  DEF TypeInv, PlaceInv, AskInv, CodeInv, ServerInv, ScriptInv, EvidenceInv, Steps,
      ScriptDone
<1>3. CASE CallTool \/ ToolReturns
  BY <1>3, CallToolFact, ToolReturnsFact
  DEF TypeInv, PlaceInv, AskInv, CodeInv, ServerInv, ScriptInv, EvidenceInv, Steps,
      ScriptDone
<1>4. CASE ToolFails \/ BuildEvidence
  BY <1>4, ToolFailsFact, BuildEvidenceFact
  DEF TypeInv, PlaceInv, AskInv, CodeInv, ServerInv, ScriptInv, EvidenceInv, Steps,
      ScriptDone
<1>5. CASE Submit
  BY <1>5, SubmitFact, FrameFact
  DEF TypeInv, PlaceInv, AskInv, CodeInv, ServerInv, ScriptInv, EvidenceInv, Steps,
      ScriptDone
<1>6. CASE CloseAdapter
  BY <1>6, CloseAdapterFact, FrameFact
  DEF TypeInv, PlaceInv, AskInv, CodeInv, ServerInv, ScriptInv, EvidenceInv, Steps,
      ScriptDone
<1>7. CASE Disconnect
  BY <1>7, DisconnectFact, FrameFact
  DEF TypeInv, PlaceInv, AskInv, CodeInv, ServerInv, ScriptInv, EvidenceInv, Steps,
      ScriptDone
<1>8. CASE AwaitExit \/ AwaitForeignExit
  BY <1>8, AwaitExitFact, AwaitForeignExitFact, FrameFact
  DEF TypeInv, PlaceInv, AskInv, CodeInv, ServerInv, ScriptInv, EvidenceInv, Steps,
      ScriptDone
<1>9. CASE Verdict
  BY <1>9, VerdictFact, FrameFact
  DEF TypeInv, PlaceInv, AskInv, CodeInv, ServerInv, ScriptInv, EvidenceInv, Steps,
      ScriptDone
<1>10. CASE Publish
  BY <1>10, PublishFact
  DEF TypeInv, PlaceInv, AskInv, CodeInv, ServerInv, ScriptInv, EvidenceInv, Steps,
      ScriptDone
<1>11. CASE Finally
  BY <1>11, FinallyFact, FrameFact
  DEF TypeInv, PlaceInv, AskInv, CodeInv, ServerInv, ScriptInv, EvidenceInv, Steps,
      ScriptDone
<1>12. CASE Rescue \/ FailRun
  BY <1>12, RescueFact, FailRunFact, FrameFact
  DEF TypeInv, PlaceInv, AskInv, CodeInv, ServerInv, ScriptInv, EvidenceInv, Steps,
      ScriptDone
<1>13. CASE Report \/ Retain
  BY <1>13, ReportFact, RetainFact, ReportMoves, FrameFact
  DEF TypeInv, PlaceInv, AskInv, CodeInv, ServerInv, ScriptInv, EvidenceInv, Steps,
      ScriptDone
<1>14. CASE Hold \/ Final
  BY <1>14, HoldFact, FinalFact, ReportMoves, FrameFact
  DEF TypeInv, PlaceInv, AskInv, CodeInv, ServerInv, ScriptInv, EvidenceInv, Steps,
      ScriptDone
<1>15. CASE SidecarStep \/ Signal
  BY <1>15, SidecarFact
  DEF TypeInv, PlaceInv, AskInv, CodeInv, ServerInv, ScriptInv, EvidenceInv, Steps,
      ScriptDone
<1>16. CASE JobEnds \/ Disturb \/ HostStep
  BY <1>16, JobEndsFact, DisturbFact, HostStepFact
  DEF TypeInv, PlaceInv, AskInv, CodeInv, ServerInv, ScriptInv, EvidenceInv, Steps,
      ScriptDone
<1>17. CASE UNCHANGED vars
  BY <1>17
  DEF TypeInv, PlaceInv, AskInv, CodeInv, ServerInv, ScriptInv, EvidenceInv, Steps,
      ScriptDone, vars, hostVars
<1>18. QED
  BY <1>1, <1>2, <1>3, <1>4, <1>5, <1>6, <1>7, <1>8, <1>9, <1>10, <1>11, <1>12, <1>13,
     <1>14, <1>15, <1>16, <1>17
  DEF Next, Program

HIDE DEF MovesTo, GoesOn, Exits, Unwinds, ClosesOn, StoppedAt, Failed, StartFailed,
         StartedAs, Tells, Records, KeepsOwner, KnowsExit

-----------------------------------------------------------------------------
(* The theorems.                                                           *)

\* The invariant holds at the start.
LEMMA InitIInv == Init => IInv
<1> SUFFICES ASSUME Init
             PROVE  IInv
  OBVIOUS
<1>1. TypeInv
  <2>1. obs \in ObsType /\ owner \in OwnerType
    BY DEF Init, ObsType, NewOwner, OwnerType, Errors, NoCode
  <2>2. run \in RunType
    BY DEF Init, RunType
  <2>3. server \in ServerType
    <3>1. CASE scenario.prior = "none"
      BY <3>1 DEF Init, NoServer, ServerType
    <3>2. CASE scenario.prior = "running"
      BY <3>2 DEF Init, NoServer, ServerType
    <3>3. CASE scenario.prior \notin {"none", "running"}
      BY <3>3 DEF Init, NoServer, ServerType
    <3>4. QED
      BY <3>1, <3>2, <3>3
  <2>4. job \in JobType /\ graph = PreparedGraph
    BY DEF Init, NoJob, JobType
  <2>5. said \in Seq(Reports) /\ requests \in Nat /\ first \in Errors /\ disturbed \in Nat
    BY DEF Init, Errors
  <2>6. QED
    BY <2>1, <2>2, <2>3, <2>4, <2>5 DEF TypeInv
<1>2. PlaceInv
  BY DEF Init, PlaceInv
<1>3. AskInv
  BY DEF Init, AskInv, NewOwner
<1>4. ErrorInv
  BY DEF Init, ErrorInv, NewOwner
<1>5. CodeInv
  <2>1. Range(said) = {}
    BY DEF Init, Range
  <2>2. QED
    BY <2>1 DEF Init, CodeInv, NewOwner, NoCode
<1>6. ServerInv
  BY DEF Init, ServerInv, NoServer
<1>7. ScriptInv
  BY DEF Init, ScriptInv, NoJob
<1>8. EvidenceInv
  BY DEF Init, EvidenceInv
<1>9. QED
  BY <1>1, <1>2, <1>3, <1>4, <1>5, <1>6, <1>7, <1>8 DEF IInv

\* Every step keeps the invariant.
LEMMA StepIInv == IInv /\ [Next]_vars => IInv'
  BY TypeStep, PlaceStep, AskStep, ErrorStep, CodeStep, ServerStep, ScriptStep,
     EvidenceStep DEF IInv

\* The inductive invariant holds in every behaviour of the three programs.
THEOREM Invariance == Spec => []IInv
  BY InitIInv, StepIInv, PTL DEF Spec

\* OBS is asked to leave at most once: Submit is reached with no request sent, for
\* the rescue only comes to it if close has not (AskInv).
THEOREM LeavesAreAskedOnce == Spec => []AskedOnce
<1>1. IInv => AskedOnce
  BY DEF IInv, AskInv, AskedOnce
<1>2. QED
  BY <1>1, Invariance, PTL

\* An OBS that was started is not let go before its wait has returned, and is not
\* said to have ended before (CodeInv).
THEOREM HostsAreHeld == Spec => []NeverAbandoned
<1>1. IInv => NeverAbandoned
  BY DEF IInv, CodeInv, NeverAbandoned, Exited, At
<1>2. QED
  BY <1>1, Invariance, PTL

\* The error that is reported is the first that was raised (ErrorInv): on the host
\* the owner hears of every error, elsewhere it hears of none.
THEOREM ReportsAreFirst == Spec => []FirstErrorReported
<1>1. IInv => FirstErrorReported
  BY DEF IInv, ErrorInv, FirstErrorReported
<1>2. QED
  BY <1>1, Invariance, PTL

\* A connection that is left open has a holder, and the program has failed
\* (ServerInv): _server holds the adapter that was made, and where it could not be
\* made the error is the first one of the run, which the owner keeps.
THEOREM AdaptersAreHeld == Spec => []LeftOpenIsHeld
<1>1. IInv => LeftOpenIsHeld
  BY DEF IInv, TypeInv, RunType, PlaceInv, ServerInv, LeftOpenIsHeld, Exited, At
<1>2. QED
  BY <1>1, Invariance, PTL

\* Evidence on disk is the whole truth (EvidenceInv): the script has been performed to
\* its end, with the adapter it has made or one that was running before, and OBS and
\* the adapter have ended as they should.
THEOREM EvidenceIsTrue == Spec => []EvidenceEarned
<1>1. IInv => EvidenceEarned
  <2> SUFFICES ASSUME IInv
               PROVE  EvidenceEarned
    OBVIOUS
  <2>1. run.status = "ok" /\ scenario.mode # "sidecar" =>
            output = "whole" /\ (Host => record = "TERMINAL")
    BY DEF IInv, EvidenceInv
  <2>2. ASSUME output # "none"
        PROVE  /\ run.step > Len(Script)
               /\ graph.scenes \cap TestScenes = {"baseline"}
               /\ graph.current = "baseline"
               /\ ~graph.source /\ ~graph.studio
               /\ graph.recording = "stopped" \/ disturbed > 0
               /\ obs.phase = "exited" /\ obs.code = 0
               /\ run.stopped /\ server.held = "none"
               /\ Host => owner.code = 0 /\ owner.transport # "open"
    BY <2>2, ScriptFact DEF IInv, EvidenceInv, ScriptDone, ServerInv, TestScenes
  <2>3. QED
    BY <2>1, <2>2 DEF EvidenceEarned
<1>2. QED
  BY <1>1, Invariance, PTL
=============================================================================
