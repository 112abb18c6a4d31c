----------------------------- MODULE DisposableRun -----------------------------
(***************************************************************************)
(* The programs around a live OBS, one of them in every behaviour:         *)
(*   host     dcc-mcp-obs-accept-host (disposable_obs.py): prepare a       *)
(*            private tree, start OBS in it, run the acceptance gate, ask  *)
(*            OBS to leave, wait for it;                                   *)
(*   attach   dcc-mcp-obs-accept (real_obs_acceptance.py): the same gate   *)
(*            on an OBS that somebody else has started;                    *)
(*   sidecar  dcc-mcp-obs (server.py): the adapter, as long as OBS lives.  *)
(* Each is sequential; OBS, its user and the jobs of the adapter go on     *)
(* between any two of its steps, and every step may fail or be             *)
(* interrupted.                                                            *)
(***************************************************************************)
EXTENDS OwnedHost, DisposableLayout, AcceptanceScript, AdapterServer

CONSTANTS
    Scenarios,     \* what a behaviour is about, see Scenario below
    Disturbances,  \* how often the user of OBS records by hand (bound of the model)
    Interrupts     \* how often the last wait is interrupted (bound of the model)

ASSUME BoundsAssumption == Disturbances \in Nat /\ Interrupts \in Nat

VARIABLES
    scenario,   \* the program, its arguments, the artifacts and the host
    run,        \* where the program is and its local variables
    server,     \* the module variable of server.py
    job,        \* the tool call that the adapter performs, with its step
    graph,      \* the scene graph of OBS
    output,     \* the file of public evidence
    requests,   \* history: shutdown requests that have been sent
    first,      \* history: the first error since the owner was made
    said,       \* the reports that have been printed
    disturbed,  \* Disturbances that have happened
    interrupted \* Interrupts that have happened

run1 == <<run, scenario>>
world == <<obs, job, graph, disturbed>>
histories == <<requests, first, said, interrupted>>
vars == <<hostVars, scenario, run, server, job, graph, output, requests, first,
          said, disturbed, interrupted>>

NoJob == [state |-> "none", step |-> 0]

Init ==
    /\ scenario \in Scenarios
    /\ obs = [phase |-> IF scenario.mode = "host" THEN "absent" ELSE "serving",
              code |-> 0, foreign |-> FALSE]
    /\ owner = NewOwner
    /\ record = "none"
    /\ run = [pc |-> IF scenario.mode = "sidecar" THEN "bind" ELSE "prepare",
              step |-> 1, error |-> "none", rescue |-> FALSE,
              closeError |-> FALSE, stopped |-> FALSE, status |-> "none"]
    /\ server = IF scenario.prior = "none" THEN NoServer
                ELSE [NoServer EXCEPT !.held = "prior",
                                      !.running = (scenario.prior = "running"),
                                      !.connection = IF scenario.prior = "running"
                                                     THEN "open" ELSE "closed"]
    /\ job = NoJob
    /\ graph = PreparedGraph
    /\ output = "none"
    /\ requests = 0
    /\ first = "none"
    /\ said = <<>>
    /\ disturbed = 0
    /\ interrupted = 0

Host == scenario.mode = "host"

At(pc) == run.pc = pc
Goto(pc) == run' = [run EXCEPT !.pc = pc]
Exit(status) == run' = [run EXCEPT !.pc = "exited", !.status = status]

\* The error that was raised goes to the handler at pc: OwnedObsError ("owned") is
\* reported as it is, any other makes the run fail.
Unwind(pc, error) == run' = [run EXCEPT !.pc = pc, !.error = error]

\* The history: the error that is raised here is the first one.
Raise(error) == first' = IF first = "none" THEN error ELSE first

-----------------------------------------------------------------------------
(* Before the gate.                                                        *)

Prepared ==
    /\ ExecutableAccepted(scenario.platform, scenario.executable)
    /\ ArchiveAccepted(scenario.archive)
    /\ scenario.platform = "windows" => Mappable(scenario.files)
    /\ OwnerAccepts(scenario.platform, Layout(scenario.platform, scenario.executable))

\* The directories, the configuration, the plugin and the owner; what fails here
\* has left no process behind.
Prepare ==
    /\ At("prepare")
    /\ \/ Host /\ Prepared /\ Goto("launch")
       \/ ~Host /\ Goto("gate")
       \/ Host /\ Exit("failed")
    /\ UNCHANGED <<hostVars, scenario, server, job, graph, output, histories,
                   disturbed>>

\* One step of OwnedObsHost.start; an error ends it with OwnedObsError, which
\* nothing catches before main.
StartStep(here, next, action, failure) ==
    /\ At(here)
    /\ \/ action /\ Goto(next) /\ UNCHANGED first
       \/ failure /\ Goto("report") /\ Raise(here)
    /\ UNCHANGED <<scenario, server, job, graph, output, requests, said,
                   interrupted, disturbed>>

Start ==
    \/ StartStep("launch", "identify", Launch, LaunchFails \/ LaunchedButFails)
    \/ StartStep("identify", "connect", Identify, StartFails("identify"))
    \/ StartStep("connect", "await", Connect, StartFails("connect"))
    \/ StartStep("await", "gate", BecomeReady, StartFails("await"))

-----------------------------------------------------------------------------
(* run_real_obs_acceptance.                                                *)

\* Modules OBS maps: itself, and the plugin if it is where OBS looks for it.
Maps == {Layout(scenario.platform, scenario.executable).executable} \cup
        (Placed(scenario.platform, scenario.files)
             \cap {DiscoveredBinary(scenario.platform)})

ProcessKnown ==
    \/ Host /\ scenario.platform = "windows"
    \/ ProcessAccepted(scenario.platform,
                       Layout(scenario.platform, scenario.executable))

\* Mutant of ArtifactsMatch: any release of the plugin and of the package will do.
ArtifactsOfAnyRelease ==
    /\ MappedModulesKnown(scenario.platform, Maps)
    /\ LET paths == MappedModules(scenario.platform, Maps)
       IN  LoadedAccepted(scenario.archive, paths,
                          [p \in paths |-> scenario.loaded])
    /\ WheelAccepted(scenario.wheel, scenario.installed)
    /\ scenario.archive.platform = scenario.platform

\* scenario.version is __version__ of the package that runs.
ArtifactsMatch ==
    /\ MappedModulesKnown(scenario.platform, Maps)
    /\ LET paths == MappedModules(scenario.platform, Maps)
       IN  LoadedAccepted(scenario.archive, paths,
                          [p \in paths |-> scenario.loaded])
    /\ WheelAccepted(scenario.wheel, scenario.installed)
    /\ scenario.archive.platform = scenario.platform
    /\ scenario.archive.version = scenario.version
    /\ scenario.wheel.version = scenario.version

\* The process, the authentication, the instance, the artifacts, and no adapter
\* besides ours.
Gate ==
    /\ At("gate")
    /\ \/ /\ ProcessKnown
          /\ ArtifactsMatch
          /\ obs.phase = "serving"
          /\ Host => server.held = "none"
          /\ Goto("adapter")
          /\ UNCHANGED <<owner, first>>
       \/ /\ owner' = IF Host THEN Blamed(owner, "gate") ELSE owner
          /\ Raise("gate")
          /\ IF Host THEN Unwind("rescue", "other") ELSE Exit("failed")
    /\ UNCHANGED <<obs, record, scenario, server, job, graph, output, requests,
                   said, interrupted, disturbed>>

\* An error inside the try: the owner is told, then the finally clause runs.
Fails(error) ==
    /\ owner' = IF Host THEN Blamed(owner, error) ELSE owner
    /\ Raise(error)
    /\ Unwind("finally", "other")

StartAdapter ==
    /\ At("adapter")
    /\ \E o \in StartServer(server, obs.phase = "serving") :
           /\ server' = o.server
           /\ IF o.raised THEN Fails("adapter")
              ELSE Goto("session") /\ UNCHANGED <<owner, first>>
    /\ UNCHANGED <<obs, record, scenario, job, graph, output, requests, said,
                   interrupted, disturbed>>

\* McpAcceptanceClient.initialize.
Initialize ==
    /\ At("session")
    /\ \/ Goto("exercise") /\ UNCHANGED <<owner, first>>
       \/ Fails("session")
    /\ UNCHANGED <<obs, record, scenario, server, job, graph, output, requests,
                   said, interrupted, disturbed>>

\* client.call: the adapter, be it ours or one that was running before, answers at
\* once or makes a job of it.
CallTool ==
    /\ At("exercise")
    /\ job.state = "none"
    /\ run.step <= Len(Script)
    /\ job' = [state |-> "running", step |-> run.step]
    /\ UNCHANGED <<hostVars, run1, server, graph, output, histories, disturbed>>

\* _call_tool returns: the identity and the postcondition are as they must be.
ToolReturns ==
    /\ At("exercise")
    /\ job.state = "performed"
    /\ Expected(graph, Script[job.step])
    /\ job' = NoJob
    /\ run' = [run EXCEPT !.step = @ + 1,
                          !.pc = IF run.step = Len(Script) THEN "evidence" ELSE @]
    /\ UNCHANGED <<hostVars, scenario, server, graph, output, histories, disturbed>>

\* The call is refused, answers with another identity or another state, or is
\* given up on while the job goes on.
ToolFails ==
    /\ At("exercise")
    /\ \/ job.state \in {"performed", "failed"} /\ job' = NoJob
       \/ job.state \in {"none", "running"} /\ UNCHANGED job
    /\ Fails("exercise")
    /\ UNCHANGED <<obs, record, scenario, server, graph, output, requests, said,
                   interrupted, disturbed>>

\* build_public_evidence looks at the recording once more.
BuildEvidence ==
    /\ At("evidence")
    /\ \/ Goto("submit") /\ UNCHANGED <<owner, first>>
       \/ Fails("evidence")
    /\ UNCHANGED <<obs, record, scenario, server, job, graph, output, requests,
                   said, interrupted, disturbed>>

-----------------------------------------------------------------------------
(* OwnedObsHost.close, or the same by hand when OBS is not owned.          *)

\* An error of close, which goes on and raises at its end.
CloseOn(pc) == run' = [run EXCEPT !.pc = pc, !.closeError = TRUE]

\* close raises; the rescue swallows the error.
CloseRaises(error) ==
    /\ Failure(owner, error)
    /\ IF run.rescue THEN Unwind("fail", "other") ELSE Unwind("finally", "owned")
    /\ Raise(error)

\* RequestGracefulShutdown: refused while an output is active; what is scheduled is
\* only that the window closes some time after that.
Leaves ==
    /\ obs.phase = "serving"
    /\ graph.recording = "stopped"
    /\ obs' = [obs EXCEPT !.phase = "leaving"]

\* Mutant of Asked: OBS is asked again when its answer does not arrive.
AskedAgain(answered) ==
    \/ Leaves /\ requests' = requests + (IF answered THEN 1 ELSE 2)
    \/ ~answered /\ UNCHANGED obs /\ requests' \in {requests, requests + 2}

\* The one request, through the adapter or the owner's own connection: it is
\* answered well, or is not sent, is refused, or its answer does not arrive.
Asked(answered) ==
    \/ Leaves /\ requests' = requests + 1
    \/ ~answered /\ UNCHANGED obs /\ requests' \in {requests, requests + 1}

\* close asks once and goes on whatever comes of it; it refuses to be called again.
Submit ==
    /\ At("submit")
    /\ IF Host /\ owner.attempted
       THEN CloseRaises("close") /\ UNCHANGED <<obs, requests>>
       ELSE /\ UNCHANGED record
            /\ \/ /\ Asked(TRUE)
                  /\ owner' = IF Host THEN [owner EXCEPT !.attempted = TRUE] ELSE owner
                  /\ Goto("closeAdapter")
                  /\ UNCHANGED first
               \/ /\ Asked(FALSE)
                  /\ owner' = IF Host
                              THEN [Blamed(owner, "submit") EXCEPT !.attempted = TRUE]
                              ELSE owner
                  /\ Raise("submit")
                  /\ IF Host THEN CloseOn("closeAdapter") ELSE Unwind("finally", "other")
    /\ UNCHANGED <<scenario, server, job, graph, output, said, interrupted, disturbed>>

\* close_adapter is stop_adapter in the run, nothing in a rescue.
CloseAdapter ==
    /\ At("closeAdapter")
    /\ IF run.rescue
       THEN Goto("disconnect") /\ UNCHANGED <<server, owner, first>>
       ELSE \E o \in StopServer(server) :
                /\ server' = o.server
                /\ IF ~o.raised
                   THEN /\ run' = [run EXCEPT !.stopped = TRUE,
                                       !.pc = IF Host THEN "disconnect" ELSE "wait"]
                        /\ UNCHANGED <<owner, first>>
                   ELSE /\ Raise("closeAdapter")
                        /\ IF Host
                           THEN /\ owner' = [Blamed(owner, "closeAdapter")
                                                EXCEPT !.cleanup = TRUE]
                                /\ CloseOn("disconnect")
                           ELSE Unwind("finally", "other") /\ UNCHANGED owner
    /\ UNCHANGED <<obs, record, scenario, job, graph, output, requests, said,
                   interrupted, disturbed>>

Disconnect ==
    /\ At("disconnect")
    /\ \/ /\ owner' = [Disconnected(owner) EXCEPT !.ready = FALSE]
          /\ Goto("wait")
          /\ UNCHANGED first
       \/ /\ owner.transport = "open"
          /\ owner' = [Blamed(owner, "disconnect") EXCEPT !.ready = FALSE,
                                                         !.cleanup = TRUE]
          /\ Raise("disconnect")
          /\ CloseOn("wait")
    /\ UNCHANGED <<obs, record, scenario, server, job, graph, output, requests,
                   said, interrupted, disturbed>>

\* Fifteen seconds on the original handle.
AwaitExit ==
    /\ At("wait")
    /\ Host
    /\ \/ WaitReturns /\ Goto("verdict") /\ UNCHANGED first
       \/ /\ WaitUnrecorded \/ WaitFails
          /\ Raise("wait")
          /\ CloseOn("verdict")
    /\ UNCHANGED <<scenario, server, job, graph, output, requests, said, interrupted,
                   disturbed>>

\* The same on a process that is not ours.
AwaitForeignExit ==
    /\ At("wait")
    /\ ~Host
    /\ \/ obs.phase = "exited" /\ obs.code = 0 /\ Goto("publish") /\ UNCHANGED first
       \/ Raise("wait") /\ Unwind("finally", "other")
    /\ UNCHANGED <<hostVars, scenario, server, job, graph, output, requests, said,
                   interrupted, disturbed>>

\* Mutant of Verdict: the exit code is not looked at.
VerdictAnyCode ==
    /\ At("verdict")
    /\ IF run.closeError
       THEN CloseRaises("close")
       ELSE /\ Goto(IF run.rescue THEN "fail" ELSE "publish")
            /\ UNCHANGED <<owner, record, first>>
    /\ UNCHANGED <<obs, scenario, server, job, graph, output, requests, said,
                   interrupted, disturbed>>

\* close raises, or returns the exit code.
Verdict ==
    /\ At("verdict")
    /\ IF run.closeError
       THEN CloseRaises("close")
       ELSE IF run.rescue \/ owner.code = 0
       THEN /\ Goto(IF run.rescue THEN "fail" ELSE "publish")
            /\ UNCHANGED <<owner, record, first>>
       ELSE Fails("code") /\ UNCHANGED record
    /\ UNCHANGED <<obs, scenario, server, job, graph, output, requests, said,
                   interrupted, disturbed>>

\* _write_public_evidence creates the file, writes it and flushes it.
Publish ==
    /\ At("publish")
    /\ \/ output' = "whole" /\ Goto("finally") /\ UNCHANGED <<owner, first>>
       \/ output' \in {"none", "partial", "whole"} /\ Fails("publish")
    /\ UNCHANGED <<obs, record, scenario, server, job, graph, requests, said,
                   interrupted, disturbed>>

\* The adapter is stopped unless it has been; the error that was raised goes on.
Finally ==
    /\ At("finally")
    /\ \E o \in IF run.stopped THEN {Outcome(server, FALSE)} ELSE StopServer(server) :
           /\ server' = o.server
           /\ IF o.raised /\ Host
              THEN /\ Failure([owner EXCEPT !.cleanup = TRUE], "finally")
                   /\ Unwind("report", "owned")
                   /\ Raise("finally")
              ELSE /\ UNCHANGED <<owner, record>>
                   /\ IF o.raised THEN Exit("failed") /\ Raise("finally")
                      ELSE /\ UNCHANGED first
                           /\ \/ run.error = "none" /\ Exit("ok")
                              \/ run.error = "owned" /\ Goto("report")
                              \/ run.error = "other" /\ Host /\ Goto("rescue")
                              \/ run.error = "other" /\ ~Host /\ Exit("failed")
    /\ UNCHANGED <<obs, scenario, job, graph, output, requests, said, interrupted,
                   disturbed>>

-----------------------------------------------------------------------------
(* run_disposable_acceptance after an error, and main.                     *)

\* OBS is asked to leave if it never has been and still is what was started.
Rescue ==
    /\ At("rescue")
    /\ IF owner.ready /\ ~owner.attempted
       THEN run' = [run EXCEPT !.pc = "submit", !.rescue = TRUE, !.closeError = FALSE]
       ELSE Goto("fail")
    /\ UNCHANGED <<hostVars, scenario, server, job, graph, output, histories,
                   disturbed>>

FailRun ==
    /\ At("fail")
    /\ Failure(owner, "acceptance")
    /\ Goto("report")
    /\ UNCHANGED <<obs, scenario, server, job, graph, output, histories, disturbed>>

\* The first report; whatever becomes of it, the owner is retained.
Report ==
    /\ At("report")
    /\ said' \in {said, Append(said, IF owner.code = NoCode THEN "UNKNOWN"
                                     ELSE "TERMINAL")}
    /\ Goto("retain")
    /\ UNCHANGED <<hostVars, scenario, server, job, graph, output, requests, first,
                   interrupted, disturbed>>

Retain ==
    /\ At("retain")
    /\ \/ owner' = Disconnected(owner)
       \/ owner.transport = "open" /\ owner' = [owner EXCEPT !.cleanup = TRUE]
    /\ Goto("hold")
    /\ UNCHANGED <<obs, record, scenario, server, job, graph, output, histories,
                   disturbed>>

\* Mutant of Hold: an interrupted wait lets the process go.
HoldOnce ==
    /\ At("hold")
    /\ \/ /\ ~owner.process \/ owner.code # NoCode
          /\ Goto("final")
          /\ UNCHANGED <<hostVars, interrupted>>
       \/ /\ owner.process
          /\ owner.code = NoCode
          /\ \/ (WaitReturns \/ WaitUnrecorded) /\ UNCHANGED <<run, interrupted>>
             \/ WaitFails /\ Goto("final") /\ UNCHANGED interrupted
    /\ UNCHANGED <<scenario, server, job, graph, output, requests, first, said,
                   disturbed>>

\* Mutant of Hold: the loop looks for the end in the record.
HoldRecorded ==
    /\ At("hold")
    /\ \/ /\ ~owner.process \/ record = "TERMINAL"
          /\ Goto("final")
          /\ UNCHANGED <<hostVars, interrupted>>
       \/ /\ owner.process
          /\ owner.code = NoCode
          /\ UNCHANGED <<run, interrupted>>
          /\ WaitReturns \/ WaitUnrecorded
    /\ UNCHANGED <<scenario, server, job, graph, output, requests, first, said,
                   disturbed>>

\* retain_until_exit: waits without a limit, and again when it is interrupted.
Hold ==
    /\ At("hold")
    /\ \/ /\ ~owner.process \/ owner.code # NoCode
          /\ Goto("final")
          /\ UNCHANGED <<hostVars, interrupted>>
       \/ /\ owner.process
          /\ owner.code = NoCode
          /\ UNCHANGED run
          /\ \/ (WaitReturns \/ WaitUnrecorded) /\ UNCHANGED interrupted
             \/ /\ interrupted < Interrupts
                /\ interrupted' = interrupted + 1
                /\ WaitFails
    /\ UNCHANGED <<scenario, server, job, graph, output, requests, first, said,
                   disturbed>>

\* The second report, unless the first one raised.
Final ==
    /\ At("final")
    /\ said' \in IF said = <<>> THEN {said}
                 ELSE {Append(said, IF owner.code # NoCode THEN "TERMINAL"
                                    ELSE "NOT_STARTED")}
    /\ Exit("failed")
    /\ UNCHANGED <<hostVars, scenario, server, job, graph, output, requests, first,
                   interrupted, disturbed>>

-----------------------------------------------------------------------------
(* server.main: the adapter for as long as OBS lives.                      *)

Sidecar ==
    \/ /\ At("bind")
       /\ LET pid == ResolvedPid(scenario.pid, scenario.environment, scenario.obsPids)
              accepted == /\ HandshakeAccepted(scenario.handshake)
                          /\ pid # {}
                          /\ EndpointAccepted(scenario.endpoint)
                          /\ ControlPortAccepted(scenario.port, scenario.endpoint)
          IN  \/ /\ accepted
                 /\ \E o \in StartServer(server, obs.phase = "serving"
                                                 /\ scenario.served \in pid) :
                        /\ server' = o.server
                        /\ IF o.raised THEN Exit("failed") ELSE Goto("serve")
              \/ /\ ~accepted
                 /\ Exit("failed")
                 /\ UNCHANGED server
    \/ /\ At("serve")                \* process_is_alive, once a second
       /\ obs.phase = "exited"
       /\ Goto("stop")
       /\ UNCHANGED server
    \/ /\ At("stop")
       /\ \E o \in StopServer(server) :
              /\ server' = o.server
              /\ Exit(IF o.raised THEN "failed" ELSE "ok")

SidecarStep ==
    /\ Sidecar
    /\ UNCHANGED <<hostVars, scenario, job, graph, output, histories, disturbed>>

\* SIGINT or SIGTERM.
Signal ==
    /\ At("serve")
    /\ Goto("stop")
    /\ UNCHANGED <<hostVars, scenario, server, job, graph, output, histories,
                   disturbed>>

-----------------------------------------------------------------------------
(* Everything else.                                                        *)

\* The adapter performs a call or fails at it, even after nobody waits for it.
JobEnds ==
    /\ job.state = "running"
    /\ \/ /\ server.connection = "open"
          /\ obs.phase = "serving"
          /\ Possible(graph, Script[job.step])
          /\ graph' = Performed(graph, Script[job.step])
          /\ job' = [job EXCEPT !.state = "performed"]
       \/ /\ job' = [job EXCEPT !.state = "failed"]
          /\ UNCHANGED graph
    /\ UNCHANGED <<hostVars, run1, server, output, histories, disturbed>>

\* The user of OBS starts or stops a recording, also when OBS is about to leave.
Disturb ==
    /\ disturbed < Disturbances
    /\ obs.phase \in {"serving", "leaving"}
    /\ disturbed' = disturbed + 1
    /\ graph' = [graph EXCEPT !.recording = IF @ = "stopped" THEN "recording"
                                            ELSE "stopped"]
    /\ UNCHANGED <<hostVars, run1, server, job, output, histories>>

HostStep ==
    /\ ObsBoots \/ PortIsTaken \/ \E code \in {0, 1} : ObsExits(code)
    /\ UNCHANGED <<run1, server, job, graph, output, histories, disturbed>>

Program ==
    \/ Prepare \/ Start \/ Gate \/ StartAdapter \/ Initialize \/ CallTool
    \/ ToolReturns \/ ToolFails \/ BuildEvidence \/ Submit \/ CloseAdapter
    \/ Disconnect \/ AwaitExit \/ AwaitForeignExit \/ Verdict \/ Publish
    \/ Finally \/ Rescue \/ FailRun \/ Report \/ Retain \/ Hold \/ Final
    \/ SidecarStep

Next == Program \/ Signal \/ JobEnds \/ Disturb \/ HostStep

Spec == Init /\ [][Next]_vars

\* The program is scheduled, and OBS ends some day: its user closes it when it
\* does not leave by itself.  The adapter need not finish any call.
FairSpec == Spec /\ WF_vars(Program)
                 /\ WF_vars(\E code \in {0, 1} : ObsExits(code) /\
                              UNCHANGED <<run1, server, job, graph, output,
                                          histories, disturbed>>)

-----------------------------------------------------------------------------
(* Properties.                                                             *)

Exited == At("exited")

\* docs/real-obs-acceptance.md: an OBS that was started is never let go before the
\* wait on its original handle has returned, however the run fails and however
\* often the wait is interrupted (retain_until_exit), nor is "TERMINAL" said of it
\* before that, in the record or in what is printed.
NeverAbandoned ==
    /\ Exited /\ owner.process => owner.code # NoCode
    /\ record = "TERMINAL" \/ "TERMINAL" \in Range(said) => owner.code # NoCode
    /\ "NOT_STARTED" \in Range(said) => ~owner.process

\* Passed evidence is whole truth: it exists only after the whole script, whose
\* scenes are gone but for the baseline it ends on, on an OBS that records nothing
\* unless its user has made it, and that has ended with code 0 after the adapter had
\* been stopped.  The program succeeds only with the evidence on disk, and an owned
\* OBS is then recorded as ended.
EvidenceEarned ==
    /\ run.status = "ok" /\ scenario.mode # "sidecar" =>
        output = "whole" /\ (Host => record = "TERMINAL")
    /\ output # "none" =>
        /\ run.step > Len(Script)
        /\ graph.scenes \cap TestScenes = {"baseline"} /\ graph.current = "baseline"
        /\ ~graph.source /\ ~graph.studio
        /\ graph.recording = "stopped" \/ disturbed > 0
        /\ obs.phase = "exited" /\ obs.code = 0
        /\ run.stopped /\ server.held = "none"
        /\ Host => owner.code = 0 /\ owner.transport # "open"

\* The gate tells a sound OBS from any other: the tree that was prepared is one the
\* owner and the gate take for disposable, and the plugin of the archive is found
\* where OBS has mapped it, on every platform; and there is evidence of no OBS but
\* one that runs the plugin and the package that are released.
GateIsExact ==
    /\ At("gate") /\ scenario.sound =>
           /\ ProcessAccepted(scenario.platform,
                              Layout(scenario.platform, scenario.executable))
           /\ ArtifactsMatch
    /\ output # "none" => scenario.sound

\* OBS is asked to leave at most once, on whichever of its two ways (close, then
\* the except clause of run_disposable_acceptance) the run ends.
AskedOnce == requests <= 1

\* The error that is reported is the first one that was raised, not one of those
\* that cleaning up brought about.
FirstErrorReported ==
    owner.primary # "none" => owner.primary = first

\* A connection that is still open when the program ends is one that could not be
\* closed, and the program has failed unless it is not ours.  That of an adapter that
\* was made is held by _server; that of one whose construction failed is held by the
\* error, which an owner has kept as its primary one through all the cleaning up.
LeftOpenIsHeld ==
    Exited =>
        /\ server.connection = "open" =>
               server.held # "none" /\ (run.status = "failed" \/ server.held = "prior")
        /\ server.unmade = "open" =>
               run.status = "failed" /\ (Host => owner.primary = "adapter")

\* Every program ends once OBS has ended.
ProgramEnds == <>Exited
=============================================================================
