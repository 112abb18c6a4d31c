----------------------------- MODULE AdapterServer -----------------------------
(***************************************************************************)
(* The sidecar's server (server.py, process.py, config.py and              *)
(* shared_runtime.py): which OBS it binds to, and who holds the adapter    *)
(* when a start or a stop fails half-way.  A call is given by the set of   *)
(* its outcomes, each the state after it and whether it raised; the DCC    *)
(* server below ObsMcpServer is external and may fail at every step.       *)
(***************************************************************************)
EXTENDS Naturals, FiniteSets

CONSTANT NoPid   \* None, for a PID that was not given

-----------------------------------------------------------------------------
(* Which process.                                                          *)

\* resolve_obs_pid, "processes" being the name of every running process: a PID
\* that was given must be an OBS, otherwise there must be exactly one.
CandidatePids(explicit, environment, obsPids) ==
    IF explicit # NoPid THEN {explicit}
    ELSE IF environment # NoPid THEN {environment}
    ELSE obsPids

ResolvedPid(explicit, environment, obsPids) ==
    LET candidates == CandidatePids(explicit, environment, obsPids)
    IN  IF Cardinality(candidates) = 1 THEN candidates \cap obsPids ELSE {}

\* ObsEndpointConfig.from_environment and _resolve_control_port: a plain socket
\* on the loopback address, a timeout of 0.1 to 30 seconds (counted in tenths), and ports
\* that differ.
EndpointAccepted(endpoint) ==
    /\ endpoint.scheme = "ws"
    /\ endpoint.host = "127.0.0.1"
    /\ endpoint.port \in 1..65535
    /\ ~endpoint.extras
    /\ endpoint.timeout \in 1..300
    /\ endpoint.transport \in {"websocket", "dual"}

ControlPortAccepted(port, endpoint) ==
    /\ port \in 0..65535
    /\ port # endpoint.port

\* require_runtime: the runtime knows this adapter, in this version, and names
\* itself.
HandshakeAccepted(handshake) ==
    /\ handshake.adapter = "obs"
    /\ handshake.version = "installed"
    /\ handshake.metadata

-----------------------------------------------------------------------------
(* One adapter, and the variable of the module that holds it.              *)

\* "held" says whose adapter _server is ("prior", "ours" or none), "connection" is its
\* transport, "unmade" the transport of an adapter whose construction has failed.
NoServer == [held |-> "none", running |-> FALSE, connection |-> "none",
             loaded |-> FALSE, unmade |-> "none"]

\* _server = None: no adapter is held, what was never made is where it was.
Forgotten(s) == [NoServer EXCEPT !.unmade = s.unmade]

Outcome(s, failed) == [server |-> s, raised |-> failed]

\* ObsMcpServer.stop: the transport first, and the server whatever came of it; it
\* raises if either goes on, and may do so although neither does.
Channels(s) == IF s.connection = "open" THEN {"open", "closed"} ELSE {s.connection}
Runs(s) == {FALSE, s.running}
Left(s, c, r) == [s EXCEPT !.connection = c, !.running = r]

Stop(s) ==
    LET left == {Left(s, c, r) : c \in Channels(s), r \in Runs(s)}
    IN  {o \in {Outcome(l, failed) : l \in left, failed \in BOOLEAN} :
            o.server.connection = "open" \/ o.server.running => o.raised}

\* Mutant of StopServer: the adapter is forgotten before it has stopped.
StopForgetful(s) ==
    IF s.held = "none" THEN {Outcome(s, FALSE)}
    ELSE {Outcome([o.server EXCEPT !.held = "none"], o.raised) : o \in Stop(s)}

\* stop_server: an adapter that could not stop stays held.
StopServer(s) ==
    IF s.held = "none" THEN {Outcome(s, FALSE)}
    ELSE {IF o.raised THEN o
          ELSE Outcome(Forgotten(s), FALSE) : o \in Stop(s)}

\* ObsMcpServer.__init__: refused before there is a transport, or the transport is
\* closed again when something fails, or it cannot be closed and stays open, known
\* to nobody but the AdapterConstructionError that is raised.
ConstructionFails(s) ==
    {Outcome(s, TRUE), Outcome([s EXCEPT !.unmade = "open"], TRUE)}

Candidate(s) == [s EXCEPT !.held = "ours", !.running = FALSE,
                          !.connection = "open", !.loaded = FALSE]

\* register_builtin_actions, start or load_skill fails: the candidate is stopped,
\* and is held on if that fails too.
StartupFails(s) ==
    {Outcome(IF o.raised THEN o.server ELSE Forgotten(s), TRUE) :
        o \in UNION {Stop([Candidate(s) EXCEPT !.running = r]) : r \in BOOLEAN}}

\* start_server, "bound" saying that OBS answers with the PID that is expected.
StartServer(s, bound) ==
    IF s.running THEN {Outcome(s, FALSE)}
    ELSE LET ready == IF s.held = "none" THEN {Outcome(s, FALSE)} ELSE Stop(s)
         IN  {o \in ready : o.raised} \cup
             UNION {ConstructionFails(o.server) \cup
                    (IF bound
                     THEN StartupFails(o.server) \cup
                          {Outcome([Candidate(o.server) EXCEPT !.running = TRUE,
                                                               !.loaded = TRUE], FALSE)}
                     ELSE {}) : o \in {r \in ready : ~r.raised}}
=============================================================================
