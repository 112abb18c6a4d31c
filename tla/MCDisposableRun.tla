---------------------------- MODULE MCDisposableRun ----------------------------
(* The scenarios for the run of DisposableRun: a sound one for every program and *)
(* platform, and for each thing that is checked one in which it is wrong.   *)
EXTENDS DisposableRun

Binary(platform) ==
    [windows |-> WindowsBinary, linux |-> <<"bin", "64bit", "dcc-mcp-obs.so">>,
     macos |-> <<"Contents", "MacOS", "dcc-mcp-obs">>][platform]

Locale(platform) ==
    IF platform = "macos" THEN <<"Contents", "Resources", "locale", "en-US.ini">>
    ELSE <<"data", "locale", "en-US.ini">>

Archive(platform) ==
    [manifest |-> TRUE, platform |-> platform, version |-> "1",
     entries |-> <<[source |-> "s1", target |-> Binary(platform), sha256 |-> "built"],
                   [source |-> "s2", target |-> Locale(platform), sha256 |-> "en"]>>,
     payload |-> ("s1" :> "built") @@ ("s2" :> "en")]

Package == (<<"__init__.py">> :> "init") @@ (<<"bridge.py">> :> "bridge")
Wheel == [version |-> "1", files |-> Package]
Installed == [version |-> "1", runs |-> TRUE, editable |-> FALSE, files |-> Package,
              inventory |-> DOMAIN Package]

Sound(mode, platform) ==
    [mode |-> mode, platform |-> platform, version |-> "1", sound |-> TRUE,
     prior |-> "none",
     executable |-> [file |-> TRUE,
                     path |-> IF platform = "windows"
                              THEN <<"obs", "bin", "64bit", "obs64.exe">>
                              ELSE <<"usr", "bin", "obs">>],
     archive |-> Archive(platform),
     files |-> {Receipt, Binary(platform), Locale(platform)},
     loaded |-> "built", wheel |-> Wheel, installed |-> Installed]

Endpoint == [scheme |-> "ws", host |-> "127.0.0.1", port |-> 4455, extras |-> FALSE,
             timeout |-> 50, transport |-> "dual"]

SidecarOf(pid, environment, obsPids) ==
    [mode |-> "sidecar", prior |-> "none", served |-> 1, pid |-> pid,
     environment |-> environment, obsPids |-> obsPids, endpoint |-> Endpoint,
     port |-> 9766,
     handshake |-> [adapter |-> "obs", version |-> "installed", metadata |-> TRUE]]

Prior(s, prior) == [s EXCEPT !.prior = prior]
Wrong(ss) == {[s EXCEPT !.sound = FALSE] : s \in ss}

\* An adapter that is there ends the run of a host at the gate, which is all that
\* depends on the platform.
Hosts ==
    {Sound("host", "linux")} \cup
    {Prior(Sound("host", p), "running") : p \in Platforms} \cup
    {Prior(Sound("host", "linux"), "stopped")} \cup
    Wrong({[Sound("host", "windows") EXCEPT !.executable.path = <<"obs", "obs64.exe">>],
           [Sound("host", "windows") EXCEPT !.files = @ \cup {<<"foreign.txt">>}],
           [Sound("host", "linux") EXCEPT !.executable.file = FALSE],
           [Sound("host", "linux") EXCEPT !.archive.entries[2].target
                                               = <<"dcc-mcp-obs">>],
           [Sound("host", "linux") EXCEPT !.archive.payload["s1"] = "other"]})

Attached ==
    {Prior(Sound("attach", "linux"), q) : q \in {"running", "stopped"}} \cup
    {Prior(Sound("attach", p), "running") : p \in Platforms} \cup
    Wrong({[Sound("attach", "linux") EXCEPT !.loaded = "other"],
           [Sound("attach", "linux") EXCEPT !.files = @ \ {Binary("linux")}],
           [Sound("attach", "linux") EXCEPT !.installed.editable = TRUE],
           [Sound("attach", "linux") EXCEPT !.installed.files[<<"bridge.py">>]
                                               = "other"],
           [Sound("attach", "linux") EXCEPT !.archive.platform = "macos"],
           [Sound("attach", "linux") EXCEPT !.archive.version = "2"],
           [Sound("attach", "linux") EXCEPT !.wheel.version = "2",
                                            !.installed.version = "2"]})

Sidecars ==
    {SidecarOf(p, e, pids) : p \in {NoPid, 1, 2}, e \in {NoPid, 1},
                             pids \in {{1}, {1, 2}}} \cup
    {[SidecarOf(1, NoPid, {1}) EXCEPT !.port = 4455],
     [SidecarOf(1, NoPid, {1}) EXCEPT !.handshake.version = "other"],
     [SidecarOf(1, NoPid, {1}) EXCEPT !.endpoint.host = "0.0.0.0"]}

AllScenarios == Hosts \cup Attached \cup Sidecars
=============================================================================
