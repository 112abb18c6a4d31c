--------------------------- MODULE DisposableLayout ---------------------------
(***************************************************************************)
(* The private directory tree a disposable OBS runs in (disposable_obs.py) *)
(* and the two places that must agree with it: the owner of the process    *)
(* (owned_obs.py) and the checks the acceptance run makes of the process,  *)
(* of the plugin it has mapped and of the wheel Python runs                *)
(* (real_obs_acceptance.py).  Paths are sequences of names; contents are   *)
(* compared through their digests.                                         *)
(***************************************************************************)
EXTENDS Sequences, SequencesExt, FiniteSets, TLC

Platforms == {"windows", "linux", "macos"}

Inside(path, root) == IsPrefix(root, path)

-----------------------------------------------------------------------------
(* The layout.                                                             *)

WorkRoot == <<"work">>

\* Windows copies the whole portable tree, so the executable must be where that
\* tree has it.
ExecutableAccepted(platform, executable) ==
    /\ platform \in Platforms
    /\ executable.file
    /\ platform = "windows" =>
           /\ Len(executable.path) >= 3
           /\ IsSuffix(<<"bin", "64bit", "obs64.exe">>, executable.path)

Home == WorkRoot \o <<"home">>
XdgConfig == WorkRoot \o <<"xdg-config">>

ConfigRoot(platform) ==
    [windows |-> WorkRoot \o <<"obs", "config", "obs-studio">>,
     linux   |-> XdgConfig \o <<"obs-studio">>,
     macos   |-> Home \o <<"Library", "Application Support", "obs-studio">>][platform]

PluginRoot(platform) ==
    [windows |-> WorkRoot \o <<"native-plugin">>,
     linux   |-> ConfigRoot("linux") \o <<"plugins", "dcc-mcp-obs">>,
     macos   |-> ConfigRoot("macos") \o <<"plugins", "dcc-mcp-obs.plugin">>][platform]

\* build_disposable_layout; of the arguments, those that are looked at again.
Layout(platform, executable) ==
    [executable |-> IF platform = "windows"
                    THEN WorkRoot \o <<"obs", "bin", "64bit", "obs64.exe">>
                    ELSE executable.path,
     config |-> ConfigRoot(platform),
     plugin |-> PluginRoot(platform),
     recordings |-> WorkRoot \o <<"recordings">>,
     arguments |-> {"--multi"} \cup
                   (IF platform = "windows" THEN {"--portable"} ELSE {}),
     environment |-> IF platform = "windows" THEN <<>>
                     ELSE ("HOME" :> Home) @@ ("XDG_CONFIG_HOME" :> XdgConfig)]

\* OwnedObsHost.__init__ takes a layout only if OBS stays inside the root.
OwnerAccepts(platform, layout) ==
    /\ Inside(layout.config, WorkRoot)
    /\ Inside(layout.recordings, WorkRoot)
    /\ platform = "windows" =>
           /\ Inside(layout.executable, WorkRoot)
           /\ {"--portable", "--multi"} \subseteq layout.arguments

\* _verify_disposable_process, of a process the caller only has the PID of.
ProcessAccepted(platform, process) ==
    /\ Last(process.executable) \in {"obs", "obs64", "obs.exe", "obs64.exe"}
    /\ "--multi" \in process.arguments
    /\ IF platform = "windows"
       THEN /\ "--portable" \in process.arguments
            /\ Inside(process.executable, WorkRoot)
       ELSE \E name \in {"HOME", "XDG_CONFIG_HOME"} \cap DOMAIN process.environment :
                Inside(process.environment[name], WorkRoot)

-----------------------------------------------------------------------------
(* The plugin: files below the installed root, then where OBS looks.       *)

Receipt == <<".dcc-mcp-obs-install.json">>
WindowsBinary == <<"bin", "64bit", "dcc-mcp-obs.dll">>

\* materialize_windows_plugin: portable OBS finds plugins in its own tree.
Mappable(files) ==
    /\ WindowsBinary \in files
    /\ \A f \in files : f \in {Receipt, WindowsBinary} \/ Head(f) = "data"

\* Mutant of Materialised: the installed layout is copied as it is.
MaterialisedFlat(files) ==
    [f \in files \ {Receipt} |-> WorkRoot \o <<"obs">> \o f]

Materialised(files) ==
    [f \in files \ {Receipt} |->
        WorkRoot \o <<"obs">> \o
        (IF f = WindowsBinary
         THEN <<"obs-plugins", "64bit", "dcc-mcp-obs.dll">>
         ELSE <<"data", "obs-plugins", "dcc-mcp-obs">> \o Tail(f))]

\* Where the files an installation consists of are when OBS starts.
Placed(platform, files) ==
    IF platform = "windows" THEN Range(Materialised(files))
    ELSE {PluginRoot(platform) \o f : f \in files}

\* The one place of each platform's OBS that holds the plugin's binary.
DiscoveredBinary(platform) ==
    [windows |-> WorkRoot \o <<"obs", "obs-plugins", "64bit", "dcc-mcp-obs.dll">>,
     linux |-> XdgConfig \o <<"obs-studio", "plugins", "dcc-mcp-obs", "bin",
                              "64bit", "dcc-mcp-obs.so">>,
     macos |-> Home \o <<"Library", "Application Support", "obs-studio", "plugins",
                         "dcc-mcp-obs.plugin", "Contents", "MacOS",
                         "dcc-mcp-obs">>][platform]

\* _loaded_native_module_paths: macOS cannot list modules, so the one that is
\* expected is looked for in the output of vmmap.
MappedModules(platform, maps) ==
    IF platform # "macos" THEN maps ELSE maps \cap {DiscoveredBinary("macos")}

MappedModulesKnown(platform, maps) ==
    platform = "macos" => DiscoveredBinary("macos") \in maps

-----------------------------------------------------------------------------
(* The artifacts: what runs is what is about to be released.               *)

BinaryNames == {"dcc-mcp-obs.dll", "dcc-mcp-obs.so", "dcc-mcp-obs"}

Binaries(archive) ==
    {i \in DOMAIN archive.entries : Last(archive.entries[i].target) \in BinaryNames}

\* The archive is exactly its inventory.
ArchiveAccepted(archive) ==
    /\ archive.manifest
    /\ archive.entries # <<>>
    /\ IsInjective([i \in DOMAIN archive.entries |-> archive.entries[i].source])
    /\ {archive.entries[i].source : i \in DOMAIN archive.entries}
           = DOMAIN archive.payload
    /\ \A i \in DOMAIN archive.entries :
           archive.payload[archive.entries[i].source] = archive.entries[i].sha256
    /\ Cardinality(Binaries(archive)) = 1

\* verify_loaded_native_plugin: one mapped module has the name of the archive's
\* binary, and the file it was mapped from has its digest.
LoadedAccepted(archive, paths, digest) ==
    /\ ArchiveAccepted(archive)
    /\ LET binary == archive.entries[CHOOSE i \in Binaries(archive) : TRUE]
           matches == {p \in paths : Last(p) = Last(binary.target)}
       IN  /\ Cardinality(matches) = 1
           /\ \A p \in matches : digest[p] = binary.sha256

\* verify_installed_python_wheel: the distribution that is installed is not
\* editable, is the package that runs, and every file of the wheel is in it as
\* the wheel has it.
WheelAccepted(wheel, installed) ==
    /\ <<"__init__.py">> \in DOMAIN wheel.files
    /\ wheel.version = installed.version
    /\ DOMAIN wheel.files \subseteq installed.inventory
    /\ installed.runs
    /\ ~installed.editable
    /\ \A f \in DOMAIN wheel.files :
           f \in DOMAIN installed.files /\ installed.files[f] = wheel.files[f]
=============================================================================
