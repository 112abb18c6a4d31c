------------------------- MODULE InstallTransaction -------------------------
(***************************************************************************)
(* dcc-mcp-obs-install: one process at a time puts the native plug-in in a *)
(* directory, replaces it, verifies it or removes it, file by file, with   *)
(* the previous files moved aside and put back when a step fails.  Between *)
(* any two steps another program may change a file, a step may fail with   *)
(* an OSError, and the process may be killed; what it had in memory (the   *)
(* snapshots, the identities) is then gone and only the disk is left.      *)
(* A file on the disk is [ver, gen]: whose content it has (a version, or   *)
(* Junk) and which object (inode) it is, negative if another program made  *)
(* it.                                                                     *)
(***************************************************************************)
EXTENDS Integers, Sequences, FiniteSets, Functions

CONSTANTS Targets,     \* plug-in directories
          Main, Legacy,\* the default directory and the former per-user one
          Files,       \* for each version, the sequence of names in its receipt
          Receipt,     \* the name of the receipt
          NoFile,
          Bundles,     \* the archives a command may name
          Limit        \* how many commands, drifts, faults, crashes a behaviour has

ReceiptPath == <<<<"receipt", 0>>>>
B == INSTANCE InstallBundle WITH Reserved <- {"nul"}, MaxMembers <- 128

ASSUME InstallAssumption == /\ DOMAIN Files = {1, 2}
                            /\ \A v \in {1, 2} : Receipt \notin Range(Files[v])
                            /\ Legacy \in Targets /\ Main \in Targets
ASSUME FilesAssumption == /\ \A v \in {1, 2} : B!Sequence(Files[v]) /\ IsInjective(Files[v])
                          /\ NoFile \notin [ver : Int, gen : Int]
ASSUME BundlesAssumption == \A bundle \in Bundles : B!WellFormed(bundle)

VARIABLES there,    \* the directories that exist: <<target, kind>>
          at,       \* at[p][n]: the file called n in directory p, or NoFile
          posix,    \* the platform
          locked,   \* targets whose write bits the POSIX guard has removed
          held,     \* targets a live Windows report keeps open
          tx,       \* the memory of the installer
          touched,  \* <<p, n>> that others changed since the files were captured
          leftover, \* recovery directories that were there before this command
          spent     \* how much of Limit is used

vars == <<there, at, posix, locked, held, tx, touched, leftover, spent>>
disk == <<there, at, posix, locked, held>>
ghost == <<touched, leftover>>

Current == 2
Junk    == 0
Names   == Range(Files[1]) \cup Range(Files[2]) \cup {Receipt}
Places  == Targets \X {"home", "backup", "remove"}

Owned(v)    == Append(Files[v], Receipt)
OwnedSet(v) == IF v = 0 THEN {} ELSE Range(Owned(v))
Nothing     == [n \in Names |-> NoFile]

Home(t) == <<t, "home">>
home    == Home(tx.home)
side    == <<tx.home, IF tx.job = "remove" THEN "remove" ELSE "backup">>

\* Objects of command number c: what it stages, and what it restores from memory.
Staged == 2 * spent.command
Copied == 2 * spent.command + 1

\* What another program makes is an object that was not there before.
Foreign == -1 - spent.drift

\* _capture_owned_install_identity: the identity of every path of a receipt.
Identity(t, v) == [n \in Names |-> IF n \in OwnedSet(v) THEN at[Home(t)][n] ELSE NoFile]

\* _verify: the receipt and every file it lists are there with its digests.
Whole(t, v) == /\ Home(t) \in there
               /\ \A n \in OwnedSet(v) : at[Home(t)][n] # NoFile /\ at[Home(t)][n].ver = v
VersionAt(t) == IF \E v \in {1, 2} : Whole(t, v) THEN CHOOSE v \in {1, 2} : Whole(t, v) ELSE 0

\* _identity_maps_same_objects: contents and times may differ, the objects not.
SameObjects(a, b, names) ==
  \A n \in names : a[n] # NoFile /\ b[n] # NoFile /\ a[n].gen = b[n].gen

\* The publication guard: version 0 while it is inactive.
NoGuard == [ver |-> 0, id |-> Nothing]
PublishedCurrent == tx.guard.ver # 0 => Identity(tx.home, tx.guard.ver) = tx.guard.id

\* _require_exact_recovery_inventory
RecoveryExact == side \in there /\ at[side] = tx.kept

\* _require_verified_receipt_current, for the receipt about to be reported.
ReceiptCurrent == Home(tx.target) \in there /\ Identity(tx.target, Current) = tx.receipt

\* _snapshot_owned_files: every captured file is still the captured object.
SnapshotCurrent == Identity(tx.home, tx.prev) = tx.expected

\* _require_owned_source_identity
OwnedSource(n) == at[home][n] = tx.expected[n]

\* Mutant: The destination of a file is not looked at first.
FreeOrNot(n) == home \in there

\* _prepare_owned_destination and lexists: a directory, and nothing there in it.
Free(n) == home \in there /\ at[home][n] = NoFile

\* _same_file_object with what was recorded of a published file.
OwnPublished(n) == at[home][n] # NoFile /\ at[home][n].gen = tx.own[n].gen

\* The directory lets its files be replaced and removed.
Writable == tx.home \notin locked

\* _recovery_source_matches: what was moved aside is still that object.
Gone(n)    == tx.kept[n] = NoFile \/ at[side][n] = NoFile
Matches(n) == ~Gone(n) /\ at[side][n] = tx.kept[n]

\* _restore_owned_snapshot: the bytes from memory, as a new file.
CopyOf(v) == [ver |-> v, gen |-> Copied]

Fresh == [pc |-> "idle", cmd |-> "none", target |-> Main, home |-> Main, bundle |-> {},
          legacy |-> FALSE, job |-> "none", prev |-> 0, expected |-> Nothing,
          kept |-> Nothing, orig |-> Nothing, guard |-> NoGuard, root |-> TRUE, m |-> 0, n |-> 0,
          seen |-> "nothing", own |-> Nothing, restored |-> {}, started |-> FALSE, back |-> FALSE, unclean |-> FALSE,
          receipt |-> Nothing, readonly |-> FALSE, err |-> "ok"]

Init == /\ posix \in BOOLEAN
        /\ \E v \in [Targets -> 0..2] :
             /\ there = {Home(t) : t \in {u \in Targets : v[u] # 0}}
             /\ at = [p \in Places |->
                        [n \in Names |-> IF p[2] = "home" /\ n \in OwnedSet(v[p[1]])
                                         THEN [ver |-> v[p[1]], gen |-> 0] ELSE NoFile]]
        /\ locked = {} /\ held = {}
        /\ tx = Fresh
        /\ touched = {} /\ leftover = {}
        /\ spent = [command |-> 0, drift |-> 0, fault |-> 0, crash |-> 0]

At(pc)   == tx.pc = pc
Go(pc)   == tx' = [tx EXCEPT !.pc = pc]
End(err) == tx' = [tx EXCEPT !.pc = "done", !.err = err]

Use(what)   == spent[what] < Limit[what] /\ spent' = [spent EXCEPT ![what] = @ + 1]
\* A step that requires ok goes wrong: ok is false, or the disk says no.
Wrong(ok)   == (~ok /\ UNCHANGED spent) \/ (ok /\ Use("fault"))
Right(ok)   == ok /\ UNCHANGED spent
OnDisk(p, n, f) == at' = [at EXCEPT ![p][n] = f]

-----------------------------------------------------------------------------
(***************************************************************************)
(* run: the command line, its preflight, and the parts that only read.     *)
(***************************************************************************)

Begin(cmd, t, bundle) ==
  /\ tx.pc \in {"idle", "done", "crashed"}
  /\ Use("command")
  /\ held' = held \ {t}                       \* _release_active_result_lease
  /\ tx' = [Fresh EXCEPT !.cmd = cmd, !.target = t, !.home = t, !.bundle = bundle,
              !.pc = CASE cmd \in {"install", "upgrade"} -> "bundle"
                       [] cmd = "verify"                 -> "verify"
                       [] cmd = "uninstall"              -> "capture"]
  /\ touched' = {}
  /\ leftover' = {p \in there : p[2] # "home"}
  /\ UNCHANGED <<there, at, posix, locked>>

\* A linked path, a duplicate module next to the target, a missing argument.
Refuse == /\ tx.pc \in {"bundle", "verify", "capture"} /\ tx.job = "none" /\ tx.prev = 0
          /\ End("OBS_TARGET_UNSAFE")
          /\ Use("fault") /\ UNCHANGED <<disk, ghost>>

ValidateBundle ==
  /\ At("bundle") /\ UNCHANGED <<disk, ghost, spent>>
  /\ tx' = IF B!Accepted(tx.bundle) THEN [tx EXCEPT !.pc = "legacy"]
           ELSE [tx EXCEPT !.pc = "done", !.err = "OBS_BUNDLE_INVALID", !.bundle = {}]

\* _verified_legacy_windows_user_plugin
FindLegacy ==
  /\ At("legacy") /\ UNCHANGED <<there, at, posix, locked, ghost, spent>>
  /\ IF ~posix /\ tx.target = Main /\ Legacy # Main /\ Home(Legacy) \in there
     THEN /\ held' = held \ {Legacy}
          /\ IF VersionAt(Legacy) # 0 THEN tx' = [tx EXCEPT !.pc = "prepare", !.legacy = TRUE]
                                      ELSE End("OBS_RECEIPT_INVALID")
     ELSE Go("prepare") /\ UNCHANGED held

\* _verify(target) after the install, and for status and verify; then either
\* the verified legacy plug-in is removed or the report is committed.
Verify ==
  /\ At("verify") /\ UNCHANGED <<disk, ghost, spent>>
  /\ IF VersionAt(tx.target) = Current
     THEN tx' = [tx EXCEPT !.receipt = Identity(tx.target, Current),
                           !.pc = IF tx.legacy THEN "capture" ELSE "commit",
                           !.home = IF tx.legacy THEN Legacy ELSE tx.home]
     ELSE End("OBS_RECEIPT_INVALID")

\* _commit_verified_report: the receipt is still current; then on Windows the
\* report keeps the files open, on POSIX the write bits go for a last check.
Commit ==
  /\ At("commit") /\ UNCHANGED <<there, at, posix, locked, ghost>>
  /\ \/ /\ Right(ReceiptCurrent)
        /\ IF posix THEN Go("guard") /\ UNCHANGED held
                    ELSE End("ok") /\ held' = held \cup {tx.target}
     \/ /\ Wrong(ReceiptCurrent)
        /\ End("OBS_PLUGIN_DRIFT") /\ UNCHANGED held

\* _acquire_posix_namespace_guard compares objects, not contents.
Guard ==
  /\ At("guard") /\ UNCHANGED <<there, at, posix, held, ghost>>
  /\ LET now  == Identity(tx.target, Current)
         same == SameObjects(now, tx.receipt, OwnedSet(Current))
     IN \/ /\ Right(same) /\ locked' = locked \cup {tx.target}
           /\ tx' = [tx EXCEPT !.pc = "guarded", !.receipt = now,
                                !.readonly = tx.target \in locked]
        \/ Wrong(same) /\ End("OBS_PLUGIN_DRIFT") /\ UNCHANGED locked

\* require_current under the guard, then close(require_restored=True).  The
\* modes restored are those found; a failing fchmod leaves them removed.
Unguard ==
  /\ At("guarded") /\ UNCHANGED <<there, at, posix, held, ghost>>
  /\ \/ /\ UNCHANGED spent
        /\ locked' = IF tx.readonly THEN locked ELSE locked \ {tx.target}
        /\ End(IF Identity(tx.target, Current) = tx.receipt THEN "ok" ELSE "OBS_PLUGIN_DRIFT")
     \/ Use("fault") /\ End("OBS_PLUGIN_DRIFT") /\ UNCHANGED locked

Reading == Refuse \/ ValidateBundle \/ FindLegacy \/ Verify \/ Commit \/ Guard \/ Unguard
-----------------------------------------------------------------------------
(***************************************************************************)
(* _install, and the forward half of _replace_owned_install and _uninstall *)
(***************************************************************************)

\* A transaction on tx.home, with nothing of one that went before.
Captured(v, job, pc) ==
  /\ tx' = [Fresh EXCEPT !.cmd = tx.cmd, !.target = tx.target, !.home = tx.home,
              !.bundle = tx.bundle, !.legacy = tx.legacy, !.receipt = tx.receipt,
              !.pc = pc, !.job = job, !.prev = v, !.expected = Identity(tx.home, v)]
  /\ touched' = {x \in touched : x[1] # home}

Prepare ==
  /\ At("prepare") /\ UNCHANGED <<disk, leftover, spent>>
  /\ LET v == VersionAt(tx.home)
     IN IF home \notin there THEN Captured(0, "none", "stage")
        ELSE IF tx.cmd = "install"
             THEN End("OBS_PLUGIN_ALREADY_INSTALLED") /\ UNCHANGED touched
        ELSE IF v = 0
             THEN End("OBS_RECEIPT_INVALID") /\ UNCHANGED touched
        ELSE Captured(v, "replace", "stage")

\* Unpack next to the target (nobody else knows the directory), check the
\* archive again, and without a previous install publish with one rename.
Stage ==
  /\ At("stage") /\ UNCHANGED <<posix, locked, held, ghost>>
  /\ \/ /\ Right(B!Stageable(tx.bundle))
        /\ IF tx.prev # 0
           THEN tx' = [tx EXCEPT !.pc = "recheck", !.bundle = {}] /\ UNCHANGED <<there, at>>
           ELSE /\ tx' = [tx EXCEPT !.pc = "verify", !.bundle = {}]
                /\ there' = there \cup {home}
                /\ at' = [at EXCEPT ![home] = [n \in Names |->
                            IF n \in OwnedSet(Current) THEN [ver |-> Current, gen |-> Staged]
                                                       ELSE NoFile]]
     \/ /\ Wrong(B!Stageable(tx.bundle)) /\ UNCHANGED <<there, at>>
        /\ tx' = [tx EXCEPT !.pc = "done", !.err = "OBS_INSTALL_FAILED", !.bundle = {}]

\* Verify again, refuse a recovery directory nobody resolved, make a new one.
Recheck ==
  /\ At("recheck") /\ UNCHANGED <<at, posix, locked, held, ghost>>
  /\ LET unchanged == VersionAt(tx.home) = tx.prev /\ SnapshotCurrent
     IN \/ Right(unchanged /\ side \notin there) /\ there' = there \cup {side} /\ Go("snapshot")
        \/ /\ Wrong(unchanged /\ side \notin there) /\ UNCHANGED there
           /\ End(IF ~unchanged THEN "OBS_PLUGIN_DRIFT"
                  ELSE IF side \in there THEN "OBS_RECOVERY_REQUIRED" ELSE "OBS_INSTALL_FAILED")

\* The contents go to memory.  This is before the try: a failure here leaves
\* the empty recovery directory behind.
Snapshot ==
  /\ At("snapshot") /\ UNCHANGED <<disk, ghost>>
  /\ \/ Right(SnapshotCurrent) /\ Go("move")
     \/ Wrong(SnapshotCurrent) /\ End("OBS_PLUGIN_DRIFT")

\* _uninstall: only this version, except for the legacy directory; snapshot.
Capture ==
  /\ At("capture") /\ UNCHANGED <<disk, leftover, spent>>
  /\ LET v == VersionAt(tx.home)
     IN IF v # 0 /\ (tx.legacy \/ v = Current)
        THEN Captured(v, "remove", "quarantine")
        ELSE End("OBS_RECEIPT_INVALID") /\ UNCHANGED touched

Quarantine ==
  /\ At("quarantine") /\ UNCHANGED <<at, posix, locked, held, ghost>>
  /\ \/ Right(side \notin there) /\ there' = there \cup {side} /\ Go("move")
     \/ /\ Wrong(side \notin there) /\ UNCHANGED there
        /\ End(IF side \in there THEN "OBS_RECOVERY_REQUIRED" ELSE "unhandled OSError")

\* An exception inside the try: roll back, and report this error if that works
\* (here the code of a drift also stands for that of an OSError).
Rollback(err) == tx' = [tx EXCEPT !.pc = "rollback", !.err = err, !.back = TRUE,
                                  !.seen = "nothing", !.started = (tx.m + tx.n > 0)]

\* Every file is looked at first and used in a step of its own: tx.seen is what the
\* look found, "nothing" when there is no look the next step relies on.
Saw(what) == tx' = [tx EXCEPT !.seen = what]

\* What others changed goes with the file when it is renamed.
Carried(from, to) == touched' = IF from \in touched THEN touched \cup {to} ELSE touched

\* The next previous file: is it still the captured object?
CheckSource ==
  /\ At("move") /\ tx.seen = "nothing" /\ tx.m < Len(Owned(tx.prev))
  /\ UNCHANGED <<disk, ghost>>
  /\ LET n == Owned(tx.prev)[tx.m + 1]
     IN \/ Right(OwnedSource(n)) /\ Saw("fit")
        \/ Wrong(OwnedSource(n)) /\ Rollback("OBS_PLUGIN_DRIFT")

\* Move aside whatever has its name by now.
Move ==
  /\ At("move") /\ tx.seen = "fit" /\ tx.m < Len(Owned(tx.prev))
  /\ UNCHANGED <<there, posix, locked, held, leftover>>
  /\ LET n  == Owned(tx.prev)[tx.m + 1]
         ok == at[home][n] # NoFile /\ Writable
     IN \/ /\ Right(ok) /\ Saw("moved") /\ Carried(<<home, n>>, <<side, n>>)
           /\ at' = [at EXCEPT ![side][n] = at[home][n], ![home][n] = NoFile]
        \/ Wrong(ok) /\ Rollback("OBS_PLUGIN_DRIFT") /\ UNCHANGED <<at, touched>>

\* What was moved has to be the captured object; only then is it known as moved.
Confirm ==
  /\ At("move") /\ tx.seen = "moved" /\ tx.m < Len(Owned(tx.prev))
  /\ UNCHANGED <<disk, ghost>>
  /\ LET n  == Owned(tx.prev)[tx.m + 1]
         ok == at[side][n] = tx.expected[n]
     IN \/ /\ Right(ok)
           /\ tx' = [tx EXCEPT !.m = @ + 1, !.seen = "nothing", !.kept[n] = tx.expected[n]]
        \/ Wrong(ok) /\ Rollback("OBS_PLUGIN_DRIFT")

Publishing == /\ At("move") /\ tx.job = "replace"
              /\ tx.m = Len(Owned(tx.prev)) /\ tx.n < Len(Owned(Current))

\* The place of the next staged file: is nothing there?
CheckPlace ==
  /\ Publishing /\ tx.seen = "nothing"
  /\ UNCHANGED <<disk, ghost>>
  /\ LET n == Owned(Current)[tx.n + 1]
     IN \/ Right(Free(n)) /\ Saw("fit")
        \/ Wrong(Free(n)) /\ Rollback("OBS_PLUGIN_DRIFT")

\* Put it there; os.replace asks no second time.
Publish ==
  /\ Publishing /\ tx.seen = "fit"
  /\ UNCHANGED <<there, posix, locked, held, ghost>>
  /\ LET n == Owned(Current)[tx.n + 1]
     IN \/ Right(Writable) /\ OnDisk(home, n, [ver |-> Current, gen |-> Staged]) /\ Saw("placed")
        \/ Wrong(Writable) /\ Rollback("OBS_PLUGIN_DRIFT") /\ UNCHANGED at

\* _record_owned_destination: the object that has the name now is its own.
Record ==
  /\ Publishing /\ tx.seen = "placed"
  /\ UNCHANGED <<disk, ghost>>
  /\ LET n  == Owned(Current)[tx.n + 1]
         ok == at[home][n] # NoFile
     IN \/ /\ Right(ok)
           /\ tx' = [tx EXCEPT !.n = @ + 1, !.seen = "nothing", !.own[n] = at[home][n]]
        \/ Wrong(ok) /\ Rollback("OBS_PLUGIN_DRIFT")

\* All published: verify, compare with what was published, activate the guard.
Settle ==
  /\ At("move") /\ tx.job = "replace" /\ tx.n = Len(Owned(Current))
  /\ UNCHANGED <<disk, ghost>>
  /\ LET now == Identity(tx.home, Current)
         ok  == VersionAt(tx.home) = Current /\ \A n \in OwnedSet(Current) : now[n] = tx.own[n]
     IN \/ /\ Right(ok)
           /\ tx' = [tx EXCEPT !.pc = "retire", !.guard = [ver |-> Current, id |-> now]]
        \/ Wrong(ok) /\ Rollback("OBS_PLUGIN_DRIFT")

\* _uninstall: all moved; the directory goes if nothing else is in it.
Empty ==
  /\ At("move") /\ tx.job = "remove" /\ tx.m = Len(Owned(tx.prev))
  /\ there' = IF at[home] = Nothing /\ tx.home \notin locked THEN there \ {home} ELSE there
  /\ Go("retire") /\ UNCHANGED <<at, posix, locked, held, ghost, spent>>

Forward == Prepare \/ Stage \/ Recheck \/ Snapshot \/ Capture \/ Quarantine
           \/ CheckSource \/ Move \/ Confirm \/ CheckPlace \/ Publish \/ Record
           \/ Settle \/ Empty
-----------------------------------------------------------------------------
(***************************************************************************)
(* _retire_owned_recovery, at the end of the way forward and of the way    *)
(* back: delete the recovery directory while the publication is unchanged. *)
(***************************************************************************)

\* Where an exception in it leads.
Broken(t, err) ==
  IF t.back THEN [t EXCEPT !.pc = "done", !.err = "OBS_RECOVERY_REQUIRED", !.unclean = TRUE]
  ELSE [t EXCEPT !.pc = "rollback", !.err = err, !.back = TRUE, !.started = (t.m + t.n > 0)]

\* _RecoveryRetirementLease: snapshot and open every file of the directory.
RetireStart ==
  /\ At("retire") /\ UNCHANGED <<disk, ghost>>
  /\ LET ok == \A n \in Names : tx.kept[n] # NoFile => at[side][n] = tx.kept[n]
     IN \/ Right(ok) /\ tx' = [tx EXCEPT !.pc = "retiring", !.orig = tx.kept]
        \/ Wrong(ok) /\ tx' = Broken(tx, "OBS_PLUGIN_DRIFT")

RetireOk == PublishedCurrent /\ (At("retiring") => RecoveryExact)

RetireFile(n) ==
  /\ At("retiring") /\ tx.kept[n] # NoFile
  /\ Right(RetireOk)
  /\ OnDisk(side, n, NoFile)
  /\ tx' = [tx EXCEPT !.kept[n] = NoFile]
  /\ UNCHANGED <<there, posix, locked, held, ghost>>

RetireDirectory ==
  /\ At("retiring") /\ tx.kept = Nothing
  /\ Right(RetireOk)
  /\ there' = there \ {side}
  /\ Go("retired") /\ UNCHANGED <<at, posix, locked, held, ghost>>

\* Mutant: The error of the way forward is reported although the way back failed.
RetiredQuietly ==
  /\ At("retired") /\ Right(RetireOk) /\ UNCHANGED <<disk, ghost>>
  /\ tx' = IF tx.back THEN [tx EXCEPT !.pc = "done"]
           ELSE IF tx.job = "replace" THEN [tx EXCEPT !.pc = "final"]
           ELSE IF tx.legacy THEN [tx EXCEPT !.pc = "commit", !.job = "none"]
           ELSE [tx EXCEPT !.pc = "done"]

Retired ==
  /\ At("retired") /\ Right(RetireOk)
  /\ tx' = IF tx.back
           THEN [tx EXCEPT !.pc = "done", !.err = IF tx.unclean THEN "OBS_RECOVERY_REQUIRED" ELSE @]
           ELSE IF tx.job = "replace" THEN [tx EXCEPT !.pc = "final"]
           ELSE IF tx.legacy THEN [tx EXCEPT !.pc = "commit", !.job = "none"]
           ELSE [tx EXCEPT !.pc = "done"]
  /\ UNCHANGED <<disk, ghost>>

\* Mutant: A broken retirement does not rebuild the recovery directory.
RetireBreaksOff == /\ tx.pc \in {"retiring", "retired"} /\ Wrong(RetireOk)
                   /\ tx' = Broken(tx, "OBS_PLUGIN_DRIFT")
                   /\ UNCHANGED <<disk, ghost>>

\* restore_complete: rebuild what was deleted, from memory, around whatever
\* is still there; a foreign file in the way ends it.
RetireBreaks ==
  /\ tx.pc \in {"retiring", "retired"}
  /\ Wrong(RetireOk)
  /\ there' = IF tx.root THEN there \cup {side} ELSE there
  /\ LET blocked == \E n \in Names : tx.orig[n] # NoFile /\ at[side][n] \notin {NoFile, tx.orig[n]}
         whole   == [n \in Names |-> IF tx.orig[n] # NoFile /\ at[side][n] = NoFile
                                     THEN CopyOf(tx.orig[n].ver)
                                     ELSE at[side][n]]
     IN \E rebuilt \in IF blocked THEN {whole, at[side]} ELSE {whole} :
          /\ at' = [at EXCEPT ![side] = rebuilt]
          /\ tx' = Broken([tx EXCEPT !.kept = IF blocked THEN @ ELSE
                             [n \in Names |-> IF tx.orig[n] # NoFile THEN rebuilt[n] ELSE NoFile]],
                          IF blocked THEN "OBS_RECOVERY_REQUIRED" ELSE "OBS_PLUGIN_DRIFT")
  /\ UNCHANGED <<posix, locked, held, ghost>>

\* One more look at the publication, now without a recovery directory.
Final ==
  /\ At("final") /\ UNCHANGED <<disk, ghost>>
  /\ \/ Right(PublishedCurrent) /\ tx' = [tx EXCEPT !.pc = "verify", !.job = "none"]
     \/ /\ Wrong(PublishedCurrent)
        /\ tx' = Broken([tx EXCEPT !.root = FALSE], "OBS_PLUGIN_DRIFT")

Retire == RetireStart \/ (\E n \in Names : RetireFile(n)) \/ RetireDirectory \/ Retired
          \/ RetireBreaks \/ Final
-----------------------------------------------------------------------------
(***************************************************************************)
(* The except blocks: take the published files away, put the previous ones *)
(* back, verify them, retire the recovery directory.                       *)
(***************************************************************************)

StartRollback ==
  /\ At("rollback") /\ UNCHANGED <<at, posix, locked, held, ghost>>
  /\ IF tx.job = "remove"
     THEN \/ /\ Right(TRUE) /\ there' = there \cup {home} /\ Go("restore")
          \/ /\ home \notin there /\ Use("fault") /\ UNCHANGED there
             /\ tx' = [tx EXCEPT !.pc = "restore", !.unclean = TRUE]
     ELSE /\ UNCHANGED <<there, spent>>
          /\ IF tx.guard.ver # 0 /\ ~SameObjects(Identity(tx.home, tx.guard.ver), tx.guard.id,
                                                 OwnedSet(tx.guard.ver))
             THEN tx' = [tx EXCEPT !.pc = "retire", !.unclean = TRUE]
             ELSE Go("unpublish")

\* A step of the way back failed: go on with the next file.
NotRemoved == tx' = [tx EXCEPT !.n = @ - 1, !.seen = "nothing", !.unclean = TRUE]
NotBack    == tx' = [tx EXCEPT !.m = @ - 1, !.seen = "nothing", !.unclean = TRUE]

\* The last published file: is it the object that was recorded?
CheckPublished ==
  /\ At("unpublish") /\ tx.n > 0 /\ tx.seen = "nothing"
  /\ UNCHANGED <<disk, ghost>>
  /\ LET n == Owned(Current)[tx.n]
     IN \/ Right(OwnPublished(n)) /\ Saw("fit")
        \/ Wrong(OwnPublished(n)) /\ NotRemoved

\* Remove whatever has its name by now.
Unpublish ==
  /\ At("unpublish") /\ tx.n > 0 /\ tx.seen = "fit"
  /\ UNCHANGED <<there, posix, locked, held, ghost>>
  /\ LET n  == Owned(Current)[tx.n]
         ok == at[home][n] # NoFile /\ Writable
     IN \/ /\ Right(ok) /\ OnDisk(home, n, NoFile)
           /\ tx' = [tx EXCEPT !.n = @ - 1, !.seen = "nothing"]
        \/ Wrong(ok) /\ NotRemoved /\ UNCHANGED at

\* The previous files are put back only if every published one is gone.
Unpublished ==
  /\ At("unpublish") /\ tx.n = 0
  /\ Go(IF tx.unclean THEN "retire" ELSE "restore") /\ UNCHANGED <<disk, ghost, spent>>

\* The last file that was moved: is its place free, and what became of it?
CheckBack ==
  /\ At("restore") /\ tx.m > 0 /\ tx.seen = "nothing"
  /\ UNCHANGED <<disk, ghost>>
  /\ LET n == Owned(tx.prev)[tx.m]
     IN \/ /\ Right(Free(n))
           /\ Saw(IF Gone(n) THEN "gone" ELSE IF Matches(n) THEN "match" ELSE "other")
        \/ Wrong(Free(n)) /\ NotBack

\* Put it back: a rename asks no second time, a copy is only ever made anew.
Restore ==
  /\ At("restore") /\ tx.m > 0 /\ tx.seen # "nothing"
  /\ UNCHANGED <<there, posix, locked, held, leftover>>
  /\ LET n == Owned(tx.prev)[tx.m]
         renamed == tx.job = "remove" /\ tx.seen = "match"
         ok == Writable /\ (IF renamed THEN at[side][n] # NoFile ELSE at[home][n] = NoFile)
     IN \/ /\ Right(ok)
           /\ tx' = [tx EXCEPT !.m = @ - 1, !.seen = "nothing", !.restored = @ \cup {n},
                       !.kept[n] = IF tx.seen = "gone" \/ renamed THEN NoFile ELSE @,
                       !.unclean = @ \/ tx.seen = "other"]
           /\ IF renamed
              THEN /\ at' = [at EXCEPT ![home][n] = at[side][n], ![side][n] = NoFile]
                   /\ Carried(<<side, n>>, <<home, n>>)
              ELSE OnDisk(home, n, CopyOf(tx.prev)) /\ UNCHANGED touched
        \/ Wrong(ok) /\ NotBack /\ UNCHANGED <<at, touched>>

\* Verify what was restored and guard it while the recovery directory goes.
Restored ==
  /\ At("restore") /\ tx.m = 0 /\ UNCHANGED <<disk, ghost>>
  /\ LET now == Identity(tx.home, tx.prev)
         ok  == VersionAt(tx.home) = tx.prev /\ \A n \in tx.restored : now[n].gen = Copied
     IN IF tx.job = "replace" /\ tx.started /\ ~tx.unclean
        THEN \/ Right(ok) /\ tx' = [tx EXCEPT !.pc = "retire",
                                              !.guard = [ver |-> tx.prev, id |-> now]]
             \/ Wrong(ok) /\ tx' = [tx EXCEPT !.pc = "retire", !.unclean = TRUE]
        ELSE Go("retire") /\ UNCHANGED spent

Backward == StartRollback \/ CheckPublished \/ Unpublish \/ Unpublished \/ CheckBack \/ Restore
            \/ Restored
-----------------------------------------------------------------------------
(***************************************************************************)
(* What happens to the installer from outside.                             *)
(***************************************************************************)

\* The process is killed; Windows closes its handles, modes stay as they are.
Crash == /\ tx.pc \notin {"idle", "done", "crashed"}
         /\ Use("crash")
         /\ Go("crashed") /\ held' = {}
         /\ UNCHANGED <<there, at, posix, locked, ghost>>

\* Another program edits a file in place, replaces it by one of the same
\* content, deletes it, or creates one.  Names without write bits are only
\* open to an edit through a handle from before; held ones to nothing.
Drift(p, n) ==
  /\ tx.pc \notin {"idle", "done", "crashed"}
  /\ p \in there /\ Use("drift")
  /\ p[2] = "home" => p[1] \notin held
  /\ LET f == at[p][n]
     IN \E g \in (IF f = NoFile THEN {[ver |-> Junk, gen |-> Foreign]}
                  ELSE {NoFile, [f EXCEPT !.ver = Junk], [f EXCEPT !.gen = Foreign]}) :
          /\ (p[2] = "home" /\ p[1] \in locked) => (f # NoFile /\ g # NoFile /\ g.gen = f.gen)
          /\ OnDisk(p, n, g)
  /\ touched' = touched \cup {<<p, n>>}
  /\ UNCHANGED <<there, posix, locked, held, tx, leftover>>

Installer == Reading \/ Forward \/ Retire \/ Backward

Next == \/ \E cmd \in {"install", "upgrade", "verify", "uninstall"}, t \in Targets, b \in Bundles :
             Begin(cmd, t, b)
        \/ Installer
        \/ Crash
        \/ \E p \in Places, n \in Names : Drift(p, n)

Spec == Init /\ [][Next]_vars /\ WF_vars(Installer)
-----------------------------------------------------------------------------
Intact(p, n, v) == at[p][n] # NoFile /\ at[p][n].ver = v
Excused(n)      == <<home, n>> \in touched \/ <<side, n>> \in touched

PreviousOnDisk == \A n \in OwnedSet(tx.prev) :
                    Excused(n) \/ Intact(home, n, tx.prev) \/ Intact(side, n, tx.prev)
PublishedOnDisk(t) == \A n \in OwnedSet(Current) :
                        <<Home(t), n>> \in touched \/ Intact(Home(t), n, Current)

(***************************************************************************)
(* Until the new install is complete, every file of the previous one that  *)
(* nobody else touched is on the disk, in the plug-in directory or in the  *)
(* recovery directory, whatever fails and wherever the process is killed.  *)
(* Two exceptions: a rollback that failed while no guard was active (see   *)
(* RecoveryKept), and a recovery directory that is gone or could not be    *)
(* rebuilt, where the files are in memory until they are put back.         *)
(***************************************************************************)
PreviousSurvives ==
  LET pending == {Owned(tx.prev)[i] : i \in 1..tx.m}
      memoryOnly == ~tx.root \/ (tx.back /\ tx.err = "OBS_RECOVERY_REQUIRED")
      kept == \A n \in OwnedSet(tx.prev) :
                \/ Excused(n) \/ Intact(home, n, tx.prev) \/ Intact(side, n, tx.prev)
                \/ memoryOnly /\ (At("crashed") \/ n \in pending)
      over == IF tx.job = "replace" THEN PublishedOnDisk(tx.home)
              ELSE ~tx.back /\ tx.pc \in {"retiring", "retired", "done", "crashed"}
  IN tx.job # "none" => kept \/ over \/ (tx.unclean /\ (tx.guard.ver = 0 \/ memoryOnly))

(***************************************************************************)
(* The report says what the disk holds.  ok: all of the new version is     *)
(* there (or, after uninstall, none of it), with the modes it had, and     *)
(* nothing is left aside.  An                                              *)
(* error other than OBS_RECOVERY_REQUIRED: the previous version is back    *)
(* (but for a file that was not known as moved, and that somebody took     *)
(* from the recovery directory), and the recovery directory is gone,       *)
(* empty, changed by others or not of this command.                        *)
(***************************************************************************)
HonestReport ==
  At("done") =>
    /\ tx.err = "ok" /\ tx.cmd # "uninstall" =>
         /\ PublishedOnDisk(tx.target)
         /\ tx.target \in locked <=> tx.readonly
         /\ tx.legacy => \A n \in OwnedSet(tx.prev) : at[home][n] = NoFile \/ <<home, n>> \in touched
         /\ tx.cmd = "upgrade" => <<tx.target, "backup">> \notin there \ leftover
    /\ tx.err = "ok" /\ tx.cmd = "uninstall" =>
         /\ \A n \in OwnedSet(Current) : at[home][n] = NoFile \/ <<home, n>> \in touched
         /\ side \notin there
    /\ tx.err \notin {"ok", "OBS_RECOVERY_REQUIRED"} /\ tx.job # "none" =>
         /\ \A n \in OwnedSet(tx.prev) : \/ <<home, n>> \in touched
                                        \/ Intact(home, n, tx.prev)
                                        \/ (n \notin tx.restored /\ <<side, n>> \in touched)
         /\ side \in there \ leftover => at[side] = Nothing \/ ({side} \X Names) \cap touched # {}

(***************************************************************************)
(* A bundle that was accepted can be unpacked: no two of its files meet,   *)
(* on a disk that folds case either, unless one lies below the receipt.    *)
(***************************************************************************)
AcceptedFits ==
  At("stage") => \/ B!Stageable(tx.bundle)
                 \/ \E e \in Range(tx.bundle.files) :
                      B!Inside(B!Fold(e.target), B!Fold(ReceiptPath))

\* The file the next step of the way forward or of the way back is about.
AtHand == CASE At("move") /\ tx.m < Len(Owned(tx.prev)) -> Owned(tx.prev)[tx.m + 1]
            [] Publishing                               -> Owned(Current)[tx.n + 1]
            [] At("unpublish") /\ tx.n > 0              -> Owned(Current)[tx.n]
            [] At("restore") /\ tx.m > 0                -> Owned(tx.prev)[tx.m]
            [] OTHER                                    -> Receipt

\* Put in a plug-in directory by someone else since the files were captured.
ByOthers(t, n) ==
  <<Home(t), n>> \in touched /\ at[Home(t)][n] # NoFile /\ at[Home(t)][n].gen < 0

(***************************************************************************)
(* A file that someone else put in the plug-in directory since the command *)
(* captured its own files is not removed, moved or overwritten, unless it  *)
(* came after the look and before the step that relies on it; a look that  *)
(* lets that step be made sees no such file, but one that took the place   *)
(* of a published file before it was recorded.  And what a killed run      *)
(* moved aside is left alone by every later command.                       *)
(***************************************************************************)
ForeignKept ==
  [][spent'.drift = spent.drift =>
       /\ \A t \in Targets, n \in Names : ByOthers(t, n) =>
            \/ at'[Home(t)][n] = at[Home(t)][n]
            \/ (t = tx.home /\ n = AtHand /\ tx.seen # "nothing")
       /\ tx.seen = "nothing" /\ tx'.seen # "nothing" /\ ByOthers(tx.home, AtHand) =>
            At("unpublish") /\ OwnPublished(AtHand)
       /\ \A p \in leftover : leftover' = leftover => p \in there' /\ at'[p] = at[p]]_vars

(***************************************************************************)
(* OBS_RECOVERY_REQUIRED means that there is something to recover from:    *)
(* when a replacement fails before its result was verified, every file of  *)
(* the previous install that nobody else touched is in the plug-in         *)
(* directory or in the recovery directory.                                 *)
(***************************************************************************)
RecoveryKept ==
  /\ At("done") /\ tx.err = "OBS_RECOVERY_REQUIRED" /\ tx.job = "replace" /\ tx.guard.ver = 0
  => PreviousOnDisk
=============================================================================
