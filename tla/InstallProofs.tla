-------------------------- MODULE InstallProofs --------------------------
(***************************************************************************)
(* Proofs about InstallTransaction: an archive that is accepted fits the   *)
(* disk, the files of others are left alone, and whatever fails or         *)
(* wherever the process is killed the previous files survive and the       *)
(* report is true.                                                         *)
(*                                                                         *)
(* First the inductive invariant, facts about the operators it is built    *)
(* from, and for each action what it does to every field; then that every  *)
(* step preserves the invariant; then the theorems.                        *)
(***************************************************************************)
EXTENDS InstallTransaction, FiniteSetTheorems, TLAPS

-----------------------------------------------------------------------------
(* The inductive invariant.                                                *)

Object  == [ver : Int, gen : Int]
Row     == [Names -> Object \cup {NoFile}]
Steps   == {"idle", "bundle", "legacy", "prepare", "stage", "recheck", "snapshot", "capture",
            "quarantine", "move", "retire", "retiring", "retired", "final", "rollback",
            "unpublish", "restore", "verify", "commit", "guard", "guarded", "done", "crashed"}
Looks   == {"nothing", "fit", "moved", "placed", "gone", "match", "other"}
Errors  == {"ok", "OBS_TARGET_UNSAFE", "OBS_BUNDLE_INVALID", "OBS_RECEIPT_INVALID",
            "OBS_PLUGIN_DRIFT", "OBS_PLUGIN_ALREADY_INSTALLED", "OBS_INSTALL_FAILED",
            "OBS_RECOVERY_REQUIRED", "unhandled OSError"}
Memory  == [pc : Steps, cmd : {"none", "install", "upgrade", "verify", "uninstall"},
            target : Targets, home : Targets, bundle : Bundles \cup {{}}, legacy : BOOLEAN,
            job : {"none", "replace", "remove"}, prev : 0..2, expected : Row, kept : Row,
            orig : Row, guard : [ver : 0..2, id : Row], root : BOOLEAN, m : Nat, n : Nat,
            seen : Looks, own : Row, restored : SUBSET Names, started : BOOLEAN, back : BOOLEAN, unclean : BOOLEAN,
            receipt : Row, readonly : BOOLEAN, err : Errors]

TypeInv ==
  /\ there \in SUBSET Places /\ at \in [Places -> Row] /\ posix \in BOOLEAN
  /\ locked \in SUBSET Targets /\ held \in SUBSET Targets
  /\ tx \in Memory
  /\ touched \in SUBSET (Places \X Names) /\ leftover \in SUBSET Places
  /\ spent \in [command : Nat, drift : Nat, fault : Nat, crash : Nat]

\* The steps of a transaction: before anything is moved, while the recovery
\* directory goes, on the way back, and all with a recovery directory of their own.
Early    == {"stage", "recheck", "snapshot", "quarantine"}
Retiring == {"retire", "retiring", "retired"}
Undoing  == {"rollback", "unpublish", "restore"}
Aside    == {"snapshot", "move", "final"} \cup Retiring \cup Undoing
Over     == {"done", "crashed"}

\* The previous files that were moved aside, and those still to move (or put back).
Moved   == {Owned(tx.prev)[i] : i \in 1..tx.m}
Waiting == {Owned(tx.prev)[i] : i \in (tx.m + 1)..Len(Owned(tx.prev))}

\* Which step belongs to which command and which transaction.
CommandInv ==
  /\ tx.cmd = "none" <=> tx.pc = "idle"
  /\ tx.cmd = "verify" =>
       tx.pc \in {"verify", "commit", "guard", "guarded"} \cup Over /\ ~tx.legacy
  /\ tx.cmd = "uninstall" =>
       /\ tx.pc \in {"capture", "quarantine", "move", "rollback", "restore"} \cup Retiring \cup Over
       /\ ~tx.legacy
  /\ tx.pc = "capture" /\ ~tx.legacy => tx.cmd = "uninstall"
  /\ tx.legacy => ~posix /\ tx.target # Legacy
  /\ tx.home = tx.target \/ (tx.legacy /\ tx.home = Legacy)
  /\ tx.legacy /\ (tx.pc \in {"capture", "commit", "guard", "guarded"} \/ tx.job = "remove")
       => tx.home = Legacy
  /\ tx.pc \in {"bundle", "legacy", "prepare", "verify"} \/ tx.job = "replace"
       => tx.home = tx.target
  /\ tx.pc \in {"idle", "bundle", "legacy", "prepare", "capture", "verify", "commit", "guard",
                "guarded"} => tx.job = "none"
  /\ tx.pc = "stage" => IF tx.prev = 0 THEN tx.job = "none" /\ home \notin there /\ tx.home = tx.target
                        ELSE tx.job = "replace"
  /\ tx.pc \in {"recheck", "snapshot", "final", "unpublish"} => tx.job = "replace"
  /\ tx.pc = "quarantine" => tx.job = "remove"
  /\ tx.pc \in Aside => tx.job # "none"
  /\ tx.job = "replace" => tx.cmd = "upgrade"
  /\ tx.job # "none" => tx.prev # 0
  /\ tx.job = "remove" /\ ~tx.legacy => tx.prev = Current /\ tx.cmd = "uninstall"
  /\ tx.pc \in {"legacy", "prepare", "stage"} => B!Accepted(tx.bundle) /\ tx.bundle \in Bundles
  /\ tx.pc \in {"bundle", "legacy", "prepare", "stage"} => tx.bundle \in Bundles

\* Modes: removed under the guard only, and on POSIX only.
ModeInv ==
  /\ ~posix => locked = {}
  /\ tx.pc \in {"guard", "guarded"} => posix
  /\ tx.pc = "guarded" => tx.target \in locked
  /\ tx.pc \notin {"guarded"} \cup Over => ~tx.readonly

\* How far a transaction is.
ProgressInv ==
  /\ tx.job # "none" => tx.m <= Len(Owned(tx.prev)) /\ tx.n <= Len(Owned(Current))
  /\ tx.job = "remove" => tx.n = 0 /\ tx.guard.ver = 0 /\ tx.root
  /\ tx.pc \in Early => tx.m = 0 /\ tx.n = 0 /\ tx.kept = Nothing
  /\ tx.pc \in Early \cup {"move"} => ~tx.back /\ ~tx.unclean /\ tx.root /\ tx.guard.ver = 0
  /\ tx.pc \in {"move"} \cup Undoing => (tx.n > 0 => tx.m = Len(Owned(tx.prev)))
  /\ tx.pc \in Retiring \cup {"final"} /\ ~tx.back =>
       /\ tx.m = Len(Owned(tx.prev)) /\ ~tx.unclean /\ tx.root
       /\ tx.job = "replace" => tx.n = Len(Owned(Current)) /\ tx.guard.ver = Current
  /\ tx.back => tx.pc \in Retiring \cup Undoing \cup Over
  /\ tx.pc \in Undoing => tx.back
  /\ tx.pc = "rollback" => ~tx.unclean /\ (tx.guard.ver # 0 => tx.n = Len(Owned(Current)))
  /\ tx.pc = "restore" => tx.n = 0
  /\ tx.pc \notin Over => (tx.back <=> tx.err # "ok")

\* A look is only ever relied on by the step after it, which is about the same file.
SeenInv ==
  /\ tx.seen # "nothing" => tx.pc \in {"move", "unpublish", "restore", "crashed"} /\ home \in there
  /\ tx.pc = "move" /\ tx.seen # "nothing" =>
       /\ tx.seen \in {"fit", "moved", "placed"}
       /\ tx.m < Len(Owned(tx.prev)) \/ Publishing
       /\ tx.seen = "moved" => tx.m < Len(Owned(tx.prev))
       /\ tx.seen = "placed" => Publishing
  /\ tx.pc = "unpublish" /\ tx.seen # "nothing" => tx.seen = "fit" /\ tx.n > 0
  /\ tx.pc = "restore" /\ tx.seen # "nothing" => tx.seen \in {"gone", "match", "other"} /\ tx.m > 0

\* The file that is being moved is in the recovery directory, but not known as moved.
InFlight(n) == /\ tx.pc = "move" /\ tx.seen = "moved"
               /\ tx.m < Len(Owned(tx.prev)) /\ n = Owned(tx.prev)[tx.m + 1]
Away(n) == at[home][n] = NoFile \/ <<home, n>> \in touched
FlightInv ==
  /\ tx.pc = "move" => \A n \in Waiting : tx.kept[n] = NoFile
  /\ \A n \in Names : InFlight(n) => Away(n) /\ (Excused(n) \/ at[side][n] = tx.expected[n])
  /\ tx.pc = "restore" /\ tx.seen = "match" =>
       LET n == Owned(tx.prev)[tx.m] IN <<side, n>> \in touched \/ Intact(side, n, tx.prev)

\* What the installer takes for its own is what it staged, or an object that took its place.
Adopted(f) == f # NoFile => f.gen = Staged \/ (f.gen < 0 /\ f.gen >= -spent.drift)
OwnInv ==
  /\ tx.pc \in Early \cup {"move"} => \A n \in Names : Adopted(tx.own[n])
  /\ tx.pc = "move" /\ tx.seen = "placed" => Adopted(at[home][Owned(Current)[tx.n + 1]])
  /\ ~tx.back => tx.restored = {}

\* Directories: nothing is in one that is not there, and of the recovery directories
\* only that of the transaction is new.
NothingKept == \A n \in Names : tx.kept[n] = NoFile
SpaceInv ==
  /\ \A p \in Places \ there, n \in Names : at[p][n] = NoFile
  /\ \A p \in leftover : p \in there /\ p[2] # "home"
  /\ \A p \in there \ leftover :
       \/ p[2] = "home"
       \/ p = side /\ tx.job # "none" /\ tx.pc \in (Aside \ {"retired", "final"}) \cup Over
  /\ tx.pc \in Aside => side \notin leftover
  /\ tx.pc \in {"snapshot", "move"} => side \in there
  /\ tx.pc = "snapshot" => \A n \in Names : at[side][n] = NoFile \/ <<side, n>> \in touched
  /\ tx.pc \in {"retired", "final"} => NothingKept
  /\ ~tx.root => /\ tx.back /\ side \notin there /\ NothingKept
                 /\ tx.pc \in {"retiring", "retired"} => \A n \in Names : tx.orig[n] = NoFile

\* Objects that others will make are not on the disk yet.
AgeInv == \A p \in Places, n \in Names : at[p][n] # NoFile => at[p][n].gen >= -spent.drift

\* What was captured.
ExpectedInv == tx.job # "none" => \A n \in OwnedSet(tx.prev) :
  tx.expected[n] # NoFile /\ tx.expected[n].ver = tx.prev /\ tx.expected[n].gen >= -spent.drift

\* Until it is moved a file is the captured object if and only if nobody touched it.
WaitingInv == tx.job # "none" /\ tx.pc \in Early \cup {"move"} => \A n \in Waiting :
  InFlight(n) \/ (<<home, n>> \in touched <=> at[home][n] # tx.expected[n])

\* Then it is in the recovery directory.
MovedInv == tx.pc = "move" \/ (tx.pc = "retire" /\ ~tx.back) => \A n \in Moved :
  tx.kept[n] = tx.expected[n] /\ (<<side, n>> \in touched \/ at[side][n] = tx.expected[n])

\* Only previous files are kept there.
KeptInv ==
  /\ tx.job # "none" => \A n \in Names :
       tx.kept[n] # NoFile => n \in OwnedSet(tx.prev) /\ tx.kept[n].ver = tx.prev
  /\ tx.pc \in {"retiring", "retired"} => \A n \in Names :
       tx.orig[n] # NoFile => n \in OwnedSet(tx.prev) /\ tx.orig[n].ver = tx.prev
  /\ tx.pc \in {"retiring", "retired"} /\ ~tx.back => \A n \in OwnedSet(tx.prev) :
       tx.orig[n] # NoFile

CaptureInv == ExpectedInv /\ WaitingInv /\ MovedInv /\ KeptInv
LookInv    == SeenInv /\ FlightInv /\ OwnInv

\* What was moved away stays away, except for what others put there.
AwayInv ==
  /\ tx.job = "remove" /\ ~tx.back /\ tx.pc \in {"move"} \cup Retiring => \A n \in Moved : Away(n)
  /\ tx.legacy /\ tx.pc \in {"commit", "guard", "guarded"} => \A n \in OwnedSet(tx.prev) : Away(n)

\* Where a previous file can be found again.
InSide(n) == Excused(n) \/ Intact(side, n, tx.prev)
Safe(n)   == InSide(n) \/ Intact(home, n, tx.prev)
Back(n)   == <<home, n>> \in touched \/ Intact(home, n, tx.prev)
MemoryOnly == ~tx.root \/ (tx.back /\ tx.err = "OBS_RECOVERY_REQUIRED")

\* The guard holds what was published, and one of it is there no more.
GuardsOwn == /\ tx.guard.ver = Current
             /\ \A n \in OwnedSet(Current) : tx.guard.id[n] # NoFile /\ Adopted(tx.guard.id[n])
Broke == \E n \in OwnedSet(Current) :
           at[home][n] = NoFile \/ at[home][n].gen # tx.guard.id[n].gen

\* A new version that is guarded is all there until the way back takes it away.
PublishedInv == tx.job = "replace" /\ tx.pc \in Retiring \cup {"final", "rollback"} /\ tx.n > 0
                  /\ tx.guard.ver # 0 => PublishedOnDisk(tx.home) /\ GuardsOwn

\* On the way back every previous file is somewhere, and as long as something is
\* published it is in the recovery directory.
SafeInv == tx.pc \in Undoing /\ ~MemoryOnly => \A n \in OwnedSet(tx.prev) :
  Safe(n) /\ (tx.n > 0 => InSide(n))

\* Unless a step of the way back failed, what it has passed is back.
Lost(n)  == n \notin tx.restored /\ <<side, n>> \in touched
Stray(n) == /\ n \notin tx.restored /\ tx.kept[n] = NoFile
            /\ at[side][n] # NoFile /\ InSide(n)
Found(n) == Back(n) \/ Lost(n) \/ Stray(n)
BackInv ==
  /\ tx.pc \in Undoing /\ ~tx.unclean => \A n \in Waiting : Found(n)
  /\ tx.pc \in Retiring /\ tx.back /\ ~tx.unclean => \A n \in OwnedSet(tx.prev) :
       Found(n) /\ (tx.pc = "retired" => Back(n) \/ Lost(n))

\* The guard of a new version that is taken away keeps the recovery directory.
GuardInv ==
  /\ tx.pc \in Undoing /\ tx.guard.ver # 0 =>
       GuardsOwn /\ (PublishedOnDisk(tx.home) \/ Broke)
  /\ tx.pc \in Retiring /\ tx.back /\ tx.unclean /\ tx.guard.ver # 0 /\ ~MemoryOnly =>
       \/ PublishedOnDisk(tx.home)
       \/ (\A n \in OwnedSet(tx.prev) : Safe(n)) /\ GuardsOwn /\ Broke

SurviveInv == PublishedInv /\ SafeInv /\ BackInv /\ GuardInv

\* Once verified, the new version stays while the legacy plug-in is removed.
NewInv == tx.pc \in {"commit", "guard", "guarded"}
          \/ (tx.legacy /\ (tx.pc = "capture" \/ tx.job = "remove")) => PublishedOnDisk(tx.target)

\* What is there at the end of a command, or of the process.
EndInv == tx.pc \in Over => PreviousSurvives

ReportInv == NewInv /\ HonestReport /\ EndInv

IInv == /\ TypeInv /\ CommandInv /\ ModeInv /\ ProgressInv /\ SpaceInv /\ AgeInv
        /\ LookInv /\ CaptureInv /\ AwayInv /\ SurviveInv /\ ReportInv

-----------------------------------------------------------------------------
(* Archives.                                                               *)

\* InstallBundle has Range of its own.
LEMMA RangeFact == ASSUME NEW f PROVE B!Range(f) = Range(f)
  BY DEF Range, B!Range

LEMMA CardinalityFact == ASSUME NEW S PROVE B!Cardinality(S) = Cardinality(S)
  BY DEF Cardinality, B!Cardinality

\* Folding keeps the length of a path.
LEMMA FoldFact ==
    ASSUME NEW path, B!Sequence(path)
    PROVE  /\ B!Fold(path) \in Seq(Range(B!Fold(path)))
           /\ Len(B!Fold(path)) = Len(path)
<1>1. path \in Seq(Range(path)) /\ DOMAIN path = 1..Len(path) /\ Len(path) \in Nat
  BY RangeFact DEF B!Sequence
<1>2. B!Fold(path) = [i \in 1..Len(path) |-> path[i][1]]
  BY <1>1 DEF B!Fold
<1>3. B!Fold(path) \in [1..Len(path) -> Range(B!Fold(path))]
  BY <1>2 DEF Range
<1>4. QED
  BY <1>1, <1>2, <1>3

\* The receipt lies at the root, so that no target can contain it.
LEMMA ReceiptIsShallow ==
    ASSUME NEW path, B!Sequence(path), Len(path) >= 1
    PROVE  ~B!Inside(B!Fold(ReceiptPath), B!Fold(path))
<1>1. B!Sequence(ReceiptPath) /\ Len(ReceiptPath) = 1
  <2>1. ReceiptPath \in Seq({<<"receipt", 0>>}) /\ Range(ReceiptPath) = {<<"receipt", 0>>}
    BY DEF ReceiptPath, Range
  <2>2. QED
    BY <2>1, RangeFact DEF B!Sequence, ReceiptPath
<1>2. Len(B!Fold(ReceiptPath)) = 1 /\ Len(B!Fold(path)) = Len(path)
  BY <1>1, FoldFact
<1>3. QED
  BY <1>2 DEF B!Inside

\* A bundle that _validate_bundle accepts can be staged, unless one of its targets
\* lies below the name of the receipt.
LEMMA AcceptedFact ==
    ASSUME NEW bundle, B!WellFormed(bundle), B!Accepted(bundle),
           \A e \in Range(bundle.files) : ~B!Inside(B!Fold(e.target), B!Fold(ReceiptPath))
    PROVE  B!Stageable(bundle)
<1> DEFINE target(i) == B!Fold(bundle.files[i].target)
<1> DEFINE before(i) == {target(j) : j \in 1..(i - 1)}
<1> DEFINE all == {target(i) : i \in DOMAIN bundle.files}
<1>1. /\ bundle.files \in Seq(Range(bundle.files))
      /\ bundle.members \in Seq(Range(bundle.members))
      /\ \A e \in Range(bundle.files) : B!Sequence(e.source) /\ B!Sequence(e.target)
  BY RangeFact DEF B!WellFormed, B!Sequence
<1>2. /\ \A i \in DOMAIN bundle.files : bundle.files[i] \in Range(bundle.files)
      /\ \A i \in DOMAIN bundle.files : \A j \in 1..(i - 1) : j \in DOMAIN bundle.files /\ j # i
  BY <1>1 DEF Range
<1>3. \A i, j \in DOMAIN bundle.files : target(i) = target(j) => i = j
  BY DEF B!Accepted, B!Distinct, B!Column
<1>4. \A i, j \in DOMAIN bundle.files : ~B!Inside(target(i), target(j))
  BY <1>2, RangeFact DEF B!Accepted
<1>5. \A i \in DOMAIN bundle.files : B!Fits(before(i), target(i))
  <2> HIDE DEF target
  <2> QED
    BY <1>2, <1>3, <1>4 DEF B!Fits
<1>6. B!Fits(all, B!Fold(ReceiptPath))
  <2> SUFFICES ASSUME NEW i \in DOMAIN bundle.files
               PROVE  /\ B!Fold(ReceiptPath) # target(i)
                      /\ ~B!Inside(B!Fold(ReceiptPath), target(i))
                      /\ ~B!Inside(target(i), B!Fold(ReceiptPath))
    BY DEF B!Fits
  <2>1. /\ B!Safe(bundle.files[i].target) /\ B!Sequence(bundle.files[i].target)
        /\ bundle.files[i] \in Range(bundle.files)
    BY <1>1, <1>2, RangeFact DEF B!Accepted
  <2>2. Len(bundle.files[i].target) >= 1
    <3>1. Len(bundle.files[i].target) \in 1..16
      BY <2>1 DEF B!Safe, B!Portable
    <3>2. ASSUME NEW k \in 1..16 PROVE k >= 1
      OBVIOUS
    <3>3. QED
      BY <3>1, <3>2
  <2>3. QED
    BY <2>1, <2>2, ReceiptIsShallow DEF B!Safe
<1>7. ASSUME NEW e \in Range(bundle.files)
      PROVE  Cardinality({i \in DOMAIN bundle.members : bundle.members[i].path = e.source}) = 1
  <2>1. PICK k \in DOMAIN bundle.members : bundle.members[k].path = e.source
    BY RangeFact DEF B!Accepted, Range
  <2>2. \A i, j \in DOMAIN bundle.members :
            B!Fold(bundle.members[i].path) = B!Fold(bundle.members[j].path) => i = j
    BY DEF B!Accepted, B!InventoryMatches, B!Distinct, B!Column
  <2>3. {i \in DOMAIN bundle.members : bundle.members[i].path = e.source} = {k}
    BY <2>1, <2>2
  <2>4. QED
    BY <2>3, FS_Singleton
<1>8. /\ \A i \in DOMAIN bundle.files : B!Fits(before(i), target(i))
      /\ B!Fits(all, B!Fold(ReceiptPath))
      /\ \A e \in B!Range(bundle.files) :
           B!Cardinality({i \in DOMAIN bundle.members :
                            bundle.members[i].path = e.source}) = 1
  BY <1>5, <1>6, <1>7, RangeFact, CardinalityFact
<1>9. QED
  BY <1>8, Zenon DEF B!Stageable

-----------------------------------------------------------------------------
(* Names and places.                                                       *)

LEMMA OwnedFact ==
    ASSUME NEW v \in {1, 2}
    PROVE  /\ Owned(v) \in Seq(Names)
           /\ Len(Owned(v)) \in Nat /\ Len(Owned(v)) >= 1
           /\ OwnedSet(v) = {Owned(v)[i] : i \in 1..Len(Owned(v))}
           /\ \A i \in 1..Len(Owned(v)) : Owned(v)[i] \in OwnedSet(v)
           /\ \A i, j \in 1..Len(Owned(v)) : Owned(v)[i] = Owned(v)[j] => i = j
           /\ OwnedSet(v) \subseteq Names
           /\ Receipt \in OwnedSet(v)
<1>1. Files[v] \in Seq(Range(Files[v]))
  BY FilesAssumption, RangeFact DEF B!Sequence
<1>2. Range(Files[v]) \subseteq Names /\ Receipt \in Names
  BY DEF Names
<1>3. Files[v] \in Seq(Names)
  BY <1>1, <1>2
<1>4. /\ Owned(v) \in Seq(Names) /\ Len(Owned(v)) = Len(Files[v]) + 1 /\ Len(Files[v]) \in Nat
      /\ \A i \in 1..Len(Files[v]) : Owned(v)[i] = Files[v][i]
      /\ Owned(v)[Len(Files[v]) + 1] = Receipt
  BY <1>2, <1>3 DEF Owned
<1>5. DOMAIN Owned(v) = 1..Len(Owned(v)) /\ DOMAIN Files[v] = 1..Len(Files[v])
  BY <1>3, <1>4
<1>6. OwnedSet(v) = {Owned(v)[i] : i \in 1..Len(Owned(v))}
  BY <1>5 DEF OwnedSet, Range
<1>7. \A i \in 1..Len(Files[v]) : Files[v][i] # Receipt
  BY <1>5, InstallAssumption DEF Range
<1>8. \A i, j \in 1..Len(Files[v]) : Files[v][i] = Files[v][j] => i = j
  BY <1>5, FilesAssumption DEF IsInjective
<1>9. \A i \in 1..Len(Owned(v)) : i = Len(Files[v]) + 1 \/ i \in 1..Len(Files[v])
  BY <1>4
<1>10. \A i, j \in 1..Len(Owned(v)) : Owned(v)[i] = Owned(v)[j] => i = j
  BY <1>4, <1>7, <1>8, <1>9
<1>11. \A i \in 1..Len(Owned(v)) : Owned(v)[i] \in OwnedSet(v) /\ Owned(v)[i] \in Names
  BY <1>4, <1>6
<1>12. Receipt \in OwnedSet(v)
  BY <1>4, <1>11
<1>13. OwnedSet(v) \subseteq Names
  BY <1>6, <1>11
<1>14. QED
  BY <1>4, <1>6, <1>10, <1>11, <1>12, <1>13

LEMMA PlaceFact ==
    ASSUME TypeInv
    PROVE  /\ home \in Places /\ side \in Places /\ home # side /\ home = Home(tx.home)
           /\ home[2] = "home" /\ side[2] # "home"
           /\ \A t \in Targets : /\ Home(t) \in Places /\ Home(t) # side /\ Home(t)[2] = "home"
                                 /\ Home(t) = home <=> t = tx.home
  BY DEF TypeInv, Memory, home, side, Home, Places

LEMMA NumberFact ==
    ASSUME TypeInv
    PROVE  /\ Staged \in Int /\ Copied \in Int /\ Staged >= 0 /\ Copied >= 0 /\ Staged # Copied
           /\ Foreign \in Int /\ Foreign < 0
           /\ Current \in {1, 2} /\ Current # 0 /\ Junk = 0
  BY DEF TypeInv, Staged, Copied, Foreign, Current, Junk

LEMMA FileFact ==
    /\ \A f \in Object : f # NoFile /\ f.ver \in Int /\ f.gen \in Int
    /\ \A v, g \in Int : /\ [ver |-> v, gen |-> g] \in Object
                         /\ [ver |-> v, gen |-> g] # NoFile
  BY FilesAssumption DEF Object

LEMMA NothingFact == Nothing \in Row /\ \A n \in Names : Nothing[n] = NoFile
  BY DEF Nothing, Row

LEMMA IdentityFact ==
    ASSUME TypeInv, NEW t \in Targets, NEW v
    PROVE  /\ Identity(t, v) \in Row
           /\ \A n \in Names : Identity(t, v)[n] = IF n \in OwnedSet(v) THEN at[Home(t)][n]
                                                                       ELSE NoFile
<1>1. at[Home(t)] \in Row
  BY DEF TypeInv, Home, Places
<1>2. QED
  BY <1>1 DEF Identity, Row

\* _verify: what it answers is on the disk as a whole.
LEMMA VersionFact ==
    ASSUME NEW t
    PROVE  /\ VersionAt(t) \in 0..2
           /\ VersionAt(t) # 0 => /\ VersionAt(t) \in {1, 2} /\ Home(t) \in there
                                  /\ \A n \in OwnedSet(VersionAt(t)) : Intact(Home(t), n, VersionAt(t))
<1>1. CASE \E v \in {1, 2} : Whole(t, v)
  <2>1. VersionAt(t) \in {1, 2} /\ Whole(t, VersionAt(t))
    BY <1>1 DEF VersionAt
  <2>2. QED
    BY <2>1 DEF Whole, Intact
<1>2. CASE ~\E v \in {1, 2} : Whole(t, v)
  BY <1>2 DEF VersionAt
<1>3. QED
  BY <1>1, <1>2

LEMMA CountFact ==
    ASSUME tx.prev \in {1, 2}, tx.m \in Nat, tx.m <= Len(Owned(tx.prev))
    PROVE  /\ OwnedSet(tx.prev) = Moved \cup Waiting /\ OwnedSet(tx.prev) \subseteq Names
           /\ Moved \cap Waiting = {}
           /\ tx.m = 0 => Moved = {} /\ Waiting = OwnedSet(tx.prev)
           /\ tx.m = Len(Owned(tx.prev)) => Waiting = {} /\ Moved = OwnedSet(tx.prev)
<1> DEFINE l == Len(Owned(tx.prev))
<1>1. /\ l \in Nat
      /\ OwnedSet(tx.prev) = {Owned(tx.prev)[i] : i \in 1..l} /\ OwnedSet(tx.prev) \subseteq Names
      /\ \A i, j \in 1..l : Owned(tx.prev)[i] = Owned(tx.prev)[j] => i = j
  BY OwnedFact
<1>2. 1..l = (1..tx.m) \cup ((tx.m + 1)..l) /\ (1..tx.m) \cap ((tx.m + 1)..l) = {}
  BY <1>1
<1>3. OwnedSet(tx.prev) = Moved \cup Waiting /\ Moved \cap Waiting = {}
  BY <1>1, <1>2 DEF Moved, Waiting
<1>4. tx.m = 0 => Moved = {}
  BY DEF Moved
<1>5. tx.m = l => Waiting = {}
  BY <1>1 DEF Waiting
<1>6. QED
  BY <1>1, <1>3, <1>4, <1>5

\* The next file to move, and the next one to put back.
LEMMA MoveOnFact ==
    ASSUME tx.prev \in {1, 2}, tx.m \in Nat, tx.m < Len(Owned(tx.prev)),
           tx'.prev = tx.prev, tx'.m = tx.m + 1,
           NEW n, n = Owned(tx.prev)[tx.m + 1]
    PROVE  n \in Waiting /\ n \in Names /\ Moved' = Moved \cup {n} /\ Waiting' = Waiting \ {n}
<1> DEFINE l == Len(Owned(tx.prev))
<1>1. /\ l \in Nat
      /\ \A i \in 1..l : Owned(tx.prev)[i] \in OwnedSet(tx.prev)
      /\ OwnedSet(tx.prev) \subseteq Names
      /\ \A i, j \in 1..l : Owned(tx.prev)[i] = Owned(tx.prev)[j] => i = j
  BY OwnedFact
<1>2. /\ 1..(tx.m + 1) = (1..tx.m) \cup {tx.m + 1}
      /\ (tx.m + 1)..l = ((tx.m + 2)..l) \cup {tx.m + 1}
      /\ tx.m + 1 \in 1..l /\ tx.m + 1 \in (tx.m + 1)..l
      /\ (tx.m + 2)..l \subseteq 1..l /\ tx.m + 1 \notin (tx.m + 2)..l
      /\ tx.m + 1 + 1 = tx.m + 2
  BY <1>1
<1>3. /\ Moved' = {Owned(tx.prev)[i] : i \in 1..(tx.m + 1)}
      /\ Waiting' = {Owned(tx.prev)[i] : i \in (tx.m + 2)..l}
  BY <1>2 DEF Moved, Waiting
<1>4. Moved' = Moved \cup {n}
  BY <1>2, <1>3 DEF Moved
<1>5. Waiting' = Waiting \ {n}
  BY <1>1, <1>2, <1>3 DEF Waiting
<1>6. n \in Waiting /\ n \in Names
  BY <1>1, <1>2 DEF Waiting
<1>7. QED
  BY <1>4, <1>5, <1>6

LEMMA MoveBackFact ==
    ASSUME tx.prev \in {1, 2}, tx.m \in Nat, tx.m > 0, tx.m <= Len(Owned(tx.prev)),
           tx'.prev = tx.prev, tx'.m = tx.m - 1,
           NEW n, n = Owned(tx.prev)[tx.m]
    PROVE  n \in Moved /\ n \in Names /\ Moved' = Moved \ {n} /\ Waiting' = Waiting \cup {n}
<1> DEFINE l == Len(Owned(tx.prev))
<1>1. /\ l \in Nat
      /\ \A i \in 1..l : Owned(tx.prev)[i] \in OwnedSet(tx.prev)
      /\ OwnedSet(tx.prev) \subseteq Names
      /\ \A i, j \in 1..l : Owned(tx.prev)[i] = Owned(tx.prev)[j] => i = j
  BY OwnedFact
<1>2. /\ 1..tx.m = (1..(tx.m - 1)) \cup {tx.m}
      /\ tx.m..l = ((tx.m + 1)..l) \cup {tx.m}
      /\ tx.m \in 1..l /\ tx.m \in 1..tx.m
      /\ 1..(tx.m - 1) \subseteq 1..l /\ tx.m \notin 1..(tx.m - 1)
      /\ tx.m - 1 + 1 = tx.m
  BY <1>1
<1>3. /\ Moved' = {Owned(tx.prev)[i] : i \in 1..(tx.m - 1)}
      /\ Waiting' = {Owned(tx.prev)[i] : i \in tx.m..l}
  BY <1>2 DEF Moved, Waiting
<1>4. Moved' = Moved \ {n}
  BY <1>1, <1>2, <1>3 DEF Moved
<1>5. Waiting' = Waiting \cup {n}
  BY <1>2, <1>3 DEF Waiting
<1>6. n \in Moved /\ n \in Names
  BY <1>1, <1>2 DEF Moved
<1>7. QED
  BY <1>4, <1>5, <1>6

-----------------------------------------------------------------------------
(* What each action does, field by field.                                  *)

\* What an action may leave alone.
Quiet ==
  /\ posix' = posix /\ leftover' = leftover
  /\ spent' \in [command : Nat, drift : Nat, fault : Nat, crash : Nat]
  /\ spent'.command = spent.command /\ spent'.drift = spent.drift
  /\ Staged' = Staged /\ Copied' = Copied
Calm       == Quiet /\ touched' = touched
SameDisk   == there' = there /\ at' = at /\ locked' = locked
SameTask   == /\ tx'.cmd = tx.cmd /\ tx'.target = tx.target /\ tx'.home = tx.home
              /\ tx'.legacy = tx.legacy /\ home' = home
SamePlan   == /\ tx'.job = tx.job /\ tx'.prev = tx.prev /\ tx'.expected = tx.expected
              /\ side' = side
SameCounts == tx'.m = tx.m /\ tx'.n = tx.n /\ Moved' = Moved /\ Waiting' = Waiting
SameAside  == tx'.kept = tx.kept /\ tx'.orig = tx.orig /\ tx'.root = tx.root
SameMood   == tx'.back = tx.back /\ tx'.unclean = tx.unclean /\ tx'.err = tx.err
SameReport == tx'.receipt = tx.receipt /\ tx'.readonly = tx.readonly
\* A step within a transaction leaves this alone.
SameFrame  == /\ SameTask /\ SamePlan /\ SameReport /\ tx'.bundle = tx.bundle
              /\ locked' = locked

\* One file is written or removed, and nothing else on the disk.
Others(p, n) == \A q \in Places, k \in Names : q # p \/ k # n => at'[q][k] = at[q][k]
Wrote(p, n, v, g) == /\ at'[p][n] # NoFile /\ at'[p][n].ver = v /\ at'[p][n].gen = g
                     /\ Others(p, n)
Cleared(p, n) == at'[p][n] = NoFile /\ Others(p, n)

\* The command ends here, and nothing else changes.
Stops == /\ tx'.pc = "done" /\ tx'.err # "ok" /\ SameTask /\ SamePlan /\ SameCounts /\ SameAside
         /\ tx'.back = tx.back /\ tx'.unclean = tx.unclean /\ tx'.guard = tx.guard
         /\ SameReport /\ SameDisk
\* An exception in a transaction: the way back begins.
Turns(err) == /\ tx'.pc = "rollback" /\ tx'.err = err /\ tx'.back /\ tx'.unclean = tx.unclean
              /\ SameFrame /\ SameCounts /\ tx'.guard = tx.guard /\ tx'.restored = tx.restored

\* It goes on to pc, and nothing else of its memory changes.
Goes(pc) == /\ tx'.pc = pc /\ SameFrame /\ SameCounts /\ SameAside /\ SameMood
            /\ tx'.guard = tx.guard
\* The way back fails: what is left is to be recovered by hand.
GivesUp == /\ tx'.pc = "done" /\ tx'.err = "OBS_RECOVERY_REQUIRED" /\ tx'.back /\ tx'.unclean
           /\ SameFrame /\ SameCounts /\ tx'.guard = tx.guard

\* The files of version v in tx.home are captured for a transaction of their own.
Captures(v, job, pc) ==
  /\ tx'.pc = pc /\ tx'.job = job /\ tx'.prev = v
  /\ \A n \in OwnedSet(v) : tx'.expected[n] = at[home][n]
  /\ tx'.m = 0 /\ tx'.n = 0 /\ tx'.kept = Nothing
  /\ ~tx'.back /\ ~tx'.unclean /\ tx'.root /\ ~tx'.readonly /\ tx'.err = "ok"
  /\ tx'.guard.ver = 0 /\ SameTask /\ tx'.bundle = tx.bundle
  /\ tx'.seen = "nothing" /\ tx'.own = Nothing /\ tx'.restored = {}
  /\ touched' = {x \in touched : x[1] # home}

LEMMA FaultFact ==
    ASSUME TypeInv, Use("fault") \/ UNCHANGED spent
    PROVE  /\ spent' \in [command : Nat, drift : Nat, fault : Nat, crash : Nat]
           /\ spent'.command = spent.command /\ spent'.drift = spent.drift
           /\ Staged' = Staged /\ Copied' = Copied
  BY DEF TypeInv, Use, Staged, Copied

\* The installer remembers, except for:
LEMMA GoFact ==
    ASSUME TypeInv, NEW pc \in Steps, Go(pc)
    PROVE  /\ tx' \in Memory /\ tx'.pc = pc /\ SameTask /\ SamePlan /\ SameCounts /\ SameAside
           /\ SameMood /\ SameReport /\ tx'.guard = tx.guard /\ tx'.bundle = tx.bundle
<1>1. /\ tx' \in Memory /\ tx'.pc = pc
      /\ \A f \in DOMAIN tx \ {"pc"} : tx'[f] = tx[f]
  BY DEF TypeInv, Memory, Go
<1>2. DOMAIN tx = {"pc", "cmd", "target", "home", "bundle", "legacy", "job", "prev", "expected",
                   "kept", "orig", "guard", "root", "m", "n", "seen", "own", "restored",
                   "started", "back", "unclean", "receipt", "readonly", "err"}
  BY DEF TypeInv, Memory
<1>3. QED
  BY <1>1, <1>2 DEF SameTask, SamePlan, SameCounts, SameAside, SameMood, SameReport, home, side,
     Moved, Waiting, Home

LEMMA DomainFact ==
    ASSUME TypeInv
    PROVE  DOMAIN tx = {"pc", "cmd", "target", "home", "bundle", "legacy", "job", "prev",
                        "expected", "kept", "orig", "guard", "root", "m", "n", "seen", "own",
                        "restored", "started", "back", "unclean", "receipt", "readonly", "err"}
  BY DEF TypeInv, Memory

LEMMA EndFact ==
    ASSUME TypeInv, NEW err \in Errors, End(err)
    PROVE  /\ tx' \in Memory /\ tx'.pc = "done" /\ tx'.err = err /\ SameTask /\ SamePlan
           /\ SameCounts /\ SameAside /\ SameReport /\ tx'.guard = tx.guard
           /\ tx'.back = tx.back /\ tx'.unclean = tx.unclean /\ tx'.bundle = tx.bundle
<1>1. "done" \in Steps
  BY DEF Steps
<1>2. tx' \in Memory
  BY <1>1 DEF TypeInv, Memory, End
<1>3. /\ tx'.pc = "done" /\ tx'.err = err
      /\ \A f \in DOMAIN tx \ {"pc", "err"} : tx'[f] = tx[f]
  BY DomainFact DEF End
<1>4. QED
  BY <1>2, <1>3, DomainFact
     DEF SameTask, SamePlan, SameCounts, SameAside, SameReport, home, side, Moved, Waiting, Home

LEMMA WriteFact ==
    ASSUME TypeInv, NEW p \in Places, NEW n \in Names, NEW f \in Object \cup {NoFile},
           at' = [at EXCEPT ![p][n] = f]
    PROVE  at' \in [Places -> Row] /\ at'[p][n] = f /\ Others(p, n)
<1>1. at[p] \in Row /\ [at[p] EXCEPT ![n] = f] \in Row
  BY DEF TypeInv, Row
<1>2. at' = [at EXCEPT ![p] = [at[p] EXCEPT ![n] = f]]
  OBVIOUS
<1>3. at' \in [Places -> Row] /\ \A q \in Places : q # p => at'[q] = at[q]
  BY <1>1, <1>2 DEF TypeInv
<1>4. at'[p] = [at[p] EXCEPT ![n] = f]
  BY <1>2 DEF TypeInv
<1>5. QED
  BY <1>1, <1>3, <1>4 DEF Row, Others

LEMMA RenameFact ==
    ASSUME TypeInv, NEW p \in Places, NEW q \in Places, p # q, NEW n \in Names,
           at' = [at EXCEPT ![q][n] = at[p][n], ![p][n] = NoFile]
    PROVE  /\ at' \in [Places -> Row] /\ at'[p][n] = NoFile /\ at'[q][n] = at[p][n]
           /\ \A r \in Places, k \in Names : k # n \/ (r # p /\ r # q) => at'[r][k] = at[r][k]
<1>1. /\ at[p] \in Row /\ at[q] \in Row
      /\ [at[q] EXCEPT ![n] = at[p][n]] \in Row /\ [at[p] EXCEPT ![n] = NoFile] \in Row
  BY DEF TypeInv, Row
<1>2. at' = [at EXCEPT ![q] = [at[q] EXCEPT ![n] = at[p][n]], ![p] = [at[p] EXCEPT ![n] = NoFile]]
  BY DEF TypeInv
<1>3. /\ at' \in [Places -> Row]
      /\ at'[q] = [at[q] EXCEPT ![n] = at[p][n]] /\ at'[p] = [at[p] EXCEPT ![n] = NoFile]
      /\ \A r \in Places : r # p /\ r # q => at'[r] = at[r]
  BY <1>1, <1>2 DEF TypeInv
<1>4. QED
  BY <1>1, <1>3, ZenonT(40) DEF Row

LEMMA RollbackFact ==
    ASSUME TypeInv, NEW err \in Errors, Rollback(err), locked' = locked
    PROVE  tx' \in Memory /\ Turns(err) /\ SameAside
<1>1. "rollback" \in Steps /\ "nothing" \in Looks /\ (tx.m + tx.n > 0) \in BOOLEAN
  BY DEF Steps, Looks
<1>2. tx' \in Memory
  BY <1>1 DEF TypeInv, Memory, Rollback
<1>3. /\ tx'.pc = "rollback" /\ tx'.err = err /\ tx'.back
      /\ tx'.seen = "nothing"
      /\ \A f \in DOMAIN tx \ {"pc", "err", "back", "seen", "started"} : tx'[f] = tx[f]
  BY DomainFact DEF Rollback
<1>4. QED
  BY <1>2, <1>3, DomainFact
     DEF Turns, SameFrame, SameCounts, SameTask, SamePlan, SameReport, SameAside, home, side, Home,
         Moved, Waiting

\* A step of the way forward that raises.
LEMMA FailsFact ==
    ASSUME IInv, tx.pc = "move", Rollback("OBS_PLUGIN_DRIFT"), Calm, there' = there,
           locked' = locked, held' = held, at' = at
    PROVE  TypeInv' /\ Turns("OBS_PLUGIN_DRIFT") /\ SameAside /\ tx'.seen = "nothing"
<1> USE DEF IInv
<1>1. tx' \in Memory /\ Turns("OBS_PLUGIN_DRIFT") /\ SameAside
  BY RollbackFact DEF Errors
<1>2. tx'.seen = "nothing"
  BY DomainFact DEF Rollback
<1>3. QED
  BY <1>1, <1>2 DEF TypeInv, Calm, Quiet

\* A look that lets the next step be made, and nothing else of the memory changes.
LEMMA SawFact ==
    ASSUME TypeInv, NEW what \in Looks, Saw(what), locked' = locked
    PROVE  /\ tx' \in Memory /\ Goes(tx.pc) /\ tx'.seen = what
           /\ tx'.own = tx.own /\ tx'.restored = tx.restored
<1>1. tx' \in Memory /\ tx'.seen = what
  BY DomainFact DEF TypeInv, Memory, Saw
<1>2. \A f \in DOMAIN tx \ {"seen"} : tx'[f] = tx[f]
  BY DomainFact DEF Saw
<1>3. QED
  BY <1>1, <1>2, DomainFact
     DEF Goes, SameFrame, SameCounts, SameTask, SamePlan, SameReport, SameAside, SameMood, home,
         side, Home, Moved, Waiting

\* A look changes what was seen, or it is where the way forward ends.
LEMMA CheckSourceFact ==
    ASSUME IInv, CheckSource
    PROVE  /\ TypeInv' /\ Calm /\ tx.pc = "move" /\ there' = there /\ at' = at
           /\ tx.seen = "nothing" /\ tx.m < Len(Owned(tx.prev)) /\ tx.prev \in {1, 2}
           /\ Owned(tx.prev)[tx.m + 1] \in Names
           /\ \/ /\ OwnedSource(Owned(tx.prev)[tx.m + 1])
                 /\ Goes("move") /\ tx'.seen = "fit" /\ locked' = locked
                 /\ tx'.own = tx.own /\ tx'.restored = tx.restored
              \/ Turns("OBS_PLUGIN_DRIFT") /\ SameAside /\ tx'.seen = "nothing"
<1> USE DEF IInv
<1> DEFINE n == Owned(tx.prev)[tx.m + 1]
<1>1. /\ tx.pc = "move" /\ tx.m < Len(Owned(tx.prev)) /\ tx.prev \in {1, 2} /\ tx.m \in Nat
      /\ n \in Names /\ tx.seen = "nothing"
  BY OwnedFact DEF CheckSource, At, CommandInv, Aside, TypeInv, Memory
<1>2. Calm /\ there' = there /\ locked' = locked /\ held' = held /\ at' = at
  BY FaultFact DEF CheckSource, Right, Wrong, Calm, Quiet, ghost, disk
<1>3. CASE OwnedSource(n) /\ Saw("fit")
  <2>1. tx' \in Memory /\ Goes("move") /\ tx'.seen = "fit" /\ tx'.own = tx.own
        /\ tx'.restored = tx.restored
    BY <1>1, <1>2, <1>3, SawFact DEF Looks
  <2>2. QED
    BY <1>1, <1>2, <1>3, <2>1 DEF TypeInv, Calm, Quiet
<1>4. CASE Rollback("OBS_PLUGIN_DRIFT")
  BY <1>1, <1>2, <1>4, FailsFact
<1>5. QED
  BY <1>3, <1>4 DEF CheckSource, Right, Wrong

LEMMA MoveFact ==
    ASSUME IInv, Move
    PROVE  /\ TypeInv' /\ Quiet /\ tx.pc = "move" /\ there' = there
           /\ tx.seen = "fit" /\ tx.m < Len(Owned(tx.prev))
           /\ \/ \E n \in Names :
                   /\ n = Owned(tx.prev)[tx.m + 1] /\ n \in Waiting
                   /\ at[home][n] # NoFile
                   /\ at'[home][n] = NoFile /\ at'[side][n] = at[home][n]
                   /\ \A q \in Places, k \in Names :
                        k # n \/ (q # home /\ q # side) => at'[q][k] = at[q][k]
                   /\ Goes("move") /\ tx'.seen = "moved"
                   /\ tx'.own = tx.own /\ tx'.restored = tx.restored
                   /\ Carried(<<home, n>>, <<side, n>>)
              \/ /\ Turns("OBS_PLUGIN_DRIFT") /\ SameAside /\ at' = at /\ tx'.seen = "nothing"
                 /\ touched' = touched
<1> USE DEF IInv
<1> DEFINE n == Owned(tx.prev)[tx.m + 1]
<1>1. /\ tx.pc = "move" /\ tx.m < Len(Owned(tx.prev)) /\ tx.prev \in {1, 2} /\ tx.m \in Nat
      /\ n \in Names /\ tx.seen = "fit" /\ n \in Waiting
  <2>1. /\ tx.pc = "move" /\ tx.m < Len(Owned(tx.prev)) /\ tx.prev \in {1, 2} /\ tx.m \in Nat
        /\ tx.seen = "fit"
    BY DEF Move, At, CommandInv, Aside, TypeInv, Memory
  <2>2. Len(Owned(tx.prev)) \in Nat /\ tx.m + 1 \in (tx.m + 1)..Len(Owned(tx.prev))
    BY <2>1, OwnedFact
  <2>3. QED
    BY <2>1, <2>2, OwnedFact DEF Waiting
<1>2. Quiet /\ there' = there /\ locked' = locked /\ held' = held
  BY FaultFact DEF Move, Right, Wrong, Quiet
<1>3. CASE /\ at[home][n] # NoFile /\ Saw("moved") /\ Carried(<<home, n>>, <<side, n>>)
           /\ at' = [at EXCEPT ![side][n] = at[home][n], ![home][n] = NoFile]
  <2>1. tx' \in Memory /\ Goes("move") /\ tx'.seen = "moved" /\ tx'.own = tx.own
        /\ tx'.restored = tx.restored
    BY <1>1, <1>2, <1>3, SawFact DEF Looks
  <2>2. /\ at' \in [Places -> Row] /\ at'[home][n] = NoFile /\ at'[side][n] = at[home][n]
        /\ \A q \in Places, k \in Names : k # n \/ (q # home /\ q # side) => at'[q][k] = at[q][k]
    BY <1>1, <1>3, PlaceFact, RenameFact, ZenonT(40)
  <2>3. touched' \in SUBSET (Places \X Names)
    BY <1>1, <1>3, PlaceFact DEF Carried, TypeInv
  <2>4. TypeInv'
    BY <1>2, <2>1, <2>2, <2>3 DEF TypeInv, Quiet
  <2>5. QED
    BY <1>1, <1>2, <1>3, <2>1, <2>2, <2>4
<1>4. CASE Rollback("OBS_PLUGIN_DRIFT") /\ UNCHANGED <<at, touched>>
  BY <1>1, <1>2, <1>4, FailsFact DEF Calm
<1>5. QED
  BY <1>3, <1>4 DEF Move, Right, Wrong

LEMMA ConfirmFact ==
    ASSUME IInv, Confirm
    PROVE  /\ TypeInv' /\ Calm /\ tx.pc = "move" /\ there' = there /\ at' = at
           /\ tx.seen = "moved" /\ tx'.seen = "nothing"
           /\ \/ \E n \in Names :
                   /\ n = Owned(tx.prev)[tx.m + 1]
                   /\ n \in Waiting /\ Moved' = Moved \cup {n} /\ Waiting' = Waiting \ {n}
                   /\ at[side][n] = tx.expected[n] /\ tx'.kept[n] = tx.expected[n]
                   /\ \A k \in Names : k # n => tx'.kept[k] = tx.kept[k]
                   /\ tx'.pc = "move" /\ SameFrame /\ SameMood /\ tx'.guard = tx.guard
                   /\ tx'.m = tx.m + 1 /\ tx.m < Len(Owned(tx.prev)) /\ tx'.n = tx.n
                   /\ tx'.orig = tx.orig /\ tx'.root = tx.root
                   /\ tx'.own = tx.own /\ tx'.restored = tx.restored
              \/ Turns("OBS_PLUGIN_DRIFT") /\ SameAside
<1> USE DEF IInv
<1> DEFINE n == Owned(tx.prev)[tx.m + 1]
<1>1. /\ tx.pc = "move" /\ tx.m < Len(Owned(tx.prev)) /\ tx.prev \in {1, 2} /\ tx.m \in Nat
      /\ n \in Names /\ tx.seen = "moved"
  BY OwnedFact DEF Confirm, At, CommandInv, Aside, TypeInv, Memory
<1>2. Calm /\ there' = there /\ locked' = locked /\ held' = held /\ at' = at
  BY FaultFact DEF Confirm, Right, Wrong, Calm, Quiet, ghost, disk
<1>3. CASE /\ at[side][n] = tx.expected[n]
           /\ tx' = [tx EXCEPT !.m = @ + 1, !.seen = "nothing", !.kept[n] = tx.expected[n]]
  <2>1. /\ tx' \in Memory /\ tx'.pc = "move" /\ SameFrame /\ SameMood /\ tx'.guard = tx.guard
        /\ tx'.m = tx.m + 1 /\ tx'.n = tx.n /\ tx'.orig = tx.orig /\ tx'.root = tx.root
        /\ tx'.seen = "nothing" /\ tx'.own = tx.own /\ tx'.restored = tx.restored
        /\ tx'.kept[n] = tx.expected[n]
        /\ \A k \in Names : k # n => tx'.kept[k] = tx.kept[k]
    <3>1. /\ tx.kept \in Row /\ tx.expected[n] \in Object \cup {NoFile} /\ tx.m + 1 \in Nat
          /\ "nothing" \in Looks
      BY <1>1 DEF TypeInv, Memory, Row, Looks
    <3>2. [tx.kept EXCEPT ![n] = tx.expected[n]] \in Row
      BY <3>1 DEF Row
    <3>3. tx' = [tx EXCEPT !.m = tx.m + 1, !.seen = "nothing",
                           !.kept = [tx.kept EXCEPT ![n] = tx.expected[n]]]
      BY <1>3
    <3>4. tx' \in Memory
      BY <3>1, <3>2, <3>3 DEF TypeInv, Memory
    <3>5. /\ tx'.m = tx.m + 1 /\ tx'.kept = [tx.kept EXCEPT ![n] = tx.expected[n]]
          /\ tx'.seen = "nothing"
          /\ \A f \in DOMAIN tx \ {"m", "kept", "seen"} : tx'[f] = tx[f]
      BY <3>3, DomainFact
    <3>6. /\ tx'.kept[n] = tx.expected[n]
          /\ \A k \in Names : k # n => tx'.kept[k] = tx.kept[k]
      BY <1>1, <3>1, <3>5 DEF Row
    <3>7. QED
      BY <1>1, <1>2, <3>4, <3>5, <3>6, DomainFact
         DEF SameFrame, SameMood, SameTask, SamePlan, SameReport, home, side, Home
  <2>2. n \in Waiting /\ Moved' = Moved \cup {n} /\ Waiting' = Waiting \ {n}
    BY <1>1, <2>1, MoveOnFact DEF SameFrame, SamePlan
  <2>3. TypeInv'
    BY <1>2, <2>1 DEF TypeInv, Calm, Quiet
  <2>4. QED
    BY <1>1, <1>2, <1>3, <2>1, <2>2, <2>3
<1>4. CASE Rollback("OBS_PLUGIN_DRIFT")
  BY <1>1, <1>2, <1>4, FailsFact
<1>5. QED
  BY <1>3, <1>4 DEF Confirm, Right, Wrong

LEMMA GoesFact ==
    ASSUME TypeInv, NEW pc \in Steps, Go(pc), locked' = locked
    PROVE  tx' \in Memory /\ Goes(pc)
  BY GoFact DEF Goes, SameFrame

LEMMA StopsFact ==
    ASSUME TypeInv, NEW err \in Errors, err # "ok", End(err), SameDisk
    PROVE  tx' \in Memory /\ Stops
  BY EndFact DEF Stops

\* An error code of the installer.
LEMMA ErrorsFact ==
    /\ \A e \in {"OBS_TARGET_UNSAFE", "OBS_BUNDLE_INVALID", "OBS_RECEIPT_INVALID",
                 "OBS_PLUGIN_DRIFT", "OBS_PLUGIN_ALREADY_INSTALLED", "OBS_INSTALL_FAILED",
                 "OBS_RECOVERY_REQUIRED", "unhandled OSError"} : e \in Errors /\ e # "ok"
    /\ "ok" \in Errors
  BY DEF Errors

LEMMA TypeFact ==
    ASSUME TypeInv, Calm, tx' \in Memory, there' \in SUBSET Places, at' \in [Places -> Row],
           locked' \in SUBSET Targets, held' \in SUBSET Targets
    PROVE  TypeInv'
  BY DEF TypeInv, Calm, Quiet

LEMMA BeginFact ==
    ASSUME IInv, NEW cmd \in {"install", "upgrade", "verify", "uninstall"},
           NEW t \in Targets, NEW b \in Bundles, Begin(cmd, t, b)
    PROVE  /\ TypeInv' /\ SameDisk /\ posix' = posix /\ spent'.drift = spent.drift
           /\ tx.pc \in {"idle"} \cup Over
           /\ leftover' = {p \in there : p[2] # "home"}
           /\ tx'.cmd = cmd /\ tx'.target = t /\ tx'.home = t /\ tx'.bundle = b
           /\ ~tx'.legacy /\ tx'.job = "none" /\ tx'.prev = 0 /\ tx'.m = 0 /\ tx'.n = 0
           /\ ~tx'.back /\ ~tx'.unclean /\ tx'.root /\ ~tx'.readonly /\ tx'.err = "ok"
           /\ tx'.seen = "nothing" /\ tx'.restored = {}
           /\ tx'.pc = IF cmd = "verify" THEN "verify"
                       ELSE IF cmd = "uninstall" THEN "capture" ELSE "bundle"
<1> USE DEF IInv
<1> DEFINE pc == CASE cmd \in {"install", "upgrade"} -> "bundle"
                   [] cmd = "verify"                 -> "verify"
                   [] cmd = "uninstall"              -> "capture"
<1>1. pc = (IF cmd = "verify" THEN "verify" ELSE IF cmd = "uninstall" THEN "capture" ELSE "bundle")
  OBVIOUS
<1>2. pc \in Steps
  BY <1>1 DEF Steps
<1>3. Fresh \in Memory
  BY NothingFact, InstallAssumption DEF Fresh, Memory, Steps, Looks, Errors, NoGuard
<1>4. tx' = [Fresh EXCEPT !.cmd = cmd, !.target = t, !.home = t, !.bundle = b, !.pc = pc]
  BY DEF Begin
<1> HIDE DEF pc
<1>5. tx' \in Memory
  BY <1>2, <1>3, <1>4 DEF Memory
<1>6. /\ tx'.cmd = cmd /\ tx'.target = t /\ tx'.home = t /\ tx'.bundle = b
      /\ ~tx'.legacy /\ tx'.job = "none" /\ tx'.prev = 0 /\ tx'.m = 0 /\ tx'.n = 0
      /\ ~tx'.back /\ ~tx'.unclean /\ tx'.root /\ ~tx'.readonly /\ tx'.err = "ok"
      /\ tx'.seen = "nothing" /\ tx'.restored = {}
      /\ tx'.pc = pc
  BY <1>4 DEF Fresh
<1>7. /\ spent' \in [command : Nat, drift : Nat, fault : Nat, crash : Nat]
      /\ spent'.drift = spent.drift
  BY DEF TypeInv, Begin, Use
<1>8. TypeInv'
  BY <1>5, <1>7 DEF TypeInv, Begin
<1>9. QED
  BY <1>1, <1>6, <1>7, <1>8 DEF Begin, SameDisk, Over

LEMMA RefuseFact ==
    ASSUME IInv, Refuse
    PROVE  /\ TypeInv' /\ Calm /\ Stops /\ tx.job = "none"
           /\ tx.pc \in {"bundle", "verify", "capture"}
<1> USE DEF IInv
<1>1. Calm /\ SameDisk /\ held' = held
  BY FaultFact DEF Refuse, Calm, Quiet, SameDisk, disk, ghost
<1>2. tx' \in Memory /\ Stops
  BY <1>1, StopsFact, ErrorsFact DEF Refuse
<1>3. QED
  BY <1>1, <1>2, TypeFact DEF Refuse, TypeInv, SameDisk

LEMMA ValidateBundleFact ==
    ASSUME IInv, ValidateBundle
    PROVE  /\ TypeInv' /\ Calm /\ tx.pc = "bundle" /\ SameDisk
           /\ (Goes("legacy") /\ B!Accepted(tx.bundle)) \/ Stops
<1> USE DEF IInv
<1>1. Calm /\ SameDisk /\ held' = held /\ tx.pc = "bundle"
  BY FaultFact DEF ValidateBundle, Calm, Quiet, SameDisk, disk, ghost, At
<1>2. CASE B!Accepted(tx.bundle)
  <2>1. Go("legacy") /\ "legacy" \in Steps
    BY <1>2 DEF ValidateBundle, Go, Steps
  <2>2. QED
    BY <1>1, <1>2, <2>1, GoesFact, TypeFact DEF TypeInv, SameDisk
<1>3. CASE ~B!Accepted(tx.bundle)
  <2>1. tx' = [tx EXCEPT !.pc = "done", !.err = "OBS_BUNDLE_INVALID", !.bundle = {}]
    BY <1>3 DEF ValidateBundle
  <2>2. tx' \in Memory /\ Stops
    <3>1. "done" \in Steps /\ "OBS_BUNDLE_INVALID" \in Errors
      BY ErrorsFact DEF Steps
    <3>2. tx' \in Memory
      BY <3>1, <2>1 DEF TypeInv, Memory
    <3>3. /\ tx'.pc = "done" /\ tx'.err # "ok"
          /\ \A f \in DOMAIN tx \ {"pc", "err", "bundle"} : tx'[f] = tx[f]
      BY <3>1, <2>1, DomainFact
    <3>4. QED
      BY <3>2, <3>3, <2>1, <1>1, DomainFact
         DEF Calm, Goes, Stops, Turns, GivesUp, SameFrame, SameTask, SamePlan, SameCounts, SameAside, SameMood, SameReport, home, side, Home, Moved, Waiting
  <2>3. QED
    BY <1>1, <2>2, TypeFact DEF TypeInv, SameDisk
<1>4. QED
  BY <1>2, <1>3

LEMMA FindLegacyFact ==
    ASSUME IInv, FindLegacy
    PROVE  /\ TypeInv' /\ Calm /\ tx.pc = "legacy" /\ SameDisk
           /\ \/ /\ tx'.pc = "prepare" /\ tx'.legacy /\ ~posix /\ tx.target = Main /\ Main # Legacy
                 /\ tx'.cmd = tx.cmd /\ tx'.target = tx.target /\ tx'.home = tx.home /\ home' = home
                 /\ tx'.bundle = tx.bundle /\ SamePlan /\ SameCounts /\ SameAside /\ SameMood
                 /\ SameReport /\ tx'.guard = tx.guard
              \/ Stops
              \/ Goes("prepare")
<1> USE DEF IInv
<1>1. Calm /\ SameDisk /\ tx.pc = "legacy"
  BY FaultFact DEF FindLegacy, Calm, Quiet, SameDisk, disk, ghost, At
<1>2. held' \in SUBSET Targets
  BY DEF FindLegacy, TypeInv
<1>3. CASE ~posix /\ tx.target = Main /\ Legacy # Main /\ tx' = [tx EXCEPT !.pc = "prepare", !.legacy = TRUE]
  <2>1. tx' = [tx EXCEPT !.pc = "prepare", !.legacy = TRUE]
    BY <1>3
  <2>2. /\ tx' \in Memory /\ tx'.pc = "prepare" /\ tx'.legacy
        /\ tx'.cmd = tx.cmd /\ tx'.target = tx.target /\ tx'.home = tx.home /\ home' = home
        /\ tx'.bundle = tx.bundle /\ SamePlan /\ SameCounts /\ SameAside /\ SameMood
        /\ SameReport /\ tx'.guard = tx.guard
    <3>1. "prepare" \in Steps
      BY DEF Steps
    <3>2. tx' \in Memory
      BY <3>1, <2>1 DEF TypeInv, Memory
    <3>3. /\ tx'.pc = "prepare" /\ tx'.legacy
          /\ \A f \in DOMAIN tx \ {"pc", "legacy"} : tx'[f] = tx[f]
      BY <3>1, <2>1, DomainFact
    <3>4. QED
      BY <3>2, <3>3, <2>1, <1>1, DomainFact
         DEF Calm, Goes, Stops, Turns, GivesUp, SameFrame, SameTask, SamePlan, SameCounts, SameAside, SameMood, SameReport, home, side, Home, Moved, Waiting
  <2>3. QED
    BY <1>1, <1>2, <1>3, <2>2, TypeFact DEF TypeInv, SameDisk
<1>4. CASE End("OBS_RECEIPT_INVALID")
  BY <1>1, <1>2, <1>4, StopsFact, ErrorsFact, TypeFact DEF TypeInv, SameDisk
<1>5. CASE Go("prepare")
  <2>1. "prepare" \in Steps
    BY DEF Steps
  <2>2. QED
    BY <1>1, <1>2, <1>5, <2>1, GoesFact, TypeFact DEF TypeInv, SameDisk
<1>6. QED
  BY <1>3, <1>4, <1>5 DEF FindLegacy

LEMMA VerifyFact ==
    ASSUME IInv, Verify
    PROVE  /\ TypeInv' /\ Calm /\ tx.pc = "verify" /\ SameDisk
           /\ \/ /\ VersionAt(tx.target) = Current
                 /\ IF tx.legacy THEN tx'.pc = "capture" /\ tx'.home = Legacy
                                 ELSE tx'.pc = "commit" /\ SameTask /\ side' = side
                 /\ tx'.cmd = tx.cmd /\ tx'.target = tx.target /\ tx'.legacy = tx.legacy
                 /\ tx'.job = tx.job /\ tx'.prev = tx.prev /\ tx'.bundle = tx.bundle
                 /\ tx'.readonly = tx.readonly /\ SameCounts /\ SameAside /\ SameMood
                 /\ tx'.guard = tx.guard
              \/ Stops
<1> USE DEF IInv
<1>1. Calm /\ SameDisk /\ held' = held /\ tx.pc = "verify"
  BY FaultFact DEF Verify, Calm, Quiet, SameDisk, disk, ghost, At
<1>2. CASE VersionAt(tx.target) = Current
  <2> DEFINE pc == IF tx.legacy THEN "capture" ELSE "commit"
  <2> DEFINE place == IF tx.legacy THEN Legacy ELSE tx.home
  <2>1. tx' = [tx EXCEPT !.receipt = Identity(tx.target, Current), !.pc = pc, !.home = place]
    BY <1>2 DEF Verify
  <2>2. /\ Identity(tx.target, Current) \in Row /\ pc \in Steps /\ place \in Targets
    BY IdentityFact, InstallAssumption DEF TypeInv, Memory, Steps
  <2>3. tx' \in Memory
    BY <2>1, <2>2, ZenonT(40) DEF TypeInv, Memory
  <2>4. /\ tx'.pc = pc /\ tx'.home = place
        /\ \A f \in DOMAIN tx \ {"receipt", "pc", "home"} : tx'[f] = tx[f]
    BY <2>1, DomainFact
  <2>5. /\ tx'.cmd = tx.cmd /\ tx'.target = tx.target /\ tx'.legacy = tx.legacy
        /\ tx'.job = tx.job /\ tx'.prev = tx.prev /\ tx'.bundle = tx.bundle
        /\ tx'.readonly = tx.readonly /\ SameCounts /\ SameAside /\ SameMood
        /\ tx'.guard = tx.guard
    BY <2>4, DomainFact DEF SameCounts, SameAside, SameMood, Moved, Waiting
  <2>6. ~tx.legacy => SameTask /\ side' = side
    BY <2>4, <2>5 DEF SameTask, home, side, Home
  <2>7. QED
    BY <1>1, <1>2, <2>3, <2>4, <2>5, <2>6, TypeFact DEF TypeInv, SameDisk
<1>3. CASE End("OBS_RECEIPT_INVALID")
  BY <1>1, <1>3, StopsFact, ErrorsFact, TypeFact DEF TypeInv, SameDisk
<1>4. QED
  BY <1>2, <1>3 DEF Verify

LEMMA CommitFact ==
    ASSUME IInv, Commit
    PROVE  /\ TypeInv' /\ Calm /\ tx.pc = "commit" /\ SameDisk
           /\ \/ posix /\ Goes("guard")
              \/ /\ ~posix /\ tx'.pc = "done" /\ tx'.err = "ok" /\ SameTask /\ SamePlan /\ SameCounts
                 /\ SameReport /\ SameAside /\ tx'.back = tx.back
              \/ Stops
<1> USE DEF IInv
<1>1. Calm /\ SameDisk /\ tx.pc = "commit"
  BY FaultFact DEF Commit, Right, Wrong, Calm, Quiet, SameDisk, ghost, At
<1>2. held' \in SUBSET Targets
  BY DEF Commit, TypeInv, Memory
<1>3. CASE posix /\ Go("guard")
  <2>1. "guard" \in Steps
    BY DEF Steps
  <2>2. QED
    BY <1>1, <1>2, <1>3, <2>1, GoesFact, TypeFact DEF TypeInv, SameDisk
<1>4. CASE ~posix /\ End("ok")
  BY <1>1, <1>2, <1>4, EndFact, ErrorsFact, TypeFact DEF TypeInv, SameDisk
<1>5. CASE End("OBS_PLUGIN_DRIFT")
  BY <1>1, <1>2, <1>5, StopsFact, ErrorsFact, TypeFact DEF TypeInv, SameDisk
<1>6. QED
  BY <1>3, <1>4, <1>5 DEF Commit

LEMMA GuardFact ==
    ASSUME IInv, Guard
    PROVE  /\ TypeInv' /\ Calm /\ tx.pc = "guard" /\ there' = there /\ at' = at
           /\ \/ /\ tx'.pc = "guarded" /\ locked' = locked \cup {tx.target}
                 /\ SameTask /\ SamePlan /\ SameCounts /\ SameAside /\ SameMood
                 /\ tx'.guard = tx.guard /\ tx'.bundle = tx.bundle
                 /\ tx'.readonly = (tx.target \in locked)
              \/ Stops
<1> USE DEF IInv
<1>1. Calm /\ there' = there /\ at' = at /\ held' = held /\ tx.pc = "guard"
  BY FaultFact DEF Guard, Right, Wrong, Calm, Quiet, ghost, At
<1>2. CASE /\ locked' = locked \cup {tx.target}
           /\ tx' = [tx EXCEPT !.pc = "guarded", !.receipt = Identity(tx.target, Current),
                               !.readonly = tx.target \in locked]
  <2> DEFINE writable == tx.target \in locked
  <2>1. tx' = [tx EXCEPT !.pc = "guarded", !.receipt = Identity(tx.target, Current),
                         !.readonly = writable]
    BY <1>2
  <2>2. /\ "guarded" \in Steps /\ Identity(tx.target, Current) \in Row /\ writable \in BOOLEAN
        /\ locked' \in SUBSET Targets
    BY <1>2, IdentityFact DEF Steps, TypeInv, Memory
  <2> HIDE DEF writable
  <2>3. tx' \in Memory
    BY <2>1, <2>2 DEF TypeInv, Memory
  <2>4. /\ tx'.pc = "guarded" /\ tx'.readonly = writable
        /\ \A f \in DOMAIN tx \ {"pc", "receipt", "readonly"} : tx'[f] = tx[f]
    BY <2>1, DomainFact
  <2>5. /\ SameTask /\ SamePlan /\ SameCounts /\ SameAside /\ SameMood
        /\ tx'.guard = tx.guard /\ tx'.bundle = tx.bundle
    BY <2>4, DomainFact DEF SameTask, SamePlan, SameCounts, SameAside, SameMood, home, side, Home,
       Moved, Waiting
  <2>6. tx'.readonly = (tx.target \in locked)
    BY <2>4 DEF writable
  <2>7. TypeInv'
    BY <1>1, <2>2, <2>3, TypeFact DEF TypeInv
  <2>8. QED
    BY <1>1, <1>2, <2>4, <2>5, <2>6, <2>7
<1>3. CASE End("OBS_PLUGIN_DRIFT") /\ UNCHANGED locked
  BY <1>1, <1>3, StopsFact, ErrorsFact, TypeFact DEF TypeInv, SameDisk
<1>4. QED
  BY <1>2, <1>3 DEF Guard

LEMMA UnguardFact ==
    ASSUME IInv, Unguard
    PROVE  /\ TypeInv' /\ Calm /\ tx.pc = "guarded" /\ there' = there /\ at' = at
           /\ \/ /\ tx'.pc = "done" /\ SameTask /\ SamePlan /\ SameCounts /\ SameAside /\ SameReport
                 /\ locked' = IF tx.readonly THEN locked ELSE locked \ {tx.target}
                 /\ tx'.back = tx.back
              \/ Stops
<1> USE DEF IInv
<1>1. Calm /\ there' = there /\ at' = at /\ held' = held /\ tx.pc = "guarded"
  BY FaultFact DEF Unguard, Calm, Quiet, ghost, At
<1>2. CASE /\ locked' = IF tx.readonly THEN locked ELSE locked \ {tx.target}
           /\ End(IF Identity(tx.target, Current) = tx.receipt THEN "ok" ELSE "OBS_PLUGIN_DRIFT")
  <2>1. PICK err \in Errors : End(err)
    BY <1>2, ErrorsFact
  <2>2. locked' \in SUBSET Targets
    BY <1>2 DEF TypeInv
  <2>3. QED
    BY <1>1, <1>2, <2>1, <2>2, EndFact, TypeFact DEF TypeInv
<1>3. CASE End("OBS_PLUGIN_DRIFT") /\ UNCHANGED locked
  BY <1>1, <1>3, StopsFact, ErrorsFact, TypeFact DEF TypeInv, SameDisk
<1>4. QED
  BY <1>2, <1>3 DEF Unguard

LEMMA CapturedFact ==
    ASSUME TypeInv, Quiet, SameDisk, held' = held,
           NEW v \in 0..2, NEW job \in {"none", "replace", "remove"}, NEW pc \in Steps,
           Captured(v, job, pc)
    PROVE  TypeInv' /\ Captures(v, job, pc)
<1>1. Identity(tx.home, v) \in Row /\ Fresh \in Memory
  <2>1. Identity(tx.home, v) \in Row
    BY IdentityFact DEF TypeInv, Memory
  <2>2. Fresh \in Memory
    BY NothingFact, InstallAssumption DEF Fresh, Memory, Steps, Looks, Errors, NoGuard
  <2>3. QED
    BY <2>1, <2>2
<1>2. tx' = [Fresh EXCEPT !.cmd = tx.cmd, !.target = tx.target, !.home = tx.home,
              !.bundle = tx.bundle, !.legacy = tx.legacy, !.receipt = tx.receipt,
              !.pc = pc, !.job = job, !.prev = v, !.expected = Identity(tx.home, v)]
  BY DEF Captured
<1>3. tx' \in Memory
  BY <1>1, <1>2, ZenonT(40) DEF TypeInv, Memory
<1>4. /\ tx'.pc = pc /\ tx'.job = job /\ tx'.prev = v /\ tx'.expected = Identity(tx.home, v)
      /\ tx'.m = 0 /\ tx'.n = 0 /\ tx'.kept = Nothing /\ ~tx'.back /\ ~tx'.unclean
      /\ tx'.root /\ ~tx'.readonly /\ tx'.err = "ok" /\ tx'.guard = NoGuard
      /\ tx'.cmd = tx.cmd /\ tx'.target = tx.target /\ tx'.home = tx.home
      /\ tx'.bundle = tx.bundle /\ tx'.legacy = tx.legacy
      /\ tx'.seen = "nothing" /\ tx'.own = Nothing /\ tx'.restored = {}
  BY <1>2 DEF Fresh
<1>5. \A n \in OwnedSet(v) : tx'.expected[n] = at[home][n]
  <2>1. OwnedSet(v) \subseteq Names
    <3>1. CASE v = 0
      BY <3>1 DEF OwnedSet
    <3>2. CASE v \in {1, 2}
      BY <3>2, OwnedFact
    <3>3. QED
      BY <3>1, <3>2
  <2>2. QED
    BY <1>4, <2>1, IdentityFact DEF TypeInv, Memory, home
<1>6. touched' = {x \in touched : x[1] # home}
  BY DEF Captured
<1>7. TypeInv'
  BY <1>3, <1>6 DEF TypeInv, Quiet, SameDisk
<1>8. QED
  BY <1>4, <1>5, <1>6, <1>7 DEF Captures, SameTask, home, Home, NoGuard

LEMMA CapturesFact ==
    ASSUME TypeInv, NEW v \in {1, 2}, NEW job, NEW pc, Captures(v, job, pc)
    PROVE  Waiting' = OwnedSet(v) /\ Moved' = {}
<1>1. tx'.prev = v /\ tx'.m = 0
  BY DEF Captures
<1>2. Waiting' = {Owned(v)[i] : i \in (0 + 1)..Len(Owned(v))} /\ Moved' = {Owned(v)[i] : i \in 1..0}
  BY <1>1 DEF Waiting, Moved
<1>3. QED
  BY <1>2, OwnedFact, SMTT(30)

LEMMA PrepareFact ==
    ASSUME IInv, Prepare
    PROVE  /\ TypeInv' /\ Quiet /\ tx.pc = "prepare" /\ SameDisk
           /\ \/ home \notin there /\ Captures(0, "none", "stage")
              \/ \E v \in {1, 2} : /\ tx.cmd # "install"
                                   /\ \A n \in OwnedSet(v) : Intact(home, n, v)
                                   /\ Captures(v, "replace", "stage")
              \/ Stops /\ touched' = touched
<1> USE DEF IInv
<1>1. Quiet /\ SameDisk /\ held' = held /\ tx.pc = "prepare" /\ "stage" \in Steps
  BY FaultFact DEF Prepare, Quiet, SameDisk, disk, At, Steps
<1>2. CASE home \notin there
  BY <1>1, <1>2, CapturedFact DEF Prepare
<1>3. CASE home \in there /\ tx.cmd = "install"
  <2>1. End("OBS_PLUGIN_ALREADY_INSTALLED") /\ touched' = touched
    BY <1>3 DEF Prepare
  <2>2. QED
    BY <1>1, <2>1, StopsFact, ErrorsFact, TypeFact DEF TypeInv, SameDisk, Calm
<1>4. CASE home \in there /\ tx.cmd # "install" /\ VersionAt(tx.home) = 0
  <2>1. End("OBS_RECEIPT_INVALID") /\ touched' = touched
    BY <1>4 DEF Prepare
  <2>2. QED
    BY <1>1, <2>1, StopsFact, ErrorsFact, TypeFact DEF TypeInv, SameDisk, Calm
<1>5. CASE home \in there /\ tx.cmd # "install" /\ VersionAt(tx.home) # 0
  <2> DEFINE v == VersionAt(tx.home)
  <2>1. Captured(v, "replace", "stage")
    BY <1>5 DEF Prepare
  <2>2. v \in {1, 2} /\ v \in 0..2 /\ \A n \in OwnedSet(v) : Intact(home, n, v)
    BY <1>5, VersionFact DEF home
  <2> HIDE DEF v
  <2>3. QED
    BY <1>1, <1>5, <2>1, <2>2, CapturedFact
<1>6. QED
  BY <1>2, <1>3, <1>4, <1>5

LEMMA StageFact ==
    ASSUME IInv, Stage
    PROVE  /\ TypeInv' /\ Calm /\ tx.pc = "stage" /\ locked' = locked
           /\ \/ /\ tx.prev # 0 /\ tx'.pc = "recheck" /\ there' = there /\ at' = at
                 /\ SameTask /\ SamePlan /\ SameCounts /\ SameAside /\ SameMood /\ SameReport
                 /\ tx'.guard = tx.guard
              \/ /\ tx.prev = 0 /\ tx'.pc = "verify" /\ there' = there \cup {home}
                 /\ \A n \in Names :
                      IF n \in OwnedSet(Current)
                      THEN at'[home][n] # NoFile /\ at'[home][n].ver = Current
                           /\ at'[home][n].gen = Staged
                      ELSE at'[home][n] = NoFile
                 /\ \A q \in Places : q # home => at'[q] = at[q]
                 /\ SameTask /\ SamePlan /\ SameCounts /\ SameAside /\ SameMood /\ SameReport
                 /\ tx'.guard = tx.guard
              \/ Stops
<1> USE DEF IInv
<1>1. Calm /\ locked' = locked /\ held' = held /\ tx.pc = "stage"
  BY FaultFact DEF Stage, Right, Wrong, Calm, Quiet, ghost, At
<1>2. CASE tx.prev # 0 /\ tx' = [tx EXCEPT !.pc = "recheck", !.bundle = {}] /\ UNCHANGED <<there, at>>
  <2>1. tx' = [tx EXCEPT !.pc = "recheck", !.bundle = {}]
    BY <1>2
  <2>2. /\ tx' \in Memory /\ tx'.pc = "recheck"
        /\ SameTask /\ SamePlan /\ SameCounts /\ SameAside /\ SameMood /\ SameReport
        /\ tx'.guard = tx.guard
    <3>1. "recheck" \in Steps
      BY DEF Steps
    <3>2. tx' \in Memory
      BY <3>1, <2>1 DEF TypeInv, Memory
    <3>3. /\ tx'.pc = "recheck"
          /\ \A f \in DOMAIN tx \ {"pc", "bundle"} : tx'[f] = tx[f]
      BY <3>1, <2>1, DomainFact
    <3>4. QED
      BY <3>2, <3>3, <2>1, <1>1, DomainFact
         DEF Calm, Goes, Stops, Turns, GivesUp, SameFrame, SameTask, SamePlan, SameCounts, SameAside, SameMood, SameReport, home, side, Home, Moved, Waiting
  <2>3. QED
    BY <1>1, <1>2, <2>2, TypeFact DEF TypeInv
<1>3. CASE /\ tx.prev = 0 /\ tx' = [tx EXCEPT !.pc = "verify", !.bundle = {}]
           /\ there' = there \cup {home}
           /\ at' = [at EXCEPT ![home] = [n \in Names |->
                       IF n \in OwnedSet(Current) THEN [ver |-> Current, gen |-> Staged]
                                                  ELSE NoFile]]
  <2>1. tx' = [tx EXCEPT !.pc = "verify", !.bundle = {}]
    BY <1>3
  <2>2. /\ tx' \in Memory /\ tx'.pc = "verify"
        /\ SameTask /\ SamePlan /\ SameCounts /\ SameAside /\ SameMood /\ SameReport
        /\ tx'.guard = tx.guard
    <3>1. "verify" \in Steps
      BY DEF Steps
    <3>2. tx' \in Memory
      BY <3>1, <2>1 DEF TypeInv, Memory
    <3>3. /\ tx'.pc = "verify"
          /\ \A f \in DOMAIN tx \ {"pc", "bundle"} : tx'[f] = tx[f]
      BY <3>1, <2>1, DomainFact
    <3>4. QED
      BY <3>2, <3>3, <2>1, <1>1, DomainFact
         DEF Calm, Goes, Stops, Turns, GivesUp, SameFrame, SameTask, SamePlan, SameCounts, SameAside, SameMood, SameReport, home, side, Home, Moved, Waiting
  <2>3. [ver |-> Current, gen |-> Staged] \in Object /\ [ver |-> Current, gen |-> Staged] # NoFile
    BY FileFact, NumberFact
  <2> DEFINE new == [n \in Names |-> IF n \in OwnedSet(Current)
                                     THEN [ver |-> Current, gen |-> Staged] ELSE NoFile]
  <2>4. /\ new \in Row
        /\ \A n \in Names : IF n \in OwnedSet(Current)
                            THEN new[n] # NoFile /\ new[n].ver = Current /\ new[n].gen = Staged
                            ELSE new[n] = NoFile
    BY <2>3 DEF Row
  <2>5. at' = [at EXCEPT ![home] = new]
    BY <1>3
  <2> HIDE DEF new
  <2>6. /\ at' \in [Places -> Row] /\ at'[home] = new
        /\ \A q \in Places : q # home => at'[q] = at[q]
    BY <2>4, <2>5, PlaceFact DEF TypeInv
  <2>7. there' \in SUBSET Places
    BY <1>3, PlaceFact DEF TypeInv
  <2>8. TypeInv'
    BY <1>1, <2>2, <2>6, <2>7, TypeFact DEF TypeInv
  <2>9. QED
    BY <1>1, <1>3, <2>2, <2>4, <2>6, <2>8
<1>4. CASE UNCHANGED <<there, at>> /\ tx' = [tx EXCEPT !.pc = "done", !.err = "OBS_INSTALL_FAILED", !.bundle = {}]
  <2>1. tx' = [tx EXCEPT !.pc = "done", !.err = "OBS_INSTALL_FAILED", !.bundle = {}]
    BY <1>4
  <2>2. tx' \in Memory /\ tx'.pc = "done" /\ tx'.err # "ok"
        /\ SameTask /\ SamePlan /\ SameCounts /\ SameAside /\ tx'.back = tx.back
        /\ tx'.unclean = tx.unclean /\ tx'.guard = tx.guard /\ SameReport
    <3>1. "done" \in Steps /\ "OBS_INSTALL_FAILED" \in Errors
      BY ErrorsFact DEF Steps
    <3>2. tx' \in Memory
      BY <3>1, <2>1 DEF TypeInv, Memory
    <3>3. /\ tx'.pc = "done" /\ tx'.err # "ok"
          /\ \A f \in DOMAIN tx \ {"pc", "err", "bundle"} : tx'[f] = tx[f]
      BY <3>1, <2>1, DomainFact
    <3>4. QED
      BY <3>2, <3>3, <2>1, <1>1, DomainFact
         DEF Calm, Goes, Stops, Turns, GivesUp, SameFrame, SameTask, SamePlan, SameCounts, SameAside, SameMood, SameReport, home, side, Home, Moved, Waiting
  <2>3. QED
    BY <1>1, <1>4, <2>2, TypeFact DEF TypeInv, Stops, SameDisk
<1>5. QED
  BY <1>2, <1>3, <1>4 DEF Stage

LEMMA RecheckFact ==
    ASSUME IInv, Recheck
    PROVE  /\ TypeInv' /\ Calm /\ tx.pc = "recheck" /\ at' = at
           /\ \/ side \notin there /\ there' = there \cup {side} /\ Goes("snapshot")
              \/ Stops
<1> USE DEF IInv
<1>1. Calm /\ at' = at /\ locked' = locked /\ held' = held /\ tx.pc = "recheck"
  BY FaultFact DEF Recheck, Right, Wrong, Calm, Quiet, ghost, At
<1>2. CASE side \notin there /\ there' = there \cup {side} /\ Go("snapshot")
  <2>1. "snapshot" \in Steps /\ there' \in SUBSET Places
    BY <1>2, PlaceFact DEF Steps, TypeInv
  <2>2. QED
    BY <1>1, <1>2, <2>1, GoesFact, TypeFact DEF TypeInv
<1>3. CASE UNCHANGED there /\ \E e \in {"OBS_PLUGIN_DRIFT", "OBS_RECOVERY_REQUIRED", "OBS_INSTALL_FAILED"} : End(e)
  <2>1. SameDisk
    BY <1>1, <1>3 DEF SameDisk
  <2>2. QED
    BY <1>1, <1>3, <2>1, StopsFact, ErrorsFact, TypeFact DEF TypeInv, SameDisk
<1>4. QED
  BY <1>2, <1>3 DEF Recheck, Right, Wrong

LEMMA SnapshotFact ==
    ASSUME IInv, Snapshot
    PROVE  /\ TypeInv' /\ Calm /\ tx.pc = "snapshot" /\ SameDisk
           /\ Goes("move") \/ Stops
<1> USE DEF IInv
<1>1. Calm /\ SameDisk /\ held' = held /\ tx.pc = "snapshot" /\ "move" \in Steps
  BY FaultFact DEF Snapshot, Right, Wrong, Calm, Quiet, disk, ghost, SameDisk, At, Steps
<1>2. CASE Go("move")
  BY <1>1, <1>2, GoesFact, TypeFact DEF TypeInv, SameDisk
<1>3. CASE End("OBS_PLUGIN_DRIFT")
  BY <1>1, <1>3, StopsFact, ErrorsFact, TypeFact DEF TypeInv, SameDisk
<1>4. QED
  BY <1>2, <1>3 DEF Snapshot

LEMMA CaptureFact ==
    ASSUME IInv, Capture
    PROVE  /\ TypeInv' /\ Quiet /\ tx.pc = "capture" /\ SameDisk
           /\ \/ \E v \in {1, 2} : /\ tx.legacy \/ v = Current
                                   /\ \A n \in OwnedSet(v) : Intact(home, n, v)
                                   /\ Captures(v, "remove", "quarantine")
              \/ Stops /\ touched' = touched
<1> USE DEF IInv
<1>1. Quiet /\ SameDisk /\ held' = held /\ tx.pc = "capture" /\ "quarantine" \in Steps
  BY FaultFact DEF Capture, Quiet, SameDisk, disk, At, Steps
<1> DEFINE v == VersionAt(tx.home)
<1>2. CASE v # 0 /\ (tx.legacy \/ v = Current)
  <2>1. Captured(v, "remove", "quarantine")
    BY <1>2 DEF Capture
  <2>2. v \in {1, 2} /\ v \in 0..2 /\ \A n \in OwnedSet(v) : Intact(home, n, v)
    BY <1>2, VersionFact DEF home
  <2> HIDE DEF v
  <2>3. QED
    BY <1>1, <1>2, <2>1, <2>2, CapturedFact
<1>3. CASE ~(v # 0 /\ (tx.legacy \/ v = Current))
  <2>1. End("OBS_RECEIPT_INVALID") /\ touched' = touched
    BY <1>3 DEF Capture
  <2>2. QED
    BY <1>1, <2>1, StopsFact, ErrorsFact, TypeFact DEF TypeInv, SameDisk, Calm
<1>4. QED
  BY <1>2, <1>3

LEMMA QuarantineFact ==
    ASSUME IInv, Quarantine
    PROVE  /\ TypeInv' /\ Calm /\ tx.pc = "quarantine" /\ at' = at
           /\ \/ side \notin there /\ there' = there \cup {side} /\ Goes("move")
              \/ Stops
<1> USE DEF IInv
<1>1. Calm /\ at' = at /\ locked' = locked /\ held' = held /\ tx.pc = "quarantine"
  BY FaultFact DEF Quarantine, Right, Wrong, Calm, Quiet, ghost, At
<1>2. CASE side \notin there /\ there' = there \cup {side} /\ Go("move")
  <2>1. "move" \in Steps /\ there' \in SUBSET Places
    BY <1>2, PlaceFact DEF Steps, TypeInv
  <2>2. QED
    BY <1>1, <1>2, <2>1, GoesFact, TypeFact DEF TypeInv
<1>3. CASE UNCHANGED there /\ \E e \in {"OBS_RECOVERY_REQUIRED", "unhandled OSError"} : End(e)
  <2>1. SameDisk
    BY <1>1, <1>3 DEF SameDisk
  <2>2. QED
    BY <1>1, <1>3, <2>1, StopsFact, ErrorsFact, TypeFact DEF TypeInv, SameDisk
<1>4. QED
  BY <1>2, <1>3 DEF Quarantine, Right, Wrong

\* The file that is published next.
LEMMA PublishingFact ==
    ASSUME IInv, Publishing, NEW n, n = Owned(Current)[tx.n + 1]
    PROVE  /\ tx.pc = "move" /\ tx.job = "replace" /\ tx.m = Len(Owned(tx.prev))
           /\ tx.n < Len(Owned(Current)) /\ tx.n + 1 \in Nat
           /\ n \in OwnedSet(Current) /\ n \in Names
<1> USE DEF IInv
<1>1. /\ tx.pc = "move" /\ tx.job = "replace" /\ tx.m = Len(Owned(tx.prev))
      /\ tx.n < Len(Owned(Current))
  BY DEF Publishing, At
<1>2. tx.n + 1 \in 1..Len(Owned(Current)) /\ tx.n + 1 \in Nat
  BY <1>1, OwnedFact, NumberFact, SMTT(30) DEF TypeInv, Memory
<1>3. QED
  BY <1>1, <1>2, OwnedFact, NumberFact

LEMMA CheckPlaceFact ==
    ASSUME IInv, CheckPlace
    PROVE  /\ TypeInv' /\ Calm /\ tx.pc = "move" /\ there' = there /\ at' = at
           /\ Publishing /\ tx.seen = "nothing"
           /\ \/ /\ Free(Owned(Current)[tx.n + 1])
                 /\ Goes("move") /\ tx'.seen = "fit" /\ locked' = locked
                 /\ tx'.own = tx.own /\ tx'.restored = tx.restored
              \/ Turns("OBS_PLUGIN_DRIFT") /\ SameAside /\ tx'.seen = "nothing"
<1> USE DEF IInv
<1> DEFINE n == Owned(Current)[tx.n + 1]
<1>1. /\ Calm /\ there' = there /\ locked' = locked /\ held' = held /\ at' = at
      /\ tx.pc = "move" /\ Publishing /\ tx.seen = "nothing"
  BY FaultFact DEF CheckPlace, Publishing, Right, Wrong, Calm, Quiet, ghost, disk, At
<1>2. CASE Free(n) /\ Saw("fit")
  <2>1. tx' \in Memory /\ Goes("move") /\ tx'.seen = "fit" /\ tx'.own = tx.own
        /\ tx'.restored = tx.restored
    BY <1>1, <1>2, SawFact DEF Looks
  <2>2. QED
    BY <1>1, <1>2, <2>1 DEF TypeInv, Calm, Quiet
<1>3. CASE Rollback("OBS_PLUGIN_DRIFT")
  BY <1>1, <1>3, FailsFact
<1>4. QED
  BY <1>2, <1>3 DEF CheckPlace, Right, Wrong

LEMMA PublishFact ==
    ASSUME IInv, Publish
    PROVE  /\ TypeInv' /\ Calm /\ tx.pc = "move" /\ tx.job = "replace" /\ there' = there
           /\ tx.m = Len(Owned(tx.prev)) /\ tx.n < Len(Owned(Current)) /\ tx.seen = "fit"
           /\ \/ \E n \in OwnedSet(Current) :
                   /\ n = Owned(Current)[tx.n + 1] /\ n \in Names /\ home \in there
                   /\ Wrote(home, n, Current, Staged)
                   /\ Goes("move") /\ tx'.seen = "placed" /\ locked' = locked
                   /\ tx'.own = tx.own /\ tx'.restored = tx.restored
              \/ /\ Turns("OBS_PLUGIN_DRIFT") /\ SameAside /\ at' = at /\ tx'.seen = "nothing"
<1> USE DEF IInv
<1> DEFINE n == Owned(Current)[tx.n + 1]
<1>1. /\ Calm /\ there' = there /\ locked' = locked /\ held' = held /\ Publishing
      /\ tx.seen = "fit" /\ home \in there
  BY FaultFact DEF Publish, Right, Wrong, Calm, Quiet, ghost, SeenInv, LookInv
<1>2. /\ tx.pc = "move" /\ tx.job = "replace" /\ tx.m = Len(Owned(tx.prev))
      /\ tx.n < Len(Owned(Current)) /\ n \in OwnedSet(Current) /\ n \in Names
  BY <1>1, PublishingFact
<1>3. CASE OnDisk(home, n, [ver |-> Current, gen |-> Staged]) /\ Saw("placed")
  <2>1. tx' \in Memory /\ Goes("move") /\ tx'.seen = "placed" /\ tx'.own = tx.own
        /\ tx'.restored = tx.restored
    BY <1>1, <1>2, <1>3, SawFact DEF Looks
  <2>2. [ver |-> Current, gen |-> Staged] \in Object /\ [ver |-> Current, gen |-> Staged] # NoFile
    BY FileFact, NumberFact
  <2>3. at' \in [Places -> Row] /\ Wrote(home, n, Current, Staged)
    <3>1. at' = [at EXCEPT ![home][n] = [ver |-> Current, gen |-> Staged]]
      BY <1>3 DEF OnDisk
    <3>2. home \in Places /\ [ver |-> Current, gen |-> Staged] \in Object \cup {NoFile}
      BY <2>2, PlaceFact
    <3> HIDE DEF n
    <3>3. /\ at' \in [Places -> Row] /\ at'[home][n] = [ver |-> Current, gen |-> Staged]
          /\ Others(home, n)
      BY <1>2, <3>1, <3>2, WriteFact
    <3>4. QED
      BY <2>2, <3>3 DEF Wrote
  <2>4. TypeInv'
    BY <1>1, <2>1, <2>3, TypeFact DEF TypeInv
  <2> HIDE DEF n
  <2>5. QED
    BY <1>1, <1>2, <2>1, <2>3, <2>4 DEF n
<1>4. CASE Rollback("OBS_PLUGIN_DRIFT") /\ UNCHANGED at
  BY <1>1, <1>2, <1>4, FailsFact
<1>5. QED
  BY <1>3, <1>4 DEF Publish, Right, Wrong

LEMMA RecordFact ==
    ASSUME IInv, Record
    PROVE  /\ TypeInv' /\ Calm /\ tx.pc = "move" /\ tx.job = "replace" /\ there' = there
           /\ at' = at /\ tx.seen = "placed" /\ tx'.seen = "nothing"
           /\ tx.m = Len(Owned(tx.prev)) /\ tx.n < Len(Owned(Current))
           /\ \/ \E n \in OwnedSet(Current) :
                   /\ n = Owned(Current)[tx.n + 1] /\ n \in Names
                   /\ tx'.own[n] = at[home][n]
                   /\ \A k \in Names : k # n => tx'.own[k] = tx.own[k]
                   /\ tx'.pc = "move" /\ tx'.m = tx.m /\ tx'.n = tx.n + 1
                   /\ Moved' = Moved /\ Waiting' = Waiting /\ tx'.restored = tx.restored
                   /\ SameFrame /\ SameAside /\ SameMood /\ tx'.guard = tx.guard
              \/ Turns("OBS_PLUGIN_DRIFT") /\ SameAside
<1> USE DEF IInv
<1> DEFINE n == Owned(Current)[tx.n + 1]
<1>1. /\ Calm /\ there' = there /\ locked' = locked /\ held' = held /\ Publishing
      /\ tx.seen = "placed" /\ at' = at
  BY FaultFact DEF Record, Right, Wrong, Calm, Quiet, ghost, disk
<1>2. /\ tx.pc = "move" /\ tx.job = "replace" /\ tx.m = Len(Owned(tx.prev))
      /\ tx.n < Len(Owned(Current)) /\ n \in OwnedSet(Current) /\ n \in Names /\ tx.n + 1 \in Nat
  BY <1>1, PublishingFact
<1>3. CASE tx' = [tx EXCEPT !.n = @ + 1, !.seen = "nothing", !.own[n] = at[home][n]]
  <2>1. /\ tx.own \in Row /\ at[home][n] \in Object \cup {NoFile} /\ "nothing" \in Looks
    BY <1>2, PlaceFact DEF TypeInv, Memory, Row, Looks
  <2>2. [tx.own EXCEPT ![n] = at[home][n]] \in Row
    BY <2>1 DEF Row
  <2>3. tx' = [tx EXCEPT !.n = tx.n + 1, !.seen = "nothing",
                         !.own = [tx.own EXCEPT ![n] = at[home][n]]]
    BY <1>3
  <2> HIDE DEF n
  <2>4. tx' \in Memory
    BY <1>2, <2>1, <2>2, <2>3 DEF TypeInv, Memory
  <2>5. /\ tx'.n = tx.n + 1 /\ tx'.own = [tx.own EXCEPT ![n] = at[home][n]]
        /\ tx'.seen = "nothing"
        /\ \A f \in DOMAIN tx \ {"n", "own", "seen"} : tx'[f] = tx[f]
    BY <2>3, DomainFact
  <2>6. /\ tx'.own[n] = at[home][n]
        /\ \A k \in Names : k # n => tx'.own[k] = tx.own[k]
    BY <1>2, <2>1, <2>5 DEF Row
  <2>7. /\ tx'.pc = "move" /\ tx'.m = tx.m /\ tx'.restored = tx.restored
        /\ Moved' = Moved /\ Waiting' = Waiting
        /\ SameFrame /\ SameAside /\ SameMood /\ tx'.guard = tx.guard
    BY <1>1, <1>2, <2>5, DomainFact
       DEF SameFrame, SameTask, SamePlan, SameAside, SameMood, SameReport, home, side, Home,
           Moved, Waiting
  <2>8. TypeInv'
    BY <1>1, <2>4 DEF TypeInv, Calm, Quiet
  <2>9. QED
    BY <1>1, <1>2, <2>5, <2>6, <2>7, <2>8 DEF n
<1>4. CASE Rollback("OBS_PLUGIN_DRIFT")
  BY <1>1, <1>2, <1>4, FailsFact
<1>5. QED
  BY <1>3, <1>4 DEF Record, Right, Wrong

LEMMA SettleFact ==
    ASSUME IInv, Settle
    PROVE  /\ TypeInv' /\ Calm /\ tx.pc = "move" /\ tx.job = "replace" /\ SameDisk
           /\ tx.n = Len(Owned(Current))
           /\ \/ /\ tx'.pc = "retire" /\ SameFrame /\ SameCounts /\ SameAside /\ SameMood
                 /\ tx'.guard.ver = Current
                 /\ \A n \in OwnedSet(Current) :
                      /\ Intact(home, n, Current)
                      /\ tx'.guard.id[n] = at[home][n] /\ at[home][n] = tx.own[n]
              \/ Turns("OBS_PLUGIN_DRIFT") /\ SameAside
<1> USE DEF IInv
<1> DEFINE now == Identity(tx.home, Current)
<1> DEFINE ok == VersionAt(tx.home) = Current /\ \A n \in OwnedSet(Current) : now[n] = tx.own[n]
<1>1. /\ Calm /\ SameDisk /\ held' = held /\ tx.pc = "move" /\ tx.job = "replace"
      /\ tx.n = Len(Owned(Current)) /\ locked' = locked
  BY FaultFact DEF Settle, Right, Wrong, Calm, Quiet, ghost, disk, SameDisk, At
<1>2. CASE ok /\ tx' = [tx EXCEPT !.pc = "retire", !.guard = [ver |-> Current, id |-> now]]
  <2>1. tx' = [tx EXCEPT !.pc = "retire", !.guard = [ver |-> Current, id |-> now]]
    BY <1>2
  <2>2. [ver |-> Current, id |-> now] \in [ver : 0..2, id : Row] /\ "retire" \in Steps
    BY IdentityFact, NumberFact DEF TypeInv, Memory, Steps
  <2>3. /\ \A n \in OwnedSet(Current) : now[n] = at[home][n] /\ at[home][n] = tx.own[n]
        /\ \A n \in OwnedSet(Current) : Intact(home, n, Current)
    <3>1. OwnedSet(Current) \subseteq Names
      BY OwnedFact, NumberFact
    <3>2. \A n \in OwnedSet(Current) : now[n] = at[home][n]
      BY <3>1, IdentityFact DEF TypeInv, Memory, home
    <3>3. \A n \in OwnedSet(Current) : Intact(home, n, Current)
      BY <1>2, VersionFact, NumberFact DEF home
    <3>4. QED
      BY <1>2, <3>2, <3>3
  <2> HIDE DEF now
  <2>4. /\ tx' \in Memory /\ tx'.pc = "retire" /\ SameFrame /\ SameCounts /\ SameAside /\ SameMood
        /\ tx'.guard.ver = Current /\ tx'.guard.id = now
    <3>1. tx' \in Memory
      BY <2>1, <2>2 DEF TypeInv, Memory
    <3>2. /\ tx'.pc = "retire" /\ tx'.guard.ver = Current /\ tx'.guard.id = now
          /\ \A f \in DOMAIN tx \ {"pc", "guard"} : tx'[f] = tx[f]
      BY <2>1, <2>2, DomainFact
    <3>3. QED
      BY <3>1, <3>2, <2>1, <2>2, <1>1, DomainFact
         DEF Calm, Goes, Stops, Turns, GivesUp, SameFrame, SameTask, SamePlan, SameCounts, SameAside, SameMood, SameReport, home, side, Home, Moved, Waiting
  <2>5. QED
    BY <1>1, <2>3, <2>4, TypeFact DEF TypeInv, SameDisk
<1>3. CASE Rollback("OBS_PLUGIN_DRIFT")
  BY <1>1, <1>3, RollbackFact, ErrorsFact, TypeFact DEF TypeInv, SameDisk
<1>4. QED
  BY <1>2, <1>3 DEF Settle, Right, Wrong

LEMMA EmptyFact ==
    ASSUME IInv, Empty
    PROVE  /\ TypeInv' /\ Calm /\ tx.pc = "move" /\ tx.job = "remove" /\ at' = at
           /\ tx.m = Len(Owned(tx.prev)) /\ Goes("retire")
           /\ there' = there \/ (there' = there \ {home} /\ at[home] = Nothing)
<1> USE DEF IInv
<1>1. /\ Calm /\ at' = at /\ held' = held /\ tx.pc = "move" /\ tx.job = "remove"
      /\ locked' = locked /\ tx.m = Len(Owned(tx.prev)) /\ Go("retire") /\ "retire" \in Steps
      /\ there' = there \/ (there' = there \ {home} /\ at[home] = Nothing)
  BY FaultFact DEF Empty, Calm, Quiet, ghost, At, Steps
<1>2. there' \in SUBSET Places
  BY <1>1 DEF TypeInv
<1>3. QED
  BY <1>1, <1>2, GoesFact, TypeFact DEF TypeInv

\* The way back goes on, but not all of it worked.
Spoils(pc) == /\ tx'.pc = pc /\ tx'.unclean /\ tx'.back = tx.back /\ tx'.err = tx.err
              /\ SameFrame /\ SameCounts /\ SameAside /\ tx'.guard = tx.guard
\* The transaction is over, the command is not.
Leaves(pc) == /\ tx'.pc = pc /\ tx'.job = "none" /\ tx'.prev = tx.prev
              /\ tx'.bundle = tx.bundle /\ SameTask /\ SameCounts /\ SameAside /\ SameMood
              /\ SameReport /\ tx'.guard = tx.guard
\* An exception while the recovery directory goes.
Fails(err) == (tx.back /\ GivesUp) \/ (~tx.back /\ Turns(err))

LEMMA LeavesFact ==
    ASSUME TypeInv, NEW pc \in Steps, tx' = [tx EXCEPT !.pc = pc, !.job = "none"]
    PROVE  tx' \in Memory /\ Leaves(pc)
<1>1. tx' \in Memory
  BY DEF TypeInv, Memory
<1>2. /\ tx'.pc = pc /\ tx'.job = "none"
      /\ \A f \in DOMAIN tx \ {"pc", "job"} : tx'[f] = tx[f]
  BY DomainFact
<1>3. QED
  BY <1>1, <1>2, DomainFact
     DEF Leaves, SameTask, SameCounts, SameAside, SameMood, SameReport, home, Home, Moved, Waiting

LEMMA SpoilsFact ==
    ASSUME TypeInv, NEW pc \in Steps, tx' = [tx EXCEPT !.pc = pc, !.unclean = TRUE],
           locked' = locked
    PROVE  tx' \in Memory /\ Spoils(pc)
<1>1. tx' \in Memory
  BY DEF TypeInv, Memory
<1>2. /\ tx'.pc = pc /\ tx'.unclean
      /\ \A f \in DOMAIN tx \ {"pc", "unclean"} : tx'[f] = tx[f]
  BY DomainFact
<1>3. QED
  BY <1>1, <1>2, DomainFact
     DEF Spoils, SameFrame, SameTask, SamePlan, SameCounts, SameAside, SameReport, home, side, Home,
         Moved, Waiting

LEMMA BrokenFact ==
    ASSUME TypeInv, NEW t \in Memory, NEW err \in Errors, tx' = Broken(t, err), locked' = locked,
           \A f \in DOMAIN tx \ {"kept", "root"} : t[f] = tx[f]
    PROVE  /\ tx' \in Memory /\ Fails(err)
           /\ tx'.kept = t.kept /\ tx'.orig = tx.orig /\ tx'.root = t.root
<1>1. DOMAIN t = DOMAIN tx
  BY DEF TypeInv, Memory
<1>2. "done" \in Steps /\ "rollback" \in Steps /\ "OBS_RECOVERY_REQUIRED" \in Errors
  BY ErrorsFact DEF Steps
<1>3. t.back = tx.back
  BY DomainFact
<1>4. CASE tx.back
  <2>1. tx' = [t EXCEPT !.pc = "done", !.err = "OBS_RECOVERY_REQUIRED", !.unclean = TRUE]
    BY <1>3, <1>4 DEF Broken
  <2>2. tx' \in Memory
    BY <1>2, <2>1, ZenonT(40) DEF Memory
  <2>3. /\ tx'.pc = "done" /\ tx'.err = "OBS_RECOVERY_REQUIRED" /\ tx'.unclean
        /\ tx'.kept = t.kept /\ tx'.root = t.root
        /\ \A f \in DOMAIN tx \ {"pc", "err", "unclean", "kept", "root"} : tx'[f] = tx[f]
    BY <1>1, <2>1, DomainFact
  <2>4. QED
    BY <1>4, <2>2, <2>3, DomainFact
       DEF Fails, GivesUp, SameFrame, SameTask, SamePlan, SameCounts, SameReport, home, side, Home,
           Moved, Waiting
<1>5. CASE ~tx.back
  <2> DEFINE started == t.m + t.n > 0
  <2>1. tx' = [t EXCEPT !.pc = "rollback", !.err = err, !.back = TRUE, !.started = started]
    BY <1>3, <1>5 DEF Broken
  <2>2. started \in BOOLEAN
    OBVIOUS
  <2> HIDE DEF started
  <2>3. tx' \in Memory
    <3> DEFINE u == [t EXCEPT !.pc = "rollback", !.err = err]
    <3>1. u \in Memory
      BY <1>2 DEF Memory
    <3>2. tx' = [u EXCEPT !.back = TRUE, !.started = started]
      BY <2>1 DEF Memory
    <3> HIDE DEF u
    <3>3. QED
      BY <2>2, <3>1, <3>2, ZenonT(40) DEF Memory
  <2>4. /\ tx'.pc = "rollback" /\ tx'.err = err /\ tx'.back
        /\ tx'.kept = t.kept /\ tx'.root = t.root
        /\ \A f \in DOMAIN tx \ {"pc", "err", "back", "started", "kept", "root"} : tx'[f] = tx[f]
    BY <1>1, <2>1, DomainFact
  <2>5. QED
    BY <1>5, <2>3, <2>4, DomainFact
       DEF Fails, Turns, SameFrame, SameTask, SamePlan, SameCounts, SameReport, home, side, Home,
           Moved, Waiting
<1>6. QED
  BY <1>4, <1>5

LEMMA RetireStartFact ==
    ASSUME IInv, RetireStart
    PROVE  /\ TypeInv' /\ Calm /\ tx.pc = "retire" /\ SameDisk
           /\ \/ /\ \A n \in Names : tx.kept[n] # NoFile => at[side][n] = tx.kept[n]
                 /\ tx'.pc = "retiring" /\ tx'.orig = tx.kept /\ tx'.kept = tx.kept
                 /\ tx'.root = tx.root /\ SameFrame /\ SameCounts /\ SameMood
                 /\ tx'.guard = tx.guard
              \/ Fails("OBS_PLUGIN_DRIFT") /\ SameAside
<1> USE DEF IInv
<1>1. Calm /\ SameDisk /\ held' = held /\ tx.pc = "retire" /\ locked' = locked
  BY FaultFact DEF RetireStart, Right, Wrong, Calm, Quiet, disk, ghost, SameDisk, At
<1>2. CASE /\ \A n \in Names : tx.kept[n] # NoFile => at[side][n] = tx.kept[n]
           /\ tx' = [tx EXCEPT !.pc = "retiring", !.orig = tx.kept]
  <2>1. "retiring" \in Steps
    BY DEF Steps
  <2>2. tx' \in Memory
    BY <1>2, <2>1 DEF TypeInv, Memory
  <2>3. /\ tx'.pc = "retiring" /\ tx'.orig = tx.kept
        /\ \A f \in DOMAIN tx \ {"pc", "orig"} : tx'[f] = tx[f]
    BY <1>2, DomainFact
  <2>4. /\ tx'.kept = tx.kept /\ tx'.root = tx.root /\ SameFrame /\ SameCounts /\ SameMood
        /\ tx'.guard = tx.guard
    BY <1>1, <2>3, DomainFact
       DEF SameFrame, SameTask, SamePlan, SameCounts, SameMood, SameReport, home, side, Home,
           Moved, Waiting
  <2>5. QED
    BY <1>1, <1>2, <2>2, <2>3, <2>4, TypeFact DEF TypeInv, SameDisk
<1>3. CASE tx' = Broken(tx, "OBS_PLUGIN_DRIFT")
  <2>1. tx \in Memory /\ tx' = Broken(tx, "OBS_PLUGIN_DRIFT")
    BY <1>3 DEF TypeInv
  <2>2. /\ tx' \in Memory /\ Fails("OBS_PLUGIN_DRIFT")
        /\ tx'.kept = tx.kept /\ tx'.orig = tx.orig /\ tx'.root = tx.root
    BY <1>1, <2>1, BrokenFact, ErrorsFact
  <2>3. QED
    BY <1>1, <2>2, TypeFact DEF TypeInv, SameDisk, SameAside
<1>4. QED
  BY <1>2, <1>3 DEF RetireStart, Right, Wrong

LEMMA RetireFileFact ==
    ASSUME IInv, NEW n \in Names, RetireFile(n)
    PROVE  /\ TypeInv' /\ Calm /\ tx.pc = "retiring" /\ there' = there
           /\ PublishedCurrent /\ side \in there /\ at[side] = tx.kept /\ tx.kept[n] # NoFile
           /\ Cleared(side, n)
           /\ tx'.pc = "retiring" /\ tx'.kept[n] = NoFile
           /\ \A k \in Names : k # n => tx'.kept[k] = tx.kept[k]
           /\ tx'.orig = tx.orig /\ tx'.root = tx.root
           /\ SameFrame /\ SameCounts /\ SameMood /\ tx'.guard = tx.guard
<1> USE DEF IInv
<1>1. /\ Calm /\ there' = there /\ locked' = locked /\ held' = held /\ tx.pc = "retiring"
      /\ PublishedCurrent /\ side \in there /\ at[side] = tx.kept /\ tx.kept[n] # NoFile
  BY FaultFact DEF RetireFile, Right, Calm, Quiet, ghost, At, RetireOk, RecoveryExact
<1>2. at' \in [Places -> Row] /\ Cleared(side, n)
  <2>1. at' = [at EXCEPT ![side][n] = NoFile] /\ side \in Places
    BY PlaceFact DEF RetireFile, OnDisk
  <2>2. QED
    BY <2>1, WriteFact DEF Cleared
<1>3. tx' = [tx EXCEPT !.kept = [tx.kept EXCEPT ![n] = NoFile]]
  BY DEF RetireFile
<1>4. tx.kept \in Row /\ [tx.kept EXCEPT ![n] = NoFile] \in Row
  BY DEF TypeInv, Memory, Row
<1>5. tx' \in Memory
  BY <1>3, <1>4 DEF TypeInv, Memory
<1>6. /\ tx'.kept = [tx.kept EXCEPT ![n] = NoFile]
      /\ \A f \in DOMAIN tx \ {"kept"} : tx'[f] = tx[f]
  BY <1>3, DomainFact
<1>7. tx'.kept[n] = NoFile /\ \A k \in Names : k # n => tx'.kept[k] = tx.kept[k]
  BY <1>4, <1>6 DEF Row
<1>8. /\ tx'.pc = "retiring" /\ tx'.orig = tx.orig /\ tx'.root = tx.root
      /\ SameFrame /\ SameCounts /\ SameMood /\ tx'.guard = tx.guard
  BY <1>1, <1>6, DomainFact
     DEF SameFrame, SameTask, SamePlan, SameCounts, SameMood, SameReport, home, side, Home, Moved,
         Waiting
<1>9. QED
  BY <1>1, <1>2, <1>5, <1>7, <1>8, TypeFact DEF TypeInv

LEMMA RetireDirectoryFact ==
    ASSUME IInv, RetireDirectory
    PROVE  /\ TypeInv' /\ Calm /\ tx.pc = "retiring" /\ at' = at
           /\ PublishedCurrent /\ side \in there /\ at[side] = Nothing /\ tx.kept = Nothing
           /\ there' = there \ {side} /\ Goes("retired")
<1> USE DEF IInv
<1>1. /\ Calm /\ at' = at /\ locked' = locked /\ held' = held /\ tx.pc = "retiring"
      /\ PublishedCurrent /\ side \in there /\ at[side] = Nothing /\ tx.kept = Nothing
      /\ there' = there \ {side} /\ Go("retired") /\ "retired" \in Steps
  BY FaultFact DEF RetireDirectory, Right, Calm, Quiet, ghost, At, RetireOk, RecoveryExact, Steps
<1>2. QED
  BY <1>1, GoesFact, TypeFact DEF TypeInv

LEMMA RetiredFact ==
    ASSUME IInv, Retired
    PROVE  /\ TypeInv' /\ Calm /\ tx.pc = "retired" /\ SameDisk /\ PublishedCurrent
           /\ \/ /\ tx.back /\ tx'.pc = "done" /\ SameFrame /\ SameCounts /\ SameAside
                 /\ tx'.guard = tx.guard /\ tx'.back /\ tx'.unclean = tx.unclean
                 /\ tx'.err = IF tx.unclean THEN "OBS_RECOVERY_REQUIRED" ELSE tx.err
              \/ ~tx.back /\ tx.job = "replace" /\ Goes("final")
              \/ ~tx.back /\ tx.job # "replace" /\ tx.legacy /\ Leaves("commit")
              \/ ~tx.back /\ tx.job # "replace" /\ ~tx.legacy /\ Goes("done")
<1> USE DEF IInv
<1>1. /\ Calm /\ SameDisk /\ held' = held /\ tx.pc = "retired" /\ PublishedCurrent
      /\ locked' = locked
  BY FaultFact DEF Retired, Right, Calm, Quiet, disk, ghost, SameDisk, At, RetireOk
<1>2. CASE tx.back
  <2> DEFINE err == IF tx.unclean THEN "OBS_RECOVERY_REQUIRED" ELSE tx.err
  <2>1. tx' = [tx EXCEPT !.pc = "done", !.err = err]
    BY <1>2 DEF Retired
  <2>2. err \in Errors /\ "done" \in Steps
    BY ErrorsFact DEF TypeInv, Memory, Steps
  <2>3. err = IF tx.unclean THEN "OBS_RECOVERY_REQUIRED" ELSE tx.err
    OBVIOUS
  <2> HIDE DEF err
  <2>4. tx' \in Memory
    BY <2>1, <2>2 DEF TypeInv, Memory
  <2>5. /\ tx'.pc = "done" /\ tx'.err = err
        /\ \A f \in DOMAIN tx \ {"pc", "err"} : tx'[f] = tx[f]
    BY <2>1, DomainFact
  <2>6. /\ SameFrame /\ SameCounts /\ SameAside
        /\ tx'.guard = tx.guard /\ tx'.back /\ tx'.unclean = tx.unclean
    BY <1>1, <1>2, <2>5, DomainFact
       DEF SameFrame, SameTask, SamePlan, SameCounts, SameAside, SameReport, home, side, Home,
           Moved, Waiting
  <2>7. QED
    BY <1>1, <1>2, <2>3, <2>4, <2>5, <2>6, TypeFact DEF TypeInv, SameDisk
<1>3. CASE ~tx.back /\ tx.job = "replace"
  <2>1. Go("final") /\ "final" \in Steps
    BY <1>3 DEF Retired, Go, Steps
  <2>2. QED
    BY <1>1, <1>3, <2>1, GoesFact, TypeFact DEF TypeInv, SameDisk
<1>4. CASE ~tx.back /\ tx.job # "replace" /\ tx.legacy
  <2>1. tx' = [tx EXCEPT !.pc = "commit", !.job = "none"]
    BY <1>4 DEF Retired
  <2>2. tx' \in Memory /\ Leaves("commit")
    BY <1>1, <2>1, LeavesFact DEF Steps
  <2>3. QED
    BY <1>1, <1>4, <2>2, TypeFact DEF TypeInv, SameDisk
<1>5. CASE ~tx.back /\ tx.job # "replace" /\ ~tx.legacy
  <2>1. Go("done") /\ "done" \in Steps
    BY <1>5 DEF Retired, Go, Steps
  <2>2. QED
    BY <1>1, <1>5, <2>1, GoesFact, TypeFact DEF TypeInv, SameDisk
<1>6. QED
  BY <1>2, <1>3, <1>4, <1>5

\* restore_complete: what it makes of the recovery directory.
LEMMA RetireBreaksFact ==
    ASSUME IInv, RetireBreaks
    PROVE  /\ TypeInv' /\ Calm /\ tx.pc \in {"retiring", "retired"}
           /\ there' = (IF tx.root THEN there \cup {side} ELSE there)
           /\ \A q \in Places : q # side => at'[q] = at[q]
           /\ \A n \in Names : \/ at'[side][n] = at[side][n]
                               \/ /\ tx.orig[n] # NoFile /\ at'[side][n] # NoFile
                                  /\ at'[side][n].ver = tx.orig[n].ver
                                  /\ at'[side][n].gen = Copied
           /\ tx'.orig = tx.orig /\ tx'.root = tx.root
           /\ \/ Fails("OBS_RECOVERY_REQUIRED") /\ tx'.kept = tx.kept
              \/ /\ Fails("OBS_PLUGIN_DRIFT")
                 /\ \A n \in Names :
                      IF tx.orig[n] # NoFile
                      THEN /\ at'[side][n] # NoFile /\ at'[side][n].ver = tx.orig[n].ver
                           /\ tx'.kept[n] = at'[side][n]
                      ELSE tx'.kept[n] = NoFile
<1> USE DEF IInv
<1> DEFINE blocked == \E n \in Names : tx.orig[n] # NoFile /\ at[side][n] \notin {NoFile, tx.orig[n]}
<1> DEFINE whole == [n \in Names |-> IF tx.orig[n] # NoFile /\ at[side][n] = NoFile
                                     THEN CopyOf(tx.orig[n].ver)
                                     ELSE at[side][n]]
<1>1. /\ Calm /\ locked' = locked /\ held' = held /\ tx.pc \in {"retiring", "retired"}
      /\ there' = (IF tx.root THEN there \cup {side} ELSE there)
  BY FaultFact DEF RetireBreaks, Wrong, Calm, Quiet, ghost
<1>2. PICK rebuilt \in (IF blocked THEN {whole, at[side]} ELSE {whole}) :
        /\ at' = [at EXCEPT ![side] = rebuilt]
        /\ tx' = Broken([tx EXCEPT !.kept = IF blocked THEN tx.kept ELSE
                           [n \in Names |-> IF tx.orig[n] # NoFile THEN rebuilt[n] ELSE NoFile]],
                        IF blocked THEN "OBS_RECOVERY_REQUIRED" ELSE "OBS_PLUGIN_DRIFT")
  BY DEF RetireBreaks
<1>3. tx.orig \in Row /\ at[side] \in Row /\ tx.kept \in Row
  BY PlaceFact DEF TypeInv, Memory
<1>4. ASSUME NEW n \in Names, tx.orig[n] # NoFile
      PROVE  /\ CopyOf(tx.orig[n].ver) \in Object /\ CopyOf(tx.orig[n].ver) # NoFile
             /\ CopyOf(tx.orig[n].ver).ver = tx.orig[n].ver /\ CopyOf(tx.orig[n].ver).gen = Copied
  <2>1. tx.orig[n] \in Object
    BY <1>3, <1>4 DEF Row
  <2>2. tx.orig[n].ver \in Int /\ Copied \in Int
    BY <2>1, FileFact, NumberFact
  <2>3. QED
    BY <2>2, FileFact DEF CopyOf
<1>5. /\ whole \in Row
      /\ \A n \in Names : IF tx.orig[n] # NoFile /\ at[side][n] = NoFile
                          THEN whole[n] = CopyOf(tx.orig[n].ver) ELSE whole[n] = at[side][n]
  BY <1>3, <1>4 DEF Row
<1> HIDE DEF whole
<1>6. rebuilt \in Row /\ (rebuilt = whole \/ rebuilt = at[side])
  BY <1>3, <1>5
<1>7. at' \in [Places -> Row] /\ at'[side] = rebuilt /\ \A q \in Places : q # side => at'[q] = at[q]
  BY <1>2, <1>6, PlaceFact DEF TypeInv
<1>8. there' \in SUBSET Places
  BY <1>1, PlaceFact DEF TypeInv
<1>9. \A n \in Names : \/ at'[side][n] = at[side][n]
                       \/ /\ tx.orig[n] # NoFile /\ at'[side][n] # NoFile
                          /\ at'[side][n].ver = tx.orig[n].ver
                          /\ at'[side][n].gen = Copied
  BY <1>4, <1>5, <1>6, <1>7
<1>10. CASE blocked
  <2>1. [tx EXCEPT !.kept = tx.kept] = tx
    BY DEF TypeInv, Memory
  <2>2. tx' = Broken(tx, "OBS_RECOVERY_REQUIRED") /\ tx \in Memory
    BY <1>2, <1>10, <2>1 DEF TypeInv
  <2>3. /\ tx' \in Memory /\ Fails("OBS_RECOVERY_REQUIRED")
        /\ tx'.kept = tx.kept /\ tx'.orig = tx.orig /\ tx'.root = tx.root
    BY <1>1, <2>2, BrokenFact, ErrorsFact
  <2>4. QED
    BY <1>1, <1>7, <1>8, <1>9, <2>3, TypeFact DEF TypeInv
<1>11. CASE ~blocked
  <2> DEFINE kept == [n \in Names |-> IF tx.orig[n] # NoFile THEN rebuilt[n] ELSE NoFile]
  <2> DEFINE t == [tx EXCEPT !.kept = kept]
  <2>1. /\ kept \in Row
        /\ \A n \in Names : kept[n] = IF tx.orig[n] # NoFile THEN rebuilt[n] ELSE NoFile
    BY <1>6 DEF Row
  <2>2. tx' = Broken(t, "OBS_PLUGIN_DRIFT") /\ rebuilt = whole
    BY <1>2, <1>11
  <2> HIDE DEF kept
  <2>3. /\ t \in Memory /\ t.kept = kept /\ t.root = tx.root
        /\ \A f \in DOMAIN tx \ {"kept", "root"} : t[f] = tx[f]
    BY <2>1, DomainFact DEF TypeInv, Memory
  <2> HIDE DEF t
  <2>4. /\ tx' \in Memory /\ Fails("OBS_PLUGIN_DRIFT")
        /\ tx'.kept = kept /\ tx'.orig = tx.orig /\ tx'.root = tx.root
    BY <1>1, <2>2, <2>3, BrokenFact, ErrorsFact
  <2>5. ASSUME NEW n \in Names, tx.orig[n] # NoFile
        PROVE  at'[side][n] # NoFile /\ at'[side][n].ver = tx.orig[n].ver
    <3>1. CASE at[side][n] = NoFile
      BY <1>4, <1>5, <1>7, <2>2, <2>5, <3>1
    <3>2. CASE at[side][n] # NoFile
      <4>1. at[side][n] = tx.orig[n]
        BY <1>11, <2>5, <3>2
      <4>2. QED
        BY <1>5, <1>7, <2>2, <2>5, <3>2, <4>1
    <3>3. QED
      BY <3>1, <3>2
  <2>6. \A n \in Names : IF tx.orig[n] # NoFile THEN tx'.kept[n] = at'[side][n]
                                               ELSE tx'.kept[n] = NoFile
    BY <1>7, <2>1, <2>4
  <2> HIDE DEF blocked
  <2>7. QED
    BY <1>1, <1>7, <1>8, <1>9, <2>4, <2>5, <2>6, TypeFact DEF TypeInv
<1>12. QED
  BY <1>10, <1>11

LEMMA FinalFact ==
    ASSUME IInv, Final
    PROVE  /\ TypeInv' /\ Calm /\ tx.pc = "final" /\ SameDisk
           /\ \/ PublishedCurrent /\ Leaves("verify")
              \/ /\ Turns("OBS_PLUGIN_DRIFT") /\ ~tx'.root
                 /\ tx'.kept = tx.kept /\ tx'.orig = tx.orig
<1> USE DEF IInv
<1>1. /\ Calm /\ SameDisk /\ held' = held /\ tx.pc = "final" /\ locked' = locked
      /\ ~tx.back /\ "verify" \in Steps
  BY FaultFact
     DEF Final, Right, Wrong, Calm, Quiet, disk, ghost, SameDisk, At, ProgressInv, Retiring,
         Undoing, Over, Steps
<1>2. CASE PublishedCurrent /\ tx' = [tx EXCEPT !.pc = "verify", !.job = "none"]
  BY <1>1, <1>2, LeavesFact, TypeFact DEF TypeInv, SameDisk
<1>3. CASE tx' = Broken([tx EXCEPT !.root = FALSE], "OBS_PLUGIN_DRIFT")
  <2> DEFINE t == [tx EXCEPT !.root = FALSE]
  <2>1. /\ t \in Memory /\ t.kept = tx.kept /\ t.root = FALSE
        /\ \A f \in DOMAIN tx \ {"kept", "root"} : t[f] = tx[f]
    BY DomainFact DEF TypeInv, Memory
  <2>2. tx' = Broken(t, "OBS_PLUGIN_DRIFT")
    BY <1>3
  <2> HIDE DEF t
  <2>3. /\ tx' \in Memory /\ Fails("OBS_PLUGIN_DRIFT")
        /\ tx'.kept = tx.kept /\ tx'.orig = tx.orig /\ ~tx'.root
    BY <1>1, <2>1, <2>2, BrokenFact, ErrorsFact
  <2>4. QED
    BY <1>1, <2>3, TypeFact DEF TypeInv, SameDisk, Fails
<1>4. QED
  BY <1>2, <1>3 DEF Final, Right, Wrong

LEMMA StartRollbackFact ==
    ASSUME IInv, StartRollback
    PROVE  /\ TypeInv' /\ Calm /\ tx.pc = "rollback" /\ at' = at
           /\ \/ tx.job = "remove" /\ there' = there \cup {home} /\ Goes("restore")
              \/ tx.job = "remove" /\ there' = there /\ Spoils("restore")
              \/ /\ tx.job = "replace" /\ there' = there /\ Spoils("retire")
                 /\ tx.guard.ver # 0
                 /\ ~SameObjects(Identity(tx.home, tx.guard.ver), tx.guard.id, OwnedSet(tx.guard.ver))
              \/ tx.job = "replace" /\ there' = there /\ Goes("unpublish")
<1> USE DEF IInv
<1>1. /\ Calm /\ at' = at /\ locked' = locked /\ held' = held /\ tx.pc = "rollback"
      /\ tx.job \in {"replace", "remove"}
      /\ "restore" \in Steps /\ "retire" \in Steps /\ "unpublish" \in Steps
  BY FaultFact DEF StartRollback, Right, Calm, Quiet, ghost, At, CommandInv, Aside, Undoing, Steps,
     TypeInv, Memory
<1>2. CASE tx.job = "remove" /\ there' = there \cup {home} /\ Go("restore")
  <2>1. there' \in SUBSET Places
    BY <1>2, PlaceFact DEF TypeInv
  <2>2. QED
    BY <1>1, <1>2, <2>1, GoesFact, TypeFact DEF TypeInv
<1>3. CASE /\ tx.job = "remove" /\ there' = there
           /\ tx' = [tx EXCEPT !.pc = "restore", !.unclean = TRUE]
  BY <1>1, <1>3, SpoilsFact, TypeFact DEF TypeInv
<1>4. CASE tx.job = "replace"
  <2>1. there' = there
    BY <1>4 DEF StartRollback
  <2>2. CASE /\ tx.guard.ver # 0
             /\ ~SameObjects(Identity(tx.home, tx.guard.ver), tx.guard.id, OwnedSet(tx.guard.ver))
    <3>1. tx' = [tx EXCEPT !.pc = "retire", !.unclean = TRUE]
      BY <1>4, <2>2 DEF StartRollback
    <3>2. QED
      BY <1>1, <1>4, <2>1, <2>2, <3>1, SpoilsFact, TypeFact DEF TypeInv
  <2>3. CASE ~(/\ tx.guard.ver # 0
               /\ ~SameObjects(Identity(tx.home, tx.guard.ver), tx.guard.id, OwnedSet(tx.guard.ver)))
    <3>1. Go("unpublish")
      BY <1>4, <2>3 DEF StartRollback
    <3>2. QED
      BY <1>1, <1>4, <2>1, <3>1, GoesFact, TypeFact DEF TypeInv
  <2>4. QED
    BY <2>2, <2>3
<1>5. QED
  BY <1>1, <1>2, <1>3, <1>4 DEF StartRollback, Right

\* The way back goes on with the published file before, or with the one moved before.
Passes == /\ tx'.pc = "unpublish" /\ tx'.n = tx.n - 1 /\ tx'.m = tx.m
          /\ Moved' = Moved /\ Waiting' = Waiting
          /\ SameFrame /\ SameAside /\ tx'.guard = tx.guard
          /\ tx'.back = tx.back /\ tx'.err = tx.err
          /\ tx'.seen = "nothing" /\ tx'.own = tx.own /\ tx'.restored = tx.restored
Skips  == /\ tx'.pc = "restore" /\ tx'.m = tx.m - 1 /\ tx'.n = tx.n
          /\ SameFrame /\ SameAside /\ tx'.guard = tx.guard
          /\ tx'.back = tx.back /\ tx'.err = tx.err /\ tx'.unclean
          /\ tx'.seen = "nothing" /\ tx'.own = tx.own /\ tx'.restored = tx.restored
          /\ \E n \in Names :
               n \in Moved /\ Moved' = Moved \ {n} /\ Waiting' = Waiting \cup {n}

LEMMA RemovingFact ==
    ASSUME IInv, tx.pc = "unpublish", tx.n > 0, NEW n, n = Owned(Current)[tx.n]
    PROVE  n \in OwnedSet(Current) /\ n \in Names /\ tx.n - 1 \in Nat
<1> USE DEF IInv
<1>1. tx.n \in Nat /\ tx.n <= Len(Owned(Current))
  BY DEF CommandInv, ProgressInv, TypeInv, Memory
<1>2. tx.n \in 1..Len(Owned(Current)) /\ tx.n - 1 \in Nat
  BY <1>1, OwnedFact, NumberFact
<1>3. QED
  BY <1>2, OwnedFact, NumberFact

LEMMA NotRemovedFact ==
    ASSUME IInv, tx.pc = "unpublish", tx.n > 0, NotRemoved, locked' = locked
    PROVE  tx' \in Memory /\ Passes /\ tx'.unclean
<1> USE DEF IInv
<1>1. tx' = [tx EXCEPT !.n = tx.n - 1, !.seen = "nothing", !.unclean = TRUE]
  BY DEF NotRemoved
<1>2. tx.n - 1 \in Nat /\ "nothing" \in Looks
  BY RemovingFact DEF Looks
<1>3. tx' \in Memory
  BY <1>1, <1>2 DEF TypeInv, Memory
<1>4. /\ tx'.n = tx.n - 1 /\ tx'.unclean /\ tx'.seen = "nothing"
      /\ \A f \in DOMAIN tx \ {"n", "seen", "unclean"} : tx'[f] = tx[f]
  BY <1>1, DomainFact
<1>5. QED
  BY <1>3, <1>4, DomainFact
     DEF Passes, SameFrame, SameTask, SamePlan, SameAside, SameReport, home, side, Home, Moved,
         Waiting

LEMMA CheckPublishedFact ==
    ASSUME IInv, CheckPublished
    PROVE  /\ TypeInv' /\ Calm /\ tx.pc = "unpublish" /\ there' = there /\ at' = at /\ tx.n > 0
           /\ tx.seen = "nothing" /\ Owned(Current)[tx.n] \in Names
           /\ \/ /\ OwnPublished(Owned(Current)[tx.n])
                 /\ Goes("unpublish") /\ tx'.seen = "fit" /\ locked' = locked
                 /\ tx'.own = tx.own /\ tx'.restored = tx.restored
              \/ Passes /\ tx'.unclean
<1> USE DEF IInv
<1> DEFINE n == Owned(Current)[tx.n]
<1>1. /\ Calm /\ there' = there /\ locked' = locked /\ held' = held /\ at' = at
      /\ tx.pc = "unpublish" /\ tx.n > 0 /\ tx.seen = "nothing"
  BY FaultFact DEF CheckPublished, Right, Wrong, Calm, Quiet, ghost, disk, At
<1>2. n \in Names
  BY <1>1, RemovingFact
<1>3. CASE OwnPublished(n) /\ Saw("fit")
  <2>1. /\ tx' \in Memory /\ Goes("unpublish") /\ tx'.seen = "fit" /\ tx'.own = tx.own
        /\ tx'.restored = tx.restored
    BY <1>1, <1>3, SawFact DEF Looks
  <2>2. home \in there
    BY <1>2, <1>3, PlaceFact DEF OwnPublished, SpaceInv
  <2>3. QED
    BY <1>1, <1>2, <1>3, <2>1, <2>2 DEF TypeInv, Calm, Quiet
<1>4. CASE NotRemoved
  BY <1>1, <1>2, <1>4, NotRemovedFact DEF TypeInv, Calm, Quiet
<1>5. QED
  BY <1>3, <1>4 DEF CheckPublished, Right, Wrong

LEMMA UnpublishFact ==
    ASSUME IInv, Unpublish
    PROVE  /\ TypeInv' /\ Calm /\ tx.pc = "unpublish" /\ there' = there /\ tx.n > 0
           /\ tx.seen = "fit" /\ Passes
           /\ \/ \E n \in OwnedSet(Current) :
                   /\ n = Owned(Current)[tx.n] /\ n \in Names /\ at[home][n] # NoFile
                   /\ Cleared(home, n) /\ tx'.unclean = tx.unclean
              \/ at' = at /\ tx'.unclean
<1> USE DEF IInv
<1> DEFINE n == Owned(Current)[tx.n]
<1>1. /\ Calm /\ there' = there /\ locked' = locked /\ held' = held
      /\ tx.pc = "unpublish" /\ tx.n > 0 /\ tx.seen = "fit"
  BY FaultFact DEF Unpublish, Right, Wrong, Calm, Quiet, ghost, At
<1>2. n \in OwnedSet(Current) /\ n \in Names /\ tx.n - 1 \in Nat /\ "nothing" \in Looks
  BY <1>1, RemovingFact DEF Looks
<1>3. CASE /\ at[home][n] # NoFile
           /\ OnDisk(home, n, NoFile) /\ tx' = [tx EXCEPT !.n = @ - 1, !.seen = "nothing"]
  <2>1. tx' = [tx EXCEPT !.n = tx.n - 1, !.seen = "nothing"]
    BY <1>3
  <2>2. tx' \in Memory
    BY <1>2, <2>1 DEF TypeInv, Memory
  <2>3. /\ tx'.n = tx.n - 1 /\ tx'.seen = "nothing"
        /\ \A f \in DOMAIN tx \ {"n", "seen"} : tx'[f] = tx[f]
    BY <2>1, DomainFact
  <2>4. Passes /\ tx'.unclean = tx.unclean
    BY <1>1, <2>3, DomainFact
       DEF Passes, SameFrame, SameTask, SamePlan, SameAside, SameReport, home, side, Home, Moved,
           Waiting
  <2>5. at' = [at EXCEPT ![home][n] = NoFile] /\ home \in Places
    BY <1>3, PlaceFact DEF OnDisk
  <2> HIDE DEF n
  <2>6. at' \in [Places -> Row] /\ Cleared(home, n)
    BY <1>2, <2>5, WriteFact DEF Cleared
  <2>7. QED
    BY <1>1, <1>2, <1>3, <2>2, <2>4, <2>6, TypeFact DEF TypeInv, n
<1>4. CASE NotRemoved /\ UNCHANGED at
  BY <1>1, <1>4, NotRemovedFact, TypeFact DEF TypeInv
<1>5. QED
  BY <1>3, <1>4 DEF Unpublish, Right, Wrong

LEMMA UnpublishedFact ==
    ASSUME IInv, Unpublished
    PROVE  /\ TypeInv' /\ Calm /\ tx.pc = "unpublish" /\ SameDisk /\ tx.n = 0
           /\ IF tx.unclean THEN Goes("retire") ELSE Goes("restore")
<1> USE DEF IInv
<1>1. /\ Calm /\ SameDisk /\ held' = held /\ tx.pc = "unpublish" /\ tx.n = 0 /\ locked' = locked
      /\ "restore" \in Steps /\ "retire" \in Steps
  BY FaultFact DEF Unpublished, Calm, Quiet, disk, ghost, SameDisk, At, Steps
<1>2. IF tx.unclean THEN Go("retire") ELSE Go("restore")
  BY DEF Unpublished
<1>3. QED
  BY <1>1, <1>2, GoesFact, TypeFact DEF TypeInv, SameDisk

LEMMA NotBackFact ==
    ASSUME IInv, tx.pc = "restore", tx.m > 0, NotBack, locked' = locked
    PROVE  tx' \in Memory /\ Skips
<1> USE DEF IInv
<1>1. /\ tx.prev \in {1, 2} /\ tx.m \in Nat /\ tx.m <= Len(Owned(tx.prev)) /\ tx.m - 1 \in Nat
      /\ "nothing" \in Looks
  BY DEF CommandInv, ProgressInv, Aside, Undoing, TypeInv, Memory, Looks
<1>2. tx' = [tx EXCEPT !.m = tx.m - 1, !.seen = "nothing", !.unclean = TRUE]
  BY DEF NotBack
<1>3. tx' \in Memory
  BY <1>1, <1>2 DEF TypeInv, Memory
<1>4. /\ tx'.m = tx.m - 1 /\ tx'.unclean /\ tx'.seen = "nothing"
      /\ \A f \in DOMAIN tx \ {"m", "seen", "unclean"} : tx'[f] = tx[f]
  BY <1>2, DomainFact
<1>5. /\ tx'.pc = "restore" /\ tx'.n = tx.n /\ SameFrame /\ SameAside /\ tx'.guard = tx.guard
      /\ tx'.back = tx.back /\ tx'.err = tx.err /\ tx'.own = tx.own /\ tx'.restored = tx.restored
  BY <1>4, DomainFact DEF SameFrame, SameTask, SamePlan, SameAside, SameReport, home, side, Home
<1>6. \E n \in Names : n \in Moved /\ Moved' = Moved \ {n} /\ Waiting' = Waiting \cup {n}
  BY <1>1, <1>4, <1>5, MoveBackFact DEF SameFrame, SamePlan
<1>7. QED
  BY <1>3, <1>4, <1>5, <1>6 DEF Skips

LEMMA CheckBackFact ==
    ASSUME IInv, CheckBack
    PROVE  /\ TypeInv' /\ Calm /\ tx.pc = "restore" /\ there' = there /\ at' = at /\ tx.m > 0
           /\ tx.seen = "nothing" /\ Owned(tx.prev)[tx.m] \in Names
           /\ \/ /\ Free(Owned(tx.prev)[tx.m])
                 /\ Goes("restore") /\ tx'.seen \in {"gone", "match", "other"} /\ locked' = locked
                 /\ tx'.seen = "match" => Matches(Owned(tx.prev)[tx.m])
                 /\ tx'.own = tx.own /\ tx'.restored = tx.restored
              \/ Skips
<1> USE DEF IInv
<1> DEFINE n == Owned(tx.prev)[tx.m]
<1>1. /\ Calm /\ there' = there /\ locked' = locked /\ held' = held /\ at' = at
      /\ tx.pc = "restore" /\ tx.m > 0 /\ tx.seen = "nothing"
  BY FaultFact DEF CheckBack, Right, Wrong, Calm, Quiet, ghost, disk, At
<1>2. n \in Names
  <2>1. tx.prev \in {1, 2} /\ tx.m \in Nat /\ tx.m <= Len(Owned(tx.prev))
    BY <1>1 DEF CommandInv, ProgressInv, Aside, Undoing, TypeInv, Memory
  <2>2. tx.m \in 1..Len(Owned(tx.prev))
    BY <1>1, <2>1, OwnedFact
  <2>3. QED
    BY <2>1, <2>2, OwnedFact
<1> DEFINE found == IF Gone(n) THEN "gone" ELSE IF Matches(n) THEN "match" ELSE "other"
<1>3. CASE Free(n) /\ Saw(found)
  <2>1. found \in {"gone", "match", "other"} /\ (found = "match" => Matches(n)) /\ found \in Looks
    BY DEF Looks
  <2> HIDE DEF found
  <2>2. /\ tx' \in Memory /\ Goes("restore") /\ tx'.seen = found /\ tx'.own = tx.own
        /\ tx'.restored = tx.restored
    BY <1>1, <1>3, <2>1, SawFact
  <2>3. QED
    BY <1>1, <1>2, <1>3, <2>1, <2>2 DEF TypeInv, Calm, Quiet
<1>4. CASE NotBack
  BY <1>1, <1>2, <1>4, NotBackFact DEF TypeInv, Calm, Quiet
<1>5. QED
  BY <1>3, <1>4 DEF CheckBack, Right, Wrong

\* The file that Restore puts back.
LEMMA RestoreFact ==
    ASSUME IInv, Restore
    PROVE  /\ TypeInv' /\ Quiet /\ tx.pc = "restore" /\ there' = there /\ tx.m > 0
           /\ tx.seen # "nothing" /\ tx'.seen = "nothing"
           /\ \/ /\ tx'.pc = "restore" /\ tx'.m = tx.m - 1 /\ tx'.n = tx.n
                 /\ SameFrame /\ tx'.orig = tx.orig /\ tx'.root = tx.root /\ tx'.guard = tx.guard
                 /\ tx'.back = tx.back /\ tx'.err = tx.err /\ tx'.own = tx.own
                 /\ \E n \in Names :
                      /\ n = Owned(tx.prev)[tx.m]
                      /\ n \in Moved /\ Moved' = Moved \ {n} /\ Waiting' = Waiting \cup {n}
                      /\ tx'.restored = tx.restored \cup {n}
                      /\ \A k \in Names : k # n => tx'.kept[k] = tx.kept[k]
                      /\ \/ /\ tx.job = "remove" /\ tx.seen = "match" /\ home \in there
                            /\ at[side][n] # NoFile
                            /\ at'[home][n] = at[side][n] /\ at'[side][n] = NoFile
                            /\ \A q \in Places, k \in Names :
                                 k # n \/ (q # home /\ q # side) => at'[q][k] = at[q][k]
                            /\ tx'.kept[n] = NoFile /\ tx'.unclean = tx.unclean
                            /\ Carried(<<side, n>>, <<home, n>>)
                         \/ /\ tx.job = "replace" \/ tx.seen # "match"
                            /\ home \in there /\ at[home][n] = NoFile
                            /\ Wrote(home, n, tx.prev, Copied)
                            /\ (tx'.unclean <=> tx.unclean \/ tx.seen = "other")
                            /\ tx'.kept[n] = IF tx.seen = "gone" THEN NoFile ELSE tx.kept[n]
                            /\ touched' = touched
              \/ Skips /\ at' = at /\ touched' = touched
<1> USE DEF IInv
<1> DEFINE n == Owned(tx.prev)[tx.m]
<1>1. /\ Quiet /\ there' = there /\ locked' = locked /\ held' = held
      /\ tx.pc = "restore" /\ tx.job \in {"replace", "remove"} /\ tx.prev \in {1, 2}
      /\ tx.m > 0 /\ tx.m \in Nat /\ tx.m <= Len(Owned(tx.prev)) /\ tx.seen # "nothing"
      /\ home \in there
  BY FaultFact DEF Restore, Right, Wrong, Quiet, At, CommandInv, ProgressInv, Aside,
     Undoing, TypeInv, Memory, LookInv, SeenInv
<1>2. n \in Names /\ tx.m - 1 \in Nat /\ "nothing" \in Looks
  <2>1. tx.m \in 1..Len(Owned(tx.prev)) /\ tx.m - 1 \in Nat
    BY <1>1, OwnedFact
  <2>2. QED
    BY <1>1, <2>1, OwnedFact DEF Looks
<1>3. ASSUME tx'.prev = tx.prev, tx'.m = tx.m - 1
      PROVE  n \in Moved /\ Moved' = Moved \ {n} /\ Waiting' = Waiting \cup {n}
  BY <1>1, <1>3, MoveBackFact
<1> DEFINE renamed == tx.job = "remove" /\ tx.seen = "match"
<1> DEFINE other == tx.seen = "other"
<1> DEFINE gone == tx.seen = "gone"
<1>4. CASE /\ IF renamed THEN at[side][n] # NoFile ELSE at[home][n] = NoFile
           /\ tx' = [tx EXCEPT !.m = @ - 1, !.seen = "nothing", !.restored = @ \cup {n},
                       !.kept[n] = IF gone \/ renamed THEN NoFile ELSE @,
                       !.unclean = @ \/ other]
           /\ IF renamed
              THEN /\ at' = [at EXCEPT ![home][n] = at[side][n], ![side][n] = NoFile]
                   /\ Carried(<<side, n>>, <<home, n>>)
              ELSE OnDisk(home, n, CopyOf(tx.prev)) /\ UNCHANGED touched
  <2> DEFINE f == IF gone \/ renamed THEN NoFile ELSE tx.kept[n]
  <2> DEFINE kept == [tx.kept EXCEPT ![n] = f]
  <2> DEFINE spoilt == tx.unclean \/ other
  <2> DEFINE restored == tx.restored \cup {n}
  <2>1. /\ kept \in Row /\ kept[n] = f /\ \A k \in Names : k # n => kept[k] = tx.kept[k]
    BY <1>2, NothingFact DEF TypeInv, Memory, Row
  <2>2. spoilt \in BOOLEAN /\ restored \in SUBSET Names
    BY <1>2 DEF TypeInv, Memory
  <2>3. tx' = [tx EXCEPT !.m = tx.m - 1, !.seen = "nothing", !.restored = restored,
                         !.kept = kept, !.unclean = spoilt]
    BY <1>4
  <2>4. /\ (f = IF gone \/ renamed THEN NoFile ELSE tx.kept[n])
        /\ (spoilt <=> tx.unclean \/ other) /\ restored = tx.restored \cup {n}
        /\ (renamed <=> tx.job = "remove" /\ tx.seen = "match") /\ (gone <=> tx.seen = "gone")
        /\ (other <=> tx.seen = "other")
    OBVIOUS
  <2>5. touched' \in SUBSET (Places \X Names)
    BY <1>2, <1>4, PlaceFact DEF Carried, TypeInv
  <2>6. CASE renamed
    <3>1. /\ at' \in [Places -> Row] /\ at'[home][n] = at[side][n] /\ at'[side][n] = NoFile
          /\ \A q \in Places, k \in Names : k # n \/ (q # home /\ q # side) => at'[q][k] = at[q][k]
      <4>1. /\ at' = [at EXCEPT ![home][n] = at[side][n], ![side][n] = NoFile]
            /\ home \in Places /\ side \in Places /\ home # side
        BY <1>4, <2>6, PlaceFact
      <4> DEFINE p == side
      <4> DEFINE q == home
      <4>2. p \in Places /\ q \in Places /\ p # q
        BY <4>1
      <4>3. at' = [at EXCEPT ![q][n] = at[p][n], ![p][n] = NoFile]
        BY <4>1
      <4> HIDE DEF n, p, q
      <4>4. /\ at' \in [Places -> Row] /\ at'[p][n] = NoFile /\ at'[q][n] = at[p][n]
            /\ \A r \in Places, k \in Names : k # n \/ (r # p /\ r # q) => at'[r][k] = at[r][k]
        BY <1>2, <4>2, <4>3, RenameFact
      <4>5. QED
        BY <4>4 DEF p, q
    <3>2. /\ f = NoFile /\ (spoilt <=> tx.unclean) /\ tx.seen = "match" /\ tx.job = "remove"
          /\ at[side][n] # NoFile /\ Carried(<<side, n>>, <<home, n>>)
      BY <1>4, <2>4, <2>6
    <3> HIDE DEF n, f, kept, spoilt, restored, renamed, gone, other
    <3>3. tx' \in Memory
      BY <1>2, <2>1, <2>2, <2>3 DEF TypeInv, Memory
    <3>4. /\ tx'.m = tx.m - 1 /\ tx'.kept = kept /\ tx'.unclean = spoilt /\ tx'.seen = "nothing"
          /\ tx'.restored = restored
          /\ \A g \in DOMAIN tx \ {"m", "seen", "restored", "kept", "unclean"} : tx'[g] = tx[g]
      BY <2>3, DomainFact
    <3>5. /\ tx'.pc = "restore" /\ tx'.n = tx.n /\ SameFrame /\ tx'.orig = tx.orig
          /\ tx'.root = tx.root /\ tx'.guard = tx.guard /\ tx'.own = tx.own
          /\ tx'.back = tx.back /\ tx'.err = tx.err
      BY <1>1, <3>4, DomainFact
         DEF SameFrame, SameTask, SamePlan, SameReport, home, side, Home
    <3>6. tx'.unclean = tx.unclean
      BY <3>2, <3>4, <2>2 DEF TypeInv, Memory
    <3>7. n \in Moved /\ Moved' = Moved \ {n} /\ Waiting' = Waiting \cup {n}
      BY <1>3, <3>4, <3>5 DEF SameFrame, SamePlan
    <3>8. TypeInv'
      BY <1>1, <2>5, <3>1, <3>3 DEF TypeInv, Quiet
    <3>9. /\ tx'.kept[n] = NoFile /\ tx'.restored = tx.restored \cup {n}
          /\ \A k \in Names : k # n => tx'.kept[k] = tx.kept[k]
      BY <2>1, <2>4, <3>2, <3>4
    <3>10. QED
      BY <1>1, <1>2, <3>1, <3>2, <3>4, <3>5, <3>6, <3>7, <3>8, <3>9 DEF n
  <2>7. CASE ~renamed
    <3>1. CopyOf(tx.prev) \in Object /\ CopyOf(tx.prev) # NoFile
          /\ CopyOf(tx.prev).ver = tx.prev /\ CopyOf(tx.prev).gen = Copied
      <4>1. tx.prev \in Int /\ Copied \in Int
        BY <1>1, NumberFact
      <4>2. QED
        BY <4>1, FileFact DEF CopyOf
    <3>2. at' \in [Places -> Row] /\ Wrote(home, n, tx.prev, Copied)
      <4>1. /\ at' = [at EXCEPT ![home][n] = CopyOf(tx.prev)]
            /\ home \in Places /\ CopyOf(tx.prev) \in Object \cup {NoFile}
        BY <1>4, <2>7, <3>1, PlaceFact DEF OnDisk
      <4> HIDE DEF n
      <4>2. at' \in [Places -> Row] /\ at'[home][n] = CopyOf(tx.prev) /\ Others(home, n)
        BY <1>2, <4>1, WriteFact
      <4>3. QED
        BY <3>1, <4>2 DEF Wrote
    <3>3. /\ (f = IF tx.seen = "gone" THEN NoFile ELSE tx.kept[n])
          /\ (tx.job = "replace" \/ tx.seen # "match")
          /\ (spoilt <=> tx.unclean \/ tx.seen = "other")
          /\ at[home][n] = NoFile /\ touched' = touched
      BY <1>1, <1>4, <2>4, <2>7
    <3> HIDE DEF n, f, kept, spoilt, restored, renamed, gone, other
    <3>4. tx' \in Memory
      BY <1>2, <2>1, <2>2, <2>3 DEF TypeInv, Memory
    <3>5. /\ tx'.m = tx.m - 1 /\ tx'.kept = kept /\ tx'.unclean = spoilt /\ tx'.seen = "nothing"
          /\ tx'.restored = restored
          /\ \A g \in DOMAIN tx \ {"m", "seen", "restored", "kept", "unclean"} : tx'[g] = tx[g]
      BY <2>3, DomainFact
    <3>6. /\ tx'.pc = "restore" /\ tx'.n = tx.n /\ SameFrame /\ tx'.orig = tx.orig
          /\ tx'.root = tx.root /\ tx'.guard = tx.guard /\ tx'.own = tx.own
          /\ tx'.back = tx.back /\ tx'.err = tx.err
      BY <1>1, <3>5, DomainFact
         DEF SameFrame, SameTask, SamePlan, SameReport, home, side, Home
    <3>7. n \in Moved /\ Moved' = Moved \ {n} /\ Waiting' = Waiting \cup {n}
      BY <1>3, <3>5, <3>6 DEF SameFrame, SamePlan
    <3>8. TypeInv'
      BY <1>1, <2>5, <3>2, <3>4 DEF TypeInv, Quiet
    <3>9. /\ (tx'.unclean <=> tx.unclean \/ tx.seen = "other")
          /\ tx'.kept[n] = (IF tx.seen = "gone" THEN NoFile ELSE tx.kept[n])
          /\ tx'.restored = tx.restored \cup {n}
          /\ \A k \in Names : k # n => tx'.kept[k] = tx.kept[k]
      BY <2>1, <2>4, <3>3, <3>5
    <3>10. QED
      BY <1>1, <1>2, <3>2, <3>3, <3>5, <3>6, <3>7, <3>8, <3>9 DEF n
  <2>8. QED
    BY <2>6, <2>7
<1>5. CASE NotBack /\ UNCHANGED <<at, touched>>
  <2>1. tx' \in Memory /\ Skips
    BY <1>1, <1>5, NotBackFact
  <2>2. QED
    BY <1>1, <1>5, <2>1 DEF TypeInv, Quiet, Skips
<1>6. QED
  BY <1>4, <1>5 DEF Restore, Right, Wrong

LEMMA RestoredFact ==
    ASSUME IInv, Restored
    PROVE  /\ TypeInv' /\ Calm /\ tx.pc = "restore" /\ tx.m = 0 /\ SameDisk
           /\ \/ /\ tx.job = "replace" /\ ~tx.unclean
                 /\ \A n \in OwnedSet(tx.prev) : Intact(home, n, tx.prev)
                 /\ tx'.pc = "retire" /\ SameFrame /\ SameCounts /\ SameAside /\ SameMood
              \/ tx.job = "replace" /\ Spoils("retire")
              \/ Goes("retire")
<1> USE DEF IInv
<1>1. /\ Calm /\ SameDisk /\ held' = held /\ tx.pc = "restore" /\ tx.m = 0 /\ locked' = locked
      /\ "retire" \in Steps
  BY FaultFact DEF Restored, Right, Wrong, Calm, Quiet, disk, ghost, SameDisk, At, Steps
<1> DEFINE now == Identity(tx.home, tx.prev)
<1>2. CASE /\ tx.job = "replace" /\ ~tx.unclean /\ VersionAt(tx.home) = tx.prev
           /\ tx' = [tx EXCEPT !.pc = "retire", !.guard = [ver |-> tx.prev, id |-> now]]
  <2>1. \A n \in OwnedSet(tx.prev) : Intact(home, n, tx.prev)
    BY <1>2, VersionFact DEF home, CommandInv
  <2>2. tx' = [tx EXCEPT !.pc = "retire", !.guard = [ver |-> tx.prev, id |-> now]]
    BY <1>2
  <2>3. [ver |-> tx.prev, id |-> now] \in [ver : 0..2, id : Row]
    BY IdentityFact DEF TypeInv, Memory
  <2> HIDE DEF now
  <2>4. tx' \in Memory
    BY <1>1, <2>2, <2>3, ZenonT(40) DEF TypeInv, Memory
  <2>5. /\ tx'.pc = "retire"
        /\ \A f \in DOMAIN tx \ {"pc", "guard"} : tx'[f] = tx[f]
    BY <2>2, DomainFact
  <2>6. SameFrame /\ SameCounts /\ SameAside /\ SameMood
    BY <1>1, <2>5, DomainFact
       DEF SameFrame, SameTask, SamePlan, SameCounts, SameAside, SameMood, SameReport, home, side,
           Home, Moved, Waiting
  <2>7. QED
    BY <1>1, <1>2, <2>1, <2>4, <2>5, <2>6, TypeFact DEF TypeInv, SameDisk
<1>3. CASE tx.job = "replace" /\ tx' = [tx EXCEPT !.pc = "retire", !.unclean = TRUE]
  BY <1>1, <1>3, SpoilsFact, TypeFact DEF TypeInv, SameDisk
<1>4. CASE Go("retire")
  BY <1>1, <1>4, GoesFact, TypeFact DEF TypeInv, SameDisk
<1>5. QED
  BY <1>2, <1>3, <1>4 DEF Restored, Right, Wrong

LEMMA CrashFact ==
    ASSUME IInv, Crash
    PROVE  TypeInv' /\ Calm /\ SameDisk /\ tx.pc \notin {"idle"} \cup Over /\ Goes("crashed")
<1> USE DEF IInv
<1>1. /\ Calm /\ SameDisk /\ held' = {} /\ tx.pc \notin {"idle"} \cup Over /\ locked' = locked
      /\ Go("crashed") /\ "crashed" \in Steps
  BY DEF Crash, Calm, Quiet, ghost, SameDisk, Over, Steps, Use, TypeInv, Staged, Copied
<1>2. QED
  BY <1>1, GoesFact, TypeFact DEF TypeInv, SameDisk

LEMMA DriftFact ==
    ASSUME IInv, NEW p \in Places, NEW n \in Names, Drift(p, n)
    PROVE  /\ TypeInv' /\ tx' = tx /\ there' = there /\ locked' = locked /\ posix' = posix
           /\ leftover' = leftover /\ touched' = touched \cup {<<p, n>>}
           /\ spent'.drift = spent.drift + 1 /\ Staged' = Staged /\ Copied' = Copied
           /\ home' = home /\ side' = side /\ Moved' = Moved /\ Waiting' = Waiting
           /\ tx.pc \notin {"idle"} \cup Over /\ p \in there
           /\ Others(p, n)
           /\ at'[p][n] # NoFile => \/ /\ at[p][n] # NoFile /\ at'[p][n].gen = at[p][n].gen
                                       /\ at'[p][n].ver = Junk
                                    \/ at'[p][n].gen = Foreign
<1> USE DEF IInv
<1>1. /\ tx' = tx /\ there' = there /\ locked' = locked /\ posix' = posix /\ held' = held
      /\ leftover' = leftover /\ touched' = touched \cup {<<p, n>>}
      /\ tx.pc \notin {"idle"} \cup Over /\ p \in there
  BY DEF Drift, Over
<1>2. /\ spent' \in [command : Nat, drift : Nat, fault : Nat, crash : Nat]
      /\ spent'.drift = spent.drift + 1 /\ Staged' = Staged /\ Copied' = Copied
  BY DEF Drift, Use, TypeInv, Staged, Copied
<1>3. home' = home /\ side' = side /\ Moved' = Moved /\ Waiting' = Waiting
  BY <1>1 DEF home, side, Home, Moved, Waiting
<1> DEFINE f == at[p][n]
<1>4. PICK g \in (IF f = NoFile THEN {[ver |-> Junk, gen |-> Foreign]}
                  ELSE {NoFile, [f EXCEPT !.ver = Junk], [f EXCEPT !.gen = Foreign]}) :
        OnDisk(p, n, g)
  BY DEF Drift
<1>5. f \in Object \cup {NoFile}
  BY DEF TypeInv, Row
<1>6. /\ g \in Object \cup {NoFile}
      /\ g # NoFile => (f # NoFile /\ g.gen = f.gen /\ g.ver = Junk) \/ g.gen = Foreign
  <2>1. Junk \in Int /\ Foreign \in Int
    BY NumberFact DEF Junk
  <2>2. CASE f = NoFile
    BY <1>4, <2>1, <2>2, FileFact
  <2>3. CASE f # NoFile
    <3>1. f \in Object
      BY <1>5, <2>3
    <3> HIDE DEF f
    <3>2. /\ [f EXCEPT !.ver = Junk] \in Object /\ [f EXCEPT !.gen = Foreign] \in Object
          /\ [f EXCEPT !.ver = Junk].gen = f.gen /\ [f EXCEPT !.ver = Junk].ver = Junk
          /\ [f EXCEPT !.gen = Foreign].gen = Foreign
      BY <2>1, <3>1 DEF Object
    <3>3. QED
      BY <1>4, <2>3, <3>2
  <2>4. QED
    BY <2>2, <2>3
<1>7. at' \in [Places -> Row] /\ at'[p][n] = g /\ Others(p, n)
  BY <1>4, <1>6, WriteFact DEF OnDisk
<1>8. touched' \in SUBSET (Places \X Names)
  BY <1>1 DEF TypeInv
<1>9. TypeInv'
  BY <1>1, <1>2, <1>7, <1>8 DEF TypeInv
<1>10. QED
  BY <1>1, <1>2, <1>3, <1>6, <1>7, <1>9

LEMMA SameFact ==
    ASSUME UNCHANGED vars
    PROVE  /\ there' = there /\ at' = at /\ posix' = posix /\ locked' = locked /\ tx' = tx
           /\ touched' = touched /\ leftover' = leftover /\ spent' = spent
           /\ home' = home /\ side' = side /\ Moved' = Moved /\ Waiting' = Waiting
           /\ Staged' = Staged /\ Copied' = Copied
  BY DEF vars, home, side, Home, Moved, Waiting, Staged, Copied

\* The file that Move or Restore is about has been renamed, or written anew.
LEMMA MoveAtFact ==
    ASSUME IInv, Move
    PROVE  \A p \in Places, k \in Names :
             at'[p][k] \in {at[p][k], NoFile} \/ (p = side /\ at'[p][k] = at[home][k])
<1>1. CASE at' = at
  BY <1>1
<1>2. ASSUME NEW n \in Names, at'[home][n] = NoFile, at'[side][n] = at[home][n],
             \A q \in Places, k \in Names : k # n \/ (q # home /\ q # side) => at'[q][k] = at[q][k],
             NEW p \in Places, NEW k \in Names
      PROVE  at'[p][k] \in {at[p][k], NoFile} \/ (p = side /\ at'[p][k] = at[home][k])
  BY <1>2
<1>3. QED
  BY <1>1, <1>2, MoveFact

LEMMA RestoreAtFact ==
    ASSUME IInv, Restore
    PROVE  \A p \in Places, k \in Names :
             \/ at'[p][k] \in {at[p][k], NoFile}
             \/ /\ p = home
                /\ at'[p][k] = at[side][k] \/ (at'[p][k] # NoFile /\ at'[p][k].gen = Copied)
<1> SUFFICES ASSUME NEW p \in Places, NEW k \in Names
             PROVE  \/ at'[p][k] \in {at[p][k], NoFile}
                    \/ /\ p = home
                       /\ at'[p][k] = at[side][k] \/ (at'[p][k] # NoFile /\ at'[p][k].gen = Copied)
  OBVIOUS
<1>1. CASE at' = at
  BY <1>1
<1>2. CASE \E n \in Names :
             /\ at'[home][n] = at[side][n] /\ at'[side][n] = NoFile
             /\ \A q \in Places, i \in Names :
                  i # n \/ (q # home /\ q # side) => at'[q][i] = at[q][i]
  BY <1>2
<1>3. CASE \E n \in Names : Wrote(home, n, tx.prev, Copied)
  BY <1>3, PlaceFact DEF Wrote, Others, IInv
<1>4. QED
  <2>1. \/ at' = at
        \/ \E n \in Names :
             /\ at'[home][n] = at[side][n] /\ at'[side][n] = NoFile
             /\ \A q \in Places, i \in Names :
                  i # n \/ (q # home /\ q # side) => at'[q][i] = at[q][i]
        \/ \E n \in Names : Wrote(home, n, tx.prev, Copied)
    BY RestoreFact, ZenonT(30)
  <2>2. QED
    BY <1>1, <1>2, <1>3, <2>1

Look == CheckSource \/ CheckPlace \/ CheckPublished \/ CheckBack

\* A look changes nothing else, or what it is for is given up.
LEMMA LookFact ==
    ASSUME IInv, Look
    PROVE  /\ TypeInv' /\ Calm /\ SameDisk /\ tx.pc \in {"move", "unpublish", "restore"}
           /\ tx.seen = "nothing" /\ (tx'.pc = "move" => tx.pc = "move")
           /\ tx'.restored = tx.restored
           /\ \/ Goes(tx.pc)
              \/ tx.pc = "move" /\ Turns("OBS_PLUGIN_DRIFT") /\ SameAside
              \/ tx.pc = "unpublish" /\ tx.n > 0 /\ Passes /\ tx'.unclean
              \/ tx.pc = "restore" /\ tx.m > 0 /\ Skips
<1>1. CASE CheckSource
  BY <1>1, CheckSourceFact DEF SameDisk, Turns, SameFrame
<1>2. CASE CheckPlace
  BY <1>2, CheckPlaceFact DEF SameDisk, Turns, SameFrame
<1>3. CASE CheckPublished
  BY <1>3, CheckPublishedFact DEF SameDisk, Goes, Passes, SameFrame
<1>4. CASE CheckBack
  BY <1>4, CheckBackFact DEF SameDisk, Goes, Skips, SameFrame
<1>5. QED
  BY <1>1, <1>2, <1>3, <1>4 DEF Look

-----------------------------------------------------------------------------
(* What was seen, and what the installer takes for its own.                *)

\* The actions that come neither before nor after a look.
Other == \/ Reading \/ Prepare \/ Stage \/ Recheck \/ Snapshot \/ Capture \/ Quarantine
         \/ Settle \/ Empty \/ Retire \/ StartRollback \/ Unpublished \/ Restored

LEMMA StillFact ==
    ASSUME IInv, Other
    PROVE  /\ tx.seen = "nothing" /\ tx'.seen = "nothing"
           /\ \/ tx'.own = tx.own /\ tx'.restored = tx.restored /\ (tx.back => tx'.back)
              \/ tx'.own = Nothing /\ tx'.restored = {}
<1> USE DEF IInv
<1> DEFINE Same == /\ tx'.own = tx.own /\ tx'.restored = tx.restored /\ (tx.back => tx'.back)
                   /\ tx'.seen \in {tx.seen, "nothing"}
<1> DEFINE Anew == tx'.own = Nothing /\ tx'.restored = {} /\ tx'.seen = "nothing"
<1>1. tx.pc \notin {"move", "unpublish", "restore", "crashed"} => tx.seen = "nothing"
  BY DEF LookInv, SeenInv
<1>2. CASE Reading
  <2>1. tx.seen = "nothing"
    BY <1>1, <1>2
       DEF Reading, Refuse, ValidateBundle, FindLegacy, Verify, Commit, Guard, Unguard, At
  <2>2. CASE Refuse \/ ValidateBundle \/ FindLegacy
    BY <2>1, <2>2, DomainFact DEF Refuse, ValidateBundle, FindLegacy, End, Go
  <2>3. CASE Verify \/ Commit
    BY <2>1, <2>3, DomainFact DEF Verify, Commit, End, Go
  <2>4. CASE Guard \/ Unguard
    BY <2>1, <2>4, DomainFact DEF Guard, Unguard, End
  <2>5. QED
    BY <1>2, <2>1, <2>2, <2>3, <2>4 DEF Reading
<1>3. CASE Prepare
  <2>1. tx.seen = "nothing"
    BY <1>1, <1>3 DEF Prepare, At
  <2>2. \/ \E err \in Errors : End(err)
        \/ \E v, job, pc : Captured(v, job, pc)
    BY <1>3 DEF Prepare, Errors
  <2>3. CASE \E err \in Errors : End(err)
    BY <2>1, <2>3, DomainFact DEF End
  <2>4. CASE \E v, job, pc : Captured(v, job, pc)
    BY <2>1, <2>4 DEF Captured, Fresh
  <2>5. QED
    BY <2>1, <2>2, <2>3, <2>4
<1>4. CASE Capture
  <2>1. tx.seen = "nothing"
    BY <1>1, <1>4 DEF Capture, At
  <2>2. \/ \E err \in Errors : End(err)
        \/ \E v, job, pc : Captured(v, job, pc)
    BY <1>4 DEF Capture, Errors
  <2>3. CASE \E err \in Errors : End(err)
    BY <2>1, <2>3, DomainFact DEF End
  <2>4. CASE \E v, job, pc : Captured(v, job, pc)
    BY <2>1, <2>4 DEF Captured, Fresh
  <2>5. QED
    BY <2>1, <2>2, <2>3, <2>4
<1>5. CASE Stage \/ Recheck \/ Snapshot \/ Quarantine
  <2>1. tx.seen = "nothing"
    BY <1>1, <1>5 DEF Stage, Recheck, Snapshot, Quarantine, At
  <2>2. CASE Stage
    BY <2>1, <2>2, DomainFact DEF Stage
  <2>3. CASE Recheck \/ Snapshot \/ Quarantine
    BY <2>1, <2>3, DomainFact DEF Recheck, Snapshot, Quarantine, End, Go
  <2>4. QED
    BY <1>5, <2>2, <2>3
<1>6. CASE Settle \/ Empty
  <2>1. tx.seen = "nothing"
    <3>1. tx.pc = "move" /\ tx.job # "none" /\ ~Publishing
      BY <1>6 DEF Settle, Empty, Publishing, At
    <3>2. ~(tx.m < Len(Owned(tx.prev)))
      <4>1. tx.m \in Nat /\ tx.n \in Nat /\ tx.prev \in {1, 2}
        BY <3>1 DEF TypeInv, Memory, CommandInv
      <4>2. Len(Owned(Current)) >= 1 /\ Len(Owned(tx.prev)) \in Nat
        BY <4>1, OwnedFact, NumberFact
      <4>3. tx.m = Len(Owned(tx.prev))
        BY <1>6, <3>1, <4>1, <4>2 DEF Settle, Empty, ProgressInv
      <4>4. QED
        BY <4>1, <4>2, <4>3
    <3>3. QED
      BY <3>1, <3>2 DEF LookInv, SeenInv
  <2>2. CASE Settle
    BY <2>1, <2>2, DomainFact DEF Settle, Rollback
  <2>3. CASE Empty
    BY <2>1, <2>3, DomainFact DEF Empty, Go
  <2>4. QED
    BY <1>6, <2>2, <2>3
<1>7. CASE Retire
  <2>1. tx.seen = "nothing"
    BY <1>1, <1>7
       DEF Retire, RetireStart, RetireFile, RetireDirectory, Retired, RetireBreaks, Final, At
  <2>2. CASE RetireStart
    BY <2>1, <2>2, DomainFact DEF RetireStart, Broken
  <2>3. ASSUME NEW n \in Names, RetireFile(n) PROVE Same
    BY <2>3, DomainFact DEF RetireFile
  <2>4. CASE RetireDirectory
    BY <2>1, <2>4, DomainFact DEF RetireDirectory, Go
  <2>5. CASE Retired
    BY <2>1, <2>5, DomainFact DEF Retired
  <2>6. CASE RetireBreaks
    <3>1. \E kept, err : tx' = Broken([tx EXCEPT !.kept = kept], err)
      BY <2>6 DEF RetireBreaks
    <3>2. QED
      BY <2>1, <3>1, DomainFact DEF Broken
  <2>7. CASE Final
    <3>1. CASE tx' = [tx EXCEPT !.pc = "verify", !.job = "none"]
      BY <2>1, <3>1, DomainFact
    <3>2. CASE tx' = Broken([tx EXCEPT !.root = FALSE], "OBS_PLUGIN_DRIFT")
      <4> DEFINE t == [tx EXCEPT !.root = FALSE]
      <4>1. /\ tx' = Broken(t, "OBS_PLUGIN_DRIFT") /\ t.own = tx.own /\ t.restored = tx.restored
            /\ t.seen = tx.seen /\ t.back = tx.back /\ DOMAIN t = DOMAIN tx
        BY <3>2, DomainFact
      <4> HIDE DEF t
      <4>2. QED
        BY <2>1, <4>1, DomainFact DEF Broken
    <3>3. QED
      BY <2>7, <3>1, <3>2 DEF Final
  <2>8. QED
    BY <1>7, <2>1, <2>2, <2>3, <2>4, <2>5, <2>6, <2>7 DEF Retire
<1>8. CASE StartRollback
  <2>1. tx.seen = "nothing"
    BY <1>1, <1>8 DEF StartRollback, At
  <2>2. QED
    BY <1>8, <2>1, DomainFact DEF StartRollback, Go
<1>9. CASE Unpublished \/ Restored
  <2>1. tx.seen = "nothing"
    BY <1>9 DEF Unpublished, Restored, At, LookInv, SeenInv
  <2>2. CASE Unpublished
    BY <2>1, <2>2, DomainFact DEF Unpublished, Go
  <2>3. CASE Restored
    BY <2>1, <2>3, DomainFact DEF Restored, Go
  <2>4. QED
    BY <1>9, <2>2, <2>3
<1>10. QED
  BY <1>2, <1>3, <1>4, <1>5, <1>6, <1>7, <1>8, <1>9 DEF Other

-----------------------------------------------------------------------------
(* Every step preserves the invariant.                                     *)

\* Types are kept (each action's fact says so).
LEMMA TypeStep == ASSUME IInv, [Next]_vars PROVE TypeInv'
<1> USE DEF IInv
<1>1. ASSUME NEW cmd \in {"install", "upgrade", "verify", "uninstall"}, NEW t \in Targets,
            NEW b \in Bundles, Begin(cmd, t, b)
     PROVE  TypeInv'
  BY <1>1, BeginFact
<1>2. CASE Refuse
  BY <1>2, RefuseFact
<1>3. CASE ValidateBundle
  BY <1>3, ValidateBundleFact
<1>4. CASE FindLegacy
  BY <1>4, FindLegacyFact
<1>5. CASE Verify
  BY <1>5, VerifyFact
<1>6. CASE Commit
  BY <1>6, CommitFact
<1>7. CASE Guard
  BY <1>7, GuardFact
<1>8. CASE Unguard
  BY <1>8, UnguardFact
<1>9. CASE Prepare
  BY <1>9, PrepareFact
<1>10. CASE Stage
  BY <1>10, StageFact
<1>11. CASE Recheck
  BY <1>11, RecheckFact
<1>12. CASE Snapshot
  BY <1>12, SnapshotFact
<1>13. CASE Capture
  BY <1>13, CaptureFact
<1>14. CASE Quarantine
  BY <1>14, QuarantineFact
<1>15. CASE Move
  BY <1>15, MoveFact
<1>16. CASE Publish
  BY <1>16, PublishFact
<1>17. CASE Settle
  BY <1>17, SettleFact
<1>18. CASE Empty
  BY <1>18, EmptyFact
<1>19. CASE RetireStart
  BY <1>19, RetireStartFact
<1>20. ASSUME NEW n \in Names, RetireFile(n) PROVE TypeInv'
  BY <1>20, RetireFileFact
<1>21. CASE RetireDirectory
  BY <1>21, RetireDirectoryFact
<1>22. CASE Retired
  BY <1>22, RetiredFact
<1>23. CASE RetireBreaks
  BY <1>23, RetireBreaksFact
<1>24. CASE Final
  BY <1>24, FinalFact
<1>25. CASE StartRollback
  BY <1>25, StartRollbackFact
<1>26. CASE Unpublish
  BY <1>26, UnpublishFact
<1>27. CASE Unpublished
  BY <1>27, UnpublishedFact
<1>28. CASE Restore
  BY <1>28, RestoreFact
<1>29. CASE Restored
  BY <1>29, RestoredFact
<1>30. CASE Crash
  BY <1>30, CrashFact
<1>31. ASSUME NEW p \in Places, NEW n \in Names, Drift(p, n) PROVE TypeInv'
  BY <1>31, DriftFact
<1>32. CASE UNCHANGED vars
  BY <1>32 DEF TypeInv, vars
<1>33. CASE Look
  BY <1>33, LookFact
<1>34. CASE Confirm
  BY <1>34, ConfirmFact
<1>35. CASE Record
  BY <1>35, RecordFact
<1>36. QED
  BY <1>1, <1>2, <1>3, <1>4, <1>5, <1>6, <1>7, <1>8, <1>9, <1>10, <1>11, <1>12, <1>13, <1>14,
     <1>15, <1>16, <1>17, <1>18, <1>19, <1>20, <1>21, <1>22, <1>23, <1>24, <1>25, <1>26, <1>27,
     <1>28, <1>29, <1>30, <1>31, <1>32, <1>33, <1>34, <1>35
     DEF Next, Installer, Reading, Forward, Retire, Backward, Look

\* A step belongs to the command that is given and the transaction that is on.
LEMMA CommandStep == ASSUME IInv, [Next]_vars PROVE CommandInv'
<1> USE DEF IInv
<1>1. ASSUME NEW cmd \in {"install", "upgrade", "verify", "uninstall"}, NEW t \in Targets,
            NEW b \in Bundles, Begin(cmd, t, b)
     PROVE  CommandInv'
  BY <1>1, BeginFact DEF CommandInv, Aside, Retiring, Undoing, Over, TypeInv, Memory
<1>2. CASE Refuse
  BY <1>2, RefuseFact
     DEF CommandInv, Stops, SameTask, SamePlan, Calm, Quiet, Aside, Retiring, Undoing, Over,
         TypeInv, Memory
<1>3. CASE ValidateBundle
  BY <1>3, ValidateBundleFact
     DEF CommandInv, Goes, Stops, SameFrame, SameTask, SamePlan, Calm, Quiet, Aside, Retiring,
         Undoing, Over, TypeInv, Memory
<1>4. CASE FindLegacy
  BY <1>4, FindLegacyFact
     DEF CommandInv, Goes, Stops, SameFrame, SameTask, SamePlan, Calm, Quiet, Aside, Retiring,
         Undoing, Over, TypeInv, Memory
<1>5. CASE Verify
  BY <1>5, VerifyFact
     DEF CommandInv, Stops, SameTask, SamePlan, Calm, Quiet, Aside, Retiring, Undoing, Over,
         SameDisk, TypeInv, Memory
<1>6. CASE Commit
  BY <1>6, CommitFact
     DEF CommandInv, Goes, Stops, SameFrame, SameTask, SamePlan, Calm, Quiet, Aside, Retiring,
         Undoing, Over, SameDisk, TypeInv, Memory
<1>7. CASE Guard
  BY <1>7, GuardFact
     DEF CommandInv, Stops, SameTask, SamePlan, Calm, Quiet, Aside, Retiring, Undoing, Over,
         SameDisk, TypeInv, Memory
<1>8. CASE Unguard
  BY <1>8, UnguardFact
     DEF CommandInv, Stops, SameTask, SamePlan, Calm, Quiet, Aside, Retiring, Undoing, Over,
         TypeInv, Memory
<1>9. CASE Prepare
  BY <1>9, PrepareFact
     DEF CommandInv, Stops, Captures, SameTask, SamePlan, Quiet, Aside, Retiring, Undoing, Over,
         SameDisk, TypeInv, Memory
<1>10. CASE Stage
  BY <1>10, StageFact
     DEF CommandInv, Stops, SameTask, SamePlan, Calm, Quiet, Aside, Retiring, Undoing, Over,
         SameDisk, TypeInv, Memory
<1>11. CASE Recheck
  BY <1>11, RecheckFact
     DEF CommandInv, Goes, Stops, SameFrame, SameTask, SamePlan, Calm, Quiet, Aside, Retiring,
         Undoing, Over, TypeInv, Memory
<1>12. CASE Snapshot
  BY <1>12, SnapshotFact
     DEF CommandInv, Goes, Stops, SameFrame, SameTask, SamePlan, Calm, Quiet, Aside, Retiring,
         Undoing, Over, TypeInv, Memory
<1>13. CASE Capture
  BY <1>13, CaptureFact
     DEF CommandInv, Stops, Captures, SameTask, SamePlan, Quiet, Aside, Retiring, Undoing, Over,
         TypeInv, Memory
<1>14. CASE Quarantine
  BY <1>14, QuarantineFact
     DEF CommandInv, Goes, Stops, SameFrame, SameTask, SamePlan, Calm, Quiet, Aside, Retiring,
         Undoing, Over, TypeInv, Memory
<1>15. CASE Move
  <2>1. Quiet /\ tx.pc = "move" /\ there' = there
    BY <1>15, MoveFact
  <2>2. CASE Goes("move")
    BY <2>1, <2>2 DEF CommandInv, Goes, SameFrame, SameTask, SamePlan, Quiet, Aside
  <2>3. CASE Turns("OBS_PLUGIN_DRIFT")
    BY <2>1, <2>3
       DEF CommandInv, Turns, SameFrame, SameTask, SamePlan, Quiet, Aside, Retiring, Undoing, Over
  <2>4. QED
    BY <1>15, <2>2, <2>3, MoveFact
<1>16. CASE Publish
  BY <1>16, PublishFact
     DEF CommandInv, Goes, Turns, SameFrame, SameTask, SamePlan, Calm, Quiet, Aside, Retiring,
         Undoing, Over, TypeInv, Memory
<1>17. CASE Settle
  BY <1>17, SettleFact
     DEF CommandInv, Turns, SameFrame, SameTask, SamePlan, Calm, Quiet, Aside, Retiring, Undoing,
         Over, SameDisk, TypeInv, Memory
<1>18. CASE Empty
  BY <1>18, EmptyFact
     DEF CommandInv, Goes, SameFrame, SameTask, SamePlan, Calm, Quiet, Aside, Retiring, Undoing,
         Over, TypeInv, Memory
<1>19. CASE RetireStart
  BY <1>19, RetireStartFact, SMTT(30)
     DEF CommandInv, Turns, Fails, GivesUp, SameFrame, SameTask, SamePlan, SameMood, Calm, Quiet,
         Aside, Retiring, Undoing, Over, SameDisk, TypeInv, Memory
<1>20. ASSUME NEW n \in Names, RetireFile(n) PROVE CommandInv'
  BY <1>20, RetireFileFact
     DEF CommandInv, SameFrame, SameTask, SamePlan, Calm, Quiet, Aside, Retiring, Undoing, Over,
         TypeInv, Memory
<1>21. CASE RetireDirectory
  BY <1>21, RetireDirectoryFact
     DEF CommandInv, Goes, SameFrame, SameTask, SamePlan, Calm, Quiet, Aside, Retiring, Undoing,
         Over, TypeInv, Memory
<1>22. CASE Retired
  BY <1>22, RetiredFact
     DEF CommandInv, Goes, Leaves, SameFrame, SameTask, SamePlan, Calm, Quiet, Aside, Retiring,
         Undoing, Over, TypeInv, Memory
<1>23. CASE RetireBreaks
  BY <1>23, RetireBreaksFact
     DEF CommandInv, Turns, Fails, GivesUp, SameFrame, SameTask, SamePlan, Calm, Quiet, Aside,
         Retiring, Undoing, Over, TypeInv, Memory
<1>24. CASE Final
  BY <1>24, FinalFact
     DEF CommandInv, Turns, Leaves, SameFrame, SameTask, SamePlan, Calm, Quiet, Aside, Retiring,
         Undoing, Over, TypeInv, Memory
<1>25. CASE StartRollback
  BY <1>25, StartRollbackFact
     DEF CommandInv, Goes, Spoils, SameFrame, SameTask, SamePlan, SameMood, Calm, Quiet, Aside,
         Retiring, Undoing, Over, TypeInv, Memory
<1>26. CASE Unpublish
  BY <1>26, UnpublishFact
     DEF CommandInv, Passes, SameFrame, SameTask, SamePlan, Calm, Quiet, Aside, Retiring, Undoing, Over,
         TypeInv, Memory
<1>27. CASE Unpublished
  BY <1>27, UnpublishedFact
     DEF CommandInv, Goes, SameFrame, SameTask, SamePlan, Calm, Quiet, Aside, Retiring, Undoing,
         Over, TypeInv, Memory
<1>28. CASE Restore
  BY <1>28, RestoreFact
     DEF CommandInv, Skips, SameFrame, SameTask, SamePlan, Quiet, Aside, Retiring, Undoing, Over,
         TypeInv, Memory
<1>29. CASE Restored
  BY <1>29, RestoredFact
     DEF CommandInv, Goes, Spoils, SameFrame, SameTask, SamePlan, Calm, Quiet, Aside, Retiring,
         Undoing, Over, TypeInv, Memory
<1>30. CASE Crash
  BY <1>30, CrashFact
     DEF CommandInv, Goes, SameFrame, SameTask, SamePlan, Calm, Quiet, Aside, Retiring, Undoing,
         Over, TypeInv, Memory
<1>31. ASSUME NEW p \in Places, NEW n \in Names, Drift(p, n) PROVE CommandInv'
  BY <1>31, DriftFact DEF CommandInv, TypeInv, Memory
<1>32. CASE UNCHANGED vars
  BY <1>32, SameFact DEF CommandInv, TypeInv, Memory
<1>33. CASE Look
  BY <1>33, LookFact
     DEF CommandInv, Goes, Turns, Passes, Skips, SameFrame, SameTask, SamePlan, SameMood, SameDisk,
         Calm, Quiet, Aside, Retiring, Undoing, Over, TypeInv, Memory
<1>34. CASE Confirm
  BY <1>34, ConfirmFact
     DEF CommandInv, Turns, SameFrame, SameTask, SamePlan, SameMood, Calm, Quiet, Aside, Retiring,
         Undoing, Over, TypeInv, Memory
<1>35. CASE Record
  BY <1>35, RecordFact
     DEF CommandInv, Turns, SameFrame, SameTask, SamePlan, Calm, Quiet, Aside, Retiring, Undoing,
         Over, TypeInv, Memory
<1>36. QED
  BY <1>1, <1>2, <1>3, <1>4, <1>5, <1>6, <1>7, <1>8, <1>9, <1>10, <1>11, <1>12, <1>13, <1>14,
     <1>15, <1>16, <1>17, <1>18, <1>19, <1>20, <1>21, <1>22, <1>23, <1>24, <1>25, <1>26, <1>27,
     <1>28, <1>29, <1>30, <1>31, <1>32, <1>33, <1>34, <1>35
     DEF Next, Installer, Reading, Forward, Retire, Backward, Look

\* Write bits go under the guard only, and only on POSIX.
LEMMA ModeStep == ASSUME IInv, [Next]_vars PROVE ModeInv'
<1> USE DEF IInv
<1>1. ASSUME NEW cmd \in {"install", "upgrade", "verify", "uninstall"}, NEW t \in Targets,
            NEW b \in Bundles, Begin(cmd, t, b)
     PROVE  ModeInv'
  BY <1>1, BeginFact DEF ModeInv, SameDisk
<1>2. CASE Refuse
  BY <1>2, RefuseFact DEF ModeInv, Stops, Calm, Quiet, SameDisk, Over, TypeInv, Memory
<1>3. CASE ValidateBundle
  BY <1>3, ValidateBundleFact
     DEF ModeInv, Goes, Stops, SameFrame, SameTask, SamePlan, SameMood, Calm, Quiet, SameReport,
         SameDisk, Over, TypeInv, Memory
<1>4. CASE FindLegacy
  BY <1>4, FindLegacyFact
     DEF ModeInv, Goes, Stops, SameFrame, SameTask, SamePlan, SameMood, Calm, Quiet, SameReport,
         SameDisk, Over, TypeInv, Memory
<1>5. CASE Verify
  BY <1>5, VerifyFact DEF ModeInv, Stops, Calm, Quiet, SameDisk, Over, TypeInv, Memory
<1>6. CASE Commit
  BY <1>6, CommitFact
     DEF ModeInv, Goes, Stops, SameFrame, SameTask, SamePlan, SameMood, Calm, Quiet, SameReport,
         SameDisk, Over, TypeInv, Memory
<1>7. CASE Guard
  BY <1>7, GuardFact DEF ModeInv, Stops, SameTask, SamePlan, Calm, Quiet, Over, TypeInv, Memory
<1>8. CASE Unguard
  BY <1>8, UnguardFact DEF ModeInv, Stops, Calm, Quiet, Over, TypeInv, Memory
<1>9. CASE Prepare
  BY <1>9, PrepareFact DEF ModeInv, Stops, Captures, Quiet, SameDisk, Over, TypeInv, Memory
<1>10. CASE Stage
  BY <1>10, StageFact DEF ModeInv, Stops, SameMood, Calm, Quiet, SameReport, Over, TypeInv, Memory
<1>11. CASE Recheck
  BY <1>11, RecheckFact
     DEF ModeInv, Goes, Stops, SameFrame, SameTask, SamePlan, SameMood, Calm, Quiet, SameReport,
         SameDisk, Over, TypeInv, Memory
<1>12. CASE Snapshot
  BY <1>12, SnapshotFact
     DEF ModeInv, Goes, Stops, SameFrame, SameTask, SamePlan, SameMood, Calm, Quiet, SameReport,
         SameDisk, Over, TypeInv, Memory
<1>13. CASE Capture
  BY <1>13, CaptureFact DEF ModeInv, Stops, Captures, Quiet, SameDisk, Over, TypeInv, Memory
<1>14. CASE Quarantine
  BY <1>14, QuarantineFact
     DEF ModeInv, Goes, Stops, SameFrame, SameTask, SamePlan, SameMood, Calm, Quiet, SameReport,
         SameDisk, Over, TypeInv, Memory
<1>15. CASE Move
  BY <1>15, MoveFact
     DEF ModeInv, Goes, Turns, SameFrame, SameTask, SamePlan, SameMood, Quiet, SameReport, Over,
         TypeInv, Memory
<1>16. CASE Publish
  BY <1>16, PublishFact
     DEF ModeInv, Goes, Turns, SameFrame, SameTask, SamePlan, SameMood, Calm, Quiet, SameReport,
         Over, TypeInv, Memory
<1>17. CASE Settle
  BY <1>17, SettleFact
     DEF ModeInv, Turns, SameFrame, SameTask, SamePlan, SameMood, Calm, Quiet, SameReport, Over,
         TypeInv, Memory
<1>18. CASE Empty
  BY <1>18, EmptyFact
     DEF ModeInv, Goes, SameFrame, SameTask, SamePlan, SameMood, Calm, Quiet, SameReport, Over,
         TypeInv, Memory
<1>19. CASE RetireStart
  BY <1>19, RetireStartFact
     DEF ModeInv, Turns, Fails, GivesUp, SameFrame, SameTask, SamePlan, SameMood, Calm, Quiet,
         SameReport, Over, TypeInv, Memory
<1>20. ASSUME NEW n \in Names, RetireFile(n) PROVE ModeInv'
  BY <1>20, RetireFileFact
     DEF ModeInv, SameFrame, SameTask, SamePlan, SameMood, Calm, Quiet, SameReport, TypeInv,
         Memory
<1>21. CASE RetireDirectory
  BY <1>21, RetireDirectoryFact
     DEF ModeInv, Goes, SameFrame, SameTask, SamePlan, SameMood, Calm, Quiet, SameReport, Over,
         TypeInv, Memory
<1>22. CASE Retired
  BY <1>22, RetiredFact
     DEF ModeInv, Goes, Leaves, SameFrame, SameTask, SamePlan, SameMood, Calm, Quiet, SameReport,
         SameDisk, Over, TypeInv, Memory
<1>23. CASE RetireBreaks
  BY <1>23, RetireBreaksFact
     DEF ModeInv, Turns, Fails, GivesUp, SameFrame, SameTask, SamePlan, Calm, Quiet, SameReport,
         Over, TypeInv, Memory
<1>24. CASE Final
  BY <1>24, FinalFact
     DEF ModeInv, Turns, Leaves, SameFrame, SameTask, SamePlan, SameMood, Calm, Quiet, SameReport,
         SameDisk, Over, TypeInv, Memory
<1>25. CASE StartRollback
  BY <1>25, StartRollbackFact
     DEF ModeInv, Goes, Spoils, SameFrame, SameTask, SamePlan, SameMood, Calm, Quiet, SameReport,
         Over, TypeInv, Memory
<1>26. CASE Unpublish
  BY <1>26, UnpublishFact
     DEF ModeInv, Passes, SameFrame, SameTask, SamePlan, Calm, Quiet, SameReport, TypeInv, Memory
<1>27. CASE Unpublished
  BY <1>27, UnpublishedFact
     DEF ModeInv, Goes, SameFrame, SameTask, SamePlan, SameMood, Calm, Quiet, SameReport, Over,
         TypeInv, Memory
<1>28. CASE Restore
  BY <1>28, RestoreFact
     DEF ModeInv, Skips, SameFrame, SameTask, SamePlan, Quiet, SameReport, TypeInv, Memory
<1>29. CASE Restored
  BY <1>29, RestoredFact
     DEF ModeInv, Goes, Spoils, SameFrame, SameTask, SamePlan, SameMood, Calm, Quiet, SameReport,
         Over, TypeInv, Memory
<1>30. CASE Crash
  BY <1>30, CrashFact
     DEF ModeInv, Goes, SameFrame, SameTask, SamePlan, Calm, Quiet, Over, TypeInv, Memory
<1>31. ASSUME NEW p \in Places, NEW n \in Names, Drift(p, n) PROVE ModeInv'
  BY <1>31, DriftFact DEF ModeInv
<1>32. CASE UNCHANGED vars
  BY <1>32, SameFact DEF ModeInv
<1>33. CASE Look
  BY <1>33, LookFact
     DEF ModeInv, Goes, Turns, Passes, Skips, SameFrame, SameTask, SamePlan, SameMood, SameDisk,
         Calm, Quiet, SameReport, Over, TypeInv, Memory
<1>34. CASE Confirm
  BY <1>34, ConfirmFact
     DEF ModeInv, Turns, SameFrame, SameTask, SamePlan, SameMood, Calm, Quiet, SameReport, Over,
         TypeInv, Memory
<1>35. CASE Record
  BY <1>35, RecordFact
     DEF ModeInv, Turns, SameFrame, SameTask, SamePlan, SameMood, Calm, Quiet, SameReport, Over,
         TypeInv, Memory
<1>36. QED
  BY <1>1, <1>2, <1>3, <1>4, <1>5, <1>6, <1>7, <1>8, <1>9, <1>10, <1>11, <1>12, <1>13, <1>14,
     <1>15, <1>16, <1>17, <1>18, <1>19, <1>20, <1>21, <1>22, <1>23, <1>24, <1>25, <1>26, <1>27,
     <1>28, <1>29, <1>30, <1>31, <1>32, <1>33, <1>34, <1>35
     DEF Next, Installer, Reading, Forward, Retire, Backward, Look

\* What a transaction has done, and whether it is on its way back.
LEMMA ProgressStep == ASSUME IInv, [Next]_vars PROVE ProgressInv'
<1> USE DEF IInv

<1>0. /\ \A v \in {1, 2} : Len(Owned(v)) \in Nat /\ Len(Owned(v)) >= 1
      /\ Len(Owned(Current)) \in Nat /\ Len(Owned(Current)) >= 1
      /\ tx.m \in Nat /\ tx.n \in Nat /\ tx.prev \in 0..2
      /\ tx.back \in BOOLEAN /\ tx.unclean \in BOOLEAN /\ tx.root \in BOOLEAN
      /\ tx.job \in {"none", "replace", "remove"}
  BY OwnedFact, NumberFact DEF TypeInv, Memory
<1>1. ASSUME NEW cmd \in {"install", "upgrade", "verify", "uninstall"}, NEW t \in Targets,
            NEW b \in Bundles, Begin(cmd, t, b)
     PROVE  ProgressInv'
  BY <1>1, BeginFact DEF ProgressInv, Early, Aside, Retiring, Undoing, Over
<1>2. CASE Refuse
  BY <1>2, RefuseFact, <1>0
     DEF ProgressInv, Stops, SameTask, SamePlan, Early, Aside, Retiring, Undoing, Over, CommandInv
<1>3. CASE ValidateBundle
  BY <1>3, ValidateBundleFact, <1>0
     DEF ProgressInv, Goes, Stops, SameFrame, SameTask, SamePlan, SameMood, Calm, Quiet, Early,
         Aside, Retiring, Undoing, Over, CommandInv
<1>4. CASE FindLegacy
  BY <1>4, FindLegacyFact, <1>0
     DEF ProgressInv, Goes, Stops, SameFrame, SameTask, SamePlan, SameMood, Calm, Quiet, Early,
         Aside, Retiring, Undoing, Over, CommandInv
<1>5. CASE Verify
  BY <1>5, VerifyFact, <1>0
     DEF ProgressInv, Stops, SameTask, SamePlan, SameMood, Calm, Quiet, Early, Aside, Retiring,
         Undoing, Over, CommandInv
<1>6. CASE Commit
  BY <1>6, CommitFact, <1>0
     DEF ProgressInv, Goes, Stops, SameFrame, SameTask, SamePlan, SameMood, Calm, Quiet, Early,
         Aside, Retiring, Undoing, Over, CommandInv
<1>7. CASE Guard
  BY <1>7, GuardFact, <1>0, SMTT(30)
     DEF ProgressInv, Stops, SameTask, SamePlan, SameMood, Calm, Quiet, SameCounts, SameAside,
         Early, Aside, Retiring, Undoing, Over, CommandInv
<1>8. CASE Unguard
  BY <1>8, UnguardFact, <1>0
     DEF ProgressInv, Stops, SameTask, SamePlan, Early, Aside, Retiring, Undoing, Over, CommandInv
<1>9. CASE Prepare
  BY <1>9, PrepareFact, <1>0
     DEF ProgressInv, Stops, Captures, SameTask, SamePlan, SameCounts, SameAside, Early, Aside,
         Retiring, Undoing, Over, CommandInv
<1>10. CASE Stage
  BY <1>10, StageFact, <1>0, SMTT(30)
     DEF ProgressInv, Stops, SameTask, SamePlan, SameMood, Calm, Quiet, SameCounts, SameAside,
         Early, Aside, Retiring, Undoing, Over, CommandInv
<1>11. CASE Recheck
  BY <1>11, RecheckFact, <1>0, SMTT(30)
     DEF ProgressInv, Goes, Stops, SameFrame, SameTask, SamePlan, SameMood, Calm, Quiet,
         SameCounts, SameAside, Early, Aside, Retiring, Undoing, Over, CommandInv
<1>12. CASE Snapshot
  BY <1>12, SnapshotFact, <1>0, SMTT(30)
     DEF ProgressInv, Goes, Stops, SameFrame, SameTask, SamePlan, SameMood, Calm, Quiet,
         SameCounts, SameAside, Early, Aside, Retiring, Undoing, Over, CommandInv
<1>13. CASE Capture
  <2>1. CASE Stops
    BY <2>1, <1>13, CaptureFact
       DEF ProgressInv, CommandInv, Stops, SameTask, SamePlan, Early, Aside, Retiring, Undoing,
           Over
  <2>2. ASSUME NEW v \in {1, 2}, tx.legacy \/ v = Current, Captures(v, "remove", "quarantine")
        PROVE  ProgressInv'
    BY <2>2 DEF ProgressInv, Captures, Early, Retiring, Undoing, Over
  <2>3. QED
    BY <1>13, <2>1, <2>2, CaptureFact
<1>14. CASE Quarantine
  BY <1>14, QuarantineFact, <1>0, SMTT(30)
     DEF ProgressInv, Goes, Stops, SameFrame, SameTask, SamePlan, SameMood, Calm, Quiet,
         SameCounts, SameAside, Early, Aside, Retiring, Undoing, Over, CommandInv
<1>15. CASE Move
  <2>1. /\ tx.pc = "move" /\ ~tx.back /\ ~tx.unclean /\ tx.root /\ tx.guard.ver = 0 /\ tx.err = "ok"
        /\ tx.job \in {"replace", "remove"} /\ tx.prev \in {1, 2}
        /\ tx.m <= Len(Owned(tx.prev)) /\ tx.n <= Len(Owned(Current))
        /\ tx.n > 0 => tx.m = Len(Owned(tx.prev))
        /\ tx.job = "remove" => tx.n = 0
    BY <1>15, <1>0, MoveFact DEF ProgressInv, CommandInv, Early, Aside, Over
  <2>2. CASE Goes("move")
    BY <1>0, <2>1, <2>2
       DEF ProgressInv, Goes, SameFrame, SameTask, SamePlan, SameCounts, SameAside, SameMood, Early,
           Retiring, Undoing, Over
  <2>3. CASE Turns("OBS_PLUGIN_DRIFT") /\ SameAside
    BY <2>1, <2>3
       DEF ProgressInv, Turns, SameFrame, SameTask, SamePlan, SameCounts, SameAside, Early,
           Retiring, Undoing, Over
  <2>4. QED
    BY <1>15, <2>2, <2>3, MoveFact
<1>16. CASE Publish
  <2>1. /\ tx.pc = "move" /\ ~tx.back /\ ~tx.unclean /\ tx.root /\ tx.guard.ver = 0 /\ tx.err = "ok"
        /\ tx.job \in {"replace", "remove"} /\ tx.prev \in {1, 2}
        /\ tx.m <= Len(Owned(tx.prev)) /\ tx.n <= Len(Owned(Current))
        /\ tx.n > 0 => tx.m = Len(Owned(tx.prev))
        /\ tx.job = "remove" => tx.n = 0
    BY <1>16, <1>0, PublishFact DEF ProgressInv, CommandInv, Early, Aside, Over
  <2>2. CASE Goes("move")
    BY <1>0, <2>1, <2>2
       DEF ProgressInv, Goes, SameFrame, SameTask, SamePlan, SameCounts, SameAside, SameMood, Early,
           Retiring, Undoing, Over
  <2>3. CASE Turns("OBS_PLUGIN_DRIFT") /\ SameAside
    BY <2>1, <2>3
       DEF ProgressInv, Turns, SameFrame, SameTask, SamePlan, SameCounts, SameAside, Early,
           Retiring, Undoing, Over
  <2>4. QED
    BY <1>16, <2>2, <2>3, PublishFact
<1>17. CASE Settle
  <2>1. /\ tx.pc = "move" /\ ~tx.back /\ ~tx.unclean /\ tx.root /\ tx.guard.ver = 0 /\ tx.err = "ok"
        /\ tx.job \in {"replace", "remove"} /\ tx.prev \in {1, 2}
        /\ tx.m <= Len(Owned(tx.prev)) /\ tx.n <= Len(Owned(Current))
        /\ tx.n > 0 => tx.m = Len(Owned(tx.prev))
        /\ tx.job = "remove" => tx.n = 0
    BY <1>17, <1>0, SettleFact DEF ProgressInv, CommandInv, Early, Aside, Over
  <2>2. CASE /\ tx'.pc = "retire" /\ SameFrame /\ SameCounts /\ SameAside /\ SameMood
             /\ tx'.guard.ver = Current /\ tx.job = "replace" /\ tx.n = Len(Owned(Current))
    BY <1>0, <2>1, <2>2
       DEF ProgressInv, SameFrame, SameTask, SamePlan, SameCounts, SameAside, SameMood, Early,
           Retiring, Undoing, Over
  <2>3. CASE Turns("OBS_PLUGIN_DRIFT") /\ SameAside
    BY <2>1, <2>3
       DEF ProgressInv, Turns, SameFrame, SameTask, SamePlan, SameCounts, SameAside, Early,
           Retiring, Undoing, Over
  <2>4. QED
    BY <1>17, <2>2, <2>3, SettleFact
<1>18. CASE Empty
  BY <1>18, EmptyFact, <1>0, SMTT(30)
     DEF ProgressInv, Goes, SameFrame, SameTask, SamePlan, SameMood, Calm, Quiet, SameCounts,
         SameAside, Early, Aside, Retiring, Undoing, Over, CommandInv
<1>19. CASE RetireStart
  BY <1>19, RetireStartFact, <1>0, SMTT(30)
     DEF ProgressInv, Turns, Fails, GivesUp, SameFrame, SameTask, SamePlan, SameMood, Calm, Quiet,
         SameCounts, SameAside, Early, Aside, Retiring, Undoing, Over, CommandInv
<1>20. ASSUME NEW n \in Names, RetireFile(n) PROVE ProgressInv'
  BY <1>20, RetireFileFact, <1>0, SMTT(30)
     DEF ProgressInv, SameFrame, SameTask, SamePlan, SameMood, Calm, Quiet, SameCounts, Early,
         Aside, Retiring, Undoing, Over, CommandInv
<1>21. CASE RetireDirectory
  BY <1>21, RetireDirectoryFact, <1>0, SMTT(30)
     DEF ProgressInv, Goes, SameFrame, SameTask, SamePlan, SameMood, Calm, Quiet, SameCounts,
         SameAside, Early, Aside, Retiring, Undoing, Over, CommandInv
<1>22. CASE Retired
  BY <1>22, RetiredFact, <1>0, SMTT(30)
     DEF ProgressInv, Goes, Leaves, SameFrame, SameTask, SamePlan, SameMood, Calm, Quiet,
         SameCounts, SameAside, Early, Aside, Retiring, Undoing, Over, CommandInv
<1>23. CASE RetireBreaks
  BY <1>23, RetireBreaksFact, <1>0
     DEF ProgressInv, Turns, Fails, GivesUp, SameFrame, SameTask, SamePlan, SameCounts, Early,
         Aside, Retiring, Undoing, Over, CommandInv
<1>24. CASE Final
  BY <1>24, FinalFact, <1>0
     DEF ProgressInv, Turns, Leaves, SameFrame, SameTask, SamePlan, SameMood, Calm, Quiet,
         SameCounts, SameAside, Early, Aside, Retiring, Undoing, Over, CommandInv
<1>25. CASE StartRollback
  <2>1. /\ tx.pc = "rollback" /\ tx.back /\ tx.err # "ok" /\ ~tx.unclean
        /\ tx.job \in {"replace", "remove"} /\ tx.prev \in {1, 2}
        /\ tx.m <= Len(Owned(tx.prev)) /\ tx.n <= Len(Owned(Current))
        /\ tx.n > 0 => tx.m = Len(Owned(tx.prev))
        /\ tx.job = "remove" => tx.n = 0 /\ tx.guard.ver = 0 /\ tx.root
    BY <1>25, <1>0, StartRollbackFact DEF ProgressInv, CommandInv, Undoing, Aside, Over
  <2>2. CASE Goes("restore") /\ tx.job = "remove"
    BY <1>0, <2>1, <2>2
       DEF ProgressInv, Goes, SameFrame, SameTask, SamePlan, SameCounts, SameAside, SameMood, Early,
           Retiring, Undoing, Over
  <2>3. CASE Goes("unpublish")
    BY <1>0, <2>1, <2>3
       DEF ProgressInv, Goes, SameFrame, SameTask, SamePlan, SameCounts, SameAside, SameMood, Early,
           Retiring, Undoing, Over
  <2>4. CASE \E pc \in {"restore", "retire"} :
               Spoils(pc) /\ (pc = "restore" => tx.job = "remove")
    BY <2>1, <2>4
       DEF ProgressInv, Spoils, SameFrame, SameTask, SamePlan, SameCounts, SameAside, Early,
           Retiring, Undoing, Over
  <2>5. QED
    BY <1>25, <2>2, <2>3, <2>4, StartRollbackFact
<1>26. CASE Unpublish
  BY <1>26, UnpublishFact, <1>0
     DEF ProgressInv, Passes, SameFrame, SameTask, SamePlan, SameAside, Early, Aside, Retiring, Undoing,
         Over, CommandInv
<1>27. CASE Unpublished
  BY <1>27, UnpublishedFact, <1>0
     DEF ProgressInv, Goes, SameFrame, SameTask, SamePlan, SameMood, Calm, Quiet, SameCounts,
         SameAside, Early, Aside, Retiring, Undoing, Over, CommandInv
<1>28. CASE Restore
  <2>1. /\ tx.pc = "restore" /\ tx.back /\ tx.err # "ok" /\ tx.n = 0 /\ tx.m > 0
        /\ tx.job \in {"replace", "remove"} /\ tx.prev \in {1, 2}
        /\ tx.m <= Len(Owned(tx.prev))
        /\ tx.job = "remove" => tx.guard.ver = 0 /\ tx.root
    BY <1>28, <1>0, RestoreFact DEF ProgressInv, CommandInv, Undoing, Aside, Over
  <2>2. /\ tx'.pc = "restore" /\ tx'.m = tx.m - 1 /\ tx'.n = tx.n
        /\ SameFrame /\ tx'.root = tx.root /\ tx'.guard = tx.guard
        /\ tx'.back = tx.back /\ tx'.err = tx.err
    BY <1>28, RestoreFact DEF Skips, SameAside
  <2>3. QED
    BY <1>0, <2>1, <2>2 DEF ProgressInv, SameFrame, SameTask, SamePlan
<1>29. CASE Restored
  BY <1>29, RestoredFact, <1>0, SMTT(30)
     DEF ProgressInv, Goes, Spoils, SameFrame, SameTask, SamePlan, SameMood, Calm, Quiet,
         SameCounts, SameAside, Early, Aside, Retiring, Undoing, Over, CommandInv
<1>30. CASE Crash
  BY <1>30, CrashFact, <1>0, SMTT(30)
     DEF ProgressInv, Goes, SameFrame, SameTask, SamePlan, SameMood, Calm, Quiet, SameCounts,
         SameAside, Early, Aside, Retiring, Undoing, Over, CommandInv
<1>31. ASSUME NEW p \in Places, NEW n \in Names, Drift(p, n) PROVE ProgressInv'
  BY <1>31, DriftFact DEF ProgressInv
<1>32. CASE UNCHANGED vars
  BY <1>32, SameFact DEF ProgressInv
<1>33. CASE Look
  <2>1. CASE Goes(tx.pc)
    BY <1>33, <2>1, LookFact, <1>0
       DEF ProgressInv, Goes, SameFrame, SameTask, SamePlan, SameCounts, SameAside, SameMood, Early,
           Retiring, Undoing, Over
  <2>2. CASE tx.pc = "move" /\ Turns("OBS_PLUGIN_DRIFT") /\ SameAside
    BY <2>2, <1>0
       DEF ProgressInv, CommandInv, Turns, SameFrame, SameTask, SamePlan, SameCounts, SameAside,
           Early, Aside, Retiring, Undoing, Over
  <2>3. CASE tx.pc = "unpublish" /\ tx.n > 0 /\ Passes
    BY <2>3, <1>0
       DEF ProgressInv, Passes, SameFrame, SameTask, SamePlan, SameAside, Early, Aside, Retiring,
           Undoing, Over, CommandInv
  <2>4. CASE tx.pc = "restore" /\ tx.m > 0 /\ Skips
    BY <2>4, <1>0
       DEF ProgressInv, Skips, SameFrame, SameTask, SamePlan, SameAside, Early, Aside, Retiring,
           Undoing, Over, CommandInv
  <2>5. QED
    BY <1>33, <2>1, <2>2, <2>3, <2>4, LookFact
<1>34. CASE Confirm
  <2>1. /\ tx.pc = "move" /\ ~tx.back /\ ~tx.unclean /\ tx.root /\ tx.guard.ver = 0 /\ tx.err = "ok"
        /\ tx.job \in {"replace", "remove"} /\ tx.prev \in {1, 2}
        /\ tx.m <= Len(Owned(tx.prev)) /\ tx.n <= Len(Owned(Current))
        /\ tx.n > 0 => tx.m = Len(Owned(tx.prev))
        /\ tx.job = "remove" => tx.n = 0
    BY <1>34, <1>0, ConfirmFact DEF ProgressInv, CommandInv, Early, Aside, Over
  <2>2. CASE /\ tx'.pc = "move" /\ SameFrame /\ SameMood /\ tx'.guard = tx.guard
             /\ tx'.m = tx.m + 1 /\ tx.m < Len(Owned(tx.prev)) /\ tx'.n = tx.n
             /\ tx'.root = tx.root
    BY <1>0, <2>1, <2>2
       DEF ProgressInv, SameFrame, SameTask, SamePlan, SameMood, Early, Retiring, Undoing, Over
  <2>3. CASE Turns("OBS_PLUGIN_DRIFT") /\ SameAside
    BY <2>1, <2>3
       DEF ProgressInv, Turns, SameFrame, SameTask, SamePlan, SameCounts, SameAside, Early,
           Retiring, Undoing, Over
  <2>4. QED
    BY <1>34, <2>2, <2>3, ConfirmFact
<1>35. CASE Record
  <2>1. /\ tx.pc = "move" /\ ~tx.back /\ ~tx.unclean /\ tx.root /\ tx.guard.ver = 0 /\ tx.err = "ok"
        /\ tx.job \in {"replace", "remove"} /\ tx.prev \in {1, 2}
        /\ tx.m <= Len(Owned(tx.prev)) /\ tx.n <= Len(Owned(Current))
        /\ tx.n > 0 => tx.m = Len(Owned(tx.prev))
        /\ tx.job = "remove" => tx.n = 0
    BY <1>35, <1>0, RecordFact DEF ProgressInv, CommandInv, Early, Aside, Over
  <2>2. CASE /\ tx'.pc = "move" /\ SameFrame /\ SameMood /\ tx'.guard = tx.guard
             /\ tx'.m = tx.m /\ tx'.n = tx.n + 1 /\ tx.n < Len(Owned(Current))
             /\ tx.m = Len(Owned(tx.prev)) /\ tx.job = "replace" /\ tx'.root = tx.root
    BY <1>0, <2>1, <2>2 DEF ProgressInv, SameFrame, SameTask, SamePlan, SameMood
  <2>3. CASE Turns("OBS_PLUGIN_DRIFT") /\ SameAside
    BY <2>1, <2>3
       DEF ProgressInv, Turns, SameFrame, SameTask, SamePlan, SameCounts, SameAside, Early,
           Retiring, Undoing, Over
  <2>4. QED
    BY <1>35, <2>2, <2>3, RecordFact DEF SameAside
<1>36. QED
  BY <1>1, <1>2, <1>3, <1>4, <1>5, <1>6, <1>7, <1>8, <1>9, <1>10, <1>11, <1>12, <1>13, <1>14,
     <1>15, <1>16, <1>17, <1>18, <1>19, <1>20, <1>21, <1>22, <1>23, <1>24, <1>25, <1>26, <1>27,
     <1>28, <1>29, <1>30, <1>31, <1>32, <1>33, <1>34, <1>35
     DEF Next, Installer, Reading, Forward, Retire, Backward, Look

\* Nothing lies in a directory that is not there, and a recovery directory is new.
LEMMA SpaceStep == ASSUME IInv, [Next]_vars PROVE SpaceInv'
<1> USE DEF IInv

<1>0. /\ home \in Places /\ side \in Places /\ home # side /\ home[2] = "home" /\ side[2] # "home"
      /\ \A n \in Names : Nothing[n] = NoFile
      /\ tx.back \in BOOLEAN /\ tx.root \in BOOLEAN
  BY PlaceFact, NothingFact DEF TypeInv, Memory
<1>1. ASSUME NEW cmd \in {"install", "upgrade", "verify", "uninstall"}, NEW t \in Targets,
            NEW b \in Bundles, Begin(cmd, t, b)
     PROVE  SpaceInv'
  BY <1>1, BeginFact
     DEF SpaceInv, NothingKept, SameDisk, Aside, Retiring, Undoing, Over, ProgressInv
<1>2. CASE Refuse
  BY <1>2, RefuseFact, <1>0
     DEF SpaceInv, NothingKept, Stops, Calm, Quiet, SameAside, SameDisk, Aside, Retiring, Undoing,
         Over, CommandInv, ProgressInv
<1>3. CASE ValidateBundle
  BY <1>3, ValidateBundleFact, <1>0
     DEF SpaceInv, NothingKept, Goes, Stops, SameFrame, SameTask, SamePlan, Calm, Quiet,
         SameAside, SameDisk, Aside, Retiring, Undoing, Over, CommandInv, ProgressInv
<1>4. CASE FindLegacy
  BY <1>4, FindLegacyFact, <1>0
     DEF SpaceInv, NothingKept, Goes, Stops, SameFrame, SameTask, SamePlan, Calm, Quiet,
         SameAside, SameDisk, Aside, Retiring, Undoing, Over, CommandInv, ProgressInv
<1>5. CASE Verify
  BY <1>5, VerifyFact, <1>0
     DEF SpaceInv, NothingKept, Stops, SameTask, SamePlan, Calm, Quiet, SameAside, SameDisk,
         Aside, Retiring, Undoing, Over, CommandInv, ProgressInv
<1>6. CASE Commit
  BY <1>6, CommitFact, <1>0
     DEF SpaceInv, NothingKept, Goes, Stops, SameFrame, SameTask, SamePlan, Calm, Quiet,
         SameAside, SameDisk, Aside, Retiring, Undoing, Over, CommandInv, ProgressInv
<1>7. CASE Guard
  BY <1>7, GuardFact, <1>0
     DEF SpaceInv, NothingKept, Stops, SameTask, SamePlan, Calm, Quiet, SameAside, Aside,
         Retiring, Undoing, Over, CommandInv, ProgressInv
<1>8. CASE Unguard
  BY <1>8, UnguardFact, <1>0
     DEF SpaceInv, NothingKept, Stops, Calm, Quiet, SameAside, Aside, Retiring, Undoing, Over,
         CommandInv, ProgressInv
<1>9. CASE Prepare
  BY <1>9, PrepareFact, <1>0
     DEF SpaceInv, NothingKept, Stops, Captures, Quiet, SameAside, SameDisk, Aside, Retiring,
         Undoing, Over, CommandInv, ProgressInv
<1>10. CASE Stage
  BY <1>10, StageFact, <1>0
     DEF SpaceInv, NothingKept, Stops, SameTask, SamePlan, Calm, Quiet, SameAside, SameDisk,
         Aside, Retiring, Undoing, Over, CommandInv, ProgressInv
<1>11. CASE Recheck
  <2>1. /\ at' = at /\ leftover' = leftover /\ touched' = touched /\ tx.job = "replace"
        /\ tx.pc = "recheck" /\ tx.root
    BY <1>11, RecheckFact DEF Calm, Quiet, CommandInv, ProgressInv, Early
  <2>2. CASE side \notin there /\ there' = there \cup {side} /\ Goes("snapshot")
    BY <1>0, <2>1, <2>2
       DEF SpaceInv, NothingKept, Goes, SameFrame, SameTask, SamePlan, SameAside, Aside, Retiring,
           Undoing, Over
  <2>3. CASE Stops
    BY <1>0, <2>1, <2>3
       DEF SpaceInv, NothingKept, Stops, SameAside, SameDisk, Aside, Retiring, Undoing, Over
  <2>4. QED
    BY <1>11, <2>2, <2>3, RecheckFact
<1>12. CASE Snapshot
  BY <1>12, SnapshotFact, <1>0
     DEF SpaceInv, NothingKept, Goes, Stops, SameFrame, SameTask, SamePlan, Calm, Quiet,
         SameAside, SameDisk, Aside, Retiring, Undoing, Over, CommandInv, ProgressInv
<1>13. CASE Capture
  BY <1>13, CaptureFact, <1>0
     DEF SpaceInv, NothingKept, Stops, Captures, Quiet, SameAside, SameDisk, Aside, Retiring,
         Undoing, Over, CommandInv, ProgressInv
<1>14. CASE Quarantine
  BY <1>14, QuarantineFact, <1>0
     DEF SpaceInv, NothingKept, Goes, Stops, SameFrame, SameTask, SamePlan, Calm, Quiet,
         SameAside, SameDisk, Aside, Retiring, Undoing, Over, CommandInv, ProgressInv
<1>15. CASE Move
  <2>1. /\ Quiet /\ tx.pc = "move" /\ there' = there /\ side \in there
    BY <1>15, MoveFact DEF SpaceInv
  <2>2. \A p \in Places \ there', n \in Names : at'[p][n] = NoFile
    BY <1>15, MoveAtFact, <2>1, <1>0 DEF SpaceInv
  <2>3. CASE Goes("move")
    BY <2>1, <2>2, <2>3, <1>0
       DEF SpaceInv, Goes, SameFrame, SameTask, SamePlan, SameMood, Quiet, SameAside, Aside,
           Retiring, Undoing, Over, CommandInv, ProgressInv
  <2>4. CASE Turns("OBS_PLUGIN_DRIFT") /\ SameAside
    BY <2>1, <2>2, <2>4, <1>0
       DEF SpaceInv, NothingKept, Turns, SameFrame, SameTask, SamePlan, Quiet, SameAside, Aside,
           Retiring, Undoing, Over, CommandInv, ProgressInv
  <2>5. QED
    BY <1>15, <2>3, <2>4, MoveFact
<1>16. CASE Publish
  <2>1. Quiet /\ tx.pc = "move" /\ there' = there /\ touched' = touched
    BY <1>16, PublishFact DEF Calm
  <2>2. /\ \A p \in Places, n \in Names : p # home => at'[p][n] = at[p][n]
        /\ \A p \in Places \ there, n \in Names : at'[p][n] = NoFile
    <3>1. CASE at' = at
      BY <3>1 DEF SpaceInv
    <3>2. CASE home \in there /\ \E n \in Names : Others(home, n)
      BY <3>2 DEF Others, SpaceInv
    <3>3. at' = at \/ (home \in there /\ \E n \in Names : Others(home, n))
      BY <1>16, PublishFact DEF Wrote
    <3>4. QED
      BY <3>1, <3>2, <3>3
  <2>3. CASE Goes("move")
    BY <2>1, <2>2, <2>3, <1>0
       DEF SpaceInv, Goes, SameFrame, SameTask, SamePlan, SameMood, Quiet, SameAside, Aside,
           Retiring, Undoing, Over, CommandInv, ProgressInv
  <2>4. CASE Turns("OBS_PLUGIN_DRIFT") /\ SameAside
    BY <2>1, <2>2, <2>4, <1>0
       DEF SpaceInv, NothingKept, Turns, SameFrame, SameTask, SamePlan, Quiet, SameAside, Aside,
           Retiring, Undoing, Over, CommandInv, ProgressInv
  <2>5. QED
    BY <1>16, <2>3, <2>4, PublishFact
<1>17. CASE Settle
  BY <1>17, SettleFact, <1>0
     DEF SpaceInv, NothingKept, Turns, SameFrame, SameTask, SamePlan, Calm, Quiet, SameAside,
         SameDisk, Aside, Retiring, Undoing, Over, CommandInv, ProgressInv
<1>18. CASE Empty
  <2>1. /\ at' = at /\ leftover' = leftover /\ touched' = touched /\ tx.job = "remove"
        /\ tx.pc = "move" /\ tx.root /\ Goes("retire")
    BY <1>18, EmptyFact DEF Calm, Quiet, ProgressInv
  <2>2. /\ there' \subseteq there
        /\ \A p \in there : p # home => p \in there'
        /\ \A p \in Places \ there', n \in Names : at'[p][n] = NoFile
    BY <1>0, <2>1, <1>18, EmptyFact DEF SpaceInv
  <2>3. QED
    BY <1>0, <2>1, <2>2
       DEF SpaceInv, NothingKept, Goes, SameFrame, SameTask, SamePlan, SameAside, Aside, Retiring,
           Undoing, Over
<1>19. CASE RetireStart
  BY <1>19, RetireStartFact, <1>0
     DEF SpaceInv, NothingKept, Turns, Fails, GivesUp, SameFrame, SameTask, SamePlan, SameMood,
         Calm, Quiet, SameAside, SameDisk, Aside, Retiring, Undoing, Over, CommandInv, ProgressInv
<1>20. ASSUME NEW n \in Names, RetireFile(n) PROVE SpaceInv'
  BY <1>20, RetireFileFact, <1>0
     DEF SpaceInv, NothingKept, SameFrame, SameTask, SamePlan, Calm, Quiet, Others, Cleared,
         CommandInv, ProgressInv
<1>21. CASE RetireDirectory
  BY <1>21, RetireDirectoryFact, <1>0
     DEF SpaceInv, NothingKept, Goes, SameFrame, SameTask, SamePlan, Calm, Quiet, SameAside,
         Aside, Retiring, Undoing, Over, CommandInv, ProgressInv
<1>22. CASE Retired
  BY <1>22, RetiredFact, <1>0
     DEF SpaceInv, NothingKept, Goes, Leaves, SameFrame, SameTask, SamePlan, Calm, Quiet,
         SameAside, SameDisk, Aside, Retiring, Undoing, Over, CommandInv, ProgressInv
<1>23. CASE RetireBreaks
  BY <1>23, RetireBreaksFact
     DEF SpaceInv, NothingKept, Turns, Fails, GivesUp, SameFrame, SameTask, SamePlan, Calm, Quiet,
         Aside, Retiring, Undoing, Over, CommandInv, ProgressInv
<1>24. CASE Final
  BY <1>24, FinalFact, <1>0
     DEF SpaceInv, NothingKept, Turns, Leaves, SameFrame, SameTask, SamePlan, SameMood, Calm,
         Quiet, SameAside, SameDisk, Aside, Retiring, Undoing, Over, CommandInv, ProgressInv
<1>25. CASE StartRollback
  BY <1>25, StartRollbackFact, <1>0
     DEF SpaceInv, NothingKept, Goes, Spoils, SameFrame, SameTask, SamePlan, SameMood, Calm,
         Quiet, SameAside, Aside, Retiring, Undoing, Over, CommandInv, ProgressInv
<1>26. CASE Unpublish
  BY <1>26, UnpublishFact, <1>0
     DEF SpaceInv, NothingKept, Passes, SameFrame, SameTask, SamePlan, Calm, Quiet, SameAside,
         Others, Cleared, CommandInv, ProgressInv
<1>27. CASE Unpublished
  BY <1>27, UnpublishedFact, <1>0
     DEF SpaceInv, NothingKept, Goes, SameFrame, SameTask, SamePlan, SameMood, Calm, Quiet,
         SameAside, SameDisk, Aside, Retiring, Undoing, Over, CommandInv, ProgressInv
<1>28. CASE Restore
  <2>1. /\ Quiet /\ tx.pc = "restore" /\ there' = there /\ home \in there
        /\ tx'.pc = "restore" /\ SameFrame /\ tx'.root = tx.root /\ tx'.back = tx.back
    BY <1>28, RestoreFact DEF Skips, SameAside, LookInv, SeenInv
  <2>2. \A p \in Places \ there', n \in Names : at'[p][n] = NoFile
    BY <1>28, RestoreAtFact, <2>1, <1>0 DEF SpaceInv
  <2>3. NothingKept => NothingKept'
    <3>1. ASSUME NothingKept, NEW n \in Names, NEW f, f = NoFile \/ f = tx.kept[n],
                 tx'.kept[n] = f, \A k \in Names : k # n => tx'.kept[k] = tx.kept[k]
          PROVE  NothingKept'
      BY <3>1 DEF NothingKept
    <3>2. CASE SameAside
      BY <3>2 DEF NothingKept, SameAside
    <3>3. QED
      BY <1>28, <3>1, <3>2, RestoreFact DEF Skips
  <2>4. QED
    BY <2>1, <2>2, <2>3, <1>0
       DEF SpaceInv, SameFrame, SameTask, SamePlan, Quiet, Aside, Retiring, Undoing, Over,
           CommandInv, ProgressInv
<1>29. CASE Restored
  BY <1>29, RestoredFact, <1>0
     DEF SpaceInv, NothingKept, Goes, Spoils, SameFrame, SameTask, SamePlan, SameMood, Calm,
         Quiet, SameAside, SameDisk, Aside, Retiring, Undoing, Over, CommandInv, ProgressInv
<1>30. CASE Crash
  BY <1>30, CrashFact, <1>0
     DEF SpaceInv, NothingKept, Goes, SameFrame, SameTask, SamePlan, SameMood, Calm, Quiet,
         SameAside, SameDisk, Aside, Retiring, Undoing, Over, CommandInv, ProgressInv
<1>31. ASSUME NEW p \in Places, NEW n \in Names, Drift(p, n) PROVE SpaceInv'
  BY <1>31, DriftFact, <1>0 DEF SpaceInv, NothingKept, Others, ProgressInv
<1>32. CASE UNCHANGED vars
  BY <1>32, SameFact DEF SpaceInv, NothingKept
<1>33. CASE Look
  BY <1>33, LookFact, <1>0
     DEF SpaceInv, NothingKept, Goes, Turns, Passes, Skips, SameFrame, SameTask, SamePlan,
         SameMood, Calm, Quiet, SameAside, SameDisk, Aside, Retiring, Undoing, Over, CommandInv,
         ProgressInv
<1>34. CASE Confirm
  BY <1>34, ConfirmFact, <1>0
     DEF SpaceInv, NothingKept, Turns, SameFrame, SameTask, SamePlan, SameMood, Calm, Quiet,
         SameAside, Aside, Retiring, Undoing, Over, CommandInv, ProgressInv
<1>35. CASE Record
  BY <1>35, RecordFact, <1>0
     DEF SpaceInv, NothingKept, Turns, SameFrame, SameTask, SamePlan, SameMood, Calm, Quiet,
         SameAside, Aside, Retiring, Undoing, Over, CommandInv, ProgressInv
<1>36. QED
  BY <1>1, <1>2, <1>3, <1>4, <1>5, <1>6, <1>7, <1>8, <1>9, <1>10, <1>11, <1>12, <1>13, <1>14,
     <1>15, <1>16, <1>17, <1>18, <1>19, <1>20, <1>21, <1>22, <1>23, <1>24, <1>25, <1>26, <1>27,
     <1>28, <1>29, <1>30, <1>31, <1>32, <1>33, <1>34, <1>35
     DEF Next, Installer, Reading, Forward, Retire, Backward, Look

\* No object is there before somebody makes it.
LEMMA AgeStep == ASSUME IInv, [Next]_vars PROVE AgeInv'
<1> USE DEF IInv

<1>0. /\ home \in Places /\ side \in Places /\ home # side
      /\ Staged \in Int /\ Staged >= 0 /\ Copied \in Int /\ Copied >= 0
      /\ Foreign = -1 - spent.drift /\ spent.drift \in Nat
      /\ \A p \in Places, n \in Names : at[p][n] # NoFile => at[p][n].gen \in Int
  <2>1. \A p \in Places, n \in Names : at[p][n] \in Object \cup {NoFile}
    BY DEF TypeInv, Row
  <2>2. QED
    BY <2>1, PlaceFact, NumberFact, FileFact DEF TypeInv, Foreign
<1>1. ASSUME NEW cmd \in {"install", "upgrade", "verify", "uninstall"}, NEW t \in Targets,
            NEW b \in Bundles, Begin(cmd, t, b)
     PROVE  AgeInv'
  BY <1>1, BeginFact DEF AgeInv, SameDisk
<1>2. CASE Refuse
  BY <1>2, RefuseFact DEF AgeInv, Calm, Quiet, SameDisk, Stops
<1>3. CASE ValidateBundle
  BY <1>3, ValidateBundleFact DEF AgeInv, Calm, Quiet, SameDisk, Stops
<1>4. CASE FindLegacy
  BY <1>4, FindLegacyFact DEF AgeInv, Calm, Quiet, SameDisk, Stops
<1>5. CASE Verify
  BY <1>5, VerifyFact DEF AgeInv, Calm, Quiet, SameDisk, Stops
<1>6. CASE Commit
  BY <1>6, CommitFact DEF AgeInv, Calm, Quiet, SameDisk, Stops
<1>7. CASE Guard
  BY <1>7, GuardFact DEF AgeInv, Calm, Quiet, Stops
<1>8. CASE Unguard
  BY <1>8, UnguardFact DEF AgeInv, Calm, Quiet, Stops
<1>9. CASE Prepare
  BY <1>9, PrepareFact DEF AgeInv, Quiet, SameDisk, Stops
<1>10. CASE Stage
  BY <1>10, StageFact, <1>0 DEF AgeInv, Calm, Quiet, SameDisk, Stops
<1>11. CASE Recheck
  BY <1>11, RecheckFact DEF AgeInv, Calm, Quiet, Stops
<1>12. CASE Snapshot
  BY <1>12, SnapshotFact DEF AgeInv, Calm, Quiet, SameDisk, Stops
<1>13. CASE Capture
  BY <1>13, CaptureFact DEF AgeInv, Quiet, SameDisk, Stops
<1>14. CASE Quarantine
  BY <1>14, QuarantineFact DEF AgeInv, Calm, Quiet, Stops
<1>15. CASE Move
  BY <1>15, MoveFact, MoveAtFact, <1>0 DEF AgeInv, Quiet
<1>16. CASE Publish
  BY <1>16, PublishFact, <1>0, SMTT(30) DEF AgeInv, Calm, Quiet, Others, Wrote
<1>17. CASE Settle
  BY <1>17, SettleFact DEF AgeInv, Calm, Quiet, SameDisk
<1>18. CASE Empty
  BY <1>18, EmptyFact DEF AgeInv, Calm, Quiet
<1>19. CASE RetireStart
  BY <1>19, RetireStartFact DEF AgeInv, Calm, Quiet, SameDisk
<1>20. ASSUME NEW n \in Names, RetireFile(n) PROVE AgeInv'
  BY <1>20, RetireFileFact DEF AgeInv, Calm, Quiet, Others, Cleared
<1>21. CASE RetireDirectory
  BY <1>21, RetireDirectoryFact DEF AgeInv, Calm, Quiet
<1>22. CASE Retired
  BY <1>22, RetiredFact DEF AgeInv, Calm, Quiet, SameDisk
<1>23. CASE RetireBreaks
  BY <1>23, RetireBreaksFact, <1>0 DEF AgeInv, Calm, Quiet
<1>24. CASE Final
  BY <1>24, FinalFact DEF AgeInv, Calm, Quiet, SameDisk
<1>25. CASE StartRollback
  BY <1>25, StartRollbackFact DEF AgeInv, Calm, Quiet
<1>26. CASE Unpublish
  BY <1>26, UnpublishFact DEF AgeInv, Calm, Quiet, Others, Cleared
<1>27. CASE Unpublished
  BY <1>27, UnpublishedFact DEF AgeInv, Calm, Quiet, SameDisk
<1>28. CASE Restore
  BY <1>28, RestoreFact, RestoreAtFact, <1>0 DEF AgeInv, Quiet
<1>29. CASE Restored
  BY <1>29, RestoredFact DEF AgeInv, Calm, Quiet, SameDisk
<1>30. CASE Crash
  BY <1>30, CrashFact DEF AgeInv, Calm, Quiet, SameDisk
<1>31. ASSUME NEW p \in Places, NEW n \in Names, Drift(p, n) PROVE AgeInv'
  BY <1>31, DriftFact, <1>0 DEF AgeInv, Others
<1>32. CASE UNCHANGED vars
  BY <1>32, SameFact DEF AgeInv
<1>33. CASE Look
  BY <1>33, LookFact DEF AgeInv, Calm, Quiet, SameDisk
<1>34. CASE Confirm
  BY <1>34, ConfirmFact DEF AgeInv, Calm, Quiet
<1>35. CASE Record
  BY <1>35, RecordFact DEF AgeInv, Calm, Quiet
<1>36. QED
  BY <1>1, <1>2, <1>3, <1>4, <1>5, <1>6, <1>7, <1>8, <1>9, <1>10, <1>11, <1>12, <1>13, <1>14,
     <1>15, <1>16, <1>17, <1>18, <1>19, <1>20, <1>21, <1>22, <1>23, <1>24, <1>25, <1>26, <1>27,
     <1>28, <1>29, <1>30, <1>31, <1>32, <1>33, <1>34, <1>35
     DEF Next, Installer, Reading, Forward, Retire, Backward, Look

\* What was captured is a whole version.
LEMMA ExpectedStep == ASSUME IInv, [Next]_vars PROVE ExpectedInv'
<1> USE DEF IInv

<1>0. /\ home \in Places /\ side \in Places /\ home # side
      /\ Foreign = -1 - spent.drift /\ spent.drift \in Nat /\ Junk = 0
      /\ \A n \in Names : Nothing[n] = NoFile
      /\ tx.back \in BOOLEAN
  BY PlaceFact, NothingFact DEF TypeInv, Foreign, Memory, Junk
<1>a. tx.job # "none" => /\ tx.prev \in {1, 2} /\ OwnedSet(tx.prev) = Moved \cup Waiting
                         /\ OwnedSet(tx.prev) \subseteq Names
                         /\ tx.m = 0 => Moved = {} /\ Waiting = OwnedSet(tx.prev)
                         /\ tx.m = Len(Owned(tx.prev)) => Waiting = {} /\ Moved = OwnedSet(tx.prev)
  <2>1. tx.job # "none" => tx.prev \in {1, 2} /\ tx.m \in Nat /\ tx.m <= Len(Owned(tx.prev))
    BY DEF TypeInv, Memory, CommandInv, ProgressInv
  <2>2. QED
    BY <2>1, CountFact
<1>1. ASSUME NEW cmd \in {"install", "upgrade", "verify", "uninstall"}, NEW t \in Targets,
            NEW b \in Bundles, Begin(cmd, t, b)
     PROVE  ExpectedInv'
  BY <1>1, BeginFact DEF ExpectedInv
<1>2. CASE Refuse
  BY <1>2, RefuseFact, <1>0, <1>a DEF ExpectedInv, Stops, SameTask, SamePlan
<1>3. CASE ValidateBundle
  BY <1>3, ValidateBundleFact, <1>0, <1>a
     DEF ExpectedInv, CaptureInv, Goes, Stops, SameFrame, SameTask, SamePlan, Calm, Quiet,
         CommandInv, ProgressInv
<1>4. CASE FindLegacy
  BY <1>4, FindLegacyFact, <1>0, <1>a
     DEF ExpectedInv, CaptureInv, Goes, Stops, SameFrame, SameTask, SamePlan, Calm, Quiet,
         CommandInv, ProgressInv
<1>5. CASE Verify
  BY <1>5, VerifyFact, <1>0, <1>a
     DEF ExpectedInv, CaptureInv, Stops, SameTask, SamePlan, Calm, Quiet, CommandInv, ProgressInv
<1>6. CASE Commit
  BY <1>6, CommitFact, <1>0, <1>a
     DEF ExpectedInv, CaptureInv, Goes, Stops, SameFrame, SameTask, SamePlan, Calm, Quiet,
         CommandInv, ProgressInv
<1>7. CASE Guard
  BY <1>7, GuardFact, <1>0, <1>a
     DEF ExpectedInv, CaptureInv, Stops, SameTask, SamePlan, Calm, Quiet, CommandInv, ProgressInv
<1>8. CASE Unguard
  BY <1>8, UnguardFact, <1>0, <1>a
     DEF ExpectedInv, CaptureInv, Stops, SameTask, SamePlan, CommandInv, ProgressInv
<1>9. CASE Prepare
  <2>1. CASE Stops
    BY <2>1, <1>9, PrepareFact DEF ExpectedInv, CaptureInv, Stops, SamePlan, Quiet
  <2>2. ASSUME NEW v \in {1, 2}, \A n \in OwnedSet(v) : Intact(home, n, v),
               Captures(v, "replace", "stage")
        PROVE  ExpectedInv'
    <3>1. /\ tx'.prev = v /\ spent'.drift = spent.drift
          /\ \A n \in OwnedSet(v) : n \in Names /\ tx'.expected[n] = at[home][n]
      BY <2>2, <1>9, PrepareFact, OwnedFact DEF Captures, Quiet
    <3>2. QED
      BY <2>2, <3>1, <1>0 DEF ExpectedInv, Intact, AgeInv
  <2>3. CASE Captures(0, "none", "stage")
    BY <2>3 DEF ExpectedInv, Captures
  <2>4. QED
    BY <1>9, <2>1, <2>2, <2>3, PrepareFact
<1>10. CASE Stage
  BY <1>10, StageFact, <1>0, <1>a, SMTT(30)
     DEF ExpectedInv, CaptureInv, Stops, SameTask, SamePlan, SameMood, Calm, Quiet, SameDisk,
         Early, Aside, Retiring, Undoing, Over, CommandInv, ProgressInv
<1>11. CASE Recheck
  BY <1>11, RecheckFact, <1>0, <1>a, SMTT(30)
     DEF ExpectedInv, CaptureInv, Goes, Stops, SameFrame, SameTask, SamePlan, Calm, Quiet,
         SameDisk, Early, Aside, Retiring, Undoing, Over, CommandInv, ProgressInv
<1>12. CASE Snapshot
  BY <1>12, SnapshotFact, <1>0, <1>a, SMTT(30)
     DEF ExpectedInv, CaptureInv, Goes, Stops, SameFrame, SameTask, SamePlan, SameMood, Calm,
         Quiet, SameDisk, Early, Aside, Retiring, Undoing, Over, CommandInv, ProgressInv
<1>13. CASE Capture
  <2>1. CASE Stops
    BY <2>1, <1>13, CaptureFact DEF ExpectedInv, CaptureInv, Stops, SamePlan, Quiet
  <2>2. ASSUME NEW v \in {1, 2}, \A n \in OwnedSet(v) : Intact(home, n, v),
               Captures(v, "remove", "quarantine")
        PROVE  ExpectedInv'
    <3>1. /\ tx'.prev = v /\ spent'.drift = spent.drift
          /\ \A n \in OwnedSet(v) : n \in Names /\ tx'.expected[n] = at[home][n]
      BY <2>2, <1>13, CaptureFact, OwnedFact DEF Captures, Quiet
    <3>2. QED
      BY <2>2, <3>1, <1>0 DEF ExpectedInv, Intact, AgeInv
  <2>3. QED
    BY <1>13, <2>1, <2>2, CaptureFact
<1>14. CASE Quarantine
  BY <1>14, QuarantineFact, <1>0, <1>a
     DEF ExpectedInv, CaptureInv, Goes, Stops, SameFrame, SameTask, SamePlan, SameMood, Calm,
         Quiet, SameDisk, Early, Aside, Retiring, Undoing, Over, CommandInv, ProgressInv
<1>15. CASE Move
  <2>1. SamePlan /\ Quiet
    BY <1>15, MoveFact DEF Goes, Turns, SameFrame
  <2>2. QED
    BY <2>1 DEF ExpectedInv, CaptureInv, SamePlan, Quiet
<1>16. CASE Publish
  <2>1. SamePlan /\ Quiet
    BY <1>16, PublishFact DEF Goes, Turns, SameFrame, Calm
  <2>2. QED
    BY <2>1 DEF ExpectedInv, CaptureInv, SamePlan, Quiet
<1>17. CASE Settle
  BY <1>17, SettleFact, <1>0, <1>a, SMTT(30)
     DEF ExpectedInv, CaptureInv, Turns, SameFrame, SameTask, SamePlan, SameMood, Calm, Quiet,
         SameDisk, Early, Aside, Retiring, Undoing, Over, CommandInv, ProgressInv
<1>18. CASE Empty
  BY <1>18, EmptyFact, <1>0, <1>a, SMTT(30)
     DEF ExpectedInv, CaptureInv, Goes, SameFrame, SameTask, SamePlan, SameMood, Calm, Quiet,
         Early, Aside, Retiring, Undoing, Over, CommandInv, ProgressInv
<1>19. CASE RetireStart
  BY <1>19, RetireStartFact, <1>0, <1>a, SMTT(30)
     DEF ExpectedInv, CaptureInv, Turns, Fails, GivesUp, SameFrame, SameTask, SamePlan, SameMood,
         Calm, Quiet, SameDisk, Early, Aside, Retiring, Undoing, Over, CommandInv, ProgressInv
<1>20. ASSUME NEW n \in Names, RetireFile(n) PROVE ExpectedInv'
  BY <1>20, RetireFileFact, <1>0, <1>a, SMTT(30)
     DEF ExpectedInv, CaptureInv, SameFrame, SameTask, SamePlan, SameMood, Calm, Quiet, Early,
         Aside, Retiring, Undoing, Over, CommandInv, ProgressInv
<1>21. CASE RetireDirectory
  BY <1>21, RetireDirectoryFact, <1>0, <1>a
     DEF ExpectedInv, CaptureInv, Goes, SameFrame, SameTask, SamePlan, Calm, Quiet, Early, Aside,
         Retiring, Undoing, Over, CommandInv, ProgressInv
<1>22. CASE Retired
  BY <1>22, RetiredFact, <1>0, <1>a, SMTT(30)
     DEF ExpectedInv, CaptureInv, Goes, Leaves, SameFrame, SameTask, SamePlan, SameMood, Calm,
         Quiet, SameDisk, Early, Aside, Retiring, Undoing, Over, CommandInv, ProgressInv
<1>23. CASE RetireBreaks
  BY <1>23, RetireBreaksFact, <1>0, <1>a, SMTT(30)
     DEF ExpectedInv, CaptureInv, Turns, Fails, GivesUp, SameFrame, SameTask, SamePlan, Calm,
         Quiet, Early, Aside, Retiring, Undoing, Over, CommandInv, ProgressInv
<1>24. CASE Final
  BY <1>24, FinalFact, <1>0, <1>a, SMTT(30)
     DEF ExpectedInv, CaptureInv, Turns, Leaves, SameFrame, SameTask, SamePlan, SameMood, Calm,
         Quiet, SameDisk, Early, Aside, Retiring, Undoing, Over, CommandInv, ProgressInv
<1>25. CASE StartRollback
  BY <1>25, StartRollbackFact, <1>0, <1>a
     DEF ExpectedInv, CaptureInv, Goes, Spoils, SameFrame, SameTask, SamePlan, SameMood, Calm,
         Quiet, Early, Aside, Retiring, Undoing, Over, CommandInv, ProgressInv
<1>26. CASE Unpublish
  <2>1. SamePlan /\ Quiet
    BY <1>26, UnpublishFact DEF Passes, SameFrame, Calm
  <2>2. QED
    BY <2>1 DEF ExpectedInv, CaptureInv, SamePlan, Quiet
<1>27. CASE Unpublished
  BY <1>27, UnpublishedFact, <1>0, <1>a
     DEF ExpectedInv, CaptureInv, Goes, SameFrame, SameTask, SamePlan, Calm, Quiet, SameDisk,
         Early, Aside, Retiring, Undoing, Over, CommandInv, ProgressInv
<1>28. CASE Restore
  <2>1. SamePlan /\ Quiet
    BY <1>28, RestoreFact DEF Skips, SameFrame
  <2>2. QED
    BY <2>1 DEF ExpectedInv, CaptureInv, SamePlan, Quiet
<1>29. CASE Restored
  BY <1>29, RestoredFact, <1>0, <1>a, SMTT(30)
     DEF ExpectedInv, CaptureInv, Goes, Spoils, SameFrame, SameTask, SamePlan, SameMood, Calm,
         Quiet, SameDisk, Early, Aside, Retiring, Undoing, Over, CommandInv, ProgressInv
<1>30. CASE Crash
  BY <1>30, CrashFact, <1>0, <1>a
     DEF ExpectedInv, CaptureInv, Goes, SameFrame, SameTask, SamePlan, Calm, Quiet, SameDisk,
         Early, Aside, Retiring, Undoing, Over, CommandInv, ProgressInv
<1>31. ASSUME NEW p \in Places, NEW n \in Names, Drift(p, n) PROVE ExpectedInv'
  <2>1. tx' = tx /\ spent'.drift = spent.drift + 1
    BY <1>31, DriftFact
  <2>2. ASSUME tx.job # "none", NEW k \in OwnedSet(tx.prev)
        PROVE  /\ tx.expected[k] # NoFile /\ tx.expected[k].ver = tx.prev
               /\ tx.expected[k].gen >= -(spent.drift + 1)
    <3>1. tx.expected[k] \in Object /\ tx.expected[k].gen >= -spent.drift
      BY <2>2, <1>a DEF CaptureInv, ExpectedInv, TypeInv, Memory, Row
    <3>2. tx.expected[k].gen \in Int
      BY <3>1, FileFact
    <3>3. QED
      BY <2>2, <3>1, <3>2, <1>0 DEF CaptureInv, ExpectedInv
  <2>3. QED
    BY <2>1, <2>2 DEF ExpectedInv
<1>32. CASE UNCHANGED vars
  BY <1>32, SameFact DEF ExpectedInv, CaptureInv
<1>33. CASE Look
  <2>1. SamePlan /\ Quiet
    BY <1>33, LookFact DEF Goes, Turns, Passes, Skips, SameFrame, Calm
  <2>2. QED
    BY <2>1 DEF ExpectedInv, CaptureInv, SamePlan, Quiet
<1>34. CASE Confirm
  <2>1. SamePlan /\ Quiet
    BY <1>34, ConfirmFact DEF Turns, SameFrame, Calm
  <2>2. QED
    BY <2>1 DEF ExpectedInv, CaptureInv, SamePlan, Quiet
<1>35. CASE Record
  <2>1. SamePlan /\ Quiet
    BY <1>35, RecordFact DEF Turns, SameFrame, Calm
  <2>2. QED
    BY <2>1 DEF ExpectedInv, CaptureInv, SamePlan, Quiet
<1>36. QED
  BY <1>1, <1>2, <1>3, <1>4, <1>5, <1>6, <1>7, <1>8, <1>9, <1>10, <1>11, <1>12, <1>13, <1>14,
     <1>15, <1>16, <1>17, <1>18, <1>19, <1>20, <1>21, <1>22, <1>23, <1>24, <1>25, <1>26, <1>27,
     <1>28, <1>29, <1>30, <1>31, <1>32, <1>33, <1>34, <1>35
     DEF Next, Installer, Reading, Forward, Retire, Backward, Look

\* Until it is moved, a file is the captured one exactly if nobody touched it.
LEMMA WaitingStep == ASSUME IInv, [Next]_vars PROVE WaitingInv'
<1> USE DEF IInv

<1>0. /\ home \in Places /\ side \in Places /\ home # side
      /\ Foreign = -1 - spent.drift /\ spent.drift \in Nat /\ Junk = 0
      /\ \A n \in Names : Nothing[n] = NoFile
      /\ tx.back \in BOOLEAN
  BY PlaceFact, NothingFact DEF TypeInv, Foreign, Memory, Junk
<1>a. tx.job # "none" => /\ tx.prev \in {1, 2} /\ OwnedSet(tx.prev) = Moved \cup Waiting
                         /\ OwnedSet(tx.prev) \subseteq Names
                         /\ tx.m = 0 => Moved = {} /\ Waiting = OwnedSet(tx.prev)
                         /\ tx.m = Len(Owned(tx.prev)) => Waiting = {} /\ Moved = OwnedSet(tx.prev)
  <2>1. tx.job # "none" => tx.prev \in {1, 2} /\ tx.m \in Nat /\ tx.m <= Len(Owned(tx.prev))
    BY DEF TypeInv, Memory, CommandInv, ProgressInv
  <2>2. QED
    BY <2>1, CountFact
<1>1. ASSUME NEW cmd \in {"install", "upgrade", "verify", "uninstall"}, NEW t \in Targets,
            NEW b \in Bundles, Begin(cmd, t, b)
     PROVE  WaitingInv'
  BY <1>1, BeginFact DEF WaitingInv
<1>2. CASE Refuse
  BY <1>2, RefuseFact, <1>0, <1>a DEF WaitingInv, Stops, SameTask, SamePlan, Calm, Quiet
<1>3. CASE ValidateBundle
  BY <1>3, ValidateBundleFact, <1>0, <1>a
     DEF WaitingInv, CaptureInv, Goes, Stops, SameFrame, SameTask, SamePlan, Calm, Quiet,
         CommandInv, ProgressInv
<1>4. CASE FindLegacy
  BY <1>4, FindLegacyFact, <1>0, <1>a
     DEF WaitingInv, CaptureInv, Goes, Stops, SameFrame, SameTask, SamePlan, Calm, Quiet,
         CommandInv, ProgressInv
<1>5. CASE Verify
  BY <1>5, VerifyFact, <1>0, <1>a
     DEF WaitingInv, CaptureInv, Stops, SameTask, SamePlan, Calm, Quiet, CommandInv, ProgressInv
<1>6. CASE Commit
  BY <1>6, CommitFact, <1>0, <1>a
     DEF WaitingInv, CaptureInv, Goes, Stops, SameFrame, SameTask, SamePlan, Calm, Quiet,
         CommandInv, ProgressInv
<1>7. CASE Guard
  BY <1>7, GuardFact, <1>0, <1>a
     DEF WaitingInv, CaptureInv, Stops, SameTask, SamePlan, Calm, Quiet, CommandInv, ProgressInv
<1>8. CASE Unguard
  BY <1>8, UnguardFact, <1>0, <1>a
     DEF WaitingInv, CaptureInv, Stops, SameTask, SamePlan, Calm, Quiet, CommandInv, ProgressInv
<1>9. CASE Prepare
  <2>1. CASE Stops /\ touched' = touched
    BY <2>1, <1>9, PrepareFact DEF WaitingInv, Stops, Early
  <2>2. ASSUME NEW v \in {1, 2}, Captures(v, "replace", "stage")
        PROVE  WaitingInv'
    <3>1. /\ Waiting' = OwnedSet(v) /\ home' = home
          /\ touched' = {x \in touched : x[1] # home}
          /\ \A n \in OwnedSet(v) : tx'.expected[n] = at[home][n]
      BY <2>2, CapturesFact DEF Captures, SameTask
    <3>2. at' = at
      BY <1>9, PrepareFact DEF SameDisk
    <3>3. QED
      BY <3>1, <3>2 DEF WaitingInv
  <2>3. CASE Captures(0, "none", "stage")
    BY <2>3 DEF WaitingInv, Captures
  <2>4. QED
    BY <1>9, <2>1, <2>2, <2>3, PrepareFact
<1>10. CASE Stage
  BY <1>10, StageFact, <1>0, <1>a
     DEF WaitingInv, InFlight, CaptureInv, Stops, SameTask, SamePlan, SameMood, Calm, Quiet, SameCounts,
         SameDisk, Early, Aside, Retiring, Undoing, Over, CommandInv, ProgressInv
<1>11. CASE Recheck
  BY <1>11, RecheckFact, <1>0, <1>a
     DEF WaitingInv, InFlight, CaptureInv, Goes, Stops, SameFrame, SameTask, SamePlan, SameMood, Calm,
         Quiet, SameCounts, SameDisk, Early, Aside, Retiring, Undoing, Over, CommandInv,
         ProgressInv
<1>12. CASE Snapshot
  BY <1>12, SnapshotFact, <1>0, <1>a
     DEF WaitingInv, InFlight, CaptureInv, Goes, Stops, SameFrame, SameTask, SamePlan, Calm, Quiet,
         SameCounts, SameDisk, Early, Aside, Retiring, Undoing, Over, CommandInv, ProgressInv
<1>13. CASE Capture
  <2>1. CASE Stops /\ touched' = touched
    BY <2>1, <1>13, CaptureFact DEF WaitingInv, Stops, Early
  <2>2. ASSUME NEW v \in {1, 2}, Captures(v, "remove", "quarantine")
        PROVE  WaitingInv'
    <3>1. /\ Waiting' = OwnedSet(v) /\ home' = home
          /\ touched' = {x \in touched : x[1] # home}
          /\ \A n \in OwnedSet(v) : tx'.expected[n] = at[home][n]
      BY <2>2, CapturesFact DEF Captures, SameTask
    <3>2. at' = at
      BY <1>13, CaptureFact DEF SameDisk
    <3>3. QED
      BY <3>1, <3>2 DEF WaitingInv
  <2>3. QED
    BY <1>13, <2>1, <2>2, CaptureFact
<1>14. CASE Quarantine
  BY <1>14, QuarantineFact, <1>0, <1>a
     DEF WaitingInv, InFlight, CaptureInv, Goes, Stops, SameFrame, SameTask, SamePlan, Calm, Quiet,
         SameCounts, SameDisk, Early, Aside, Retiring, Undoing, Over, CommandInv, ProgressInv
<1>15. CASE Move
  <2>1. CASE Turns("OBS_PLUGIN_DRIFT")
    BY <2>1 DEF WaitingInv, Turns, Early
  <2>2. ASSUME NEW n \in Names, n = Owned(tx.prev)[tx.m + 1],
               \A k \in Names : k # n => at'[home][k] = at[home][k],
               Goes("move"), tx'.seen = "moved", Carried(<<home, n>>, <<side, n>>)
        PROVE  WaitingInv'
    <3>1. /\ Waiting' = Waiting /\ home' = home /\ tx'.expected = tx.expected
          /\ tx'.pc = "move" /\ tx'.m = tx.m /\ tx'.prev = tx.prev /\ tx'.job = tx.job
      BY <2>2 DEF Goes, SameFrame, SameTask, SamePlan, SameCounts
    <3>2. InFlight(n)'
      BY <1>15, <2>2, <3>1, MoveFact DEF InFlight
    <3>3. ASSUME tx.job # "none", NEW k \in Waiting, k # n
          PROVE  <<home, k>> \in touched' <=> at'[home][k] # tx.expected[k]
      <4>1. k \in Names /\ tx.pc = "move" /\ ~InFlight(k)
        BY <1>15, <1>a, <3>3, MoveFact DEF InFlight
      <4>2. at'[home][k] = at[home][k] /\ (<<home, k>> \in touched' <=> <<home, k>> \in touched)
        BY <2>2, <3>3, <4>1, <1>0 DEF Carried
      <4>3. QED
        BY <3>3, <4>1, <4>2 DEF CaptureInv, WaitingInv
    <3>4. QED
      BY <3>1, <3>2, <3>3 DEF WaitingInv
  <2>3. QED
    BY <1>15, <2>1, <2>2, <1>0, MoveFact
<1>16. CASE Publish
  BY <1>16, PublishFact, <1>0, <1>a
     DEF WaitingInv, Goes, Turns, SameFrame, SameTask, SamePlan, Calm, Quiet, SameCounts, Early
<1>17. CASE Settle
  BY <1>17, SettleFact, <1>0, <1>a
     DEF WaitingInv, Turns, SameFrame, SameTask, SamePlan, Calm, Quiet, Early, Aside, Retiring,
         Undoing, Over
<1>18. CASE Empty
  BY <1>18, EmptyFact, <1>0, <1>a DEF WaitingInv, Goes, Calm, Quiet, SameCounts
<1>19. CASE RetireStart
  BY <1>19, RetireStartFact, <1>0, <1>a
     DEF WaitingInv, Turns, Fails, GivesUp, SameFrame, SameTask, SamePlan, Calm, Quiet, Early,
         Aside, Retiring, Undoing, Over
<1>20. ASSUME NEW n \in Names, RetireFile(n) PROVE WaitingInv'
  BY <1>20, RetireFileFact, <1>0, <1>a
     DEF WaitingInv, SameFrame, SameTask, SamePlan, Calm, Quiet, Early, Aside, Retiring, Undoing,
         Over
<1>21. CASE RetireDirectory
  BY <1>21, RetireDirectoryFact, <1>0, <1>a
     DEF WaitingInv, Goes, Calm, Quiet, Early, Aside, Retiring, Undoing, Over
<1>22. CASE Retired
  BY <1>22, RetiredFact, <1>0, <1>a
     DEF WaitingInv, Goes, Leaves, SameFrame, SameTask, SamePlan, Calm, Quiet, Early, Aside,
         Retiring, Undoing, Over
<1>23. CASE RetireBreaks
  BY <1>23, RetireBreaksFact, <1>0, <1>a
     DEF WaitingInv, Turns, Fails, GivesUp, Early, Aside, Retiring, Undoing, Over
<1>24. CASE Final
  BY <1>24, FinalFact, <1>0, <1>a
     DEF WaitingInv, Turns, Leaves, SameFrame, SameTask, SamePlan, Calm, Quiet, Early, Aside,
         Retiring, Undoing, Over
<1>25. CASE StartRollback
  BY <1>25, StartRollbackFact, <1>0, <1>a
     DEF WaitingInv, Goes, Spoils, Calm, Quiet, Early, Aside, Retiring, Undoing, Over
<1>26. CASE Unpublish
  BY <1>26, UnpublishFact DEF WaitingInv, Passes, Early
<1>27. CASE Unpublished
  BY <1>27, UnpublishedFact, <1>0, <1>a
     DEF WaitingInv, Goes, SameFrame, SameTask, SamePlan, Calm, Quiet, Early, Aside, Retiring,
         Undoing, Over
<1>28. CASE Restore
  BY <1>28, RestoreFact DEF WaitingInv, Skips, Early
<1>29. CASE Restored
  BY <1>29, RestoredFact, <1>0, <1>a
     DEF WaitingInv, Goes, Spoils, SameFrame, SameTask, SamePlan, Calm, Quiet, Early, Aside,
         Retiring, Undoing, Over
<1>30. CASE Crash
  BY <1>30, CrashFact, <1>0, <1>a
     DEF WaitingInv, Goes, SameFrame, SameTask, SamePlan, Calm, Quiet, Early, Aside, Retiring,
         Undoing, Over
<1>31. ASSUME NEW p \in Places, NEW n \in Names, Drift(p, n) PROVE WaitingInv'
  <2>1. /\ tx' = tx /\ home' = home /\ Waiting' = Waiting /\ touched' = touched \cup {<<p, n>>}
        /\ Others(p, n)
        /\ at'[p][n] # NoFile => \/ /\ at[p][n] # NoFile /\ at'[p][n].gen = at[p][n].gen
                                    /\ at'[p][n].ver = Junk
                                 \/ at'[p][n].gen = Foreign
    BY <1>31, DriftFact
  <2>2. SUFFICES ASSUME tx.job # "none", tx.pc \in Early \cup {"move"}, NEW k \in Waiting,
                        ~InFlight(k)
                 PROVE  <<home, k>> \in touched' <=> at'[home][k] # tx.expected[k]
    BY <2>1 DEF WaitingInv, InFlight
  <2>3. /\ k \in Names /\ (<<home, k>> \in touched <=> at[home][k] # tx.expected[k])
        /\ tx.expected[k] # NoFile /\ tx.expected[k].ver = tx.prev
        /\ tx.expected[k].gen >= -spent.drift /\ tx.prev # 0
    BY <2>2, <1>a DEF CaptureInv, WaitingInv, ExpectedInv
  <2>4. CASE p = home /\ n = k
    <3>1. <<home, k>> \in touched'
      BY <2>1, <2>4
    <3>2. at'[home][k] # tx.expected[k]
      BY <2>1, <2>3, <2>4, <1>0
    <3>3. QED
      BY <3>1, <3>2
  <2>5. CASE p # home \/ n # k
    <3>1. at'[home][k] = at[home][k] /\ (<<home, k>> \in touched' <=> <<home, k>> \in touched)
      BY <2>1, <2>3, <2>5, <1>0 DEF Others
    <3>2. QED
      BY <2>3, <3>1
  <2>6. QED
    BY <2>4, <2>5
<1>32. CASE UNCHANGED vars
  BY <1>32, SameFact DEF WaitingInv, CaptureInv, InFlight
<1>33. CASE Look
  <2>1. CASE Goes("move")
    <3>1. tx.pc = "move" /\ tx.seen = "nothing" /\ Calm /\ SameDisk
      BY <1>33, LookFact, <2>1 DEF Goes
    <3>2. QED
      BY <2>1, <3>1
         DEF WaitingInv, CaptureInv, InFlight, Goes, SameFrame, SameTask, SamePlan, SameCounts, Calm,
             SameDisk
  <2>2. CASE tx'.pc \in {"rollback", "unpublish", "restore"}
    BY <2>2 DEF WaitingInv, Early
  <2>3. QED
    BY <1>33, LookFact, <2>1, <2>2 DEF Goes, Turns, Passes, Skips
<1>34. CASE Confirm
  <2>1. CASE Turns("OBS_PLUGIN_DRIFT")
    BY <2>1 DEF WaitingInv, Turns, Early
  <2>2. ASSUME NEW n \in Names, n = Owned(tx.prev)[tx.m + 1], Waiting' = Waiting \ {n},
               SameFrame, tx'.pc = "move"
        PROVE  WaitingInv'
    <3>1. /\ home' = home /\ tx'.expected = tx.expected /\ tx'.job = tx.job
          /\ tx.pc = "move" /\ at' = at /\ touched' = touched
      BY <1>34, <2>2, ConfirmFact DEF SameFrame, SameTask, SamePlan, Calm
    <3>2. \A k \in Waiting \ {n} : ~InFlight(k)
      BY <2>2 DEF InFlight
    <3>3. QED
      BY <2>2, <3>1, <3>2 DEF CaptureInv, WaitingInv
  <2>3. QED
    BY <1>34, <2>1, <2>2, ConfirmFact
<1>35. CASE Record
  BY <1>35, RecordFact, <1>a DEF WaitingInv, Turns, SameFrame, SamePlan, Early
<1>36. QED
  BY <1>1, <1>2, <1>3, <1>4, <1>5, <1>6, <1>7, <1>8, <1>9, <1>10, <1>11, <1>12, <1>13, <1>14,
     <1>15, <1>16, <1>17, <1>18, <1>19, <1>20, <1>21, <1>22, <1>23, <1>24, <1>25, <1>26, <1>27,
     <1>28, <1>29, <1>30, <1>31, <1>32, <1>33, <1>34, <1>35
     DEF Next, Installer, Reading, Forward, Retire, Backward, Look

\* Once moved, it is in the recovery directory, unless somebody touched it there.
LEMMA MovedStep == ASSUME IInv, [Next]_vars PROVE MovedInv'
<1> USE DEF IInv

<1>0. /\ home \in Places /\ side \in Places /\ home # side
      /\ Foreign = -1 - spent.drift /\ spent.drift \in Nat /\ Junk = 0
      /\ \A n \in Names : Nothing[n] = NoFile
      /\ tx.back \in BOOLEAN
  BY PlaceFact, NothingFact DEF TypeInv, Foreign, Memory, Junk
<1>a. tx.job # "none" => /\ tx.prev \in {1, 2} /\ OwnedSet(tx.prev) = Moved \cup Waiting
                         /\ OwnedSet(tx.prev) \subseteq Names /\ Moved \cap Waiting = {}
                         /\ tx.m = 0 => Moved = {} /\ Waiting = OwnedSet(tx.prev)
                         /\ tx.m = Len(Owned(tx.prev)) => Waiting = {} /\ Moved = OwnedSet(tx.prev)
  <2>1. tx.job # "none" => tx.prev \in {1, 2} /\ tx.m \in Nat /\ tx.m <= Len(Owned(tx.prev))
    BY DEF TypeInv, Memory, CommandInv, ProgressInv
  <2>2. QED
    BY <2>1, CountFact
<1>1. ASSUME NEW cmd \in {"install", "upgrade", "verify", "uninstall"}, NEW t \in Targets,
            NEW b \in Bundles, Begin(cmd, t, b)
     PROVE  MovedInv'
  BY <1>1, BeginFact DEF MovedInv
<1>2. CASE Refuse
  BY <1>2, RefuseFact DEF MovedInv, Stops
<1>3. CASE ValidateBundle
  BY <1>3, ValidateBundleFact DEF MovedInv, Goes, Stops
<1>4. CASE FindLegacy
  BY <1>4, FindLegacyFact DEF MovedInv, Goes, Stops
<1>5. CASE Verify
  BY <1>5, VerifyFact DEF MovedInv, Stops
<1>6. CASE Commit
  BY <1>6, CommitFact DEF MovedInv, Goes, Stops
<1>7. CASE Guard
  BY <1>7, GuardFact DEF MovedInv, Stops
<1>8. CASE Unguard
  BY <1>8, UnguardFact DEF MovedInv, Stops
<1>9. CASE Prepare
  BY <1>9, PrepareFact DEF MovedInv, Stops, Captures
<1>10. CASE Stage
  BY <1>10, StageFact DEF MovedInv, Stops
<1>11. CASE Recheck
  BY <1>11, RecheckFact DEF MovedInv, Goes, Stops
<1>12. CASE Snapshot
  BY <1>12, SnapshotFact, <1>a
     DEF MovedInv, CaptureInv, Goes, Stops, SameCounts, SameAside, Early, Over, CommandInv,
         ProgressInv
<1>13. CASE Capture
  BY <1>13, CaptureFact DEF MovedInv, Stops, Captures
<1>14. CASE Quarantine
  BY <1>14, QuarantineFact, <1>a
     DEF MovedInv, CaptureInv, Goes, Stops, SameCounts, SameAside, Early, Over, CommandInv,
         ProgressInv
<1>15. CASE Move
  <2>1. CASE Turns("OBS_PLUGIN_DRIFT")
    BY <2>1 DEF MovedInv, Turns
  <2>2. ASSUME NEW n \in Names, n \in Waiting,
               \A k \in Names : k # n => at'[side][k] = at[side][k],
               Goes("move"), Carried(<<home, n>>, <<side, n>>)
        PROVE  MovedInv'
    <3>1. /\ Moved' = Moved /\ side' = side /\ tx'.expected = tx.expected /\ tx'.kept = tx.kept
          /\ tx.pc = "move" /\ tx.job # "none" /\ touched \subseteq touched'
      BY <1>15, <2>2, MoveFact
         DEF Goes, SameFrame, SamePlan, SameCounts, SameAside, CommandInv, Aside, Carried
    <3>2. \A k \in Moved : k \in Names /\ k # n
      BY <2>2, <3>1, <1>a
    <3>3. QED
      BY <2>2, <3>1, <3>2 DEF CaptureInv, MovedInv
  <2>3. QED
    BY <1>15, <2>1, <2>2, <1>0, MoveFact
<1>16. CASE Publish
  BY <1>16, PublishFact, <1>0, <1>a
     DEF MovedInv, CaptureInv, Goes, Turns, SameFrame, SameTask, SamePlan, SameMood, Calm, Quiet,
         SameCounts, SameAside, Others, Wrote, Retiring, CommandInv
<1>17. CASE Settle
  BY <1>17, SettleFact, <1>a
     DEF MovedInv, CaptureInv, Turns, SameFrame, SameTask, SamePlan, Calm, Quiet, SameCounts,
         SameAside, SameDisk
<1>18. CASE Empty
  BY <1>18, EmptyFact
     DEF MovedInv, CaptureInv, Goes, SameFrame, SameTask, SamePlan, SameMood, Calm, Quiet,
         SameCounts, SameAside
<1>19. CASE RetireStart
  BY <1>19, RetireStartFact DEF MovedInv, Turns, Fails, GivesUp
<1>20. ASSUME NEW n \in Names, RetireFile(n) PROVE MovedInv'
  BY <1>20, RetireFileFact DEF MovedInv
<1>21. CASE RetireDirectory
  BY <1>21, RetireDirectoryFact DEF MovedInv, Goes
<1>22. CASE Retired
  BY <1>22, RetiredFact DEF MovedInv, Goes, Leaves
<1>23. CASE RetireBreaks
  BY <1>23, RetireBreaksFact DEF MovedInv, Turns, Fails, GivesUp
<1>24. CASE Final
  BY <1>24, FinalFact DEF MovedInv, Turns, Leaves
<1>25. CASE StartRollback
  BY <1>25, StartRollbackFact DEF MovedInv, CaptureInv, Goes, Spoils, Undoing, ProgressInv
<1>26. CASE Unpublish
  BY <1>26, UnpublishFact DEF MovedInv, Passes
<1>27. CASE Unpublished
  BY <1>27, UnpublishedFact DEF MovedInv, CaptureInv, Goes, SameMood, Undoing, ProgressInv
<1>28. CASE Restore
  BY <1>28, RestoreFact DEF MovedInv, Skips
<1>29. CASE Restored
  BY <1>29, RestoredFact, <1>a
     DEF MovedInv, CaptureInv, Goes, Spoils, SameCounts, SameAside, Aside, Undoing, CommandInv
<1>30. CASE Crash
  BY <1>30, CrashFact DEF MovedInv, Goes
<1>31. ASSUME NEW p \in Places, NEW n \in Names, Drift(p, n) PROVE MovedInv'
  BY <1>31, DriftFact, <1>0, <1>a DEF MovedInv, CaptureInv, Others, Aside, Retiring, CommandInv
<1>32. CASE UNCHANGED vars
  BY <1>32, SameFact DEF MovedInv, CaptureInv
<1>33. CASE Look
  <2>1. CASE Goes("move")
    <3>1. tx.pc = "move" /\ tx.seen = "nothing" /\ Calm /\ SameDisk
      BY <1>33, LookFact, <2>1 DEF Goes
    <3>2. QED
      BY <2>1, <3>1
         DEF MovedInv, CaptureInv, Goes, SameFrame, SamePlan, SameCounts, SameAside, Calm, SameDisk
  <2>2. CASE tx'.pc \in {"rollback", "unpublish", "restore"}
    BY <2>2 DEF MovedInv
  <2>3. QED
    BY <1>33, LookFact, <2>1, <2>2 DEF Goes, Turns, Passes, Skips
<1>34. CASE Confirm
  BY <1>34, ConfirmFact, <1>a
     DEF MovedInv, CaptureInv, Turns, SameFrame, SamePlan, Calm, Aside, CommandInv
<1>35. CASE Record
  BY <1>35, RecordFact
     DEF MovedInv, CaptureInv, Turns, SameFrame, SamePlan, SameAside, Calm
<1>36. QED
  BY <1>1, <1>2, <1>3, <1>4, <1>5, <1>6, <1>7, <1>8, <1>9, <1>10, <1>11, <1>12, <1>13, <1>14,
     <1>15, <1>16, <1>17, <1>18, <1>19, <1>20, <1>21, <1>22, <1>23, <1>24, <1>25, <1>26, <1>27,
     <1>28, <1>29, <1>30, <1>31, <1>32, <1>33, <1>34, <1>35
     DEF Next, Installer, Reading, Forward, Retire, Backward, Look

\* The recovery directory is believed to hold previous files only.
LEMMA KeptStep == ASSUME IInv, [Next]_vars PROVE KeptInv'
<1> USE DEF IInv

<1>0. /\ home \in Places /\ side \in Places /\ home # side
      /\ Foreign = -1 - spent.drift /\ spent.drift \in Nat /\ Junk = 0
      /\ \A n \in Names : Nothing[n] = NoFile
      /\ tx.back \in BOOLEAN
  BY PlaceFact, NothingFact DEF TypeInv, Foreign, Memory, Junk
<1>a. tx.job # "none" => /\ tx.prev \in {1, 2} /\ OwnedSet(tx.prev) = Moved \cup Waiting
                         /\ OwnedSet(tx.prev) \subseteq Names
                         /\ tx.m = 0 => Moved = {} /\ Waiting = OwnedSet(tx.prev)
                         /\ tx.m = Len(Owned(tx.prev)) => Waiting = {} /\ Moved = OwnedSet(tx.prev)
  <2>1. tx.job # "none" => tx.prev \in {1, 2} /\ tx.m \in Nat /\ tx.m <= Len(Owned(tx.prev))
    BY DEF TypeInv, Memory, CommandInv, ProgressInv
  <2>2. QED
    BY <2>1, CountFact
<1>1. ASSUME NEW cmd \in {"install", "upgrade", "verify", "uninstall"}, NEW t \in Targets,
            NEW b \in Bundles, Begin(cmd, t, b)
     PROVE  KeptInv'
  BY <1>1, BeginFact DEF KeptInv
<1>2. CASE Refuse
  BY <1>2, RefuseFact DEF KeptInv, Stops, SamePlan
<1>3. CASE ValidateBundle
  BY <1>3, ValidateBundleFact
     DEF KeptInv, CaptureInv, Goes, Stops, SameFrame, SameTask, SamePlan, CommandInv
<1>4. CASE FindLegacy
  BY <1>4, FindLegacyFact
     DEF KeptInv, CaptureInv, Goes, Stops, SameFrame, SameTask, SamePlan, CommandInv
<1>5. CASE Verify
  BY <1>5, VerifyFact DEF KeptInv, CaptureInv, Stops, SamePlan, CommandInv
<1>6. CASE Commit
  BY <1>6, CommitFact
     DEF KeptInv, CaptureInv, Goes, Stops, SameFrame, SameTask, SamePlan, CommandInv
<1>7. CASE Guard
  BY <1>7, GuardFact DEF KeptInv, CaptureInv, Stops, SamePlan, CommandInv
<1>8. CASE Unguard
  BY <1>8, UnguardFact DEF KeptInv, CaptureInv, Stops, SamePlan, CommandInv
<1>9. CASE Prepare
  BY <1>9, PrepareFact, <1>0
     DEF KeptInv, CaptureInv, Stops, Captures, SamePlan, SameDisk, CommandInv
<1>10. CASE Stage
  BY <1>10, StageFact, <1>0
     DEF KeptInv, CaptureInv, Stops, SameAside, SameDisk, Early, Over, ProgressInv
<1>11. CASE Recheck
  BY <1>11, RecheckFact, <1>0
     DEF KeptInv, CaptureInv, Goes, Stops, SameAside, SameDisk, Early, Over, ProgressInv
<1>12. CASE Snapshot
  BY <1>12, SnapshotFact
     DEF KeptInv, CaptureInv, Goes, Stops, SameFrame, SameTask, SamePlan, SameAside, SameDisk
<1>13. CASE Capture
  BY <1>13, CaptureFact, <1>0
     DEF KeptInv, CaptureInv, Stops, Captures, SamePlan, SameDisk, CommandInv
<1>14. CASE Quarantine
  BY <1>14, QuarantineFact, <1>0
     DEF KeptInv, CaptureInv, Goes, Stops, SameAside, SameDisk, Early, Over, ProgressInv
<1>15. CASE Move
  BY <1>15, MoveFact
     DEF KeptInv, CaptureInv, Goes, Turns, SameFrame, SamePlan, SameAside
<1>16. CASE Publish
  BY <1>16, PublishFact
     DEF KeptInv, CaptureInv, Goes, Turns, SameFrame, SamePlan, SameAside
<1>17. CASE Settle
  BY <1>17, SettleFact
     DEF KeptInv, CaptureInv, Turns, SameFrame, SameTask, SamePlan, SameMood, SameAside, SameDisk
<1>18. CASE Empty
  BY <1>18, EmptyFact
     DEF KeptInv, CaptureInv, Goes, SameFrame, SameTask, SamePlan, SameMood, SameAside
<1>19. CASE RetireStart
  <2>1. tx.pc = "retire" /\ tx.job # "none"
    BY <1>19, RetireStartFact DEF CommandInv, Aside, Retiring
  <2>2. CASE /\ tx'.pc = "retiring" /\ tx'.orig = tx.kept /\ tx'.kept = tx.kept
             /\ SameFrame /\ SameMood
    <3>1. tx'.job = tx.job /\ tx'.prev = tx.prev /\ tx'.back = tx.back
      BY <2>2 DEF SameFrame, SamePlan, SameMood
    <3>2. ~tx.back => \A n \in OwnedSet(tx.prev) : tx.kept[n] # NoFile
      <4>1. ~tx.back => Moved = OwnedSet(tx.prev)
        BY <2>1, <1>a DEF ProgressInv, Retiring
      <4>2. QED
        BY <2>1, <4>1 DEF CaptureInv, MovedInv, ExpectedInv
    <3>3. QED
      BY <2>1, <2>2, <3>1, <3>2 DEF KeptInv, CaptureInv
  <2>3. CASE Fails("OBS_PLUGIN_DRIFT") /\ SameAside
    BY <2>1, <2>3
       DEF KeptInv, CaptureInv, Fails, GivesUp, Turns, SameFrame, SamePlan, SameAside
  <2>4. QED
    BY <1>19, <2>2, <2>3, RetireStartFact
<1>20. ASSUME NEW n \in Names, RetireFile(n) PROVE KeptInv'
  BY <1>20, RetireFileFact
     DEF KeptInv, CaptureInv, SameFrame, SameTask, SamePlan, SameMood, Others, Cleared
<1>21. CASE RetireDirectory
  BY <1>21, RetireDirectoryFact
     DEF KeptInv, CaptureInv, Goes, SameFrame, SameTask, SamePlan, SameMood, SameAside
<1>22. CASE Retired
  BY <1>22, RetiredFact
     DEF KeptInv, CaptureInv, Goes, Leaves, SameFrame, SameTask, SamePlan, SameAside, SameDisk
<1>23. CASE RetireBreaks
  BY <1>23, RetireBreaksFact
     DEF KeptInv, CaptureInv, Turns, Fails, GivesUp, SameFrame, SameTask, SamePlan
<1>24. CASE Final
  BY <1>24, FinalFact
     DEF KeptInv, CaptureInv, Turns, Leaves, SameFrame, SameTask, SamePlan, SameAside, SameDisk
<1>25. CASE StartRollback
  BY <1>25, StartRollbackFact
     DEF KeptInv, CaptureInv, Goes, Spoils, SameFrame, SameTask, SamePlan, SameMood, SameAside
<1>26. CASE Unpublish
  BY <1>26, UnpublishFact DEF KeptInv, CaptureInv, Passes, SameFrame, SamePlan, SameAside
<1>27. CASE Unpublished
  BY <1>27, UnpublishedFact
     DEF KeptInv, CaptureInv, Goes, SameFrame, SameTask, SamePlan, SameAside, SameDisk
<1>28. CASE Restore
  <2>1. /\ tx.pc = "restore" /\ tx'.pc = "restore" /\ SameFrame /\ tx'.orig = tx.orig
        /\ tx.job # "none"
    BY <1>28, RestoreFact DEF Skips, SameAside, CommandInv, Aside, Undoing
  <2>2. ASSUME NEW k \in Names, tx'.kept[k] # NoFile
        PROVE  tx'.kept[k] = tx.kept[k]
    <3>1. CASE SameAside
      BY <3>1 DEF SameAside
    <3>2. ASSUME NEW n \in Names, tx'.kept[n] \in {NoFile, tx.kept[n]},
                 \A i \in Names : i # n => tx'.kept[i] = tx.kept[i]
          PROVE  tx'.kept[k] = tx.kept[k]
      BY <2>2, <3>2
    <3>3. QED
      BY <1>28, <3>1, <3>2, RestoreFact DEF Skips
  <2>3. QED
    BY <2>1, <2>2 DEF KeptInv, CaptureInv, SameFrame, SamePlan
<1>29. CASE Restored
  BY <1>29, RestoredFact
     DEF KeptInv, CaptureInv, Goes, Spoils, SameFrame, SameTask, SamePlan, SameAside
<1>30. CASE Crash
  BY <1>30, CrashFact
     DEF KeptInv, CaptureInv, Goes, SameFrame, SameTask, SamePlan, SameAside, SameDisk
<1>31. ASSUME NEW p \in Places, NEW n \in Names, Drift(p, n) PROVE KeptInv'
  BY <1>31, DriftFact DEF KeptInv, CaptureInv
<1>32. CASE UNCHANGED vars
  BY <1>32, SameFact DEF KeptInv, CaptureInv
<1>33. CASE Look
  BY <1>33, LookFact
     DEF KeptInv, CaptureInv, Goes, Turns, Passes, Skips, SameFrame, SamePlan, SameAside
<1>34. CASE Confirm
  <2>1. tx.pc = "move" /\ tx.job # "none" /\ tx'.job = tx.job /\ tx'.prev = tx.prev
        /\ tx'.pc \notin {"retiring", "retired"}
    BY <1>34, ConfirmFact DEF CommandInv, Aside, Turns, SameFrame, SamePlan
  <2>2. ASSUME NEW k \in Names, tx'.kept[k] # NoFile
        PROVE  k \in OwnedSet(tx.prev) /\ tx'.kept[k].ver = tx.prev
    <3>1. CASE tx'.kept[k] = tx.kept[k]
      BY <2>1, <2>2, <3>1 DEF CaptureInv, KeptInv
    <3>2. CASE k \in Waiting /\ tx'.kept[k] = tx.expected[k]
      BY <2>1, <3>2, <1>a DEF CaptureInv, ExpectedInv
    <3>3. QED
      BY <1>34, <2>2, <3>1, <3>2, ConfirmFact DEF SameAside
  <2>3. QED
    BY <2>1, <2>2 DEF KeptInv
<1>35. CASE Record
  BY <1>35, RecordFact
     DEF KeptInv, CaptureInv, Turns, SameFrame, SamePlan, SameAside
<1>36. QED
  BY <1>1, <1>2, <1>3, <1>4, <1>5, <1>6, <1>7, <1>8, <1>9, <1>10, <1>11, <1>12, <1>13, <1>14,
     <1>15, <1>16, <1>17, <1>18, <1>19, <1>20, <1>21, <1>22, <1>23, <1>24, <1>25, <1>26, <1>27,
     <1>28, <1>29, <1>30, <1>31, <1>32, <1>33, <1>34, <1>35
     DEF Next, Installer, Reading, Forward, Retire, Backward, Look

\* What was captured, before it is moved and after.
LEMMA CaptureStep == ASSUME IInv, [Next]_vars PROVE CaptureInv'
  BY ExpectedStep, WaitingStep, MovedStep, KeptStep DEF CaptureInv

\* What was removed stays away.
LEMMA AwayStep == ASSUME IInv, [Next]_vars PROVE AwayInv'
<1> USE DEF IInv

<1>0. /\ home \in Places /\ side \in Places /\ home # side
      /\ Foreign = -1 - spent.drift /\ spent.drift \in Nat /\ Junk = 0
      /\ \A n \in Names : Nothing[n] = NoFile
      /\ tx.back \in BOOLEAN
  BY PlaceFact, NothingFact DEF TypeInv, Foreign, Memory, Junk
<1>a. tx.job # "none" => /\ tx.prev \in {1, 2} /\ OwnedSet(tx.prev) = Moved \cup Waiting
                         /\ OwnedSet(tx.prev) \subseteq Names
                         /\ tx.m = 0 => Moved = {} /\ Waiting = OwnedSet(tx.prev)
                         /\ tx.m = Len(Owned(tx.prev)) => Waiting = {} /\ Moved = OwnedSet(tx.prev)
  <2>1. tx.job # "none" => tx.prev \in {1, 2} /\ tx.m \in Nat /\ tx.m <= Len(Owned(tx.prev))
    BY DEF TypeInv, Memory, CommandInv, ProgressInv
  <2>2. QED
    BY <2>1, CountFact
<1>1. ASSUME NEW cmd \in {"install", "upgrade", "verify", "uninstall"}, NEW t \in Targets,
            NEW b \in Bundles, Begin(cmd, t, b)
     PROVE  AwayInv'
  BY <1>1, BeginFact DEF AwayInv, Away
<1>2. CASE Refuse
  BY <1>2, RefuseFact DEF AwayInv, Away, Stops, SamePlan
<1>3. CASE ValidateBundle
  BY <1>3, ValidateBundleFact
     DEF AwayInv, Away, Goes, Stops, SameFrame, SameTask, SamePlan, CommandInv
<1>4. CASE FindLegacy
  BY <1>4, FindLegacyFact
     DEF AwayInv, Away, Goes, Stops, SameFrame, SameTask, SamePlan, CommandInv
<1>5. CASE Verify
  BY <1>5, VerifyFact DEF AwayInv, Away, Stops, SamePlan, CommandInv
<1>6. CASE Commit
  BY <1>6, CommitFact DEF AwayInv, Away, Goes, Stops, SameFrame, SameTask, SamePlan, CommandInv
<1>7. CASE Guard
  BY <1>7, GuardFact DEF AwayInv, Away, Stops, SameTask, SamePlan, Calm, Quiet, CommandInv
<1>8. CASE Unguard
  BY <1>8, UnguardFact DEF AwayInv, Away, Stops, SamePlan, CommandInv
<1>9. CASE Prepare
  BY <1>9, PrepareFact DEF AwayInv, Away, Stops, Captures, SamePlan, CommandInv
<1>10. CASE Stage
  BY <1>10, StageFact DEF AwayInv, Away, Stops, SamePlan, CommandInv
<1>11. CASE Recheck
  BY <1>11, RecheckFact DEF AwayInv, Away, Goes, Stops, SameFrame, SameTask, SamePlan, CommandInv
<1>12. CASE Snapshot
  BY <1>12, SnapshotFact DEF AwayInv, Away, Goes, Stops, SameFrame, SameTask, SamePlan, CommandInv
<1>13. CASE Capture
  BY <1>13, CaptureFact DEF AwayInv, Away, Stops, Captures, Retiring
<1>14. CASE Quarantine
  <2>1. Moved = {} /\ tx.pc = "quarantine" /\ tx.job = "remove"
    BY <1>14, QuarantineFact, <1>a DEF CommandInv, ProgressInv, Early
  <2>2. CASE Goes("move")
    BY <2>1, <2>2 DEF AwayInv, Goes, SameCounts
  <2>3. CASE Stops
    BY <2>3 DEF AwayInv, Stops, Retiring
  <2>4. QED
    BY <1>14, <2>2, <2>3, QuarantineFact
<1>15. CASE Move
  <2>1. CASE Turns("OBS_PLUGIN_DRIFT")
    BY <2>1 DEF AwayInv, Turns, Retiring
  <2>2. ASSUME NEW n \in Names, at'[home][n] = NoFile,
               \A k \in Names : k # n => at'[home][k] = at[home][k],
               Goes("move"), Carried(<<home, n>>, <<side, n>>)
        PROVE  AwayInv'
    <3>1. \A k \in Names : Away(k) => Away(k)'
      BY <2>2 DEF Away, Goes, SameFrame, SameTask, Carried
    <3>2. tx.pc = "move" /\ Moved \subseteq Names
      BY <1>15, <1>a, MoveFact DEF CommandInv, Aside
    <3>3. QED
      BY <2>2, <3>1, <3>2 DEF AwayInv, Goes, SameFrame, SamePlan, SameTask, SameCounts, SameMood
  <2>3. QED
    BY <1>15, <2>1, <2>2, <1>0, MoveFact
<1>16. CASE Publish
  BY <1>16, PublishFact DEF AwayInv, Goes, Turns, SameFrame, SameTask, SamePlan, Retiring
<1>17. CASE Settle
  BY <1>17, SettleFact DEF AwayInv, Away, Turns, SameFrame, SameTask, SamePlan
<1>18. CASE Empty
  BY <1>18, EmptyFact
     DEF AwayInv, Away, Goes, SameFrame, SameTask, SamePlan, SameMood, Calm, Quiet, SameCounts
<1>19. CASE RetireStart
  BY <1>19, RetireStartFact
     DEF AwayInv, Away, Turns, Fails, GivesUp, SameFrame, SameTask, SamePlan, SameMood, Calm,
         Quiet, SameCounts, SameDisk, Retiring
<1>20. ASSUME NEW n \in Names, RetireFile(n) PROVE AwayInv'
  BY <1>20, RetireFileFact, <1>0, <1>a
     DEF AwayInv, Away, SameFrame, SameTask, SamePlan, SameMood, Calm, Quiet, SameCounts, Others,
         Cleared, CommandInv
<1>21. CASE RetireDirectory
  BY <1>21, RetireDirectoryFact, <1>a
     DEF AwayInv, Away, Goes, SameFrame, SameTask, SamePlan, SameMood, Calm, Quiet, SameCounts,
         Retiring
<1>22. CASE Retired
  <2>1. /\ tx.pc = "retired" /\ at' = at /\ touched' = touched
        /\ tx.job # "replace" => tx.job = "remove"
    BY <1>22, RetiredFact DEF SameDisk, Calm, CommandInv, Aside, Retiring, TypeInv, Memory
  <2>2. CASE tx'.pc = "done"
    BY <2>2 DEF AwayInv, Retiring
  <2>3. CASE Goes("final")
    BY <2>3 DEF AwayInv, Goes, Retiring
  <2>4. CASE ~tx.back /\ tx.job # "replace" /\ Leaves("commit")
    <3>1. Moved = OwnedSet(tx.prev) /\ \A n \in Moved : Away(n)
      BY <2>1, <2>4, <1>a DEF ProgressInv, AwayInv, Retiring
    <3>2. /\ tx'.pc = "commit" /\ tx'.job = "none" /\ tx'.prev = tx.prev /\ home' = home
      BY <2>4 DEF Leaves, SameTask
    <3>3. QED
      BY <2>1, <3>1, <3>2 DEF AwayInv, Away
  <2>5. QED
    BY <1>22, <2>2, <2>3, <2>4, RetiredFact DEF Goes
<1>23. CASE RetireBreaks
  BY <1>23, RetireBreaksFact DEF AwayInv, Away, Turns, Fails, GivesUp
<1>24. CASE Final
  BY <1>24, FinalFact DEF AwayInv, Away, Turns, Leaves
<1>25. CASE StartRollback
  BY <1>25, StartRollbackFact DEF AwayInv, Away, Goes, Spoils, Retiring, Undoing, ProgressInv
<1>26. CASE Unpublish
  BY <1>26, UnpublishFact DEF AwayInv, Passes, Retiring
<1>27. CASE Unpublished
  BY <1>27, UnpublishedFact DEF AwayInv, Away, Goes, SameFrame, SameTask, SamePlan, CommandInv
<1>28. CASE Restore
  BY <1>28, RestoreFact DEF AwayInv, Skips, Retiring
<1>29. CASE Restored
  BY <1>29, RestoredFact, <1>a
     DEF AwayInv, Away, Goes, Spoils, SameFrame, SameTask, SamePlan, SameCounts
<1>30. CASE Crash
  BY <1>30, CrashFact DEF AwayInv, Away, Goes, Retiring
<1>31. ASSUME NEW p \in Places, NEW n \in Names, Drift(p, n) PROVE AwayInv'
  <2>1. /\ tx' = tx /\ home' = home /\ Moved' = Moved /\ touched' = touched \cup {<<p, n>>}
        /\ Others(p, n)
    BY <1>31, DriftFact
  <2>2. ASSUME NEW k \in Names, Away(k) PROVE Away(k)'
    <3>1. CASE p = home /\ n = k
      BY <2>1, <3>1 DEF Away
    <3>2. CASE p # home \/ n # k
      BY <2>1, <2>2, <3>2, <1>0 DEF Away, Others
    <3>3. QED
      BY <3>1, <3>2
  <2>3. tx.legacy /\ tx.pc \in {"commit", "guard", "guarded"} => OwnedSet(tx.prev) \subseteq Names
    <3>1. tx.prev \in 0..2
      BY DEF TypeInv, Memory
    <3>2. QED
      BY <3>1, OwnedFact DEF OwnedSet
  <2>4. tx.job = "remove" => Moved \subseteq Names
    BY <1>a
  <2>5. QED
    BY <2>1, <2>2, <2>3, <2>4 DEF AwayInv
<1>32. CASE UNCHANGED vars
  BY <1>32, SameFact DEF AwayInv, Away
<1>33. CASE Look
  <2>1. CASE Goes("move")
    <3>1. tx.pc = "move" /\ tx.seen = "nothing" /\ Calm /\ SameDisk
      BY <1>33, LookFact, <2>1 DEF Goes
    <3>2. QED
      BY <2>1, <3>1
         DEF AwayInv, Away, Goes, SameFrame, SameTask, SamePlan, SameCounts, SameMood, Calm, SameDisk
  <2>2. CASE tx'.pc \in {"rollback", "unpublish", "restore"}
    BY <2>2 DEF AwayInv, Retiring
  <2>3. QED
    BY <1>33, LookFact, <2>1, <2>2 DEF Goes, Turns, Passes, Skips
<1>34. CASE Confirm
  <2>1. CASE Turns("OBS_PLUGIN_DRIFT")
    BY <2>1 DEF AwayInv, Turns, Retiring
  <2>2. ASSUME NEW n \in Names, n = Owned(tx.prev)[tx.m + 1], tx.m < Len(Owned(tx.prev)),
               Moved' = Moved \cup {n}, SameFrame, SameMood, tx'.pc = "move"
        PROVE  AwayInv'
    <3>1. tx.pc = "move" /\ at' = at /\ touched' = touched /\ Away(n)
      BY <1>34, <2>2, ConfirmFact DEF Calm, InFlight, LookInv, FlightInv
    <3>2. QED
      BY <2>2, <3>1 DEF AwayInv, Away, SameFrame, SamePlan, SameTask, SameMood
  <2>3. QED
    BY <1>34, <2>1, <2>2, ConfirmFact
<1>35. CASE Record
  BY <1>35, RecordFact DEF AwayInv, Turns, SameFrame, SamePlan, Retiring
<1>36. QED
  BY <1>1, <1>2, <1>3, <1>4, <1>5, <1>6, <1>7, <1>8, <1>9, <1>10, <1>11, <1>12, <1>13, <1>14,
     <1>15, <1>16, <1>17, <1>18, <1>19, <1>20, <1>21, <1>22, <1>23, <1>24, <1>25, <1>26, <1>27,
     <1>28, <1>29, <1>30, <1>31, <1>32, <1>33, <1>34, <1>35
     DEF Next, Installer, Reading, Forward, Retire, Backward, Look

LEMMA SplitFact ==
    ASSUME [Next]_vars
    PROVE  \/ \E cmd \in {"install", "upgrade", "verify", "uninstall"}, t \in Targets, b \in Bundles :
                Begin(cmd, t, b)
           \/ Other \/ Look \/ Move \/ Confirm \/ Publish \/ Record \/ Unpublish \/ Restore \/ Crash
           \/ \E p \in Places, n \in Names : Drift(p, n)
           \/ UNCHANGED vars
  BY DEF Next, Installer, Forward, Backward, Other, Look

\* The recovery directory goes when nothing is moved any more.
LEMMA RetireFact == ASSUME IInv, Retire PROVE tx'.pc \notin Early \cup {"move"}
<1> USE DEF Early
<1>1. CASE RetireStart
  BY <1>1, RetireStartFact DEF Fails, GivesUp, Turns
<1>2. ASSUME NEW n \in Names, RetireFile(n) PROVE tx'.pc \notin Early \cup {"move"}
  BY <1>2, RetireFileFact
<1>3. CASE RetireDirectory
  BY <1>3, RetireDirectoryFact DEF Goes
<1>4. CASE Retired
  BY <1>4, RetiredFact DEF Goes, Leaves
<1>5. CASE RetireBreaks
  BY <1>5, RetireBreaksFact DEF Turns, Fails, GivesUp
<1>6. CASE Final
  BY <1>6, FinalFact DEF Turns, Leaves
<1>7. QED
  BY <1>1, <1>2, <1>3, <1>4, <1>5, <1>6 DEF Retire

\* A look is followed by the step that relies on it.
LEMMA SeenStep == ASSUME IInv, [Next]_vars PROVE SeenInv'
<1> USE DEF IInv
<1>1. CASE tx'.seen = "nothing"
  BY <1>1 DEF SeenInv
<1>2. ASSUME tx'.seen # "nothing", there' = there, home' = home, home \in there,
             tx'.pc = "move", tx.pc = "move", SamePlan, SameCounts, tx'.seen \in {"fit", "moved", "placed"},
             tx.m < Len(Owned(tx.prev)) \/ Publishing,
             tx'.seen = "moved" => tx.m < Len(Owned(tx.prev)),
             tx'.seen = "placed" => Publishing
      PROVE  SeenInv'
  <2>1. tx'.m = tx.m /\ tx'.n = tx.n /\ tx'.prev = tx.prev /\ tx'.job = tx.job
    BY <1>2 DEF SamePlan, SameCounts
  <2>2. Publishing' <=> Publishing
    BY <1>2, <2>1 DEF Publishing, At
  <2>3. QED
    BY <1>2, <2>1, <2>2 DEF SeenInv
<1>3. CASE CheckSource
  <2>1. CASE OwnedSource(Owned(tx.prev)[tx.m + 1]) /\ Goes("move") /\ tx'.seen = "fit"
    <3>1. /\ tx.pc = "move" /\ tx.m < Len(Owned(tx.prev)) /\ tx.prev \in {1, 2} /\ there' = there
          /\ Owned(tx.prev)[tx.m + 1] \in Names /\ tx.m \in Nat /\ tx.job # "none"
      BY <1>3, CheckSourceFact DEF TypeInv, Memory, CommandInv, Aside
    <3>2. Owned(tx.prev)[tx.m + 1] \in OwnedSet(tx.prev)
      BY <3>1, OwnedFact
    <3>3. at[home][Owned(tx.prev)[tx.m + 1]] # NoFile
      BY <2>1, <3>1, <3>2 DEF OwnedSource, CaptureInv, ExpectedInv
    <3>4. home \in there
      BY <3>1, <3>3, PlaceFact DEF SpaceInv
    <3>5. QED
      BY <1>2, <2>1, <3>1, <3>4 DEF Goes, SameFrame, SameTask
  <2>2. QED
    BY <1>1, <1>3, <2>1, CheckSourceFact
<1>4. CASE CheckPlace
  BY <1>1, <1>2, <1>4, CheckPlaceFact DEF Free, Goes, SameFrame, SameTask
<1>5. CASE CheckPublished
  <2>1. CASE OwnPublished(Owned(Current)[tx.n]) /\ Goes("unpublish") /\ tx'.seen = "fit"
    <3>1. home \in there
      BY <1>5, <2>1, CheckPublishedFact, PlaceFact DEF OwnPublished, SpaceInv
    <3>2. QED
      BY <1>5, <2>1, <3>1, CheckPublishedFact
         DEF SeenInv, Goes, SameFrame, SameTask, SameCounts
  <2>2. QED
    BY <1>1, <1>5, <2>1, CheckPublishedFact DEF Passes
<1>6. CASE CheckBack
  <2>1. CASE Free(Owned(tx.prev)[tx.m]) /\ Goes("restore") /\ tx'.seen \in {"gone", "match", "other"}
    BY <1>6, <2>1, CheckBackFact DEF SeenInv, Free, Goes, SameFrame, SameTask, SameCounts
  <2>2. QED
    BY <1>1, <1>6, <2>1, CheckBackFact DEF Skips
<1>7. CASE Move
  <2>1. CASE Goes("move") /\ tx'.seen = "moved"
    <3>1. /\ tx.pc = "move" /\ there' = there /\ tx.m < Len(Owned(tx.prev)) /\ home \in there
      BY <1>7, MoveFact DEF LookInv, SeenInv
    <3>2. QED
      BY <1>2, <2>1, <3>1 DEF Goes, SameFrame, SameTask
  <2>2. QED
    BY <1>1, <1>7, <2>1, MoveFact
<1>8. CASE Publish
  <2>1. CASE Goes("move") /\ tx'.seen = "placed"
    <3>1. /\ tx.pc = "move" /\ there' = there /\ Publishing /\ home \in there
      BY <1>8, PublishFact DEF LookInv, SeenInv, Publish
    <3>2. QED
      BY <1>2, <2>1, <3>1 DEF Goes, SameFrame, SameTask
  <2>2. QED
    BY <1>1, <1>8, <2>1, PublishFact
<1>9. CASE Crash
  <2>1. tx'.seen = tx.seen
    BY <1>9, DomainFact DEF Crash, Go
  <2>2. QED
    BY <1>9, <2>1, CrashFact DEF SeenInv, LookInv, Goes, SameFrame, SameTask, SameDisk
<1>10. ASSUME NEW p \in Places, NEW n \in Names, Drift(p, n) PROVE SeenInv'
  BY <1>10, DriftFact DEF SeenInv, LookInv, Publishing, At
<1>11. CASE UNCHANGED vars
  BY <1>11, SameFact DEF SeenInv, LookInv, Publishing, At
<1>12. CASE \/ \E cmd \in {"install", "upgrade", "verify", "uninstall"}, t \in Targets, b \in Bundles :
                 Begin(cmd, t, b)
            \/ Other \/ Confirm \/ Record \/ Unpublish \/ Restore
  BY <1>1, <1>12, BeginFact, StillFact, ConfirmFact, RecordFact, UnpublishFact, RestoreFact
     DEF Passes
<1>13. QED
  BY <1>3, <1>4, <1>5, <1>6, <1>7, <1>8, <1>9, <1>10, <1>11, <1>12, SplitFact DEF Look

\* The file that is on its way is known to nobody else.
LEMMA FlightStep == ASSUME IInv, [Next]_vars PROVE FlightInv'
<1> USE DEF IInv
<1>0. home \in Places /\ side \in Places /\ home # side
  BY PlaceFact
<1>a. tx.pc = "move" => /\ \A n \in Waiting : n \in Names /\ n \in OwnedSet(tx.prev)
                        /\ tx.m = Len(Owned(tx.prev)) => Waiting = {}
  <2>1. tx.pc = "move" => tx.prev \in {1, 2} /\ tx.m \in Nat /\ tx.m <= Len(Owned(tx.prev))
    BY DEF TypeInv, Memory, CommandInv, ProgressInv, Aside
  <2>2. QED
    BY <2>1, CountFact
<1>1. CASE tx'.seen = "nothing" /\ tx'.pc # "move"
  BY <1>1 DEF FlightInv, InFlight
<1>2. CASE tx'.pc = "move" /\ tx.pc = "move" /\ tx'.seen # "moved" /\ tx'.kept = tx.kept
           /\ Waiting' = Waiting
  BY <1>2 DEF FlightInv, InFlight, LookInv
<1>3. CASE CheckSource
  BY <1>1, <1>2, <1>3, CheckSourceFact DEF Goes, Turns, SameCounts, SameAside
<1>4. CASE CheckPlace
  BY <1>1, <1>2, <1>4, CheckPlaceFact DEF Goes, Turns, SameCounts, SameAside
<1>5. CASE CheckPublished
  BY <1>5, CheckPublishedFact DEF Goes, Passes, FlightInv, InFlight
<1>6. CASE CheckBack
  <2>1. CASE Goes("restore") /\ (tx'.seen = "match" => Matches(Owned(tx.prev)[tx.m]))
    <3> DEFINE n == Owned(tx.prev)[tx.m]
    <3>1. /\ tx.pc = "restore" /\ tx.job # "none" /\ n \in Names /\ at' = at /\ touched' = touched
          /\ tx'.m = tx.m /\ tx'.prev = tx.prev /\ side' = side /\ tx'.pc = "restore"
      BY <1>6, <2>1, CheckBackFact
         DEF CommandInv, Aside, Undoing, Calm, Goes, SameFrame, SamePlan, SameCounts
    <3>2. Matches(n) => Intact(side, n, tx.prev)
      BY <3>1 DEF Matches, Gone, Intact, CaptureInv, KeptInv
    <3>3. QED
      BY <2>1, <3>1, <3>2 DEF FlightInv, InFlight, Intact
  <2>2. QED
    BY <1>1, <1>6, <2>1, CheckBackFact DEF Skips
<1>7. CASE Move
  <2>1. ASSUME NEW n \in Names, n = Owned(tx.prev)[tx.m + 1], n \in Waiting,
               at'[home][n] = NoFile, at'[side][n] = at[home][n],
               Goes("move"), tx'.seen = "moved", Carried(<<home, n>>, <<side, n>>)
        PROVE  FlightInv'
    <3>1. /\ tx.pc = "move" /\ tx'.pc = "move" /\ tx'.kept = tx.kept /\ Waiting' = Waiting
          /\ tx'.m = tx.m /\ tx'.prev = tx.prev /\ tx'.expected = tx.expected
          /\ home' = home /\ side' = side
      BY <1>7, <2>1, MoveFact
         DEF Goes, SameFrame, SameTask, SamePlan, SameCounts, SameAside
    <3>2. <<home, n>> \in touched <=> at[home][n] # tx.expected[n]
      <4>1. ~InFlight(n) /\ tx.job # "none"
        BY <1>7, <3>1, MoveFact DEF InFlight, CommandInv, Aside
      <4>2. QED
        BY <2>1, <3>1, <4>1 DEF CaptureInv, WaitingInv
    <3>3. <<side, n>> \in touched' \/ at'[side][n] = tx.expected[n]
      BY <2>1, <3>2 DEF Carried
    <3>4. \A k \in Names : InFlight(k)' => k = n
      BY <2>1, <3>1 DEF InFlight
    <3>5. QED
      BY <2>1, <3>1, <3>3, <3>4 DEF FlightInv, LookInv, Away, Excused
  <2>2. QED
    BY <1>1, <1>7, <2>1, MoveFact DEF Turns
<1>8. CASE Confirm
  <2>1. ASSUME NEW n \in Names, n \in Waiting, Waiting' = Waiting \ {n},
               \A k \in Names : k # n => tx'.kept[k] = tx.kept[k], tx'.seen = "nothing"
        PROVE  FlightInv'
    <3>1. tx.pc = "move"
      BY <1>8, ConfirmFact
    <3>2. \A k \in Waiting \ {n} : tx'.kept[k] = NoFile
      BY <1>a, <2>1, <3>1 DEF FlightInv, LookInv
    <3>3. QED
      BY <2>1, <3>2 DEF FlightInv, InFlight
  <2>2. QED
    BY <1>1, <1>8, <2>1, ConfirmFact DEF Turns
<1>9. CASE Publish
  BY <1>1, <1>2, <1>9, PublishFact DEF Goes, Turns, SameCounts, SameAside
<1>10. CASE Record
  BY <1>1, <1>2, <1>10, RecordFact DEF Turns, SameAside
<1>11. CASE Unpublish \/ Restore
  BY <1>1, <1>11, UnpublishFact, RestoreFact DEF Passes, Skips
<1>12. CASE Crash
  BY <1>12, CrashFact DEF FlightInv, InFlight, Goes
<1>13. ASSUME NEW p \in Places, NEW n \in Names, Drift(p, n) PROVE FlightInv'
  <2>1. /\ tx' = tx /\ home' = home /\ side' = side /\ Waiting' = Waiting
        /\ touched' = touched \cup {<<p, n>>} /\ Others(p, n)
    BY <1>13, DriftFact
  <2>2. ASSUME NEW q \in Places, NEW k \in Names
        PROVE  <<q, k>> \in touched' \/ (at'[q][k] = at[q][k] /\ <<q, k>> \notin touched)
    BY <2>1 DEF Others
  <2>3. ASSUME NEW k \in Names, InFlight(k)'
        PROVE  Away(k)' /\ (Excused(k)' \/ at'[side][k] = tx.expected[k])
    <3>1. Away(k) /\ (Excused(k) \/ at[side][k] = tx.expected[k])
      BY <2>1, <2>3 DEF InFlight, FlightInv, LookInv
    <3>2. QED
      BY <2>1, <2>2, <3>1, <1>0 DEF Away, Excused
  <2>4. ASSUME tx.pc = "restore", tx.seen = "match"
        PROVE  LET k == Owned(tx.prev)[tx.m]
               IN <<side, k>> \in touched' \/ Intact(side, k, tx.prev)'
    <3> DEFINE k == Owned(tx.prev)[tx.m]
    <3>1. tx.prev \in {1, 2} /\ tx.m > 0 /\ tx.m \in Nat /\ tx.m <= Len(Owned(tx.prev))
      BY <2>4 DEF LookInv, SeenInv, CommandInv, Aside, Undoing, ProgressInv, TypeInv, Memory
    <3>2. k \in Names
      BY <3>1, OwnedFact
    <3>3. <<side, k>> \in touched \/ Intact(side, k, tx.prev)
      BY <2>4 DEF LookInv, FlightInv
    <3>4. QED
      BY <2>1, <2>2, <3>2, <3>3, <1>0 DEF Intact
  <2>5. QED
    BY <2>1, <2>3, <2>4 DEF FlightInv, LookInv, Intact
<1>14. CASE UNCHANGED vars
  BY <1>14, SameFact DEF FlightInv, LookInv, InFlight, Away, Excused, Intact
<1>15. CASE Other
  <2>1. tx'.seen = "nothing"
    BY <1>15, StillFact
  <2>2. CASE tx'.pc # "move"
    BY <1>1, <2>1, <2>2
  <2>3. CASE tx'.pc = "move"
    <3>1. Snapshot \/ Quarantine
      BY <1>15, <2>3, RefuseFact, ValidateBundleFact, FindLegacyFact, VerifyFact, CommitFact,
         GuardFact, UnguardFact, PrepareFact, StageFact, RecheckFact, CaptureFact, SettleFact,
         EmptyFact, RetireFact, StartRollbackFact, UnpublishedFact, RestoredFact
         DEF Other, Reading, Stops, Goes, Turns, Spoils, Captures
    <3>2. tx'.kept = Nothing
      BY <3>1, SnapshotFact, QuarantineFact DEF Goes, Stops, SameAside, ProgressInv, Early
    <3>3. Waiting' \subseteq Names
      <4>1. tx.prev \in {1, 2} /\ tx.m \in Nat /\ tx.m <= Len(Owned(tx.prev)) /\ Waiting' = Waiting
        BY <3>1, SnapshotFact, QuarantineFact
           DEF Goes, Stops, SameCounts, CommandInv, Aside, ProgressInv, TypeInv, Memory
      <4>2. QED
        BY <4>1, CountFact
    <3>4. QED
      BY <2>1, <3>2, <3>3, NothingFact DEF FlightInv, InFlight
  <2>4. QED
    BY <2>2, <2>3
<1>16. CASE \E cmd \in {"install", "upgrade", "verify", "uninstall"}, t \in Targets, b \in Bundles :
                 Begin(cmd, t, b)
  BY <1>1, <1>16, BeginFact
<1>17. QED
  BY <1>3, <1>4, <1>5, <1>6, <1>7, <1>8, <1>9, <1>10, <1>11, <1>12, <1>13, <1>14, <1>15, <1>16,
     SplitFact DEF Look

\* What it takes for its own it has made, or found in the place of what it made.
LEMMA OwnStep == ASSUME IInv, [Next]_vars PROVE OwnInv'
<1> USE DEF IInv
<1>1. CASE tx'.pc \notin Early \cup {"move"} /\ (tx'.back \/ tx'.restored = {})
  BY <1>1 DEF OwnInv
<1>2. CASE /\ tx'.pc = "move" /\ tx.pc = "move" /\ Quiet /\ tx'.own = tx.own
           /\ tx'.restored = tx.restored /\ tx'.back = tx.back /\ tx'.seen # "placed"
  BY <1>2 DEF OwnInv, Adopted, LookInv, Quiet
<1>3. CASE Look
  <2>1. CASE CheckSource
    BY <1>1, <1>2, <2>1, CheckSourceFact DEF Goes, Turns, SameMood, Calm, Early
  <2>2. CASE CheckPlace
    BY <1>1, <1>2, <2>2, CheckPlaceFact DEF Goes, Turns, SameMood, Calm, Early
  <2>3. CASE CheckPublished
    BY <1>1, <2>3, CheckPublishedFact DEF Goes, Passes, SameMood, Early, ProgressInv, Undoing
  <2>4. CASE CheckBack
    BY <1>1, <2>4, CheckBackFact DEF Goes, Skips, SameMood, Early, ProgressInv, Undoing
  <2>5. QED
    BY <1>3, <2>1, <2>2, <2>3, <2>4 DEF Look
<1>4. CASE Move
  <2>1. CASE Turns("OBS_PLUGIN_DRIFT")
    BY <1>1, <2>1 DEF Turns, Early
  <2>2. CASE /\ Goes("move") /\ tx'.seen = "moved" /\ tx'.own = tx.own
             /\ tx'.restored = tx.restored
    BY <1>2, <1>4, <2>2, MoveFact DEF Goes, SameMood
  <2>3. QED
    BY <1>4, <2>1, <2>2, MoveFact
<1>5. CASE Confirm
  <2>1. CASE Turns("OBS_PLUGIN_DRIFT")
    BY <1>1, <2>1 DEF Turns, Early
  <2>2. CASE /\ tx'.pc = "move" /\ SameMood /\ tx'.own = tx.own /\ tx'.restored = tx.restored
    BY <1>2, <1>5, <2>2, ConfirmFact DEF SameMood, Calm
  <2>3. QED
    BY <1>5, <2>1, <2>2, ConfirmFact
<1>6. CASE Publish
  <2>1. CASE Turns("OBS_PLUGIN_DRIFT")
    BY <1>1, <2>1 DEF Turns, Early
  <2>2. ASSUME NEW n \in OwnedSet(Current), n = Owned(Current)[tx.n + 1],
               at'[home][n].gen = Staged, Goes("move"), tx'.own = tx.own,
               tx'.restored = tx.restored
        PROVE  OwnInv'
    <3>1. tx.pc = "move" /\ Quiet
      BY <1>6, PublishFact DEF Calm
    <3>2. tx'.n = tx.n /\ home' = home /\ tx'.back = tx.back /\ tx'.pc = "move"
      BY <2>2 DEF Goes, SameFrame, SameTask, SameCounts, SameMood
    <3>3. \A k \in Names : Adopted(tx.own[k])'
      BY <2>2, <3>1 DEF Adopted, LookInv, OwnInv, Quiet
    <3>4. Adopted(at[home][Owned(Current)[tx.n + 1]])'
      BY <2>2, <3>1, <3>2 DEF Adopted, Quiet
    <3>5. QED
      BY <2>2, <3>2, <3>3, <3>4 DEF OwnInv, LookInv
  <2>3. QED
    BY <1>6, <2>1, <2>2, PublishFact DEF Wrote
<1>7. CASE Record
  <2>1. CASE Turns("OBS_PLUGIN_DRIFT")
    BY <1>1, <2>1 DEF Turns, Early
  <2>2. ASSUME NEW n \in OwnedSet(Current), n = Owned(Current)[tx.n + 1],
               tx'.own[n] = at[home][n], \A k \in Names : k # n => tx'.own[k] = tx.own[k],
               tx'.pc = "move", SameMood, tx'.restored = tx.restored
        PROVE  OwnInv'
    <3>1. tx.pc = "move" /\ Quiet /\ tx.seen = "placed" /\ tx'.seen = "nothing"
      BY <1>7, RecordFact DEF Calm
    <3>2. Adopted(at[home][n]) /\ \A k \in Names : Adopted(tx.own[k])
      BY <2>2, <3>1 DEF LookInv, OwnInv
    <3>3. QED
      BY <2>2, <3>1, <3>2 DEF OwnInv, LookInv, Adopted, SameMood, Quiet
  <2>3. QED
    BY <1>7, <2>1, <2>2, RecordFact
<1>8. CASE Unpublish \/ Restore
  BY <1>1, <1>8, UnpublishFact, RestoreFact
     DEF Passes, Skips, Early, ProgressInv, Undoing
<1>9. CASE Crash
  <2>1. tx'.restored = tx.restored
    BY <1>9, DomainFact DEF Crash, Go
  <2>2. QED
    BY <1>9, <2>1, CrashFact DEF OwnInv, LookInv, Goes, SameMood, Early
<1>10. ASSUME NEW p \in Places, NEW n \in Names, Drift(p, n) PROVE OwnInv'
  <2>1. /\ tx' = tx /\ home' = home /\ Staged' = Staged /\ spent'.drift = spent.drift + 1
        /\ spent.drift \in Nat /\ Foreign = -1 - spent.drift
    BY <1>10, DriftFact DEF TypeInv, Foreign
  <2>2. ASSUME NEW f \in Object \cup {NoFile}, Adopted(f) PROVE Adopted(f)'
    <3>1. CASE f = NoFile
      BY <3>1 DEF Adopted
    <3>2. CASE f \in Object
      BY <2>1, <2>2, <3>2 DEF Adopted, Object
    <3>3. QED
      BY <3>1, <3>2
  <2>3. tx.pc \in Early \cup {"move"} => \A k \in Names : Adopted(tx.own[k])'
    <3>1. ASSUME NEW k \in Names PROVE tx.own[k] \in Object \cup {NoFile}
      BY DEF TypeInv, Memory, Row
    <3>2. ASSUME NEW k \in Names, Adopted(tx.own[k]) PROVE Adopted(tx.own[k])'
      BY <2>1, <3>1, <3>2, <2>2 DEF Adopted
    <3>3. QED
      BY <3>2 DEF LookInv, OwnInv
  <2>4. ASSUME tx.pc = "move", tx.seen = "placed"
        PROVE  Adopted(at[home][Owned(Current)[tx.n + 1]])'
    <3> DEFINE k == Owned(Current)[tx.n + 1]
    <3>1. k \in Names /\ home \in Places
      <4>1. Publishing /\ tx.n \in Nat
        BY <2>4 DEF LookInv, SeenInv, TypeInv, Memory
      <4>2. QED
        BY <4>1, OwnedFact, NumberFact, PlaceFact DEF Publishing
    <3>2. Adopted(at[home][k])
      BY <2>4 DEF LookInv, OwnInv
    <3>3. at[home][k] \in Object \cup {NoFile} /\ at'[home][k] \in Object \cup {NoFile}
      BY <3>1, <1>10, DriftFact, FileFact DEF TypeInv, Row
    <3>4. CASE at'[home][k] = at[home][k]
      BY <2>1, <2>2, <3>2, <3>3, <3>4 DEF Adopted
    <3>5. CASE at'[home][k] # NoFile /\ at[home][k] # NoFile /\ at'[home][k].gen = at[home][k].gen
      BY <2>1, <3>2, <3>3, <3>5 DEF Adopted, Object
    <3>6. CASE at'[home][k].gen = Foreign
      BY <2>1, <3>6 DEF Adopted
    <3>7. CASE at'[home][k] = NoFile
      BY <2>1, <3>7 DEF Adopted
    <3>8. QED
      BY <1>10, <3>1, <3>4, <3>5, <3>6, <3>7, DriftFact DEF Others
  <2>5. QED
    BY <2>1, <2>3, <2>4 DEF OwnInv, LookInv
<1>11. CASE UNCHANGED vars
  BY <1>11, SameFact DEF OwnInv, LookInv, Adopted
<1>12. CASE Other
  <2>1. tx'.seen = "nothing"
    BY <1>12, StillFact
  <2>2. CASE tx'.own = Nothing /\ tx'.restored = {}
    BY <2>1, <2>2, NothingFact DEF OwnInv, Adopted
  <2>3. CASE tx'.own = tx.own /\ tx'.restored = tx.restored /\ (tx.back => tx'.back)
    <3>1. ~tx'.back => tx'.restored = {}
      BY <2>3 DEF LookInv, OwnInv, TypeInv, Memory
    <3>2. CASE tx'.pc \in Early \cup {"move"}
      <4>1. CASE Captures(0, "none", "stage") \/ \E v, job, pc : Captures(v, job, pc)
        BY <2>1, <4>1, NothingFact DEF Captures, OwnInv, Adopted
      <4>2. CASE Quiet /\ tx.pc \in Early \cup {"move"}
        BY <2>1, <2>3, <3>1, <4>2 DEF OwnInv, LookInv, Adopted, Quiet
      <4>3. QED
        BY <1>12, <3>2, <4>1, <4>2, RefuseFact, ValidateBundleFact, FindLegacyFact, VerifyFact,
           CommitFact, GuardFact, UnguardFact, PrepareFact, StageFact, RecheckFact, SnapshotFact,
           CaptureFact, QuarantineFact, SettleFact, EmptyFact, RetireFact, StartRollbackFact,
           UnpublishedFact, RestoredFact
           DEF Other, Reading, Stops, Goes, Turns, Spoils, Calm, Early
    <3>3. QED
      BY <1>1, <3>1, <3>2
  <2>4. QED
    BY <1>12, <2>2, <2>3, StillFact
<1>13. CASE \E cmd \in {"install", "upgrade", "verify", "uninstall"}, t \in Targets, b \in Bundles :
                 Begin(cmd, t, b)
  BY <1>1, <1>13, BeginFact DEF Early
<1>14. QED
  BY <1>3, <1>4, <1>5, <1>6, <1>7, <1>8, <1>9, <1>10, <1>11, <1>12, <1>13, SplitFact

LEMMA LookStep == ASSUME IInv, [Next]_vars PROVE LookInv'
  BY SeenStep, FlightStep, OwnStep DEF LookInv

\* What is guarded stays guarded.
LEMMA KeepOwnFact ==
    ASSUME TypeInv, GuardsOwn, tx'.guard = tx.guard, Staged' = Staged,
           spent'.drift \in {spent.drift, spent.drift + 1}
    PROVE  GuardsOwn'
<1>1. spent.drift \in Nat /\ OwnedSet(Current) \subseteq Names
  BY OwnedFact, NumberFact DEF TypeInv
<1>2. ASSUME NEW f \in Object \cup {NoFile}, Adopted(f)
      PROVE  f # NoFile => f.gen = Staged' \/ (f.gen < 0 /\ f.gen >= -spent'.drift)
  BY <1>1, <1>2 DEF Adopted, Object
<1>3. \A n \in OwnedSet(Current) : tx.guard.id[n] \in Object \cup {NoFile}
  BY <1>1 DEF TypeInv, Memory, Row
<1>4. QED
  BY <1>2, <1>3 DEF GuardsOwn, Adopted

\* What was published is there while the guard holds it.
LEMMA PublishedStep == ASSUME IInv, [Next]_vars PROVE PublishedInv'
<1> USE DEF IInv

<1>0. /\ home \in Places /\ side \in Places /\ home # side
      /\ home = Home(tx.home) /\ OwnedSet(Current) \subseteq Names
      /\ Staged \in Int /\ Staged >= 0 /\ Staged # Copied /\ Current # 0
      /\ tx.n \in Nat /\ tx.unclean \in BOOLEAN /\ tx.root \in BOOLEAN
      /\ Foreign = -1 - spent.drift /\ spent.drift \in Nat /\ Junk = 0
      /\ \A n \in Names : Nothing[n] = NoFile
      /\ tx.back \in BOOLEAN
  BY PlaceFact, NothingFact, NumberFact, OwnedFact DEF TypeInv, Foreign, Memory, Junk
<1>a. tx.job # "none" => /\ tx.prev \in {1, 2} /\ OwnedSet(tx.prev) = Moved \cup Waiting
                         /\ OwnedSet(tx.prev) \subseteq Names
                         /\ tx.m = 0 => Moved = {} /\ Waiting = OwnedSet(tx.prev)
                         /\ tx.m = Len(Owned(tx.prev)) => Waiting = {} /\ Moved = OwnedSet(tx.prev)
  <2>1. tx.job # "none" => tx.prev \in {1, 2} /\ tx.m \in Nat /\ tx.m <= Len(Owned(tx.prev))
    BY DEF TypeInv, Memory, CommandInv, ProgressInv
  <2>2. QED
    BY <2>1, CountFact
<1>b. ASSUME tx.job = "replace", tx.pc \in Retiring \cup {"final", "rollback"}, tx'.n = tx.n,
             tx'.guard = tx.guard, tx'.home = tx.home, touched' = touched, Staged' = Staged,
             spent'.drift = spent.drift, \A n \in Names : at'[home][n] = at[home][n]
      PROVE  PublishedInv'
  <2>1. SUFFICES ASSUME tx.n > 0, tx.guard.ver # 0
                 PROVE  PublishedOnDisk(tx.home)' /\ GuardsOwn'
    BY <1>b DEF PublishedInv
  <2>2. PublishedOnDisk(tx.home) /\ GuardsOwn
    BY <1>b, <2>1 DEF SurviveInv, PublishedInv
  <2>3. PublishedOnDisk(tx.home)'
    BY <1>0, <1>b, <2>2 DEF PublishedOnDisk, Intact
  <2>4. GuardsOwn'
    BY <1>b, <2>2, KeepOwnFact
  <2>5. QED
    BY <2>3, <2>4
<1>1. ASSUME NEW cmd \in {"install", "upgrade", "verify", "uninstall"}, NEW t \in Targets,
            NEW b \in Bundles, Begin(cmd, t, b)
     PROVE  PublishedInv'
  BY <1>1, BeginFact DEF PublishedInv, PublishedOnDisk, Intact, GuardsOwn, Adopted
<1>2. CASE Refuse
  BY <1>2, RefuseFact DEF PublishedInv, PublishedOnDisk, Intact, GuardsOwn, Adopted, Stops, SamePlan
<1>3. CASE ValidateBundle
  BY <1>3, ValidateBundleFact
     DEF PublishedInv, SurviveInv, PublishedOnDisk, Intact, GuardsOwn, Adopted, Goes, Stops, SameFrame,
         SameTask, SamePlan, CommandInv
<1>4. CASE FindLegacy
  BY <1>4, FindLegacyFact
     DEF PublishedInv, SurviveInv, PublishedOnDisk, Intact, GuardsOwn, Adopted, Goes, Stops, SameFrame,
         SameTask, SamePlan, CommandInv
<1>5. CASE Verify
  BY <1>5, VerifyFact
     DEF PublishedInv, SurviveInv, PublishedOnDisk, Intact, GuardsOwn, Adopted, Stops, SamePlan,
         CommandInv
<1>6. CASE Commit
  BY <1>6, CommitFact
     DEF PublishedInv, SurviveInv, PublishedOnDisk, Intact, GuardsOwn, Adopted, Goes, Stops, SameFrame,
         SameTask, SamePlan, CommandInv
<1>7. CASE Guard
  BY <1>7, GuardFact
     DEF PublishedInv, SurviveInv, PublishedOnDisk, Intact, GuardsOwn, Adopted, Stops, SamePlan,
         CommandInv
<1>8. CASE Unguard
  BY <1>8, UnguardFact
     DEF PublishedInv, SurviveInv, PublishedOnDisk, Intact, GuardsOwn, Adopted, Stops, SamePlan,
         CommandInv
<1>9. CASE Prepare
  BY <1>9, PrepareFact
     DEF PublishedInv, SurviveInv, PublishedOnDisk, Intact, GuardsOwn, Adopted, Stops, Captures,
         SamePlan, CommandInv
<1>10. CASE Stage
  BY <1>10, StageFact DEF PublishedInv, PublishedOnDisk, Intact, GuardsOwn, Adopted, Stops, Retiring
<1>11. CASE Recheck
  BY <1>11, RecheckFact
     DEF PublishedInv, PublishedOnDisk, Intact, GuardsOwn, Adopted, Goes, Stops, Retiring
<1>12. CASE Snapshot
  BY <1>12, SnapshotFact
     DEF PublishedInv, PublishedOnDisk, Intact, GuardsOwn, Adopted, Goes, Stops, Retiring
<1>13. CASE Capture
  BY <1>13, CaptureFact
     DEF PublishedInv, SurviveInv, PublishedOnDisk, Intact, GuardsOwn, Adopted, Stops, Captures,
         SamePlan, CommandInv
<1>14. CASE Quarantine
  BY <1>14, QuarantineFact
     DEF PublishedInv, SurviveInv, PublishedOnDisk, Intact, GuardsOwn, Adopted, Goes, Stops, CommandInv,
         ProgressInv
<1>15. CASE Move
  <2>1. tx'.guard = tx.guard /\ tx.pc = "move"
    BY <1>15, MoveFact DEF Goes, Turns
  <2>2. QED
    BY <2>1 DEF PublishedInv, ProgressInv
<1>16. CASE Publish
  <2>1. tx'.guard = tx.guard /\ tx.pc = "move"
    BY <1>16, PublishFact DEF Goes, Turns
  <2>2. QED
    BY <2>1 DEF PublishedInv, ProgressInv
<1>17. CASE Settle
  <2>1. at' = at /\ touched' = touched /\ Staged' = Staged /\ spent'.drift = spent.drift
    BY <1>17, SettleFact DEF Calm, Quiet, SameDisk
  <2>2. CASE /\ SameFrame /\ tx'.guard.ver = Current
             /\ \A n \in OwnedSet(Current) :
                  /\ Intact(home, n, Current)
                  /\ tx'.guard.id[n] = at[home][n] /\ at[home][n] = tx.own[n]
    <3>1. tx'.home = tx.home /\ tx.pc = "move"
      BY <1>17, <2>2, SettleFact DEF SameFrame, SameTask
    <3>2. PublishedOnDisk(tx.home)'
      BY <1>0, <2>1, <2>2, <3>1 DEF PublishedOnDisk, Intact
    <3>3. \A n \in OwnedSet(Current) : Adopted(at[home][n])
      BY <1>0, <2>2, <3>1 DEF LookInv, OwnInv
    <3>4. GuardsOwn'
      BY <2>1, <2>2, <3>3 DEF GuardsOwn, Adopted, Intact
    <3>5. QED
      BY <3>2, <3>4 DEF PublishedInv
  <2>3. CASE Turns("OBS_PLUGIN_DRIFT")
    <3>1. tx'.guard.ver = 0
      BY <2>3, <1>17, SettleFact DEF Turns, ProgressInv
    <3>2. QED
      BY <3>1 DEF PublishedInv
  <2>4. QED
    BY <1>17, <2>2, <2>3, SettleFact
<1>18. CASE Empty
  BY <1>18, EmptyFact
     DEF PublishedInv, PublishedOnDisk, Intact, GuardsOwn, Adopted, Goes, SameFrame, SameTask, SamePlan
<1>19. CASE RetireStart
  <2>1. /\ tx.pc \in Retiring \cup {"final", "rollback"} /\ touched' = touched /\ Staged' = Staged
        /\ spent'.drift = spent.drift /\ \A n \in Names : at'[home][n] = at[home][n]
    BY <1>19, RetireStartFact DEF Calm, Quiet, SameDisk, Retiring
  <2>2. /\ tx'.guard = tx.guard /\ tx'.n = tx.n /\ tx'.home = tx.home
        /\ tx'.job = "replace" => tx.job = "replace"
    BY <1>19, RetireStartFact DEF Fails, Turns, GivesUp, SameFrame, SameTask, SamePlan, SameCounts
  <2>3. QED
    BY <2>1, <2>2, <1>b DEF PublishedInv
<1>20. ASSUME NEW n \in Names, RetireFile(n) PROVE PublishedInv'
  <2>1. /\ tx.pc \in Retiring \cup {"final", "rollback"} /\ touched' = touched /\ Staged' = Staged
        /\ spent'.drift = spent.drift /\ \A k \in Names : at'[home][k] = at[home][k]
    BY <1>20, <1>0, RetireFileFact DEF Calm, Quiet, Cleared, Others, Retiring
  <2>2. /\ tx'.guard = tx.guard /\ tx'.n = tx.n /\ tx'.home = tx.home
        /\ tx'.job = "replace" => tx.job = "replace"
    BY <1>20, RetireFileFact DEF SameFrame, SameTask, SamePlan, SameCounts
  <2>3. QED
    BY <2>1, <2>2, <1>b DEF PublishedInv
<1>21. CASE RetireDirectory
  BY <1>21, RetireDirectoryFact
     DEF PublishedInv, SurviveInv, PublishedOnDisk, Intact, GuardsOwn, Adopted, Goes, SameFrame,
         SameTask, SamePlan, SameMood, Calm, Quiet, SameCounts, Retiring
<1>22. CASE Retired
  <2>1. /\ tx.pc \in Retiring \cup {"final", "rollback"} /\ touched' = touched /\ Staged' = Staged
        /\ spent'.drift = spent.drift /\ \A n \in Names : at'[home][n] = at[home][n]
    BY <1>22, RetiredFact DEF Calm, Quiet, SameDisk, Retiring
  <2>2. /\ tx'.guard = tx.guard /\ tx'.n = tx.n /\ tx'.home = tx.home
        /\ tx'.job = "replace" => tx.job = "replace"
    BY <1>22, RetiredFact DEF Goes, Leaves, SameFrame, SameTask, SamePlan, SameCounts
  <2>3. QED
    BY <2>1, <2>2, <1>b DEF PublishedInv
<1>23. CASE RetireBreaks
  BY <1>23, RetireBreaksFact, <1>0
     DEF PublishedInv, SurviveInv, PublishedOnDisk, Intact, GuardsOwn, Adopted, Turns, Fails, GivesUp,
         SameFrame, SameTask, SamePlan, Calm, Quiet, SameCounts, Retiring, CommandInv
<1>24. CASE Final
  <2>1. /\ tx.pc \in Retiring \cup {"final", "rollback"} /\ touched' = touched /\ Staged' = Staged
        /\ spent'.drift = spent.drift /\ \A n \in Names : at'[home][n] = at[home][n]
    BY <1>24, FinalFact DEF Calm, Quiet, SameDisk
  <2>2. /\ tx'.guard = tx.guard /\ tx'.n = tx.n /\ tx'.home = tx.home
        /\ tx'.job = "replace" => tx.job = "replace"
    BY <1>24, FinalFact DEF Turns, Leaves, SameFrame, SameTask, SamePlan, SameCounts
  <2>3. QED
    BY <2>1, <2>2, <1>b DEF PublishedInv
<1>25. CASE StartRollback
  BY <1>25, StartRollbackFact
     DEF PublishedInv, SurviveInv, PublishedOnDisk, Intact, GuardsOwn, Adopted, Goes, Spoils, SameFrame,
         SameTask, Calm, Quiet, SameCounts, Retiring
<1>26. CASE Unpublish
  BY <1>26, UnpublishFact DEF PublishedInv, Passes, Retiring
<1>27. CASE Unpublished
  BY <1>27, UnpublishedFact
     DEF PublishedInv, PublishedOnDisk, Intact, GuardsOwn, Adopted, Goes, SameCounts
<1>28. CASE Restore
  BY <1>28, RestoreFact DEF PublishedInv, Skips, Retiring
<1>29. CASE Restored
  BY <1>29, RestoredFact
     DEF PublishedInv, SurviveInv, PublishedOnDisk, Intact, GuardsOwn, Adopted, Goes, Spoils,
         SameCounts, ProgressInv
<1>30. CASE Crash
  BY <1>30, CrashFact DEF PublishedInv, PublishedOnDisk, Intact, GuardsOwn, Adopted, Goes, Retiring
<1>31. ASSUME NEW p \in Places, NEW n \in Names, Drift(p, n) PROVE PublishedInv'
  <2>1. /\ tx' = tx /\ home' = home /\ Staged' = Staged /\ spent'.drift = spent.drift + 1
        /\ touched' = touched \cup {<<p, n>>} /\ Others(p, n)
    BY <1>31, DriftFact
  <2>2. GuardsOwn => GuardsOwn'
    BY <2>1, KeepOwnFact
  <2>3. PublishedOnDisk(tx.home) => PublishedOnDisk(tx.home)'
    BY <1>0, <2>1 DEF PublishedOnDisk, Intact, Others
  <2>4. QED
    BY <2>1, <2>2, <2>3 DEF PublishedInv, SurviveInv
<1>32. CASE UNCHANGED vars
  BY <1>32, SameFact DEF PublishedInv, SurviveInv, PublishedOnDisk, Intact, GuardsOwn, Adopted
<1>33. CASE Look
  <2>1. tx'.guard = tx.guard /\ tx'.pc \in {"move", "unpublish", "restore", "rollback"}
    BY <1>33, LookFact DEF Goes, Turns, Passes, Skips
  <2>2. tx'.pc = "rollback" => tx.pc = "move"
    BY <1>33, LookFact DEF Goes, Passes, Skips
  <2>3. QED
    BY <2>1, <2>2 DEF PublishedInv, ProgressInv, Retiring
<1>34. CASE Confirm
  <2>1. tx'.guard = tx.guard /\ tx.pc = "move"
    BY <1>34, ConfirmFact DEF Turns
  <2>2. QED
    BY <2>1 DEF PublishedInv, ProgressInv
<1>35. CASE Record
  <2>1. tx'.guard = tx.guard /\ tx.pc = "move"
    BY <1>35, RecordFact DEF Turns
  <2>2. QED
    BY <2>1 DEF PublishedInv, ProgressInv
<1>36. QED
  BY <1>1, <1>2, <1>3, <1>4, <1>5, <1>6, <1>7, <1>8, <1>9, <1>10, <1>11, <1>12, <1>13, <1>14,
     <1>15, <1>16, <1>17, <1>18, <1>19, <1>20, <1>21, <1>22, <1>23, <1>24, <1>25, <1>26, <1>27,
     <1>28, <1>29, <1>30, <1>31, <1>32, <1>33, <1>34, <1>35
     DEF Next, Installer, Reading, Forward, Retire, Backward, Look

\* A file is where it was.
LEMMA KeepFact ==
    ASSUME home' = home, side' = side, touched' = touched, tx'.prev = tx.prev, NEW k \in Names,
           at'[home][k] = at[home][k], at'[side][k] = at[side][k]
    PROVE  (Safe(k)' <=> Safe(k)) /\ (InSide(k)' <=> InSide(k)) /\ (Back(k)' <=> Back(k))
  BY DEF Safe, InSide, Excused, Intact, Back

\* What is not touched by a step is still found where it was.
LEMMA FoundFact ==
    ASSUME home' = home, side' = side, touched \subseteq touched', tx'.prev = tx.prev,
           NEW k \in Names, at'[home][k] = at[home][k], at'[side][k] = at[side][k],
           tx'.kept[k] = tx.kept[k], k \in tx'.restored => k \in tx.restored
    PROVE  /\ Found(k) => Found(k)'
           /\ Back(k) \/ Lost(k) => Back(k)' \/ Lost(k)'
  BY DEF Found, Back, Lost, Stray, InSide, Excused, Intact

\* Where an exception on the way forward finds the previous files.
LEMMA ForwardFact ==
    ASSUME IInv
    PROVE  /\ tx.pc = "move" => /\ \A n \in OwnedSet(tx.prev) : Safe(n) /\ (tx.n > 0 => InSide(n))
                                /\ \A n \in Waiting : Found(n)
           /\ tx.pc = "retire" /\ ~tx.back => /\ \A n \in OwnedSet(tx.prev) : Safe(n) /\ InSide(n)
                                              /\ Waiting = {}
<1> USE DEF IInv
<1>0. /\ home \in Places /\ side \in Places /\ home # side
      /\ home = Home(tx.home) /\ OwnedSet(Current) \subseteq Names
      /\ Staged \in Int /\ Staged >= 0 /\ Staged # Copied /\ Current # 0
      /\ tx.n \in Nat /\ tx.unclean \in BOOLEAN /\ tx.root \in BOOLEAN
      /\ Foreign = -1 - spent.drift /\ spent.drift \in Nat /\ Junk = 0
      /\ \A n \in Names : Nothing[n] = NoFile
      /\ tx.back \in BOOLEAN
  BY PlaceFact, NothingFact, NumberFact, OwnedFact DEF TypeInv, Foreign, Memory, Junk
<1>a. tx.job # "none" => /\ tx.prev \in {1, 2} /\ OwnedSet(tx.prev) = Moved \cup Waiting
                         /\ OwnedSet(tx.prev) \subseteq Names
                         /\ tx.m = 0 => Moved = {} /\ Waiting = OwnedSet(tx.prev)
                         /\ tx.m = Len(Owned(tx.prev)) => Waiting = {} /\ Moved = OwnedSet(tx.prev)
  <2>1. tx.job # "none" => tx.prev \in {1, 2} /\ tx.m \in Nat /\ tx.m <= Len(Owned(tx.prev))
    BY DEF TypeInv, Memory, CommandInv, ProgressInv
  <2>2. QED
    BY <2>1, CountFact
<1>1. \A n \in OwnedSet(tx.prev) : n \in Names
  <2>1. tx.prev \in 0..2
    BY DEF TypeInv, Memory
  <2>2. QED
    BY <2>1, OwnedFact DEF OwnedSet
<1>2. ASSUME tx.pc = "move" \/ (tx.pc = "retire" /\ ~tx.back), NEW n \in Moved
      PROVE  InSide(n)
  <2>1. n \in OwnedSet(tx.prev) /\ tx.job # "none"
    BY <1>2, <1>a DEF CommandInv, Aside, Retiring
  <2>2. tx.expected[n] # NoFile /\ tx.expected[n].ver = tx.prev
    BY <2>1 DEF CaptureInv, ExpectedInv
  <2>3. <<side, n>> \in touched \/ at[side][n] = tx.expected[n]
    BY <1>2 DEF CaptureInv, MovedInv
  <2>4. QED
    BY <2>2, <2>3 DEF InSide, Excused, Intact
<1>3. ASSUME tx.pc = "move", NEW n \in Waiting
      PROVE  Found(n) /\ Safe(n)
  <2>1. n \in OwnedSet(tx.prev) /\ tx.job # "none" /\ n \in Names
    BY <1>1, <1>3, <1>a DEF CommandInv, Aside
  <2>2. tx.expected[n] # NoFile /\ tx.expected[n].ver = tx.prev
    BY <2>1 DEF CaptureInv, ExpectedInv
  <2>3. CASE InFlight(n)
    <3>1. /\ tx.kept[n] = NoFile /\ n \notin tx.restored
          /\ <<home, n>> \in touched \/ <<side, n>> \in touched \/ at[side][n] = tx.expected[n]
      <4>1. ~tx.back
        BY <1>3 DEF ProgressInv
      <4>2. QED
        BY <1>3, <2>1, <2>3, <4>1 DEF LookInv, FlightInv, OwnInv, Excused
    <3>2. QED
      BY <2>2, <3>1 DEF Found, Back, Lost, Stray, Safe, InSide, Excused, Intact
  <2>4. CASE ~InFlight(n)
    <3>1. <<home, n>> \in touched \/ at[home][n] = tx.expected[n]
      BY <1>3, <2>1, <2>4 DEF CaptureInv, WaitingInv
    <3>2. QED
      BY <2>2, <3>1 DEF Found, Back, Safe, InSide, Excused, Intact
  <2>5. QED
    BY <2>3, <2>4
<1>4. CASE tx.pc = "move"
  <2>1. tx.n > 0 => Waiting = {}
    BY <1>4, <1>a DEF ProgressInv, CommandInv, Aside
  <2>2. QED
    BY <1>2, <1>3, <1>4, <1>a, <2>1 DEF CommandInv, Aside, Safe
<1>5. CASE tx.pc = "retire" /\ ~tx.back
  <2>1. Waiting = {} /\ Moved = OwnedSet(tx.prev)
    BY <1>5, <1>a DEF ProgressInv, CommandInv, Aside, Retiring
  <2>2. QED
    BY <1>2, <1>5, <2>1 DEF Safe
<1>6. QED
  BY <1>4, <1>5


\* What Restore makes of the files.
LEMMA PutBackFact ==
    ASSUME IInv, Restore
    PROVE  /\ touched \subseteq touched'
           /\ \E n \in Names :
                /\ n \in Moved /\ Waiting' = Waiting \cup {n}
                /\ \A k \in Names : k # n =>
                     /\ at'[home][k] = at[home][k] /\ at'[side][k] = at[side][k]
                     /\ tx'.kept[k] = tx.kept[k] /\ (k \in tx'.restored => k \in tx.restored)
                /\ \/ /\ Back(n)'
                      /\ tx.job = "replace" =>
                           /\ at[home][n] = NoFile /\ at'[home][n] # NoFile
                           /\ at'[home][n].gen = Copied
                   \/ /\ at'[home][n] = at[home][n] /\ at'[side][n] = at[side][n]
                      /\ tx'.unclean
<1> USE DEF IInv
<1>0. home \in Places /\ side \in Places /\ home # side
  BY PlaceFact
<1>1. /\ tx.pc = "restore" /\ tx.job # "none" /\ home' = home /\ tx'.prev = tx.prev
      /\ touched \subseteq touched'
  BY RestoreFact
     DEF CommandInv, Aside, Undoing, SameFrame, SameTask, SamePlan, Skips, Carried
<1>2. PICK n \in Names :
         /\ n \in Moved /\ Waiting' = Waiting \cup {n}
         /\ \/ /\ n = Owned(tx.prev)[tx.m] /\ tx.job = "remove" /\ tx.seen = "match"
               /\ at'[home][n] = at[side][n]
               /\ \A q \in Places, k \in Names :
                    k # n \/ (q # home /\ q # side) => at'[q][k] = at[q][k]
               /\ Carried(<<side, n>>, <<home, n>>)
               /\ tx'.restored = tx.restored \cup {n}
               /\ \A k \in Names : k # n => tx'.kept[k] = tx.kept[k]
            \/ /\ at[home][n] = NoFile /\ Wrote(home, n, tx.prev, Copied)
               /\ tx'.restored = tx.restored \cup {n}
               /\ \A k \in Names : k # n => tx'.kept[k] = tx.kept[k]
            \/ /\ at' = at /\ tx'.unclean
               /\ tx'.restored = tx.restored /\ tx'.kept = tx.kept
  BY RestoreFact, ZenonT(60) DEF Skips, SameAside
<1>3. CASE /\ n = Owned(tx.prev)[tx.m] /\ tx.job = "remove" /\ tx.seen = "match"
           /\ at'[home][n] = at[side][n]
           /\ \A q \in Places, k \in Names :
                k # n \/ (q # home /\ q # side) => at'[q][k] = at[q][k]
           /\ Carried(<<side, n>>, <<home, n>>)
           /\ tx'.restored = tx.restored \cup {n}
           /\ \A k \in Names : k # n => tx'.kept[k] = tx.kept[k]
  <2>1. <<side, n>> \in touched \/ Intact(side, n, tx.prev)
    BY <1>1, <1>3 DEF LookInv, FlightInv
  <2>2. Back(n)'
    BY <1>1, <1>3, <2>1 DEF Back, Intact, Carried
  <2>3. QED
    BY <1>0, <1>1, <1>2, <1>3, <2>2
<1>4. CASE /\ at[home][n] = NoFile /\ Wrote(home, n, tx.prev, Copied)
           /\ tx'.restored = tx.restored \cup {n}
           /\ \A k \in Names : k # n => tx'.kept[k] = tx.kept[k]
  <2>1. Back(n)'
    BY <1>1, <1>4 DEF Back, Intact, Wrote
  <2>2. QED
    BY <1>0, <1>1, <1>2, <1>4, <2>1 DEF Wrote, Others
<1>5. CASE at' = at /\ tx'.unclean /\ tx'.restored = tx.restored /\ tx'.kept = tx.kept
  BY <1>1, <1>2, <1>5
<1>6. QED
  BY <1>2, <1>3, <1>4, <1>5

\* On the way back every previous file is somewhere.
LEMMA SafeStep == ASSUME IInv, [Next]_vars PROVE SafeInv'
<1> USE DEF IInv

<1>0. /\ home \in Places /\ side \in Places /\ home # side
      /\ home = Home(tx.home) /\ OwnedSet(Current) \subseteq Names
      /\ Staged \in Int /\ Staged >= 0 /\ Staged # Copied /\ Current # 0
      /\ tx.n \in Nat /\ tx.unclean \in BOOLEAN /\ tx.root \in BOOLEAN
      /\ Foreign = -1 - spent.drift /\ spent.drift \in Nat /\ Junk = 0
      /\ \A n \in Names : Nothing[n] = NoFile
      /\ tx.back \in BOOLEAN
  BY PlaceFact, NothingFact, NumberFact, OwnedFact DEF TypeInv, Foreign, Memory, Junk
<1>a. tx.job # "none" => /\ tx.prev \in {1, 2} /\ OwnedSet(tx.prev) = Moved \cup Waiting
                         /\ OwnedSet(tx.prev) \subseteq Names
                         /\ tx.m = 0 => Moved = {} /\ Waiting = OwnedSet(tx.prev)
                         /\ tx.m = Len(Owned(tx.prev)) => Waiting = {} /\ Moved = OwnedSet(tx.prev)
  <2>1. tx.job # "none" => tx.prev \in {1, 2} /\ tx.m \in Nat /\ tx.m <= Len(Owned(tx.prev))
    BY DEF TypeInv, Memory, CommandInv, ProgressInv
  <2>2. QED
    BY <2>1, CountFact
<1>b. \A n \in OwnedSet(tx.prev) : n \in Names
  <2>1. tx.prev \in 0..2
    BY DEF TypeInv, Memory
  <2>2. QED
    BY <2>1, OwnedFact DEF OwnedSet
<1>1. ASSUME NEW cmd \in {"install", "upgrade", "verify", "uninstall"}, NEW t \in Targets,
            NEW b \in Bundles, Begin(cmd, t, b)
     PROVE  SafeInv'
  BY <1>1, BeginFact DEF SafeInv, Safe, InSide, Excused, Intact, MemoryOnly, Undoing
<1>2. CASE Refuse
  BY <1>2, RefuseFact DEF SafeInv, Safe, InSide, Excused, Intact, MemoryOnly, Stops, Undoing
<1>3. CASE ValidateBundle
  BY <1>3, ValidateBundleFact
     DEF SafeInv, Safe, InSide, Excused, Intact, MemoryOnly, Goes, Stops, Undoing
<1>4. CASE FindLegacy
  BY <1>4, FindLegacyFact
     DEF SafeInv, Safe, InSide, Excused, Intact, MemoryOnly, Goes, Stops, Undoing
<1>5. CASE Verify
  BY <1>5, VerifyFact DEF SafeInv, Safe, InSide, Excused, Intact, MemoryOnly, Stops, Undoing
<1>6. CASE Commit
  BY <1>6, CommitFact DEF SafeInv, Safe, InSide, Excused, Intact, MemoryOnly, Goes, Stops, Undoing
<1>7. CASE Guard
  BY <1>7, GuardFact DEF SafeInv, Safe, InSide, Excused, Intact, MemoryOnly, Stops, Undoing
<1>8. CASE Unguard
  BY <1>8, UnguardFact DEF SafeInv, Safe, InSide, Excused, Intact, MemoryOnly, Stops, Undoing
<1>9. CASE Prepare
  BY <1>9, PrepareFact
     DEF SafeInv, Safe, InSide, Excused, Intact, MemoryOnly, Stops, Captures, Undoing
<1>10. CASE Stage
  BY <1>10, StageFact DEF SafeInv, Safe, InSide, Excused, Intact, MemoryOnly, Stops, Undoing
<1>11. CASE Recheck
  BY <1>11, RecheckFact
     DEF SafeInv, Safe, InSide, Excused, Intact, MemoryOnly, Goes, Stops, Undoing
<1>12. CASE Snapshot
  BY <1>12, SnapshotFact
     DEF SafeInv, Safe, InSide, Excused, Intact, MemoryOnly, Goes, Stops, Undoing
<1>13. CASE Capture
  BY <1>13, CaptureFact
     DEF SafeInv, Safe, InSide, Excused, Intact, MemoryOnly, Stops, Captures, Undoing
<1>14. CASE Quarantine
  BY <1>14, QuarantineFact
     DEF SafeInv, Safe, InSide, Excused, Intact, MemoryOnly, Goes, Stops, Undoing
<1>15. CASE Move
  <2>1. /\ tx.pc = "move"
        /\ tx'.pc \in Undoing => Turns("OBS_PLUGIN_DRIFT") /\ at' = at /\ touched' = touched
    BY <1>15, MoveFact DEF Undoing, Goes
  <2>2. ASSUME Turns("OBS_PLUGIN_DRIFT"), at' = at, touched' = touched PROVE SafeInv'
    <3>1. /\ tx'.prev = tx.prev /\ tx'.n = tx.n /\ home' = home /\ side' = side
      BY <2>2 DEF Turns, SameFrame, SameTask, SamePlan, SameCounts
    <3>2. QED
      BY <1>b, <2>1, <2>2, <3>1, KeepFact, ForwardFact DEF SafeInv
  <2>3. QED
    BY <2>1, <2>2 DEF SafeInv
<1>16. CASE Publish
  <2>1. /\ tx.pc = "move"
        /\ tx'.pc \in Undoing => Turns("OBS_PLUGIN_DRIFT") /\ at' = at /\ touched' = touched
    BY <1>16, PublishFact DEF Undoing, Calm, Goes
  <2>2. ASSUME Turns("OBS_PLUGIN_DRIFT"), at' = at, touched' = touched PROVE SafeInv'
    <3>1. /\ tx'.prev = tx.prev /\ tx'.n = tx.n /\ home' = home /\ side' = side
      BY <2>2 DEF Turns, SameFrame, SameTask, SamePlan, SameCounts
    <3>2. QED
      BY <1>b, <2>1, <2>2, <3>1, KeepFact, ForwardFact DEF SafeInv
  <2>3. QED
    BY <2>1, <2>2 DEF SafeInv
<1>17. CASE Settle
  <2>1. tx.pc = "move" /\ (tx'.pc \in Undoing => Turns("OBS_PLUGIN_DRIFT") /\ at' = at /\ touched' = touched)
    BY <1>17, SettleFact DEF Undoing, Calm, SameDisk
  <2>2. ASSUME Turns("OBS_PLUGIN_DRIFT"), at' = at, touched' = touched PROVE SafeInv'
    <3>1. /\ tx'.prev = tx.prev /\ tx'.n = tx.n /\ home' = home /\ side' = side
      BY <2>2 DEF Turns, SameFrame, SameTask, SamePlan, SameCounts
    <3>2. QED
      BY <1>b, <2>1, <2>2, <3>1, KeepFact, ForwardFact DEF SafeInv
  <2>3. QED
    BY <2>1, <2>2 DEF SafeInv
<1>18. CASE Empty
  BY <1>18, EmptyFact DEF SafeInv, Safe, InSide, Excused, Intact, MemoryOnly, Goes, Undoing
<1>19. CASE RetireStart
  <2>1. /\ tx.pc = "retire" /\ at' = at /\ touched' = touched
        /\ tx'.pc \in Undoing => ~tx.back /\ Turns("OBS_PLUGIN_DRIFT")
    BY <1>19, RetireStartFact DEF Undoing, Calm, SameDisk, Fails, GivesUp
  <2>2. ASSUME ~tx.back, Turns("OBS_PLUGIN_DRIFT") PROVE SafeInv'
    <3>1. /\ tx'.prev = tx.prev /\ home' = home /\ side' = side
      BY <2>2 DEF Turns, SameFrame, SameTask, SamePlan
    <3>2. QED
      BY <1>b, <2>1, <2>2, <3>1, KeepFact, ForwardFact DEF SafeInv
  <2>3. QED
    BY <2>1, <2>2 DEF SafeInv
<1>20. ASSUME NEW n \in Names, RetireFile(n) PROVE SafeInv'
  BY <1>20, RetireFileFact DEF SafeInv, Safe, InSide, Excused, Intact, MemoryOnly, Undoing
<1>21. CASE RetireDirectory
  BY <1>21, RetireDirectoryFact
     DEF SafeInv, Safe, InSide, Excused, Intact, MemoryOnly, Goes, Undoing
<1>22. CASE Retired
  BY <1>22, RetiredFact
     DEF SafeInv, Safe, InSide, Excused, Intact, MemoryOnly, Goes, Leaves, Undoing
<1>23. CASE RetireBreaks
  <2>1. tx.pc \in {"retiring", "retired"} /\ touched' = touched
    BY <1>23, RetireBreaksFact DEF Calm
  <2>2. CASE tx.back
    BY <2>2, <1>23, RetireBreaksFact DEF Fails, GivesUp, SafeInv, Undoing
  <2>3. CASE Fails("OBS_RECOVERY_REQUIRED") /\ ~tx.back
    BY <2>3 DEF Fails, Turns, SafeInv, MemoryOnly
  <2>4. CASE /\ Fails("OBS_PLUGIN_DRIFT") /\ ~tx.back
             /\ \A n \in Names : tx.orig[n] # NoFile =>
                  at'[side][n] # NoFile /\ at'[side][n].ver = tx.orig[n].ver
    <3>1. tx'.prev = tx.prev /\ home' = home /\ side' = side
      BY <2>4 DEF Fails, Turns, SameFrame, SameTask, SamePlan
    <3>2. ASSUME NEW n \in OwnedSet(tx.prev)
          PROVE  at'[side][n] # NoFile /\ at'[side][n].ver = tx.prev
      <4>1. n \in Names /\ tx.orig[n] # NoFile /\ tx.orig[n].ver = tx.prev
        BY <1>b, <2>1, <2>4 DEF CaptureInv, KeptInv
      <4>2. QED
        BY <2>4, <4>1
    <3>3. QED
      BY <3>1, <3>2 DEF SafeInv, Safe, InSide, Intact
  <2>5. QED
    BY <1>23, <2>2, <2>3, <2>4, RetireBreaksFact
<1>24. CASE Final
  BY <1>24, FinalFact
     DEF SafeInv, Safe, InSide, Excused, Intact, MemoryOnly, Turns, Leaves, Undoing
<1>25. CASE StartRollback
  <2>1. /\ tx.pc \in Undoing /\ at' = at /\ touched' = touched
        /\ tx'.prev = tx.prev /\ tx'.n = tx.n /\ home' = home /\ side' = side
        /\ tx'.back = tx.back /\ tx'.err = tx.err /\ tx'.root = tx.root
    BY <1>25, StartRollbackFact
       DEF Undoing, Calm, Goes, Spoils, SameFrame, SameTask, SamePlan, SameCounts, SameMood, SameAside
  <2>2. QED
    BY <1>b, <2>1, KeepFact DEF SafeInv, SurviveInv, MemoryOnly
<1>26. CASE Unpublish
  <2>1. /\ tx.pc \in Undoing /\ touched' = touched /\ tx.n > 0
        /\ tx'.prev = tx.prev /\ home' = home /\ side' = side
        /\ tx'.back = tx.back /\ tx'.err = tx.err /\ tx'.root = tx.root
        /\ \A n \in Names : at'[side][n] = at[side][n]
    BY <1>26, <1>0, UnpublishFact
       DEF Undoing, Calm, Passes, SameFrame, SameTask, SamePlan, SameAside, Cleared, Others
  <2>2. ASSUME NEW n \in OwnedSet(tx.prev), InSide(n) PROVE InSide(n)'
    BY <1>b, <2>1, <2>2 DEF InSide, Excused, Intact
  <2>3. QED
    BY <2>1, <2>2 DEF SafeInv, SurviveInv, Safe, MemoryOnly
<1>27. CASE Unpublished
  <2>1. /\ tx.pc \in Undoing /\ at' = at /\ touched' = touched
        /\ tx'.prev = tx.prev /\ tx'.n = tx.n /\ home' = home /\ side' = side
        /\ tx'.back = tx.back /\ tx'.err = tx.err /\ tx'.root = tx.root
    BY <1>27, UnpublishedFact
       DEF Undoing, Calm, Goes, SameDisk, SameFrame, SameTask, SamePlan, SameCounts, SameMood, SameAside
  <2>2. QED
    BY <1>b, <2>1, KeepFact DEF SafeInv, SurviveInv, MemoryOnly
<1>28. CASE Restore
  <2>1. /\ tx.pc = "restore" /\ touched \subseteq touched' /\ tx'.n = tx.n /\ tx.n = 0
        /\ tx'.prev = tx.prev /\ home' = home /\ side' = side
        /\ tx'.back = tx.back /\ tx'.err = tx.err /\ tx'.root = tx.root
    <3>1. /\ tx'.n = tx.n /\ SameFrame /\ tx'.root = tx.root /\ tx'.back = tx.back
          /\ tx'.err = tx.err
      BY <1>28, RestoreFact DEF Skips, SameAside
    <3>2. QED
      BY <1>28, <3>1, RestoreFact, PutBackFact DEF SameFrame, SameTask, SamePlan, ProgressInv
  <2>2. PICK n \in Names :
          /\ \A k \in Names : k # n => at'[home][k] = at[home][k] /\ at'[side][k] = at[side][k]
          /\ Back(n)' \/ (at'[home][n] = at[home][n] /\ at'[side][n] = at[side][n])
    BY <1>28, PutBackFact
  <2>3. ASSUME NEW k \in OwnedSet(tx.prev), Safe(k) PROVE Safe(k)'
    <3>1. CASE at'[home][k] = at[home][k] /\ at'[side][k] = at[side][k]
      BY <2>1, <2>3, <3>1 DEF Safe, InSide, Excused, Intact
    <3>2. CASE Back(k)'
      BY <2>1, <3>2 DEF Back, Safe, InSide, Excused, Intact
    <3>3. QED
      BY <1>b, <2>2, <3>1, <3>2
  <2>4. QED
    BY <2>1, <2>3 DEF SafeInv, SurviveInv, MemoryOnly, Undoing
<1>29. CASE Restored
  BY <1>29, RestoredFact
     DEF SafeInv, Safe, InSide, Excused, Intact, MemoryOnly, Goes, Spoils, Undoing
<1>30. CASE Crash
  BY <1>30, CrashFact DEF SafeInv, Safe, InSide, Excused, Intact, MemoryOnly, Goes, Undoing
<1>31. ASSUME NEW p \in Places, NEW n \in Names, Drift(p, n) PROVE SafeInv'
  BY <1>31, DriftFact, <1>0, <1>a
     DEF SafeInv, SurviveInv, Safe, InSide, Excused, Intact, MemoryOnly, Others, Aside, Retiring,
         Undoing, Over, CommandInv, ProgressInv
<1>32. CASE UNCHANGED vars
  <2>1. /\ at' = at /\ touched' = touched /\ tx' = tx /\ home' = home /\ side' = side
    BY <1>32, SameFact
  <2>2. QED
    BY <1>b, <2>1, KeepFact DEF SafeInv, SurviveInv, MemoryOnly
<1>33. CASE Look
  <2>1. /\ at' = at /\ touched' = touched
    BY <1>33, LookFact DEF Calm, SameDisk
  <2>2. CASE tx.pc = "move" /\ Turns("OBS_PLUGIN_DRIFT")
    <3>1. /\ tx'.prev = tx.prev /\ tx'.n = tx.n /\ home' = home /\ side' = side
      BY <2>2 DEF Turns, SameFrame, SameTask, SamePlan, SameCounts
    <3>2. QED
      BY <1>b, <2>1, <2>2, <3>1, KeepFact, ForwardFact DEF SafeInv
  <2>3. CASE tx'.pc = "move"
    BY <2>3 DEF SafeInv, Undoing
  <2>4. CASE tx.pc \in {"unpublish", "restore"}
    <3>1. /\ SameFrame /\ tx'.back = tx.back /\ tx'.err = tx.err /\ tx'.root = tx.root
          /\ tx'.n = tx.n \/ (tx'.n = tx.n - 1 /\ tx.n > 0)
      BY <1>33, <2>4, LookFact DEF Goes, Passes, Skips, SameAside, SameMood, SameCounts, Turns
    <3>2. /\ tx'.prev = tx.prev /\ home' = home /\ side' = side
      BY <3>1 DEF SameFrame, SameTask, SamePlan
    <3>3. QED
      BY <1>0, <1>b, <2>1, <2>4, <3>1, <3>2, KeepFact DEF SafeInv, SurviveInv, MemoryOnly, Undoing
  <2>5. QED
    BY <1>33, <2>2, <2>3, <2>4, LookFact DEF Goes
<1>34. CASE Confirm
  <2>1. /\ tx.pc = "move" /\ at' = at /\ touched' = touched
        /\ tx'.pc \in Undoing => Turns("OBS_PLUGIN_DRIFT")
    BY <1>34, ConfirmFact DEF Undoing, Calm
  <2>2. ASSUME Turns("OBS_PLUGIN_DRIFT") PROVE SafeInv'
    <3>1. /\ tx'.prev = tx.prev /\ tx'.n = tx.n /\ home' = home /\ side' = side
      BY <2>2 DEF Turns, SameFrame, SameTask, SamePlan, SameCounts
    <3>2. QED
      BY <1>b, <2>1, <2>2, <3>1, KeepFact, ForwardFact DEF SafeInv
  <2>3. QED
    BY <2>1, <2>2 DEF SafeInv
<1>35. CASE Record
  <2>1. /\ tx.pc = "move" /\ at' = at /\ touched' = touched
        /\ tx'.pc \in Undoing => Turns("OBS_PLUGIN_DRIFT")
    BY <1>35, RecordFact DEF Undoing, Calm
  <2>2. ASSUME Turns("OBS_PLUGIN_DRIFT") PROVE SafeInv'
    <3>1. /\ tx'.prev = tx.prev /\ tx'.n = tx.n /\ home' = home /\ side' = side
      BY <2>2 DEF Turns, SameFrame, SameTask, SamePlan, SameCounts
    <3>2. QED
      BY <1>b, <2>1, <2>2, <3>1, KeepFact, ForwardFact DEF SafeInv
  <2>3. QED
    BY <2>1, <2>2 DEF SafeInv
<1>36. QED
  BY <1>1, <1>2, <1>3, <1>4, <1>5, <1>6, <1>7, <1>8, <1>9, <1>10, <1>11, <1>12, <1>13, <1>14,
     <1>15, <1>16, <1>17, <1>18, <1>19, <1>20, <1>21, <1>22, <1>23, <1>24, <1>25, <1>26, <1>27,
     <1>28, <1>29, <1>30, <1>31, <1>32, <1>33, <1>34, <1>35
     DEF Next, Installer, Reading, Forward, Retire, Backward, Look

\* What the way back has passed without a failure is back.
LEMMA BackStep == ASSUME IInv, [Next]_vars PROVE BackInv'
<1> USE DEF IInv

<1>0. /\ home \in Places /\ side \in Places /\ home # side
      /\ home = Home(tx.home) /\ OwnedSet(Current) \subseteq Names
      /\ Staged \in Int /\ Staged >= 0 /\ Staged # Copied /\ Current # 0
      /\ tx.n \in Nat /\ tx.unclean \in BOOLEAN /\ tx.root \in BOOLEAN
      /\ Foreign = -1 - spent.drift /\ spent.drift \in Nat /\ Junk = 0
      /\ \A n \in Names : Nothing[n] = NoFile
      /\ tx.back \in BOOLEAN
  BY PlaceFact, NothingFact, NumberFact, OwnedFact DEF TypeInv, Foreign, Memory, Junk
<1>a. tx.job # "none" => /\ tx.prev \in {1, 2} /\ OwnedSet(tx.prev) = Moved \cup Waiting
                         /\ OwnedSet(tx.prev) \subseteq Names
                         /\ tx.m = 0 => Moved = {} /\ Waiting = OwnedSet(tx.prev)
                         /\ tx.m = Len(Owned(tx.prev)) => Waiting = {} /\ Moved = OwnedSet(tx.prev)
  <2>1. tx.job # "none" => tx.prev \in {1, 2} /\ tx.m \in Nat /\ tx.m <= Len(Owned(tx.prev))
    BY DEF TypeInv, Memory, CommandInv, ProgressInv
  <2>2. QED
    BY <2>1, CountFact
<1>b. \A n \in OwnedSet(tx.prev) : n \in Names
  <2>1. tx.prev \in 0..2
    BY DEF TypeInv, Memory
  <2>2. QED
    BY <2>1, OwnedFact DEF OwnedSet
<1>c. ASSUME Turns("OBS_PLUGIN_DRIFT"), SameAside, at' = at, touched' = touched, tx.pc = "move"
      PROVE  BackInv'
  <2>1. /\ tx'.prev = tx.prev /\ Waiting' = Waiting /\ home' = home /\ side' = side
        /\ tx'.pc = "rollback" /\ tx.job # "none" /\ tx'.kept = tx.kept
        /\ tx'.restored = tx.restored
    BY <1>c DEF Turns, SameFrame, SameTask, SamePlan, SameCounts, SameAside, CommandInv, Aside
  <2>2. \A n \in Waiting : Found(n)'
    BY <1>a, <1>c, <2>1, FoundFact, ForwardFact
  <2>3. QED
    BY <2>1, <2>2 DEF BackInv, Retiring
<1>d. ASSUME at' = at, touched' = touched, tx'.prev = tx.prev, home' = home, side' = side,
             tx'.kept = tx.kept, tx'.restored \subseteq tx.restored, NEW n \in OwnedSet(tx.prev)
      PROVE  /\ Found(n) => Found(n)'
             /\ Back(n) \/ Lost(n) => Back(n)' \/ Lost(n)'
  BY <1>b, <1>d, FoundFact
<1>1. ASSUME NEW cmd \in {"install", "upgrade", "verify", "uninstall"}, NEW t \in Targets,
            NEW b \in Bundles, Begin(cmd, t, b)
     PROVE  BackInv'
  BY <1>1, BeginFact DEF BackInv, Back, Intact, Undoing
<1>2. CASE Refuse
  BY <1>2, RefuseFact DEF BackInv, Back, Intact, Stops, Retiring, Undoing
<1>3. CASE ValidateBundle
  BY <1>3, ValidateBundleFact DEF BackInv, Back, Intact, Goes, Stops, Retiring, Undoing
<1>4. CASE FindLegacy
  BY <1>4, FindLegacyFact DEF BackInv, Back, Intact, Goes, Stops, Retiring, Undoing
<1>5. CASE Verify
  BY <1>5, VerifyFact DEF BackInv, Back, Intact, Stops, Retiring, Undoing
<1>6. CASE Commit
  BY <1>6, CommitFact DEF BackInv, Back, Intact, Goes, Stops, Retiring, Undoing
<1>7. CASE Guard
  BY <1>7, GuardFact DEF BackInv, Back, Intact, Stops, Retiring, Undoing
<1>8. CASE Unguard
  BY <1>8, UnguardFact DEF BackInv, Back, Intact, Stops, Retiring, Undoing
<1>9. CASE Prepare
  BY <1>9, PrepareFact DEF BackInv, Back, Intact, Stops, Captures, Retiring, Undoing
<1>10. CASE Stage
  BY <1>10, StageFact DEF BackInv, Back, Intact, Stops, Retiring, Undoing
<1>11. CASE Recheck
  BY <1>11, RecheckFact DEF BackInv, Back, Intact, Goes, Stops, Retiring, Undoing
<1>12. CASE Snapshot
  BY <1>12, SnapshotFact DEF BackInv, Back, Intact, Goes, Stops, Retiring, Undoing
<1>13. CASE Capture
  BY <1>13, CaptureFact DEF BackInv, Back, Intact, Stops, Captures, Retiring, Undoing
<1>14. CASE Quarantine
  BY <1>14, QuarantineFact DEF BackInv, Back, Intact, Goes, Stops, Retiring, Undoing
<1>15. CASE Move
  <2>1. CASE Turns("OBS_PLUGIN_DRIFT") /\ SameAside /\ at' = at /\ touched' = touched
    BY <1>15, <2>1, <1>c, MoveFact
  <2>2. CASE Goes("move")
    BY <2>2 DEF BackInv, Goes, Undoing, Retiring
  <2>3. QED
    BY <1>15, <2>1, <2>2, MoveFact
<1>16. CASE Publish
  <2>1. CASE Turns("OBS_PLUGIN_DRIFT") /\ SameAside /\ at' = at
    BY <1>16, <2>1, <1>c, PublishFact DEF Calm
  <2>2. CASE Goes("move")
    BY <2>2 DEF BackInv, Goes, Undoing, Retiring
  <2>3. QED
    BY <1>16, <2>1, <2>2, PublishFact
<1>17. CASE Settle
  <2>1. CASE Turns("OBS_PLUGIN_DRIFT") /\ SameAside
    BY <1>17, <2>1, <1>c, SettleFact DEF Calm, SameDisk
  <2>2. CASE tx'.pc = "retire" /\ SameMood
    BY <1>17, <2>2, SettleFact DEF BackInv, SameMood, Undoing, ProgressInv
  <2>3. QED
    BY <1>17, <2>1, <2>2, SettleFact
<1>18. CASE Empty
  BY <1>18, EmptyFact DEF BackInv, Goes, SameMood, ProgressInv, Undoing
<1>19. CASE RetireStart
  <2>1. /\ tx.pc = "retire" /\ at' = at /\ touched' = touched
    BY <1>19, RetireStartFact DEF Calm, SameDisk
  <2>2. CASE tx.back
    <3>1. tx'.restored \subseteq tx.restored
      BY <1>19, StillFact DEF Other, Retire
    <3>2. \/ tx'.pc = "done"
          \/ SameFrame /\ SameMood /\ tx'.pc = "retiring" /\ tx'.kept = tx.kept
      BY <2>2, <1>19, RetireStartFact DEF Fails, GivesUp
    <3>3. CASE SameFrame /\ SameMood /\ tx'.pc = "retiring" /\ tx'.kept = tx.kept
      <4>1. /\ tx'.prev = tx.prev /\ home' = home /\ side' = side /\ tx'.unclean = tx.unclean
        BY <3>3 DEF SameFrame, SameTask, SamePlan, SameMood
      <4>2. tx.unclean \/ \A n \in OwnedSet(tx.prev) : Found(n)
        BY <2>1, <2>2 DEF BackInv, SurviveInv, Retiring
      <4>3. QED
        BY <2>1, <3>1, <3>3, <4>1, <4>2, <1>d DEF BackInv, Undoing
    <3>4. QED
      BY <3>2, <3>3 DEF BackInv, Undoing, Retiring
  <2>3. CASE ~tx.back /\ Turns("OBS_PLUGIN_DRIFT")
    <3>1. Waiting' = {} /\ tx'.pc = "rollback"
      BY <2>1, <2>3, ForwardFact DEF Turns, SameCounts
    <3>2. QED
      BY <3>1 DEF BackInv, Retiring
  <2>4. CASE ~tx.back /\ tx'.pc = "retiring" /\ SameMood
    BY <2>4 DEF BackInv, SameMood, Undoing
  <2>5. QED
    BY <1>19, <2>2, <2>3, <2>4, RetireStartFact DEF Fails
<1>20. ASSUME NEW n \in Names, RetireFile(n) PROVE BackInv'
  <2>1. /\ tx.pc = "retiring" /\ tx'.pc = "retiring" /\ touched' = touched
        /\ tx'.prev = tx.prev /\ home' = home /\ side' = side
        /\ tx'.unclean = tx.unclean /\ tx'.back = tx.back
        /\ \A k \in Names : at'[home][k] = at[home][k]
        /\ at[side] = tx.kept
    BY <1>20, <1>0, RetireFileFact
       DEF Calm, SameFrame, SameTask, SamePlan, SameMood, Cleared, Others
  <2>2. tx'.restored \subseteq tx.restored
    BY <1>20, StillFact DEF Other, Retire
  <2>3. ASSUME NEW k \in OwnedSet(tx.prev), Found(k) PROVE Found(k)'
    BY <1>b, <2>1, <2>2, <2>3 DEF Found, Back, Lost, Stray, Intact
  <2>4. QED
    BY <1>b, <2>1, <2>3 DEF BackInv, SurviveInv, Undoing, Retiring
<1>21. CASE RetireDirectory
  <2>1. /\ tx.pc = "retiring" /\ tx'.pc = "retired" /\ at' = at /\ touched' = touched
        /\ at[side] = Nothing /\ Goes("retired")
    BY <1>21, RetireDirectoryFact DEF Calm, Goes
  <2>2. /\ tx'.prev = tx.prev /\ home' = home /\ side' = side /\ tx'.kept = tx.kept
        /\ tx'.unclean = tx.unclean /\ tx'.back = tx.back
    BY <2>1 DEF Goes, SameFrame, SameTask, SamePlan, SameAside, SameMood
  <2>3. tx'.restored \subseteq tx.restored
    BY <1>21, StillFact DEF Other, Retire
  <2>4. \A k \in OwnedSet(tx.prev) : Found(k) => Back(k) \/ Lost(k)
    BY <1>0, <1>b, <2>1 DEF Found, Stray
  <2>5. \A k \in OwnedSet(tx.prev) : Found(k) => Found(k)' /\ (Back(k)' \/ Lost(k)')
    BY <2>1, <2>2, <2>3, <2>4, <1>d
  <2>6. tx.back /\ ~tx.unclean => \A k \in OwnedSet(tx.prev) : Found(k)
    BY <2>1 DEF BackInv, SurviveInv, Retiring
  <2>7. QED
    BY <2>1, <2>2, <2>5, <2>6 DEF BackInv, Undoing
<1>22. CASE Retired
  BY <1>22, RetiredFact DEF BackInv, Back, Intact, Goes, Leaves, Retiring, Undoing
<1>23. CASE RetireBreaks
  <2>1. tx'.pc = "done" \/ (tx'.pc = "rollback" /\ ~tx.back /\ SameCounts)
    BY <1>23, RetireBreaksFact DEF Fails, GivesUp, Turns
  <2>2. ~tx.back => Waiting = {}
    BY <1>23, <1>a, RetireBreaksFact DEF ProgressInv, CommandInv, Aside, Retiring
  <2>3. QED
    BY <2>1, <2>2 DEF BackInv, SameCounts, Undoing, Retiring
<1>24. CASE Final
  <2>1. tx'.pc = "verify" \/ (tx'.pc = "rollback" /\ SameCounts)
    BY <1>24, FinalFact DEF Leaves, Turns
  <2>2. Waiting = {}
    BY <1>24, <1>a, FinalFact
       DEF ProgressInv, CommandInv, Aside, Retiring, Undoing, Over
  <2>3. QED
    BY <2>1, <2>2 DEF BackInv, SameCounts, Undoing, Retiring
<1>25. CASE StartRollback
  <2>1. /\ tx.pc = "rollback" /\ at' = at /\ touched' = touched
        /\ tx'.restored \subseteq tx.restored
        /\ \/ Goes("restore") \/ Goes("unpublish")
           \/ Spoils("restore") \/ Spoils("retire")
    BY <1>25, StartRollbackFact, StillFact DEF Calm, Other
  <2>2. CASE Spoils("restore") \/ Spoils("retire")
    BY <2>2 DEF BackInv, Spoils
  <2>3. CASE Goes("restore") \/ Goes("unpublish")
    <3>1. /\ tx'.prev = tx.prev /\ home' = home /\ side' = side /\ tx'.kept = tx.kept
          /\ tx'.unclean = tx.unclean /\ Waiting' = Waiting
          /\ tx'.pc \in {"restore", "unpublish"}
      BY <2>3 DEF Goes, SameFrame, SameTask, SamePlan, SameAside, SameMood, SameCounts
    <3>2. Waiting \subseteq OwnedSet(tx.prev)
      BY <1>a, <2>1 DEF CommandInv, Aside, Undoing
    <3>3. QED
      BY <2>1, <3>1, <3>2, <1>d DEF BackInv, SurviveInv, Undoing, Retiring
  <2>4. QED
    BY <2>1, <2>2, <2>3
<1>26. CASE Unpublish
  <2>1. tx.pc = "unpublish" /\ tx'.pc = "unpublish" /\ tx.n > 0 /\ Waiting' = Waiting
    BY <1>26, UnpublishFact DEF Passes
  <2>2. Waiting = {}
    BY <1>a, <2>1 DEF CommandInv, ProgressInv, Aside, Undoing
  <2>3. QED
    BY <2>1, <2>2 DEF BackInv, Retiring
<1>27. CASE Unpublished
  <2>1. /\ tx.pc = "unpublish" /\ at' = at /\ touched' = touched
        /\ tx'.restored \subseteq tx.restored
        /\ IF tx.unclean THEN Goes("retire") ELSE Goes("restore")
    BY <1>27, UnpublishedFact, StillFact DEF Calm, SameDisk, Other
  <2>2. CASE tx.unclean
    BY <2>1, <2>2 DEF BackInv, Goes, SameMood
  <2>3. CASE ~tx.unclean
    <3>1. /\ tx'.prev = tx.prev /\ home' = home /\ side' = side /\ tx'.kept = tx.kept
          /\ tx'.unclean = tx.unclean /\ Waiting' = Waiting /\ tx'.pc = "restore"
      BY <2>1, <2>3 DEF Goes, SameFrame, SameTask, SamePlan, SameAside, SameMood, SameCounts
    <3>2. Waiting \subseteq OwnedSet(tx.prev)
      BY <1>a, <2>1 DEF CommandInv, Aside, Undoing
    <3>3. QED
      BY <2>1, <3>1, <3>2, <1>d DEF BackInv, SurviveInv, Undoing, Retiring
  <2>4. QED
    BY <2>2, <2>3
<1>28. CASE Restore
  <2>1. /\ tx.pc = "restore" /\ tx'.pc = "restore" /\ touched \subseteq touched'
        /\ tx'.prev = tx.prev /\ home' = home /\ side' = side
        /\ ~tx'.unclean => ~tx.unclean
    <3>1. tx'.pc = "restore" /\ SameFrame /\ (~tx'.unclean => ~tx.unclean)
      BY <1>28, RestoreFact DEF Skips
    <3>2. QED
      BY <1>28, <3>1, RestoreFact, PutBackFact DEF SameFrame, SameTask, SamePlan
  <2>2. SUFFICES ASSUME ~tx'.unclean, NEW k \in Waiting' PROVE Found(k)'
    BY <2>1 DEF BackInv, Retiring
  <2>3. PICK n \in Names :
             /\ Waiting' = Waiting \cup {n}
             /\ \A j \in Names : j # n =>
                  /\ at'[home][j] = at[home][j] /\ at'[side][j] = at[side][j]
                  /\ tx'.kept[j] = tx.kept[j] /\ (j \in tx'.restored => j \in tx.restored)
             /\ Back(n)' \/ tx'.unclean
    BY <1>28, PutBackFact
  <2>4. CASE k = n
    BY <2>2, <2>3, <2>4 DEF Found
  <2>5. CASE k # n
    <3>1. k \in Waiting /\ k \in Names
      BY <1>a, <2>1, <2>2, <2>3, <2>5 DEF CommandInv, Aside, Undoing
    <3>2. Found(k)
      BY <2>1, <2>2, <3>1 DEF BackInv, SurviveInv, Undoing
    <3>3. QED
      BY <2>1, <2>3, <2>5, <3>1, <3>2, FoundFact
  <2>6. QED
    BY <2>4, <2>5
<1>29. CASE Restored
  <2>1. /\ tx.pc = "restore" /\ at' = at /\ touched' = touched /\ Waiting = OwnedSet(tx.prev)
        /\ tx'.restored \subseteq tx.restored
    BY <1>29, <1>a, RestoredFact, StillFact DEF Calm, SameDisk, CommandInv, Aside, Undoing, Other
  <2>2. CASE Goes("retire")
    <3>1. /\ tx'.prev = tx.prev /\ home' = home /\ side' = side /\ tx'.unclean = tx.unclean
          /\ tx'.pc = "retire" /\ tx'.kept = tx.kept
      BY <2>2 DEF Goes, SameFrame, SameTask, SamePlan, SameMood, SameAside
    <3>2. QED
      BY <2>1, <3>1, <1>d DEF BackInv, SurviveInv, Undoing
  <2>3. CASE Spoils("retire")
    BY <2>3 DEF BackInv, Spoils
  <2>4. CASE /\ \A n \in OwnedSet(tx.prev) : Intact(home, n, tx.prev)
             /\ tx'.pc = "retire" /\ SameFrame
    <3>1. tx'.prev = tx.prev /\ home' = home
      BY <2>4 DEF SameFrame, SameTask, SamePlan
    <3>2. QED
      BY <2>1, <2>4, <3>1 DEF BackInv, Undoing, Found, Back, Intact
  <2>5. QED
    BY <1>29, <2>2, <2>3, <2>4, RestoredFact
<1>30. CASE Crash
  BY <1>30, CrashFact DEF BackInv, Back, Intact, Goes, Retiring, Undoing
<1>31. ASSUME NEW p \in Places, NEW n \in Names, Drift(p, n) PROVE BackInv'
  <2>1. /\ tx' = tx /\ home' = home /\ side' = side /\ Waiting' = Waiting
        /\ touched' = touched \cup {<<p, n>>} /\ Others(p, n)
    BY <1>31, DriftFact
  <2>2. ASSUME NEW k \in Names
        PROVE  /\ Found(k) => Found(k)'
               /\ Back(k) \/ Lost(k) => Back(k)' \/ Lost(k)'
    <3>1. <<home, k>> \in touched' \/ at'[home][k] = at[home][k]
      BY <1>0, <2>1 DEF Others
    <3>2. <<side, k>> \in touched' \/ at'[side][k] = at[side][k]
      BY <1>0, <2>1 DEF Others
    <3>3. Back(k) => Back(k)'
      BY <2>1, <3>1 DEF Back, Intact
    <3>4. Lost(k) => Lost(k)'
      BY <2>1 DEF Lost
    <3>5. Stray(k) => Stray(k)' \/ Lost(k)'
      BY <2>1, <3>2 DEF Stray, Lost, InSide, Excused, Intact
    <3>6. QED
      BY <3>3, <3>4, <3>5 DEF Found
  <2>3. OwnedSet(tx.prev) \subseteq Names /\ (tx.pc \in Undoing => Waiting \subseteq Names)
    BY <1>a, <1>b DEF CommandInv, Aside
  <2>4. QED
    BY <2>1, <2>2, <2>3 DEF BackInv, SurviveInv
<1>32. CASE UNCHANGED vars
  BY <1>32, SameFact DEF BackInv, SurviveInv, Found, Back, Lost, Stray, InSide, Excused, Intact
<1>33. CASE Look
  <2>1. /\ at' = at /\ touched' = touched /\ tx'.restored = tx.restored
    BY <1>33, LookFact DEF Calm, SameDisk
  <2>2. CASE tx.pc = "move" /\ Turns("OBS_PLUGIN_DRIFT") /\ SameAside
    BY <2>1, <2>2, <1>c
  <2>3. CASE Goes(tx.pc)
    <3>1. /\ tx'.prev = tx.prev /\ home' = home /\ side' = side /\ tx'.kept = tx.kept
          /\ tx'.unclean = tx.unclean /\ Waiting' = Waiting /\ tx'.pc = tx.pc
      BY <2>3 DEF Goes, SameFrame, SameTask, SamePlan, SameAside, SameMood, SameCounts
    <3>2. tx.pc \in Undoing => Waiting \subseteq OwnedSet(tx.prev)
      BY <1>a DEF CommandInv, Aside
    <3>3. tx.pc \in {"move", "unpublish", "restore"}
      BY <1>33, LookFact
    <3>4. QED
      BY <2>1, <3>1, <3>2, <3>3, <1>d DEF BackInv, SurviveInv, Undoing, Retiring
  <2>4. CASE tx'.unclean /\ tx'.pc \in Undoing
    BY <2>4 DEF BackInv
  <2>5. QED
    BY <1>33, <2>2, <2>3, <2>4, LookFact DEF Passes, Skips, Undoing
<1>34. CASE Confirm
  <2>1. CASE Turns("OBS_PLUGIN_DRIFT") /\ SameAside
    BY <1>34, <2>1, <1>c, ConfirmFact DEF Calm
  <2>2. CASE tx'.pc = "move"
    BY <2>2 DEF BackInv, Undoing, Retiring
  <2>3. QED
    BY <1>34, <2>1, <2>2, ConfirmFact
<1>35. CASE Record
  <2>1. CASE Turns("OBS_PLUGIN_DRIFT") /\ SameAside
    BY <1>35, <2>1, <1>c, RecordFact DEF Calm
  <2>2. CASE tx'.pc = "move"
    BY <2>2 DEF BackInv, Undoing, Retiring
  <2>3. QED
    BY <1>35, <2>1, <2>2, RecordFact
<1>36. QED
  BY <1>1, <1>2, <1>3, <1>4, <1>5, <1>6, <1>7, <1>8, <1>9, <1>10, <1>11, <1>12, <1>13, <1>14,
     <1>15, <1>16, <1>17, <1>18, <1>19, <1>20, <1>21, <1>22, <1>23, <1>24, <1>25, <1>26, <1>27,
     <1>28, <1>29, <1>30, <1>31, <1>32, <1>33, <1>34, <1>35
     DEF Next, Installer, Reading, Forward, Retire, Backward, Look

\* The published files are as they were.
LEMMA KeepGuardFact ==
    ASSUME IInv, tx'.guard = tx.guard, tx'.home = tx.home, touched' = touched, Staged' = Staged,
           spent'.drift = spent.drift, \A n \in Names : at'[home][n] = at[home][n]
    PROVE  /\ GuardsOwn' <=> GuardsOwn
           /\ PublishedOnDisk(tx.home)' <=> PublishedOnDisk(tx.home)
           /\ Broke' <=> Broke
<1>1. OwnedSet(Current) \subseteq Names
  BY OwnedFact, NumberFact DEF IInv
<1>2. home' = home /\ home = Home(tx.home)
  BY PlaceFact DEF IInv, home
<1>3. GuardsOwn' <=> GuardsOwn
  BY DEF GuardsOwn, Adopted
<1>4. PublishedOnDisk(tx.home)' <=> PublishedOnDisk(tx.home)
  BY <1>1, <1>2 DEF PublishedOnDisk, Intact
<1>5. Broke' <=> Broke
  BY <1>1, <1>2 DEF Broke
<1>6. QED
  BY <1>3, <1>4, <1>5

\* On the way forward a guard holds the new version.
LEMMA ActiveFact ==
    ASSUME IInv, ~tx.back, tx.pc \in Retiring \cup {"final"}, tx.guard.ver # 0
    PROVE  GuardsOwn /\ PublishedOnDisk(tx.home)
<1> USE DEF IInv
<1>1. tx.job = "replace" /\ tx.n = Len(Owned(Current))
  BY DEF ProgressInv, CommandInv, Aside, TypeInv, Memory
<1>2. tx.n > 0
  BY <1>1, OwnedFact, NumberFact
<1>3. QED
  BY <1>1, <1>2 DEF SurviveInv, PublishedInv

\* What is published is what the guard holds.
LEMMA PublishedFact ==
    ASSUME IInv, PublishedCurrent, tx.guard.ver # 0
    PROVE  ~(GuardsOwn /\ Broke)
<1> USE DEF IInv
<1>1. SUFFICES ASSUME GuardsOwn, NEW k \in OwnedSet(Current)
               PROVE  at[home][k] # NoFile /\ at[home][k].gen = tx.guard.id[k].gen
  BY DEF Broke
<1>2. k \in Names /\ tx.guard.ver = Current /\ tx.home \in Targets
  BY <1>1, OwnedFact, NumberFact DEF GuardsOwn, TypeInv, Memory
<1>3. Identity(tx.home, Current)[k] = at[home][k]
  BY <1>2, IdentityFact DEF home
<1>4. Identity(tx.home, Current) = tx.guard.id
  BY <1>2 DEF PublishedCurrent
<1>5. QED
  BY <1>1, <1>3, <1>4 DEF GuardsOwn

\* What a failing step of the retirement leaves.
LEMMA BreaksGuardFact ==
    ASSUME IInv, tx.pc \in Retiring \cup {"final"}, NEW err, Fails(err),
           touched' = touched, Staged' = Staged, spent'.drift = spent.drift,
           \A n \in Names : at'[home][n] = at[home][n]
    PROVE  GuardInv'
<1>1. CASE tx.back
  BY <1>1 DEF Fails, GivesUp, GuardInv, Undoing, Retiring
<1>2. CASE ~tx.back
  <2>1. /\ tx'.guard = tx.guard /\ tx'.home = tx.home /\ tx'.pc = "rollback"
    BY <1>2 DEF Fails, Turns, SameFrame, SameTask
  <2>2. QED
    BY <1>2, <2>1, ActiveFact, KeepGuardFact DEF GuardInv
<1>3. QED
  BY <1>1, <1>2

\* The guard keeps the recovery directory of a version that was taken away.
LEMMA GuardStep == ASSUME IInv, [Next]_vars PROVE GuardInv'
<1> USE DEF IInv

<1>0. /\ home \in Places /\ side \in Places /\ home # side
      /\ home = Home(tx.home) /\ OwnedSet(Current) \subseteq Names
      /\ Staged \in Int /\ Staged >= 0 /\ Staged # Copied /\ Current # 0
      /\ Copied \in Int /\ Copied >= 0
      /\ tx.n \in Nat /\ tx.unclean \in BOOLEAN /\ tx.root \in BOOLEAN
      /\ Foreign = -1 - spent.drift /\ spent.drift \in Nat /\ Junk = 0
      /\ \A n \in Names : Nothing[n] = NoFile
      /\ tx.back \in BOOLEAN
  BY PlaceFact, NothingFact, NumberFact, OwnedFact DEF TypeInv, Foreign, Memory, Junk
<1>a. tx.job # "none" => /\ tx.prev \in {1, 2} /\ OwnedSet(tx.prev) = Moved \cup Waiting
                         /\ OwnedSet(tx.prev) \subseteq Names
                         /\ tx.m = 0 => Moved = {} /\ Waiting = OwnedSet(tx.prev)
                         /\ tx.m = Len(Owned(tx.prev)) => Waiting = {} /\ Moved = OwnedSet(tx.prev)
  <2>1. tx.job # "none" => tx.prev \in {1, 2} /\ tx.m \in Nat /\ tx.m <= Len(Owned(tx.prev))
    BY DEF TypeInv, Memory, CommandInv, ProgressInv
  <2>2. QED
    BY <2>1, CountFact
<1>b. \A n \in OwnedSet(tx.prev) : n \in Names
  <2>1. tx.prev \in 0..2
    BY DEF TypeInv, Memory
  <2>2. QED
    BY <2>1, OwnedFact DEF OwnedSet
<1>1. ASSUME NEW cmd \in {"install", "upgrade", "verify", "uninstall"}, NEW t \in Targets,
            NEW b \in Bundles, Begin(cmd, t, b)
     PROVE  GuardInv'
  BY <1>1, BeginFact DEF GuardInv, Undoing
<1>2. CASE Refuse
  BY <1>2, RefuseFact DEF GuardInv, Stops, Retiring, Undoing
<1>3. CASE ValidateBundle
  BY <1>3, ValidateBundleFact DEF GuardInv, Goes, Stops, Retiring, Undoing
<1>4. CASE FindLegacy
  BY <1>4, FindLegacyFact DEF GuardInv, Goes, Stops, Retiring, Undoing
<1>5. CASE Verify
  BY <1>5, VerifyFact DEF GuardInv, Stops, Retiring, Undoing
<1>6. CASE Commit
  BY <1>6, CommitFact DEF GuardInv, Goes, Stops, Retiring, Undoing
<1>7. CASE Guard
  BY <1>7, GuardFact DEF GuardInv, Stops, Retiring, Undoing
<1>8. CASE Unguard
  BY <1>8, UnguardFact DEF GuardInv, Stops, Retiring, Undoing
<1>9. CASE Prepare
  BY <1>9, PrepareFact DEF GuardInv, Stops, Captures, Retiring, Undoing
<1>10. CASE Stage
  BY <1>10, StageFact DEF GuardInv, Stops, Retiring, Undoing
<1>11. CASE Recheck
  BY <1>11, RecheckFact DEF GuardInv, Goes, Stops, Retiring, Undoing
<1>12. CASE Snapshot
  BY <1>12, SnapshotFact DEF GuardInv, Goes, Stops, Retiring, Undoing
<1>13. CASE Capture
  BY <1>13, CaptureFact DEF GuardInv, Stops, Captures, Retiring, Undoing
<1>14. CASE Quarantine
  BY <1>14, QuarantineFact DEF GuardInv, SurviveInv, Goes, Stops, CommandInv, ProgressInv
<1>15. CASE Move
  <2>1. /\ tx.pc = "move" /\ tx'.pc \in {"move", "rollback"} /\ tx'.guard = tx.guard
    BY <1>15, MoveFact DEF Goes, Turns
  <2>2. QED
    BY <2>1 DEF GuardInv, Undoing, Retiring, ProgressInv
<1>16. CASE Publish
  <2>1. /\ tx.pc = "move" /\ tx'.pc \in {"move", "rollback"} /\ tx'.guard = tx.guard
    BY <1>16, PublishFact DEF Goes, Turns
  <2>2. QED
    BY <2>1 DEF GuardInv, Undoing, Retiring, ProgressInv
<1>17. CASE Settle
  <2>1. /\ tx.pc = "move" /\ tx'.pc \in {"move", "retire", "rollback"}
        /\ tx'.pc = "rollback" => Turns("OBS_PLUGIN_DRIFT")
        /\ tx'.pc = "retire" => tx'.back = tx.back
    BY <1>17, SettleFact DEF Turns, SameMood
  <2>2. ~tx.back /\ tx.guard.ver = 0
    BY <2>1 DEF ProgressInv
  <2>3. tx'.pc = "rollback" => tx'.guard.ver = 0
    BY <2>1, <2>2 DEF Turns
  <2>4. QED
    BY <2>1, <2>2, <2>3 DEF GuardInv, Undoing, Retiring
<1>18. CASE Empty
  <2>1. tx.pc = "move" /\ tx'.pc = "retire" /\ tx'.back = tx.back
    BY <1>18, EmptyFact DEF Goes, SameMood
  <2>2. QED
    BY <2>1 DEF GuardInv, Undoing, ProgressInv
<1>19. CASE RetireStart
  <2>1. /\ tx.pc \in Retiring \cup {"final"} /\ touched' = touched /\ Staged' = Staged
        /\ spent'.drift = spent.drift
        /\ \A n \in Names : at'[home][n] = at[home][n]
    BY <1>19, RetireStartFact DEF Calm, Quiet, SameDisk, Retiring
  <2>2. CASE Fails("OBS_PLUGIN_DRIFT")
    BY <2>1, <2>2, BreaksGuardFact
  <2>3. CASE /\ tx'.pc = "retiring" /\ tx'.kept = tx.kept /\ tx'.root = tx.root
             /\ SameFrame /\ SameMood /\ tx'.guard = tx.guard
    <3>1. /\ tx'.prev = tx.prev /\ tx'.home = tx.home /\ home' = home /\ side' = side
          /\ tx'.back = tx.back /\ tx'.unclean = tx.unclean /\ tx'.err = tx.err
          /\ at' = at /\ tx.pc = "retire"
      BY <2>3, <1>19, RetireStartFact DEF SameFrame, SameTask, SamePlan, SameMood, SameDisk
    <3>2. \A n \in OwnedSet(tx.prev) : Safe(n)' <=> Safe(n)
      BY <1>b, <2>1, <3>1, KeepFact
    <3>3. QED
      BY <2>1, <2>3, <3>1, <3>2, KeepGuardFact DEF GuardInv, SurviveInv, Undoing, MemoryOnly
  <2>4. QED
    BY <1>19, <2>2, <2>3, RetireStartFact
<1>20. ASSUME NEW n \in Names, RetireFile(n) PROVE GuardInv'
  <2>1. /\ tx.pc \in Retiring \cup {"final"} /\ touched' = touched /\ Staged' = Staged
        /\ spent'.drift = spent.drift
        /\ \A k \in Names : at'[home][k] = at[home][k]
    BY <1>20, <1>0, RetireFileFact DEF Calm, Quiet, Cleared, Others, Retiring
  <2>2. /\ tx.pc = "retiring" /\ tx'.pc = "retiring" /\ tx'.guard = tx.guard /\ tx'.home = tx.home
        /\ tx'.back = tx.back /\ tx'.unclean = tx.unclean /\ tx'.err = tx.err
        /\ tx'.root = tx.root /\ PublishedCurrent
    BY <1>20, RetireFileFact DEF SameFrame, SameTask, SameMood
  <2>3. ASSUME tx.guard.ver # 0 PROVE ~(GuardsOwn /\ Broke)
    BY <2>2, <2>3, PublishedFact
  <2>4. QED
    BY <2>1, <2>2, <2>3, KeepGuardFact DEF GuardInv, SurviveInv, MemoryOnly
<1>21. CASE RetireDirectory
  <2>1. /\ tx.pc \in Retiring \cup {"final"} /\ touched' = touched /\ Staged' = Staged
        /\ spent'.drift = spent.drift
        /\ \A n \in Names : at'[home][n] = at[home][n]
    BY <1>21, RetireDirectoryFact DEF Calm, Quiet, Retiring
  <2>2. /\ tx.pc = "retiring" /\ tx'.pc = "retired" /\ tx'.guard = tx.guard /\ tx'.home = tx.home
        /\ tx'.back = tx.back /\ tx'.unclean = tx.unclean /\ tx'.err = tx.err
        /\ tx'.root = tx.root /\ PublishedCurrent
    BY <1>21, RetireDirectoryFact DEF Goes, SameFrame, SameTask, SameMood, SameAside
  <2>3. ASSUME tx.guard.ver # 0 PROVE ~(GuardsOwn /\ Broke)
    BY <2>2, <2>3, PublishedFact
  <2>4. QED
    BY <2>1, <2>2, <2>3, KeepGuardFact DEF GuardInv, SurviveInv, Undoing, MemoryOnly
<1>22. CASE Retired
  <2>1. tx'.pc \in {"done", "final", "commit"}
    BY <1>22, RetiredFact DEF Goes, Leaves
  <2>2. QED
    BY <2>1 DEF GuardInv, Undoing, Retiring
<1>23. CASE RetireBreaks
  <2>1. /\ tx.pc \in Retiring /\ touched' = touched /\ Staged' = Staged
        /\ spent'.drift = spent.drift
        /\ \A n \in Names : at'[home][n] = at[home][n]
        /\ \E err \in {"OBS_RECOVERY_REQUIRED", "OBS_PLUGIN_DRIFT"} : Fails(err)
    BY <1>23, <1>0, RetireBreaksFact DEF Calm, Quiet, Retiring
  <2>2. QED
    BY <2>1, BreaksGuardFact
<1>24. CASE Final
  <2>1. /\ tx.pc \in Retiring \cup {"final"} /\ touched' = touched /\ Staged' = Staged
        /\ spent'.drift = spent.drift
        /\ \A n \in Names : at'[home][n] = at[home][n]
    BY <1>24, FinalFact DEF Calm, Quiet, SameDisk
  <2>2. CASE Turns("OBS_PLUGIN_DRIFT")
    <3>1. ~tx.back
      BY <1>24, FinalFact DEF ProgressInv, Retiring, Undoing, Over
    <3>2. QED
      BY <2>1, <2>2, <3>1, BreaksGuardFact DEF Fails
  <2>3. CASE Leaves("verify")
    BY <2>3 DEF Leaves, GuardInv, Undoing, Retiring
  <2>4. QED
    BY <1>24, <2>2, <2>3, FinalFact
<1>25. CASE StartRollback
  <2>1. /\ tx.pc \in Undoing /\ tx'.pc \in Undoing \cup {"retire"}
        /\ at' = at /\ touched' = touched /\ Staged' = Staged
        /\ spent'.drift = spent.drift
        /\ tx'.guard = tx.guard /\ tx'.home = tx.home
        /\ tx'.prev = tx.prev /\ home' = home /\ side' = side
        /\ tx'.back = tx.back /\ tx'.err = tx.err /\ tx'.root = tx.root
    BY <1>25, StartRollbackFact
       DEF Undoing, Calm, Quiet, Goes, Spoils, SameFrame, SameTask, SamePlan, SameMood, SameAside
  <2>2. \A n \in OwnedSet(tx.prev) : Safe(n)' <=> Safe(n)
    BY <1>b, <2>1, KeepFact
  <2>3. QED
    BY <2>1, <2>2, KeepGuardFact DEF GuardInv, SafeInv, SurviveInv, MemoryOnly
<1>26. CASE Unpublish
  <2>1. /\ tx.pc \in Undoing /\ tx'.pc = "unpublish" /\ touched' = touched /\ Staged' = Staged
        /\ spent'.drift = spent.drift
        /\ tx'.guard = tx.guard /\ tx'.home = tx.home /\ home' = home
    BY <1>26, UnpublishFact DEF Undoing, Calm, Quiet, Passes, SameFrame, SameTask
  <2>2. CASE at' = at
    BY <2>1, <2>2, KeepGuardFact DEF GuardInv, SurviveInv, Retiring
  <2>3. CASE \E n \in OwnedSet(Current) : Cleared(home, n)
    <3>1. Broke'
      BY <2>1, <2>3 DEF Broke, Cleared
    <3>2. GuardsOwn' <=> GuardsOwn
      BY <2>1 DEF GuardsOwn, Adopted
    <3>3. QED
      BY <2>1, <3>1, <3>2 DEF GuardInv, SurviveInv, Retiring
  <2>4. QED
    BY <1>26, <2>2, <2>3, UnpublishFact
<1>27. CASE Unpublished
  <2>1. /\ tx.pc \in Undoing /\ tx'.pc \in Undoing \cup {"retire"}
        /\ at' = at /\ touched' = touched /\ Staged' = Staged
        /\ spent'.drift = spent.drift
        /\ tx'.guard = tx.guard /\ tx'.home = tx.home
        /\ tx'.prev = tx.prev /\ home' = home /\ side' = side
        /\ tx'.back = tx.back /\ tx'.err = tx.err /\ tx'.root = tx.root
    BY <1>27, UnpublishedFact
       DEF Undoing, Calm, Quiet, Goes, SameDisk, SameFrame, SameTask, SamePlan, SameMood,
           SameAside
  <2>2. \A n \in OwnedSet(tx.prev) : Safe(n)' <=> Safe(n)
    BY <1>b, <2>1, KeepFact
  <2>3. QED
    BY <2>1, <2>2, KeepGuardFact DEF GuardInv, SafeInv, SurviveInv, MemoryOnly
<1>28. CASE Restore
  <2>1. /\ tx.pc = "restore" /\ tx'.pc = "restore" /\ touched \subseteq touched'
        /\ Staged' = Staged /\ spent'.drift = spent.drift
        /\ tx'.guard = tx.guard /\ tx'.home = tx.home /\ home' = home
    <3>1. tx'.pc = "restore" /\ SameFrame /\ tx'.guard = tx.guard
      BY <1>28, RestoreFact DEF Skips
    <3>2. QED
      BY <1>28, <3>1, RestoreFact, PutBackFact DEF Quiet, SameFrame, SameTask
  <2>2. SUFFICES ASSUME tx.guard.ver # 0
                 PROVE  GuardsOwn' /\ (PublishedOnDisk(tx.home)' \/ Broke')
    BY <2>1 DEF GuardInv, Retiring
  <2>3. tx.job = "replace" /\ GuardsOwn /\ (PublishedOnDisk(tx.home) \/ Broke)
    BY <2>1, <2>2 DEF GuardInv, SurviveInv, ProgressInv, CommandInv, Aside, Undoing, TypeInv, Memory
  <2>4. GuardsOwn'
    BY <2>1, <2>3 DEF GuardsOwn, Adopted
  <2>5. PICK n \in Names :
             /\ \A j \in Names : j # n => at'[home][j] = at[home][j]
             /\ \/ /\ at'[home][n] # NoFile /\ at[home][n] = NoFile
                   /\ at'[home][n].gen = Copied
                \/ at'[home][n] = at[home][n]
    BY <1>28, <2>3, PutBackFact
  <2>6. \A k \in OwnedSet(Current) : tx.guard.id[k].gen # Copied
    BY <1>0, <2>3 DEF GuardsOwn, Adopted
  <2>7. CASE Broke
    <3>1. PICK k \in OwnedSet(Current) :
                 at[home][k] = NoFile \/ at[home][k].gen # tx.guard.id[k].gen
      BY <2>7 DEF Broke
    <3>2. at'[home][k] = NoFile \/ at'[home][k].gen # tx.guard.id[k].gen
      BY <1>0, <2>5, <2>6, <3>1
    <3>3. QED
      BY <2>1, <2>4, <3>1, <3>2 DEF Broke
  <2>8. CASE PublishedOnDisk(tx.home)
    <3>1. CASE n \in OwnedSet(Current) /\ at'[home][n].gen = Copied
      BY <2>1, <2>4, <2>6, <3>1 DEF Broke
    <3>2. CASE n \notin OwnedSet(Current) \/ at'[home][n] = at[home][n]
      <4>1. \A k \in OwnedSet(Current) : at'[home][k] = at[home][k]
        BY <1>0, <2>5, <3>2
      <4>2. QED
        BY <1>0, <2>1, <2>4, <2>8, <4>1 DEF PublishedOnDisk, Intact
    <3>3. QED
      BY <2>5, <3>1, <3>2
  <2>9. QED
    BY <2>3, <2>7, <2>8
<1>29. CASE Restored
  <2>1. /\ tx.pc = "restore" /\ at' = at /\ touched' = touched /\ Staged' = Staged
        /\ spent'.drift = spent.drift
        /\ tx'.pc = "retire" /\ home' = home /\ side' = side /\ tx'.prev = tx.prev
        /\ tx'.home = tx.home /\ tx'.root = tx.root /\ tx'.back = tx.back /\ tx'.err = tx.err
    BY <1>29, RestoredFact
       DEF Calm, Quiet, SameDisk, Goes, Spoils, SameFrame, SameTask, SamePlan, SameMood, SameAside
  <2>2. tx'.guard = tx.guard \/ ~tx'.unclean
    BY <1>29, RestoredFact DEF Goes, Spoils, SameMood
  <2>3. \A n \in OwnedSet(tx.prev) : Safe(n)' <=> Safe(n)
    BY <1>b, <2>1, KeepFact
  <2>4. QED
    BY <2>1, <2>2, <2>3, KeepGuardFact
       DEF GuardInv, SafeInv, SurviveInv, Undoing, MemoryOnly
<1>30. CASE Crash
  BY <1>30, CrashFact DEF GuardInv, Goes, Retiring, Undoing
<1>31. ASSUME NEW p \in Places, NEW n \in Names, Drift(p, n) PROVE GuardInv'
  <2>1. /\ tx' = tx /\ home' = home /\ side' = side /\ touched' = touched \cup {<<p, n>>}
        /\ Others(p, n) /\ Staged' = Staged /\ spent'.drift = spent.drift + 1
        /\ at'[p][n] # NoFile => \/ at[p][n] # NoFile /\ at'[p][n].gen = at[p][n].gen
                                 \/ at'[p][n].gen = Foreign
    BY <1>31, DriftFact
  <2>2. GuardsOwn => GuardsOwn'
    BY <2>1, KeepOwnFact
  <2>3. PublishedOnDisk(tx.home) => PublishedOnDisk(tx.home)'
    BY <1>0, <2>1 DEF PublishedOnDisk, Intact, Others
  <2>4. GuardsOwn /\ Broke => Broke'
    <3>1. SUFFICES ASSUME GuardsOwn, NEW k \in OwnedSet(Current),
                          at[home][k] = NoFile \/ at[home][k].gen # tx.guard.id[k].gen
                   PROVE  at'[home][k] = NoFile \/ at'[home][k].gen # tx.guard.id[k].gen
      BY <2>1 DEF Broke
    <3>2. tx.guard.id[k].gen # Foreign
      BY <1>0, <3>1 DEF GuardsOwn, Adopted
    <3>3. CASE p = home /\ n = k
      BY <1>0, <2>1, <3>1, <3>2, <3>3
    <3>4. CASE p # home \/ n # k
      BY <1>0, <2>1, <3>1, <3>4 DEF Others
    <3>5. QED
      BY <3>3, <3>4
  <2>5. ASSUME NEW k \in OwnedSet(tx.prev), Safe(k) PROVE Safe(k)'
    BY <1>0, <1>b, <2>1, <2>5 DEF Safe, InSide, Excused, Intact, Others
  <2>6. QED
    BY <2>1, <2>2, <2>3, <2>4, <2>5 DEF GuardInv, SurviveInv, MemoryOnly
<1>32. CASE UNCHANGED vars
  <2>1. /\ at' = at /\ touched' = touched /\ tx' = tx /\ home' = home /\ side' = side
        /\ Staged' = Staged /\ spent'.drift = spent.drift
    BY <1>32, SameFact
  <2>2. \A n \in OwnedSet(tx.prev) : Safe(n)' <=> Safe(n)
    BY <1>b, <2>1, KeepFact
  <2>3. QED
    BY <2>1, <2>2, KeepGuardFact DEF GuardInv, SurviveInv, MemoryOnly
<1>33. CASE Look
  <2>1. /\ tx.pc \in {"move", "unpublish", "restore"}
        /\ tx'.pc \in {"move", "unpublish", "restore", "rollback"}
        /\ tx.pc = "move" => tx'.pc \in {"move", "rollback"}
        /\ at' = at /\ touched' = touched /\ Staged' = Staged /\ spent'.drift = spent.drift
        /\ tx'.guard = tx.guard /\ SameFrame
    BY <1>33, LookFact DEF Goes, Turns, Passes, Skips, Calm, Quiet, SameDisk
  <2>2. tx'.home = tx.home
    BY <2>1 DEF SameFrame, SameTask
  <2>3. CASE tx.pc = "move"
    BY <2>1, <2>3 DEF GuardInv, Undoing, Retiring, ProgressInv
  <2>4. CASE tx.pc # "move"
    BY <2>1, <2>2, <2>4, KeepGuardFact DEF GuardInv, SurviveInv, Undoing, Retiring
  <2>5. QED
    BY <2>3, <2>4
<1>34. CASE Confirm
  <2>1. /\ tx.pc = "move" /\ tx'.pc \in {"move", "rollback"} /\ tx'.guard = tx.guard
    BY <1>34, ConfirmFact DEF Turns
  <2>2. QED
    BY <2>1 DEF GuardInv, Undoing, Retiring, ProgressInv
<1>35. CASE Record
  <2>1. /\ tx.pc = "move" /\ tx'.pc \in {"move", "rollback"} /\ tx'.guard = tx.guard
    BY <1>35, RecordFact DEF Turns
  <2>2. QED
    BY <2>1 DEF GuardInv, Undoing, Retiring, ProgressInv
<1>36. QED
  BY <1>1, <1>2, <1>3, <1>4, <1>5, <1>6, <1>7, <1>8, <1>9, <1>10, <1>11, <1>12, <1>13, <1>14,
     <1>15, <1>16, <1>17, <1>18, <1>19, <1>20, <1>21, <1>22, <1>23, <1>24, <1>25, <1>26, <1>27,
     <1>28, <1>29, <1>30, <1>31, <1>32, <1>33, <1>34, <1>35
     DEF Next, Installer, Reading, Forward, Retire, Backward, Look

\* What survives.
LEMMA SurviveStep == ASSUME IInv, [Next]_vars PROVE SurviveInv'
  BY PublishedStep, SafeStep, BackStep, GuardStep DEF SurviveInv

\* The new version stays while the legacy plug-in goes.
LEMMA NewStep == ASSUME IInv, [Next]_vars PROVE NewInv'
<1> USE DEF IInv

<1>0. /\ home \in Places /\ side \in Places /\ home # side
      /\ home = Home(tx.home) /\ OwnedSet(Current) \subseteq Names
      /\ Staged \in Int /\ Staged >= 0 /\ Staged # Copied /\ Current # 0
      /\ tx.n \in Nat /\ tx.unclean \in BOOLEAN /\ tx.root \in BOOLEAN
      /\ Foreign = -1 - spent.drift /\ spent.drift \in Nat /\ Junk = 0
      /\ \A n \in Names : Nothing[n] = NoFile
      /\ tx.back \in BOOLEAN
  BY PlaceFact, NothingFact, NumberFact, OwnedFact DEF TypeInv, Foreign, Memory, Junk
<1>a. tx.job # "none" => /\ tx.prev \in {1, 2} /\ OwnedSet(tx.prev) = Moved \cup Waiting
                         /\ OwnedSet(tx.prev) \subseteq Names
                         /\ tx.m = 0 => Moved = {} /\ Waiting = OwnedSet(tx.prev)
                         /\ tx.m = Len(Owned(tx.prev)) => Waiting = {} /\ Moved = OwnedSet(tx.prev)
  <2>1. tx.job # "none" => tx.prev \in {1, 2} /\ tx.m \in Nat /\ tx.m <= Len(Owned(tx.prev))
    BY DEF TypeInv, Memory, CommandInv, ProgressInv
  <2>2. QED
    BY <2>1, CountFact
<1>b. \A n \in OwnedSet(tx.prev) : n \in Names
  <2>1. tx.prev \in 0..2
    BY DEF TypeInv, Memory
  <2>2. QED
    BY <2>1, OwnedFact DEF OwnedSet
<1>c. /\ Home(tx.target) \in Places /\ Home(tx.target) # side
      /\ tx.legacy /\ tx.home = Legacy => Home(tx.target) # home
      /\ tx.legacy /\ (tx.pc = "capture" \/ tx.job = "remove") => tx.home = Legacy
  <2>1. tx.target \in Targets /\ (tx.legacy => tx.target # Legacy)
    BY DEF TypeInv, Memory, CommandInv
  <2>2. QED
    BY <2>1, PlaceFact DEF CommandInv
<1>d. ASSUME PublishedOnDisk(tx.target), tx'.target = tx.target,
             \A n \in Names : <<Home(tx.target), n>> \in touched => <<Home(tx.target), n>> \in touched',
             \A n \in Names : at'[Home(tx.target)][n] = at[Home(tx.target)][n]
      PROVE  PublishedOnDisk(tx.target)'
  BY <1>0, <1>d DEF PublishedOnDisk, Intact, Home
<1>1. ASSUME NEW cmd \in {"install", "upgrade", "verify", "uninstall"}, NEW t \in Targets,
            NEW b \in Bundles, Begin(cmd, t, b)
     PROVE  NewInv'
  <2>1. ~tx'.legacy /\ tx'.pc \in {"verify", "capture", "bundle"}
    BY <1>1, BeginFact
  <2>2. QED
    BY <2>1 DEF NewInv
<1>2. CASE Refuse
  <2>1. tx'.job # "remove" /\ tx'.pc \notin {"commit", "guard", "guarded", "capture"}
    BY <1>2, RefuseFact DEF Stops, SamePlan
  <2>2. QED
    BY <2>1 DEF NewInv
<1>3. CASE ValidateBundle
  <2>1. tx'.job # "remove" /\ tx'.pc \notin {"commit", "guard", "guarded", "capture"}
    BY <1>3, ValidateBundleFact DEF Goes, Stops, SameFrame, SameTask, SamePlan, CommandInv
  <2>2. QED
    BY <2>1 DEF NewInv
<1>4. CASE FindLegacy
  <2>1. tx'.job # "remove" /\ tx'.pc \notin {"commit", "guard", "guarded", "capture"}
    BY <1>4, FindLegacyFact DEF Goes, Stops, SameFrame, SameTask, SamePlan, CommandInv
  <2>2. QED
    BY <2>1 DEF NewInv
<1>5. CASE Verify
  <2>1. at' = at /\ touched' = touched
    BY <1>5, VerifyFact DEF Calm, SameDisk
  <2>2. CASE VersionAt(tx.target) = Current /\ tx'.target = tx.target
    <3>1. PublishedOnDisk(tx.target)
      BY <1>0, <2>2, VersionFact DEF PublishedOnDisk
    <3>2. QED
      BY <1>d, <2>1, <2>2, <3>1 DEF NewInv
  <2>3. CASE Stops
    <3>1. tx'.job = "none" /\ tx'.pc = "done"
      BY <2>3, <1>5, VerifyFact DEF Stops, SamePlan, CommandInv
    <3>2. QED
      BY <3>1 DEF NewInv
  <2>4. QED
    BY <1>5, <2>2, <2>3, VerifyFact
<1>6. CASE Commit
  <2>1. /\ at' = at /\ touched' = touched /\ tx'.target = tx.target /\ tx'.legacy = tx.legacy
        /\ tx'.job = "remove" => tx.job = "remove"
        /\ tx'.pc \in {"commit", "guard", "guarded", "capture"} => tx.pc \in {"commit", "guard", "guarded"} \/ (tx.legacy /\ tx.job = "remove")
    BY <1>6, CommitFact DEF Calm, SameDisk, Goes, Stops, SameFrame, SameTask, SamePlan
  <2>2. QED
    BY <1>d, <2>1 DEF NewInv, ReportInv
<1>7. CASE Guard
  <2>1. /\ at' = at /\ touched' = touched /\ tx'.target = tx.target /\ tx'.legacy = tx.legacy
        /\ tx'.job = "remove" => tx.job = "remove"
        /\ tx'.pc \in {"commit", "guard", "guarded", "capture"} => tx.pc \in {"commit", "guard", "guarded"} \/ (tx.legacy /\ tx.job = "remove")
    BY <1>7, GuardFact DEF Calm, Stops, SameTask, SamePlan
  <2>2. QED
    BY <1>d, <2>1 DEF NewInv, ReportInv
<1>8. CASE Unguard
  <2>1. /\ at' = at /\ touched' = touched /\ tx'.target = tx.target /\ tx'.legacy = tx.legacy
        /\ tx'.job = "remove" => tx.job = "remove"
        /\ tx'.pc \in {"commit", "guard", "guarded", "capture"} => tx.pc \in {"commit", "guard", "guarded"} \/ (tx.legacy /\ tx.job = "remove")
    BY <1>8, UnguardFact DEF Calm, Stops, SameTask, SamePlan
  <2>2. QED
    BY <1>d, <2>1 DEF NewInv, ReportInv
<1>9. CASE Prepare
  <2>1. tx'.job # "remove" /\ tx'.pc \notin {"commit", "guard", "guarded", "capture"}
    BY <1>9, PrepareFact DEF Stops, Captures, SamePlan, CommandInv
  <2>2. QED
    BY <2>1 DEF NewInv
<1>10. CASE Stage
  <2>1. tx'.job # "remove" /\ tx'.pc \notin {"commit", "guard", "guarded", "capture"}
    BY <1>10, StageFact DEF Stops, SamePlan, CommandInv
  <2>2. QED
    BY <2>1 DEF NewInv
<1>11. CASE Recheck
  <2>1. tx'.job # "remove" /\ tx'.pc \notin {"commit", "guard", "guarded", "capture"}
    BY <1>11, RecheckFact DEF Goes, Stops, SameFrame, SameTask, SamePlan, CommandInv
  <2>2. QED
    BY <2>1 DEF NewInv
<1>12. CASE Snapshot
  <2>1. tx'.job # "remove" /\ tx'.pc \notin {"commit", "guard", "guarded", "capture"}
    BY <1>12, SnapshotFact DEF Goes, Stops, SameFrame, SameTask, SamePlan, CommandInv
  <2>2. QED
    BY <2>1 DEF NewInv
<1>13. CASE Capture
  <2>1. tx.pc = "capture" /\ at' = at
    BY <1>13, CaptureFact DEF SameDisk
  <2>2. CASE Stops
    <3>1. tx'.job = "none" /\ tx'.pc = "done"
      BY <2>1, <2>2 DEF Stops, SamePlan, CommandInv
    <3>2. QED
      BY <3>1 DEF NewInv
  <2>3. CASE \E v \in {1, 2} : Captures(v, "remove", "quarantine")
    <3>1. /\ touched' = {x \in touched : x[1] # home} /\ tx'.pc = "quarantine"
          /\ tx'.target = tx.target /\ tx'.legacy = tx.legacy
      BY <2>3 DEF Captures, SameTask
    <3>2. ASSUME tx.legacy PROVE PublishedOnDisk(tx.target)'
      <4>1. PublishedOnDisk(tx.target) /\ Home(tx.target) # home
        BY <1>c, <2>1, <3>2 DEF ReportInv, NewInv
      <4>2. QED
        BY <1>d, <2>1, <3>1, <4>1
    <3>3. QED
      BY <3>1, <3>2 DEF NewInv
  <2>4. QED
    BY <1>13, <2>2, <2>3, CaptureFact
<1>14. CASE Quarantine
  <2>1. /\ at' = at /\ touched' = touched /\ tx'.target = tx.target /\ tx'.legacy = tx.legacy
        /\ tx'.job = "remove" => tx.job = "remove"
        /\ tx'.pc \in {"commit", "guard", "guarded", "capture"} => tx.pc \in {"commit", "guard", "guarded"} \/ (tx.legacy /\ tx.job = "remove")
    BY <1>14, QuarantineFact DEF Calm, Goes, Stops, SameFrame, SameTask, SamePlan
  <2>2. QED
    BY <1>d, <2>1 DEF NewInv, ReportInv
<1>15. CASE Move
  <2>1. /\ touched \subseteq touched' /\ tx'.target = tx.target /\ tx'.legacy = tx.legacy
        /\ tx'.job = tx.job /\ tx'.pc \notin {"commit", "guard", "guarded", "capture"}
    BY <1>15, MoveFact DEF Goes, Turns, SameFrame, SameTask, SamePlan, Carried
  <2>2. \A q \in Places, k \in Names : q # home /\ q # side => at'[q][k] = at[q][k]
    BY <1>15, MoveFact
  <2>3. QED
    BY <1>c, <1>d, <2>1, <2>2 DEF NewInv, ReportInv
<1>16. CASE Publish
  <2>1. tx'.job # "remove" /\ tx'.pc \notin {"commit", "guard", "guarded", "capture"}
    BY <1>16, PublishFact DEF Goes, Turns, SameFrame, SameTask, SamePlan
  <2>2. QED
    BY <2>1 DEF NewInv
<1>17. CASE Settle
  <2>1. tx'.job # "remove" /\ tx'.pc \notin {"commit", "guard", "guarded", "capture"}
    BY <1>17, SettleFact DEF Turns, SameFrame, SameTask, SamePlan
  <2>2. QED
    BY <2>1 DEF NewInv
<1>18. CASE Empty
  <2>1. /\ at' = at /\ touched' = touched /\ tx'.target = tx.target /\ tx'.legacy = tx.legacy
        /\ tx'.job = "remove" => tx.job = "remove"
        /\ tx'.pc \in {"commit", "guard", "guarded", "capture"} => tx.pc \in {"commit", "guard", "guarded"} \/ (tx.legacy /\ tx.job = "remove")
    BY <1>18, EmptyFact DEF Calm, Goes, SameFrame, SameTask
  <2>2. QED
    BY <1>d, <2>1 DEF NewInv, ReportInv
<1>19. CASE RetireStart
  <2>1. /\ at' = at /\ touched' = touched /\ tx'.target = tx.target /\ tx'.legacy = tx.legacy
        /\ tx'.job = "remove" => tx.job = "remove"
        /\ tx'.pc \in {"commit", "guard", "guarded", "capture"} => tx.pc \in {"commit", "guard", "guarded"} \/ (tx.legacy /\ tx.job = "remove")
    BY <1>19, RetireStartFact
       DEF Calm, SameDisk, Turns, Fails, GivesUp, SameFrame, SameTask, SamePlan
  <2>2. QED
    BY <1>d, <2>1 DEF NewInv, ReportInv
<1>20. ASSUME NEW n \in Names, RetireFile(n) PROVE NewInv'
  <2>1. /\ touched' = touched /\ tx'.target = tx.target /\ tx'.legacy = tx.legacy
        /\ tx'.job = tx.job /\ tx'.pc \notin {"commit", "guard", "guarded", "capture"}
        /\ \A q \in Places, k \in Names : q # home /\ q # side => at'[q][k] = at[q][k]
    BY <1>20, RetireFileFact DEF Calm, SameFrame, SameTask, SamePlan, Cleared, Others
  <2>2. QED
    BY <1>c, <1>d, <2>1 DEF NewInv, ReportInv
<1>21. CASE RetireDirectory
  <2>1. /\ at' = at /\ touched' = touched /\ tx'.target = tx.target /\ tx'.legacy = tx.legacy
        /\ tx'.job = "remove" => tx.job = "remove"
        /\ tx'.pc \in {"commit", "guard", "guarded", "capture"} => tx.pc \in {"commit", "guard", "guarded"} \/ (tx.legacy /\ tx.job = "remove")
    BY <1>21, RetireDirectoryFact DEF Calm, Goes, SameFrame, SameTask, SamePlan
  <2>2. QED
    BY <1>d, <2>1 DEF NewInv, ReportInv
<1>22. CASE Retired
  <2>1. /\ at' = at /\ touched' = touched /\ tx'.target = tx.target /\ tx'.legacy = tx.legacy
        /\ tx'.job = "remove" => tx.job = "remove"
        /\ tx'.pc \in {"commit", "guard", "guarded", "capture"} => tx.pc \in {"commit", "guard", "guarded"} \/ (tx.legacy /\ tx.job = "remove")
    BY <1>22, RetiredFact
       DEF Calm, SameDisk, Goes, Leaves, SameFrame, SameTask, SamePlan, CommandInv, Aside,
           Retiring, TypeInv, Memory
  <2>2. QED
    BY <1>d, <2>1 DEF NewInv, ReportInv
<1>23. CASE RetireBreaks
  <2>1. /\ touched' = touched /\ tx'.target = tx.target /\ tx'.legacy = tx.legacy
        /\ tx'.job = tx.job /\ tx'.pc \notin {"commit", "guard", "guarded", "capture"}
        /\ \A q \in Places, k \in Names : q # home /\ q # side => at'[q][k] = at[q][k]
    BY <1>23, RetireBreaksFact DEF Calm, Turns, Fails, GivesUp, SameFrame, SameTask, SamePlan
  <2>2. QED
    BY <1>c, <1>d, <2>1 DEF NewInv, ReportInv
<1>24. CASE Final
  <2>1. tx'.job # "remove" /\ tx'.pc \notin {"commit", "guard", "guarded", "capture"}
    BY <1>24, FinalFact DEF Turns, Leaves, SameFrame, SameTask, SamePlan, CommandInv
  <2>2. QED
    BY <2>1 DEF NewInv
<1>25. CASE StartRollback
  <2>1. /\ at' = at /\ touched' = touched /\ tx'.target = tx.target /\ tx'.legacy = tx.legacy
        /\ tx'.job = "remove" => tx.job = "remove"
        /\ tx'.pc \in {"commit", "guard", "guarded", "capture"} => tx.pc \in {"commit", "guard", "guarded"} \/ (tx.legacy /\ tx.job = "remove")
    BY <1>25, StartRollbackFact DEF Calm, Goes, Spoils, SameFrame, SameTask, SamePlan
  <2>2. QED
    BY <1>d, <2>1 DEF NewInv, ReportInv
<1>26. CASE Unpublish
  <2>1. tx'.job # "remove" /\ tx'.pc \notin {"commit", "guard", "guarded", "capture"}
    BY <1>26, UnpublishFact DEF Passes, SameFrame, SameTask, SamePlan, CommandInv
  <2>2. QED
    BY <2>1 DEF NewInv
<1>27. CASE Unpublished
  <2>1. tx'.job # "remove" /\ tx'.pc \notin {"commit", "guard", "guarded", "capture"}
    BY <1>27, UnpublishedFact DEF Goes, SameFrame, SameTask, SamePlan, CommandInv
  <2>2. QED
    BY <2>1 DEF NewInv
<1>28. CASE Restore
  <2>1. SameFrame /\ tx'.pc = "restore"
    BY <1>28, RestoreFact DEF Skips
  <2>2. /\ touched \subseteq touched' /\ tx'.target = tx.target /\ tx'.legacy = tx.legacy
        /\ tx'.job = tx.job /\ tx'.pc \notin {"commit", "guard", "guarded", "capture"}
    BY <1>28, <2>1, PutBackFact DEF SameFrame, SameTask, SamePlan
  <2>3. \A q \in Places, k \in Names : q # home /\ q # side => at'[q][k] = at[q][k]
    BY <1>28, RestoreFact DEF Wrote, Others
  <2>4. QED
    BY <1>c, <1>d, <2>2, <2>3 DEF NewInv, ReportInv
<1>29. CASE Restored
  <2>1. /\ at' = at /\ touched' = touched /\ tx'.target = tx.target /\ tx'.legacy = tx.legacy
        /\ tx'.job = "remove" => tx.job = "remove"
        /\ tx'.pc \in {"commit", "guard", "guarded", "capture"} => tx.pc \in {"commit", "guard", "guarded"} \/ (tx.legacy /\ tx.job = "remove")
    BY <1>29, RestoredFact DEF Calm, SameDisk, Goes, Spoils, SameFrame, SameTask, SamePlan
  <2>2. QED
    BY <1>d, <2>1 DEF NewInv, ReportInv
<1>30. CASE Crash
  <2>1. /\ at' = at /\ touched' = touched /\ tx'.target = tx.target /\ tx'.legacy = tx.legacy
        /\ tx'.job = "remove" => tx.job = "remove"
        /\ tx'.pc \in {"commit", "guard", "guarded", "capture"} => tx.pc \in {"commit", "guard", "guarded"} \/ (tx.legacy /\ tx.job = "remove")
    BY <1>30, CrashFact DEF Calm, SameDisk, Goes, SameFrame, SameTask, SamePlan
  <2>2. QED
    BY <1>d, <2>1 DEF NewInv, ReportInv
<1>31. ASSUME NEW p \in Places, NEW n \in Names, Drift(p, n) PROVE NewInv'
  <2>1. tx' = tx /\ touched' = touched \cup {<<p, n>>} /\ Others(p, n)
    BY <1>31, DriftFact
  <2>2. PublishedOnDisk(tx.target) => PublishedOnDisk(tx.target)'
    BY <1>0, <1>c, <2>1 DEF PublishedOnDisk, Intact, Others, Home
  <2>3. QED
    BY <2>1, <2>2 DEF NewInv, ReportInv
<1>32. CASE UNCHANGED vars
  <2>1. tx' = tx /\ touched' = touched /\ at' = at
    BY <1>32, SameFact
  <2>2. QED
    BY <1>d, <2>1 DEF NewInv, ReportInv
<1>33. CASE Look
  <2>1. /\ at' = at /\ touched' = touched /\ tx'.target = tx.target /\ tx'.legacy = tx.legacy
        /\ tx'.job = tx.job /\ tx'.pc \notin {"commit", "guard", "guarded", "capture"}
    BY <1>33, LookFact
       DEF Calm, SameDisk, Goes, Turns, Passes, Skips, SameFrame, SameTask, SamePlan
  <2>2. QED
    BY <1>d, <2>1 DEF NewInv, ReportInv
<1>34. CASE Confirm
  <2>1. /\ at' = at /\ touched' = touched /\ tx'.target = tx.target /\ tx'.legacy = tx.legacy
        /\ tx'.job = tx.job /\ tx'.pc \notin {"commit", "guard", "guarded", "capture"}
    BY <1>34, ConfirmFact DEF Calm, Turns, SameFrame, SameTask, SamePlan
  <2>2. QED
    BY <1>d, <2>1 DEF NewInv, ReportInv
<1>35. CASE Record
  <2>1. /\ at' = at /\ touched' = touched /\ tx'.target = tx.target /\ tx'.legacy = tx.legacy
        /\ tx'.job = tx.job /\ tx'.pc \notin {"commit", "guard", "guarded", "capture"}
    BY <1>35, RecordFact DEF Calm, Turns, SameFrame, SameTask, SamePlan
  <2>2. QED
    BY <1>d, <2>1 DEF NewInv, ReportInv
<1>36. QED
  BY <1>1, <1>2, <1>3, <1>4, <1>5, <1>6, <1>7, <1>8, <1>9, <1>10, <1>11, <1>12, <1>13, <1>14,
     <1>15, <1>16, <1>17, <1>18, <1>19, <1>20, <1>21, <1>22, <1>23, <1>24, <1>25, <1>26, <1>27,
     <1>28, <1>29, <1>30, <1>31, <1>32, <1>33, <1>34, <1>35
     DEF Next, Installer, Reading, Forward, Retire, Backward, Look

\* PreviousSurvives, with the names of the invariant.
LEMMA SurvivesMeans ==
    ASSUME tx.job # "none",
           \/ \A n \in OwnedSet(tx.prev) : Safe(n) \/ (MemoryOnly /\ (tx.pc = "crashed" \/ n \in Moved))
           \/ tx.job = "replace" /\ PublishedOnDisk(tx.home)
           \/ tx.job = "remove" /\ ~tx.back /\ tx.pc \in {"retiring", "retired", "done", "crashed"}
           \/ tx.unclean /\ (tx.guard.ver = 0 \/ MemoryOnly)
    PROVE  PreviousSurvives
  BY DEF PreviousSurvives, Safe, InSide, MemoryOnly, Moved, At

\* Before the end the invariant says where the previous files are.
LEMMA SurvivesFact == ASSUME IInv, tx.pc \notin Over PROVE PreviousSurvives
<1> USE DEF IInv
<1>0. /\ home \in Places /\ side \in Places /\ home # side
      /\ home = Home(tx.home) /\ OwnedSet(Current) \subseteq Names
      /\ Staged \in Int /\ Staged >= 0 /\ Staged # Copied /\ Current # 0
      /\ tx.n \in Nat /\ tx.unclean \in BOOLEAN /\ tx.root \in BOOLEAN
      /\ Foreign = -1 - spent.drift /\ spent.drift \in Nat /\ Junk = 0
      /\ \A n \in Names : Nothing[n] = NoFile
      /\ tx.back \in BOOLEAN
  BY PlaceFact, NothingFact, NumberFact, OwnedFact DEF TypeInv, Foreign, Memory, Junk
<1>a. tx.job # "none" => /\ tx.prev \in {1, 2} /\ OwnedSet(tx.prev) = Moved \cup Waiting
                         /\ OwnedSet(tx.prev) \subseteq Names
                         /\ tx.m = 0 => Moved = {} /\ Waiting = OwnedSet(tx.prev)
                         /\ tx.m = Len(Owned(tx.prev)) => Waiting = {} /\ Moved = OwnedSet(tx.prev)
  <2>1. tx.job # "none" => tx.prev \in {1, 2} /\ tx.m \in Nat /\ tx.m <= Len(Owned(tx.prev))
    BY DEF TypeInv, Memory, CommandInv, ProgressInv
  <2>2. QED
    BY <2>1, CountFact
<1>b. \A n \in OwnedSet(tx.prev) : n \in Names
  <2>1. tx.prev \in 0..2
    BY DEF TypeInv, Memory
  <2>2. QED
    BY <2>1, OwnedFact DEF OwnedSet
<1>1. CASE tx.job = "none"
  BY <1>1 DEF PreviousSurvives
<1>2. CASE tx.job # "none" /\ tx.pc \in Early
  <2>1. ASSUME NEW n \in OwnedSet(tx.prev) PROVE Safe(n)
    <3>1. tx.expected[n] # NoFile /\ tx.expected[n].ver = tx.prev
      BY <1>2 DEF CaptureInv, ExpectedInv
    <3>2. n \in Waiting
      BY <1>2, <1>a DEF ProgressInv
    <3>3. <<home, n>> \in touched \/ at[home][n] = tx.expected[n]
      BY <1>2, <3>2 DEF CaptureInv, WaitingInv, InFlight, Early
    <3>4. QED
      BY <3>1, <3>3 DEF Safe, InSide, Excused, Intact
  <2>2. QED
    BY <1>2, <2>1, SurvivesMeans
<1>3. CASE tx.pc = "move" \/ (tx.pc = "retire" /\ ~tx.back)
  <2>1. tx.job # "none"
    BY <1>3 DEF CommandInv, Aside, Retiring
  <2>2. QED
    BY <1>3, <2>1, ForwardFact, SurvivesMeans
<1>4. CASE tx.pc \in {"retiring", "retired", "final"} /\ ~tx.back
  <2>1. tx.job # "none" /\ (tx.pc = "final" => tx.job = "replace")
    BY <1>4 DEF CommandInv, Aside, Retiring
  <2>2. CASE tx.job = "replace"
    <3>1. tx.guard.ver # 0
      BY <1>0, <1>4, <2>2 DEF ProgressInv, Retiring
    <3>2. PublishedOnDisk(tx.home)
      BY <1>4, <3>1, ActiveFact DEF Retiring
    <3>3. QED
      BY <2>2, <3>2, SurvivesMeans
  <2>3. CASE tx.job = "remove"
    BY <1>4, <2>1, <2>3, SurvivesMeans
  <2>4. QED
    BY <2>1, <2>2, <2>3 DEF TypeInv, Memory
<1>5. CASE tx.pc \in Undoing
  <2>1. tx.job # "none" /\ OwnedSet(tx.prev) = Moved \cup Waiting
    BY <1>5, <1>a DEF CommandInv, Aside
  <2>2. CASE ~MemoryOnly
    BY <1>5, <2>1, <2>2, SurvivesMeans DEF SurviveInv, SafeInv
  <2>3. CASE MemoryOnly /\ tx.unclean
    BY <2>1, <2>3, SurvivesMeans
  <2>4. CASE MemoryOnly /\ ~tx.unclean
    <3>1. \A n \in Waiting : Safe(n)
      BY <1>5, <2>4 DEF SurviveInv, BackInv, Found, Back, Lost, Stray, Safe, InSide, Excused
    <3>2. QED
      BY <2>1, <2>4, <3>1, SurvivesMeans
  <2>5. QED
    BY <2>2, <2>3, <2>4
<1>6. CASE tx.pc \in Retiring /\ tx.back
  <2>1. tx.job # "none" /\ (tx.guard.ver # 0 => tx.job = "replace")
    BY <1>6 DEF CommandInv, Aside, ProgressInv, TypeInv, Memory
  <2>2. CASE ~tx.unclean
    <3>1. \A n \in OwnedSet(tx.prev) : Safe(n)
      BY <1>6, <2>2 DEF SurviveInv, BackInv, Found, Back, Lost, Stray, Safe, InSide, Excused
    <3>2. QED
      BY <2>1, <3>1, SurvivesMeans
  <2>3. CASE tx.unclean /\ (tx.guard.ver = 0 \/ MemoryOnly)
    BY <2>1, <2>3, SurvivesMeans
  <2>4. CASE tx.unclean /\ tx.guard.ver # 0 /\ ~MemoryOnly
    <3>1. PublishedOnDisk(tx.home) \/ \A n \in OwnedSet(tx.prev) : Safe(n)
      BY <1>6, <2>4 DEF SurviveInv, GuardInv
    <3>2. QED
      BY <2>1, <2>4, <3>1, SurvivesMeans
  <2>5. QED
    BY <2>2, <2>3, <2>4
<1>7. tx.pc \in {"idle", "bundle", "legacy", "prepare", "capture", "verify", "commit", "guard",
                 "guarded"} => tx.job = "none"
  BY DEF CommandInv
<1>8. \/ tx.pc \in Early \cup {"move", "final"} \cup Retiring \cup Undoing
      \/ tx.pc \in {"idle", "bundle", "legacy", "prepare", "capture", "verify", "commit", "guard",
                    "guarded"}
  BY DEF TypeInv, Memory, Steps, Over, Early, Retiring, Undoing
<1>9. tx.pc = "final" => ~tx.back
  BY DEF ProgressInv, Retiring, Undoing
<1>10. QED
  BY <1>1, <1>2, <1>3, <1>4, <1>5, <1>6, <1>7, <1>8, <1>9 DEF Retiring

\* The end changes nothing of that.
LEMMA EndsFact ==
    ASSUME IInv, tx.pc \notin Over, tx'.pc \in Over, at' = at, touched' = touched,
           home' = home, side' = side, SamePlan, tx'.home = tx.home, Moved' = Moved,
           tx'.back = tx.back, tx'.root = tx.root, tx'.guard = tx.guard,
           tx'.unclean = tx.unclean, tx'.back /\ tx'.err # "OBS_RECOVERY_REQUIRED" => tx'.err = tx.err
    PROVE  PreviousSurvives'
<1> USE DEF IInv
<1>0. /\ home \in Places /\ side \in Places /\ home # side
      /\ home = Home(tx.home) /\ OwnedSet(Current) \subseteq Names
      /\ Staged \in Int /\ Staged >= 0 /\ Staged # Copied /\ Current # 0
      /\ tx.n \in Nat /\ tx.unclean \in BOOLEAN /\ tx.root \in BOOLEAN
      /\ Foreign = -1 - spent.drift /\ spent.drift \in Nat /\ Junk = 0
      /\ \A n \in Names : Nothing[n] = NoFile
      /\ tx.back \in BOOLEAN
  BY PlaceFact, NothingFact, NumberFact, OwnedFact DEF TypeInv, Foreign, Memory, Junk
<1>a. tx.job # "none" => /\ tx.prev \in {1, 2} /\ OwnedSet(tx.prev) = Moved \cup Waiting
                         /\ OwnedSet(tx.prev) \subseteq Names
                         /\ tx.m = 0 => Moved = {} /\ Waiting = OwnedSet(tx.prev)
                         /\ tx.m = Len(Owned(tx.prev)) => Waiting = {} /\ Moved = OwnedSet(tx.prev)
  <2>1. tx.job # "none" => tx.prev \in {1, 2} /\ tx.m \in Nat /\ tx.m <= Len(Owned(tx.prev))
    BY DEF TypeInv, Memory, CommandInv, ProgressInv
  <2>2. QED
    BY <2>1, CountFact
<1>b. \A n \in OwnedSet(tx.prev) : n \in Names
  <2>1. tx.prev \in 0..2
    BY DEF TypeInv, Memory
  <2>2. QED
    BY <2>1, OwnedFact DEF OwnedSet
<1>1. PreviousSurvives
  BY SurvivesFact
<1>2. CASE tx.job = "none"
  BY <1>2 DEF PreviousSurvives, SamePlan
<1>3. CASE tx.job # "none"
  <2>1. MemoryOnly => MemoryOnly'
    BY DEF MemoryOnly
  <2>2. \A n \in OwnedSet(tx.prev) : Safe(n)' <=> Safe(n)
    BY <1>b, KeepFact DEF SamePlan
  <2>3. PublishedOnDisk(tx.home)' <=> PublishedOnDisk(tx.home)
    BY DEF PublishedOnDisk, Intact
  <2>4. \/ \A n \in OwnedSet(tx.prev) : Safe(n) \/ (MemoryOnly /\ n \in Moved)
        \/ tx.job = "replace" /\ PublishedOnDisk(tx.home)
        \/ tx.job = "remove" /\ ~tx.back
        \/ tx.unclean /\ (tx.guard.ver = 0 \/ MemoryOnly)
    BY <1>1, <1>3 DEF PreviousSurvives, Safe, InSide, MemoryOnly, Moved, At, Over, TypeInv, Memory
  <2>5. /\ tx'.job # "none"
        /\ \/ \A n \in OwnedSet(tx'.prev) : Safe(n)' \/ (MemoryOnly' /\ (tx'.pc = "crashed" \/ n \in Moved'))
           \/ tx'.job = "replace" /\ PublishedOnDisk(tx.home)'
           \/ /\ tx'.job = "remove" /\ ~tx'.back
              /\ tx'.pc \in {"retiring", "retired", "done", "crashed"}
           \/ tx'.unclean /\ (tx'.guard.ver = 0 \/ MemoryOnly')
    BY <1>3, <2>1, <2>2, <2>3, <2>4 DEF SamePlan, Over
  <2>6. QED
    BY <2>5 DEF PreviousSurvives, Safe, InSide, MemoryOnly, Moved, At
<1>4. QED
  BY <1>2, <1>3

\* At the end the previous files are somewhere.
LEMMA EndStep == ASSUME IInv, [Next]_vars PROVE EndInv'
<1> USE DEF IInv
<1>1. ASSUME NEW cmd \in {"install", "upgrade", "verify", "uninstall"}, NEW t \in Targets,
            NEW b \in Bundles, Begin(cmd, t, b)
     PROVE  EndInv'
  <2>1. tx'.job = "none"
    BY <1>1, BeginFact
  <2>2. QED
    BY <2>1 DEF EndInv, PreviousSurvives
<1>2. CASE Refuse
  <2>1. CASE Stops /\ touched' = touched
    <3>1. tx'.pc = "done" /\ at' = at /\ tx.pc \notin Over /\ ~tx.back /\ ~tx'.back
      BY <2>1, <1>2, RefuseFact DEF Stops, SameDisk, ProgressInv, Over, Retiring, Undoing
    <3>2. PreviousSurvives'
      BY <2>1, <3>1, EndsFact DEF Stops, SameTask, SamePlan, SameCounts, SameAside, Over
    <3>3. QED
      BY <3>2 DEF EndInv
  <2>2. CASE tx'.pc \notin Over
    BY <2>2 DEF EndInv
  <2>3. QED
    BY <1>2, <2>1, <2>2, RefuseFact DEF Calm
<1>3. CASE ValidateBundle
  <2>1. CASE Stops /\ touched' = touched
    <3>1. tx'.pc = "done" /\ at' = at /\ tx.pc \notin Over /\ ~tx.back /\ ~tx'.back
      BY <2>1, <1>3, ValidateBundleFact DEF Stops, SameDisk, ProgressInv, Over, Retiring, Undoing
    <3>2. PreviousSurvives'
      BY <2>1, <3>1, EndsFact DEF Stops, SameTask, SamePlan, SameCounts, SameAside, Over
    <3>3. QED
      BY <3>2 DEF EndInv
  <2>2. CASE tx'.pc \notin Over
    BY <2>2 DEF EndInv
  <2>3. QED
    BY <1>3, <2>1, <2>2, ValidateBundleFact DEF Calm, Goes, Over
<1>4. CASE FindLegacy
  <2>1. CASE Stops /\ touched' = touched
    <3>1. tx'.pc = "done" /\ at' = at /\ tx.pc \notin Over /\ ~tx.back /\ ~tx'.back
      BY <2>1, <1>4, FindLegacyFact DEF Stops, SameDisk, ProgressInv, Over, Retiring, Undoing
    <3>2. PreviousSurvives'
      BY <2>1, <3>1, EndsFact DEF Stops, SameTask, SamePlan, SameCounts, SameAside, Over
    <3>3. QED
      BY <3>2 DEF EndInv
  <2>2. CASE tx'.pc \notin Over
    BY <2>2 DEF EndInv
  <2>3. QED
    BY <1>4, <2>1, <2>2, FindLegacyFact DEF Calm, Goes, Over
<1>5. CASE Verify
  <2>1. CASE Stops /\ touched' = touched
    <3>1. tx'.pc = "done" /\ at' = at /\ tx.pc \notin Over /\ ~tx.back /\ ~tx'.back
      BY <2>1, <1>5, VerifyFact DEF Stops, SameDisk, ProgressInv, Over, Retiring, Undoing
    <3>2. PreviousSurvives'
      BY <2>1, <3>1, EndsFact DEF Stops, SameTask, SamePlan, SameCounts, SameAside, Over
    <3>3. QED
      BY <3>2 DEF EndInv
  <2>2. CASE tx'.pc \notin Over
    BY <2>2 DEF EndInv
  <2>3. QED
    BY <1>5, <2>1, <2>2, VerifyFact DEF Calm, Over
<1>6. CASE Commit
  <2>1. tx.job = "none" /\ tx'.job = tx.job
    BY <1>6, CommitFact DEF CommandInv, Goes, Stops, SameFrame, SamePlan
  <2>2. QED
    BY <2>1 DEF EndInv, PreviousSurvives
<1>7. CASE Guard
  <2>1. tx.job = "none" /\ tx'.job = tx.job
    BY <1>7, GuardFact DEF CommandInv, Stops, SamePlan
  <2>2. QED
    BY <2>1 DEF EndInv, PreviousSurvives
<1>8. CASE Unguard
  <2>1. tx.job = "none" /\ tx'.job = tx.job
    BY <1>8, UnguardFact DEF CommandInv, Stops, SamePlan
  <2>2. QED
    BY <2>1 DEF EndInv, PreviousSurvives
<1>9. CASE Prepare
  <2>1. CASE Stops /\ touched' = touched
    <3>1. tx'.pc = "done" /\ at' = at /\ tx.pc \notin Over /\ ~tx.back /\ ~tx'.back
      BY <2>1, <1>9, PrepareFact DEF Stops, SameDisk, ProgressInv, Over, Retiring, Undoing
    <3>2. PreviousSurvives'
      BY <2>1, <3>1, EndsFact DEF Stops, SameTask, SamePlan, SameCounts, SameAside, Over
    <3>3. QED
      BY <3>2 DEF EndInv
  <2>2. CASE tx'.pc \notin Over
    BY <2>2 DEF EndInv
  <2>3. QED
    BY <1>9, <2>1, <2>2, PrepareFact DEF Captures, Over
<1>10. CASE Stage
  <2>1. CASE Stops /\ touched' = touched
    <3>1. tx'.pc = "done" /\ at' = at /\ tx.pc \notin Over /\ ~tx.back /\ ~tx'.back
      BY <2>1, <1>10, StageFact DEF Stops, SameDisk, ProgressInv, Over, Retiring, Undoing
    <3>2. PreviousSurvives'
      BY <2>1, <3>1, EndsFact DEF Stops, SameTask, SamePlan, SameCounts, SameAside, Over
    <3>3. QED
      BY <3>2 DEF EndInv
  <2>2. CASE tx'.pc \notin Over
    BY <2>2 DEF EndInv
  <2>3. QED
    BY <1>10, <2>1, <2>2, StageFact DEF Calm, Over
<1>11. CASE Recheck
  <2>1. CASE Stops /\ touched' = touched
    <3>1. tx'.pc = "done" /\ at' = at /\ tx.pc \notin Over /\ ~tx.back /\ ~tx'.back
      BY <2>1, <1>11, RecheckFact DEF Stops, ProgressInv, Over, Retiring, Undoing
    <3>2. PreviousSurvives'
      BY <2>1, <3>1, EndsFact DEF Stops, SameTask, SamePlan, SameCounts, SameAside, Over
    <3>3. QED
      BY <3>2 DEF EndInv
  <2>2. CASE tx'.pc \notin Over
    BY <2>2 DEF EndInv
  <2>3. QED
    BY <1>11, <2>1, <2>2, RecheckFact DEF Calm, Goes, Over
<1>12. CASE Snapshot
  <2>1. CASE Stops /\ touched' = touched
    <3>1. tx'.pc = "done" /\ at' = at /\ tx.pc \notin Over /\ ~tx.back /\ ~tx'.back
      BY <2>1, <1>12, SnapshotFact DEF Stops, SameDisk, ProgressInv, Over, Retiring, Undoing
    <3>2. PreviousSurvives'
      BY <2>1, <3>1, EndsFact DEF Stops, SameTask, SamePlan, SameCounts, SameAside, Over
    <3>3. QED
      BY <3>2 DEF EndInv
  <2>2. CASE tx'.pc \notin Over
    BY <2>2 DEF EndInv
  <2>3. QED
    BY <1>12, <2>1, <2>2, SnapshotFact DEF Calm, Goes, Over
<1>13. CASE Capture
  <2>1. CASE Stops /\ touched' = touched
    <3>1. tx'.pc = "done" /\ at' = at /\ tx.pc \notin Over /\ ~tx.back /\ ~tx'.back
      BY <2>1, <1>13, CaptureFact DEF Stops, SameDisk, ProgressInv, Over, Retiring, Undoing
    <3>2. PreviousSurvives'
      BY <2>1, <3>1, EndsFact DEF Stops, SameTask, SamePlan, SameCounts, SameAside, Over
    <3>3. QED
      BY <3>2 DEF EndInv
  <2>2. CASE tx'.pc \notin Over
    BY <2>2 DEF EndInv
  <2>3. QED
    BY <1>13, <2>1, <2>2, CaptureFact DEF Captures, Over
<1>14. CASE Quarantine
  <2>1. CASE Stops /\ touched' = touched
    <3>1. tx'.pc = "done" /\ at' = at /\ tx.pc \notin Over /\ ~tx.back /\ ~tx'.back
      BY <2>1, <1>14, QuarantineFact DEF Stops, ProgressInv, Over, Retiring, Undoing
    <3>2. PreviousSurvives'
      BY <2>1, <3>1, EndsFact DEF Stops, SameTask, SamePlan, SameCounts, SameAside, Over
    <3>3. QED
      BY <3>2 DEF EndInv
  <2>2. CASE tx'.pc \notin Over
    BY <2>2 DEF EndInv
  <2>3. QED
    BY <1>14, <2>1, <2>2, QuarantineFact DEF Calm, Goes, Over
<1>15. CASE Move
  <2>1. tx'.pc \notin Over
    BY <1>15, MoveFact DEF Goes, Turns, Over
  <2>2. QED
    BY <2>1 DEF EndInv
<1>16. CASE Publish
  <2>1. tx'.pc \notin Over
    BY <1>16, PublishFact DEF Goes, Turns, Over
  <2>2. QED
    BY <2>1 DEF EndInv
<1>17. CASE Settle
  <2>1. tx'.pc \notin Over
    BY <1>17, SettleFact DEF Turns, Over
  <2>2. QED
    BY <2>1 DEF EndInv
<1>18. CASE Empty
  <2>1. tx'.pc \notin Over
    BY <1>18, EmptyFact DEF Goes, Over
  <2>2. QED
    BY <2>1 DEF EndInv
<1>19. CASE RetireStart
  <2>1. CASE GivesUp
    <3>1. CASE tx'.job = "none"
      BY <3>1 DEF EndInv, PreviousSurvives
    <3>2. CASE tx'.job # "none"
      <4>1. tx'.unclean /\ MemoryOnly'
        BY <2>1 DEF GivesUp, MemoryOnly
      <4>2. PreviousSurvives'
        BY <3>2, <4>1 DEF PreviousSurvives, MemoryOnly
      <4>3. QED
        BY <4>2 DEF EndInv
    <3>3. QED
      BY <3>1, <3>2
  <2>2. CASE tx'.pc \notin Over
    BY <2>2 DEF EndInv
  <2>3. QED
    BY <1>19, <2>1, <2>2, RetireStartFact DEF Fails, Turns, Over
<1>20. ASSUME NEW n \in Names, RetireFile(n) PROVE EndInv'
  <2>1. tx'.pc \notin Over
    BY <1>20, RetireFileFact DEF Over
  <2>2. QED
    BY <2>1 DEF EndInv
<1>21. CASE RetireDirectory
  <2>1. tx'.pc \notin Over
    BY <1>21, RetireDirectoryFact DEF Goes, Over
  <2>2. QED
    BY <2>1 DEF EndInv
<1>22. CASE Retired
  <2>1. tx.pc = "retired" /\ at' = at /\ touched' = touched
    BY <1>22, RetiredFact DEF Calm, SameDisk
  <2>2. CASE tx'.pc = "done"
    <3>1. /\ SameFrame /\ SameCounts /\ SameAside /\ tx'.guard = tx.guard
          /\ tx'.back = tx.back /\ tx'.unclean = tx.unclean
          /\ tx'.back /\ tx'.err # "OBS_RECOVERY_REQUIRED" => tx'.err = tx.err
      BY <2>2, <1>22, RetiredFact DEF Goes, Leaves, SameMood
    <3>2. PreviousSurvives'
      BY <2>1, <2>2, <3>1, EndsFact DEF SameFrame, SameTask, SamePlan, SameCounts, SameAside, Over
    <3>3. QED
      BY <3>2 DEF EndInv
  <2>3. CASE tx'.pc \notin Over
    BY <2>3 DEF EndInv
  <2>4. QED
    BY <1>22, <2>2, <2>3, RetiredFact DEF Goes, Leaves, Over
<1>23. CASE RetireBreaks
  <2>1. CASE GivesUp
    <3>1. CASE tx'.job = "none"
      BY <3>1 DEF EndInv, PreviousSurvives
    <3>2. CASE tx'.job # "none"
      <4>1. tx'.unclean /\ MemoryOnly'
        BY <2>1 DEF GivesUp, MemoryOnly
      <4>2. PreviousSurvives'
        BY <3>2, <4>1 DEF PreviousSurvives, MemoryOnly
      <4>3. QED
        BY <4>2 DEF EndInv
    <3>3. QED
      BY <3>1, <3>2
  <2>2. CASE tx'.pc \notin Over
    BY <2>2 DEF EndInv
  <2>3. QED
    BY <1>23, <2>1, <2>2, RetireBreaksFact DEF Fails, Turns, Over
<1>24. CASE Final
  <2>1. tx'.pc \notin Over
    BY <1>24, FinalFact DEF Turns, Leaves, Over
  <2>2. QED
    BY <2>1 DEF EndInv
<1>25. CASE StartRollback
  <2>1. tx'.pc \notin Over
    BY <1>25, StartRollbackFact DEF Goes, Spoils, Over
  <2>2. QED
    BY <2>1 DEF EndInv
<1>26. CASE Unpublish
  <2>1. tx'.pc \notin Over
    BY <1>26, UnpublishFact DEF Passes, Over
  <2>2. QED
    BY <2>1 DEF EndInv
<1>27. CASE Unpublished
  <2>1. tx'.pc \notin Over
    BY <1>27, UnpublishedFact DEF Goes, Over
  <2>2. QED
    BY <2>1 DEF EndInv
<1>28. CASE Restore
  <2>1. tx'.pc \notin Over
    BY <1>28, RestoreFact DEF Skips, Over
  <2>2. QED
    BY <2>1 DEF EndInv
<1>29. CASE Restored
  <2>1. tx'.pc \notin Over
    BY <1>29, RestoredFact DEF Goes, Spoils, Over
  <2>2. QED
    BY <2>1 DEF EndInv
<1>30. CASE Crash
  <2>1. at' = at /\ touched' = touched /\ tx.pc \notin Over /\ tx'.pc \in Over /\ Goes("crashed")
    BY <1>30, CrashFact DEF Calm, SameDisk, Over, Goes
  <2>2. PreviousSurvives'
    BY <2>1, EndsFact DEF Goes, SameFrame, SameTask, SamePlan, SameCounts, SameAside, SameMood
  <2>3. QED
    BY <2>2 DEF EndInv
<1>31. ASSUME NEW p \in Places, NEW n \in Names, Drift(p, n) PROVE EndInv'
  <2>1. tx' = tx /\ tx.pc \notin Over
    BY <1>31, DriftFact
  <2>2. QED
    BY <2>1 DEF EndInv
<1>32. CASE UNCHANGED vars
  BY <1>32, SameFact
     DEF EndInv, ReportInv, PreviousSurvives, Excused, Intact, PublishedOnDisk, At
<1>33. CASE Look
  <2>1. tx'.pc \notin Over
    BY <1>33, LookFact DEF Goes, Turns, Passes, Skips, Over
  <2>2. QED
    BY <2>1 DEF EndInv
<1>34. CASE Confirm
  <2>1. tx'.pc \notin Over
    BY <1>34, ConfirmFact DEF Turns, Over
  <2>2. QED
    BY <2>1 DEF EndInv
<1>35. CASE Record
  <2>1. tx'.pc \notin Over
    BY <1>35, RecordFact DEF Turns, Over
  <2>2. QED
    BY <2>1 DEF EndInv
<1>36. QED
  BY <1>1, <1>2, <1>3, <1>4, <1>5, <1>6, <1>7, <1>8, <1>9, <1>10, <1>11, <1>12, <1>13, <1>14,
     <1>15, <1>16, <1>17, <1>18, <1>19, <1>20, <1>21, <1>22, <1>23, <1>24, <1>25, <1>26, <1>27,
     <1>28, <1>29, <1>30, <1>31, <1>32, <1>33, <1>34, <1>35
     DEF Next, Installer, Reading, Forward, Retire, Backward, Look

\* Nothing but the plug-in directories, and what an earlier run left, is there
\* when no transaction is on.
LEMMA NoSideFact ==
    ASSUME IInv, tx.job = "none", NEW p \in Places, p[2] # "home"
    PROVE  p \notin there \ leftover
  BY DEF IInv, SpaceInv

\* A command that stops before the first file is moved.
LEMMA StopsHonestFact ==
    ASSUME IInv, Stops, touched' = touched, leftover' = leftover,
           tx.pc \in Early \/ tx.job = "none"
    PROVE  HonestReport'
<1> USE DEF IInv
<1>0. /\ home \in Places /\ side \in Places /\ home # side
      /\ home = Home(tx.home) /\ OwnedSet(Current) \subseteq Names
      /\ Staged \in Int /\ Staged >= 0 /\ Staged # Copied /\ Current # 0
      /\ tx.n \in Nat /\ tx.unclean \in BOOLEAN /\ tx.root \in BOOLEAN
      /\ Foreign = -1 - spent.drift /\ spent.drift \in Nat /\ Junk = 0
      /\ \A n \in Names : Nothing[n] = NoFile
      /\ tx.back \in BOOLEAN
  BY PlaceFact, NothingFact, NumberFact, OwnedFact DEF TypeInv, Foreign, Memory, Junk
<1>a. tx.job # "none" => /\ tx.prev \in {1, 2} /\ OwnedSet(tx.prev) = Moved \cup Waiting
                         /\ OwnedSet(tx.prev) \subseteq Names
                         /\ tx.m = 0 => Moved = {} /\ Waiting = OwnedSet(tx.prev)
                         /\ tx.m = Len(Owned(tx.prev)) => Waiting = {} /\ Moved = OwnedSet(tx.prev)
  <2>1. tx.job # "none" => tx.prev \in {1, 2} /\ tx.m \in Nat /\ tx.m <= Len(Owned(tx.prev))
    BY DEF TypeInv, Memory, CommandInv, ProgressInv
  <2>2. QED
    BY <2>1, CountFact
<1>b. \A n \in OwnedSet(tx.prev) : n \in Names
  <2>1. tx.prev \in 0..2
    BY DEF TypeInv, Memory
  <2>2. QED
    BY <2>1, OwnedFact DEF OwnedSet
<1>1. CASE tx.job = "none"
  <2>1. tx'.job = "none" /\ tx'.err # "ok"
    BY <1>1 DEF Stops, SamePlan
  <2>2. QED
    BY <2>1 DEF HonestReport
<1>2. CASE tx.job # "none" /\ tx.pc \in Early
  <2>1. /\ tx'.err # "ok" /\ tx'.prev = tx.prev /\ home' = home /\ side' = side
        /\ at' = at /\ there' = there
    BY DEF Stops, SamePlan, SameTask, SameDisk
  <2>2. ASSUME NEW n \in OwnedSet(tx.prev)
        PROVE  <<home, n>> \in touched \/ Intact(home, n, tx.prev)
    <3>1. tx.expected[n] # NoFile /\ tx.expected[n].ver = tx.prev
      BY <1>2 DEF CaptureInv, ExpectedInv
    <3>2. n \in Waiting
      BY <1>2, <1>a DEF ProgressInv
    <3>3. <<home, n>> \in touched \/ at[home][n] = tx.expected[n]
      BY <1>2, <3>2 DEF CaptureInv, WaitingInv, InFlight, Early
    <3>4. QED
      BY <3>1, <3>3 DEF Intact
  <2>3. ASSUME side \in there \ leftover
        PROVE  at[side] = Nothing \/ ({side} \X Names) \cap touched # {}
    <3>1. tx.pc = "snapshot"
      BY <1>2, <2>3, PlaceFact DEF SpaceInv, Early, Aside, Retiring, Undoing, Over
    <3>2. \A n \in Names : at[side][n] = NoFile \/ <<side, n>> \in touched
      BY <3>1 DEF SpaceInv
    <3>3. CASE \A n \in Names : at[side][n] = NoFile
      <4>1. at[side] \in [Names -> Object \cup {NoFile}]
        BY <1>0 DEF TypeInv, Row
      <4>2. at[side] = [n \in Names |-> NoFile]
        BY <3>3, <4>1
      <4>3. QED
        BY <4>2 DEF Nothing
    <3>4. CASE \E n \in Names : <<side, n>> \in touched
      BY <3>4
    <3>5. QED
      BY <3>2, <3>3, <3>4
  <2>4. QED
    BY <2>1, <2>2, <2>3 DEF HonestReport, Intact
<1>3. QED
  BY <1>1, <1>2

\* A verified install, or a verified target, is reported.
LEMMA VerifiedHonestFact ==
    ASSUME IInv, tx.pc \in {"commit", "guarded"}, tx'.pc = "done", SameTask, SamePlan,
           there' = there, at' = at, touched' = touched, leftover' = leftover,
           tx'.target \in locked' <=> tx'.readonly
    PROVE  HonestReport'
<1> USE DEF IInv
<1>0. /\ home \in Places /\ side \in Places /\ home # side
      /\ home = Home(tx.home) /\ OwnedSet(Current) \subseteq Names
      /\ Staged \in Int /\ Staged >= 0 /\ Staged # Copied /\ Current # 0
      /\ tx.n \in Nat /\ tx.unclean \in BOOLEAN /\ tx.root \in BOOLEAN
      /\ Foreign = -1 - spent.drift /\ spent.drift \in Nat /\ Junk = 0
      /\ \A n \in Names : Nothing[n] = NoFile
      /\ tx.back \in BOOLEAN
  BY PlaceFact, NothingFact, NumberFact, OwnedFact DEF TypeInv, Foreign, Memory, Junk
<1>a. tx.job # "none" => /\ tx.prev \in {1, 2} /\ OwnedSet(tx.prev) = Moved \cup Waiting
                         /\ OwnedSet(tx.prev) \subseteq Names
                         /\ tx.m = 0 => Moved = {} /\ Waiting = OwnedSet(tx.prev)
                         /\ tx.m = Len(Owned(tx.prev)) => Waiting = {} /\ Moved = OwnedSet(tx.prev)
  <2>1. tx.job # "none" => tx.prev \in {1, 2} /\ tx.m \in Nat /\ tx.m <= Len(Owned(tx.prev))
    BY DEF TypeInv, Memory, CommandInv
  <2>2. QED
    BY <2>1, CountFact
<1>b. \A n \in OwnedSet(tx.prev) : n \in Names
  <2>1. tx.prev \in 0..2
    BY DEF TypeInv, Memory
  <2>2. QED
    BY <2>1, OwnedFact DEF OwnedSet
<1>1. tx.job = "none" /\ tx'.job = "none" /\ tx'.cmd # "uninstall"
  BY DEF CommandInv, SamePlan, SameTask, Retiring, Over
<1>2. PublishedOnDisk(tx.target)'
  BY DEF ReportInv, NewInv, PublishedOnDisk, Intact, SameTask
<1>3. tx'.legacy => \A n \in OwnedSet(tx'.prev) : at'[home'][n] = NoFile \/ <<home', n>> \in touched'
  BY DEF AwayInv, Away, SameTask, SamePlan
<1>4. <<tx'.target, "backup">> \notin there' \ leftover'
  <2>1. <<tx.target, "backup">> \in Places
    BY DEF TypeInv, Memory, Places
  <2>2. QED
    BY <1>1, <2>1, NoSideFact DEF SameTask
<1>5. QED
  BY <1>1, <1>2, <1>3, <1>4 DEF HonestReport

\* The report is true when it is made.
LEMMA HonestStep == ASSUME IInv, [Next]_vars PROVE HonestReport'
<1> USE DEF IInv

<1>0. /\ home \in Places /\ side \in Places /\ home # side
      /\ home = Home(tx.home) /\ OwnedSet(Current) \subseteq Names
      /\ Staged \in Int /\ Staged >= 0 /\ Staged # Copied /\ Current # 0
      /\ tx.n \in Nat /\ tx.unclean \in BOOLEAN /\ tx.root \in BOOLEAN
      /\ Foreign = -1 - spent.drift /\ spent.drift \in Nat /\ Junk = 0
      /\ \A n \in Names : Nothing[n] = NoFile
      /\ tx.back \in BOOLEAN
  BY PlaceFact, NothingFact, NumberFact, OwnedFact DEF TypeInv, Foreign, Memory, Junk
<1>a. tx.job # "none" => /\ tx.prev \in {1, 2} /\ OwnedSet(tx.prev) = Moved \cup Waiting
                         /\ OwnedSet(tx.prev) \subseteq Names
                         /\ tx.m = 0 => Moved = {} /\ Waiting = OwnedSet(tx.prev)
                         /\ tx.m = Len(Owned(tx.prev)) => Waiting = {} /\ Moved = OwnedSet(tx.prev)
  <2>1. tx.job # "none" => tx.prev \in {1, 2} /\ tx.m \in Nat /\ tx.m <= Len(Owned(tx.prev))
    BY DEF TypeInv, Memory, CommandInv, ProgressInv
  <2>2. QED
    BY <2>1, CountFact
<1>b. \A n \in OwnedSet(tx.prev) : n \in Names
  <2>1. tx.prev \in 0..2
    BY DEF TypeInv, Memory
  <2>2. QED
    BY <2>1, OwnedFact DEF OwnedSet
<1>1. ASSUME NEW cmd \in {"install", "upgrade", "verify", "uninstall"}, NEW t \in Targets,
            NEW b \in Bundles, Begin(cmd, t, b)
     PROVE  HonestReport'
  <2>1. tx'.pc # "done"
    BY <1>1, BeginFact
  <2>2. QED
    BY <2>1 DEF HonestReport, At
<1>2. CASE Refuse
  <2>1. /\ leftover' = leftover
        /\ tx.pc \in Early \/ tx.job = "none"
        /\ tx'.pc = "done" => Stops /\ touched' = touched
    BY <1>2, RefuseFact DEF Calm, Quiet
  <2>2. QED
    BY <2>1, StopsHonestFact DEF HonestReport, At
<1>3. CASE ValidateBundle
  <2>1. /\ leftover' = leftover
        /\ tx.pc \in Early \/ tx.job = "none"
        /\ tx'.pc = "done" => Stops /\ touched' = touched
    BY <1>3, ValidateBundleFact DEF Calm, Quiet, Goes, CommandInv
  <2>2. QED
    BY <2>1, StopsHonestFact DEF HonestReport, At
<1>4. CASE FindLegacy
  <2>1. /\ leftover' = leftover
        /\ tx.pc \in Early \/ tx.job = "none"
        /\ tx'.pc = "done" => Stops /\ touched' = touched
    BY <1>4, FindLegacyFact DEF Calm, Quiet, Goes, CommandInv
  <2>2. QED
    BY <2>1, StopsHonestFact DEF HonestReport, At
<1>5. CASE Verify
  <2>1. /\ leftover' = leftover
        /\ tx.pc \in Early \/ tx.job = "none"
        /\ tx'.pc = "done" => Stops /\ touched' = touched
    BY <1>5, VerifyFact DEF Calm, Quiet, CommandInv
  <2>2. QED
    BY <2>1, StopsHonestFact DEF HonestReport, At
<1>6. CASE Commit
  <2>1. /\ tx.pc = "commit" /\ tx.job = "none" /\ there' = there /\ at' = at /\ locked' = locked
        /\ touched' = touched /\ leftover' = leftover
    BY <1>6, CommitFact DEF Calm, Quiet, SameDisk, CommandInv
  <2>2. CASE ~posix /\ tx'.pc = "done" /\ SameTask /\ SamePlan /\ SameReport
    <3>1. ~tx'.readonly /\ locked' = {}
      BY <2>1, <2>2 DEF ModeInv, SameReport, Over
    <3>2. QED
      BY <2>1, <2>2, <3>1, VerifiedHonestFact
  <2>3. CASE Stops
    BY <2>1, <2>3, StopsHonestFact
  <2>4. CASE Goes("guard")
    BY <2>4 DEF Goes, HonestReport, At
  <2>5. QED
    BY <1>6, <2>2, <2>3, <2>4, CommitFact
<1>7. CASE Guard
  <2>1. /\ tx.pc = "guard" /\ tx.job = "none" /\ touched' = touched /\ leftover' = leftover
        /\ tx'.pc = "done" => Stops
    BY <1>7, GuardFact DEF Calm, Quiet, CommandInv
  <2>2. QED
    BY <2>1, StopsHonestFact DEF HonestReport, At
<1>8. CASE Unguard
  <2>1. /\ tx.pc = "guarded" /\ tx.job = "none" /\ there' = there /\ at' = at
        /\ touched' = touched /\ leftover' = leftover /\ tx.target \in locked
    BY <1>8, UnguardFact DEF Calm, Quiet, CommandInv, ModeInv
  <2>2. CASE /\ tx'.pc = "done" /\ SameTask /\ SamePlan /\ SameReport
             /\ locked' = IF tx.readonly THEN locked ELSE locked \ {tx.target}
    <3>1. tx'.target \in locked' <=> tx'.readonly
      BY <2>1, <2>2 DEF SameTask, SameReport
    <3>2. QED
      BY <2>1, <2>2, <3>1, VerifiedHonestFact
  <2>3. CASE Stops
    BY <2>1, <2>3, StopsHonestFact
  <2>4. QED
    BY <1>8, <2>2, <2>3, UnguardFact
<1>9. CASE Prepare
  <2>1. /\ leftover' = leftover
        /\ tx.pc \in Early \/ tx.job = "none"
        /\ tx'.pc = "done" => Stops /\ touched' = touched
    BY <1>9, PrepareFact DEF Quiet, Captures, CommandInv
  <2>2. QED
    BY <2>1, StopsHonestFact DEF HonestReport, At
<1>10. CASE Stage
  <2>1. /\ leftover' = leftover
        /\ tx.pc \in Early \/ tx.job = "none"
        /\ tx'.pc = "done" => Stops /\ touched' = touched
    BY <1>10, StageFact DEF Calm, Quiet, Early
  <2>2. QED
    BY <2>1, StopsHonestFact DEF HonestReport, At
<1>11. CASE Recheck
  <2>1. /\ leftover' = leftover
        /\ tx.pc \in Early \/ tx.job = "none"
        /\ tx'.pc = "done" => Stops /\ touched' = touched
    BY <1>11, RecheckFact DEF Calm, Quiet, Goes, Early
  <2>2. QED
    BY <2>1, StopsHonestFact DEF HonestReport, At
<1>12. CASE Snapshot
  <2>1. /\ leftover' = leftover
        /\ tx.pc \in Early \/ tx.job = "none"
        /\ tx'.pc = "done" => Stops /\ touched' = touched
    BY <1>12, SnapshotFact DEF Calm, Quiet, Goes, Early
  <2>2. QED
    BY <2>1, StopsHonestFact DEF HonestReport, At
<1>13. CASE Capture
  <2>1. /\ leftover' = leftover
        /\ tx.pc \in Early \/ tx.job = "none"
        /\ tx'.pc = "done" => Stops /\ touched' = touched
    BY <1>13, CaptureFact DEF Quiet, Captures, CommandInv
  <2>2. QED
    BY <2>1, StopsHonestFact DEF HonestReport, At
<1>14. CASE Quarantine
  <2>1. /\ leftover' = leftover
        /\ tx.pc \in Early \/ tx.job = "none"
        /\ tx'.pc = "done" => Stops /\ touched' = touched
    BY <1>14, QuarantineFact DEF Calm, Quiet, Goes, Early
  <2>2. QED
    BY <2>1, StopsHonestFact DEF HonestReport, At
<1>15. CASE Move
  <2>1. tx'.pc # "done"
    BY <1>15, MoveFact DEF Goes, Turns
  <2>2. QED
    BY <2>1 DEF HonestReport, At
<1>16. CASE Publish
  <2>1. tx'.pc # "done"
    BY <1>16, PublishFact DEF Goes, Turns
  <2>2. QED
    BY <2>1 DEF HonestReport, At
<1>17. CASE Settle
  <2>1. tx'.pc # "done"
    BY <1>17, SettleFact DEF Turns
  <2>2. QED
    BY <2>1 DEF HonestReport, At
<1>18. CASE Empty
  <2>1. tx'.pc # "done"
    BY <1>18, EmptyFact DEF Goes
  <2>2. QED
    BY <2>1 DEF HonestReport, At
<1>19. CASE RetireStart
  <2>1. tx'.pc = "done" => tx'.err = "OBS_RECOVERY_REQUIRED"
    BY <1>19, RetireStartFact DEF Fails, Turns, GivesUp
  <2>2. QED
    BY <2>1 DEF HonestReport, At
<1>20. ASSUME NEW n \in Names, RetireFile(n) PROVE HonestReport'
  <2>1. tx'.pc # "done"
    BY <1>20, RetireFileFact
  <2>2. QED
    BY <2>1 DEF HonestReport, At
<1>21. CASE RetireDirectory
  <2>1. tx'.pc # "done"
    BY <1>21, RetireDirectoryFact DEF Goes
  <2>2. QED
    BY <2>1 DEF HonestReport, At
<1>22. CASE Retired
  <2>1. /\ tx.pc = "retired" /\ there' = there /\ at' = at /\ touched' = touched
        /\ leftover' = leftover
    BY <1>22, RetiredFact DEF Calm, Quiet, SameDisk
  <2>2. side \notin there
    BY <2>1, PlaceFact DEF SpaceInv, Aside, Retiring, Over
  <2>3. CASE /\ tx.back /\ tx'.pc = "done" /\ SameFrame
             /\ tx'.err = IF tx.unclean THEN "OBS_RECOVERY_REQUIRED" ELSE tx.err
    <3>1. /\ home' = home /\ side' = side /\ tx'.prev = tx.prev
          /\ tx'.err # "ok"
      BY <2>1, <2>3 DEF SameFrame, SameTask, SamePlan, ProgressInv, Over
    <3>2. ~tx.unclean => \A n \in OwnedSet(tx.prev) : Back(n) \/ Lost(n)
      BY <2>1, <2>3 DEF SurviveInv, BackInv, Retiring
    <3>3. tx'.restored \subseteq tx.restored
      BY <1>22, StillFact DEF Other, Retire
    <3>4. \A n \in OwnedSet(tx.prev) :
            /\ Back(n) => <<home, n>> \in touched' \/ Intact(home, n, tx.prev)'
            /\ Lost(n) => n \notin tx'.restored /\ <<side, n>> \in touched'
      BY <2>1, <3>1, <3>3 DEF Back, Lost, Intact
    <3>5. QED
      BY <2>1, <2>2, <2>3, <3>1, <3>2, <3>4 DEF HonestReport, Intact
  <2>4. CASE ~tx.back /\ tx.job # "replace" /\ ~tx.legacy /\ Goes("done")
    <3>1. /\ tx'.err = tx.err /\ tx'.cmd = tx.cmd /\ home' = home /\ side' = side /\ tx.err = "ok"
          /\ tx'.err = "ok"
      BY <2>1, <2>4 DEF Goes, SameFrame, SameTask, SamePlan, SameMood, ProgressInv, Over
    <3>2. tx.job = "remove" /\ tx.prev = Current /\ tx.cmd = "uninstall"
      BY <2>1, <2>4 DEF CommandInv, Aside, Retiring, TypeInv, Memory
    <3>3. \A n \in OwnedSet(Current) : at[home][n] = NoFile \/ <<home, n>> \in touched
      BY <1>a, <2>1, <2>4, <3>2 DEF AwayInv, Away, Retiring, ProgressInv
    <3>4. QED
      BY <2>1, <2>2, <3>1, <3>2, <3>3 DEF HonestReport
  <2>5. CASE tx'.pc # "done"
    BY <2>5 DEF HonestReport, At
  <2>6. QED
    BY <1>22, <2>3, <2>4, <2>5, RetiredFact DEF Goes, Leaves
<1>23. CASE RetireBreaks
  <2>1. tx'.pc = "done" => tx'.err = "OBS_RECOVERY_REQUIRED"
    BY <1>23, RetireBreaksFact DEF Fails, Turns, GivesUp
  <2>2. QED
    BY <2>1 DEF HonestReport, At
<1>24. CASE Final
  <2>1. tx'.pc # "done"
    BY <1>24, FinalFact DEF Turns, Leaves
  <2>2. QED
    BY <2>1 DEF HonestReport, At
<1>25. CASE StartRollback
  <2>1. tx'.pc # "done"
    BY <1>25, StartRollbackFact DEF Goes, Spoils
  <2>2. QED
    BY <2>1 DEF HonestReport, At
<1>26. CASE Unpublish
  <2>1. tx'.pc # "done"
    BY <1>26, UnpublishFact DEF Passes
  <2>2. QED
    BY <2>1 DEF HonestReport, At
<1>27. CASE Unpublished
  <2>1. tx'.pc # "done"
    BY <1>27, UnpublishedFact DEF Goes
  <2>2. QED
    BY <2>1 DEF HonestReport, At
<1>28. CASE Restore
  <2>1. tx'.pc # "done"
    BY <1>28, RestoreFact DEF Skips
  <2>2. QED
    BY <2>1 DEF HonestReport, At
<1>29. CASE Restored
  <2>1. tx'.pc # "done"
    BY <1>29, RestoredFact DEF Goes, Spoils
  <2>2. QED
    BY <2>1 DEF HonestReport, At
<1>30. CASE Crash
  <2>1. tx'.pc # "done"
    BY <1>30, CrashFact DEF Goes
  <2>2. QED
    BY <2>1 DEF HonestReport, At
<1>31. ASSUME NEW p \in Places, NEW n \in Names, Drift(p, n) PROVE HonestReport'
  <2>1. tx' = tx /\ tx.pc # "done"
    BY <1>31, DriftFact DEF Over
  <2>2. QED
    BY <2>1 DEF HonestReport, At
<1>32. CASE UNCHANGED vars
  BY <1>32, SameFact DEF HonestReport, ReportInv, PublishedOnDisk, Intact, At
<1>33. CASE Look
  <2>1. tx'.pc # "done"
    BY <1>33, LookFact DEF Goes, Turns, Passes, Skips
  <2>2. QED
    BY <2>1 DEF HonestReport, At
<1>34. CASE Confirm
  <2>1. tx'.pc # "done"
    BY <1>34, ConfirmFact DEF Turns
  <2>2. QED
    BY <2>1 DEF HonestReport, At
<1>35. CASE Record
  <2>1. tx'.pc # "done"
    BY <1>35, RecordFact DEF Turns
  <2>2. QED
    BY <2>1 DEF HonestReport, At
<1>36. QED
  BY <1>1, <1>2, <1>3, <1>4, <1>5, <1>6, <1>7, <1>8, <1>9, <1>10, <1>11, <1>12, <1>13, <1>14,
     <1>15, <1>16, <1>17, <1>18, <1>19, <1>20, <1>21, <1>22, <1>23, <1>24, <1>25, <1>26, <1>27,
     <1>28, <1>29, <1>30, <1>31, <1>32, <1>33, <1>34, <1>35
     DEF Next, Installer, Reading, Forward, Retire, Backward, Look

\* What the end of a command leaves, and what it says of it.
LEMMA ReportStep == ASSUME IInv, [Next]_vars PROVE ReportInv'
  BY NewStep, HonestStep, EndStep DEF ReportInv

-----------------------------------------------------------------------------
(* The invariant holds.                                                    *)

\* A fresh machine: every plug-in directory is whole or absent.
LEMMA InitIInv == ASSUME Init PROVE IInv
<1>0. PICK v \in [Targets -> 0..2] :
         /\ there = {Home(t) : t \in {u \in Targets : v[u] # 0}}
         /\ at = [p \in Places |->
                    [n \in Names |-> IF p[2] = "home" /\ n \in OwnedSet(v[p[1]])
                                     THEN [ver |-> v[p[1]], gen |-> 0] ELSE NoFile]]
  BY DEF Init
<1>1. /\ tx = Fresh /\ locked = {} /\ held = {} /\ touched = {} /\ leftover = {}
      /\ posix \in BOOLEAN /\ spent = [command |-> 0, drift |-> 0, fault |-> 0, crash |-> 0]
  BY DEF Init
<1>2. /\ tx.pc = "idle" /\ tx.cmd = "none" /\ tx.target = Main /\ tx.home = Main /\ ~tx.legacy
      /\ tx.job = "none" /\ tx.prev = 0 /\ tx.guard.ver = 0 /\ tx.root /\ ~tx.back /\ ~tx.unclean
      /\ ~tx.readonly /\ tx.err = "ok" /\ tx.m = 0 /\ tx.n = 0
      /\ tx.seen = "nothing" /\ tx.restored = {}
  BY <1>1 DEF Fresh, NoGuard
<1>3. ASSUME NEW p \in Places, NEW n \in Names
      PROVE  /\ at[p][n] \in Object \cup {NoFile}
             /\ at[p][n] # NoFile => at[p][n].gen = 0 /\ p \in there
  <2>1. CASE p[2] = "home" /\ n \in OwnedSet(v[p[1]])
    <3>1. at[p][n] = [ver |-> v[p[1]], gen |-> 0] /\ p[1] \in Targets /\ v[p[1]] \in 0..2
      BY <1>0, <2>1 DEF Places
    <3>2. v[p[1]] # 0
      BY <2>1 DEF OwnedSet
    <3>3. p = Home(p[1])
      BY <2>1 DEF Places, Home
    <3>4. QED
      BY <1>0, <3>1, <3>2, <3>3 DEF Object
  <2>2. CASE ~(p[2] = "home" /\ n \in OwnedSet(v[p[1]]))
    BY <1>0, <2>2
  <2>3. QED
    BY <2>1, <2>2
<1>4. at \in [Places -> Row]
  <2>1. at = [p \in Places |-> [n \in Names |-> at[p][n]]]
    BY <1>0
  <2>2. QED
    BY <1>3, <2>1 DEF Row
<1>5. there \in SUBSET Places /\ \A p \in there : p[2] = "home"
  BY <1>0 DEF Home, Places
<1>6. TypeInv
  <2>1. Fresh \in Memory
    BY NothingFact, InstallAssumption DEF Fresh, Memory, Steps, Looks, Errors, NoGuard
  <2>2. QED
    BY <1>1, <1>4, <1>5, <2>1 DEF TypeInv
<1>7. CommandInv /\ ModeInv /\ ProgressInv /\ AwayInv
  BY <1>1, <1>2
     DEF CommandInv, ModeInv, ProgressInv, AwayInv, Aside, Early, Retiring, Undoing, Over
<1>8. SpaceInv /\ AgeInv
  BY <1>1, <1>2, <1>3, <1>5 DEF SpaceInv, AgeInv
<1>9. CaptureInv
  BY <1>2 DEF CaptureInv, ExpectedInv, WaitingInv, MovedInv, KeptInv
<1>10. SurviveInv
  BY <1>2 DEF SurviveInv, PublishedInv, SafeInv, BackInv, GuardInv, Undoing
<1>11. ReportInv
  BY <1>2 DEF ReportInv, NewInv, HonestReport, EndInv, At, Over
<1>12. LookInv
  BY <1>2 DEF LookInv, SeenInv, FlightInv, InFlight, OwnInv, Early
<1>13. QED
  BY <1>6, <1>7, <1>8, <1>9, <1>10, <1>11, <1>12 DEF IInv

\* Every step keeps it.
LEMMA StepIInv == ASSUME IInv, [Next]_vars PROVE IInv'
  BY TypeStep, CommandStep, ModeStep, ProgressStep, SpaceStep, AgeStep, LookStep, CaptureStep, AwayStep,
     SurviveStep, ReportStep DEF IInv

\* The inductive invariant holds in every behaviour of the installer.
THEOREM Invariance == Spec => []IInv
<1>1. Init => IInv
  BY InitIInv
<1>2. IInv /\ [Next]_vars => IInv'
  BY StepIInv
<1>3. QED
  BY <1>1, <1>2, PTL DEF Spec

-----------------------------------------------------------------------------
(* What it says about the installer.                                       *)

\* While the old version is replaced or removed, its files are somewhere (SurviveInv,
\* on the way; EndInv, when the command ends or the process is killed).
THEOREM PreviousIsKept == Spec => []PreviousSurvives
<1>1. IInv => PreviousSurvives
  BY SurvivesFact DEF IInv, ReportInv, EndInv
<1>2. QED
  BY <1>1, Invariance, PTL

\* The report of a command is true of the disk, up to what others did to it.
THEOREM ReportIsHonest == Spec => []HonestReport
<1>1. IInv => HonestReport
  BY DEF IInv, ReportInv
<1>2. QED
  BY <1>1, Invariance, PTL

\* An accepted archive can be unpacked (AcceptedFact), and only accepted ones are staged
\* (CommandInv).
THEOREM AcceptedBundlesFit == Spec => []AcceptedFits
<1>1. ASSUME IInv PROVE AcceptedFits
  <2>1. SUFFICES ASSUME tx.pc = "stage",
                        \A e \in Range(tx.bundle.files) :
                          ~B!Inside(B!Fold(e.target), B!Fold(ReceiptPath))
                 PROVE  B!Stageable(tx.bundle)
    BY DEF AcceptedFits, At
  <2>2. B!Accepted(tx.bundle) /\ B!WellFormed(tx.bundle)
    BY <1>1, <2>1, BundlesAssumption DEF IInv, CommandInv
  <2>3. QED
    BY <2>1, <2>2, AcceptedFact
<1>2. IInv => AcceptedFits
  BY <1>1
<1>3. QED
  BY <1>2, Invariance, PTL

\* What a step that is not of another program leaves alone ...
Relied(t, n) == t = tx.home /\ n = AtHand /\ tx.seen # "nothing"
Respects ==
  spent'.drift = spent.drift =>
    /\ \A t \in Targets, n \in Names :
         ByOthers(t, n) => at'[Home(t)][n] = at[Home(t)][n] \/ Relied(t, n)
    /\ \A p \in leftover : leftover' = leftover => p \in there' /\ at'[p] = at[p]

\* ... and what a look that lets a step be made has not seen.
Heeds ==
  spent'.drift = spent.drift =>
    (tx.seen = "nothing" /\ tx'.seen # "nothing" /\ ByOthers(tx.home, AtHand)
     => At("unpublish") /\ OwnPublished(AtHand))

\* The same, name by name.
LEMMA RespectFact ==
    ASSUME IInv, TypeInv',
           \A t \in Targets, n \in Names :
             ByOthers(t, n) => at'[Home(t)][n] = at[Home(t)][n] \/ Relied(t, n),
           \A p \in leftover : p \in there',
           \A p \in leftover, n \in Names : at'[p][n] = at[p][n]
    PROVE  Respects
<1>1. ASSUME NEW p \in leftover PROVE at'[p] = at[p]
  <2>1. at[p] \in Row /\ at'[p] \in Row
    BY DEF IInv, TypeInv
  <2>2. at[p] = [n \in Names |-> at[p][n]] /\ at'[p] = [n \in Names |-> at'[p][n]]
    BY <2>1 DEF Row
  <2>3. \A n \in Names : at'[p][n] = at[p][n]
    OBVIOUS
  <2>4. [n \in Names |-> at[p][n]] = [n \in Names |-> at'[p][n]]
    BY <2>3
  <2>5. QED
    BY <2>2, <2>4
<1>2. QED
  BY <1>1 DEF Respects

\* No step of the installer touches what others put there.
LEMMA AtHandFact ==
    /\ At("move") /\ tx.m < Len(Owned(tx.prev)) => AtHand = Owned(tx.prev)[tx.m + 1]
    /\ Publishing /\ ~(tx.m < Len(Owned(tx.prev))) => AtHand = Owned(Current)[tx.n + 1]
    /\ At("unpublish") /\ tx.n > 0 => AtHand = Owned(Current)[tx.n]
    /\ At("restore") /\ tx.m > 0 => AtHand = Owned(tx.prev)[tx.m]
  BY DEF AtHand, At, Publishing

LEMMA RespectStep == ASSUME IInv, [Next]_vars PROVE Respects
<1> USE DEF IInv
<1>0. /\ home \in Places /\ side \in Places /\ home # side /\ home[2] = "home" /\ home = Home(tx.home)
      /\ \A t \in Targets : Home(t) \in Places /\ Home(t) # side
      /\ Staged \in Int /\ Staged >= 0
  BY PlaceFact, NumberFact
<1>b. /\ \A p \in leftover : p \in Places /\ p \in there /\ p # home
      /\ tx.pc \in Aside => side \notin leftover
  BY <1>0 DEF SpaceInv, TypeInv
<1>c. \A t \in Targets : Home(t) \in Places /\ Home(t) # side
  BY <1>0
<1>d. /\ \A t \in Targets, n \in Names :
           tx.seen # "nothing" => (Relied(t, n) <=> Home(t) = home /\ n = AtHand)
      /\ \A t \in Targets : Home(t) \in Places /\ Home(t) # side
  BY PlaceFact DEF Relied
<1>1. ASSUME NEW cmd \in {"install", "upgrade", "verify", "uninstall"}, NEW t \in Targets,
            NEW b \in Bundles, Begin(cmd, t, b)
     PROVE  Respects
  <2>1. at' = at /\ TypeInv' /\ there' = there
    BY <1>1, BeginFact DEF SameDisk
  <2>2. QED
    BY <1>b, <2>1, RespectFact
<1>2. CASE Refuse
  <2>1. at' = at /\ TypeInv'
    BY <1>2, RefuseFact DEF SameDisk, Stops
  <2>2. \A p \in leftover : p \in there'
    BY <1>b, <1>2, RefuseFact DEF SameDisk, Stops
  <2>3. QED
    BY <2>1, <2>2, RespectFact
<1>3. CASE ValidateBundle
  <2>1. at' = at /\ TypeInv'
    BY <1>3, ValidateBundleFact DEF SameDisk, Stops
  <2>2. \A p \in leftover : p \in there'
    BY <1>b, <1>3, ValidateBundleFact DEF SameDisk, Stops
  <2>3. QED
    BY <2>1, <2>2, RespectFact
<1>4. CASE FindLegacy
  <2>1. at' = at /\ TypeInv'
    BY <1>4, FindLegacyFact DEF SameDisk, Stops
  <2>2. \A p \in leftover : p \in there'
    BY <1>b, <1>4, FindLegacyFact DEF SameDisk, Stops
  <2>3. QED
    BY <2>1, <2>2, RespectFact
<1>5. CASE Verify
  <2>1. at' = at /\ TypeInv'
    BY <1>5, VerifyFact DEF SameDisk, Stops
  <2>2. \A p \in leftover : p \in there'
    BY <1>b, <1>5, VerifyFact DEF SameDisk, Stops
  <2>3. QED
    BY <2>1, <2>2, RespectFact
<1>6. CASE Commit
  <2>1. at' = at /\ TypeInv'
    BY <1>6, CommitFact DEF SameDisk, Stops
  <2>2. \A p \in leftover : p \in there'
    BY <1>b, <1>6, CommitFact DEF SameDisk, Stops
  <2>3. QED
    BY <2>1, <2>2, RespectFact
<1>7. CASE Guard
  <2>1. at' = at /\ TypeInv'
    BY <1>7, GuardFact DEF Stops
  <2>2. \A p \in leftover : p \in there'
    BY <1>b, <1>7, GuardFact DEF Stops
  <2>3. QED
    BY <2>1, <2>2, RespectFact
<1>8. CASE Unguard
  <2>1. at' = at /\ TypeInv'
    BY <1>8, UnguardFact DEF Stops
  <2>2. \A p \in leftover : p \in there'
    BY <1>b, <1>8, UnguardFact DEF Stops
  <2>3. QED
    BY <2>1, <2>2, RespectFact
<1>9. CASE Prepare
  <2>1. at' = at /\ TypeInv'
    BY <1>9, PrepareFact DEF SameDisk, Stops
  <2>2. \A p \in leftover : p \in there'
    BY <1>b, <1>9, PrepareFact DEF SameDisk, Stops
  <2>3. QED
    BY <2>1, <2>2, RespectFact
<1>10. CASE Stage
  <2>1. TypeInv' /\ \A p \in leftover : p \in there'
    BY <1>10, <1>b, StageFact DEF Stops, SameDisk
  <2>2. CASE at' = at
    BY <2>1, <2>2, RespectFact
  <2>3. CASE tx.prev = 0 /\ tx.pc = "stage" /\ \A q \in Places : q # home => at'[q] = at[q]
    <3>1. \A n \in Names : at[home][n] = NoFile
      BY <1>0, <2>3 DEF CommandInv, SpaceInv
    <3>2. \A t \in Targets, n \in Names :
             ByOthers(t, n) => at'[Home(t)][n] = at[Home(t)][n]
      BY <1>0, <2>3, <3>1 DEF ByOthers
    <3>3. QED
      BY <1>0, <1>b, <2>1, <2>3, <3>2, RespectFact
  <2>4. QED
    BY <1>10, <2>2, <2>3, StageFact DEF Stops, SameDisk
<1>11. CASE Recheck
  <2>1. at' = at /\ TypeInv'
    BY <1>11, RecheckFact DEF Stops
  <2>2. \A p \in leftover : p \in there'
    BY <1>b, <1>11, RecheckFact DEF SameDisk, Stops
  <2>3. QED
    BY <2>1, <2>2, RespectFact
<1>12. CASE Snapshot
  <2>1. at' = at /\ TypeInv'
    BY <1>12, SnapshotFact DEF SameDisk, Stops
  <2>2. \A p \in leftover : p \in there'
    BY <1>b, <1>12, SnapshotFact DEF SameDisk, Stops
  <2>3. QED
    BY <2>1, <2>2, RespectFact
<1>13. CASE Capture
  <2>1. at' = at /\ TypeInv'
    BY <1>13, CaptureFact DEF SameDisk, Stops
  <2>2. \A p \in leftover : p \in there'
    BY <1>b, <1>13, CaptureFact DEF SameDisk, Stops
  <2>3. QED
    BY <2>1, <2>2, RespectFact
<1>14. CASE Quarantine
  <2>1. at' = at /\ TypeInv'
    BY <1>14, QuarantineFact DEF Stops
  <2>2. \A p \in leftover : p \in there'
    BY <1>b, <1>14, QuarantineFact DEF SameDisk, Stops
  <2>3. QED
    BY <2>1, <2>2, RespectFact
<1>15. CASE Move
  <2>1. /\ TypeInv' /\ tx.pc \in Aside /\ \A p \in leftover : p \in there'
        /\ tx.seen # "nothing" /\ AtHand = Owned(tx.prev)[tx.m + 1]
    BY <1>15, <1>b, MoveFact, AtHandFact DEF Aside, At
  <2>2. CASE at' = at
    BY <2>1, <2>2, RespectFact
  <2>3. CASE \A q \in Places, k \in Names :
               k # AtHand \/ (q # home /\ q # side) => at'[q][k] = at[q][k]
    BY <1>b, <1>d, <2>1, <2>3, RespectFact
  <2>4. QED
    BY <1>15, <2>1, <2>2, <2>3, MoveFact
<1>16. CASE Publish
  <2>1. /\ TypeInv' /\ \A p \in leftover : p \in there'
        /\ tx.seen # "nothing" /\ tx.pc = "move" /\ tx.job = "replace"
        /\ tx.m = Len(Owned(tx.prev)) /\ tx.n < Len(Owned(Current))
    BY <1>16, <1>b, PublishFact
  <2>2. AtHand = Owned(Current)[tx.n + 1]
    <3>1. tx.m \in Nat
      BY DEF TypeInv, Memory
    <3>2. Publishing /\ ~(tx.m < Len(Owned(tx.prev)))
      BY <2>1, <3>1 DEF Publishing, At
    <3>3. QED
      BY <3>2, AtHandFact
  <2>3. CASE at' = at
    BY <2>1, <2>3, RespectFact
  <2>4. CASE Others(home, AtHand)
    BY <1>b, <1>d, <2>1, <2>4, RespectFact DEF Others
  <2>5. QED
    BY <1>16, <2>2, <2>3, <2>4, PublishFact DEF Wrote
<1>17. CASE Settle
  <2>1. at' = at /\ TypeInv'
    BY <1>17, SettleFact DEF SameDisk
  <2>2. \A p \in leftover : p \in there'
    BY <1>b, <1>17, SettleFact DEF SameDisk
  <2>3. QED
    BY <2>1, <2>2, RespectFact
<1>18. CASE Empty
  <2>1. at' = at /\ TypeInv'
    BY <1>18, EmptyFact
  <2>2. \A p \in leftover : p \in there'
    BY <1>b, <1>18, EmptyFact
  <2>3. QED
    BY <2>1, <2>2, RespectFact
<1>19. CASE RetireStart
  <2>1. at' = at /\ TypeInv'
    BY <1>19, RetireStartFact DEF SameDisk
  <2>2. \A p \in leftover : p \in there'
    BY <1>b, <1>19, RetireStartFact DEF SameDisk
  <2>3. QED
    BY <2>1, <2>2, RespectFact
<1>20. ASSUME NEW n \in Names, RetireFile(n) PROVE Respects
  <2>1. /\ TypeInv' /\ tx.pc \in Aside
        /\ \A q \in Places, k \in Names : q # side => at'[q][k] = at[q][k]
        /\ \A p \in leftover : p \in there'
    BY <1>20, <1>b, RetireFileFact DEF Cleared, Others, Aside, Retiring
  <2>2. QED
    BY <1>b, <1>c, <2>1, RespectFact
<1>21. CASE RetireDirectory
  <2>1. at' = at /\ TypeInv'
    BY <1>21, RetireDirectoryFact
  <2>2. \A p \in leftover : p \in there'
    BY <1>b, <1>21, RetireDirectoryFact DEF Aside, Retiring
  <2>3. QED
    BY <2>1, <2>2, RespectFact
<1>22. CASE Retired
  <2>1. at' = at /\ TypeInv'
    BY <1>22, RetiredFact DEF SameDisk
  <2>2. \A p \in leftover : p \in there'
    BY <1>b, <1>22, RetiredFact DEF SameDisk
  <2>3. QED
    BY <2>1, <2>2, RespectFact
<1>23. CASE RetireBreaks
  <2>1. /\ TypeInv' /\ tx.pc \in Aside
        /\ \A q \in Places, k \in Names : q # side => at'[q][k] = at[q][k]
        /\ \A p \in leftover : p \in there'
    BY <1>23, <1>b, RetireBreaksFact DEF Aside, Retiring
  <2>2. QED
    BY <1>b, <1>c, <2>1, RespectFact
<1>24. CASE Final
  <2>1. at' = at /\ TypeInv'
    BY <1>24, FinalFact DEF SameDisk
  <2>2. \A p \in leftover : p \in there'
    BY <1>b, <1>24, FinalFact DEF SameDisk
  <2>3. QED
    BY <2>1, <2>2, RespectFact
<1>25. CASE StartRollback
  <2>1. at' = at /\ TypeInv'
    BY <1>25, StartRollbackFact
  <2>2. \A p \in leftover : p \in there'
    BY <1>b, <1>25, StartRollbackFact
  <2>3. QED
    BY <2>1, <2>2, RespectFact
<1>26. CASE Unpublish
  <2>1. /\ TypeInv' /\ \A p \in leftover : p \in there'
        /\ tx.seen # "nothing" /\ AtHand = Owned(Current)[tx.n]
    BY <1>26, <1>b, UnpublishFact, AtHandFact DEF At
  <2>2. CASE at' = at
    BY <2>1, <2>2, RespectFact
  <2>3. CASE Others(home, AtHand)
    BY <1>b, <1>d, <2>1, <2>3, RespectFact DEF Others
  <2>4. QED
    BY <1>26, <2>1, <2>2, <2>3, UnpublishFact DEF Cleared
<1>27. CASE Unpublished
  <2>1. at' = at /\ TypeInv'
    BY <1>27, UnpublishedFact DEF SameDisk
  <2>2. \A p \in leftover : p \in there'
    BY <1>b, <1>27, UnpublishedFact DEF SameDisk
  <2>3. QED
    BY <2>1, <2>2, RespectFact
<1>28. CASE Restore
  <2>1. /\ TypeInv' /\ tx.pc \in Aside /\ \A p \in leftover : p \in there'
        /\ tx.seen # "nothing" /\ AtHand = Owned(tx.prev)[tx.m]
    BY <1>28, <1>b, RestoreFact, AtHandFact DEF Aside, Undoing, At
  <2>2. CASE at' = at
    BY <2>1, <2>2, RespectFact
  <2>3. CASE \A q \in Places, k \in Names :
               k # AtHand \/ (q # home /\ q # side) => at'[q][k] = at[q][k]
    BY <1>b, <1>d, <2>1, <2>3, RespectFact
  <2>4. QED
    BY <1>28, <2>1, <2>2, <2>3, RestoreFact DEF Wrote, Others
<1>29. CASE Restored
  <2>1. at' = at /\ TypeInv'
    BY <1>29, RestoredFact DEF SameDisk
  <2>2. \A p \in leftover : p \in there'
    BY <1>b, <1>29, RestoredFact DEF SameDisk
  <2>3. QED
    BY <2>1, <2>2, RespectFact
<1>30. CASE Crash
  <2>1. at' = at /\ TypeInv'
    BY <1>30, CrashFact DEF SameDisk
  <2>2. \A p \in leftover : p \in there'
    BY <1>b, <1>30, CrashFact DEF SameDisk
  <2>3. QED
    BY <2>1, <2>2, RespectFact
<1>31. ASSUME NEW p \in Places, NEW n \in Names, Drift(p, n) PROVE Respects
  <2>1. spent'.drift = spent.drift + 1 /\ spent.drift \in Int
    BY <1>31, DriftFact DEF TypeInv
  <2>2. QED
    BY <2>1 DEF Respects
<1>32. CASE UNCHANGED vars
  <2>1. at' = at /\ there' = there
    BY <1>32, SameFact
  <2>2. QED
    BY <1>b, <2>1 DEF Respects
<1>33. CASE Look
  <2>1. /\ TypeInv' /\ at' = at /\ there' = there
    BY <1>33, LookFact DEF SameDisk
  <2>2. QED
    BY <1>b, <2>1, RespectFact
<1>34. CASE Confirm
  <2>1. /\ TypeInv' /\ at' = at /\ there' = there
    BY <1>34, ConfirmFact
  <2>2. QED
    BY <1>b, <2>1, RespectFact
<1>35. CASE Record
  <2>1. /\ TypeInv' /\ at' = at /\ there' = there
    BY <1>35, RecordFact
  <2>2. QED
    BY <1>b, <2>1, RespectFact
<1>36. QED
  BY <1>1, <1>2, <1>3, <1>4, <1>5, <1>6, <1>7, <1>8, <1>9, <1>10, <1>11, <1>12, <1>13, <1>14,
     <1>15, <1>16, <1>17, <1>18, <1>19, <1>20, <1>21, <1>22, <1>23, <1>24, <1>25, <1>26, <1>27,
     <1>28, <1>29, <1>30, <1>31, <1>32, <1>33, <1>34, <1>35
     DEF Next, Installer, Reading, Forward, Retire, Backward, Look

\* A look changes nothing, and the steps it is not about do not rely on one.
LEMMA HeedStep == ASSUME IInv, [Next]_vars PROVE Heeds
<1> USE DEF IInv
<1>0. tx.home \in Targets /\ home = Home(tx.home)
  BY DEF TypeInv, Memory, home
<1>1. CASE tx.seen # "nothing" \/ tx'.seen = "nothing"
  BY <1>1 DEF Heeds
<1>2. CASE ~ByOthers(tx.home, AtHand)
  BY <1>2 DEF Heeds
<1>3. CASE CheckSource
  <2>1. /\ tx.pc = "move" /\ tx.seen = "nothing" /\ tx.m < Len(Owned(tx.prev))
        /\ tx.prev \in {1, 2} /\ AtHand = Owned(tx.prev)[tx.m + 1]
    BY <1>3, CheckSourceFact, AtHandFact DEF At
  <2>2. CASE OwnedSource(AtHand)
    <3>1. AtHand \in Waiting /\ tx.job # "none"
      <4>1. tx.m \in Nat /\ Len(Owned(tx.prev)) \in Nat
        BY <2>1, OwnedFact DEF TypeInv, Memory
      <4>2. tx.m + 1 \in (tx.m + 1)..Len(Owned(tx.prev))
        BY <2>1, <4>1
      <4>3. QED
        BY <2>1, <4>2 DEF Waiting, CommandInv, Aside
    <3>2. <<home, AtHand>> \notin touched
      BY <2>1, <2>2, <3>1 DEF CaptureInv, WaitingInv, InFlight, OwnedSource
    <3>3. QED
      BY <1>0, <1>2, <3>2 DEF ByOthers
  <2>3. QED
    BY <1>1, <1>3, <2>1, <2>2, CheckSourceFact
<1>4. CASE CheckPlace
  <2>1. AtHand = Owned(Current)[tx.n + 1]
    <3>1. Publishing /\ tx.m \in Nat
      BY <1>4, CheckPlaceFact DEF TypeInv, Memory
    <3>2. ~(tx.m < Len(Owned(tx.prev)))
      BY <3>1 DEF Publishing
    <3>3. QED
      BY <3>1, <3>2, AtHandFact
  <2>2. CASE Free(AtHand)
    BY <1>0, <1>2, <2>2 DEF Free, ByOthers
  <2>3. QED
    BY <1>1, <1>4, <2>1, <2>2, CheckPlaceFact
<1>5. CASE CheckPublished
  <2>1. tx.pc = "unpublish" /\ AtHand = Owned(Current)[tx.n]
    BY <1>5, CheckPublishedFact, AtHandFact DEF At
  <2>2. CASE OwnPublished(AtHand)
    BY <2>1, <2>2 DEF Heeds, At
  <2>3. QED
    BY <1>1, <1>5, <2>1, <2>2, CheckPublishedFact DEF Passes
<1>6. CASE CheckBack
  <2>1. AtHand = Owned(tx.prev)[tx.m]
    BY <1>6, CheckBackFact, AtHandFact DEF At
  <2>2. CASE Free(AtHand)
    BY <1>0, <1>2, <2>2 DEF Free, ByOthers
  <2>3. QED
    BY <1>1, <1>6, <2>1, <2>2, CheckBackFact DEF Skips
<1>7. CASE Move \/ Publish \/ Confirm \/ Record \/ Unpublish \/ Restore
  BY <1>1, <1>7, MoveFact, PublishFact, ConfirmFact, RecordFact, UnpublishFact, RestoreFact
<1>8. CASE Crash
  <2>1. tx'.seen = tx.seen
    BY <1>8, DomainFact DEF Crash, Go
  <2>2. QED
    BY <1>1, <2>1
<1>9. CASE \/ \E p \in Places, n \in Names : Drift(p, n)
          \/ UNCHANGED vars
  BY <1>1, <1>9, DriftFact, SameFact
<1>10. CASE \/ \E cmd \in {"install", "upgrade", "verify", "uninstall"}, t \in Targets, b \in Bundles :
                  Begin(cmd, t, b)
            \/ Other
  BY <1>1, <1>10, BeginFact, StillFact
<1>11. QED
  BY <1>3, <1>4, <1>5, <1>6, <1>7, <1>8, <1>9, <1>10, SplitFact DEF Look

\* No file of another program is removed, moved or overwritten but one that came after the
\* look the step relies on, and what an earlier run left aside stays (WaitingInv: a look
\* finds the captured object only where nobody else was; SpaceInv: the recovery directory
\* of a transaction is new).
THEOREM ForeignIsKept == Spec => ForeignKept
<1>1. IInv /\ [Next]_vars =>
        [spent'.drift = spent.drift =>
           /\ \A t \in Targets, n \in Names : ByOthers(t, n) =>
                \/ at'[Home(t)][n] = at[Home(t)][n]
                \/ (t = tx.home /\ n = AtHand /\ tx.seen # "nothing")
           /\ tx.seen = "nothing" /\ tx'.seen # "nothing" /\ ByOthers(tx.home, AtHand) =>
                At("unpublish") /\ OwnPublished(AtHand)
           /\ \A p \in leftover : leftover' = leftover => p \in there' /\ at'[p] = at[p]]_vars
  <2>1. ASSUME IInv, [Next]_vars PROVE Respects /\ Heeds
    BY <2>1, RespectStep, HeedStep
  <2>2. QED
    BY <2>1 DEF Respects, Relied, Heeds
<1>2. QED
  BY <1>1, Invariance, PTL DEF Spec, ForeignKept
=============================================================================
