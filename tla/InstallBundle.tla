---------------------------- MODULE InstallBundle ----------------------------
(***************************************************************************)
(* The bundle that an install or upgrade unpacks: a manifest that lists    *)
(* files (source in the archive, target in the plug-in directory, digest)  *)
(* and an archive with members.  _validate_bundle accepts or refuses it    *)
(* before anything is written; staging then writes every target with an    *)
(* exclusive open.  A path is a sequence of components, a component a name *)
(* with a letter case, so that two paths may differ and still be one file  *)
(* on a case-insensitive disk.                                             *)
(***************************************************************************)
EXTENDS Naturals, Sequences, FiniteSets, Functions

CONSTANTS Reserved,      \* component names no portable path may contain
          ReceiptPath,   \* where the receipt itself is written
          MaxMembers     \* most files a manifest may list

\* What a manifest and an archive are read into.
Sequence(s) == s \in Seq(Range(s))
WellFormed(bundle) ==
  /\ Sequence(bundle.files) /\ Sequence(bundle.members)
  /\ \A e \in Range(bundle.files) : Sequence(e.source) /\ Sequence(e.target)
  /\ \A m \in Range(bundle.members) : Sequence(m.path)

\* casefold: a component is <<name, case>>.
Fold(path) == [i \in DOMAIN path |-> path[i][1]]

\* _portable_relative: 1 to 16 components, each usable on every platform.
Portable(path) == /\ Len(path) \in 1..16
                  /\ \A i \in DOMAIN path : path[i][1] \notin Reserved

\* _safe_relative: portable, and not the receipt.
Safe(path) == Portable(path) /\ Fold(path) # Fold(ReceiptPath)

\* right.startswith(f"{left}/")
Inside(inner, outer) == /\ Len(outer) < Len(inner)
                        /\ SubSeq(inner, 1, Len(outer)) = outer

DistinctAsWritten(paths) == \A i, j \in DOMAIN paths : paths[i] = paths[j] => i = j

Distinct(paths) == \A i, j \in DOMAIN paths : Fold(paths[i]) = Fold(paths[j]) => i = j

Column(entries, field) == [i \in DOMAIN entries |-> entries[i][field]]

\* The archive holds exactly the listed sources, as plain files, once each.
InventoryMatches(bundle) ==
  /\ \A i \in DOMAIN bundle.members : bundle.members[i].plain /\ Safe(bundle.members[i].path)
  /\ Distinct(Column(bundle.members, "path"))
  /\ {Fold(m.path) : m \in Range(bundle.members)} = {Fold(e.source) : e \in Range(bundle.files)}

\* _validate_bundle: digest of the archive, envelope of the manifest, every
\* entry, no target below another, the inventory, the digest of every member.
Accepted(bundle) ==
  /\ bundle.digestMatches
  /\ bundle.envelope
  /\ Len(bundle.files) \in 1..MaxMembers
  /\ \A e \in Range(bundle.files) : Safe(e.source) /\ Safe(e.target)
  /\ Distinct(Column(bundle.files, "source"))
  /\ Distinct(Column(bundle.files, "target"))
  /\ \A d, e \in Range(bundle.files) : ~Inside(Fold(e.target), Fold(d.target))
  /\ InventoryMatches(bundle)
  /\ \A e \in Range(bundle.files) :
       \E m \in Range(bundle.members) : m.path = e.source /\ m.sound

\* What staging does with the i-th target: mkdir(parents=True, exist_ok=True)
\* of its directory, then open("xb"); on a disk that folds case both fail when
\* an earlier entry put a file there (the receipt is written last, at the root).
Fits(written, path) == /\ path \notin written
                       /\ \A w \in written : ~Inside(path, w) /\ ~Inside(w, path)

Stageable(bundle) ==
  LET target(i) == Fold(bundle.files[i].target)
      before(i) == {target(j) : j \in 1..(i - 1)}
      all       == {target(i) : i \in DOMAIN bundle.files}
  IN /\ \A i \in DOMAIN bundle.files : Fits(before(i), target(i))
     /\ Fits(all, Fold(ReceiptPath))
     \* every payload read back from the archive is there, once
     /\ \A e \in Range(bundle.files) :
          Cardinality({i \in DOMAIN bundle.members : bundle.members[i].path = e.source}) = 1
=============================================================================
