------------------------------ MODULE MCInstall ------------------------------
(***************************************************************************)
(* InstallTransaction with two plug-in directories, an older version that  *)
(* owns a and a current one that owns b (and both the receipt), and seven  *)
(* archives: one good, six that differ from it in one respect.             *)
(***************************************************************************)
EXTENDS InstallTransaction, TLC

MCFiles == (1 :> <<"a">>) @@ (2 :> <<"b">>)

P(name)    == <<<<"payload", 0>>, <<name, 0>>>>
F(name)    == <<<<name, 0>>>>
File(s, t) == [source |-> s, target |-> t]
Member(p)  == [path |-> p, plain |-> TRUE, sound |-> TRUE]
Bundle(files, members) == [digestMatches |-> TRUE, envelope |-> TRUE,
                           files |-> files, members |-> members]

Good  == Bundle(<<File(P("x"), F("x")), File(P("y"), F("y"))>>, <<Member(P("x")), Member(P("y"))>>)
Alias == [Good EXCEPT !.files[2].target = <<<<"x", 1>>>>]
Below == [Good EXCEPT !.files[2].target = F("x") \o F("y")]
OnReceipt    == [Good EXCEPT !.files[2].target = <<<<"receipt", 1>>>>]
BelowReceipt == [Good EXCEPT !.files[2].target = F("receipt") \o F("y")]
MemberAlias  == [Good EXCEPT !.files[2].source = <<<<"payload", 0>>, <<"y", 1>>>>]
Unlisted     == [Good EXCEPT !.members = Append(@, Member(P("z")))]

MCBundles == {Good, Alias, Below, OnReceipt, BelowReceipt, MemberAlias, Unlisted}
MCLimit   == [command |-> 2, drift |-> 1, fault |-> 1, crash |-> 1]
DriftOnly == [command |-> 1, drift |-> 1, fault |-> 0, crash |-> 0]

\* Commands name the default directory; only those that unpack name an archive.
MCNext == \/ \E cmd \in {"install", "upgrade"}, b \in MCBundles : Begin(cmd, Main, b)
          \/ \E cmd \in {"verify", "uninstall"} : Begin(cmd, Main, {})
          \/ Installer
          \/ Crash
          \/ \E p \in Places, n \in Names : Drift(p, n)
MCSpec == Init /\ [][MCNext]_vars

\* A drift, a failing operation and a kill: any two of them, and the third if it is the
\* kill, which ends the behaviour.
TwoMishaps == spent.drift + spent.fault + spent.crash <= 2 \/ At("crashed")
=============================================================================
