---------------------------- MODULE MCApplyPatch ----------------------------
(* Instances of ApplyPatch for TLC. *)
EXTENDS ApplyPatch

Job(source, target, patches, new) ==
    [source |-> source, target |-> target, patches |-> patches, new |-> new]

MCFiles    == {"app", "lib", "boot", "recovery", "bp"}
MCMtd      == {"boot", "recovery", "bp"}
MCContents == {"app1", "app2", "lib1", "lib2", "boot1", "recovery2", "bp1", "bp2", "other",
               "app0"}

\* A list as the test suite writes it: a hash nothing has, then the right one.
App == Job("app", "app", <<"other", "app1">>, "app2")

\* A list as a release tool writes it: the hash of the one earlier release.
Lib == Job("lib", "lib", <<"lib1">>, "lib2")

\* The recovery partition built from the boot partition, and one patched in
\* place, with a single patch each.
Recovery == Job("boot", "recovery", <<"boot1">>, "recovery2")
Baseband == Job("bp", "bp", <<"bp1">>, "bp2")

MCJobs  == <<App, Recovery, Baseband, Lib>>
MCFound == [app |-> {"app1", "app2", Torn}, lib |-> {"lib1", Torn}, boot |-> {"boot1"},
            recovery |-> {Torn, "recovery2"}, bp |-> {"bp1", "bp2"}]

\* The script above is one the theorems of ApplyPatchProofs speak of.
ASSUME ScriptIsSafe == Jobs = MCJobs => SinglePatchPartitions /\ CheckedEnough

MCLeftOver == {Absent, Torn, "app0", "app1"}
MCNoCopy   == {Absent}

\* One file whose only patch is the first of its list.
MCSingle == <<Job("app", "app", <<"app1">>, "app2")>>

\* One partition whose patch is the second of its list.
MCFlash == <<Job("bp", "bp", <<"other", "bp1">>, "bp2")>>

\* The files as shipped, and no copy.
MCUntouched == [MCFound EXCEPT !["app"] = {"app1"}]
=============================================================================
