------------------------- MODULE MCRecordResolution -------------------------
(* Instances of RecordResolution for TLC. *)
EXTENDS RecordResolution, TLC

\* Functions from a part of the fields to what an update does with each.
FieldOps(a, b) ==
    {f \in UNION {[S -> {"set", "add"}] : S \in SUBSET {"a", "b"}} :
        \A g \in DOMAIN f : f[g] \in IF g = "a" THEN a ELSE b}

Here == {0}

Patches(a, b) == [type : {"patch"}, fields : FieldOps(a, b) \ {[f \in {} |-> "set"]}, node : Here]
Puts(S)       == [type : {"put"}, fields : {[f \in S |-> "set"]}, node : Here]
Deletes       == [type : {"delete"}, fields : {[f \in {} |-> "set"]}, node : Here]

\* a is set and added to, b only set; some puts replace only b.
Mixed       == Patches({"set", "add"}, {"set"}) \cup Puts({"a", "b"}) \cup Puts({"b"}) \cup Deletes
OnlyPatches == Patches({"set", "add"}, {"set"})
WithDelete  == Patches({"set"}, {"set"}) \cup Deletes
WithPut     == Patches({"set"}, {"set"}) \cup Puts({"b"})

\* Of this node and of another one.
TwoNodes == [type : {"patch"}, fields : [{"a"} -> {"set"}] \cup [{"b"} -> {"set"}], node : {0, 1}]
Remote   == [type : {"patch"}, fields : [{"a"} -> {"add"}], node : {1, 2}]
=============================================================================
