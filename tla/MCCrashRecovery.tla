-------------------------- MODULE MCCrashRecovery --------------------------
(* Instances of CrashRecovery for TLC. *)
EXTENDS CrashRecovery, TLC

\* Patches of one field, from this node and, adding only, from another; puts
\* without it and deletes from this node.
Both == [type : {"patch"}, fields : [{"a"} -> {"set", "add"}], node : {0}]
     \cup [type : {"patch"}, fields : [{"a"} -> {"add"}], node : {1}]
     \cup [type : {"put", "delete"}, fields : {[f \in {} |-> "set"]}, node : {0}]
=============================================================================
