------------------------------- MODULE RunIds -------------------------------
(* The ids under which directories, slots and leases know the runs of all   *)
(* boards, and what stands for no id.                                       *)
CONSTANTS Run, None
=============================================================================
