-------------------------------- MODULE AppNames --------------------------------
(***************************************************************************)
(* The apps that processes are put down to and rows are of: what a scan    *)
(* groups by (group_key of src/process_memory.rs) and the names it gives   *)
(* them, which two apps may share.                                         *)
(***************************************************************************)
EXTENDS Naturals

CONSTANTS
  Apps,         \* user-facing app bundles
  DisplayName   \* an app's name, by its place in the alphabet

ASSUME NamesAssumption == DisplayName \in [Apps -> Nat]

================================================================================
