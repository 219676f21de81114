--------------------------- MODULE VersionedStore --------------------------
(***************************************************************************)
(* What DiskStorageService promises of its key-values: they are changed in *)
(* memory, some later version reaches the disk some time later, and the    *)
(* disk never goes back to an earlier version.  They may be erased.  The   *)
(* next session starts from what is on disk.                               *)
(***************************************************************************)
EXTENDS Naturals

VARIABLES
  latest,   \* number of changes so far
  mem,      \* version in memory, 0 the default one
  disk,     \* version last written
  there     \* whether it is still there

vars == <<latest, mem, disk, there>>

Init == latest = 0 /\ mem = 0 /\ disk = 0 /\ there = FALSE

Change == latest' = latest + 1 /\ mem' = latest' /\ UNCHANGED <<disk, there>>

Write == disk' \in disk .. latest /\ there' = TRUE /\ UNCHANGED <<latest, mem>>

Erase == there' = FALSE /\ UNCHANGED <<latest, mem, disk>>

NextSession == mem' = (IF there THEN disk ELSE 0) /\ UNCHANGED <<latest, disk, there>>

Next == Change \/ Write \/ Erase \/ NextSession

Spec == Init /\ [][Next]_vars
============================================================================
