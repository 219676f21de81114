--------------------------- MODULE MCDiskStorage ---------------------------
(***************************************************************************)
(* The instance of DiskStorage that TLC checks: a note that is saved, or   *)
(* deleted without ever having been synced, and the tag it is filed under. *)
(***************************************************************************)
EXTENDS DiskStorage

(* The note alone, or its deletion together with the changed tag: the      *)
(* deletion passes a save of the note, and one change of the tag another.  *)
NoteAndTag == {[items |-> {"note"}, discardable |-> {}],
               [items |-> {"tag"},  discardable |-> {"note"}]}
=============================================================================
