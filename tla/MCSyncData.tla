----------------------------- MODULE MCSyncData ------------------------------
(* Small instances of SyncData: with a page limit of one, two notes make   *)
(* two pages of a first download.                                          *)
EXTENDS SyncData

TwoNotes == 1..2
ThreeCopies == 11..13
=============================================================================
