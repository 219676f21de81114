---------------------------- MODULE MCFeatures ----------------------------
(* An instance of Features for TLC: an account with a plan or without, and  *)
(* an offline repository that grants other features than the plan.          *)
EXTENDS Features

Basic == [roles |-> {"core"}, live |-> {}, expired |-> {}]
Plus == [roles |-> {"core", "plus"}, live |-> {"theme"}, expired |-> {"editor"}]
BasicAndPlus == {Basic, Plus}
OfflinePlan == [roles |-> {}, live |-> {"editor"}, expired |-> {"theme"}]
===========================================================================
