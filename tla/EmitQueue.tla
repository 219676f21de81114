----------------------------- MODULE EmitQueue -----------------------------
(***************************************************************************)
(* What the payload manager promises of the changes emitted to it: they    *)
(* are applied one at a time, in the order they were emitted, and each is  *)
(* resolved before the next one is applied.                                *)
(***************************************************************************)
EXTENDS Naturals, Sequences

CONSTANT EmitId

VARIABLES
  pending,    \* numbers of the emits not yet resolved, in order
  log,        \* numbers of the emits applied, in order
  resolved    \* numbers of the emits resolved

vars == <<pending, log, resolved>>

Init == pending = <<>> /\ log = <<>> /\ resolved = {}

Applied == log # <<>> /\ pending # <<>> /\ log[Len(log)] = Head(pending)

Emit == \E e \in EmitId \ resolved :
           /\ \A i \in DOMAIN pending : pending[i] # e
           /\ pending' = Append(pending, e)
           /\ UNCHANGED <<log, resolved>>

Apply == /\ pending # <<>> /\ ~Applied
         /\ log' = Append(log, Head(pending))
         /\ UNCHANGED <<pending, resolved>>

Resolve == /\ Applied
           /\ resolved' = resolved \cup {Head(pending)}
           /\ pending' = Tail(pending)
           /\ UNCHANGED log

Next == Emit \/ Apply \/ Resolve

Spec == Init /\ [][Next]_vars
============================================================================
