--------------------------- MODULE PayloadManager --------------------------
(***************************************************************************)
(* PayloadManager and the part of ItemManager built on it.  Every change   *)
(* of an item is computed from the item as ItemManager has it, and emitted *)
(* to the payload manager, which applies it to its collection and notifies *)
(* observers: ItemManager first, which maps the payloads to its items and  *)
(* notifies observers of its own.  An observer may emit in turn; its emit  *)
(* waits in the queue until the one being handled is done.                 *)
(*                                                                         *)
(* All of it, from an emit to the end of the queue, is one segment of the  *)
(* program: nothing but observers runs meanwhile.                          *)
(***************************************************************************)
EXTENDS Naturals, Sequences, FiniteSets, SequencesExt

CONSTANTS
  Item,
  Observers,      \* number of observers of ItemManager, notified in their order
  MaxEmits,       \* bound: emits ever made
  MaxThrows,      \* bound: observers that throw
  Environment     \* what observers do, subset of {"staleReaction"}

ASSUME PayloadManagerAssumption ==
  /\ Observers \in Nat /\ MaxEmits \in Nat /\ MaxThrows \in Nat
  /\ Environment \subseteq {"staleReaction"}

EmitId   == 1 .. MaxEmits
Observer == 1 .. Observers

VARIABLES
  collection,     \* the payloads of the payload manager
  items,          \* the items of the item manager
  emitQueue,
  step,           \* what popQueue is doing with the head of the queue
  observer,       \* the next observer to be notified
  emitted,        \* number of emits so far
  applied,        \* numbers of the emits applied, in order
  resolved,       \* numbers of the emits whose promise is resolved
  seen,           \* numbers of the emits each observer was notified of
  made,           \* the changes made to each item
  deletions,      \* calls of setItemToBeDeleted, by item
  throws

queueVars    == <<emitQueue, emitted>>
progressVars == <<step, observer>>
historyVars  == <<applied, resolved, seen>>
vars == <<collection, items, queueVars, progressVars, historyVars, made, deletions, throws>>

(* A payload: the changes it has in it, the items it refers to, and whether *)
(* it is a deletion.  A discardable one leaves the collection.              *)
Payload == [edits : SUBSET EmitId, refs : SUBSET Item, deleted : BOOLEAN]

(* What is in a collection, and what is left out of it.                     *)
NoPayload == [edits |-> {0}, refs |-> {}, deleted |-> TRUE]

Element == [id : EmitId, item : Item, payload : Payload, discardable : BOOLEAN]

(* A call of setItemToBeDeleted, and the items that came to refer to the    *)
(* deleted one since.                                                       *)
Deletion == [at : {"no", "emitted", "references"}, waits : EmitId \cup {0}, refs : SUBSET Item,
             late : SUBSET Item]

TypeOK ==
  /\ collection \in [Item -> Payload \cup {NoPayload}]
  /\ items \in [Item -> Payload \cup {NoPayload}]
  /\ emitQueue \in Seq(Element)
  /\ step \in {"idle", "apply", "map", "observers", "done", "thrown"}
  /\ observer \in 1 .. Observers + 1
  /\ emitted \in 0 .. MaxEmits
  /\ applied \in Seq(EmitId) /\ resolved \subseteq EmitId
  /\ seen \in [Observer -> Seq(EmitId)]
  /\ made \in [Item -> SUBSET EmitId]
  /\ deletions \in [Item -> Deletion]
  /\ throws \in 0 .. MaxThrows

Exists(x) == items[x] # NoPayload /\ ~items[x].deleted

-----------------------------------------------------------------------------
(* A variant that starts to empty the queue on every emit.                  *)
EmitPayloadPopsAlways(x, payload, discardable) ==
  /\ emitted < MaxEmits
  /\ emitted' = emitted + 1
  /\ emitQueue' = Append(emitQueue, [id |-> emitted + 1, item |-> x, payload |-> payload,
                                     discardable |-> discardable])
  /\ step' = "apply"

(* emitDeltaEmit: an element at the end of the queue, which is popped at    *)
(* once if it is the only one.                                              *)
EmitPayload(x, payload, discardable) ==
  /\ emitted < MaxEmits
  /\ emitted' = emitted + 1
  /\ emitQueue' = Append(emitQueue, [id |-> emitted + 1, item |-> x, payload |-> payload,
                                     discardable |-> discardable])
  /\ step' = IF emitQueue = <<>> THEN "apply" ELSE step

Change == emitted + 1

(* The changes a caller makes, each computed from the item it finds.        *)
CreateItem(x) ==
  /\ items[x] = NoPayload /\ made[x] = {} /\ ~\E i \in DOMAIN emitQueue : emitQueue[i].item = x
  /\ EmitPayload(x, [edits |-> {Change}, refs |-> {}, deleted |-> FALSE], FALSE)
  /\ made' = [made EXCEPT ![x] = {Change}]
  /\ UNCHANGED deletions

ChangeItem(x) ==
  /\ Exists(x)
  /\ EmitPayload(x, [items[x] EXCEPT !.edits = @ \cup {Change}], FALSE)
  /\ made' = [made EXCEPT ![x] = @ \cup {Change}]
  /\ UNCHANGED deletions

(* Nobody looks whether y, an item the caller has in hand, is still there.  *)
AddRelationship(x, y) ==
  /\ Exists(x) /\ made[y] \cap Range(applied) # {} /\ x # y /\ y \notin items[x].refs
  /\ EmitPayload(x, [items[x] EXCEPT !.edits = @ \cup {Change}, !.refs = @ \cup {y}], FALSE)
  /\ made' = [made EXCEPT ![x] = @ \cup {Change}]
  /\ deletions' = [deletions EXCEPT ![y].late = IF Exists(y) THEN @ ELSE @ \cup {x}]

(* A variant that looks the reference up in the wrong direction.            *)
ReferencedBy(x) == items[x].refs

Referencing(x) == {y \in Item : Exists(y) /\ x \in items[y].refs}

(* setItemToBeDeleted, up to its first await.                               *)
DeleteItem(x) ==
  /\ Exists(x) /\ deletions[x].at = "no"
  /\ EmitPayload(x, [items[x] EXCEPT !.edits = @ \cup {Change}, !.refs = {}, !.deleted = TRUE], FALSE)
  /\ made' = [made EXCEPT ![x] = @ \cup {Change}]
  /\ deletions' = [deletions EXCEPT ![x] = [at |-> "emitted", waits |-> Change, refs |-> Referencing(x),
                                             late |-> @.late]]

(* The server confirms a deletion: the payload is discarded.                *)
DiscardItem(x) ==
  /\ items[x] # NoPayload /\ items[x].deleted
  /\ EmitPayload(x, items[x], TRUE)
  /\ UNCHANGED <<made, deletions>>

LocalChange(x) ==
  \/ CreateItem(x)
  \/ ChangeItem(x)
  \/ \E y \in Item : AddRelationship(x, y)
  \/ DeleteItem(x)

(* Callers run when no emit is being handled.                               *)
Quiet == step \in {"idle", "thrown"}

Call ==
  /\ Quiet
  /\ \E x \in Item : LocalChange(x) \/ DiscardItem(x)
  /\ UNCHANGED <<collection, items, observer, historyVars, throws>>

(* setItemToBeDeleted after its emit: the items that referred to the        *)
(* deleted one are changed one by one, each after the emit before it.       *)
RemoveReference(x) ==
  /\ Quiet /\ deletions[x].at # "no" /\ deletions[x].waits \in resolved
  /\ IF deletions[x].refs = {}
     THEN /\ deletions' = [deletions EXCEPT ![x] = [at |-> "no", waits |-> 0, refs |-> {}, late |-> @.late]]
          /\ UNCHANGED <<queueVars, step, made>>
     ELSE \E y \in deletions[x].refs :
          IF Exists(y)
          THEN /\ EmitPayload(y, [items[y] EXCEPT !.edits = @ \cup {Change}, !.refs = @ \ {x}], FALSE)
               /\ made' = [made EXCEPT ![y] = @ \cup {Change}]
               /\ deletions' = [deletions EXCEPT ![x] = [at |-> "references", waits |-> Change,
                                                         refs |-> @.refs \ {y}, late |-> @.late]]
          ELSE /\ deletions' = [deletions EXCEPT ![x].refs = @ \ {y}]
               /\ UNCHANGED <<queueVars, step, made>>
  /\ UNCHANGED <<collection, items, observer, historyVars, throws>>

(* removeItemLocally and resetState leave no trace and notify no observer   *)
(* of changes.                                                              *)
RemoveItemLocally(x) ==
  /\ Quiet /\ emitQueue = <<>> /\ items[x] # NoPayload
  /\ items' = [items EXCEPT ![x] = NoPayload]
  /\ collection' = [collection EXCEPT ![x] = NoPayload]
  /\ UNCHANGED <<queueVars, progressVars, historyVars, made, deletions, throws>>

-----------------------------------------------------------------------------
(* popQueue *)

First == Head(emitQueue)

Stored(element) == IF element.discardable THEN NoPayload ELSE element.payload

ApplyPayloads ==
  /\ step = "apply"
  /\ collection' = [collection EXCEPT ![First.item] = Stored(First)]
  /\ applied' = Append(applied, First.id)
  /\ step' = "map"
  /\ UNCHANGED <<items, queueVars, observer, resolved, seen, made, deletions, throws>>

(* A variant that maps inserted and discarded payloads only.                *)
SetPayloadsInserted ==
  /\ step = "map"
  /\ items' = IF items[First.item] = NoPayload \/ First.discardable
              THEN [items EXCEPT ![First.item] = Stored(First)] ELSE items
  /\ step' = "observers"
  /\ observer' = 1
  /\ UNCHANGED <<collection, queueVars, historyVars, made, deletions, throws>>

(* setPayloads of ItemManager, the first observer.                          *)
SetPayloads ==
  /\ step = "map"
  /\ items' = [items EXCEPT ![First.item] = Stored(First)]
  /\ step' = "observers"
  /\ observer' = 1
  /\ UNCHANGED <<collection, queueVars, historyVars, made, deletions, throws>>

(* An observer is notified, and may make a change.  It finds the items      *)
(* without the changes of the emits that wait in the queue, so one that     *)
(* looks at an item whose change waits overwrites that change.              *)
Waiting(x) == \E i \in 2 .. Len(emitQueue) : emitQueue[i].item = x

Reaction ==
  \E x \in Item :
    \/ /\ "staleReaction" \in Environment \/ ~\E y \in Item : Waiting(y)
       /\ LocalChange(x)
    \/ /\ ~Waiting(x)
       /\ CreateItem(x) \/ ChangeItem(x)

Notify(reaction) ==
  /\ step = "observers" /\ observer \in Observer
  /\ seen' = [seen EXCEPT ![observer] = Append(@, First.id)]
  /\ observer' = observer + 1
  /\ IF reaction THEN Reaction ELSE UNCHANGED <<queueVars, step, made, deletions>>
  /\ UNCHANGED <<collection, items, applied, resolved, throws>>

(* It may throw as well: popQueue is left, with the element still at the    *)
(* head of the queue.                                                       *)
ObserverThrows ==
  /\ step = "observers" /\ observer \in Observer /\ throws < MaxThrows
  /\ throws' = throws + 1
  /\ step' = "thrown"
  /\ UNCHANGED <<collection, items, queueVars, observer, historyVars, made, deletions>>

(* A variant that takes the newest element out of the queue.                *)
FinishPopsLast ==
  /\ step = "observers" /\ observer \notin Observer
  /\ emitQueue' = Front(emitQueue)
  /\ resolved' = resolved \cup {First.id}
  /\ step' = IF Len(emitQueue) = 1 THEN "idle" ELSE "apply"
  /\ UNCHANGED <<collection, items, emitted, observer, applied, seen, made, deletions, throws>>

(* The element is taken out of the queue and its promise resolved; then the *)
(* next one is popped.                                                      *)
Finish ==
  /\ step = "observers" /\ observer \notin Observer
  /\ emitQueue' = Tail(emitQueue)
  /\ resolved' = resolved \cup {First.id}
  /\ step' = IF Len(emitQueue) = 1 THEN "idle" ELSE "apply"
  /\ UNCHANGED <<collection, items, emitted, observer, applied, seen, made, deletions, throws>>

PopQueue ==
  \/ ApplyPayloads
  \/ SetPayloads
  \/ Finish
  \/ \E reaction \in BOOLEAN : Notify(reaction)

Init ==
  /\ collection = [x \in Item |-> NoPayload]
  /\ items = [x \in Item |-> NoPayload]
  /\ emitQueue = <<>> /\ step = "idle" /\ observer = 1
  /\ emitted = 0 /\ applied = <<>> /\ resolved = {}
  /\ seen = [o \in Observer |-> <<>>]
  /\ made = [x \in Item |-> {}]
  /\ deletions = [x \in Item |-> [at |-> "no", waits |-> 0, refs |-> {}, late |-> {}]]
  /\ throws = 0

Next ==
  \/ Call
  \/ PopQueue
  \/ ObserverThrows
  \/ \E x \in Item : RemoveReference(x) \/ RemoveItemLocally(x)

Spec == Init /\ [][Next]_vars

-----------------------------------------------------------------------------
(* Emits are applied and resolved one at a time in the order they were      *)
(* made, however observers nest them and whether or not one throws          *)
(* (emitQueue, popQueue).                                                   *)
Queue == INSTANCE EmitQueue WITH
           pending <- [i \in DOMAIN emitQueue |-> emitQueue[i].id], log <- applied

EmitsInOrder == Queue!Spec

(* Every observer is notified of every emit, once, in the order they are    *)
(* applied, and of each one before it is resolved (notifyChangeObservers).  *)
ObserversSeeEveryEmit ==
  \A o \in Observer : /\ IsPrefix(seen[o], applied)
                      /\ resolved \subseteq {seen[o][i] : i \in DOMAIN seen[o]}

(* Once the queue is empty every item has in it all the changes made to it: *)
(* none was computed from a version that lacked another ("so that ...       *)
(* latest state is properly reconciled", changeItem).                       *)
NoChangeReverted ==
  emitQueue = <<>> => \A x \in Item : items[x] # NoPayload => items[x].edits = made[x]

(* When a deletion has returned no item refers to the deleted one, whatever *)
(* observers did while the references were being removed                    *)
(* (setItemToBeDeleted), but for those that were made to refer to it after  *)
(* it was deleted, which nothing prevents.                                  *)
DeletedItemsAreUnreferenced ==
  emitQueue = <<>> =>
    \A x, y \in Item : Exists(y) /\ x \in items[y].refs /\ items[x] # NoPayload /\ items[x].deleted
                         => deletions[x].at # "no" \/ y \in deletions[x].late
=============================================================================
