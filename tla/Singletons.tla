----------------------------- MODULE Singletons -----------------------------
(***************************************************************************)
(* SingletonManager on several devices of one account: items of which only *)
(* one may exist (the user's preferences, say) are created by              *)
(* findOrCreateContentTypeSingleton on any device, and the ones too many   *)
(* are deleted by each device when a sync has brought new ones.            *)
(*                                                                         *)
(* All items are of one content type and match its predicate.  Syncing is  *)
(* reduced to what a device has still to upload and to retrieve; a request *)
(* or its response may be lost.                                            *)
(***************************************************************************)
EXTENDS Naturals, Sequences, FiniteSets, FiniteSetsExt, SequencesExt

CONSTANTS
  Device,
  Caller,                \* callers of findOrCreateContentTypeSingleton on each device
  MaxItems,              \* bound: items ever created; the number of one is its created_at
  MaxFailures,           \* bound: requests and responses lost
  SingletonsEnvironment  \* what may happen, subset of {"sameTime", "keysLater"}

ASSUME SingletonsAssumption ==
  /\ IsFiniteSet(Device) /\ IsFiniteSet(Caller)
  /\ MaxItems \in Nat /\ MaxFailures \in Nat
  /\ SingletonsEnvironment \subseteq {"sameTime", "keysLater"}

Singleton == 1 .. MaxItems

VARIABLES
  created,       \* items created so far
  known,         \* what each device has of each item
  discarded,     \* items a device deleted because it could not decrypt them (for the properties)
  order,         \* the items of each device, in the order they came to it
  dirty,         \* items each device has still to upload
  confirmed,     \* items the server is known to have (the others are neverSynced)
  resolveQueue,
  event,         \* a sync event that has not reached the singleton manager yet
  sync,          \* the sync under way
  downloadFirst, \* the device has still to make its DownloadFirst sync
  lastSync,      \* getLastSyncDate is set
  caller,        \* where the calls of findOrCreateContentTypeSingleton are
  server,        \* the items of the server
  unseen,        \* items changed on the server since the sync token of the device
  failures

deviceVars == <<known, discarded, order, dirty, confirmed, resolveQueue, event>>
syncVars   == <<sync, downloadFirst, lastSync>>
serverVars == <<server, unseen>>
singletonsVars == <<created, deviceVars, syncVars, caller, serverVars, failures>>

(* Retrieved items are given with what the server had of them.              *)
Request ==
  [at : {"idle", "sent", "answered"}, first : BOOLEAN,
   live : SUBSET Singleton, deleted : SUBSET Singleton,   \* uploaded
   dropped : SUBSET Singleton,                            \* neverSyncedDeleted
   retrieved : SUBSET Singleton, tombstones : SUBSET Singleton]

NoRequest == [at |-> "idle", first |-> FALSE, live |-> {}, deleted |-> {}, dropped |-> {},
              retrieved |-> {}, tombstones |-> {}]

SingletonsTypeOK ==
  /\ created \subseteq Singleton
  /\ known \in [Device -> [Singleton -> {"none", "valid", "errored", "deleted"}]]
  /\ discarded \subseteq Singleton
  /\ \A d \in Device : /\ ToSet(order[d]) = {i \in Singleton : known[d][i] # "none"}
                       /\ IsInjective(order[d])
  /\ dirty \in [Device -> SUBSET Singleton] /\ confirmed \in [Device -> SUBSET Singleton]
  /\ resolveQueue \in [Device -> SUBSET Singleton]
  /\ event \in [Device -> BOOLEAN]
  /\ sync \in [Device -> Request]
  /\ downloadFirst \in [Device -> BOOLEAN] /\ lastSync \in [Device -> BOOLEAN]
  /\ caller \in [Device -> [Caller -> {"none", "queued", "syncing", "waiting", "check", "creating",
                                    "done", "hung"}]]
  /\ server \in [Singleton -> {"none", "live", "deleted"}]
  /\ unseen \in [Device -> SUBSET Singleton]
  /\ failures \in 0 .. MaxFailures

Having(d, state) == {i \in Singleton : known[d][i] = state}
Valid(d) == Having(d, "valid")

-----------------------------------------------------------------------------
(* resolveSingletonsForItems *)

CreatedAt(i) == IF "sameTime" \in SingletonsEnvironment THEN 0 ELSE i

IndexOn(d, i) == CHOOSE n \in DOMAIN order[d] : order[d][n] = i

(* A variant that keeps the one that came to the device first.              *)
KeptByArrival(d, S) == CHOOSE i \in S : \A j \in S : IndexOn(d, i) <= IndexOn(d, j)

(* handleStrategy, KeepEarliest.  Array.sort is given a comparison that is  *)
(* never 0, which leaves the ones of the same time in the order they have.  *)
Kept(d, S) ==
  CHOOSE i \in S : \A j \in S \ {i} : \/ CreatedAt(i) < CreatedAt(j)
                                      \/ CreatedAt(i) = CreatedAt(j) /\ IndexOn(d, i) < IndexOn(d, j)

(* A variant that deletes the others on this device only.                   *)
ResolveLocally(d) ==
  /\ event[d]
  /\ event' = [event EXCEPT ![d] = FALSE]
  /\ resolveQueue' = [resolveQueue EXCEPT ![d] = {}]
  /\ LET extra == IF resolveQueue[d] # {} /\ Cardinality(Valid(d)) > 1
                  THEN Valid(d) \ {Kept(d, Valid(d))} ELSE {}
     IN  known' = [known EXCEPT ![d] = [i \in Singleton |-> IF i \in extra THEN "deleted" ELSE @[i]]]
  /\ UNCHANGED <<created, discarded, order, dirty, confirmed, syncVars, caller, serverVars, failures>>

(* The observer of DownloadFirstSyncCompleted and                           *)
(* SyncCompletedWithAllItemsUploaded.                                       *)
Resolve(d) ==
  /\ event[d]
  /\ event' = [event EXCEPT ![d] = FALSE]
  /\ resolveQueue' = [resolveQueue EXCEPT ![d] = {}]
  /\ LET extra == IF resolveQueue[d] # {} /\ Cardinality(Valid(d)) > 1
                  THEN Valid(d) \ {Kept(d, Valid(d))} ELSE {}
     IN  /\ known' = [known EXCEPT ![d] = [i \in Singleton |-> IF i \in extra THEN "deleted" ELSE @[i]]]
         /\ dirty' = [dirty EXCEPT ![d] = @ \cup extra]
  /\ UNCHANGED <<created, discarded, order, confirmed, syncVars, caller, serverVars, failures>>

-----------------------------------------------------------------------------
(* findOrCreateContentTypeSingleton *)

FindOrCreate(d, c) ==
  /\ caller[d][c] = "none"
  /\ caller' = [caller EXCEPT ![d][c] = IF Valid(d) # {} THEN "done"
                                        ELSE IF lastSync[d] THEN "check" ELSE "queued"]
  /\ UNCHANGED <<created, deviceVars, syncVars, serverVars, failures>>

Creating == Cardinality({call \in Device \X Caller : caller[call[1]][call[2]] = "creating"})

(* The checks after the sync, and the deletion of the items that cannot be  *)
(* decrypted.                                                               *)
LookAgain(d, c) ==
  /\ caller[d][c] = "check"
  /\ IF Valid(d) # {}
     THEN /\ caller' = [caller EXCEPT ![d][c] = "done"]
          /\ UNCHANGED <<known, dirty, discarded>>
     ELSE /\ Creating < Cardinality(Singleton \ created)
          /\ caller' = [caller EXCEPT ![d][c] = "creating"]
          /\ known' = [known EXCEPT ![d] = [i \in Singleton |-> IF @[i] = "errored" THEN "deleted" ELSE @[i]]]
          /\ dirty' = [dirty EXCEPT ![d] = @ \cup Having(d, "errored")]
          /\ discarded' = discarded \cup Having(d, "errored")
  /\ UNCHANGED <<created, order, confirmed, resolveQueue, event, syncVars, serverVars, failures>>

AddItem(d, i) ==
  /\ created' = created \cup {i}
  /\ known' = [known EXCEPT ![d][i] = "valid"]
  /\ order' = [order EXCEPT ![d] = Append(@, i)]
  /\ dirty' = [dirty EXCEPT ![d] = @ \cup {i}]
  /\ resolveQueue' = [resolveQueue EXCEPT ![d] = @ \cup {i}]

Create(d, c) ==
  /\ caller[d][c] = "creating"
  /\ \E i \in Singleton \ created : AddItem(d, i)
  /\ caller' = [caller EXCEPT ![d][c] = "done"]
  /\ UNCHANGED <<discarded, confirmed, event, syncVars, serverVars, failures>>

-----------------------------------------------------------------------------
(* A sync, as far as singletons see it *)

NeverSyncedDeleted(d) == Having(d, "deleted") \ confirmed[d]

(* A caller waits for a sync that starts after it asked for one: its own,   *)
(* or one of somebody else that its request is in time for.                 *)
CallersStarting(d, initiator) ==
  [caller EXCEPT ![d] = [c \in Caller |-> IF @[c] # "queued" THEN @[c]
                                          ELSE IF c \in initiator THEN "syncing" ELSE "waiting"]]

(* A variant in which the requests that were in time are not resolved.      *)
CallersReturnAlone(d) ==
  [caller EXCEPT ![d] = [c \in Caller |-> IF @[c] = "syncing" THEN "check" ELSE @[c]]]

CallersReturn(d) ==
  [caller EXCEPT ![d] = [c \in Caller |-> IF @[c] \in {"syncing", "waiting"} THEN "check" ELSE @[c]]]

(* A sync that fails returns; the requests in time for it are off the queue *)
(* by then, and are never settled.                                          *)
CallersOfFailedSync(d) ==
  [caller EXCEPT ![d] = [c \in Caller |-> IF @[c] = "syncing" THEN "check"
                                          ELSE IF @[c] = "waiting" THEN "hung" ELSE @[c]]]

(* A sync that finds nothing to do is left out.                             *)
WorthSyncing(d) ==
  \/ downloadFirst[d]
  \/ dirty[d] \cup unseen[d] # {}
  \/ resolveQueue[d] # {} /\ ~event[d]
  \/ \E c \in Caller : caller[d][c] = "queued"

StartSync(d) ==
  /\ sync[d].at = "idle" /\ WorthSyncing(d)
  /\ sync' = [sync EXCEPT ![d] = IF downloadFirst[d]
                THEN [NoRequest EXCEPT !.at = "sent", !.first = TRUE]
                ELSE [NoRequest EXCEPT !.at = "sent", !.live = dirty[d] \cap Valid(d),
                                       !.deleted = Having(d, "deleted") \cap confirmed[d],
                                       !.dropped = NeverSyncedDeleted(d)]]
  /\ \E initiator \in {{}} \cup {{c} : c \in Caller} : caller' = CallersStarting(d, initiator)
  /\ UNCHANGED <<created, deviceVars, downloadFirst, lastSync, serverVars, failures>>

(* The server takes what is uploaded, except what has changed since the     *)
(* sync token, and answers with all that has.                               *)
Answer(d) ==
  /\ sync[d].at = "sent"
  /\ LET saved == (sync[d].live \cup sync[d].deleted) \ unseen[d]
     IN  /\ server' = [i \in Singleton |-> IF i \notin saved THEN server[i]
                                      ELSE IF i \in sync[d].live THEN "live" ELSE "deleted"]
         /\ unseen' = [e \in Device |-> IF e = d THEN {} ELSE unseen[e] \cup saved]
         /\ sync' = [sync EXCEPT ![d].at = "answered",
                                 ![d].retrieved = {i \in unseen[d] : server[i] = "live"},
                                 ![d].tombstones = {i \in unseen[d] : server[i] = "deleted"}]
  /\ UNCHANGED <<created, deviceVars, downloadFirst, lastSync, caller, failures>>

(* The response is applied: what the server has wins over what was to be    *)
(* uploaded (KeepApply); items may come before the key they need.           *)
Arrived(d, errored) ==
  LET saved == sync[d].deleted \ sync[d].retrieved
  IN  [i \in Singleton |->
         IF i \in sync[d].tombstones \cup saved \cup sync[d].dropped THEN "none"
         ELSE IF i \in errored THEN "errored"
         ELSE IF i \in sync[d].retrieved THEN "valid"
         ELSE known[d][i]]

NewOn(d, errored) == {i \in sync[d].retrieved \ errored : known[d][i] = "none"}

FinishSync(d) ==
  /\ sync[d].at = "answered"
  /\ \E errored \in SUBSET {i \in sync[d].retrieved : known[d][i] = "none"} :
       /\ "keysLater" \notin SingletonsEnvironment => errored = {}
       /\ known' = [known EXCEPT ![d] = Arrived(d, errored)]
       /\ LET kept == SelectSeq(order[d], LAMBDA i : known'[d][i] # "none")
          IN  order' = [order EXCEPT ![d] =
                kept \o SetToSeq({i \in Singleton : known'[d][i] # "none"} \ ToSet(kept))]
       /\ resolveQueue' = [resolveQueue EXCEPT ![d] = @ \cup NewOn(d, errored)]
       /\ dirty' = [dirty EXCEPT ![d] =
            {i \in @ \ sync[d].retrieved : \/ known'[d][i] = "deleted"
                                           \/ known'[d][i] = "valid" /\ i \notin sync[d].live}]
  /\ confirmed' = [confirmed EXCEPT ![d] = @ \cup sync[d].live \cup sync[d].retrieved]
  /\ event' = [event EXCEPT ![d] = TRUE]
  /\ downloadFirst' = [downloadFirst EXCEPT ![d] = FALSE]
  /\ lastSync' = [lastSync EXCEPT ![d] = TRUE]
  /\ sync' = [sync EXCEPT ![d] = NoRequest]
  /\ caller' = CallersReturn(d)
  /\ UNCHANGED <<created, discarded, serverVars, failures>>

(* The request is lost, or its response is; the sync token stays.           *)
FailSync(d) ==
  /\ sync[d].at # "idle" /\ failures < MaxFailures
  /\ failures' = failures + 1
  /\ unseen' = [unseen EXCEPT ![d] =
       IF sync[d].at = "sent" THEN @
       ELSE @ \cup sync[d].live \cup sync[d].deleted \cup sync[d].retrieved \cup sync[d].tombstones]
  /\ sync' = [sync EXCEPT ![d] = NoRequest]
  /\ caller' = CallersOfFailedSync(d)
  /\ UNCHANGED <<created, deviceVars, downloadFirst, lastSync, server>>

(* The keys of the items that could not be decrypted have come.             *)
DecryptErrored(d) ==
  /\ Having(d, "errored") # {}
  /\ known' = [known EXCEPT ![d] = [i \in Singleton |-> IF @[i] = "errored" THEN "valid" ELSE @[i]]]
  /\ resolveQueue' = [resolveQueue EXCEPT ![d] = @ \cup Having(d, "errored")]
  /\ UNCHANGED <<created, discarded, order, dirty, confirmed, event, syncVars, caller, serverVars, failures>>

(* Devices sign into the account, with a singleton made before or without.  *)
SingletonsInit ==
  /\ \E own \in [Device -> Singleton \cup {0}] :
       /\ \A d, e \in Device : d # e /\ own[d] = own[e] => own[d] = 0
       /\ created = {own[d] : d \in Device} \ {0}
       /\ known = [d \in Device |-> [i \in Singleton |-> IF i = own[d] THEN "valid" ELSE "none"]]
       /\ order = [d \in Device |-> IF own[d] = 0 THEN <<>> ELSE <<own[d]>>]
       /\ dirty = [d \in Device |-> {own[d]} \ {0}]
       /\ resolveQueue = dirty
  /\ discarded = {}
  /\ confirmed = [d \in Device |-> {}]
  /\ event = [d \in Device |-> FALSE]
  /\ sync = [d \in Device |-> NoRequest]
  /\ downloadFirst = [d \in Device |-> TRUE] /\ lastSync = [d \in Device |-> FALSE]
  /\ caller = [d \in Device |-> [c \in Caller |-> "none"]]
  /\ server = [i \in Singleton |-> "none"] /\ unseen = [d \in Device |-> {}]
  /\ failures = 0

Syncing(d) == StartSync(d) \/ Answer(d) \/ FinishSync(d)

(* What goes on by itself on a device, once it has begun.                   *)
Local(d) ==
  \/ Resolve(d)
  \/ DecryptErrored(d)
  \/ \E c \in Caller : LookAgain(d, c) \/ Create(d, c)

SingletonsNext ==
  \E d \in Device :
    \/ Local(d)
    \/ Syncing(d)
    \/ FailSync(d)
    \/ \E c \in Caller : FindOrCreate(d, c)

SingletonsSpec == SingletonsInit /\ [][SingletonsNext]_singletonsVars

(* The application syncs while there is anything to sync, requests are      *)
(* answered and what has begun goes on, in any order.                       *)
SingletonsFairSpec == SingletonsSpec /\ WF_singletonsVars(\E d \in Device : Local(d) \/ Syncing(d))

-----------------------------------------------------------------------------
(* No device deletes the last singleton in favour of one that another       *)
(* device deletes: at any time there is one that somebody has and nobody    *)
(* has deleted (KeepEarliest).  A device that deletes what it could not     *)
(* decrypt, to create another one (deleteErroredPayloads), takes that       *)
(* guarantee away: the others may just have kept what it deletes.           *)
SomeSingletonSurvives ==
  \/ created = {} \/ discarded # {}
  \/ \E i \in created : /\ server[i] # "deleted"
                        /\ \A d \in Device : known[d][i] # "deleted"
                        /\ \/ server[i] = "live"
                           \/ \E d \in Device : known[d][i] # "none"

Live == {i \in Singleton : server[i] = "live"}

(* Devices come to agree on one singleton, whatever requests were lost on   *)
(* the way and whenever keys come (resolveSingletonsForItems), or on none   *)
(* if one was deleted because it could not be decrypted.                    *)
DevicesAgree ==
  <>[](\/ created = {}
       \/ /\ Cardinality(Live) = 1 \/ (Live = {} /\ discarded # {})
          /\ \A d \in Device : Valid(d) = Live)

(* A call that waits for the first sync returns ("signing into account and  *)
(* retrieving singleton shouldnt put us in deadlock", singletons.test.js),  *)
(* whether it started that sync or its request was in time for it; but a    *)
(* request that was in time for a sync that failed is never settled.        *)
CallersGetOne ==
  \A d \in Device, c \in Caller :
    (caller[d][c] = "queued") ~> (caller[d][c] \in {"done", "hung"} \/ created = Singleton)
============================================================================
