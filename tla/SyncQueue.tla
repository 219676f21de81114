------------------------------ MODULE SyncQueue ------------------------------
(***************************************************************************)
(* The orchestration of SNSyncService.sync(): which of several overlapping *)
(* calls runs the network operation, what happens to the others, and when  *)
(* the promise of each call settles.  JavaScript runs one segment of code  *)
(* between two awaits at a time, so every action below is one such segment *)
(* of performSync, from the point where its await resumes to its next      *)
(* await, and the calls interleave between the segments.                   *)
(*                                                                         *)
(* Payload contents, tokens and persistence are the subject of SyncData;   *)
(* of the items this module keeps only their dirty index.                  *)
(***************************************************************************)
EXTENDS Naturals, FiniteSets, Sequences

CONSTANTS
  Calls,            (* Slots for the invocations of sync() not yet returned. *)
  Items,            (* The items of the user.                                *)
  None,             (* No call.                                              *)
  ExternalOptions,  (* The SyncOptions that callers outside the service use. *)
  Environment,      (* What else may happen in this instance, see below.     *)
  PageLimit,        (* SyncUpDownLimit: payloads sent per round trip.        *)
  MaxRequests,      (* Bound: external calls of sync(), the timer apart.     *)
  MaxDirtyIndex,    (* Bound: edits of items.                                *)
  MaxFaults,        (* Bound: happenings that keep a sync from completing.   *)
  MaxFollowUps,     (* Bound: happenings that make a sync follow up another. *)
  Reserve           (* Slots external calls leave for the service's own.     *)

Strategies == {"ResolveOnNext", "ForceSpawnNew"}
Modes == {"Default", "DownloadFirst"}

(* Source is only ever compared with ResolveOutOfSync: the others are one. *)
Sources == {"Other", "ResolveOutOfSync"}

SyncOptions == [strategy : Strategies, mode : Modes, awaitAll : BOOLEAN,
                checkIntegrity : BOOLEAN, source : Sources]

(***************************************************************************)
(* What the surroundings may do, each switched on by its name:             *)
(*   "serverError"   the server, or the network, answers with an error     *)
(*   "encryptError"  encryptSplit throws (an items key is missing)         *)
(*   "mismatch"      an integrity check finds the client out of sync       *)
(*   "singleton"     a duplicate singleton is found once a sync completes  *)
(*   "clientLock"    lockSyncing and unlockSyncing                         *)
(*   "startOffline"  the user signs in after launch                        *)
(*   "deinit"        the application is destroyed                          *)
(*   "timer"         the autosync interval                                 *)
(***************************************************************************)
Happenings == {"serverError", "encryptError", "mismatch", "singleton",
               "clientLock", "startOffline", "deinit", "timer"}

ASSUME SyncQueueAssumption ==
  /\ None \notin Calls
  /\ ExternalOptions \subseteq SyncOptions
  /\ Environment \subseteq Happenings
  /\ PageLimit \in Nat \ {0}
  /\ {MaxRequests, MaxDirtyIndex, MaxFaults, MaxFollowUps, Reserve} \subseteq Nat

VARIABLES
  pc,                  (* Where each call is: the await it will resume from. *)
  executes,            (* shouldExecuteSync, fixed when the call was made.   *)
  call,                (* The other locals of each call.                     *)
  syncLock,            (* A call prepares a sync or has one in flight.       *)
  syncing,             (* opStatus.syncInProgress                            *)
  opError,             (* opStatus.hasError()                                *)
  resolveQueue,        (* Calls that wait for the next sync to resolve them. *)
  spawnQueue,          (* Calls that wait for a sync of their own, in order. *)
  completedDownloadFirst,
  clientLocked,
  databaseLoaded,
  online,              (* sessionManager.online()                            *)
  dealloced,
  itemDirty,           (* dirtyIndex of each item, 0 when it is not dirty.   *)
  dirtyIndex,          (* The global counter that edits draw from.           *)
  singletonWork,       (* SingletonManager has duplicates to resolve.        *)
  used                 (* How much of each bound has been used.              *)

queues == <<resolveQueue, spawnQueue>>
opStatus == <<syncLock, syncing, opError>>
data == <<itemDirty, dirtyIndex, singletonWork>>
world == <<clientLocked, databaseLoaded, online, dealloced>>
vars == <<pc, executes, call, opStatus, queues, completedDownloadFirst,
          world, data, used>>

Settled == {"resolved", "rejected"}

(* The segments of a call that acquired the lock, up to its release.       *)
InFlight == {"begin", "run", "ran"}

PCs == {"idle", "presave", "queued", "finish", "observer", "again",
        "downloaded", "awaiting", "integrity", "outOfSync", "complete"}
         \cup InFlight \cup Settled

CallRecord ==
  [opts : SyncOptions,
   items : SUBSET Items,              (* items dirty when the call was made  *)
   frozen : Nat,                      (* frozenDirtyIndex                    *)
   inTime : SUBSET Calls,             (* inTimeResolveQueue                  *)
   mode : Modes, online : BOOLEAN,    (* of the operation the call created   *)
   pending : SUBSET Items,            (* pendingPayloads of that operation   *)
   parent : Calls \cup {None}]        (* the call whose promise waits for it *)

TypeOK ==
  /\ pc \in [Calls -> PCs]
  /\ executes \in [Calls -> BOOLEAN]
  /\ call \in [Calls -> CallRecord]
  /\ {syncLock, syncing, opError, completedDownloadFirst, clientLocked,
      databaseLoaded, online, dealloced, singletonWork} \subseteq BOOLEAN
  /\ resolveQueue \subseteq Calls
  /\ spawnQueue \in Seq([call : Calls, opts : SyncOptions])
  /\ itemDirty \in [Items -> Nat]
  /\ dirtyIndex \in Nat
  /\ used \in [requests : Nat, faults : Nat, followUps : Nat]

DefaultOptions ==
  [strategy |-> "ResolveOnNext", mode |-> "Default", awaitAll |-> FALSE,
   checkIntegrity |-> FALSE, source |-> "Other"]

NoCall ==
  [opts |-> DefaultOptions, items |-> {}, frozen |-> 0, inTime |-> {},
   mode |-> "Default", online |-> FALSE, pending |-> {}, parent |-> None]

Free == {c \in Calls : pc[c] = "idle"}

(* A slot is only a name for an invocation: which free one is taken does   *)
(* not matter.                                                             *)
NewSlot == CHOOSE d \in Free : TRUE
SecondSlot == CHOOSE d \in Free \ {NewSlot} : TRUE

DirtyItems == {i \in Items : itemDirty[i] > 0}

-----------------------------------------------------------------------------
(* The building blocks of the segments.                                    *)

(* Mutation: forgets that another call may be preparing.                   *)
CanExecuteUnlocked == databaseLoaded /\ ~syncing

(* configureSyncLock *)
CanExecute == ~syncLock /\ databaseLoaded /\ ~syncing

(* performSync up to its first await: check the lock, freeze the dirty     *)
(* items and the dirty index, start to persist them.                       *)
NewCall(opts, parent) ==
  [NoCall EXCEPT !.opts = opts, !.items = DirtyItems, !.frozen = dirtyIndex,
                 !.parent = parent]

(* sync() called while the client lock is off, nextPc being where the      *)
(* segment that calls it leaves the calls there already are.               *)
StartSync(opts, parent, nextPc) ==
  /\ ~clientLocked /\ Free # {}
  /\ pc' = [nextPc EXCEPT ![NewSlot] = "presave"]
  /\ executes' = [executes EXCEPT ![NewSlot] = CanExecute]
  /\ call' = [call EXCEPT ![NewSlot] = NewCall(opts, parent)]
  /\ syncLock' = (syncLock \/ CanExecute)

(* The promises of the calls in S settle.                                  *)
Settling(S, outcome) == [d \in Calls |-> IF d \in S THEN outcome ELSE pc[d]]

(* Mutation: the requests in time are forgotten.                           *)
ReturnOnly(c) == Settling({c}, "resolved")

(* resolvePendingSyncRequestsThatMadeItInTimeOfCurrentRequest, then return *)
ReturnResolvingInTime(c) == Settling(call[c].inTime \cup {c}, "resolved")

Goto(c, label) == pc' = [pc EXCEPT ![c] = label]

(* `await this.sync(opts)` inside call c, which goes on at label when the   *)
(* nested call settles.  With the client lock on, sync() returns at once.  *)
AwaitSync(c, opts, label, pcIfLocked) ==
  \/ StartSync(opts, c, [pc EXCEPT ![c] = label])
  \/ clientLocked /\ pc' = pcIfLocked /\ UNCHANGED <<executes, call, syncLock>>

(* One more of the happenings that keep a sync from completing.            *)
Fault(name) ==
  /\ name \in Environment /\ used.faults < MaxFaults
  /\ used' = [used EXCEPT !.faults = @ + 1]

SomethingDirty == DirtyItems # {}

(* Every call of the service waits for another one or for the queues.      *)
Quiescent ==
  \A c \in Calls : pc[c] \in {"idle", "queued", "awaiting", "observer", "outOfSync"}

-----------------------------------------------------------------------------
Init ==
  /\ pc = [c \in Calls |-> "idle"]
  /\ executes = [c \in Calls |-> FALSE]
  /\ call = [c \in Calls |-> NoCall]
  /\ syncLock = FALSE /\ syncing = FALSE /\ opError = FALSE
  /\ resolveQueue = {} /\ spawnQueue = <<>>
  /\ completedDownloadFirst = FALSE
  /\ clientLocked = FALSE /\ databaseLoaded = FALSE /\ dealloced = FALSE
  /\ online = ("startOffline" \notin Environment)
  /\ itemDirty = [i \in Items |-> 0] /\ dirtyIndex = 0
  /\ singletonWork = FALSE
  /\ used = [requests |-> 0, faults |-> 0, followUps |-> 0]

(***************************************************************************)
(* Calls from outside the service.                                         *)
(***************************************************************************)

(* sync(), called by a service, a controller or the application.           *)
Sync ==
  /\ ~dealloced
  /\ used.requests < MaxRequests /\ Cardinality(Free) > Reserve
  /\ used' = [used EXCEPT !.requests = @ + 1]
  /\ \E opts \in ExternalOptions : StartSync(opts, None, pc)
  /\ UNCHANGED <<syncing, opError, queues, completedDownloadFirst, world, data>>

(* The autosync timer, its period being long against a sync: a tick that   *)
(* falls into a running sync is like any other external call.              *)
AutoSync ==
  /\ "timer" \in Environment /\ databaseLoaded /\ ~dealloced
  /\ Quiescent
  /\ StartSync(DefaultOptions, None, pc)
  /\ UNCHANGED <<syncing, opError, queues, completedDownloadFirst, world, data, used>>

LockSyncing ==
  /\ Fault("clientLock") /\ ~clientLocked /\ ~dealloced
  /\ clientLocked' = TRUE
  /\ UNCHANGED <<pc, executes, call, opStatus, queues, completedDownloadFirst,
                 databaseLoaded, online, dealloced, data>>

UnlockSyncing ==
  /\ clientLocked /\ ~dealloced
  /\ clientLocked' = FALSE
  /\ UNCHANGED <<pc, executes, call, opStatus, queues, completedDownloadFirst,
                 databaseLoaded, online, dealloced, data, used>>

(* The end of loadDatabasePayloads.                                        *)
DatabaseLoaded ==
  /\ ~databaseLoaded /\ ~dealloced
  /\ databaseLoaded' = TRUE
  /\ UNCHANGED <<pc, executes, call, opStatus, queues, completedDownloadFirst,
                 clientLocked, online, dealloced, data, used>>

(* A session is established.                                               *)
SignIn ==
  /\ ~online /\ ~dealloced
  /\ online' = TRUE
  /\ UNCHANGED <<pc, executes, call, opStatus, queues, completedDownloadFirst,
                 clientLocked, databaseLoaded, dealloced, data, used>>

(* An item changes and draws its dirty index from the global counter.      *)
Edit ==
  /\ ~dealloced /\ dirtyIndex < MaxDirtyIndex
  /\ dirtyIndex' = dirtyIndex + 1
  /\ \E i \in Items : itemDirty' = [itemDirty EXCEPT ![i] = dirtyIndex + 1]
  /\ UNCHANGED <<pc, executes, call, opStatus, queues, completedDownloadFirst,
                 world, singletonWork, used>>

(* Items arrive that SingletonManager will look at after the next sync.    *)
NewSingletonItems ==
  /\ "singleton" \in Environment /\ ~dealloced /\ ~singletonWork
  /\ used.followUps < MaxFollowUps
  /\ used' = [used EXCEPT !.followUps = @ + 1]
  /\ singletonWork' = TRUE
  /\ UNCHANGED <<pc, executes, call, opStatus, queues, completedDownloadFirst,
                 world, itemDirty, dirtyIndex>>

Deinit ==
  /\ Fault("deinit") /\ ~dealloced
  /\ dealloced' = TRUE
  /\ syncing' = FALSE /\ opError' = FALSE
  /\ resolveQueue' = {} /\ spawnQueue' = <<>>
  /\ UNCHANGED <<pc, executes, call, syncLock, completedDownloadFirst,
                 clientLocked, databaseLoaded, online, data>>

(***************************************************************************)
(* performSync, segment by segment.                                        *)
(***************************************************************************)

(* prepareForSync has persisted; the call was made while another one held  *)
(* the lock, or too early.  deferSyncRequest drops awaitAll and the        *)
(* strategy of a request for the spawn queue, and every option of one for  *)
(* the resolve queue.                                                      *)
Defer(c) ==
  /\ pc[c] = "presave" /\ ~executes[c]
  /\ Goto(c, "queued")
  /\ IF call[c].opts.strategy = "ResolveOnNext"
       THEN resolveQueue' = resolveQueue \cup {c} /\ UNCHANGED spawnQueue
       ELSE /\ spawnQueue' = Append(spawnQueue,
                 [call |-> c, opts |-> [call[c].opts EXCEPT !.awaitAll = FALSE]])
            /\ UNCHANGED resolveQueue
  /\ UNCHANGED <<executes, call, opStatus, completedDownloadFirst, world, data, used>>

(* prepareForSync has persisted; this call executes.  The requests queued  *)
(* by now are the ones it will answer.  prepareForSyncExecution begins.    *)
Begin(c) ==
  /\ pc[c] = "presave" /\ executes[c] /\ ~dealloced
  /\ Goto(c, "begin")
  /\ call' = [call EXCEPT ![c].inTime = resolveQueue]
  /\ syncing' = TRUE
  /\ UNCHANGED <<executes, syncLock, opError, queues, completedDownloadFirst,
                 world, data, used>>

(* The SyncWillBegin observers are done: take the requests off the queue,  *)
(* choose the mode, encrypt, read the tokens and run the operation.  Its   *)
(* awaits are one step here: between them only this call reads or writes   *)
(* what they touch.                                                        *)
RunSyncOperation(c) ==
  /\ pc[c] = "begin" /\ ~dealloced
  /\ Goto(c, "run")
  /\ resolveQueue' = resolveQueue \ call[c].inTime
  /\ LET mode == IF online /\ ~completedDownloadFirst THEN "DownloadFirst"
                                                      ELSE call[c].opts.mode
     IN call' = [call EXCEPT ![c].online = online, ![c].mode = mode,
                   ![c].pending = IF mode = "Default" THEN call[c].items ELSE {}]
  /\ UNCHANGED <<executes, opStatus, spawnQueue, completedDownloadFirst, world, data, used>>

(* Or encryptSplit throws, and performSync rejects where it stands.        *)
EncryptionFails(c) ==
  /\ Fault("encryptError")
  /\ pc[c] = "begin" /\ ~dealloced /\ online /\ completedDownloadFirst
  /\ call[c].opts.mode = "Default" /\ call[c].items # {}
  /\ Goto(c, "rejected")
  /\ resolveQueue' = resolveQueue \ call[c].inTime
  /\ UNCHANGED <<executes, call, opStatus, spawnQueue, completedDownloadFirst,
                 world, data>>

(* popPayloads, of an operation that talks to the server.                  *)
Pages(c) ==
  IF Cardinality(call[c].pending) <= PageLimit \/ ~call[c].online
    THEN {call[c].pending}
    ELSE {page \in SUBSET call[c].pending : Cardinality(page) = PageLimit}

(* Mutation: an item captured at the very index of the freeze stays dirty. *)
SavedBelow(c, page) ==
  [i \in Items |-> IF i \in page /\ itemDirty[i] < call[c].frozen
                     THEN 0 ELSE itemDirty[i]]

(* A saved item is clean unless it was dirtied after its call froze the    *)
(* index.                                                                  *)
Saved(c, page) ==
  [i \in Items |-> IF i \in page /\ itemDirty[i] <= call[c].frozen
                     THEN 0 ELSE itemDirty[i]]

(* Microtasks go first: a call that has nothing to persist is past its     *)
(* await before the event loop takes in a response from the network.       *)
NothingToPersist(c) == pc[c] = "presave" /\ call[c].items = {}

(* One round trip and the handling of its response; the last one ends run. *)
RoundTrip(c, page) ==
  /\ pc[c] = "run"
  /\ call[c].online => \A d \in Calls : ~NothingToPersist(d)
  /\ call' = [call EXCEPT ![c].pending = @ \ page]
  /\ Goto(c, IF call[c].pending = page THEN "ran" ELSE "run")

(* Mutation: the receiver does not look at dealloced.                      *)
ResponseAppliedAlways(c) ==
  /\ \E page \in Pages(c) : RoundTrip(c, page) /\ itemDirty' = Saved(c, page)
  /\ opError' = FALSE
  /\ UNCHANGED <<executes, syncLock, syncing, queues, completedDownloadFirst,
                 world, dirtyIndex, singletonWork, used>>

ResponseSuccess(c) ==
  /\ \E page \in Pages(c) :
        /\ RoundTrip(c, page)
        /\ itemDirty' = IF dealloced THEN itemDirty ELSE Saved(c, page)
  /\ opError' = FALSE
  /\ UNCHANGED <<executes, syncLock, syncing, queues, completedDownloadFirst,
                 world, dirtyIndex, singletonWork, used>>

ResponseError(c) ==
  /\ Fault("serverError") /\ call[c].online
  /\ \E page \in Pages(c) : RoundTrip(c, page)
  /\ opError' = ~dealloced
  /\ UNCHANGED <<executes, syncLock, syncing, queues, completedDownloadFirst, world, data>>

(* The operation has run: release the lock, and handleSyncOperationFinish  *)
(* up to its awaits.  After an error performSync returns, and the requests *)
(* it took off the queue are not resolved.                                 *)
FinishOperation(c) ==
  /\ pc[c] = "ran" /\ ~dealloced
  /\ syncLock' = FALSE /\ syncing' = FALSE /\ UNCHANGED opError
  /\ Goto(c, IF opError THEN "resolved" ELSE "finish")
  /\ UNCHANGED <<executes, call, queues, completedDownloadFirst, world, data, used>>

(* The SyncCompletedWithAllItemsUploaded observers; SingletonManager's     *)
(* resolves duplicates and then awaits a sync of its own.                  *)
NotifyUploaded(c) ==
  /\ pc[c] = "finish"
  /\ IF singletonWork /\ call[c].mode = "Default" /\ ~dealloced
       THEN /\ AwaitSync(c, DefaultOptions, "observer", [pc EXCEPT ![c] = "again"])
            /\ singletonWork' = FALSE
       ELSE /\ Goto(c, "again")
            /\ UNCHANGED <<executes, call, syncLock, singletonWork>>
  /\ UNCHANGED <<syncing, opError, queues, completedDownloadFirst, world,
                 itemDirty, dirtyIndex, used>>

(***************************************************************************)
(* potentiallySyncAgainAfterSyncCompletion                                 *)
(***************************************************************************)

(* handleDownloadFirstCompletionAndSyncAgain, up to its observers and then *)
(* the second sync.  Nothing here looks whether the service still lives.   *)
DownloadFirstCompleted(c) ==
  /\ pc[c] = "again" /\ call[c].mode = "DownloadFirst"
  /\ completedDownloadFirst' = (completedDownloadFirst \/ call[c].online)
  /\ Goto(c, "downloaded")
  /\ UNCHANGED <<executes, call, opStatus, queues, world, data, used>>

(* Mutation: the second sync is started and not awaited.                   *)
SyncAfterDownloadFirstDetached(c) ==
  /\ pc[c] = "downloaded" /\ ~dealloced
  /\ StartSync(DefaultOptions, None, ReturnResolvingInTime(c))
  /\ UNCHANGED <<syncing, opError, queues, completedDownloadFirst, world, data, used>>

SyncAfterDownloadFirst(c) ==
  /\ pc[c] = "downloaded" /\ ~dealloced
  /\ AwaitSync(c, [DefaultOptions EXCEPT !.checkIntegrity = TRUE,
                                         !.awaitAll = call[c].opts.awaitAll],
               "awaiting", ReturnResolvingInTime(c))
  /\ UNCHANGED <<syncing, opError, queues, completedDownloadFirst, world, data, used>>

(* The options of a sync for the items dirtied meanwhile.                  *)
MoreDirtyOptions(c) ==
  [DefaultOptions EXCEPT !.checkIntegrity = call[c].opts.checkIntegrity,
                         !.awaitAll = call[c].opts.awaitAll]

(* Where a call goes that has nothing to sync again.                       *)
AllDone(c) == IF call[c].opts.checkIntegrity THEN "integrity" ELSE "complete"

(* popSpawnQueue starts the sync that was promised to the first entry, and *)
(* does not wait for it; items that are dirty by now need another one,     *)
(* which finds the lock taken and will be deferred.                        *)
SpawnNext(c) ==
  /\ pc[c] = "again" /\ ~dealloced /\ call[c].mode = "Default"
  /\ spawnQueue # <<>> /\ ~clientLocked
  /\ spawnQueue' = Tail(spawnQueue)
  /\ LET entry == Head(spawnQueue)
     IN IF ~SomethingDirty
          THEN StartSync(entry.opts, entry.call, [pc EXCEPT ![c] = AllDone(c)])
          ELSE /\ Cardinality(Free) > 1
               /\ pc' = [pc EXCEPT ![NewSlot] = "presave", ![SecondSlot] = "presave",
                                   ![c] = "awaiting"]
               /\ executes' = [executes EXCEPT ![NewSlot] = CanExecute, ![SecondSlot] = FALSE]
               /\ call' = [call EXCEPT ![NewSlot] = NewCall(entry.opts, entry.call),
                                       ![SecondSlot] = NewCall(MoreDirtyOptions(c), c)]
               /\ syncLock' = (syncLock \/ CanExecute)
  /\ UNCHANGED <<syncing, opError, resolveQueue, completedDownloadFirst, world, data, used>>

(* The client lock makes the spawned sync return at once, and so its       *)
(* promise resolves; the sync for dirty items returns at once, too.        *)
SpawnNextLocked(c) ==
  /\ pc[c] = "again" /\ ~dealloced /\ call[c].mode = "Default"
  /\ spawnQueue # <<>> /\ clientLocked
  /\ spawnQueue' = Tail(spawnQueue)
  /\ LET request == Head(spawnQueue).call
     IN pc' = IF SomethingDirty
                THEN Settling(call[c].inTime \cup {c, request}, "resolved")
                ELSE [pc EXCEPT ![request] = "resolved", ![c] = AllDone(c)]
  /\ UNCHANGED <<executes, call, opStatus, resolveQueue, completedDownloadFirst,
                 world, data, used>>

(* syncAgainByHandlingRequestsWaitingInResolveQueue: the sync is awaited   *)
(* for awaitAll only, and is itself made without awaitAll.                 *)
SyncForResolveQueue(c) ==
  /\ pc[c] = "again" /\ ~dealloced /\ call[c].mode = "Default"
  /\ spawnQueue = <<>> /\ resolveQueue # {}
  /\ LET opts == [DefaultOptions EXCEPT !.checkIntegrity = call[c].opts.checkIntegrity]
     IN IF call[c].opts.awaitAll \/ clientLocked
          THEN AwaitSync(c, opts, "awaiting", ReturnResolvingInTime(c))
          ELSE StartSync(opts, None, ReturnResolvingInTime(c))
  /\ UNCHANGED <<syncing, opError, queues, completedDownloadFirst, world, data, used>>

(* syncAgainByHandlingNewDirtyItems                                        *)
SyncForNewDirtyItems(c) ==
  /\ pc[c] = "again" /\ ~dealloced /\ call[c].mode = "Default"
  /\ spawnQueue = <<>> /\ resolveQueue = {} /\ SomethingDirty
  /\ AwaitSync(c, MoreDirtyOptions(c), "awaiting", ReturnResolvingInTime(c))
  /\ UNCHANGED <<syncing, opError, queues, completedDownloadFirst, world, data, used>>

NothingToSyncAgain(c) ==
  /\ pc[c] = "again" /\ ~dealloced /\ call[c].mode = "Default"
  /\ spawnQueue = <<>> /\ resolveQueue = {} /\ ~SomethingDirty
  /\ Goto(c, AllDone(c))
  /\ UNCHANGED <<executes, call, opStatus, queues, completedDownloadFirst, world, data, used>>

(***************************************************************************)
(* The end of performSync                                                  *)
(***************************************************************************)

(* IntegrityService answers SyncRequestsIntegrityCheck.  On a mismatch it  *)
(* calls back handleIntegrityCheckEventResponse, which awaits a sync that  *)
(* checks again unless this one did so already.                            *)
IntegrityInSync(c) ==
  /\ pc[c] = "integrity"
  /\ Goto(c, "complete")
  /\ UNCHANGED <<executes, call, opStatus, queues, completedDownloadFirst, world, data, used>>

IntegrityMismatch(c) ==
  /\ "mismatch" \in Environment /\ used.followUps < MaxFollowUps /\ ~dealloced
  /\ pc[c] = "integrity"
  /\ used' = [used EXCEPT !.followUps = @ + 1]
  /\ AwaitSync(c, [DefaultOptions EXCEPT
                      !.source = "ResolveOutOfSync",
                      !.checkIntegrity = call[c].opts.source # "ResolveOutOfSync"],
               "outOfSync", [pc EXCEPT ![c] = "complete"])
  /\ UNCHANGED <<syncing, opError, queues, completedDownloadFirst, world, data>>

(* The observers of the completion are done: resolve those in time.        *)
Complete(c) ==
  /\ pc[c] = "complete"
  /\ pc' = ReturnResolvingInTime(c)
  /\ UNCHANGED <<executes, call, opStatus, queues, completedDownloadFirst, world, data, used>>

(* The application is gone: the next segment returns at one of the checks  *)
(* of dealloced, or throws at the first service it finds undefined.        *)
ReturnDealloced(c) ==
  /\ dealloced
  /\ pc[c] = "ran" \/ (pc[c] = "presave" /\ executes[c])
  /\ Goto(c, "resolved")
  /\ UNCHANGED <<executes, call, opStatus, queues, completedDownloadFirst, world, data, used>>

ThrowDealloced(c) ==
  /\ dealloced
  /\ \/ pc[c] \in {"begin", "downloaded"}
     \/ pc[c] = "again" /\ call[c].mode = "Default"
  /\ Goto(c, "rejected")
  /\ UNCHANGED <<executes, call, opStatus, queues, completedDownloadFirst, world, data, used>>

(***************************************************************************)
(* A settled promise reaches whoever waits for it: another call, or, when  *)
(* no call of the service does, the caller outside.                        *)
(***************************************************************************)

Resume(parent, outcome) ==
  CASE outcome = "rejected"         -> [pc EXCEPT ![parent] = "rejected"]
    [] pc[parent] = "queued"        -> [pc EXCEPT ![parent] = "resolved"]
    [] pc[parent] = "observer"      -> [pc EXCEPT ![parent] = "again"]
    [] pc[parent] = "outOfSync"     -> [pc EXCEPT ![parent] = "complete"]
    [] OTHER                        -> ReturnResolvingInTime(parent)

Return(c) ==
  /\ pc[c] \in Settled
  /\ LET resumed == IF call[c].parent = None THEN pc ELSE Resume(call[c].parent, pc[c])
     IN pc' = [resumed EXCEPT ![c] = "idle"]
  /\ executes' = [executes EXCEPT ![c] = FALSE]
  /\ call' = [call EXCEPT ![c] = NoCall]
  /\ UNCHANGED <<opStatus, queues, completedDownloadFirst, world, data, used>>

-----------------------------------------------------------------------------
(* The segments of one call.                                               *)
Segment(c) ==
  \/ Defer(c) \/ Begin(c) \/ RunSyncOperation(c)
  \/ EncryptionFails(c) \/ ResponseSuccess(c) \/ ResponseError(c)
  \/ FinishOperation(c) \/ NotifyUploaded(c)
  \/ DownloadFirstCompleted(c) \/ SyncAfterDownloadFirst(c)
  \/ SpawnNext(c) \/ SpawnNextLocked(c) \/ SyncForResolveQueue(c)
  \/ SyncForNewDirtyItems(c) \/ NothingToSyncAgain(c)
  \/ IntegrityInSync(c) \/ IntegrityMismatch(c) \/ Complete(c)
  \/ ReturnDealloced(c) \/ ThrowDealloced(c) \/ Return(c)

Next ==
  \/ Sync \/ AutoSync \/ LockSyncing \/ UnlockSyncing \/ DatabaseLoaded
  \/ SignIn \/ Edit \/ NewSingletonItems \/ Deinit
  \/ \E c \in Calls : Segment(c)

Spec == Init /\ [][Next]_vars

(* Every await completes: storage and observers do, requests are answered  *)
(* (the HTTP layer answers a lost one with an error).  The local database  *)
(* loads, and the timer fires again and again.  Nobody has to edit or call.*)
Fairness ==
  /\ \A c \in Calls : WF_vars(Segment(c))
  /\ WF_vars(DatabaseLoaded)
  /\ WF_vars(AutoSync)

FairSpec == Spec /\ Fairness

(***************************************************************************)
(* Properties                                                              *)
(***************************************************************************)

(* The purpose of configureSyncLock, "to lock this function from triggering*)
(* duplicate network requests": the lock is read a long await before the   *)
(* operation begins and finishing calls start new ones in many places, yet *)
(* no two calls are between setDidBegin and the release of the lock.       *)
AtMostOneOperation ==
  \A c, d \in Calls : pc[c] \in InFlight /\ pc[d] \in InFlight => c = d

(* A request that was deferred is always somewhere a settlement will reach *)
(* it from: a queue, the in-time list of a call that has not returned yet, *)
(* or the spawned sync that answers it.                                    *)
Held(b) ==
  \/ b \in resolveQueue
  \/ \E n \in DOMAIN spawnQueue : spawnQueue[n].call = b
  \/ \E c \in Calls : /\ pc[c] \notin {"idle", "queued"} \cup Settled
                       /\ b \in call[c].inTime
  \/ \E c \in Calls : pc[c] # "idle" /\ call[c].parent = b

QueuedRequestIsHeld ==
  used.faults = 0 => \A b \in Calls : pc[b] = "queued" => Held(b)

(* prepareForSyncExecution takes requests off the queue "as soon as we're  *)
(* sure they'll be called", whatever then happens to the operation.        *)
RemovedRequestsAreCalled ==
  ~dealloced => \A b \in Calls : pc[b] = "queued" => Held(b)

(* The edits made before sync() was called are saved.                      *)
Uploaded(c) ==
  \A i \in call[c].items : itemDirty[i] > call[c].frozen \/ itemDirty[i] = 0

(* A call that ran an operation of its own resolves only after the edits   *)
(* made before the call are saved, whichever chain of nested, deferred and *)
(* piggybacked syncs it went through.                                      *)
ExecutedSyncUploads ==
  used.faults = 0 =>
    \A c \in Calls : pc[c] = "resolved" /\ executes[c] => Uploaded(c)

(* A request in the in-time queue "will have made it in time to piggyback  *)
(* on the current request": it resolves when its edits are saved.          *)
ResolvedSyncUploads ==
  used.faults = 0 => \A c \in Calls : pc[c] = "resolved" => Uploaded(c)

(* "Anything that comes after InTime will schedule a new sync request":    *)
(* once a first sync is complete, the service never goes quiet with        *)
(* requests in its queues.                                                 *)
NoRequestLeftBehind ==
  Quiescent /\ completedDownloadFirst => resolveQueue = {} /\ spawnQueue = <<>>

(* The lock says that a call "has begun preparing to be sent", so with     *)
(* none under way it is free.                                              *)
LockMeansPreparing == Quiescent => ~syncLock

(* Once deinit has run, no operation begins to run, no response is applied *)
(* and no item is marked as saved, whatever calls were under way.  What a  *)
(* download-first sync whose awaits were under way does still write is the *)
(* flag that it completed (DownloadFirstCompleted), and it is left out.    *)
QuietOnceDealloced ==
  dealloced => /\ UNCHANGED <<itemDirty, syncing, opError>>
               /\ \A c \in Calls : pc[c] # "run" => pc'[c] # "run"

NothingAfterDeinit == [][QuietOnceDealloced]_vars

(* With the autosync timer to pick up requests left behind, every call of  *)
(* sync() returns, as long as no sync fails.                               *)
EveryCallSettles ==
  \A c \in Calls : pc[c] # "idle" ~> (pc[c] = "idle" \/ used.faults > 0)

(* Every edit reaches the server, although a sync may fail and the calls   *)
(* that wanted it are forgotten: the timer's sync captures it again.       *)
DirtyItemsAreUploaded == \A i \in Items : itemDirty[i] > 0 ~> itemDirty[i] = 0
=============================================================================
