-------------------------- MODULE SyncQueue_proofs --------------------------
(***************************************************************************)
(* Proofs about SyncQueue, for any number of calls and items and without   *)
(* any of the bounds of the model-checked instances.                       *)
(***************************************************************************)
EXTENDS SyncQueue, FiniteSetTheorems, SequenceTheorems, TLAPS

-----------------------------------------------------------------------------
(* The slots and the options that new calls take.                          *)

LEMMA NewSlotIsFree ==
  ASSUME Free # {}
  PROVE  NewSlot \in Calls /\ pc[NewSlot] = "idle"
BY DEF NewSlot, Free

LEMMA SecondSlotIsFree ==
  ASSUME Free # {}, Cardinality(Free) > 1
  PROVE  SecondSlot \in Calls /\ pc[SecondSlot] = "idle" /\ SecondSlot # NewSlot
<1>1. NewSlot \in Free
  BY DEF NewSlot
<1>2. Free # {NewSlot}
  <2>1. SUFFICES ASSUME Free = {NewSlot} PROVE FALSE
    OBVIOUS
  <2>2. Cardinality({NewSlot}) = 1
    BY FS_Singleton
  <2> QED BY <2>1, <2>2
<1>3. Free \ {NewSlot} # {}
  BY <1>1, <1>2
<1>4. SecondSlot \in Free \ {NewSlot}
  BY <1>3 DEF SecondSlot
<1> QED BY <1>4 DEF Free

LEMMA DefaultOptionsType == DefaultOptions \in SyncOptions
BY DEF DefaultOptions, SyncOptions, Strategies, Modes, Sources

LEMMA NewCallType ==
  ASSUME TypeOK, NEW opts \in SyncOptions, NEW parent \in Calls \cup {None}
  PROVE  NewCall(opts, parent) \in CallRecord
<1>1. DirtyItems \in SUBSET Items
  BY DEF DirtyItems
<1>2. dirtyIndex \in Nat
  BY DEF TypeOK
<1> QED
  BY <1>1, <1>2, DefaultOptionsType
  DEF NewCall, NoCall, CallRecord, Modes

LEMMA NoCallType == NoCall \in CallRecord
BY DefaultOptionsType DEF NoCall, CallRecord, Modes

LEMMA CanExecuteType == ASSUME TypeOK PROVE CanExecute \in BOOLEAN
BY DEF TypeOK, CanExecute

LEMMA OptionsUpdate ==
  ASSUME NEW opts \in SyncOptions, NEW b \in BOOLEAN
  PROVE  /\ [opts EXCEPT !.awaitAll = b] \in SyncOptions
         /\ [opts EXCEPT !.checkIntegrity = b] \in SyncOptions
BY DEF SyncOptions

(* Updates of the locals of a call.                                        *)
LEMMA CallUpdate ==
  ASSUME NEW r \in CallRecord, NEW inTime \in SUBSET Calls, NEW pending \in SUBSET Items,
         NEW on \in BOOLEAN, NEW mode \in Modes
  PROVE  /\ [r EXCEPT !.inTime = inTime] \in CallRecord
         /\ [r EXCEPT !.pending = pending] \in CallRecord
         /\ [r EXCEPT !.online = on, !.mode = mode, !.pending = pending] \in CallRecord
<1>1. [r EXCEPT !.inTime = inTime] \in CallRecord
  BY DEF CallRecord
<1>2. [r EXCEPT !.pending = pending] \in CallRecord
  BY DEF CallRecord
<1>3. [r EXCEPT !.online = on, !.mode = mode, !.pending = pending] \in CallRecord
  BY DEF CallRecord
<1> QED BY <1>1, <1>2, <1>3

(* What a segment that starts one sync leaves well typed.                  *)
CallsTypeOK ==
  /\ pc' \in [Calls -> PCs]
  /\ executes' \in [Calls -> BOOLEAN]
  /\ call' \in [Calls -> CallRecord]
  /\ syncLock' \in BOOLEAN

LEMMA StartSyncType ==
  ASSUME TypeOK, NEW opts \in SyncOptions, NEW parent \in Calls \cup {None},
         NEW nextPc \in [Calls -> PCs], StartSync(opts, parent, nextPc)
  PROVE  CallsTypeOK
<1>1. NewCall(opts, parent) \in CallRecord
  BY NewCallType
<1>2. CanExecute \in BOOLEAN
  BY CanExecuteType
<1>3. "presave" \in PCs
  BY DEF PCs
<1>4. pc' \in [Calls -> PCs]
  BY <1>3 DEF StartSync
<1>5. executes' \in [Calls -> BOOLEAN]
  BY <1>2 DEF StartSync, TypeOK
<1>6. call' \in [Calls -> CallRecord]
  BY <1>1 DEF StartSync, TypeOK
<1>7. syncLock' \in BOOLEAN
  BY <1>2 DEF StartSync, TypeOK
<1> QED BY <1>4, <1>5, <1>6, <1>7 DEF CallsTypeOK

LEMMA SettlingType ==
  ASSUME TypeOK, NEW S, NEW outcome \in Settled
  PROVE  Settling(S, outcome) \in [Calls -> PCs]
BY DEF TypeOK, Settling, PCs

LEMMA ReturnResolvingInTimeType ==
  ASSUME TypeOK, NEW c PROVE ReturnResolvingInTime(c) \in [Calls -> PCs]
BY SettlingType DEF ReturnResolvingInTime, Settled

LEMMA MoreDirtyOptionsType ==
  ASSUME TypeOK, NEW c \in Calls PROVE MoreDirtyOptions(c) \in SyncOptions
<1>1. call[c] \in CallRecord
  BY DEF TypeOK
<1> QED BY <1>1, DefaultOptionsType DEF MoreDirtyOptions, CallRecord, SyncOptions

LEMMA GotoType ==
  ASSUME TypeOK, NEW c, NEW label \in PCs
  PROVE  [pc EXCEPT ![c] = label] \in [Calls -> PCs]
BY DEF TypeOK

LEMMA AwaitSyncType ==
  ASSUME TypeOK, NEW c \in Calls, NEW opts \in SyncOptions, NEW label \in PCs,
         NEW pcIfLocked \in [Calls -> PCs], AwaitSync(c, opts, label, pcIfLocked)
  PROVE  CallsTypeOK
<1>1. CASE StartSync(opts, c, [pc EXCEPT ![c] = label])
  BY <1>1, StartSyncType, GotoType
<1>2. CASE clientLocked /\ pc' = pcIfLocked /\ UNCHANGED <<executes, call, syncLock>>
  BY <1>2 DEF CallsTypeOK, TypeOK
<1> QED BY <1>1, <1>2 DEF AwaitSync

-----------------------------------------------------------------------------
(* Type correctness                                                        *)

LEMMA InitType == ASSUME Init PROVE TypeOK
<1>1. pc \in [Calls -> PCs]
  BY DEF Init, PCs
<1>2. call \in [Calls -> CallRecord]
  BY NoCallType DEF Init
<1>3. spawnQueue \in Seq([call : Calls, opts : SyncOptions])
  BY DEF Init
<1> QED BY <1>1, <1>2, <1>3 DEF Init, TypeOK

(* What happens outside the calls keeps their types.                       *)
LEMMA OutsideType ==
  ASSUME TypeOK,
         Sync \/ AutoSync \/ LockSyncing \/ UnlockSyncing \/ DatabaseLoaded
           \/ SignIn \/ Edit \/ NewSingletonItems \/ Deinit
  PROVE  TypeOK'
<1> USE DEF TypeOK
<1>1. CASE Sync
  <2>1. PICK opts \in ExternalOptions : StartSync(opts, None, pc)
    BY <1>1 DEF Sync
  <2>2. opts \in SyncOptions
    BY SyncQueueAssumption
  <2>3. CallsTypeOK
    BY <2>1, <2>2, StartSyncType
  <2> QED BY <1>1, <2>3 DEF Sync, CallsTypeOK, queues, world, data
<1>2. CASE AutoSync
  <2>1. CallsTypeOK
    BY <1>2, DefaultOptionsType, StartSyncType DEF AutoSync
  <2> QED BY <1>2, <2>1 DEF AutoSync, CallsTypeOK, queues, world, data
<1>3. CASE LockSyncing
  BY <1>3 DEF LockSyncing, Fault, opStatus, queues, data
<1>4. CASE UnlockSyncing
  BY <1>4 DEF UnlockSyncing, opStatus, queues, data
<1>5. CASE DatabaseLoaded
  BY <1>5 DEF DatabaseLoaded, opStatus, queues, data
<1>6. CASE SignIn
  BY <1>6 DEF SignIn, opStatus, queues, data
<1>7. CASE Edit
  BY <1>7 DEF Edit, opStatus, queues, world
<1>8. CASE NewSingletonItems
  BY <1>8 DEF NewSingletonItems, opStatus, queues, world
<1>9. CASE Deinit
  <2>1. spawnQueue' \in Seq([call : Calls, opts : SyncOptions])
    <3>1. spawnQueue' = <<>>
      BY <1>9 DEF Deinit
    <3> QED BY <3>1
  <2>2. used' \in [requests : Nat, faults : Nat, followUps : Nat]
    BY <1>9 DEF Deinit, Fault
  <2>3. resolveQueue' \subseteq Calls /\ syncing' = FALSE /\ opError' = FALSE /\ dealloced' = TRUE
    BY <1>9 DEF Deinit
  <2> QED BY <1>9, <2>1, <2>2, <2>3 DEF Deinit, data
<1> QED BY <1>1, <1>2, <1>3, <1>4, <1>5, <1>6, <1>7, <1>8, <1>9

(* And so does every segment of a call.                                    *)
LEMMA SegmentType ==
  ASSUME TypeOK, NEW c \in Calls, Segment(c)
  PROVE  TypeOK'
<1> USE DEF TypeOK
<1> DEFINE Entries == [call : Calls, opts : SyncOptions]
<1>1. CASE Defer(c)
  <2>1. pc' \in [Calls -> PCs]
    BY <1>1 DEF Defer, Goto, PCs
  <2>2. resolveQueue' \subseteq Calls
    BY <1>1 DEF Defer
  <2>3. spawnQueue' \in Seq(Entries)
    <3>1. [call[c].opts EXCEPT !.awaitAll = FALSE] \in SyncOptions
      BY OptionsUpdate DEF CallRecord
    <3>2. [call |-> c, opts |-> [call[c].opts EXCEPT !.awaitAll = FALSE]] \in Entries
      BY <3>1
    <3>3. Append(spawnQueue, [call |-> c, opts |-> [call[c].opts EXCEPT !.awaitAll = FALSE]])
            \in Seq(Entries)
      BY <3>2, AppendProperties
    <3> QED BY <1>1, <3>3 DEF Defer
  <2> QED BY <1>1, <2>1, <2>2, <2>3 DEF Defer, opStatus, world, data
<1>2. CASE Begin(c)
  <2>1. pc' \in [Calls -> PCs]
    BY <1>2 DEF Begin, Goto, PCs, InFlight
  <2>2. call' \in [Calls -> CallRecord]
    <3>1. [call[c] EXCEPT !.inTime = resolveQueue] \in CallRecord
      BY CallUpdate DEF Modes
    <3> QED BY <1>2, <3>1 DEF Begin
  <2> QED BY <1>2, <2>1, <2>2 DEF Begin, queues, world, data
<1>3. CASE RunSyncOperation(c)
  <2>1. pc' \in [Calls -> PCs]
    BY <1>3 DEF RunSyncOperation, Goto, PCs, InFlight
  <2>2. PICK mode \in Modes, pending \in SUBSET Items :
          call' = [call EXCEPT ![c].online = online, ![c].mode = mode, ![c].pending = pending]
    <3> DEFINE mode == IF online /\ ~completedDownloadFirst THEN "DownloadFirst"
                                                            ELSE call[c].opts.mode
               pending == IF mode = "Default" THEN call[c].items ELSE {}
    <3>1. mode \in Modes /\ pending \in SUBSET Items
      BY DEF CallRecord, SyncOptions, Modes
    <3>2. call' = [call EXCEPT ![c].online = online, ![c].mode = mode, ![c].pending = pending]
      BY <1>3 DEF RunSyncOperation
    <3> QED BY <3>1, <3>2
  <2>3. call' \in [Calls -> CallRecord]
    <3>1. [call[c] EXCEPT !.online = online, !.mode = mode, !.pending = pending] \in CallRecord
      BY CallUpdate
    <3> QED BY <2>2, <3>1
  <2>4. resolveQueue' \subseteq Calls
    BY <1>3 DEF RunSyncOperation
  <2>5. UNCHANGED <<executes, opStatus, spawnQueue, completedDownloadFirst, world, data, used>>
    BY <1>3 DEF RunSyncOperation
  <2>6. /\ UNCHANGED <<executes, syncLock, syncing, opError, spawnQueue, completedDownloadFirst>>
        /\ UNCHANGED <<clientLocked, databaseLoaded, online, dealloced>>
        /\ UNCHANGED <<itemDirty, dirtyIndex, singletonWork, used>>
    BY <2>5 DEF opStatus, world, data
  <2> QED BY <2>1, <2>3, <2>4, <2>6
<1>4. CASE EncryptionFails(c)
  <2>1. pc' \in [Calls -> PCs]
    BY <1>4 DEF EncryptionFails, Goto, PCs, Settled
  <2>2. used' \in [requests : Nat, faults : Nat, followUps : Nat]
    BY <1>4 DEF EncryptionFails, Fault
  <2>3. resolveQueue' \subseteq Calls
    BY <1>4 DEF EncryptionFails
  <2> QED BY <1>4, <2>1, <2>2, <2>3 DEF EncryptionFails, opStatus, world, data
<1>5. ASSUME NEW page, RoundTrip(c, page)
      PROVE  pc' \in [Calls -> PCs] /\ call' \in [Calls -> CallRecord]
  <2>1. pc' \in [Calls -> PCs]
    BY <1>5 DEF RoundTrip, Goto, PCs, InFlight
  <2>2. call' \in [Calls -> CallRecord]
    <3>1. [call[c] EXCEPT !.pending = @ \ page] \in CallRecord
      <4>1. call[c].pending \ page \in SUBSET Items
        BY DEF CallRecord
      <4> QED BY <4>1, CallUpdate DEF Modes
    <3> QED BY <1>5, <3>1 DEF RoundTrip
  <2> QED BY <2>1, <2>2
<1>6. CASE ResponseSuccess(c)
  <2>1. PICK page \in Pages(c) :
          /\ RoundTrip(c, page)
          /\ itemDirty' = IF dealloced THEN itemDirty ELSE Saved(c, page)
    BY <1>6 DEF ResponseSuccess
  <2>2. itemDirty' \in [Items -> Nat]
    BY <2>1 DEF Saved
  <2> QED BY <1>5, <1>6, <2>1, <2>2 DEF ResponseSuccess, queues, world
<1>7. CASE ResponseError(c)
  <2>1. PICK page \in Pages(c) : RoundTrip(c, page)
    BY <1>7 DEF ResponseError
  <2> QED BY <1>5, <1>7, <2>1 DEF ResponseError, Fault, queues, world, data
<1>8. CASE FinishOperation(c)
  <2>1. pc' \in [Calls -> PCs]
    BY <1>8 DEF FinishOperation, Goto, PCs, Settled
  <2> QED BY <1>8, <2>1 DEF FinishOperation, queues, world, data
<1>9. CASE NotifyUploaded(c)
  <2>1. "observer" \in PCs /\ "again" \in PCs
    BY DEF PCs
  <2>2. CallsTypeOK /\ singletonWork' \in BOOLEAN
    <3>1. CASE singletonWork /\ call[c].mode = "Default" /\ ~dealloced
      <4>1. AwaitSync(c, DefaultOptions, "observer", [pc EXCEPT ![c] = "again"])
        BY <1>9, <3>1 DEF NotifyUploaded
      <4>2. CallsTypeOK
        BY <2>1, <4>1, DefaultOptionsType, GotoType, AwaitSyncType
      <4> QED BY <1>9, <3>1, <4>2 DEF NotifyUploaded
    <3>2. CASE ~(singletonWork /\ call[c].mode = "Default" /\ ~dealloced)
      BY <1>9, <2>1, <3>2 DEF NotifyUploaded, Goto, CallsTypeOK
    <3> QED BY <3>1, <3>2
  <2> QED BY <1>9, <2>2 DEF NotifyUploaded, CallsTypeOK, queues, world
<1>10. CASE DownloadFirstCompleted(c)
  <2>1. pc' \in [Calls -> PCs]
    BY <1>10 DEF DownloadFirstCompleted, Goto, PCs
  <2>2. completedDownloadFirst' \in BOOLEAN
    BY <1>10 DEF DownloadFirstCompleted, CallRecord
  <2> QED BY <1>10, <2>1, <2>2 DEF DownloadFirstCompleted, opStatus, queues, world, data
<1>11. CASE SyncAfterDownloadFirst(c)
  <2>1. [DefaultOptions EXCEPT !.checkIntegrity = TRUE, !.awaitAll = call[c].opts.awaitAll]
          \in SyncOptions
    BY DefaultOptionsType DEF CallRecord, SyncOptions
  <2>2. CallsTypeOK
    BY <1>11, <2>1, ReturnResolvingInTimeType, AwaitSyncType DEF SyncAfterDownloadFirst, PCs
  <2> QED BY <1>11, <2>2 DEF SyncAfterDownloadFirst, CallsTypeOK, queues, world, data
<1>12. CASE SpawnNext(c)
  <2> DEFINE entry == Head(spawnQueue)
  <2>1. entry \in Entries /\ spawnQueue' \in Seq(Entries)
    BY <1>12, HeadTailProperties DEF SpawnNext
  <2>2. entry.call \in Calls /\ entry.opts \in SyncOptions
    BY <2>1
  <2>3. CallsTypeOK
    <3>1. CASE ~SomethingDirty
      <4>1. [pc EXCEPT ![c] = AllDone(c)] \in [Calls -> PCs]
        BY GotoType DEF AllDone, PCs
      <4>2. StartSync(entry.opts, entry.call, [pc EXCEPT ![c] = AllDone(c)])
        BY <1>12, <3>1 DEF SpawnNext
      <4> QED BY <2>2, <4>1, <4>2, StartSyncType
    <3>2. CASE SomethingDirty
      <4>1. /\ pc' = [pc EXCEPT ![NewSlot] = "presave", ![SecondSlot] = "presave",
                                ![c] = "awaiting"]
            /\ executes' = [executes EXCEPT ![NewSlot] = CanExecute, ![SecondSlot] = FALSE]
            /\ call' = [call EXCEPT ![NewSlot] = NewCall(entry.opts, entry.call),
                                    ![SecondSlot] = NewCall(MoreDirtyOptions(c), c)]
            /\ syncLock' = (syncLock \/ CanExecute)
        BY <1>12, <3>2 DEF SpawnNext
      <4>2. NewCall(entry.opts, entry.call) \in CallRecord
        BY <2>2, NewCallType
      <4>3. NewCall(MoreDirtyOptions(c), c) \in CallRecord
        BY MoreDirtyOptionsType, NewCallType
      <4>4. pc' \in [Calls -> PCs]
        BY <4>1 DEF PCs
      <4>5. executes' \in [Calls -> BOOLEAN] /\ syncLock' \in BOOLEAN
        BY <4>1, CanExecuteType
      <4>6. call' \in [Calls -> CallRecord]
        BY <4>1, <4>2, <4>3
      <4> QED BY <4>4, <4>5, <4>6 DEF CallsTypeOK
    <3> QED BY <3>1, <3>2
  <2> QED BY <1>12, <2>1, <2>3 DEF SpawnNext, CallsTypeOK, world, data
<1>13. CASE SpawnNextLocked(c)
  <2>1. spawnQueue' \in Seq(Entries)
    BY <1>13, HeadTailProperties DEF SpawnNextLocked
  <2>2. pc' \in [Calls -> PCs]
    BY <1>13, SettlingType DEF SpawnNextLocked, AllDone, PCs, Settled
  <2> QED BY <1>13, <2>1, <2>2 DEF SpawnNextLocked, opStatus, world, data
<1>14. CASE SyncForResolveQueue(c)
  <2> DEFINE opts == [DefaultOptions EXCEPT !.checkIntegrity = call[c].opts.checkIntegrity]
  <2>1. opts \in SyncOptions
    <3>1. call[c].opts.checkIntegrity \in BOOLEAN
      BY DEF CallRecord, SyncOptions
    <3> QED BY <3>1, DefaultOptionsType, OptionsUpdate
  <2>2. CASE AwaitSync(c, opts, "awaiting", ReturnResolvingInTime(c))
    <3>1. CallsTypeOK
      BY <2>1, <2>2, ReturnResolvingInTimeType, AwaitSyncType DEF PCs
    <3> QED BY <1>14, <3>1 DEF SyncForResolveQueue, CallsTypeOK, queues, world, data
  <2>3. CASE StartSync(opts, None, ReturnResolvingInTime(c))
    <3>1. CallsTypeOK
      BY <2>1, <2>3, ReturnResolvingInTimeType, StartSyncType
    <3> QED BY <1>14, <3>1 DEF SyncForResolveQueue, CallsTypeOK, queues, world, data
  <2> QED BY <1>14, <2>2, <2>3 DEF SyncForResolveQueue
<1>15. CASE SyncForNewDirtyItems(c)
  <2>1. CallsTypeOK
    BY <1>15, MoreDirtyOptionsType, ReturnResolvingInTimeType, AwaitSyncType
    DEF SyncForNewDirtyItems, PCs
  <2> QED BY <1>15, <2>1 DEF SyncForNewDirtyItems, CallsTypeOK, queues, world, data
<1>16. CASE NothingToSyncAgain(c)
  <2>1. pc' \in [Calls -> PCs]
    BY <1>16 DEF NothingToSyncAgain, Goto, AllDone, PCs
  <2> QED BY <1>16, <2>1 DEF NothingToSyncAgain, opStatus, queues, world, data
<1>17. CASE IntegrityInSync(c)
  <2>1. pc' \in [Calls -> PCs]
    BY <1>17 DEF IntegrityInSync, Goto, PCs
  <2> QED BY <1>17, <2>1 DEF IntegrityInSync, opStatus, queues, world, data
<1>18. CASE IntegrityMismatch(c)
  <2>1. [DefaultOptions EXCEPT !.source = "ResolveOutOfSync",
           !.checkIntegrity = call[c].opts.source # "ResolveOutOfSync"] \in SyncOptions
    BY DefaultOptionsType DEF SyncOptions, Sources
  <2>2. "complete" \in PCs /\ "outOfSync" \in PCs
    BY DEF PCs
  <2>3. [pc EXCEPT ![c] = "complete"] \in [Calls -> PCs]
    BY <2>2, GotoType
  <2>4. CallsTypeOK
    BY <1>18, <2>1, <2>2, <2>3, AwaitSyncType DEF IntegrityMismatch
  <2>5. used' \in [requests : Nat, faults : Nat, followUps : Nat]
    BY <1>18 DEF IntegrityMismatch
  <2>6. UNCHANGED <<syncing, opError, queues, completedDownloadFirst, world, data>>
    BY <1>18 DEF IntegrityMismatch
  <2> QED BY <2>4, <2>5, <2>6 DEF CallsTypeOK, queues, world, data
<1>19. CASE Complete(c)
  <2>1. pc' \in [Calls -> PCs]
    BY <1>19, ReturnResolvingInTimeType DEF Complete
  <2> QED BY <1>19, <2>1 DEF Complete, opStatus, queues, world, data
<1>20. CASE ReturnDealloced(c)
  <2>1. pc' \in [Calls -> PCs]
    BY <1>20 DEF ReturnDealloced, Goto, PCs, Settled
  <2> QED BY <1>20, <2>1 DEF ReturnDealloced, opStatus, queues, world, data
<1>21. CASE ThrowDealloced(c)
  <2>1. pc' \in [Calls -> PCs]
    BY <1>21 DEF ThrowDealloced, Goto, PCs, Settled
  <2> QED BY <1>21, <2>1 DEF ThrowDealloced, opStatus, queues, world, data
<1>22. CASE Return(c)
  <2>1. \A p, outcome : Resume(p, outcome) \in [Calls -> PCs]
    BY ReturnResolvingInTimeType DEF Resume, PCs, Settled
  <2>2. pc' \in [Calls -> PCs]
    BY <1>22, <2>1 DEF Return, PCs
  <2>3. call' \in [Calls -> CallRecord] /\ executes' \in [Calls -> BOOLEAN]
    BY <1>22, NoCallType DEF Return
  <2> QED BY <1>22, <2>2, <2>3 DEF Return, opStatus, queues, world, data
<1> QED
  BY <1>1, <1>2, <1>3, <1>4, <1>6, <1>7, <1>8, <1>9, <1>10, <1>11, <1>12, <1>13,
     <1>14, <1>15, <1>16, <1>17, <1>18, <1>19, <1>20, <1>21, <1>22 DEF Segment

(* Every variable of the orchestration keeps its type, in particular the   *)
(* chains of nested and spawned calls only ever name calls, and the options*)
(* handed from one to the next are complete.                               *)
THEOREM SyncQueueTypeCorrect == Spec => []TypeOK
<1>1. Init => TypeOK
  BY InitType
<1>2. TypeOK /\ [Next]_vars => TypeOK'
  <2> SUFFICES ASSUME TypeOK, [Next]_vars PROVE TypeOK'
    OBVIOUS
  <2>1. CASE Sync \/ AutoSync \/ LockSyncing \/ UnlockSyncing \/ DatabaseLoaded
               \/ SignIn \/ Edit \/ NewSingletonItems \/ Deinit
    BY <2>1, OutsideType
  <2>2. CASE \E c \in Calls : Segment(c)
    BY <2>2, SegmentType
  <2>3. CASE UNCHANGED vars
    BY <2>3 DEF vars, opStatus, queues, world, data, TypeOK
  <2> QED BY <2>1, <2>2, <2>3 DEF Next
<1> QED BY <1>1, <1>2, PTL DEF Spec

-----------------------------------------------------------------------------
(***************************************************************************)
(* Mutual exclusion.  AtMostOneOperation is not inductive: the lock is     *)
(* taken when a call is made and the operation begins a presave later.     *)
(* The invariant speaks of the calls that hold the lock from the first to  *)
(* the last of these segments.                                             *)
(***************************************************************************)

Preparing == {"presave"} \cup InFlight

Holding(c) == executes[c] /\ pc[c] \in Preparing

LockInv ==
  /\ \A c \in Calls : pc[c] \in InFlight => executes[c]
  /\ \A c, d \in Calls : Holding(c) /\ Holding(d) => c = d
  /\ \A c \in Calls : Holding(c) => syncLock

LEMMA LockInvImpliesOneOperation == ASSUME LockInv PROVE AtMostOneOperation
BY DEF LockInv, AtMostOneOperation, Holding, Preparing

(* A step after which nobody prepares who did not do so before.            *)
LEMMA NoNewHolder ==
  ASSUME TypeOK, LockInv, UNCHANGED <<executes, syncLock>>,
         \A d \in Calls : \/ pc'[d] = pc[d]
                           \/ pc'[d] \notin Preparing
                           \/ Holding(d)
  PROVE  LockInv'
<1>1. \A d \in Calls : Holding(d)' => Holding(d)
  BY DEF Holding
<1>2. \A d \in Calls : (pc[d] \in InFlight => executes[d])'
  BY DEF LockInv, Holding, Preparing
<1> QED BY <1>1, <1>2 DEF LockInv

(* A new call holds the lock only if nobody did.                           *)
LEMMA StartSyncKeepsLock ==
  ASSUME TypeOK, LockInv, NEW opts, NEW parent, NEW nextPc \in [Calls -> PCs],
         StartSync(opts, parent, nextPc),
         \A d \in Calls : nextPc[d] = pc[d] \/ nextPc[d] \notin Preparing
  PROVE  LockInv'
<1> DEFINE n == NewSlot
<1>1. n \in Calls /\ pc[n] = "idle"
  BY NewSlotIsFree DEF StartSync
<1> HIDE DEF n
<1>2. /\ pc' = [nextPc EXCEPT ![n] = "presave"]
      /\ executes' = [executes EXCEPT ![n] = CanExecute]
      /\ syncLock' = (syncLock \/ CanExecute)
  BY DEF StartSync, n
<1>3. \A d \in Calls : Holding(d)' => Holding(d) \/ (d = n /\ CanExecute)
  BY <1>1, <1>2 DEF Holding, TypeOK
<1>4. CanExecute => \A d \in Calls : ~Holding(d)
  BY DEF CanExecute, LockInv
<1>5. \A d \in Calls : (pc[d] \in InFlight => executes[d])'
  BY <1>1, <1>2 DEF LockInv, TypeOK, Preparing, InFlight
<1>6. \A d, e \in Calls : (Holding(d) /\ Holding(e))' => d = e
  BY <1>3, <1>4 DEF LockInv
<1>7. \A d \in Calls : (Holding(d) => syncLock)'
  BY <1>2, <1>3 DEF LockInv
<1> QED BY <1>5, <1>6, <1>7 DEF LockInv

LEMMA AwaitSyncKeepsLock ==
  ASSUME TypeOK, LockInv, NEW c \in Calls, NEW opts, NEW label \in PCs \ Preparing,
         NEW pcIfLocked \in [Calls -> PCs], AwaitSync(c, opts, label, pcIfLocked),
         \A d \in Calls : pcIfLocked[d] = pc[d] \/ pcIfLocked[d] \notin Preparing
  PROVE  LockInv'
<1>1. CASE StartSync(opts, c, [pc EXCEPT ![c] = label])
  <2>1. [pc EXCEPT ![c] = label] \in [Calls -> PCs]
    BY GotoType
  <2>2. \A d \in Calls : \/ [pc EXCEPT ![c] = label][d] = pc[d]
                          \/ [pc EXCEPT ![c] = label][d] \notin Preparing
    BY DEF TypeOK
  <2> QED BY <1>1, <2>1, <2>2, StartSyncKeepsLock
<1>2. CASE clientLocked /\ pc' = pcIfLocked /\ UNCHANGED <<executes, call, syncLock>>
  BY <1>2, NoNewHolder
<1> QED BY <1>1, <1>2 DEF AwaitSync

LEMMA SettlingPreparesNobody ==
  ASSUME NEW S, NEW outcome \in Settled, NEW d \in Calls
  PROVE  Settling(S, outcome)[d] = pc[d] \/ Settling(S, outcome)[d] \notin Preparing
BY DEF Settling, Settled, Preparing, InFlight

LEMMA ReturningPreparesNobody ==
  ASSUME NEW c, NEW d \in Calls
  PROVE  ReturnResolvingInTime(c)[d] = pc[d] \/ ReturnResolvingInTime(c)[d] \notin Preparing
BY SettlingPreparesNobody DEF ReturnResolvingInTime, Settled

LEMMA GotoKeepsLock ==
  ASSUME TypeOK, LockInv, NEW c \in Calls, NEW label, Goto(c, label),
         UNCHANGED <<executes, syncLock>>, label \notin Preparing \/ Holding(c)
  PROVE  LockInv'
<1>1. \A d \in Calls : pc'[d] = pc[d] \/ pc'[d] \notin Preparing \/ Holding(d)
  BY DEF Goto, TypeOK
<1> QED BY <1>1, NoNewHolder

LEMMA SegmentKeepsLock ==
  ASSUME TypeOK, LockInv, NEW c \in Calls, Segment(c)
  PROVE  LockInv'
<1> USE DEF opStatus
<1>0. ASSUME pc[c] \in InFlight PROVE Holding(c)
  BY <1>0 DEF LockInv, Holding, Preparing
<1>1. CASE Defer(c)
  BY <1>1, GotoKeepsLock DEF Defer, Preparing, InFlight
<1>2. CASE Begin(c)
  BY <1>2, GotoKeepsLock DEF Begin, Holding, Preparing
<1>3. CASE RunSyncOperation(c)
  BY <1>0, <1>3, GotoKeepsLock DEF RunSyncOperation, InFlight
<1>4. CASE EncryptionFails(c)
  BY <1>4, GotoKeepsLock DEF EncryptionFails, Preparing, InFlight
<1>5. CASE ResponseSuccess(c)
  BY <1>0, <1>5, GotoKeepsLock DEF ResponseSuccess, RoundTrip, InFlight
<1>6. CASE ResponseError(c)
  BY <1>0, <1>6, GotoKeepsLock DEF ResponseError, RoundTrip, InFlight
<1>7. CASE FinishOperation(c)
  (* The one holder releases the lock, so nobody holds it any more.        *)
  <2>1. Holding(c) /\ UNCHANGED executes
    BY <1>0, <1>7 DEF FinishOperation, InFlight
  <2>2. pc'[c] \notin Preparing /\ \A d \in Calls \ {c} : pc'[d] = pc[d]
    BY <1>7 DEF FinishOperation, Goto, TypeOK, Preparing, InFlight
  <2>3. \A d \in Calls : ~Holding(d)'
    BY <2>1, <2>2 DEF LockInv, Holding
  <2>4. \A d \in Calls : (pc[d] \in InFlight => executes[d])'
    BY <2>1, <2>2 DEF LockInv, Preparing
  <2> QED BY <2>3, <2>4 DEF LockInv
<1>8. CASE NotifyUploaded(c)
  <2>1. "observer" \in PCs \ Preparing /\ "again" \notin Preparing
    BY DEF PCs, Preparing, InFlight
  <2>2. CASE AwaitSync(c, DefaultOptions, "observer", [pc EXCEPT ![c] = "again"])
    <3>1. [pc EXCEPT ![c] = "again"] \in [Calls -> PCs]
      BY GotoType DEF PCs
    <3>2. \A d \in Calls : \/ [pc EXCEPT ![c] = "again"][d] = pc[d]
                            \/ [pc EXCEPT ![c] = "again"][d] \notin Preparing
      BY <2>1 DEF TypeOK
    <3> QED BY <2>1, <2>2, <3>1, <3>2, AwaitSyncKeepsLock
  <2>3. CASE Goto(c, "again") /\ UNCHANGED <<executes, call, syncLock, singletonWork>>
    BY <2>1, <2>3, GotoKeepsLock
  <2> QED BY <1>8, <2>2, <2>3 DEF NotifyUploaded
<1>9. CASE DownloadFirstCompleted(c)
  BY <1>9, GotoKeepsLock DEF DownloadFirstCompleted, Preparing, InFlight
<1>10. ASSUME NEW opts, AwaitSync(c, opts, "awaiting", ReturnResolvingInTime(c))
       PROVE  LockInv'
  <2>1. "awaiting" \in PCs \ Preparing
    BY DEF PCs, Preparing, InFlight
  <2> QED BY <1>10, <2>1, ReturnResolvingInTimeType, ReturningPreparesNobody, AwaitSyncKeepsLock
<1>11. CASE SyncAfterDownloadFirst(c)
  BY <1>10, <1>11 DEF SyncAfterDownloadFirst
<1>12. CASE SpawnNext(c)
  <2>1. AllDone(c) \in PCs \ Preparing
    BY DEF AllDone, PCs, Preparing, InFlight
  <2>2. CASE ~SomethingDirty
    <3>1. PICK opts, parent : StartSync(opts, parent, [pc EXCEPT ![c] = AllDone(c)])
      BY <1>12, <2>2 DEF SpawnNext
    <3>2. [pc EXCEPT ![c] = AllDone(c)] \in [Calls -> PCs]
      BY <2>1, GotoType
    <3>3. \A d \in Calls : \/ [pc EXCEPT ![c] = AllDone(c)][d] = pc[d]
                            \/ [pc EXCEPT ![c] = AllDone(c)][d] \notin Preparing
      BY <2>1 DEF TypeOK
    <3> QED BY <3>1, <3>2, <3>3, StartSyncKeepsLock
  <2>3. CASE SomethingDirty
    (* Of the two calls made here only the first can get the lock.         *)
    <3> DEFINE n == NewSlot
               s == SecondSlot
    <3>1. /\ n \in Calls /\ pc[n] = "idle" /\ s \in Calls /\ pc[s] = "idle" /\ s # n
          /\ c # n /\ c # s
      <4>1. Free # {} /\ Cardinality(Free) > 1
        <5>1. Cardinality(Free) > 1
          BY <1>12, <2>3 DEF SpawnNext
        <5>2. Cardinality({}) = 0
          BY FS_EmptySet
        <5> QED BY <5>1, <5>2
      <4> QED BY <1>12, <4>1, NewSlotIsFree, SecondSlotIsFree DEF SpawnNext
    <3>2. /\ pc' = [pc EXCEPT ![n] = "presave", ![s] = "presave", ![c] = "awaiting"]
          /\ executes' = [executes EXCEPT ![n] = CanExecute, ![s] = FALSE]
          /\ syncLock' = (syncLock \/ CanExecute)
      BY <1>12, <2>3 DEF SpawnNext
    <3> HIDE DEF n, s
    <3>3. \A d \in Calls : Holding(d)' => Holding(d) \/ (d = n /\ CanExecute)
      BY <3>1, <3>2 DEF Holding, TypeOK, Preparing, InFlight
    <3>4. CanExecute => \A d \in Calls : ~Holding(d)
      BY DEF CanExecute, LockInv
    <3>5. \A d \in Calls : (pc[d] \in InFlight => executes[d])'
      BY <3>1, <3>2 DEF LockInv, TypeOK, InFlight
    <3>6. \A d, e \in Calls : (Holding(d) /\ Holding(e))' => d = e
      BY <3>3, <3>4 DEF LockInv
    <3>7. \A d \in Calls : (Holding(d) => syncLock)'
      BY <3>2, <3>3 DEF LockInv
    <3> QED BY <3>5, <3>6, <3>7 DEF LockInv
  <2> QED BY <2>2, <2>3
<1>13. CASE SpawnNextLocked(c)
  <2>1. \A d \in Calls : pc'[d] = pc[d] \/ pc'[d] \notin Preparing
    <3>1. CASE SomethingDirty
      <4>1. "resolved" \in Settled
        BY DEF Settled
      <4> QED BY <1>13, <3>1, <4>1, SettlingPreparesNobody DEF SpawnNextLocked
    <3>2. CASE ~SomethingDirty
      BY <1>13, <3>2 DEF SpawnNextLocked, TypeOK, AllDone, Preparing, InFlight
    <3> QED BY <3>1, <3>2
  <2> QED BY <1>13, <2>1, NoNewHolder DEF SpawnNextLocked
<1>14. CASE SyncForResolveQueue(c)
  <2>1. ASSUME NEW opts, StartSync(opts, None, ReturnResolvingInTime(c)) PROVE LockInv'
    BY <2>1, ReturnResolvingInTimeType, ReturningPreparesNobody, StartSyncKeepsLock
  <2> QED BY <1>10, <1>14, <2>1 DEF SyncForResolveQueue
<1>15. CASE SyncForNewDirtyItems(c)
  BY <1>10, <1>15 DEF SyncForNewDirtyItems
<1>16. CASE NothingToSyncAgain(c)
  BY <1>16, GotoKeepsLock DEF NothingToSyncAgain, AllDone, Preparing, InFlight
<1>17. CASE IntegrityInSync(c)
  BY <1>17, GotoKeepsLock DEF IntegrityInSync, Preparing, InFlight
<1>18. CASE IntegrityMismatch(c)
  <2>1. "outOfSync" \in PCs \ Preparing /\ "complete" \notin Preparing /\ "complete" \in PCs
    BY DEF PCs, Preparing, InFlight
  <2>2. [pc EXCEPT ![c] = "complete"] \in [Calls -> PCs]
    BY <2>1, GotoType
  <2>3. \A d \in Calls : \/ [pc EXCEPT ![c] = "complete"][d] = pc[d]
                          \/ [pc EXCEPT ![c] = "complete"][d] \notin Preparing
    BY <2>1 DEF TypeOK
  <2>4. PICK opts : AwaitSync(c, opts, "outOfSync", [pc EXCEPT ![c] = "complete"])
    BY <1>18 DEF IntegrityMismatch
  <2> QED BY <2>1, <2>2, <2>3, <2>4, AwaitSyncKeepsLock
<1>19. CASE Complete(c)
  BY <1>19, ReturningPreparesNobody, NoNewHolder DEF Complete
<1>20. CASE ReturnDealloced(c)
  BY <1>20, GotoKeepsLock DEF ReturnDealloced, Preparing, InFlight
<1>21. CASE ThrowDealloced(c)
  BY <1>21, GotoKeepsLock DEF ThrowDealloced, Preparing, InFlight
<1>22. CASE Return(c)
  <2>1. \A p, outcome : \A d \in Calls :
          Resume(p, outcome)[d] = pc[d] \/ Resume(p, outcome)[d] \notin Preparing
    BY ReturningPreparesNobody DEF Resume, TypeOK, Preparing, InFlight
  <2>2. \A d \in Calls : pc'[d] = pc[d] \/ pc'[d] \notin Preparing
    <3>1. PICK resumed \in [Calls -> PCs] :
            /\ pc' = [resumed EXCEPT ![c] = "idle"]
            /\ \A d \in Calls : resumed[d] = pc[d] \/ resumed[d] \notin Preparing
      <4> DEFINE resumed == IF call[c].parent = None THEN pc ELSE Resume(call[c].parent, pc[c])
      <4>1. resumed \in [Calls -> PCs]
        BY ReturnResolvingInTimeType DEF Resume, TypeOK, PCs, Settled
      <4>2. pc' = [resumed EXCEPT ![c] = "idle"]
        BY <1>22 DEF Return
      <4> QED BY <2>1, <4>1, <4>2
    <3> QED BY <3>1 DEF Preparing, InFlight
  <2>3. executes' = [executes EXCEPT ![c] = FALSE] /\ UNCHANGED syncLock /\ pc'[c] = "idle"
    <3>1. \A p, outcome : c \in DOMAIN Resume(p, outcome)
      BY ReturnResolvingInTimeType DEF Resume, TypeOK
    <3>2. pc'[c] = "idle"
      <4>1. CASE call[c].parent = None
        BY <1>22, <4>1 DEF Return, TypeOK
      <4>2. CASE call[c].parent # None
        BY <1>22, <3>1, <4>2 DEF Return
      <4> QED BY <4>1, <4>2
    <3>3. executes' = [executes EXCEPT ![c] = FALSE] /\ UNCHANGED syncLock
      BY <1>22 DEF Return
    <3> QED BY <3>2, <3>3
  <2>4. \A d \in Calls : Holding(d)' => Holding(d)
    BY <2>2, <2>3 DEF Holding, TypeOK, Preparing, InFlight
  <2>5. \A d \in Calls : (pc[d] \in InFlight => executes[d])'
    BY <2>2, <2>3 DEF LockInv, TypeOK, Preparing, InFlight
  <2> QED BY <2>3, <2>4, <2>5 DEF LockInv
<1> QED
  BY <1>1, <1>2, <1>3, <1>4, <1>5, <1>6, <1>7, <1>8, <1>9, <1>11, <1>12, <1>13,
     <1>14, <1>15, <1>16, <1>17, <1>18, <1>19, <1>20, <1>21, <1>22 DEF Segment

LEMMA SyncQueueLock == Spec => []LockInv
<1>1. Init => LockInv
  BY DEF Init, LockInv, Holding, Preparing, InFlight
<1>2. TypeOK /\ LockInv /\ [Next]_vars => LockInv'
  <2> SUFFICES ASSUME TypeOK, LockInv, [Next]_vars PROVE LockInv'
    OBVIOUS
  <2>1. ASSUME UNCHANGED <<pc, executes, syncLock>> PROVE LockInv'
    BY <2>1, NoNewHolder
  <2>2. CASE Sync
    BY <2>2, StartSyncKeepsLock DEF Sync, TypeOK
  <2>3. CASE AutoSync
    BY <2>3, StartSyncKeepsLock DEF AutoSync, TypeOK
  <2>4. CASE LockSyncing \/ UnlockSyncing \/ DatabaseLoaded \/ SignIn \/ Edit
               \/ NewSingletonItems \/ Deinit
    BY <2>1, <2>4 DEF LockSyncing, UnlockSyncing, DatabaseLoaded, SignIn, Edit,
       NewSingletonItems, Deinit, opStatus
  <2>5. CASE \E c \in Calls : Segment(c)
    BY <2>5, SegmentKeepsLock
  <2>6. CASE UNCHANGED vars
    BY <2>1, <2>6 DEF vars, opStatus
  <2> QED BY <2>2, <2>3, <2>4, <2>5, <2>6 DEF Next
<1> QED BY <1>1, <1>2, SyncQueueTypeCorrect, PTL DEF Spec

(* However calls overlap, nest, spawn each other and fail, no two of them  *)
(* are between setDidBegin and the end of their operation.                 *)
THEOREM SyncQueueMutualExclusion == Spec => []AtMostOneOperation
<1>1. LockInv => AtMostOneOperation
  BY LockInvImpliesOneOperation
<1> QED BY <1>1, SyncQueueLock, PTL

-----------------------------------------------------------------------------
(***************************************************************************)
(* After deinit.  A response that comes in clears the error of opStatus    *)
(* unless the receiver finds the service gone, which the step alone cannot *)
(* tell: it takes that deinit reset the error and nothing sets it again.   *)
(***************************************************************************)

NoErrorOnceDealloced == dealloced => ~opError

LEMMA GotoRunsNobody ==
  ASSUME TypeOK, NEW c \in Calls, NEW label, Goto(c, label), label # "run"
  PROVE  \A d \in Calls : pc[d] # "run" => pc'[d] # "run"
BY DEF TypeOK, Goto

LEMMA ReturningRunsNobody ==
  ASSUME NEW c, NEW d \in Calls, pc[d] # "run"
  PROVE  ReturnResolvingInTime(c)[d] # "run"
BY DEF ReturnResolvingInTime, Settling

LEMMA StartSyncRunsNobody ==
  ASSUME NEW opts, NEW parent, NEW nextPc \in [Calls -> PCs], StartSync(opts, parent, nextPc),
         \A d \in Calls : pc[d] # "run" => nextPc[d] # "run"
  PROVE  \A d \in Calls : pc[d] # "run" => pc'[d] # "run"
BY DEF StartSync

LEMMA SegmentQuietOnceDealloced ==
  ASSUME TypeOK, NoErrorOnceDealloced, NEW c \in Calls, Segment(c)
  PROVE  QuietOnceDealloced /\ NoErrorOnceDealloced'
<1> SUFFICES ASSUME dealloced PROVE QuietOnceDealloced /\ NoErrorOnceDealloced'
  <2>1. CASE ~dealloced
    <3>1. UNCHANGED dealloced
      BY DEF Segment, Defer, Begin, RunSyncOperation, EncryptionFails, ResponseSuccess,
         ResponseError, FinishOperation, NotifyUploaded, DownloadFirstCompleted,
         SyncAfterDownloadFirst, SpawnNext, SpawnNextLocked, SyncForResolveQueue,
         SyncForNewDirtyItems, NothingToSyncAgain, IntegrityInSync, IntegrityMismatch,
         Complete, ReturnDealloced, ThrowDealloced, Return, world
    <3> QED BY <2>1, <3>1 DEF QuietOnceDealloced, NoErrorOnceDealloced
  <2> QED BY <2>1
<1> USE DEF NoErrorOnceDealloced, QuietOnceDealloced, opStatus, world, data
<1>1. CASE Defer(c)
  BY <1>1, GotoRunsNobody DEF Defer
<1>2. CASE ResponseSuccess(c)
  BY <1>2 DEF ResponseSuccess, RoundTrip, Goto, TypeOK
<1>3. CASE ResponseError(c)
  <2>1. PICK page \in Pages(c) : RoundTrip(c, page)
    BY <1>3 DEF ResponseError
  <2>2. pc[c] = "run" /\ \A d \in Calls \ {c} : pc'[d] = pc[d]
    BY <2>1 DEF RoundTrip, Goto, TypeOK
  <2>3. opError = FALSE /\ opError' = FALSE
    BY <1>3 DEF ResponseError, TypeOK
  <2> QED BY <1>3, <2>2, <2>3 DEF ResponseError
<1>4. CASE NotifyUploaded(c)
  <2>1. Goto(c, "again")
    BY <1>4 DEF NotifyUploaded
  <2> QED BY <1>4, <2>1, GotoRunsNobody DEF NotifyUploaded
<1>5. CASE IntegrityInSync(c)
  BY <1>5, GotoRunsNobody DEF IntegrityInSync
<1>6. CASE Complete(c)
  BY <1>6, ReturningRunsNobody DEF Complete
<1>7. CASE ReturnDealloced(c)
  BY <1>7, GotoRunsNobody DEF ReturnDealloced
<1>8. CASE ThrowDealloced(c)
  BY <1>8, GotoRunsNobody DEF ThrowDealloced
<1>10. CASE DownloadFirstCompleted(c)
  BY <1>10, GotoRunsNobody DEF DownloadFirstCompleted
<1>9. CASE Return(c)
  <2>1. \A p, outcome : \A d \in Calls : pc[d] # "run" => Resume(p, outcome)[d] # "run"
    BY ReturningRunsNobody DEF Resume, TypeOK
  <2>2. \A d \in Calls : pc[d] # "run" => pc'[d] # "run"
    BY <1>9, <2>1, ReturnResolvingInTimeType DEF Return, Resume, TypeOK
  <2> QED BY <1>9, <2>2 DEF Return
<1> QED
  (* The other segments look at dealloced before they do anything.         *)
  BY <1>1, <1>2, <1>3, <1>4, <1>5, <1>6, <1>7, <1>8, <1>9, <1>10
  DEF Segment, Begin, RunSyncOperation, EncryptionFails, FinishOperation,
      SyncAfterDownloadFirst, SpawnNext, SpawnNextLocked,
      SyncForResolveQueue, SyncForNewDirtyItems, NothingToSyncAgain, IntegrityMismatch

(* A destroyed service changes nothing any more, whatever was under way.   *)
THEOREM SyncQueueNothingAfterDeinit == Spec => NothingAfterDeinit
<1>1. Init => NoErrorOnceDealloced
  BY DEF Init, NoErrorOnceDealloced
<1>2. TypeOK /\ NoErrorOnceDealloced /\ [Next]_vars
        => NoErrorOnceDealloced' /\ [QuietOnceDealloced]_vars
  <2> SUFFICES ASSUME TypeOK, NoErrorOnceDealloced, Next
               PROVE  NoErrorOnceDealloced' /\ QuietOnceDealloced
    BY DEF vars, opStatus, world, NoErrorOnceDealloced
  <2>1. CASE \E c \in Calls : Segment(c)
    BY <2>1, SegmentQuietOnceDealloced
  <2>2. CASE UnlockSyncing
    BY <2>2 DEF UnlockSyncing, NoErrorOnceDealloced, QuietOnceDealloced
  <2>3. CASE Sync \/ AutoSync \/ LockSyncing \/ DatabaseLoaded \/ SignIn \/ Edit
               \/ NewSingletonItems \/ Deinit
    BY <2>3 DEF Sync, AutoSync, LockSyncing, DatabaseLoaded, SignIn, Edit,
       NewSingletonItems, Deinit, NoErrorOnceDealloced, QuietOnceDealloced, world
  <2> QED BY <2>1, <2>2, <2>3 DEF Next
<1> QED BY <1>1, <1>2, SyncQueueTypeCorrect, PTL DEF Spec, NothingAfterDeinit

-----------------------------------------------------------------------------
(***************************************************************************)
(* Queued requests.  While no fault occurred, a call that waits in a queue *)
(* has exactly one holder: a queue, the in-time list of one call, or one   *)
(* spawned sync.  A segment hands requests from holder to holder, often    *)
(* while it settles some and starts a new call, so what follows speaks of  *)
(* any p, cl, rq and sq in the place of pc, call, resolveQueue and         *)
(* spawnQueue: such a segment is taken apart into a few smaller changes.   *)
(***************************************************************************)

Idling == {"idle", "queued"} \cup Settled

Waiting == {"queued", "observer", "outOfSync", "awaiting"}

Entries == [call : Calls, opts : SyncOptions]

(* A call that will settle the requests in its in-time list.               *)
Answers(p, cl, c, b) == p[c] \notin Idling /\ b \in cl[c].inTime

(* A call whose settlement wakes b.                                        *)
Wakes(p, cl, c, b) == p[c] # "idle" /\ cl[c].parent = b

Spawning(sq, b) == \E n \in DOMAIN sq : sq[n].call = b

StateType(p, cl, rq, sq) ==
  /\ p \in [Calls -> PCs] /\ cl \in [Calls -> CallRecord]
  /\ rq \subseteq Calls /\ sq \in Seq(Entries)

(* Only queued calls are in the queues and lists, and only calls that wait *)
(* are woken.                                                              *)
HeldAreQueued(p, cl, rq, sq) ==
  /\ \A b \in rq : p[b] = "queued"
  /\ \A b \in Calls : Spawning(sq, b) => p[b] = "queued"
  /\ \A b, c \in Calls : Answers(p, cl, c, b) => p[b] = "queued"
  /\ \A b, c \in Calls : Wakes(p, cl, c, b) => p[b] \in Waiting
  /\ \A c \in Calls : p[c] = "presave" => cl[c].inTime = {}

(* Nothing is in two of them, apart from the time in which a call that     *)
(* begins has not yet taken its list off the queue.                        *)
HeldOnce(p, cl, rq, sq) ==
  /\ \A m, n \in DOMAIN sq : sq[m].call = sq[n].call => m = n
  /\ \A b, c, d \in Calls : Answers(p, cl, c, b) /\ Answers(p, cl, d, b) => c = d
  /\ \A b, c, d \in Calls : Wakes(p, cl, c, b) /\ Wakes(p, cl, d, b) => c = d
  /\ \A b \in rq : \A c \in Calls : Answers(p, cl, c, b) => p[c] = "begin"
  /\ \A b \in Calls : Spawning(sq, b) =>
       b \notin rq /\ \A c \in Calls : ~Answers(p, cl, c, b) /\ ~Wakes(p, cl, c, b)
  /\ \A b, c \in Calls : Wakes(p, cl, c, b) =>
       b \notin rq /\ \A d \in Calls : ~Answers(p, cl, d, b)

Places(p, cl, rq, sq) == HeldAreQueued(p, cl, rq, sq) /\ HeldOnce(p, cl, rq, sq)

HeldIn(p, cl, rq, sq, b) ==
  \/ b \in rq
  \/ Spawning(sq, b)
  \/ \E c \in Calls : Answers(p, cl, c, b) \/ Wakes(p, cl, c, b)

(* Every queued call has a holder, but for those in X.                     *)
HeldBut(X, p, cl, rq, sq) ==
  \A b \in Calls \ X : p[b] = "queued" => HeldIn(p, cl, rq, sq, b)

NoFaultYet ==
  /\ ~dealloced /\ ~clientLocked /\ ~opError
  /\ \A c \in Calls : pc[c] # "rejected"

HoldInv ==
  used.faults = 0 =>
    /\ NoFaultYet
    /\ Places(pc, call, resolveQueue, spawnQueue)
    /\ HeldBut({}, pc, call, resolveQueue, spawnQueue)

(* A call that is under way goes on.                                       *)
LEMMA MoveHolds ==
  ASSUME NEW p, NEW cl, NEW rq, NEW sq, StateType(p, cl, rq, sq), Places(p, cl, rq, sq),
         NEW X, HeldBut(X, p, cl, rq, sq),
         NEW c \in Calls, p[c] \notin Idling \cup {"presave", "begin"},
         NEW label \in PCs \ (Idling \cup {"presave", "begin"}),
         label \in Waiting \/ \A d \in Calls : ~Wakes(p, cl, d, c)
  PROVE  /\ Places([p EXCEPT ![c] = label], cl, rq, sq)
         /\ HeldBut(X, [p EXCEPT ![c] = label], cl, rq, sq)
<1> DEFINE q == [p EXCEPT ![c] = label]
<1>0. q \in [Calls -> PCs] /\ q[c] = label /\ \A d \in Calls \ {c} : q[d] = p[d]
  BY DEF StateType
<1> HIDE DEF q
<1>1. \A b, d \in Calls : Answers(q, cl, d, b) <=> Answers(p, cl, d, b)
  BY <1>0 DEF Answers, Idling
<1>2. \A b, d \in Calls : Wakes(q, cl, d, b) <=> Wakes(p, cl, d, b)
  BY <1>0 DEF Wakes, Idling
<1>3. HeldAreQueued(q, cl, rq, sq)
  <2>1. \A b \in Calls : p[b] = "queued" => q[b] = "queued"
    BY <1>0 DEF Idling
  <2>2. \A b, d \in Calls : Wakes(q, cl, d, b) => q[b] \in Waiting
    BY <1>0, <1>2 DEF Places, HeldAreQueued
  <2>3. \A d \in Calls : q[d] = "presave" => cl[d].inTime = {}
    BY <1>0 DEF Places, HeldAreQueued
  <2> QED BY <1>1, <2>1, <2>2, <2>3 DEF Places, HeldAreQueued, StateType
<1>4. HeldOnce(q, cl, rq, sq)
  <2>1. \A b \in rq : \A d \in Calls : Answers(q, cl, d, b) => q[d] = "begin"
    BY <1>0, <1>1 DEF Places, HeldOnce, StateType
  <2> QED BY <1>1, <1>2, <2>1 DEF Places, HeldOnce
<1>5. HeldBut(X, q, cl, rq, sq)
  BY <1>0, <1>1, <1>2 DEF HeldBut, HeldIn, Idling
<1> QED BY <1>3, <1>4, <1>5 DEF q, Places

Settle(p, S) == [d \in Calls |-> IF d \in S THEN "resolved" ELSE p[d]]

(* A call settles, and with it the requests it answers.                    *)
LEMMA SettleHolds ==
  ASSUME NEW p, NEW cl, NEW rq, NEW sq, StateType(p, cl, rq, sq), Places(p, cl, rq, sq),
         NEW X, HeldBut(X, p, cl, rq, sq),
         NEW c \in Calls, p[c] \notin Idling \cup {"presave", "begin"},
         \A d \in Calls : ~Wakes(p, cl, d, c)
  PROVE  /\ Places(Settle(p, cl[c].inTime \cup {c}), cl, rq, sq)
         /\ HeldBut(X, Settle(p, cl[c].inTime \cup {c}), cl, rq, sq)
<1> DEFINE q == Settle(p, cl[c].inTime \cup {c})
<1>0. /\ q[c] = "resolved"
      /\ \A d \in cl[c].inTime : d \in Calls /\ p[d] = "queued" /\ q[d] = "resolved"
      /\ \A d \in Calls : d \notin cl[c].inTime \cup {c} => q[d] = p[d]
  <2>1. cl[c].inTime \subseteq Calls
    BY DEF StateType, CallRecord
  <2>2. \A d \in cl[c].inTime : p[d] = "queued"
    BY <2>1 DEF Places, HeldAreQueued, Answers
  <2> QED BY <2>1, <2>2 DEF Settle
<1>a. c \notin cl[c].inTime
  BY <1>0 DEF Idling
<1> HIDE DEF q
<1>1. \A b, d \in Calls : Answers(q, cl, d, b) <=> (Answers(p, cl, d, b) /\ d # c)
  BY <1>0 DEF Answers, Idling, Settled
<1>2. \A b, d \in Calls : Wakes(q, cl, d, b) <=> Wakes(p, cl, d, b)
  BY <1>0 DEF Wakes, Idling
<1>b. \A b \in cl[c].inTime : /\ Answers(p, cl, c, b) /\ b \notin rq /\ ~Spawning(sq, b)
                              /\ \A d \in Calls : ~Wakes(p, cl, d, b)
  <2>1. \A b \in cl[c].inTime : Answers(p, cl, c, b)
    BY DEF Answers
  <2> QED BY <1>0, <2>1 DEF Places, HeldOnce
<1>3. HeldAreQueued(q, cl, rq, sq)
  <2>1. \A b \in rq : q[b] = "queued"
    BY <1>0, <1>b DEF Places, HeldAreQueued, StateType, Idling
  <2>2. \A b \in Calls : Spawning(sq, b) => q[b] = "queued"
    BY <1>0, <1>b DEF Places, HeldAreQueued, Idling
  <2>3. \A b, d \in Calls : Answers(q, cl, d, b) => q[b] = "queued"
    <3> SUFFICES ASSUME NEW b \in Calls, NEW d \in Calls, Answers(p, cl, d, b), d # c
                 PROVE  q[b] = "queued"
      BY <1>1
    <3>1. p[b] = "queued"
      BY DEF Places, HeldAreQueued
    <3>2. b \notin cl[c].inTime
      BY <1>b DEF Places, HeldOnce
    <3> QED BY <1>0, <3>1, <3>2 DEF Idling
  <2>4. \A b, d \in Calls : Wakes(q, cl, d, b) => q[b] \in Waiting
    <3> SUFFICES ASSUME NEW b \in Calls, NEW d \in Calls, Wakes(p, cl, d, b)
                 PROVE  q[b] \in Waiting
      BY <1>2
    <3>1. p[b] \in Waiting /\ b # c
      BY DEF Places, HeldAreQueued
    <3> QED BY <1>0, <1>b, <3>1
  <2>5. \A d \in Calls : q[d] = "presave" => cl[d].inTime = {}
    BY <1>0 DEF Places, HeldAreQueued
  <2> QED BY <2>1, <2>2, <2>3, <2>4, <2>5 DEF HeldAreQueued
<1>4. HeldOnce(q, cl, rq, sq)
  <2>1. \A b \in rq : \A d \in Calls : Answers(q, cl, d, b) => q[d] = "begin"
    <3> SUFFICES ASSUME NEW b \in rq, NEW d \in Calls, Answers(p, cl, d, b), d # c
                 PROVE  q[d] = "begin"
      BY <1>1 DEF StateType
    <3>1. p[d] = "begin"
      BY DEF Places, HeldOnce
    <3> QED BY <1>0, <3>1
  <2> QED BY <1>1, <1>2, <2>1 DEF Places, HeldOnce
<1>5. HeldBut(X, q, cl, rq, sq)
  <2> SUFFICES ASSUME NEW b \in Calls \ X, q[b] = "queued" PROVE HeldIn(q, cl, rq, sq, b)
    BY DEF HeldBut
  <2>1. p[b] = "queued" /\ b \notin cl[c].inTime
    BY <1>0
  <2>2. HeldIn(p, cl, rq, sq, b)
    BY <2>1 DEF HeldBut
  <2>3. ~Answers(p, cl, c, b)
    BY <2>1 DEF Answers
  <2> QED BY <1>1, <1>2, <2>2, <2>3 DEF HeldIn
<1> QED BY <1>3, <1>4, <1>5 DEF q, Places

(* A call that is nobody's child any more leaves its slot.                 *)
LEMMA IdleHolds ==
  ASSUME NEW p, NEW cl, NEW rq, NEW sq, StateType(p, cl, rq, sq), Places(p, cl, rq, sq),
         HeldBut({}, p, cl, rq, sq),
         NEW c \in Calls, p[c] \in Settled
  PROVE  /\ Places([p EXCEPT ![c] = "idle"], [cl EXCEPT ![c] = NoCall], rq, sq)
         /\ HeldBut({cl[c].parent}, [p EXCEPT ![c] = "idle"], [cl EXCEPT ![c] = NoCall], rq, sq)
         /\ \A d \in Calls : cl[c].parent \in Calls =>
              ~Wakes([p EXCEPT ![c] = "idle"], [cl EXCEPT ![c] = NoCall], d, cl[c].parent)
<1> DEFINE q == [p EXCEPT ![c] = "idle"]
           k == [cl EXCEPT ![c] = NoCall]
<1>0. q[c] = "idle" /\ \A d \in Calls \ {c} : q[d] = p[d] /\ k[d] = cl[d]
  BY DEF StateType
<1> HIDE DEF q, k
<1>1. \A b, d \in Calls : Answers(q, k, d, b) <=> Answers(p, cl, d, b)
  BY <1>0 DEF Answers, Idling
<1>2. \A b, d \in Calls : Wakes(q, k, d, b) <=> (Wakes(p, cl, d, b) /\ d # c)
  BY <1>0 DEF Wakes
<1>3. HeldAreQueued(q, k, rq, sq)
  <2>1. \A b \in Calls : p[b] \in Waiting => q[b] = p[b]
    BY <1>0 DEF Waiting, Settled
  <2>2. \A d \in Calls : q[d] = "presave" => k[d].inTime = {}
    BY <1>0 DEF Places, HeldAreQueued
  <2> QED BY <1>1, <1>2, <2>1, <2>2 DEF Places, HeldAreQueued, StateType, Waiting
<1>4. HeldOnce(q, k, rq, sq)
  <2>1. \A b \in rq : \A d \in Calls : Answers(q, k, d, b) => q[d] = "begin"
    BY <1>0, <1>1 DEF Places, HeldOnce, StateType, Answers, Idling
  <2> QED BY <1>1, <1>2, <2>1 DEF Places, HeldOnce
<1>5. HeldBut({cl[c].parent}, q, k, rq, sq)
  <2> SUFFICES ASSUME NEW b \in Calls \ {cl[c].parent}, q[b] = "queued" PROVE HeldIn(q, k, rq, sq, b)
    BY DEF HeldBut
  <2>1. HeldIn(p, cl, rq, sq, b)
    BY <1>0 DEF HeldBut
  <2>2. ~Wakes(p, cl, c, b)
    BY DEF Wakes
  <2> QED BY <1>1, <1>2, <2>1, <2>2 DEF HeldIn
<1>6. \A d \in Calls : cl[c].parent \in Calls => ~Wakes(q, k, d, cl[c].parent)
  <2> SUFFICES ASSUME NEW d \in Calls, cl[c].parent \in Calls, Wakes(p, cl, d, cl[c].parent), d # c
               PROVE  FALSE
    BY <1>2
  <2>1. Wakes(p, cl, c, cl[c].parent)
    BY DEF Wakes, Settled
  <2> QED BY <2>1 DEF Places, HeldOnce
<1> QED BY <1>3, <1>4, <1>5, <1>6 DEF q, k, Places

(* Nothing but a settled promise holds b.                                  *)
Unheld(p, cl, rq, sq, b) ==
  /\ b \notin rq /\ ~Spawning(sq, b)
  /\ \A d \in Calls : ~Answers(p, cl, d, b) /\ ~Wakes(p, cl, d, b)

(* A spawned sync has settled: the call it was for resolves.               *)
LEMMA WokenHolds ==
  ASSUME NEW p, NEW cl, NEW rq, NEW sq, StateType(p, cl, rq, sq), Places(p, cl, rq, sq),
         NEW b \in Calls, HeldBut({b}, p, cl, rq, sq), p[b] = "queued", Unheld(p, cl, rq, sq, b)
  PROVE  /\ Places([p EXCEPT ![b] = "resolved"], cl, rq, sq)
         /\ HeldBut({}, [p EXCEPT ![b] = "resolved"], cl, rq, sq)
<1> DEFINE q == [p EXCEPT ![b] = "resolved"]
<1>0. q[b] = "resolved" /\ \A d \in Calls \ {b} : q[d] = p[d]
  BY DEF StateType
<1> HIDE DEF q
<1>1. \A e, d \in Calls : Answers(q, cl, d, e) <=> Answers(p, cl, d, e)
  BY <1>0 DEF Answers, Idling, Settled
<1>2. \A e, d \in Calls : Wakes(q, cl, d, e) <=> Wakes(p, cl, d, e)
  BY <1>0 DEF Wakes
<1>3. HeldAreQueued(q, cl, rq, sq)
  <2>1. \A d \in Calls : q[d] = "presave" => cl[d].inTime = {}
    BY <1>0 DEF Places, HeldAreQueued
  <2>2. \A e \in rq : q[e] = "queued"
    BY <1>0 DEF Places, HeldAreQueued, StateType, Unheld
  <2>3. \A e \in Calls : Spawning(sq, e) => q[e] = "queued"
    BY <1>0 DEF Places, HeldAreQueued, Unheld
  <2>4. \A e, d \in Calls : Answers(q, cl, d, e) => q[e] = "queued"
    BY <1>0, <1>1 DEF Places, HeldAreQueued, Unheld
  <2>5. \A e, d \in Calls : Wakes(q, cl, d, e) => q[e] \in Waiting
    BY <1>0, <1>2 DEF Places, HeldAreQueued, Unheld
  <2> QED BY <2>1, <2>2, <2>3, <2>4, <2>5 DEF HeldAreQueued
<1>4. HeldOnce(q, cl, rq, sq)
  <2>1. \A e \in rq : \A d \in Calls : Answers(q, cl, d, e) => q[d] = "begin"
    BY <1>0, <1>1 DEF Places, HeldOnce, StateType, Answers, Idling
  <2> QED BY <1>1, <1>2, <2>1 DEF Places, HeldOnce
<1>5. HeldBut({}, q, cl, rq, sq)
  BY <1>0, <1>1, <1>2 DEF HeldBut, HeldIn
<1> QED BY <1>3, <1>4, <1>5 DEF q, Places

(* A new call, made for one that waits for nothing else, or for nobody.    *)
LEMMA NewHolds ==
  ASSUME NEW p, NEW cl, NEW rq, NEW sq, StateType(p, cl, rq, sq), Places(p, cl, rq, sq),
         NEW parent \in Calls \cup {None}, HeldBut({parent}, p, cl, rq, sq),
         NEW n \in Calls, p[n] = "idle", NEW opts,
         parent \in Calls => /\ p[parent] \in Waiting /\ \A d \in Calls : ~Wakes(p, cl, d, parent)
                             /\ p[parent] = "queued" => Unheld(p, cl, rq, sq, parent)
  PROVE  /\ Places([p EXCEPT ![n] = "presave"], [cl EXCEPT ![n] = NewCall(opts, parent)], rq, sq)
         /\ HeldBut({}, [p EXCEPT ![n] = "presave"], [cl EXCEPT ![n] = NewCall(opts, parent)], rq, sq)
<1> DEFINE q == [p EXCEPT ![n] = "presave"]
           k == [cl EXCEPT ![n] = NewCall(opts, parent)]
<1>0. /\ q[n] = "presave" /\ k[n].inTime = {} /\ k[n].parent = parent
      /\ \A d \in Calls \ {n} : q[d] = p[d] /\ k[d] = cl[d]
  <2>1. NewCall(opts, parent).inTime = {} /\ NewCall(opts, parent).parent = parent
    BY DEF NewCall, NoCall
  <2> QED BY <2>1 DEF StateType
<1> HIDE DEF q, k
<1>1. \A b, d \in Calls : Answers(q, k, d, b) <=> Answers(p, cl, d, b)
  BY <1>0 DEF Answers, Idling
<1>2. \A b, d \in Calls : Wakes(q, k, d, b) <=> (Wakes(p, cl, d, b) \/ (d = n /\ b = parent))
  BY <1>0 DEF Wakes
<1>a. parent \in Calls => parent \notin rq /\ ~Spawning(sq, parent) /\ \A d \in Calls : ~Answers(p, cl, d, parent)
  <2> SUFFICES ASSUME parent \in Calls, p[parent] # "queued"
               PROVE  parent \notin rq /\ ~Spawning(sq, parent) /\ \A d \in Calls : ~Answers(p, cl, d, parent)
    BY DEF Unheld
  <2> QED BY DEF Places, HeldAreQueued
<1>3. HeldAreQueued(q, k, rq, sq)
  <2>0. \A b \in Calls : p[b] \in Waiting => q[b] = p[b]
    BY <1>0 DEF Waiting
  <2>1. \A b \in rq : q[b] = "queued"
    BY <2>0 DEF Places, HeldAreQueued, StateType, Waiting
  <2>2. \A b \in Calls : Spawning(sq, b) => q[b] = "queued"
    BY <2>0 DEF Places, HeldAreQueued, Waiting
  <2>3. \A b, d \in Calls : Answers(q, k, d, b) => q[b] = "queued"
    BY <1>1, <2>0 DEF Places, HeldAreQueued, Waiting
  <2>4. \A b, d \in Calls : Wakes(q, k, d, b) => q[b] \in Waiting
    BY <1>2, <2>0 DEF Places, HeldAreQueued
  <2>5. \A d \in Calls : q[d] = "presave" => k[d].inTime = {}
    BY <1>0 DEF Places, HeldAreQueued
  <2> QED BY <2>1, <2>2, <2>3, <2>4, <2>5 DEF HeldAreQueued
<1>4. HeldOnce(q, k, rq, sq)
  <2>1. \A b \in rq : \A d \in Calls : Answers(q, k, d, b) => q[d] = "begin"
    BY <1>0, <1>1 DEF Places, HeldOnce, StateType, Answers, Idling
  <2>2. \A m, i \in DOMAIN sq : sq[m].call = sq[i].call => m = i
    BY DEF Places, HeldOnce
  <2>3. \A b, c, d \in Calls : Answers(q, k, c, b) /\ Answers(q, k, d, b) => c = d
    BY <1>1 DEF Places, HeldOnce
  <2>4. \A b, c, d \in Calls : Wakes(q, k, c, b) /\ Wakes(q, k, d, b) => c = d
    BY <1>2 DEF Places, HeldOnce
  <2>5. \A b \in Calls : Spawning(sq, b) =>
          b \notin rq /\ \A c \in Calls : ~Answers(q, k, c, b) /\ ~Wakes(q, k, c, b)
    BY <1>1, <1>2, <1>a DEF Places, HeldOnce
  <2>6. \A b, c \in Calls : Wakes(q, k, c, b) => b \notin rq /\ \A d \in Calls : ~Answers(q, k, d, b)
    BY <1>1, <1>2, <1>a DEF Places, HeldOnce
  <2> QED BY <2>1, <2>2, <2>3, <2>4, <2>5, <2>6 DEF HeldOnce
<1>5. HeldBut({}, q, k, rq, sq)
  <2> SUFFICES ASSUME NEW b \in Calls, q[b] = "queued" PROVE HeldIn(q, k, rq, sq, b)
    BY DEF HeldBut
  <2>1. CASE b = parent
    BY <1>2, <2>1 DEF HeldIn
  <2>2. CASE b # parent
    <3>1. HeldIn(p, cl, rq, sq, b)
      BY <1>0, <2>2 DEF HeldBut
    <3> QED BY <1>1, <1>2, <3>1 DEF HeldIn
  <2> QED BY <2>1, <2>2
<1> QED BY <1>3, <1>4, <1>5 DEF q, k, Places

(* The first entry of the spawn queue is taken off it.                     *)
LEMMA PopHolds ==
  ASSUME NEW p, NEW cl, NEW rq, NEW sq, StateType(p, cl, rq, sq), Places(p, cl, rq, sq),
         HeldBut({}, p, cl, rq, sq), sq # <<>>
  PROVE  /\ Tail(sq) \in Seq(Entries) /\ Head(sq) \in Entries
         /\ p[Head(sq).call] = "queued"
         /\ Spawning(sq, Head(sq).call)
         /\ Places(p, cl, rq, Tail(sq))
         /\ HeldBut({Head(sq).call}, p, cl, rq, Tail(sq))
         /\ Unheld(p, cl, rq, Tail(sq), Head(sq).call)
<1>1. /\ Tail(sq) \in Seq(Entries) /\ Head(sq) \in Entries
      /\ Len(Tail(sq)) = Len(sq) - 1 /\ \A i \in 1..Len(Tail(sq)) : Tail(sq)[i] = sq[i + 1]
      /\ Head(sq) = sq[1] /\ Len(sq) \in Nat /\ Len(sq) > 0
  BY HeadTailProperties DEF StateType
<1> DEFINE t == Tail(sq)
           h == Head(sq)
<1>2. /\ DOMAIN sq = 1..Len(sq) /\ DOMAIN t = 1..(Len(sq) - 1)
      /\ \A i \in DOMAIN t : t[i] = sq[i + 1] /\ i + 1 \in DOMAIN sq /\ i + 1 # 1
      /\ 1 \in DOMAIN sq /\ h = sq[1] /\ h.call \in Calls
  BY <1>1 DEF StateType, Entries
<1>3. \A m, n \in DOMAIN sq : sq[m].call = sq[n].call => m = n
  BY DEF Places, HeldOnce
<1> HIDE DEF t, h
<1>4. \A b \in Calls : Spawning(t, b) => Spawning(sq, b) /\ b # h.call
  BY <1>2, <1>3 DEF Spawning
<1>5. Spawning(sq, h.call)
  BY <1>2 DEF Spawning
<1>6. \A m, n \in DOMAIN t : t[m].call = t[n].call => m = n
  <2> SUFFICES ASSUME NEW m \in DOMAIN t, NEW n \in DOMAIN t, t[m].call = t[n].call PROVE m = n
    OBVIOUS
  <2>1. m + 1 = n + 1
    BY <1>2, <1>3
  <2>2. m \in Int /\ n \in Int
    BY <1>1, <1>2
  <2> QED BY <2>1, <2>2
<1>7. \A b \in Calls : Spawning(sq, b) => Spawning(t, b) \/ b = h.call
  <2> SUFFICES ASSUME NEW b \in Calls, NEW n \in DOMAIN sq, sq[n].call = b, n # 1 PROVE Spawning(t, b)
    BY <1>2 DEF Spawning
  <2>1. n - 1 \in DOMAIN t /\ (n - 1) + 1 = n
    BY <1>1, <1>2
  <2>2. t[n - 1] = sq[n]
    BY <1>2, <2>1
  <2> QED BY <2>1, <2>2 DEF Spawning
<1>8. HeldAreQueued(p, cl, rq, t) /\ p[h.call] = "queued"
  BY <1>2, <1>4, <1>5 DEF Places, HeldAreQueued
<1>9. HeldOnce(p, cl, rq, t)
  BY <1>4, <1>6 DEF Places, HeldOnce
<1>10. HeldBut({h.call}, p, cl, rq, t)
  BY <1>7 DEF HeldBut, HeldIn
<1>11. Unheld(p, cl, rq, t, h.call)
  BY <1>2, <1>4, <1>5 DEF Unheld, Places, HeldOnce
<1> QED BY <1>1, <1>5, <1>8, <1>9, <1>10, <1>11 DEF t, h, Places

(* A call that is not to execute joins the resolve queue.                  *)
LEMMA QueueHolds ==
  ASSUME NEW p, NEW cl, NEW rq, NEW sq, StateType(p, cl, rq, sq), Places(p, cl, rq, sq),
         HeldBut({}, p, cl, rq, sq), NEW c \in Calls, p[c] = "presave",
         NEW rq1, NEW sq1, NEW entry, entry.call = c,
         \/ rq1 = rq \cup {c} /\ sq1 = sq
         \/ rq1 = rq /\ sq1 = Append(sq, entry)
  PROVE  /\ Places([p EXCEPT ![c] = "queued"], cl, rq1, sq1)
         /\ HeldBut({}, [p EXCEPT ![c] = "queued"], cl, rq1, sq1)
         /\ \A b \in Calls : Spawning(sq1, b) => Spawning(sq, b) \/ (b = c /\ sq1 # sq)
<1> DEFINE q == [p EXCEPT ![c] = "queued"]
<1>0. q[c] = "queued" /\ \A d \in Calls \ {c} : q[d] = p[d]
  BY DEF StateType
<1> HIDE DEF q
<1>1. \A b, d \in Calls : Answers(q, cl, d, b) <=> Answers(p, cl, d, b)
  <2>1. cl[c].inTime = {}
    BY DEF Places, HeldAreQueued
  <2> QED BY <1>0, <2>1 DEF Answers, Idling
<1>2. \A b, d \in Calls : Wakes(q, cl, d, b) <=> Wakes(p, cl, d, b)
  BY <1>0 DEF Wakes
<1>3. Unheld(p, cl, rq, sq, c)
  BY DEF Unheld, Places, HeldAreQueued, Waiting
<1>4. /\ \A b \in Calls : Spawning(sq1, b) <=> (Spawning(sq, b) \/ (b = c /\ sq1 # sq))
      /\ \A m, n \in DOMAIN sq1 : sq1[m].call = sq1[n].call => m = n
      /\ sq1 # sq => rq1 = rq
      /\ sq1 = sq => rq1 = rq \cup {c}
  <2>1. CASE rq1 = rq \cup {c} /\ sq1 = sq
    BY <2>1 DEF Places, HeldOnce
  <2>2. ASSUME rq1 = rq, sq1 = Append(sq, entry)
        PROVE  <1>4!:
    <3>1. /\ Len(sq) \in Nat /\ DOMAIN sq = 1..Len(sq)
          /\ DOMAIN sq1 = 1..(Len(sq) + 1)
          /\ \A n \in DOMAIN sq : sq1[n] = sq[n]
          /\ sq1[Len(sq) + 1].call = c
      BY <2>2 DEF StateType
    <3>2. DOMAIN sq1 = DOMAIN sq \cup {Len(sq) + 1} /\ Len(sq) + 1 \notin DOMAIN sq
      BY <3>1
    <3>3. sq1 # sq
      BY <3>2
    <3>4. \A n \in DOMAIN sq : sq[n].call # c
      BY <1>3 DEF Unheld, Spawning
    <3>5. \A b \in Calls : Spawning(sq1, b) <=> (Spawning(sq, b) \/ b = c)
      BY <3>1, <3>2 DEF Spawning
    <3>6. \A m, n \in DOMAIN sq1 : sq1[m].call = sq1[n].call => m = n
      BY <3>1, <3>2, <3>4 DEF Places, HeldOnce
    <3> QED BY <2>2, <3>3, <3>5, <3>6
  <2> QED BY <2>1, <2>2
<1>5. HeldAreQueued(q, cl, rq1, sq1)
  <2>1. \A b \in Calls : p[b] \in Waiting => q[b] = p[b]
    BY <1>0 DEF Waiting
  <2>2. \A d \in Calls : q[d] = "presave" => cl[d].inTime = {}
    BY <1>0 DEF Places, HeldAreQueued
  <2>3. \A b \in rq1 : q[b] = "queued"
    BY <1>0, <1>4 DEF Places, HeldAreQueued, StateType
  <2>4. \A b \in Calls : Spawning(sq1, b) => q[b] = "queued"
    BY <1>0, <1>4 DEF Places, HeldAreQueued
  <2> QED BY <1>1, <1>2, <2>1, <2>2, <2>3, <2>4 DEF Places, HeldAreQueued, Waiting
<1>6. HeldOnce(q, cl, rq1, sq1)
  <2>1. \A b \in rq1 : \A d \in Calls : Answers(q, cl, d, b) => q[d] = "begin"
    <3> SUFFICES ASSUME NEW b \in rq1, NEW d \in Calls, Answers(p, cl, d, b) PROVE q[d] = "begin"
      BY <1>1, <1>4 DEF StateType
    <3>1. b # c /\ d # c
      BY <1>3 DEF Unheld, Answers, Places, HeldAreQueued
    <3>2. b \in rq
      BY <1>4, <3>1
    <3> QED BY <1>0, <3>1, <3>2 DEF Places, HeldOnce
  <2>2. \A b \in Calls : Spawning(sq1, b) =>
          b \notin rq1 /\ \A d \in Calls : ~Answers(q, cl, d, b) /\ ~Wakes(q, cl, d, b)
    BY <1>1, <1>2, <1>3, <1>4 DEF Places, HeldOnce, Unheld
  <2>3. \A b, d \in Calls : Wakes(q, cl, d, b) => b \notin rq1 /\ \A e \in Calls : ~Answers(q, cl, e, b)
    BY <1>1, <1>2, <1>3, <1>4 DEF Places, HeldOnce, Unheld
  <2> QED BY <1>1, <1>2, <1>4, <2>1, <2>2, <2>3 DEF Places, HeldOnce
<1>7. HeldBut({}, q, cl, rq1, sq1)
  BY <1>0, <1>1, <1>2, <1>4 DEF HeldBut, HeldIn
<1> QED BY <1>4, <1>5, <1>6, <1>7 DEF q, Places

(* A call begins, while no other does, and notes the resolve queue.        *)
LEMMA BeginHolds ==
  ASSUME NEW p, NEW cl, NEW rq, NEW sq, StateType(p, cl, rq, sq), Places(p, cl, rq, sq),
         HeldBut({}, p, cl, rq, sq), NEW c \in Calls, p[c] = "presave",
         \A d \in Calls : p[d] # "begin"
  PROVE  /\ Places([p EXCEPT ![c] = "begin"], [cl EXCEPT ![c].inTime = rq], rq, sq)
         /\ HeldBut({}, [p EXCEPT ![c] = "begin"], [cl EXCEPT ![c].inTime = rq], rq, sq)
<1> DEFINE q == [p EXCEPT ![c] = "begin"]
           k == [cl EXCEPT ![c].inTime = rq]
<1>0. /\ q[c] = "begin" /\ k[c].inTime = rq /\ k[c].parent = cl[c].parent
      /\ \A d \in Calls \ {c} : q[d] = p[d] /\ k[d] = cl[d]
  BY DEF StateType, CallRecord
<1> HIDE DEF q, k
<1>1. \A b, d \in Calls : Answers(q, k, d, b) <=> (Answers(p, cl, d, b) \/ (d = c /\ b \in rq))
  <2>1. cl[c].inTime = {}
    BY DEF Places, HeldAreQueued
  <2> QED BY <1>0, <2>1 DEF Answers, Idling, Settled
<1>2. \A b, d \in Calls : Wakes(q, k, d, b) <=> Wakes(p, cl, d, b)
  BY <1>0 DEF Wakes
<1>3. \A b \in rq : \A d \in Calls : ~Answers(p, cl, d, b)
  BY DEF Places, HeldOnce
<1>4. HeldAreQueued(q, k, rq, sq)
  <2>1. \A b \in Calls : p[b] \in Waiting => q[b] = p[b]
    BY <1>0 DEF Waiting
  <2>2. \A d \in Calls : q[d] = "presave" => k[d].inTime = {}
    BY <1>0 DEF Places, HeldAreQueued
  <2>3. \A b \in rq : q[b] = "queued"
    BY <2>1 DEF Places, HeldAreQueued, StateType, Waiting
  <2>4. \A b \in Calls : Spawning(sq, b) => q[b] = "queued"
    BY <2>1 DEF Places, HeldAreQueued, Waiting
  <2>5. \A b, d \in Calls : Answers(q, k, d, b) => q[b] = "queued"
    <3> SUFFICES ASSUME NEW b \in Calls, NEW d \in Calls, Answers(p, cl, d, b) PROVE q[b] = "queued"
      BY <1>1, <2>3
    <3> QED BY <2>1 DEF Places, HeldAreQueued, Waiting
  <2>6. \A b, d \in Calls : Wakes(q, k, d, b) => q[b] \in Waiting
    BY <1>2, <2>1 DEF Places, HeldAreQueued
  <2> QED BY <2>2, <2>3, <2>4, <2>5, <2>6 DEF HeldAreQueued
<1>5. HeldOnce(q, k, rq, sq)
  <2>1. \A b \in rq : \A d \in Calls : Answers(q, k, d, b) => q[d] = "begin"
    BY <1>0, <1>1, <1>3 DEF StateType
  <2>2. \A b, d, e \in Calls : Answers(q, k, d, b) /\ Answers(q, k, e, b) => d = e
    BY <1>1, <1>3 DEF Places, HeldOnce
  <2>3. \A b \in Calls : Spawning(sq, b) =>
          b \notin rq /\ \A d \in Calls : ~Answers(q, k, d, b) /\ ~Wakes(q, k, d, b)
    BY <1>1, <1>2 DEF Places, HeldOnce
  <2>4. \A b, d \in Calls : Wakes(q, k, d, b) => b \notin rq /\ \A e \in Calls : ~Answers(q, k, e, b)
    BY <1>1, <1>2 DEF Places, HeldOnce
  <2> QED BY <1>2, <2>1, <2>2, <2>3, <2>4 DEF Places, HeldOnce
<1>6. HeldBut({}, q, k, rq, sq)
  BY <1>0, <1>1, <1>2 DEF HeldBut, HeldIn
<1> QED BY <1>4, <1>5, <1>6 DEF q, k, Places

(* It takes what it has noted off the queue.                               *)
LEMMA RunHolds ==
  ASSUME NEW p, NEW cl, NEW rq, NEW sq, StateType(p, cl, rq, sq), Places(p, cl, rq, sq),
         HeldBut({}, p, cl, rq, sq), NEW c \in Calls, p[c] = "begin", NEW k,
         \A d \in Calls : k[d].inTime = cl[d].inTime /\ k[d].parent = cl[d].parent
  PROVE  /\ Places([p EXCEPT ![c] = "run"], k, rq \ cl[c].inTime, sq)
         /\ HeldBut({}, [p EXCEPT ![c] = "run"], k, rq \ cl[c].inTime, sq)
<1> DEFINE q == [p EXCEPT ![c] = "run"]
           r == rq \ cl[c].inTime
<1>0. q[c] = "run" /\ \A d \in Calls \ {c} : q[d] = p[d]
  BY DEF StateType
<1>a. r \subseteq rq /\ r \subseteq Calls /\ \A b \in r : b \notin cl[c].inTime
  BY DEF StateType
<1>b. \A b \in rq : b \in r \/ Answers(p, cl, c, b)
  BY DEF Answers, Idling, Settled
<1> HIDE DEF q, r
<1>1. \A b, d \in Calls : Answers(q, k, d, b) <=> Answers(p, cl, d, b)
  BY <1>0 DEF Answers, Idling, Settled
<1>2. \A b, d \in Calls : Wakes(q, k, d, b) <=> Wakes(p, cl, d, b)
  BY <1>0 DEF Wakes
<1>3. \A b \in Calls : p[b] \in Waiting => q[b] = p[b]
  BY <1>0 DEF Waiting
<1>4. HeldAreQueued(q, k, r, sq)
  <2>1. \A d \in Calls : q[d] = "presave" => k[d].inTime = {}
    BY <1>0 DEF Places, HeldAreQueued
  <2> QED BY <1>a, <1>1, <1>2, <1>3, <2>1 DEF Places, HeldAreQueued, Waiting
<1>5. HeldOnce(q, k, r, sq)
  <2>1. \A b \in r : \A d \in Calls : Answers(q, k, d, b) => q[d] = "begin"
    <3> SUFFICES ASSUME NEW b \in r, NEW d \in Calls, Answers(p, cl, d, b) PROVE q[d] = "begin"
      BY <1>a, <1>1
    <3>1. d # c
      BY <1>a DEF Answers
    <3>2. p[d] = "begin"
      BY <1>a DEF Places, HeldOnce
    <3> QED BY <1>0, <3>1, <3>2
  <2>2. \A b \in Calls : Spawning(sq, b) =>
          b \notin r /\ \A d \in Calls : ~Answers(q, k, d, b) /\ ~Wakes(q, k, d, b)
    BY <1>a, <1>1, <1>2 DEF Places, HeldOnce
  <2>3. \A b, d \in Calls : Wakes(q, k, d, b) => b \notin r /\ \A e \in Calls : ~Answers(q, k, e, b)
    BY <1>a, <1>1, <1>2 DEF Places, HeldOnce
  <2> QED BY <1>1, <1>2, <2>1, <2>2, <2>3 DEF Places, HeldOnce
<1>6. HeldBut({}, q, k, r, sq)
  BY <1>0, <1>b, <1>1, <1>2 DEF HeldBut, HeldIn
<1> QED BY <1>4, <1>5, <1>6 DEF q, r, Places

HeldNow(p, cl, rq, sq) == Places(p, cl, rq, sq) /\ HeldBut({}, p, cl, rq, sq)

LEMMA TypeOfState == ASSUME TypeOK PROVE StateType(pc, call, resolveQueue, spawnQueue)
BY DEF TypeOK, StateType, Entries

LEMMA WokenWait ==
  ASSUME NEW p, NEW cl, NEW rq, NEW sq, Places(p, cl, rq, sq), NEW c \in Calls, p[c] \notin Waiting
  PROVE  \A d \in Calls : ~Wakes(p, cl, d, c)
BY DEF Places, HeldAreQueued

LEMMA StartHolds ==
  ASSUME TypeOK, NEW opts \in SyncOptions, NEW parent \in Calls \cup {None},
         NEW p \in [Calls -> PCs], NEW sq \in Seq(Entries), StartSync(opts, parent, p),
         \A d \in Calls : pc[d] = "idle" => p[d] = "idle",
         Places(p, call, resolveQueue, sq), HeldBut({parent}, p, call, resolveQueue, sq),
         parent \in Calls => /\ p[parent] \in Waiting
                             /\ \A d \in Calls : ~Wakes(p, call, d, parent)
                             /\ p[parent] = "queued" => Unheld(p, call, resolveQueue, sq, parent)
  PROVE  HeldNow(pc', call', resolveQueue, sq)
<1> DEFINE n == NewSlot
<1>1. n \in Calls /\ pc[n] = "idle"
  BY NewSlotIsFree DEF StartSync
<1>2. /\ pc' = [p EXCEPT ![n] = "presave"]
      /\ call' = [call EXCEPT ![n] = NewCall(opts, parent)]
  BY DEF StartSync
<1> HIDE DEF n
<1>3. StateType(p, call, resolveQueue, sq)
  BY DEF TypeOK, StateType
<1>4. p[n] = "idle"
  BY <1>1
<1> QED BY <1>1, <1>2, <1>3, <1>4, NewHolds DEF HeldNow

(* A call goes on to wait for one that it makes.                           *)
LEMMA AwaitHolds ==
  ASSUME TypeOK, HeldNow(pc, call, resolveQueue, spawnQueue),
         NEW c \in Calls, pc[c] \notin Idling \cup Waiting \cup {"presave", "begin"},
         NEW label \in {"observer", "outOfSync", "awaiting"}, NEW opts \in SyncOptions,
         StartSync(opts, c, [pc EXCEPT ![c] = label])
  PROVE  HeldNow(pc', call', resolveQueue, spawnQueue)
<1> DEFINE p == [pc EXCEPT ![c] = label]
<1>0. StateType(pc, call, resolveQueue, spawnQueue) /\ spawnQueue \in Seq(Entries)
  BY TypeOfState DEF StateType
<1>1. label \in PCs \ (Idling \cup {"presave", "begin"}) /\ label \in Waiting /\ label # "queued"
  BY DEF PCs, Idling, Settled, Waiting
<1>2. /\ p \in [Calls -> PCs] /\ p[c] = label
      /\ \A d \in Calls : pc[d] = "idle" => p[d] = "idle"
  BY <1>1 DEF TypeOK, Idling
<1>3. Places(p, call, resolveQueue, spawnQueue) /\ HeldBut({}, p, call, resolveQueue, spawnQueue)
  BY <1>0, <1>1, MoveHolds DEF HeldNow
<1>4. \A d \in Calls : ~Wakes(p, call, d, c)
  <2>1. \A d \in Calls : ~Wakes(pc, call, d, c)
    BY WokenWait DEF HeldNow
  <2>2. \A d \in Calls : p[d] # "idle" => pc[d] # "idle"
    BY <1>2
  <2> QED BY <2>1, <2>2 DEF Wakes
<1>5. HeldBut({c}, p, call, resolveQueue, spawnQueue)
  BY <1>3 DEF HeldBut
<1>6. StartSync(opts, c, p)
  OBVIOUS
<1> HIDE DEF p
<1> QED BY <1>0, <1>1, <1>2, <1>3, <1>4, <1>5, <1>6, StartHolds

LEMMA ReturnHolds ==
  ASSUME TypeOK, HeldNow(pc, call, resolveQueue, spawnQueue),
         NEW c \in Calls, pc[c] \notin Idling \cup Waiting \cup {"presave", "begin"}
  PROVE  HeldNow(ReturnResolvingInTime(c), call, resolveQueue, spawnQueue)
<1>1. ReturnResolvingInTime(c) = Settle(pc, call[c].inTime \cup {c})
  BY DEF ReturnResolvingInTime, Settling, Settle
<1>2. \A d \in Calls : ~Wakes(pc, call, d, c)
  BY WokenWait DEF HeldNow
<1> QED BY <1>1, <1>2, SettleHolds, TypeOfState DEF HeldNow

(* A call resolves and leaves another one to go on by itself.              *)
LEMMA DetachHolds ==
  ASSUME TypeOK, HeldNow(pc, call, resolveQueue, spawnQueue),
         NEW c \in Calls, pc[c] \notin Idling \cup Waiting \cup {"presave", "begin"},
         NEW opts \in SyncOptions, StartSync(opts, None, ReturnResolvingInTime(c))
  PROVE  HeldNow(pc', call', resolveQueue, spawnQueue)
<1> DEFINE p == ReturnResolvingInTime(c)
<1>1. HeldNow(p, call, resolveQueue, spawnQueue)
  BY ReturnHolds
<1>2. p \in [Calls -> PCs]
  BY ReturnResolvingInTimeType
<1>3. \A d \in Calls : pc[d] = "idle" => p[d] = "idle"
  <2>1. \A d \in call[c].inTime : d \in Calls => pc[d] = "queued"
    BY DEF HeldNow, Places, HeldAreQueued, Answers
  <2> QED BY <2>1 DEF ReturnResolvingInTime, Settling, Idling
<1>4. HeldBut({None}, p, call, resolveQueue, spawnQueue)
  BY <1>1 DEF HeldNow, HeldBut
<1>5. spawnQueue \in Seq(Entries) /\ None \notin Calls /\ StartSync(opts, None, p)
  BY SyncQueueAssumption DEF TypeOK, Entries
<1> HIDE DEF p
<1> QED BY <1>1, <1>2, <1>3, <1>4, <1>5, StartHolds DEF HeldNow

LEMMA GoOnHolds ==
  ASSUME TypeOK, HeldNow(pc, call, resolveQueue, spawnQueue),
         NEW c \in Calls, pc[c] \notin Idling \cup Waiting \cup {"presave", "begin"},
         NEW label \in PCs \ (Idling \cup {"presave", "begin"}), Goto(c, label)
  PROVE  HeldNow(pc', call, resolveQueue, spawnQueue)
BY MoveHolds, WokenWait, TypeOfState DEF HeldNow, Goto

(* Only the in-time lists and the parents of calls matter.                 *)
LEMMA SameHolders ==
  ASSUME NEW p, NEW cl, NEW k, NEW rq \in SUBSET Calls, NEW sq, HeldNow(p, cl, rq, sq),
         \A d \in Calls : k[d].inTime = cl[d].inTime /\ k[d].parent = cl[d].parent
  PROVE  HeldNow(p, k, rq, sq)
<1>1. \A b, d \in Calls : Answers(p, k, d, b) <=> Answers(p, cl, d, b)
  BY DEF Answers
<1>2. \A b, d \in Calls : Wakes(p, k, d, b) <=> Wakes(p, cl, d, b)
  BY DEF Wakes
<1>3. HeldAreQueued(p, k, rq, sq)
  BY <1>1, <1>2 DEF HeldNow, Places, HeldAreQueued
<1>4. HeldOnce(p, k, rq, sq)
  BY <1>1, <1>2 DEF HeldNow, Places, HeldOnce
<1>5. HeldBut({}, p, k, rq, sq)
  BY <1>1, <1>2 DEF HeldNow, HeldBut, HeldIn
<1> QED BY <1>3, <1>4, <1>5 DEF HeldNow, Places

(* What a segment is while no fault occurs.                                *)
LEMMA NoFault ==
  ASSUME TypeOK, HoldInv, Next, used'.faults = 0
  PROVE  /\ used.faults = 0 /\ NoFaultYet
         /\ ~LockSyncing /\ ~Deinit
         /\ \A c \in Calls : ~EncryptionFails(c) /\ ~ResponseError(c)
<1>1. used.faults \in Nat /\ used \in [requests : Nat, faults : Nat, followUps : Nat]
  BY DEF TypeOK
<1>2. \A name : ~Fault(name)
  BY <1>1 DEF Fault
<1>3. ~LockSyncing /\ ~Deinit /\ \A c \in Calls : ~EncryptionFails(c) /\ ~ResponseError(c)
  BY <1>2 DEF LockSyncing, Deinit, EncryptionFails, ResponseError
<1>4. used'.faults = used.faults
  <2>1. CASE Sync
    BY <1>1, <2>1 DEF Sync
  <2>2. CASE NewSingletonItems
    BY <1>1, <2>2 DEF NewSingletonItems
  <2>3. CASE AutoSync \/ UnlockSyncing \/ DatabaseLoaded \/ SignIn \/ Edit
    BY <2>3 DEF AutoSync, UnlockSyncing, DatabaseLoaded, SignIn, Edit
  <2>4. ASSUME NEW c \in Calls, IntegrityMismatch(c) PROVE used'.faults = used.faults
    BY <1>1, <2>4 DEF IntegrityMismatch
  <2>5. ASSUME NEW c \in Calls, Segment(c), ~IntegrityMismatch(c) PROVE used'.faults = used.faults
    BY <1>3, <2>5
    DEF Segment, Defer, Begin, RunSyncOperation, ResponseSuccess,
        FinishOperation, NotifyUploaded, DownloadFirstCompleted, SyncAfterDownloadFirst,
        SpawnNext, SpawnNextLocked, SyncForResolveQueue, SyncForNewDirtyItems,
        NothingToSyncAgain, IntegrityInSync, Complete, ReturnDealloced, ThrowDealloced, Return
  <2> QED BY <1>3, <2>1, <2>2, <2>3, <2>4, <2>5 DEF Next
<1> QED BY <1>3, <1>4 DEF HoldInv

LEMMA SegmentHolds ==
  ASSUME TypeOK, LockInv, NoFaultYet, HeldNow(pc, call, resolveQueue, spawnQueue),
         NEW c \in Calls, Segment(c), ~EncryptionFails(c), ~ResponseError(c)
  PROVE  HeldNow(pc', call', resolveQueue', spawnQueue')
<1> USE DEF queues
<1>0. StateType(pc, call, resolveQueue, spawnQueue) /\ call[c] \in CallRecord
  BY TypeOfState DEF StateType
<1>a. ~dealloced /\ ~clientLocked /\ ~opError
  BY DEF NoFaultYet
<1>b. ASSUME UNCHANGED <<pc, call, resolveQueue, spawnQueue>>
      PROVE  HeldNow(pc', call', resolveQueue', spawnQueue')
  BY <1>b
<1>c. ASSUME NEW label \in PCs \ (Idling \cup {"presave", "begin"}), Goto(c, label),
             pc[c] \notin Idling \cup Waiting \cup {"presave", "begin"},
             UNCHANGED <<call, queues>>
      PROVE  HeldNow(pc', call', resolveQueue', spawnQueue')
  BY <1>c, GoOnHolds
<1>d. /\ {"run", "ran", "finish", "observer", "again", "downloaded", "awaiting", "integrity",
          "outOfSync", "complete"} \subseteq PCs \ (Idling \cup {"presave", "begin"})
      /\ {"run", "ran", "finish", "again", "downloaded", "integrity", "complete"}
           \cap (Idling \cup Waiting \cup {"presave", "begin"}) = {}
  BY DEF PCs, Idling, Waiting, Settled, InFlight
<1>e. AllDone(c) \in {"integrity", "complete"}
  BY DEF AllDone
<1>1. CASE Defer(c)
  <2>1. pc' = [pc EXCEPT ![c] = "queued"] /\ pc[c] = "presave" /\ call' = call
    BY <1>1 DEF Defer, Goto
  <2> DEFINE r == resolveQueue'
             t == spawnQueue'
             entry == [call |-> c, opts |-> [call[c].opts EXCEPT !.awaitAll = FALSE]]
  <2>2. \/ r = resolveQueue \cup {c} /\ t = spawnQueue
        \/ r = resolveQueue /\ t = Append(spawnQueue, entry)
    BY <1>1 DEF Defer
  <2>4. entry.call = c
    OBVIOUS
  <2>3. HeldNow([pc EXCEPT ![c] = "queued"], call, r, t)
    <3> HIDE DEF r, t, entry
    <3>1. /\ Places(pc, call, resolveQueue, spawnQueue)
          /\ HeldBut({}, pc, call, resolveQueue, spawnQueue)
      BY DEF HeldNow
    <3>2. /\ Places([pc EXCEPT ![c] = "queued"], call, r, t)
          /\ HeldBut({}, [pc EXCEPT ![c] = "queued"], call, r, t)
      <4>1. CASE r = resolveQueue \cup {c} /\ t = spawnQueue
        <5>1. /\ Places([pc EXCEPT ![c] = "queued"], call, resolveQueue \cup {c}, spawnQueue)
              /\ HeldBut({}, [pc EXCEPT ![c] = "queued"], call, resolveQueue \cup {c}, spawnQueue)
          BY <1>0, <2>1, <2>4, <3>1, QueueHolds
        <5>2. r = resolveQueue \cup {c} /\ t = spawnQueue
          BY <4>1
        <5> QED BY <5>1, <5>2, Zenon
      <4>2. CASE r = resolveQueue /\ t = Append(spawnQueue, entry)
        BY <1>0, <2>1, <2>4, <3>1, <4>2, QueueHolds
      <4> QED BY <2>2, <4>1, <4>2
    <3> QED BY <3>2 DEF HeldNow
  <2> QED BY <2>1, <2>3
<1>2. CASE Begin(c)
  <2>1. \A d \in Calls : pc[d] # "begin"
    BY <1>2 DEF Begin, LockInv, Holding, Preparing, InFlight
  <2> QED BY <1>0, <1>2, <2>1, BeginHolds DEF Begin, Goto, HeldNow
<1>3. CASE RunSyncOperation(c)
  <2>1. \A d \in Calls : call'[d].inTime = call[d].inTime /\ call'[d].parent = call[d].parent
    <3>1. PICK on, mode, pending :
            call' = [call EXCEPT ![c].online = on, ![c].mode = mode, ![c].pending = pending]
      BY <1>3 DEF RunSyncOperation
    <3>2. \A d \in Calls : call[d] \in CallRecord
      BY DEF TypeOK
    <3>3. /\ [call[c] EXCEPT !.online = on, !.mode = mode, !.pending = pending].inTime = call[c].inTime
          /\ [call[c] EXCEPT !.online = on, !.mode = mode, !.pending = pending].parent = call[c].parent
      BY <3>2 DEF CallRecord
    <3>4. /\ call'[c] = [call[c] EXCEPT !.online = on, !.mode = mode, !.pending = pending]
          /\ \A d \in Calls \ {c} : call'[d] = call[d]
      BY <3>1 DEF TypeOK
    <3> QED BY <3>3, <3>4
  <2>2. /\ pc[c] = "begin" /\ pc' = [pc EXCEPT ![c] = "run"]
        /\ resolveQueue' = resolveQueue \ call[c].inTime /\ spawnQueue' = spawnQueue
    BY <1>3 DEF RunSyncOperation, Goto
  <2> QED BY <1>0, <2>1, <2>2, RunHolds DEF HeldNow
<1>4. CASE ResponseSuccess(c)
  <2>1. PICK page : RoundTrip(c, page)
    BY <1>4 DEF ResponseSuccess
  <2>2. PICK label \in {"run", "ran"} : Goto(c, label)
    BY <2>1 DEF RoundTrip
  <2>3. pc[c] = "run"
    BY <2>1 DEF RoundTrip
  <2>4. HeldNow(pc', call, resolveQueue, spawnQueue)
    BY <1>d, <2>2, <2>3, GoOnHolds
  <2>5. \A d \in Calls : call'[d].inTime = call[d].inTime /\ call'[d].parent = call[d].parent
    <3>1. call' = [call EXCEPT ![c].pending = @ \ page]
      BY <2>1 DEF RoundTrip
    <3>2. \A d \in Calls : call[d] \in CallRecord
      BY DEF TypeOK
    <3>3. /\ [call[c] EXCEPT !.pending = @ \ page].inTime = call[c].inTime
          /\ [call[c] EXCEPT !.pending = @ \ page].parent = call[c].parent
      BY <3>2 DEF CallRecord
    <3>4. call'[c] = [call[c] EXCEPT !.pending = @ \ page] /\ \A d \in Calls \ {c} : call'[d] = call[d]
      BY <3>1 DEF TypeOK
    <3> QED BY <3>3, <3>4
  <2>6. resolveQueue \in SUBSET Calls /\ UNCHANGED <<resolveQueue, spawnQueue>>
    BY <1>4 DEF ResponseSuccess, TypeOK
  <2> QED BY <2>4, <2>5, <2>6, SameHolders
<1>5. CASE FinishOperation(c)
  BY <1>5, <1>a, <1>c, <1>d DEF FinishOperation
<1>6. CASE NotifyUploaded(c)
  <2>1. CASE StartSync(DefaultOptions, c, [pc EXCEPT ![c] = "observer"])
    BY <1>6, <1>d, <2>1, AwaitHolds, DefaultOptionsType DEF NotifyUploaded
  <2>2. CASE Goto(c, "again") /\ UNCHANGED call
    BY <1>6, <1>c, <1>d, <2>2 DEF NotifyUploaded
  <2> QED BY <1>6, <1>a, <2>1, <2>2 DEF NotifyUploaded, AwaitSync
<1>7. CASE DownloadFirstCompleted(c)
  BY <1>7, <1>c, <1>d DEF DownloadFirstCompleted
<1>8. CASE SyncAfterDownloadFirst(c)
  <2>1. [DefaultOptions EXCEPT !.checkIntegrity = TRUE, !.awaitAll = call[c].opts.awaitAll]
          \in SyncOptions
    BY <1>0, DefaultOptionsType DEF CallRecord, SyncOptions
  <2> QED BY <1>8, <1>a, <1>d, <2>1, AwaitHolds DEF SyncAfterDownloadFirst, AwaitSync
<1>9. CASE SpawnNext(c)
  <2> DEFINE h == Head(spawnQueue)
             b == h.call
             t == Tail(spawnQueue)
  <2>1. /\ t \in Seq(Entries) /\ h \in Entries /\ pc[b] = "queued" /\ spawnQueue' = t
        /\ Places(pc, call, resolveQueue, t) /\ HeldBut({b}, pc, call, resolveQueue, t)
        /\ Unheld(pc, call, resolveQueue, t, b)
    BY <1>0, <1>9, PopHolds DEF SpawnNext, HeldNow
  <2>2. b \in Calls /\ h.opts \in SyncOptions /\ pc[c] = "again" /\ b # c
        /\ resolveQueue' = resolveQueue
    BY <1>9, <2>1 DEF SpawnNext, Entries
  <2>0. StateType(pc, call, resolveQueue, t)
    BY <1>0, <2>1 DEF StateType
  <2>a. \A d \in Calls : ~Wakes(pc, call, d, c)
    BY <1>d, <2>1, <2>2, WokenWait
  <2>3. CASE ~SomethingDirty
    <3> DEFINE p == [pc EXCEPT ![c] = AllDone(c)]
    <3>1. StartSync(h.opts, b, p)
      BY <1>9, <2>3 DEF SpawnNext
    <3>2. /\ p \in [Calls -> PCs] /\ \A d \in Calls : pc[d] = "idle" => p[d] = "idle"
          /\ p[b] = "queued" /\ \A d \in Calls : p[d] # "idle" => pc[d] # "idle"
      BY <1>d, <1>e, <2>1, <2>2 DEF TypeOK
    <3>3. Places(p, call, resolveQueue, t) /\ HeldBut({b}, p, call, resolveQueue, t)
      BY <1>d, <1>e, <2>0, <2>1, <2>2, <2>a, MoveHolds
    <3>4. Unheld(p, call, resolveQueue, t, b)
      <4>1. \A d \in Calls : Answers(p, call, d, b) => Answers(pc, call, d, b)
        BY <1>d, <2>2 DEF Answers, TypeOK
      <4>2. \A d \in Calls : Wakes(p, call, d, b) => Wakes(pc, call, d, b)
        BY <3>2 DEF Wakes
      <4> QED BY <2>1, <4>1, <4>2 DEF Unheld
    <3>5. \A d \in Calls : ~Wakes(p, call, d, b)
      BY <3>4 DEF Unheld
    <3>6. "queued" \in Waiting
      BY DEF Waiting
    <3> HIDE DEF p, h, b, t
    <3> QED BY <2>1, <2>2, <3>1, <3>2, <3>3, <3>4, <3>5, <3>6, StartHolds
  <2>4. CASE SomethingDirty
    <3> DEFINE n == NewSlot
               s == SecondSlot
               p1 == [pc EXCEPT ![n] = "presave"]
               k1 == [call EXCEPT ![n] = NewCall(h.opts, b)]
               p2 == [p1 EXCEPT ![c] = "awaiting"]
    <3>1. /\ n \in Calls /\ pc[n] = "idle" /\ s \in Calls /\ pc[s] = "idle" /\ s # n
          /\ c # n /\ c # s
      <4>1. Free # {} /\ Cardinality(Free) > 1
        <5>1. Cardinality(Free) > 1
          BY <1>9, <2>4 DEF SpawnNext
        <5>2. Cardinality({}) = 0
          BY FS_EmptySet
        <5> QED BY <5>1, <5>2
      <4> QED BY <1>9, <4>1, NewSlotIsFree, SecondSlotIsFree DEF SpawnNext
    <3>2. /\ pc' = [pc EXCEPT ![n] = "presave", ![s] = "presave", ![c] = "awaiting"]
          /\ call' = [call EXCEPT ![n] = NewCall(h.opts, b), ![s] = NewCall(MoreDirtyOptions(c), c)]
      BY <1>9, <2>4 DEF SpawnNext
    <3>3. NewCall(h.opts, b) \in CallRecord
      BY <2>2, NewCallType
    <3>a. "presave" \in PCs /\ "awaiting" \in PCs \ (Idling \cup {"presave", "begin"}) /\ "awaiting" \in Waiting
      BY <1>d DEF PCs, Waiting
    <3>b. "queued" \in Waiting
      BY DEF Waiting
    <3> HIDE DEF n, s, h, b, t
    <3>4. HeldNow(p1, k1, resolveQueue, t)
      <4>1. \A d \in Calls : ~Wakes(pc, call, d, b)
        BY <2>1 DEF Unheld
      <4> QED BY <2>0, <2>1, <2>2, <3>1, <3>b, <4>1, NewHolds DEF HeldNow
    <3>5. StateType(p1, k1, resolveQueue, t)
      BY <2>0, <3>1, <3>3, <3>a DEF StateType
    <3>6. p1[c] = "again"
      BY <2>2, <3>1 DEF TypeOK
    <3>7. Places(p2, k1, resolveQueue, t) /\ HeldBut({}, p2, k1, resolveQueue, t)
      BY <1>d, <3>4, <3>5, <3>6, <3>a, MoveHolds DEF HeldNow
    <3>8. StateType(p2, k1, resolveQueue, t)
      BY <3>5, <3>a DEF StateType
    <3>9. p2[s] = "idle" /\ p2[c] = "awaiting" /\ \A d \in Calls : p2[d] # "idle" => p1[d] # "idle"
      BY <2>2, <3>1 DEF TypeOK
    <3>10. \A d \in Calls : ~Wakes(p2, k1, d, c)
      <4>1. \A d \in Calls : ~Wakes(p1, k1, d, c)
        BY <1>d, <3>4, <3>6, WokenWait DEF HeldNow
      <4> QED BY <3>9, <4>1 DEF Wakes
    <3>11. HeldBut({c}, p2, k1, resolveQueue, t)
      BY <3>7 DEF HeldBut
    <3>12. HeldNow([p2 EXCEPT ![s] = "presave"], [k1 EXCEPT ![s] = NewCall(MoreDirtyOptions(c), c)],
                   resolveQueue, t)
      <4> HIDE DEF p2, k1
      <4> QED BY <3>1, <3>7, <3>8, <3>9, <3>10, <3>11, <3>a, NewHolds DEF HeldNow
    <3>13. pc' = [p2 EXCEPT ![s] = "presave"] /\ call' = [k1 EXCEPT ![s] = NewCall(MoreDirtyOptions(c), c)]
      BY <3>1, <3>2 DEF TypeOK
    <3> QED BY <2>1, <2>2, <3>12, <3>13
  <2> QED BY <2>3, <2>4
<1>10. CASE SyncForResolveQueue(c)
  <2> DEFINE opts == [DefaultOptions EXCEPT !.checkIntegrity = call[c].opts.checkIntegrity]
  <2>1. opts \in SyncOptions
    <3>1. call[c].opts.checkIntegrity \in BOOLEAN
      BY <1>0 DEF CallRecord, SyncOptions
    <3> QED BY <3>1, DefaultOptionsType, OptionsUpdate
  <2>2. CASE StartSync(opts, c, [pc EXCEPT ![c] = "awaiting"])
    BY <1>10, <1>d, <2>1, <2>2, AwaitHolds DEF SyncForResolveQueue
  <2>3. CASE StartSync(opts, None, ReturnResolvingInTime(c))
    BY <1>10, <1>d, <2>1, <2>3, DetachHolds DEF SyncForResolveQueue
  <2> QED BY <1>10, <1>a, <2>2, <2>3 DEF SyncForResolveQueue, AwaitSync
<1>11. CASE SyncForNewDirtyItems(c)
  BY <1>11, <1>a, <1>d, MoreDirtyOptionsType, AwaitHolds DEF SyncForNewDirtyItems, AwaitSync
<1>12. CASE NothingToSyncAgain(c)
  BY <1>12, <1>c, <1>d, <1>e DEF NothingToSyncAgain
<1>13. CASE IntegrityInSync(c)
  BY <1>13, <1>c, <1>d DEF IntegrityInSync
<1>14. CASE IntegrityMismatch(c)
  <2>1. [DefaultOptions EXCEPT !.source = "ResolveOutOfSync",
           !.checkIntegrity = call[c].opts.source # "ResolveOutOfSync"] \in SyncOptions
    BY DefaultOptionsType DEF SyncOptions, Sources
  <2>2. PICK opts \in SyncOptions : AwaitSync(c, opts, "outOfSync", [pc EXCEPT ![c] = "complete"])
    BY <1>14, <2>1 DEF IntegrityMismatch
  <2>3. StartSync(opts, c, [pc EXCEPT ![c] = "outOfSync"])
    BY <1>a, <2>2 DEF AwaitSync
  <2> QED BY <1>14, <1>d, <2>3, AwaitHolds DEF IntegrityMismatch
<1>15. CASE Complete(c)
  BY <1>15, <1>d, ReturnHolds DEF Complete
<1>16. CASE Return(c)
  <2> DEFINE a == call[c].parent
             p == [pc EXCEPT ![c] = "idle"]
             k == [call EXCEPT ![c] = NoCall]
  <2>1. pc[c] = "resolved"
    BY <1>16 DEF Return, Settled, NoFaultYet
  <2>2. /\ Places(p, k, resolveQueue, spawnQueue) /\ HeldBut({a}, p, k, resolveQueue, spawnQueue)
        /\ a \in Calls => \A d \in Calls : ~Wakes(p, k, d, a)
    BY <1>0, <2>1, IdleHolds DEF HeldNow, Settled
  <2>3. /\ call' = k /\ resolveQueue' = resolveQueue /\ spawnQueue' = spawnQueue
        /\ pc' = [(IF a = None THEN pc ELSE Resume(a, "resolved")) EXCEPT ![c] = "idle"]
    BY <1>16, <2>1 DEF Return
  <2>4. CASE a = None
    <3>1. HeldBut({}, p, k, resolveQueue, spawnQueue)
      BY <2>2, <2>4, SyncQueueAssumption DEF HeldBut
    <3> QED BY <2>2, <2>3, <2>4, <3>1 DEF HeldNow
  <2>5. CASE a # None
    <3>1. a \in Calls
      BY <1>0, <2>5 DEF CallRecord
    <3>2. pc[a] \in Waiting /\ a # c
      <4>1. Wakes(pc, call, c, a)
        BY <2>1 DEF Wakes
      <4> QED BY <2>1, <3>1, <4>1 DEF HeldNow, Places, HeldAreQueued, Waiting
    <3>3. p[a] = pc[a] /\ k[a] = call[a] /\ StateType(p, k, resolveQueue, spawnQueue)
      <4>1. p \in [Calls -> PCs]
        BY DEF TypeOK, PCs
      <4> QED BY <1>0, <3>1, <3>2, <4>1, NoCallType DEF StateType
    <3>4. Wakes(pc, call, c, a)
      BY <2>1 DEF Wakes
    <3>5. CASE pc[a] = "queued"
      <4>1. pc' = [p EXCEPT ![a] = "resolved"]
        BY <2>3, <2>5, <3>1, <3>2, <3>5 DEF Resume, TypeOK
      <4>2. Unheld(p, k, resolveQueue, spawnQueue, a)
        <5>1. a \notin resolveQueue /\ ~Spawning(spawnQueue, a) /\ \A d \in Calls : ~Answers(pc, call, d, a)
          BY <3>1, <3>4 DEF HeldNow, Places, HeldOnce
        <5>2. \A d \in Calls : Answers(p, k, d, a) => Answers(pc, call, d, a)
          BY DEF Answers, TypeOK, Idling
        <5> QED BY <2>2, <3>1, <5>1, <5>2 DEF Unheld
      <4> HIDE DEF a, p, k
      <4> QED BY <2>2, <2>3, <3>1, <3>3, <3>5, <4>1, <4>2, WokenHolds DEF HeldNow
    <3>6. HeldBut({}, p, k, resolveQueue, spawnQueue) \/ pc[a] = "queued"
      BY <2>2, <3>3 DEF HeldBut
    <3>7. CASE pc[a] = "observer"
      <4>1. pc' = [p EXCEPT ![a] = "again"]
        BY <2>3, <2>5, <3>1, <3>2, <3>7 DEF Resume, TypeOK
      <4>2. p[a] \notin Idling \cup {"presave", "begin"}
        BY <1>d, <3>3, <3>7
      <4> HIDE DEF a, p, k
      <4> QED BY <1>d, <2>2, <2>3, <3>1, <3>3, <3>6, <3>7, <4>1, <4>2, MoveHolds DEF HeldNow
    <3>8. CASE pc[a] = "outOfSync"
      <4>1. pc' = [p EXCEPT ![a] = "complete"]
        BY <2>3, <2>5, <3>1, <3>2, <3>8 DEF Resume, TypeOK
      <4>2. p[a] \notin Idling \cup {"presave", "begin"}
        BY <1>d, <3>3, <3>8
      <4> HIDE DEF a, p, k
      <4> QED BY <1>d, <2>2, <2>3, <3>1, <3>3, <3>6, <3>8, <4>1, <4>2, MoveHolds DEF HeldNow
    <3>9. CASE pc[a] = "awaiting"
      <4>1. pc' = [ReturnResolvingInTime(a) EXCEPT ![c] = "idle"]
        BY <2>3, <2>5, <3>9 DEF Resume
      <4>2. c \notin call[a].inTime
        <5>1. Answers(pc, call, a, c) \/ c \notin call[a].inTime
          BY <1>d, <3>9 DEF Answers
        <5> QED BY <2>1, <3>1, <5>1 DEF HeldNow, Places, HeldAreQueued
      <4>3. pc' = Settle(p, k[a].inTime \cup {a})
        BY <3>1, <3>2, <3>3, <4>1, <4>2 DEF ReturnResolvingInTime, Settling, Settle, TypeOK
      <4>4. p[a] \notin Idling \cup {"presave", "begin"}
        BY <1>d, <3>3, <3>9
      <4> HIDE DEF a, p, k
      <4> QED BY <2>2, <2>3, <3>1, <3>3, <3>6, <3>9, <4>3, <4>4, SettleHolds DEF HeldNow
    <3> QED BY <3>2, <3>5, <3>7, <3>8, <3>9 DEF Waiting
  <2> QED BY <2>4, <2>5
<1> QED
  BY <1>a, <1>1, <1>2, <1>3, <1>4, <1>5, <1>6, <1>7, <1>8, <1>9, <1>10, <1>11, <1>12, <1>13,
     <1>14, <1>15, <1>16
  DEF Segment, SpawnNextLocked, ReturnDealloced, ThrowDealloced

(* Nothing is rejected, and the application goes on, while no fault occurs.*)
LEMMA SegmentRejectsNobody ==
  ASSUME TypeOK, NoFaultYet, NEW c \in Calls, Segment(c), ~EncryptionFails(c), ~ResponseError(c)
  PROVE  NoFaultYet'
<1> USE DEF opStatus, world
<1>a. ~dealloced /\ ~clientLocked /\ ~opError
  BY DEF NoFaultYet
<1>1. UNCHANGED <<dealloced, clientLocked>>
  BY DEF Segment, Defer, Begin, RunSyncOperation, ResponseSuccess, FinishOperation,
     NotifyUploaded, DownloadFirstCompleted, SyncAfterDownloadFirst, SpawnNext, SpawnNextLocked,
     SyncForResolveQueue, SyncForNewDirtyItems, NothingToSyncAgain, IntegrityInSync,
     IntegrityMismatch, Complete, ReturnDealloced, ThrowDealloced, Return
<1>2. UNCHANGED opError \/ opError' = FALSE
  BY DEF Segment, Defer, Begin, RunSyncOperation, ResponseSuccess, FinishOperation,
     NotifyUploaded, DownloadFirstCompleted, SyncAfterDownloadFirst, SpawnNext, SpawnNextLocked,
     SyncForResolveQueue, SyncForNewDirtyItems, NothingToSyncAgain, IntegrityInSync,
     IntegrityMismatch, Complete, ReturnDealloced, ThrowDealloced, Return
<1>3. ASSUME NEW p \in [Calls -> PCs], NEW opts, NEW parent, StartSync(opts, parent, p),
             \A d \in Calls : p[d] # "rejected"
      PROVE  \A d \in Calls : pc'[d] # "rejected"
  BY <1>3 DEF StartSync
<1>4. ASSUME NEW label \in PCs, label # "rejected"
      PROVE  /\ [pc EXCEPT ![c] = label] \in [Calls -> PCs]
             /\ \A d \in Calls : [pc EXCEPT ![c] = label][d] # "rejected"
  BY <1>4 DEF TypeOK, NoFaultYet
<1>5. \A e : /\ ReturnResolvingInTime(e) \in [Calls -> PCs]
             /\ \A d \in Calls : ReturnResolvingInTime(e)[d] # "rejected"
  <2>1. \A e, d : d \in Calls => ReturnResolvingInTime(e)[d] # "rejected"
    BY DEF ReturnResolvingInTime, Settling, NoFaultYet
  <2> QED BY <2>1, ReturnResolvingInTimeType
<1>6. /\ {"queued", "begin", "run", "ran", "finish", "observer", "again", "downloaded", "awaiting",
          "integrity", "outOfSync", "complete"} \subseteq PCs
      /\ AllDone(c) \in {"integrity", "complete"}
  BY DEF PCs, AllDone, InFlight
<1>7. \A d \in Calls : pc'[d] # "rejected"
  <2>1. CASE \E label \in PCs \ {"rejected"} : Goto(c, label)
    BY <1>4, <2>1 DEF Goto
  <2>2. CASE Defer(c) \/ Begin(c) \/ RunSyncOperation(c) \/ DownloadFirstCompleted(c)
             \/ NothingToSyncAgain(c) \/ IntegrityInSync(c)
    <3>1. \E label \in PCs \ {"rejected"} : Goto(c, label)
      BY <1>6, <2>2
      DEF Defer, Begin, RunSyncOperation, DownloadFirstCompleted, NothingToSyncAgain, IntegrityInSync
    <3> QED BY <2>1, <3>1
  <2>3. CASE ResponseSuccess(c)
    <3>1. \E label \in PCs \ {"rejected"} : Goto(c, label)
      BY <1>6, <2>3 DEF ResponseSuccess, RoundTrip
    <3> QED BY <2>1, <3>1
  <2>4. CASE FinishOperation(c)
    <3>1. \E label \in PCs \ {"rejected"} : Goto(c, label)
      BY <1>6, <1>a, <2>4 DEF FinishOperation
    <3> QED BY <2>1, <3>1
  <2>5. CASE NotifyUploaded(c)
    BY <1>3, <1>4, <1>6, <1>a, <2>1, <2>5 DEF NotifyUploaded, AwaitSync
  <2>6. CASE SyncAfterDownloadFirst(c)
    BY <1>3, <1>4, <1>6, <1>a, <2>6 DEF SyncAfterDownloadFirst, AwaitSync
  <2>7. CASE SpawnNext(c)
    <3>1. CASE ~SomethingDirty
      BY <1>3, <1>4, <1>6, <2>7, <3>1 DEF SpawnNext
    <3>2. CASE SomethingDirty
      <4>1. pc' = [pc EXCEPT ![NewSlot] = "presave", ![SecondSlot] = "presave", ![c] = "awaiting"]
        BY <2>7, <3>2 DEF SpawnNext
      <4> QED BY <4>1 DEF NoFaultYet, TypeOK
    <3> QED BY <3>1, <3>2
  <2>8. CASE SyncForResolveQueue(c)
    BY <1>3, <1>4, <1>5, <1>6, <1>a, <2>8 DEF SyncForResolveQueue, AwaitSync
  <2>9. CASE SyncForNewDirtyItems(c)
    BY <1>3, <1>4, <1>6, <1>a, <2>9 DEF SyncForNewDirtyItems, AwaitSync
  <2>10. CASE IntegrityMismatch(c)
    BY <1>3, <1>4, <1>6, <1>a, <2>10 DEF IntegrityMismatch, AwaitSync
  <2>11. CASE Complete(c)
    BY <1>5, <2>11 DEF Complete
  <2>12. CASE Return(c)
    <3>1. pc[c] = "resolved"
      BY <2>12 DEF Return, Settled, NoFaultYet
    <3>2. \A a \in Calls : /\ Resume(a, "resolved") \in [Calls -> PCs]
                           /\ \A d \in Calls : Resume(a, "resolved")[d] # "rejected"
      <4> SUFFICES ASSUME NEW a \in Calls
                   PROVE  /\ Resume(a, "resolved") \in [Calls -> PCs]
                          /\ \A d \in Calls : Resume(a, "resolved")[d] # "rejected"
        OBVIOUS
      <4>1. \A label \in PCs \ {"rejected"} :
              /\ [pc EXCEPT ![a] = label] \in [Calls -> PCs]
              /\ \A d \in Calls : [pc EXCEPT ![a] = label][d] # "rejected"
        BY DEF TypeOK, NoFaultYet
      <4>2. "resolved" \in PCs \ {"rejected"}
        BY DEF PCs, Settled
      <4> QED BY <1>5, <1>6, <4>1, <4>2 DEF Resume
    <3>3. call[c].parent \in Calls \cup {None}
      BY DEF TypeOK, CallRecord
    <3>4. pc' = [(IF call[c].parent = None THEN pc ELSE Resume(call[c].parent, "resolved"))
                   EXCEPT ![c] = "idle"]
      BY <2>12, <3>1 DEF Return
    <3> QED BY <3>2, <3>3, <3>4 DEF NoFaultYet, TypeOK
  <2> QED
    BY <1>a, <2>2, <2>3, <2>4, <2>5, <2>6, <2>7, <2>8, <2>9, <2>10, <2>11, <2>12
    DEF Segment, SpawnNextLocked, ReturnDealloced, ThrowDealloced
<1> QED BY <1>a, <1>1, <1>2, <1>7 DEF NoFaultYet

LEMMA HoldStep ==
  ASSUME TypeOK, LockInv, HoldInv, [Next]_vars
  PROVE  HoldInv'
<1> SUFFICES ASSUME used'.faults = 0
             PROVE  NoFaultYet' /\ HeldNow(pc', call', resolveQueue', spawnQueue')
  BY DEF HoldInv, HeldNow
<1> USE DEF queues, world
<1>1. CASE UNCHANGED vars
  BY <1>1 DEF vars, HoldInv, HeldNow, NoFaultYet, opStatus
<1>2. CASE Next
  <2>1. /\ NoFaultYet /\ HeldNow(pc, call, resolveQueue, spawnQueue) /\ ~LockSyncing /\ ~Deinit
        /\ \A c \in Calls : ~EncryptionFails(c) /\ ~ResponseError(c)
    BY <1>2, NoFault DEF HoldInv, HeldNow
  <2>2. ASSUME NEW opts \in SyncOptions, StartSync(opts, None, pc),
               UNCHANGED <<opError, queues, world>>
        PROVE  NoFaultYet' /\ HeldNow(pc', call', resolveQueue', spawnQueue')
    <3>1. HeldBut({None}, pc, call, resolveQueue, spawnQueue)
      BY <2>1 DEF HeldNow, HeldBut
    <3>2. pc \in [Calls -> PCs] /\ spawnQueue \in Seq(Entries)
      BY DEF TypeOK, Entries
    <3>3. HeldNow(pc', call', resolveQueue, spawnQueue)
      BY <2>1, <2>2, <3>1, <3>2, SyncQueueAssumption, StartHolds DEF HeldNow
    <3>4. \A d \in Calls : pc'[d] # "rejected"
      BY <2>1, <2>2, <3>2 DEF StartSync, NoFaultYet
    <3> QED BY <2>1, <2>2, <3>3, <3>4 DEF NoFaultYet
  <2>3. CASE Sync
    BY <2>2, <2>3, SyncQueueAssumption DEF Sync
  <2>4. CASE AutoSync
    BY <2>2, <2>4, DefaultOptionsType DEF AutoSync
  <2>5. CASE UnlockSyncing
    BY <2>1, <2>5 DEF UnlockSyncing, NoFaultYet
  <2>6. CASE DatabaseLoaded \/ SignIn \/ Edit \/ NewSingletonItems
    BY <2>1, <2>6 DEF DatabaseLoaded, SignIn, Edit, NewSingletonItems, NoFaultYet, opStatus
  <2>7. ASSUME NEW c \in Calls, Segment(c)
        PROVE  NoFaultYet' /\ HeldNow(pc', call', resolveQueue', spawnQueue')
    BY <2>1, <2>7, SegmentHolds, SegmentRejectsNobody
  <2> QED BY <1>2, <2>1, <2>3, <2>4, <2>5, <2>6, <2>7 DEF Next
<1> QED BY <1>1, <1>2

LEMMA HoldInit == ASSUME Init PROVE HoldInv
<1>1. \A c \in Calls : pc[c] = "idle"
  BY DEF Init
<1>2. \A b, c \in Calls : ~Answers(pc, call, c, b) /\ ~Wakes(pc, call, c, b)
  BY <1>1 DEF Answers, Wakes, Idling
<1>3. resolveQueue = {} /\ DOMAIN spawnQueue = {}
  BY DEF Init
<1>4. HeldAreQueued(pc, call, resolveQueue, spawnQueue)
  BY <1>1, <1>2, <1>3 DEF HeldAreQueued, Spawning
<1>5. HeldOnce(pc, call, resolveQueue, spawnQueue)
  BY <1>1, <1>2, <1>3 DEF HeldOnce, Spawning
<1>6. HeldBut({}, pc, call, resolveQueue, spawnQueue)
  BY <1>1 DEF HeldBut
<1>7. NoFaultYet
  BY <1>1 DEF Init, NoFaultYet
<1> QED BY <1>4, <1>5, <1>6, <1>7 DEF HoldInv, Places

LEMMA SyncQueueHolders == Spec => []HoldInv
<1>1. Init => HoldInv
  BY HoldInit
<1>2. TypeOK /\ LockInv /\ HoldInv /\ [Next]_vars => HoldInv'
  BY HoldStep
<1> QED BY <1>1, <1>2, SyncQueueTypeCorrect, SyncQueueLock, PTL DEF Spec

(* Every deferred request is held by something that will settle it: the    *)
(* resolve queue or the spawn queue, the in-time list of a call that has   *)
(* not returned, or the sync spawned for it (resolvePendingSyncRequests-   *)
(* ThatMadeItInTimeOfCurrentRequest, popSpawnQueue).                       *)
THEOREM SyncQueueRequestsAreHeld == Spec => []QueuedRequestIsHeld
<1>1. HoldInv => QueuedRequestIsHeld
  <2> SUFFICES ASSUME HoldInv, used.faults = 0, NEW b \in Calls, pc[b] = "queued" PROVE Held(b)
    BY DEF QueuedRequestIsHeld
  <2>1. HeldIn(pc, call, resolveQueue, spawnQueue, b)
    BY DEF HoldInv, HeldBut
  <2> QED BY <2>1 DEF HeldIn, Held, Spawning, Answers, Wakes, Idling
<1> QED BY <1>1, SyncQueueHolders, PTL

-----------------------------------------------------------------------------
(***************************************************************************)
(* What a call that executed has saved when it resolves.  In default mode  *)
(* its own operation sends all it captured.  After a download the upload   *)
(* is left to a second sync, which may in turn be deferred and resolve     *)
(* with the operation of another call: whichever it is was called after    *)
(* the first released the lock, so it captured what was still unsaved.     *)
(***************************************************************************)

Clean(cl, it, c, i) == it[i] > cl[c].frozen \/ it[i] = 0

Done(cl, it, c) == \A i \in cl[c].items : Clean(cl, it, c, i)

(* What c captured and d did not was saved before d was called.            *)
Later(cl, it, d, c) ==
  /\ cl[c].frozen <= cl[d].frozen
  /\ \A i \in cl[c].items \ cl[d].items : Clean(cl, it, c, i)

(* Where a call is that executes and has let go of the lock.               *)
Released == {"finish", "observer", "again", "downloaded", "awaiting", "integrity",
             "outOfSync", "complete"}

Executors(p, ex, cl, ix) ==
  /\ \A c \in Calls : p[c] \notin Idling \cup {"presave"} => ex[c]
  /\ \A c \in Calls : p[c] = "queued" => ~ex[c]
  /\ \A c \in Calls : p[c] \in {"observer", "outOfSync", "integrity", "complete"} =>
       cl[c].mode = "Default"
  /\ \A c \in Calls : cl[c].frozen <= ix

(* What the operation of a call has saved so far.                          *)
SavesOwn(p, ex, cl, it) ==
  /\ \A c \in Calls : p[c] = "run" /\ cl[c].mode = "Default" =>
       \A i \in cl[c].items \ cl[c].pending : Clean(cl, it, c, i)
  /\ \A c \in Calls : p[c] \in {"ran"} \cup Released /\ cl[c].mode = "Default" => Done(cl, it, c)
  /\ \A c \in Calls : p[c] = "resolved" /\ ex[c] => Done(cl, it, c)

(* What it may leave to those called later.                                *)
LeavesToLater(p, ex, cl, it) ==
  /\ \A c, d \in Calls : p[c] \in Released /\ ex[d] /\ p[d] \in Preparing => Later(cl, it, d, c)
  /\ \A n, c \in Calls : Wakes(p, cl, n, c) /\ ex[c] /\ ex[n] => Later(cl, it, n, c)
  /\ \A n, c \in Calls : Wakes(p, cl, n, c) /\ ex[c] /\ p[n] = "resolved" /\ ~ex[n] => Done(cl, it, c)
  /\ \A n, c, d \in Calls : Wakes(p, cl, n, c) /\ ex[c] /\ Answers(p, cl, d, n) => Later(cl, it, d, c)

(* A call made by one that executes is never put off to a spawned sync.    *)
SpawnsOwn(p, ex, cl, sq) ==
  /\ \A n, c \in Calls : Wakes(p, cl, n, c) /\ ex[c] => cl[n].opts.strategy = "ResolveOnNext"
  /\ \A b \in Calls : Spawning(sq, b) => cl[b].opts.strategy = "ForceSpawnNew"
  /\ \A n, b \in Calls : Wakes(p, cl, n, b) /\ p[b] = "queued" => cl[b].opts.strategy = "ForceSpawnNew"

Saves(p, ex, cl, sq, it, ix) ==
  /\ Executors(p, ex, cl, ix)
  /\ SavesOwn(p, ex, cl, it)
  /\ LeavesToLater(p, ex, cl, it)
  /\ SpawnsOwn(p, ex, cl, sq)

SaveInv ==
  used.faults = 0 => Saves(pc, executes, call, spawnQueue, itemDirty, dirtyIndex)

SaveType(p, ex, cl, rq, sq, it, ix) ==
  /\ StateType(p, cl, rq, sq) /\ ex \in [Calls -> BOOLEAN]
  /\ it \in [Items -> Nat] /\ ix \in Nat
  /\ Places(p, cl, rq, sq)
  /\ Saves(p, ex, cl, sq, it, ix)

(* What is captured by a later call is saved with it.                      *)
LEMMA LaterIsEnough ==
  ASSUME NEW cl \in [Calls -> CallRecord], NEW it \in [Items -> Nat],
         NEW c \in Calls, NEW d \in Calls, Later(cl, it, d, c), Done(cl, it, d)
  PROVE  Done(cl, it, c)
<1>1. cl[c].items \subseteq Items /\ cl[c].frozen \in Nat /\ cl[d].frozen \in Nat
  BY DEF CallRecord
<1> SUFFICES ASSUME NEW i \in cl[c].items PROVE Clean(cl, it, c, i)
  BY DEF Done
<1>2. CASE i \in cl[d].items
  <2>1. it[i] \in Nat
    BY <1>1
  <2> QED BY <1>1, <1>2, <2>1 DEF Later, Done, Clean
<1>3. CASE i \notin cl[d].items
  BY <1>3 DEF Later
<1> QED BY <1>2, <1>3

LEMMA MoveSaves ==
  ASSUME NEW p, NEW ex, NEW cl, NEW rq, NEW sq, NEW it, NEW ix, SaveType(p, ex, cl, rq, sq, it, ix),
         NEW c \in Calls, p[c] \in Released, NEW label \in Released,
         label \in {"observer", "outOfSync", "integrity", "complete"} => cl[c].mode = "Default"
  PROVE  Saves([p EXCEPT ![c] = label], ex, cl, sq, it, ix)
<1> DEFINE q == [p EXCEPT ![c] = label]
<1>0. q[c] = label /\ \A d \in Calls \ {c} : q[d] = p[d]
  BY DEF SaveType, StateType
<1>a. Released \cap (Idling \cup Preparing \cup {"run", "ran", "resolved"}) = {}
  BY DEF Released, Idling, Settled, Preparing, InFlight
<1>b. "idle" \in Idling /\ "queued" \in Idling /\ "presave" \in Preparing
  BY DEF Idling, Preparing
<1> HIDE DEF q
<1>1. \A b, d \in Calls : Answers(q, cl, d, b) <=> Answers(p, cl, d, b)
  BY <1>0, <1>a DEF Answers
<1>2. \A b, d \in Calls : Wakes(q, cl, d, b) <=> Wakes(p, cl, d, b)
  BY <1>0, <1>a, <1>b DEF Wakes
<1>3. Executors(q, ex, cl, ix)
  BY <1>0, <1>a, <1>b DEF SaveType, Saves, Executors
<1>4. SavesOwn(q, ex, cl, it)
  BY <1>0, <1>a DEF SaveType, Saves, SavesOwn
<1>5. LeavesToLater(q, ex, cl, it)
  BY <1>0, <1>1, <1>2, <1>a DEF SaveType, Saves, LeavesToLater
<1>6. SpawnsOwn(q, ex, cl, sq)
  BY <1>0, <1>2, <1>a, <1>b DEF SaveType, Saves, SpawnsOwn
<1> QED BY <1>3, <1>4, <1>5, <1>6 DEF q, Saves

LEMMA SettleSaves ==
  ASSUME NEW p, NEW ex, NEW cl, NEW rq, NEW sq, NEW it, NEW ix, SaveType(p, ex, cl, rq, sq, it, ix),
         NEW c \in Calls, p[c] \in Released, Done(cl, it, c)
  PROVE  Saves(Settle(p, cl[c].inTime \cup {c}), ex, cl, sq, it, ix)
<1> DEFINE q == Settle(p, cl[c].inTime \cup {c})
<1>a. /\ Released \cap (Idling \cup Preparing) = {}
      /\ "idle" \in Idling /\ "queued" \in Idling /\ "resolved" \in Idling
      /\ "resolved" \notin {"presave", "run", "ran", "queued", "idle"} \cup Released \cup Preparing
  BY DEF Released, Idling, Settled, Preparing, InFlight
<1>0. /\ q[c] = "resolved"
      /\ \A d \in cl[c].inTime : d \in Calls /\ p[d] = "queued" /\ q[d] = "resolved"
      /\ \A d \in Calls : d \notin cl[c].inTime \cup {c} => q[d] = p[d]
  <2>1. cl[c].inTime \subseteq Calls
    BY DEF SaveType, StateType, CallRecord
  <2>2. \A d \in cl[c].inTime : p[d] = "queued"
    BY <1>a, <2>1 DEF SaveType, Places, HeldAreQueued, Answers
  <2> QED BY <2>1, <2>2 DEF Settle
<1> HIDE DEF q
<1>1. \A b, d \in Calls : Answers(q, cl, d, b) => Answers(p, cl, d, b)
  BY <1>0, <1>a DEF Answers
<1>2. \A b, d \in Calls : Wakes(q, cl, d, b) <=> Wakes(p, cl, d, b)
  BY <1>0, <1>a DEF Wakes
<1>c. ex[c] /\ \A d \in cl[c].inTime : ~ex[d]
  BY <1>0, <1>a DEF SaveType, Saves, Executors, Released
<1>3. Executors(q, ex, cl, ix)
  <2>1. \A d \in Calls : q[d] \notin Idling \cup {"presave"} => ex[d]
    BY <1>0, <1>a DEF SaveType, Saves, Executors
  <2>2. \A d \in Calls : q[d] = "queued" => ~ex[d]
    BY <1>0, <1>a DEF SaveType, Saves, Executors
  <2>3. \A d \in Calls : q[d] \in {"observer", "outOfSync", "integrity", "complete"} =>
          cl[d].mode = "Default"
    BY <1>0 DEF SaveType, Saves, Executors
  <2> QED BY <2>1, <2>2, <2>3 DEF SaveType, Saves, Executors
<1>4. SavesOwn(q, ex, cl, it)
  BY <1>0, <1>a, <1>c DEF SaveType, Saves, SavesOwn
<1>5. LeavesToLater(q, ex, cl, it)
  <2>1. \A b, d \in Calls : q[b] \in Released /\ ex[d] /\ q[d] \in Preparing => Later(cl, it, d, b)
    BY <1>0, <1>a DEF SaveType, Saves, LeavesToLater
  <2>2. \A n, b \in Calls : Wakes(q, cl, n, b) /\ ex[b] /\ q[n] = "resolved" /\ ~ex[n] => Done(cl, it, b)
    <3> SUFFICES ASSUME NEW n \in Calls, NEW b \in Calls, Wakes(p, cl, n, b), ex[b],
                        q[n] = "resolved", ~ex[n]
                 PROVE  Done(cl, it, b)
      BY <1>2
    <3>1. CASE n \in cl[c].inTime
      <4>1. Answers(p, cl, c, n)
        BY <1>a, <3>1 DEF Answers
      <4>2. Later(cl, it, c, b)
        BY <4>1 DEF SaveType, Saves, LeavesToLater
      <4> QED BY <4>2, LaterIsEnough DEF SaveType, StateType
    <3>2. CASE n \notin cl[c].inTime
      BY <1>0, <1>c, <3>2 DEF SaveType, Saves, LeavesToLater
    <3> QED BY <3>1, <3>2
  <2> QED BY <1>1, <1>2, <2>1, <2>2 DEF SaveType, Saves, LeavesToLater
<1>6. SpawnsOwn(q, ex, cl, sq)
  <2>1. \A b \in Calls : q[b] = "queued" => p[b] = "queued"
    BY <1>0, <1>a
  <2> QED BY <1>2, <2>1 DEF SaveType, Saves, SpawnsOwn
<1> QED BY <1>3, <1>4, <1>5, <1>6 DEF q, Saves

LEMMA IdleSaves ==
  ASSUME NEW p, NEW ex, NEW cl, NEW rq, NEW sq, NEW it, NEW ix, SaveType(p, ex, cl, rq, sq, it, ix),
         NEW c \in Calls, p[c] = "resolved"
  PROVE  /\ Saves([p EXCEPT ![c] = "idle"], [ex EXCEPT ![c] = FALSE], [cl EXCEPT ![c] = NoCall], sq, it, ix)
         /\ cl[c].parent \in Calls /\ ex[cl[c].parent] => Done(cl, it, cl[c].parent)
         /\ cl[c].parent \in Calls /\ p[cl[c].parent] = "queued" =>
              cl[cl[c].parent].opts.strategy = "ForceSpawnNew"
<1> DEFINE q == [p EXCEPT ![c] = "idle"]
           e == [ex EXCEPT ![c] = FALSE]
           k == [cl EXCEPT ![c] = NoCall]
<1>0. /\ q[c] = "idle" /\ e[c] = FALSE /\ k[c].frozen = 0 /\ k[c].parent = None
      /\ \A d \in Calls \ {c} : q[d] = p[d] /\ k[d] = cl[d] /\ e[d] = ex[d]
  BY DEF SaveType, StateType, NoCall
<1>a. "idle" \in Idling \ (Released \cup Preparing)
  BY DEF Released, Idling, Settled, Preparing, InFlight
<1>b. \A d \in Calls : ~Wakes(p, cl, d, c) /\ ~Answers(p, cl, d, c)
  BY DEF SaveType, Places, HeldAreQueued, Waiting
<1>c. ~Spawning(sq, c)
  BY DEF SaveType, Places, HeldAreQueued
<1>d. Wakes(p, cl, c, cl[c].parent)
  BY DEF Wakes
<1> HIDE DEF q, e, k
<1>1. \A b, d \in Calls : Answers(q, k, d, b) => Answers(p, cl, d, b) /\ d # c /\ b # c
  BY <1>0, <1>a, <1>b DEF Answers
<1>2. \A b, d \in Calls : Wakes(q, k, d, b) => Wakes(p, cl, d, b) /\ d # c /\ b # c
  BY <1>0, <1>b DEF Wakes
<1>e. \A b, d \in Calls \ {c} : Later(k, it, d, b) <=> Later(cl, it, d, b)
  BY <1>0 DEF Later, Clean
<1>f. \A b \in Calls \ {c} : Done(k, it, b) <=> Done(cl, it, b)
  BY <1>0 DEF Done, Clean
<1>3. Executors(q, e, k, ix)
  BY <1>0, <1>a DEF SaveType, Saves, Executors
<1>4. SavesOwn(q, e, k, it)
  <2>1. \A d \in Calls : q[d] = "run" /\ k[d].mode = "Default" =>
       \A i \in k[d].items \ k[d].pending : Clean(k, it, d, i)
    BY <1>0 DEF SaveType, Saves, SavesOwn, Clean
  <2>2. \A d \in Calls : q[d] \in {"ran"} \cup Released /\ k[d].mode = "Default" => Done(k, it, d)
    BY <1>0, <1>a, <1>f DEF SaveType, Saves, SavesOwn
  <2>3. \A d \in Calls : q[d] = "resolved" /\ e[d] => Done(k, it, d)
    BY <1>0, <1>f DEF SaveType, Saves, SavesOwn
  <2> QED BY <2>1, <2>2, <2>3 DEF SavesOwn
<1>5. LeavesToLater(q, e, k, it)
  <2>1. \A b, d \in Calls : q[b] \in Released /\ e[d] /\ q[d] \in Preparing => Later(k, it, d, b)
    BY <1>0, <1>a, <1>e DEF SaveType, Saves, LeavesToLater
  <2>2. \A n, b \in Calls : Wakes(q, k, n, b) /\ e[b] /\ e[n] => Later(k, it, n, b)
    BY <1>0, <1>2, <1>e DEF SaveType, Saves, LeavesToLater
  <2>3. \A n, b \in Calls : Wakes(q, k, n, b) /\ e[b] /\ q[n] = "resolved" /\ ~e[n] => Done(k, it, b)
    BY <1>0, <1>2, <1>f DEF SaveType, Saves, LeavesToLater
  <2>4. \A n, b, d \in Calls : Wakes(q, k, n, b) /\ e[b] /\ Answers(q, k, d, n) => Later(k, it, d, b)
    BY <1>0, <1>1, <1>2, <1>e DEF SaveType, Saves, LeavesToLater
  <2> QED BY <2>1, <2>2, <2>3, <2>4 DEF LeavesToLater
<1>6. SpawnsOwn(q, e, k, sq)
  BY <1>0, <1>2, <1>c DEF SaveType, Saves, SpawnsOwn
<1>7. cl[c].parent \in Calls /\ ex[cl[c].parent] => Done(cl, it, cl[c].parent)
  <2> SUFFICES ASSUME cl[c].parent \in Calls, ex[cl[c].parent] PROVE Done(cl, it, cl[c].parent)
    OBVIOUS
  <2>1. CASE ex[c]
    <3>1. Later(cl, it, c, cl[c].parent)
      BY <1>d, <2>1 DEF SaveType, Saves, LeavesToLater
    <3>2. Done(cl, it, c)
      BY <2>1 DEF SaveType, Saves, SavesOwn
    <3> QED BY <3>1, <3>2, LaterIsEnough DEF SaveType, StateType
  <2>2. CASE ~ex[c]
    BY <1>d, <2>2 DEF SaveType, Saves, LeavesToLater
  <2> QED BY <2>1, <2>2
<1>8. cl[c].parent \in Calls /\ p[cl[c].parent] = "queued" => cl[cl[c].parent].opts.strategy = "ForceSpawnNew"
  BY <1>d DEF SaveType, Saves, SpawnsOwn
<1> QED BY <1>3, <1>4, <1>5, <1>6, <1>7, <1>8 DEF q, e, k, Saves

LEMMA WokenSaves ==
  ASSUME NEW p, NEW ex, NEW cl, NEW rq, NEW sq, NEW it, NEW ix, SaveType(p, ex, cl, rq, sq, it, ix),
         NEW b \in Calls, p[b] = "queued", cl[b].opts.strategy = "ForceSpawnNew"
  PROVE  Saves([p EXCEPT ![b] = "resolved"], ex, cl, sq, it, ix)
<1> DEFINE q == [p EXCEPT ![b] = "resolved"]
<1>0. q[b] = "resolved" /\ \A d \in Calls \ {b} : q[d] = p[d]
  BY DEF SaveType, StateType
<1>a. {"queued", "resolved"} \subseteq Idling \ (Released \cup Preparing)
  BY DEF Released, Idling, Settled, Preparing, InFlight
<1>b. ~ex[b] /\ \A d \in Calls : ex[d] => ~Wakes(p, cl, b, d)
  BY DEF SaveType, Saves, Executors, SpawnsOwn
<1> HIDE DEF q
<1>1. \A e, d \in Calls : Answers(q, cl, d, e) <=> Answers(p, cl, d, e)
  BY <1>0, <1>a DEF Answers
<1>2. \A e, d \in Calls : Wakes(q, cl, d, e) <=> Wakes(p, cl, d, e)
  BY <1>0 DEF Wakes
<1>3. Executors(q, ex, cl, ix)
  BY <1>0, <1>a DEF SaveType, Saves, Executors
<1>4. SavesOwn(q, ex, cl, it)
  BY <1>0, <1>a, <1>b DEF SaveType, Saves, SavesOwn
<1>5. LeavesToLater(q, ex, cl, it)
  BY <1>0, <1>1, <1>2, <1>a, <1>b DEF SaveType, Saves, LeavesToLater
<1>6. SpawnsOwn(q, ex, cl, sq)
  BY <1>0, <1>2 DEF SaveType, Saves, SpawnsOwn
<1> QED BY <1>3, <1>4, <1>5, <1>6 DEF q, Saves

(* A new call captures everything that is not saved.                       *)
LEMMA NewSaves ==
  ASSUME NEW p, NEW ex, NEW cl, NEW rq, NEW sq,
         SaveType(p, ex, cl, rq, sq, itemDirty, dirtyIndex),
         NEW parent \in Calls \cup {None}, NEW n \in Calls, p[n] = "idle", NEW opts, NEW lock \in BOOLEAN,
         parent \in Calls /\ ex[parent] => opts.strategy = "ResolveOnNext",
         parent \in Calls /\ p[parent] = "queued" => cl[parent].opts.strategy = "ForceSpawnNew",
         parent # n
  PROVE  Saves([p EXCEPT ![n] = "presave"], [ex EXCEPT ![n] = lock],
               [cl EXCEPT ![n] = NewCall(opts, parent)], sq, itemDirty, dirtyIndex)
<1> DEFINE q == [p EXCEPT ![n] = "presave"]
           e == [ex EXCEPT ![n] = lock]
           k == [cl EXCEPT ![n] = NewCall(opts, parent)]
           it == itemDirty
           ix == dirtyIndex
<1>0. /\ q[n] = "presave" /\ e[n] = lock
      /\ k[n].inTime = {} /\ k[n].parent = parent /\ k[n].opts = opts
      /\ k[n].frozen = ix /\ k[n].items = DirtyItems
      /\ \A d \in Calls \ {n} : q[d] = p[d] /\ k[d] = cl[d] /\ e[d] = ex[d]
  <2>1. /\ NewCall(opts, parent).inTime = {} /\ NewCall(opts, parent).parent = parent
        /\ NewCall(opts, parent).opts = opts /\ NewCall(opts, parent).frozen = dirtyIndex
        /\ NewCall(opts, parent).items = DirtyItems
    BY DEF NewCall, NoCall
  <2> QED BY <2>1 DEF SaveType, StateType
<1>a. /\ "presave" \notin Idling \cup Released /\ "idle" \notin Released \cup Preparing
      /\ "presave" \notin {"queued", "run", "ran", "resolved"} /\ "idle" \in Idling
  BY DEF Released, Idling, Settled, Preparing, InFlight
<1>b. /\ \A d \in Calls : ~Wakes(p, cl, d, n) /\ ~Answers(p, cl, d, n)
      /\ ~Spawning(sq, n)
  BY DEF SaveType, Places, HeldAreQueued, Waiting
<1> HIDE DEF q, e, k
<1>1. \A b, d \in Calls : Answers(q, k, d, b) => Answers(p, cl, d, b) /\ d # n /\ b # n
  BY <1>0, <1>a, <1>b DEF Answers
<1>2. \A b, d \in Calls : Wakes(q, k, d, b) =>
        b # n /\ (IF d = n THEN b = parent ELSE Wakes(p, cl, d, b))
  BY <1>0, <1>b DEF Wakes
<1>e. \A b, d \in Calls \ {n} : Later(k, it, d, b) <=> Later(cl, it, d, b)
  BY <1>0 DEF Later, Clean
<1>f. \A b \in Calls \ {n} : Done(k, it, b) <=> Done(cl, it, b)
  BY <1>0 DEF Done, Clean
<1>g. \A b \in Calls \ {n} : Later(k, it, n, b)
  <2> SUFFICES ASSUME NEW b \in Calls \ {n} PROVE Later(k, it, n, b)
    OBVIOUS
  <2>1. k[b].frozen <= k[n].frozen
    BY <1>0 DEF SaveType, Saves, Executors
  <2>2. \A i \in k[b].items \ k[n].items : Clean(k, it, b, i)
    <3> SUFFICES ASSUME NEW i \in k[b].items, i \notin DirtyItems PROVE it[i] = 0
      BY <1>0 DEF Clean
    <3>1. i \in Items
      BY <1>0 DEF SaveType, StateType, CallRecord
    <3>2. it[i] \in Nat
      BY <3>1 DEF SaveType
    <3> QED BY <3>1, <3>2 DEF DirtyItems
  <2> QED BY <2>1, <2>2 DEF Later
<1>3. Executors(q, e, k, ix)
  <2>1. \A d \in Calls : k[d].frozen <= ix
    BY <1>0 DEF SaveType, Saves, Executors
  <2> QED BY <1>0, <1>a, <2>1 DEF SaveType, Saves, Executors
<1>4. SavesOwn(q, e, k, it)
  <2>1. \A d \in Calls : q[d] = "run" /\ k[d].mode = "Default" =>
       \A i \in k[d].items \ k[d].pending : Clean(k, it, d, i)
    BY <1>0, <1>a DEF SaveType, Saves, SavesOwn, Clean
  <2>2. \A d \in Calls : q[d] \in {"ran"} \cup Released /\ k[d].mode = "Default" => Done(k, it, d)
    BY <1>0, <1>a, <1>f DEF SaveType, Saves, SavesOwn
  <2>3. \A d \in Calls : q[d] = "resolved" /\ e[d] => Done(k, it, d)
    BY <1>0, <1>a, <1>f DEF SaveType, Saves, SavesOwn
  <2> QED BY <2>1, <2>2, <2>3 DEF SavesOwn
<1>5. LeavesToLater(q, e, k, it)
  <2>1. \A b, d \in Calls : q[b] \in Released /\ e[d] /\ q[d] \in Preparing => Later(k, it, d, b)
    BY <1>0, <1>a, <1>e, <1>g DEF SaveType, Saves, LeavesToLater
  <2>2. \A m, b \in Calls : Wakes(q, k, m, b) /\ e[b] /\ e[m] => Later(k, it, m, b)
    BY <1>0, <1>2, <1>e, <1>g DEF SaveType, Saves, LeavesToLater
  <2>3. \A m, b \in Calls : Wakes(q, k, m, b) /\ e[b] /\ q[m] = "resolved" /\ ~e[m] => Done(k, it, b)
    BY <1>0, <1>2, <1>a, <1>f DEF SaveType, Saves, LeavesToLater
  <2>4. \A m, b, d \in Calls : Wakes(q, k, m, b) /\ e[b] /\ Answers(q, k, d, m) => Later(k, it, d, b)
    BY <1>0, <1>1, <1>2, <1>e DEF SaveType, Saves, LeavesToLater
  <2> QED BY <2>1, <2>2, <2>3, <2>4 DEF LeavesToLater
<1>6. SpawnsOwn(q, e, k, sq)
  <2>1. \A m, b \in Calls : Wakes(q, k, m, b) /\ e[b] => k[m].opts.strategy = "ResolveOnNext"
    BY <1>0, <1>2 DEF SaveType, Saves, SpawnsOwn
  <2>2. \A b \in Calls : Spawning(sq, b) => k[b].opts.strategy = "ForceSpawnNew"
    BY <1>0, <1>b DEF SaveType, Saves, SpawnsOwn
  <2>3. \A m, b \in Calls : Wakes(q, k, m, b) /\ q[b] = "queued" => k[b].opts.strategy = "ForceSpawnNew"
    BY <1>0, <1>2 DEF SaveType, Saves, SpawnsOwn
  <2> QED BY <2>1, <2>2, <2>3 DEF SpawnsOwn
<1> QED BY <1>3, <1>4, <1>5, <1>6 DEF q, e, k, Saves

LEMMA FewerSpawns ==
  ASSUME NEW p, NEW ex, NEW cl, NEW sq, NEW it, NEW ix, NEW t, Saves(p, ex, cl, sq, it, ix),
         \A b \in Calls : Spawning(t, b) => Spawning(sq, b)
  PROVE  Saves(p, ex, cl, t, it, ix)
BY DEF Saves, SpawnsOwn

LEMMA QueueSaves ==
  ASSUME NEW p, NEW ex, NEW cl, NEW rq, NEW sq, NEW it, NEW ix, SaveType(p, ex, cl, rq, sq, it, ix),
         NEW c \in Calls, p[c] = "presave", ~ex[c], NEW t,
         \A b \in Calls : Spawning(t, b) => \/ Spawning(sq, b)
                                            \/ b = c /\ cl[c].opts.strategy = "ForceSpawnNew"
  PROVE  Saves([p EXCEPT ![c] = "queued"], ex, cl, t, it, ix)
<1> DEFINE q == [p EXCEPT ![c] = "queued"]
<1>0. q[c] = "queued" /\ \A d \in Calls \ {c} : q[d] = p[d]
  BY DEF SaveType, StateType
<1>a. "queued" \in Idling \ (Released \cup Preparing) /\ "presave" \notin Released
  BY DEF Released, Idling, Settled, Preparing, InFlight
<1>b. \A d \in Calls : ~Wakes(p, cl, d, c)
  BY DEF SaveType, Places, HeldAreQueued, Waiting
<1> HIDE DEF q
<1>1. \A e, d \in Calls : Answers(q, cl, d, e) => Answers(p, cl, d, e)
  BY <1>0, <1>a DEF Answers
<1>2. \A e, d \in Calls : Wakes(q, cl, d, e) <=> Wakes(p, cl, d, e)
  BY <1>0 DEF Wakes
<1>3. Executors(q, ex, cl, ix)
  BY <1>0, <1>a DEF SaveType, Saves, Executors
<1>4. SavesOwn(q, ex, cl, it)
  BY <1>0, <1>a DEF SaveType, Saves, SavesOwn
<1>5. LeavesToLater(q, ex, cl, it)
  BY <1>0, <1>1, <1>2, <1>a DEF SaveType, Saves, LeavesToLater
<1>6. SpawnsOwn(q, ex, cl, t)
  BY <1>0, <1>2, <1>b DEF SaveType, Saves, SpawnsOwn
<1> QED BY <1>3, <1>4, <1>5, <1>6 DEF q, Saves

(* The requests a call finds when it begins were made by calls that let go *)
(* of the lock before it was called.                                       *)
LEMMA BeginSaves ==
  ASSUME NEW p, NEW ex, NEW cl, NEW rq, NEW sq, NEW it, NEW ix, SaveType(p, ex, cl, rq, sq, it, ix),
         NEW c \in Calls, p[c] = "presave", ex[c]
  PROVE  Saves([p EXCEPT ![c] = "begin"], ex, [cl EXCEPT ![c].inTime = rq], sq, it, ix)
<1> DEFINE q == [p EXCEPT ![c] = "begin"]
           k == [cl EXCEPT ![c].inTime = rq]
<1>0. /\ q[c] = "begin" /\ k[c].inTime = rq /\ k[c].parent = cl[c].parent /\ k[c].items = cl[c].items
      /\ k[c].frozen = cl[c].frozen /\ k[c].mode = cl[c].mode /\ k[c].opts = cl[c].opts
      /\ k[c].pending = cl[c].pending
      /\ \A d \in Calls \ {c} : q[d] = p[d] /\ k[d] = cl[d]
  BY DEF SaveType, StateType, CallRecord
<1>a. /\ "begin" \notin Idling \cup Released /\ "begin" \in Preparing /\ "presave" \in Preparing
      /\ "begin" \notin {"run", "ran", "resolved"}
      /\ \A s \in Waiting : s = "queued" \/ s \in Released
  BY DEF Released, Idling, Settled, Preparing, InFlight, Waiting
<1> HIDE DEF q, k
<1>1. \A b, d \in Calls : Answers(q, k, d, b) => Answers(p, cl, d, b) \/ d = c
  BY <1>0 DEF Answers
<1>2. \A b, d \in Calls : Wakes(q, k, d, b) <=> Wakes(p, cl, d, b)
  BY <1>0 DEF Wakes
<1>e. \A b, d \in Calls : Later(k, it, d, b) <=> Later(cl, it, d, b)
  <2>1. \A d \in Calls : k[d].frozen = cl[d].frozen /\ k[d].items = cl[d].items
    BY <1>0
  <2> QED BY <2>1 DEF Later, Clean
<1>f. \A b \in Calls : Done(k, it, b) <=> Done(cl, it, b)
  BY <1>0 DEF Done, Clean
<1>3. Executors(q, ex, k, ix)
  BY <1>0, <1>a DEF SaveType, Saves, Executors
<1>4. SavesOwn(q, ex, k, it)
  <2>1. \A d \in Calls : q[d] = "run" /\ k[d].mode = "Default" =>
       \A i \in k[d].items \ k[d].pending : Clean(k, it, d, i)
    BY <1>0, <1>a DEF SaveType, Saves, SavesOwn, Clean
  <2>2. \A d \in Calls : q[d] \in {"ran"} \cup Released /\ k[d].mode = "Default" => Done(k, it, d)
    BY <1>0, <1>a, <1>f DEF SaveType, Saves, SavesOwn
  <2>3. \A d \in Calls : q[d] = "resolved" /\ ex[d] => Done(k, it, d)
    BY <1>0, <1>a, <1>f DEF SaveType, Saves, SavesOwn
  <2> QED BY <2>1, <2>2, <2>3 DEF SavesOwn
<1>5. LeavesToLater(q, ex, k, it)
  <2>1. \A b, d \in Calls : q[b] \in Released /\ ex[d] /\ q[d] \in Preparing => Later(k, it, d, b)
    BY <1>0, <1>a, <1>e DEF SaveType, Saves, LeavesToLater
  <2>2. \A n, b \in Calls : Wakes(q, k, n, b) /\ ex[b] /\ ex[n] => Later(k, it, n, b)
    BY <1>2, <1>e DEF SaveType, Saves, LeavesToLater
  <2>3. \A n, b \in Calls : Wakes(q, k, n, b) /\ ex[b] /\ q[n] = "resolved" /\ ~ex[n] => Done(k, it, b)
    BY <1>0, <1>a, <1>2, <1>f DEF SaveType, Saves, LeavesToLater
  <2>4. \A n, b, d \in Calls : Wakes(q, k, n, b) /\ ex[b] /\ Answers(q, k, d, n) => Later(k, it, d, b)
    <3> SUFFICES ASSUME NEW n \in Calls, NEW b \in Calls, NEW d \in Calls, Wakes(p, cl, n, b), ex[b],
                        Answers(q, k, d, n)
                 PROVE  Later(cl, it, d, b)
      BY <1>2, <1>e
    <3>1. CASE d = c
      <4>1. p[b] \in Waiting
        BY DEF SaveType, Places, HeldAreQueued
      <4>2. p[b] \in Released
        BY <1>a, <4>1 DEF SaveType, Saves, Executors
      <4> QED BY <1>a, <3>1, <4>2 DEF SaveType, Saves, LeavesToLater
    <3>2. CASE d # c
      BY <1>1, <3>2 DEF SaveType, Saves, LeavesToLater
    <3> QED BY <3>1, <3>2
  <2> QED BY <2>1, <2>2, <2>3, <2>4 DEF LeavesToLater
<1>6. SpawnsOwn(q, ex, k, sq)
  <2>1. \A b \in Calls : k[b].opts = cl[b].opts /\ (q[b] = "queued" => p[b] = "queued")
    BY <1>0
  <2> QED BY <1>2, <2>1 DEF SaveType, Saves, SpawnsOwn
<1> QED BY <1>3, <1>4, <1>5, <1>6 DEF q, k, Saves

(* Its operation takes what the call captured, or nothing, to download.    *)
(* One round trip of c, if any, leaves the locals k.                       *)
Running(cl, it, k, c, label) ==
  /\ \A d \in Calls : /\ k[d].frozen = cl[d].frozen /\ k[d].items = cl[d].items
                       /\ k[d].inTime = cl[d].inTime /\ k[d].parent = cl[d].parent
                       /\ k[d].opts = cl[d].opts
  /\ \A d \in Calls \ {c} : k[d].mode = cl[d].mode /\ k[d].pending = cl[d].pending
  /\ k[c].mode = "Default" => \A i \in k[c].items \ k[c].pending : Clean(cl, it, c, i)
  /\ k[c].mode = "Default" /\ label = "ran" => Done(cl, it, c)

LEMMA RunSaves ==
  ASSUME NEW p, NEW ex, NEW cl, NEW rq, NEW sq, NEW it, NEW ix, SaveType(p, ex, cl, rq, sq, it, ix),
         NEW c \in Calls, p[c] \in {"begin", "run"}, NEW label \in {"run", "ran"}, NEW k,
         Running(cl, it, k, c, label)
  PROVE  Saves([p EXCEPT ![c] = label], ex, k, sq, it, ix)
<1> USE DEF Running
<1> DEFINE q == [p EXCEPT ![c] = label]
<1>0. q[c] = label /\ \A d \in Calls \ {c} : q[d] = p[d]
  BY DEF SaveType, StateType
<1>a. /\ {"begin", "run", "ran"} \cap (Idling \cup Released \cup {"presave"}) = {}
      /\ {"begin", "run", "ran"} \subseteq Preparing
      /\ {"idle", "queued", "resolved"} \subseteq Idling
      /\ {"observer", "outOfSync", "integrity", "complete"} \subseteq Released
  BY DEF Released, Idling, Settled, Preparing, InFlight
<1> HIDE DEF q
<1>1. \A b, d \in Calls : Answers(q, k, d, b) <=> Answers(p, cl, d, b)
  BY <1>0, <1>a DEF Answers
<1>2. \A b, d \in Calls : Wakes(q, k, d, b) <=> Wakes(p, cl, d, b)
  BY <1>0, <1>a DEF Wakes
<1>e. \A b, d \in Calls : Later(k, it, d, b) <=> Later(cl, it, d, b)
  BY DEF Later, Clean
<1>f. \A b \in Calls : Done(k, it, b) <=> Done(cl, it, b)
  BY DEF Done, Clean
<1>3. Executors(q, ex, k, ix)
  <2>1. \A d \in Calls : q[d] \in {"observer", "outOfSync", "integrity", "complete"} =>
          k[d].mode = "Default"
    BY <1>0, <1>a DEF SaveType, Saves, Executors
  <2>2. \A d \in Calls : q[d] \notin Idling \cup {"presave"} => ex[d]
    BY <1>0, <1>a DEF SaveType, Saves, Executors
  <2>3. \A d \in Calls : q[d] = "queued" => ~ex[d]
    BY <1>0 DEF SaveType, Saves, Executors
  <2> QED BY <2>1, <2>2, <2>3 DEF SaveType, Saves, Executors
<1>4. SavesOwn(q, ex, k, it)
  <2>1. \A d \in Calls : q[d] = "run" /\ k[d].mode = "Default" =>
       \A i \in k[d].items \ k[d].pending : Clean(k, it, d, i)
    BY <1>0 DEF SaveType, Saves, SavesOwn, Clean
  <2>2. \A d \in Calls : q[d] \in {"ran"} \cup Released /\ k[d].mode = "Default" => Done(k, it, d)
    BY <1>0, <1>a, <1>f DEF SaveType, Saves, SavesOwn
  <2>3. \A d \in Calls : q[d] = "resolved" /\ ex[d] => Done(k, it, d)
    BY <1>0, <1>a, <1>f DEF SaveType, Saves, SavesOwn
  <2> QED BY <2>1, <2>2, <2>3 DEF SavesOwn
<1>5. LeavesToLater(q, ex, k, it)
  <2>1. \A b, d \in Calls : q[b] \in Released /\ ex[d] /\ q[d] \in Preparing => Later(k, it, d, b)
    BY <1>0, <1>a, <1>e DEF SaveType, Saves, LeavesToLater
  <2>2. \A n, b \in Calls : Wakes(q, k, n, b) /\ ex[b] /\ ex[n] => Later(k, it, n, b)
    BY <1>2, <1>e DEF SaveType, Saves, LeavesToLater
  <2>3. \A n, b \in Calls : Wakes(q, k, n, b) /\ ex[b] /\ q[n] = "resolved" /\ ~ex[n] => Done(k, it, b)
    BY <1>0, <1>a, <1>2, <1>f DEF SaveType, Saves, LeavesToLater
  <2>4. \A n, b, d \in Calls : Wakes(q, k, n, b) /\ ex[b] /\ Answers(q, k, d, n) => Later(k, it, d, b)
    BY <1>1, <1>2, <1>e DEF SaveType, Saves, LeavesToLater
  <2> QED BY <2>1, <2>2, <2>3, <2>4 DEF LeavesToLater
<1>6. SpawnsOwn(q, ex, k, sq)
  <2>1. \A b \in Calls : q[b] = "queued" => p[b] = "queued"
    BY <1>0, <1>a
  <2> QED BY <1>2, <2>1 DEF SaveType, Saves, SpawnsOwn
<1> QED BY <1>3, <1>4, <1>5, <1>6 DEF q, Saves

(* The call that lets go of the lock is the only one that prepares.        *)
LEMMA FinishSaves ==
  ASSUME NEW p, NEW ex, NEW cl, NEW rq, NEW sq, NEW it, NEW ix, SaveType(p, ex, cl, rq, sq, it, ix),
         NEW c \in Calls, p[c] = "ran",
         \A d \in Calls \ {c} : ~(ex[d] /\ p[d] \in Preparing)
  PROVE  Saves([p EXCEPT ![c] = "finish"], ex, cl, sq, it, ix)
<1> DEFINE q == [p EXCEPT ![c] = "finish"]
<1>0. q[c] = "finish" /\ \A d \in Calls \ {c} : q[d] = p[d]
  BY DEF SaveType, StateType
<1>a. /\ "finish" \in Released /\ {"finish", "ran"} \cap (Idling \cup {"presave"}) = {}
      /\ "finish" \notin Preparing
      /\ {"idle", "queued", "resolved"} \subseteq Idling
  BY DEF Released, Idling, Settled, Preparing, InFlight
<1> HIDE DEF q
<1>1. \A b, d \in Calls : Answers(q, cl, d, b) <=> Answers(p, cl, d, b)
  BY <1>0, <1>a DEF Answers
<1>2. \A b, d \in Calls : Wakes(q, cl, d, b) <=> Wakes(p, cl, d, b)
  BY <1>0, <1>a DEF Wakes
<1>3. Executors(q, ex, cl, ix)
  BY <1>0, <1>a DEF SaveType, Saves, Executors
<1>4. SavesOwn(q, ex, cl, it)
  BY <1>0, <1>a DEF SaveType, Saves, SavesOwn
<1>5. LeavesToLater(q, ex, cl, it)
  <2>1. \A b, d \in Calls : q[b] \in Released /\ ex[d] /\ q[d] \in Preparing => Later(cl, it, d, b)
    BY <1>0, <1>a
  <2> QED BY <1>0, <1>1, <1>2, <1>a, <2>1 DEF SaveType, Saves, LeavesToLater
<1>6. SpawnsOwn(q, ex, cl, sq)
  BY <1>0, <1>2, <1>a DEF SaveType, Saves, SpawnsOwn
<1> QED BY <1>3, <1>4, <1>5, <1>6 DEF q, Saves

(* What is saved stays so: an edit draws an index after every freeze, and  *)
(* nothing but a save makes an item clean.                                 *)
LEMMA ItemsSave ==
  ASSUME NEW p, NEW ex, NEW cl, NEW rq, NEW sq, NEW it, NEW ix, SaveType(p, ex, cl, rq, sq, it, ix),
         NEW jt, NEW jx \in Nat, ix <= jx,
         \A c \in Calls : \A i \in Items : Clean(cl, it, c, i) => Clean(cl, jt, c, i)
  PROVE  Saves(p, ex, cl, sq, jt, jx)
<1>0. \A c \in Calls : cl[c].items \subseteq Items /\ cl[c].frozen \in Nat
  BY DEF SaveType, StateType, CallRecord
<1>1. \A c \in Calls : Done(cl, it, c) => Done(cl, jt, c)
  BY <1>0 DEF Done
<1>2. \A c, d \in Calls : Later(cl, it, d, c) => Later(cl, jt, d, c)
  BY <1>0 DEF Later
<1>3. Executors(p, ex, cl, jx)
  <2>1. \A c \in Calls : cl[c].frozen <= jx
    <3> SUFFICES ASSUME NEW c \in Calls PROVE cl[c].frozen <= jx
      OBVIOUS
    <3>1. cl[c].frozen <= ix /\ cl[c].frozen \in Nat /\ ix \in Nat
      BY <1>0 DEF SaveType, Saves, Executors
    <3> QED BY <3>1
  <2> QED BY <2>1 DEF SaveType, Saves, Executors
<1>4. SavesOwn(p, ex, cl, jt)
  <2>1. \A c \in Calls : p[c] = "run" /\ cl[c].mode = "Default" =>
       \A i \in cl[c].items \ cl[c].pending : Clean(cl, jt, c, i)
    BY <1>0 DEF SaveType, Saves, SavesOwn
  <2> QED BY <1>1, <2>1 DEF SaveType, Saves, SavesOwn
<1>5. LeavesToLater(p, ex, cl, jt)
  BY <1>1, <1>2 DEF SaveType, Saves, LeavesToLater
<1> QED BY <1>3, <1>4, <1>5 DEF SaveType, Saves

SavesNow == Saves(pc, executes, call, spawnQueue, itemDirty, dirtyIndex)

LEMMA SaveTypeNow ==
  ASSUME TypeOK, HeldNow(pc, call, resolveQueue, spawnQueue), SavesNow
  PROVE  SaveType(pc, executes, call, resolveQueue, spawnQueue, itemDirty, dirtyIndex)
BY TypeOfState DEF TypeOK, SaveType, HeldNow, SavesNow

LEMMA StartSaves ==
  ASSUME TypeOK, NEW opts \in SyncOptions, NEW parent \in Calls \cup {None},
         NEW p \in [Calls -> PCs], NEW sq \in Seq(Entries), StartSync(opts, parent, p),
         \A d \in Calls : pc[d] = "idle" => p[d] = "idle",
         Places(p, call, resolveQueue, sq),
         Saves(p, executes, call, sq, itemDirty, dirtyIndex),
         parent \in Calls => p[parent] \in Waiting,
         parent \in Calls /\ executes[parent] => opts.strategy = "ResolveOnNext",
         parent \in Calls /\ p[parent] = "queued" => call[parent].opts.strategy = "ForceSpawnNew"
  PROVE  Saves(pc', executes', call', sq, itemDirty, dirtyIndex)
<1> DEFINE n == NewSlot
<1>1. n \in Calls /\ pc[n] = "idle"
  BY NewSlotIsFree DEF StartSync
<1>2. /\ pc' = [p EXCEPT ![n] = "presave"]
      /\ executes' = [executes EXCEPT ![n] = CanExecute]
      /\ call' = [call EXCEPT ![n] = NewCall(opts, parent)]
  BY DEF StartSync
<1> HIDE DEF n
<1>3. SaveType(p, executes, call, resolveQueue, sq, itemDirty, dirtyIndex)
  BY DEF TypeOK, StateType, SaveType
<1>4. p[n] = "idle" /\ parent # n
  BY <1>1, SyncQueueAssumption DEF Waiting
<1>5. CanExecute \in BOOLEAN
  BY CanExecuteType
<1> QED BY <1>1, <1>2, <1>3, <1>4, <1>5, NewSaves

LEMMA ReleasedIsUnderWay ==
  /\ Released \subseteq PCs \ (Idling \cup {"presave", "begin"})
  /\ {"finish", "again", "downloaded", "integrity", "complete"} \cap Waiting = {}
  /\ {"observer", "outOfSync", "awaiting"} \subseteq Waiting
BY DEF Released, PCs, Idling, Waiting, Settled

LEMMA AwaitSaves ==
  ASSUME TypeOK, HeldNow(pc, call, resolveQueue, spawnQueue), SavesNow,
         NEW c \in Calls, pc[c] \in Released \ Waiting,
         NEW label \in {"observer", "outOfSync", "awaiting"},
         label = "awaiting" \/ call[c].mode = "Default",
         NEW opts \in SyncOptions, opts.strategy = "ResolveOnNext",
         StartSync(opts, c, [pc EXCEPT ![c] = label])
  PROVE  Saves(pc', executes', call', spawnQueue, itemDirty, dirtyIndex)
<1> DEFINE p == [pc EXCEPT ![c] = label]
<1>0. StateType(pc, call, resolveQueue, spawnQueue) /\ spawnQueue \in Seq(Entries)
  BY TypeOfState DEF StateType
<1>1. /\ label \in Released /\ label \in Waiting /\ label # "queued"
      /\ label \in PCs \ (Idling \cup {"presave", "begin"})
      /\ pc[c] \notin Idling \cup {"presave", "begin"}
  BY ReleasedIsUnderWay DEF Released
<1>2. /\ p \in [Calls -> PCs] /\ p[c] = label
      /\ \A d \in Calls : pc[d] = "idle" => p[d] = "idle"
  BY <1>1 DEF TypeOK, Idling
<1>3. Places(p, call, resolveQueue, spawnQueue)
  BY <1>0, <1>1, MoveHolds DEF HeldNow
<1>4. Saves(p, executes, call, spawnQueue, itemDirty, dirtyIndex)
  BY <1>1, SaveTypeNow, MoveSaves
<1>5. StartSync(opts, c, p)
  OBVIOUS
<1> HIDE DEF p
<1> QED BY <1>0, <1>1, <1>2, <1>3, <1>4, <1>5, StartSaves

LEMMA GoOnSaves ==
  ASSUME TypeOK, HeldNow(pc, call, resolveQueue, spawnQueue), SavesNow,
         NEW c \in Calls, pc[c] \in Released, NEW label \in Released,
         label \in {"observer", "outOfSync", "integrity", "complete"} => call[c].mode = "Default",
         Goto(c, label)
  PROVE  Saves(pc', executes, call, spawnQueue, itemDirty, dirtyIndex)
BY SaveTypeNow, MoveSaves DEF Goto

LEMMA ReturnSaves ==
  ASSUME TypeOK, HeldNow(pc, call, resolveQueue, spawnQueue), SavesNow,
         NEW c \in Calls, pc[c] \in Released, call[c].mode = "Default"
  PROVE  Saves(ReturnResolvingInTime(c), executes, call, spawnQueue, itemDirty, dirtyIndex)
<1>1. ReturnResolvingInTime(c) = Settle(pc, call[c].inTime \cup {c})
  BY DEF ReturnResolvingInTime, Settling, Settle
<1>2. Done(call, itemDirty, c)
  BY DEF SavesNow, Saves, SavesOwn
<1> QED BY <1>1, <1>2, SaveTypeNow, SettleSaves

LEMMA DetachSaves ==
  ASSUME TypeOK, HeldNow(pc, call, resolveQueue, spawnQueue), SavesNow,
         NEW c \in Calls, pc[c] \in Released \ Waiting, call[c].mode = "Default",
         NEW opts \in SyncOptions, StartSync(opts, None, ReturnResolvingInTime(c))
  PROVE  Saves(pc', executes', call', spawnQueue, itemDirty, dirtyIndex)
<1> DEFINE p == ReturnResolvingInTime(c)
<1>0. pc[c] \notin Idling \cup Waiting \cup {"presave", "begin"}
  BY ReleasedIsUnderWay
<1>1. Places(p, call, resolveQueue, spawnQueue)
  BY <1>0, ReturnHolds DEF HeldNow
<1>2. p \in [Calls -> PCs] /\ Saves(p, executes, call, spawnQueue, itemDirty, dirtyIndex)
  BY ReturnResolvingInTimeType, ReturnSaves
<1>3. \A d \in Calls : pc[d] = "idle" => p[d] = "idle"
  <2>1. \A d \in call[c].inTime : d \in Calls => pc[d] = "queued"
    BY <1>0 DEF HeldNow, Places, HeldAreQueued, Answers
  <2> QED BY <1>0, <2>1 DEF ReturnResolvingInTime, Settling, Idling
<1>4. spawnQueue \in Seq(Entries) /\ None \notin Calls /\ StartSync(opts, None, p)
  BY SyncQueueAssumption DEF TypeOK, Entries
<1> HIDE DEF p
<1> QED BY <1>1, <1>2, <1>3, <1>4, StartSaves

LEMMA DefaultStrategy ==
  ASSUME NEW a, NEW b
  PROVE  /\ DefaultOptions.strategy = "ResolveOnNext"
         /\ [DefaultOptions EXCEPT !.checkIntegrity = a].strategy = "ResolveOnNext"
         /\ [DefaultOptions EXCEPT !.checkIntegrity = a, !.awaitAll = b].strategy = "ResolveOnNext"
         /\ [DefaultOptions EXCEPT !.source = a, !.checkIntegrity = b].strategy = "ResolveOnNext"
BY DEF DefaultOptions

LEMMA ResponseSaves ==
  ASSUME TypeOK, HeldNow(pc, call, resolveQueue, spawnQueue), SavesNow, ~dealloced,
         NEW c \in Calls, ResponseSuccess(c)
  PROVE  SavesNow'
<1> DEFINE S == SaveType(pc, executes, call, resolveQueue, spawnQueue, itemDirty, dirtyIndex)
<1>0. S
  BY SaveTypeNow
<1>1. PICK page \in Pages(c) : RoundTrip(c, page) /\ itemDirty' = Saved(c, page)
  BY DEF ResponseSuccess
<1>2. /\ pc[c] = "run" /\ call' = [call EXCEPT ![c].pending = @ \ page]
      /\ pc' = [pc EXCEPT ![c] = IF call[c].pending = page THEN "ran" ELSE "run"]
      /\ UNCHANGED <<executes, resolveQueue, spawnQueue, dirtyIndex>>
  BY <1>1 DEF RoundTrip, Goto, ResponseSuccess, queues
<1>3. call \in [Calls -> CallRecord] /\ itemDirty \in [Items -> Nat] /\ dirtyIndex \in Nat
  BY DEF TypeOK
<1>4. page \subseteq call[c].pending /\ page \subseteq Items
  <2>1. call[c].pending \subseteq Items
    BY <1>3 DEF CallRecord
  <2>2. page \subseteq call[c].pending
    BY <1>1 DEF Pages
  <2> QED BY <2>1, <2>2
<1>5. /\ itemDirty' \in [Items -> Nat]
      /\ \A i \in Items : itemDirty'[i] = IF i \in page /\ itemDirty[i] <= call[c].frozen
                                            THEN 0 ELSE itemDirty[i]
  BY <1>1, <1>3 DEF Saved
<1>6. \A d \in Calls : \A i \in Items : Clean(call, itemDirty, d, i) => Clean(call, itemDirty', d, i)
  BY <1>5 DEF Clean
<1>7. Saves(pc, executes, call, spawnQueue, itemDirty', dirtyIndex)
  <2> DEFINE jt == itemDirty'
  <2>1. dirtyIndex \in Nat /\ dirtyIndex <= dirtyIndex
    BY <1>3
  <2>2. \A d \in Calls : \A i \in Items : Clean(call, itemDirty, d, i) => Clean(call, jt, d, i)
    BY <1>6
  <2> HIDE DEF jt, S
  <2> QED BY <1>0, <2>1, <2>2, ItemsSave DEF S, jt
<1>8. SaveType(pc, executes, call, resolveQueue, spawnQueue, itemDirty', dirtyIndex)
  BY <1>0, <1>5, <1>7 DEF SaveType
<1>9. \A i \in page : Clean(call, itemDirty', c, i)
  <2> SUFFICES ASSUME NEW i \in page PROVE Clean(call, itemDirty', c, i)
    OBVIOUS
  <2>1. call[c].frozen \in Nat /\ itemDirty[i] \in Nat
    BY <1>3, <1>4 DEF CallRecord
  <2> QED BY <1>4, <1>5, <2>1 DEF Clean
<1>10. \A d \in Calls : /\ call'[d].frozen = call[d].frozen /\ call'[d].items = call[d].items
                        /\ call'[d].inTime = call[d].inTime /\ call'[d].parent = call[d].parent
                        /\ call'[d].opts = call[d].opts /\ call'[d].mode = call[d].mode
                        /\ d # c => call'[d].pending = call[d].pending
  <2>1. \A d \in Calls \ {c} : call'[d] = call[d]
    BY <1>2, <1>3
  <2>2. call'[c] = [call[c] EXCEPT !.pending = @ \ page] /\ call[c] \in CallRecord
    BY <1>2, <1>3
  <2> QED BY <2>1, <2>2 DEF CallRecord
<1>11. call'[c].pending = call[c].pending \ page
  <2>2. call'[c] = [call[c] EXCEPT !.pending = @ \ page] /\ call[c] \in CallRecord
    BY <1>2, <1>3
  <2> QED BY <2>2 DEF CallRecord
<1>12. call[c].mode = "Default" => \A i \in call[c].items \ (call[c].pending \ page) : Clean(call, itemDirty', c, i)
  <2>1. call[c].mode = "Default" => \A i \in call[c].items \ call[c].pending : Clean(call, itemDirty', c, i)
    BY <1>2, <1>7 DEF Saves, SavesOwn
  <2> QED BY <1>9, <2>1
<1>13. call[c].mode = "Default" /\ call[c].pending = page => Done(call, itemDirty', c)
  BY <1>12 DEF Done
<1> DEFINE jt == itemDirty'
           k == call'
           label == IF call[c].pending = page THEN "ran" ELSE "run"
<1>14. Saves([pc EXCEPT ![c] = label], executes, k, spawnQueue, jt, dirtyIndex)
  <2>1. label \in {"run", "ran"} /\ (label = "ran" => call[c].pending = page)
    OBVIOUS
  <2>2. pc[c] \in {"begin", "run"}
    BY <1>2
  <2>3. SaveType(pc, executes, call, resolveQueue, spawnQueue, jt, dirtyIndex)
    BY <1>8
  <2>4. \A d \in Calls : /\ k[d].frozen = call[d].frozen /\ k[d].items = call[d].items
                          /\ k[d].inTime = call[d].inTime /\ k[d].parent = call[d].parent
                          /\ k[d].opts = call[d].opts
    BY <1>10
  <2>5. \A d \in Calls \ {c} : k[d].mode = call[d].mode /\ k[d].pending = call[d].pending
    BY <1>10
  <2>6. k[c].mode = "Default" => \A i \in k[c].items \ k[c].pending : Clean(call, jt, c, i)
    BY <1>10, <1>11, <1>12
  <2>7. k[c].mode = "Default" /\ label = "ran" => Done(call, jt, c)
    BY <1>10, <1>13, <2>1
  <2> HIDE DEF jt, k, label
  <2>8. Running(call, jt, k, c, label)
    BY <2>4, <2>5, <2>6, <2>7 DEF Running
  <2> QED BY <2>1, <2>2, <2>3, <2>8, RunSaves
<1> QED BY <1>2, <1>14 DEF SavesNow

LEMMA SpawnSaves ==
  ASSUME TypeOK, HeldNow(pc, call, resolveQueue, spawnQueue), SavesNow,
         NEW c \in Calls, SpawnNext(c)
  PROVE  SavesNow'
<1> USE DEF queues, data
<1> DEFINE h == Head(spawnQueue)
           b == h.call
           t == Tail(spawnQueue)
<1>0. StateType(pc, call, resolveQueue, spawnQueue) /\ "queued" \in Waiting
  BY TypeOfState DEF Waiting
<1>1. /\ t \in Seq(Entries) /\ h \in Entries /\ pc[b] = "queued" /\ spawnQueue' = t
      /\ Spawning(spawnQueue, b)
      /\ Places(pc, call, resolveQueue, t) /\ HeldBut({b}, pc, call, resolveQueue, t)
      /\ Unheld(pc, call, resolveQueue, t, b)
  BY <1>0, PopHolds DEF SpawnNext, HeldNow
<1>2. /\ b \in Calls /\ h.opts \in SyncOptions /\ pc[c] = "again" /\ b # c
      /\ call[c].mode = "Default" /\ UNCHANGED <<resolveQueue, itemDirty, dirtyIndex>>
  BY <1>1 DEF SpawnNext, Entries
<1>3. \A d \in Calls : Spawning(t, d) => Spawning(spawnQueue, d)
  <2>1. /\ Len(t) = Len(spawnQueue) - 1 /\ Len(spawnQueue) \in Nat
        /\ \A i \in 1..Len(t) : t[i] = spawnQueue[i + 1]
        /\ DOMAIN t = 1..Len(t) /\ DOMAIN spawnQueue = 1..Len(spawnQueue)
    BY <1>0, HeadTailProperties DEF SpawnNext, StateType
  <2> SUFFICES ASSUME NEW d \in Calls, NEW i \in DOMAIN t, t[i].call = d
               PROVE  Spawning(spawnQueue, d)
    BY DEF Spawning
  <2>2. i + 1 \in DOMAIN spawnQueue /\ spawnQueue[i + 1].call = d
    BY <2>1
  <2> QED BY <2>2 DEF Spawning
<1>4. SaveType(pc, executes, call, resolveQueue, t, itemDirty, dirtyIndex)
  <2>1. Saves(pc, executes, call, t, itemDirty, dirtyIndex)
    BY <1>3, FewerSpawns DEF SavesNow
  <2> QED BY <1>0, <1>1, <2>1 DEF TypeOK, StateType, SaveType
<1>5. ~executes[b] /\ call[b].opts.strategy = "ForceSpawnNew"
  BY <1>1, <1>2 DEF SavesNow, Saves, Executors, SpawnsOwn
<1>a. /\ AllDone(c) \in {"integrity", "complete"} /\ {"again", "integrity", "complete", "awaiting"} \subseteq Released
      /\ {"again", "integrity", "complete", "awaiting"} \cap (Idling \cup {"presave", "begin"}) = {}
      /\ {"integrity", "complete", "awaiting", "presave", "again"} \subseteq PCs
      /\ "awaiting" \in Waiting /\ "again" \notin Waiting
  BY DEF AllDone, Released, Idling, Settled, PCs, Waiting
<1>6. CASE ~SomethingDirty
  <2> DEFINE p == [pc EXCEPT ![c] = AllDone(c)]
  <2>1. StartSync(h.opts, b, p)
    BY <1>6 DEF SpawnNext
  <2>2. /\ p \in [Calls -> PCs] /\ \A d \in Calls : pc[d] = "idle" => p[d] = "idle"
        /\ p[b] = "queued"
    BY <1>1, <1>2, <1>a DEF TypeOK
  <2>3. Places(p, call, resolveQueue, t)
    <3>1. \A d \in Calls : ~Wakes(pc, call, d, c)
      BY <1>1, <1>2, <1>a, WokenWait
    <3>2. StateType(pc, call, resolveQueue, t)
      BY <1>4 DEF SaveType
    <3>3. AllDone(c) \in PCs \ (Idling \cup {"presave", "begin"}) /\ pc[c] \notin Idling \cup {"presave", "begin"}
      BY <1>2, <1>a
    <3> QED BY <1>1, <3>1, <3>2, <3>3, MoveHolds
  <2>4. Saves(p, executes, call, t, itemDirty, dirtyIndex)
    <3>1. AllDone(c) \in Released /\ pc[c] \in Released
      BY <1>2, <1>a
    <3> QED BY <1>2, <1>4, <3>1, MoveSaves
  <2>5. Saves(pc', executes', call', t, itemDirty, dirtyIndex)
    <3> HIDE DEF p, h, b, t
    <3> QED BY <1>0, <1>1, <1>2, <1>5, <2>1, <2>2, <2>3, <2>4, StartSaves
  <2> QED BY <1>1, <1>2, <2>5 DEF SavesNow
<1>7. CASE SomethingDirty
  <2> DEFINE n == NewSlot
             s == SecondSlot
             p1 == [pc EXCEPT ![n] = "presave"]
             e1 == [executes EXCEPT ![n] = CanExecute]
             k1 == [call EXCEPT ![n] = NewCall(h.opts, b)]
             p2 == [p1 EXCEPT ![c] = "awaiting"]
  <2>1. /\ n \in Calls /\ pc[n] = "idle" /\ s \in Calls /\ pc[s] = "idle" /\ s # n
        /\ c # n /\ c # s /\ b # n
    <3>1. Free # {} /\ Cardinality(Free) > 1
      <4>1. Cardinality(Free) > 1
        BY <1>7 DEF SpawnNext
      <4>2. Cardinality({}) = 0
        BY FS_EmptySet
      <4> QED BY <4>1, <4>2
    <3> QED BY <1>1, <1>2, <3>1, NewSlotIsFree, SecondSlotIsFree
  <2>2. /\ pc' = [pc EXCEPT ![n] = "presave", ![s] = "presave", ![c] = "awaiting"]
        /\ executes' = [executes EXCEPT ![n] = CanExecute, ![s] = FALSE]
        /\ call' = [call EXCEPT ![n] = NewCall(h.opts, b), ![s] = NewCall(MoreDirtyOptions(c), c)]
    BY <1>7 DEF SpawnNext
  <2>3. NewCall(h.opts, b) \in CallRecord /\ CanExecute \in BOOLEAN
    BY <1>2, NewCallType, CanExecuteType
  <2> HIDE DEF n, s, h, b, t
  <2>4. SaveType(p1, e1, k1, resolveQueue, t, itemDirty, dirtyIndex)
    <3>1. Saves(p1, e1, k1, t, itemDirty, dirtyIndex)
      BY <1>2, <1>4, <1>5, <2>1, <2>3, NewSaves
    <3>2. Places(p1, k1, resolveQueue, t)
      <4>1. \A d \in Calls : ~Wakes(pc, call, d, b)
        BY <1>1 DEF Unheld
      <4> QED BY <1>0, <1>1, <1>2, <1>4, <2>1, <4>1, NewHolds DEF SaveType
    <3> QED BY <1>4, <1>a, <2>1, <2>3, <3>1, <3>2 DEF SaveType, StateType
  <2>5. p1[c] = "again" /\ \A d \in Calls : ~Wakes(p1, k1, d, c)
    <3>1. p1[c] = "again"
      BY <1>2, <2>1 DEF TypeOK
    <3> QED BY <1>a, <2>4, <3>1, WokenWait DEF SaveType
  <2>6. SaveType(p2, e1, k1, resolveQueue, t, itemDirty, dirtyIndex)
    <3> HIDE DEF p1, k1, e1
    <3>1. Saves(p2, e1, k1, t, itemDirty, dirtyIndex)
      BY <1>a, <2>4, <2>5, MoveSaves
    <3>2. Places(p2, k1, resolveQueue, t)
      <4>1. /\ "awaiting" \in PCs \ (Idling \cup {"presave", "begin"})
            /\ p1[c] \notin Idling \cup {"presave", "begin"} /\ HeldBut(Calls, p1, k1, resolveQueue, t)
        BY <1>a, <2>5 DEF HeldBut
      <4> QED BY <1>a, <2>4, <4>1, MoveHolds DEF SaveType
    <3> QED BY <1>a, <2>4, <3>1, <3>2 DEF SaveType, StateType
  <2>7. p2[s] = "idle" /\ p2[c] = "awaiting"
    BY <2>1 DEF TypeOK
  <2>8. MoreDirtyOptions(c).strategy = "ResolveOnNext"
    BY DefaultStrategy DEF MoreDirtyOptions
  <2>9. Saves([p2 EXCEPT ![s] = "presave"], [e1 EXCEPT ![s] = FALSE],
              [k1 EXCEPT ![s] = NewCall(MoreDirtyOptions(c), c)], t, itemDirty, dirtyIndex)
    <3> HIDE DEF p2, e1, k1
    <3> QED BY <2>1, <2>6, <2>7, <2>8, NewSaves
  <2>10. /\ pc' = [p2 EXCEPT ![s] = "presave"] /\ executes' = [e1 EXCEPT ![s] = FALSE]
         /\ call' = [k1 EXCEPT ![s] = NewCall(MoreDirtyOptions(c), c)]
    BY <2>1, <2>2 DEF TypeOK
  <2> QED BY <1>1, <1>2, <2>9, <2>10 DEF SavesNow
<1> QED BY <1>6, <1>7

LEMMA SettledSaves ==
  ASSUME TypeOK, NoFaultYet, HeldNow(pc, call, resolveQueue, spawnQueue), SavesNow,
         NEW c \in Calls, Return(c)
  PROVE  SavesNow'
<1> USE DEF queues, data
<1> DEFINE a == call[c].parent
           p == [pc EXCEPT ![c] = "idle"]
           e == [executes EXCEPT ![c] = FALSE]
           k == [call EXCEPT ![c] = NoCall]
<1>0. StateType(pc, call, resolveQueue, spawnQueue) /\ call[c] \in CallRecord
  BY TypeOfState DEF StateType
<1>1. pc[c] = "resolved"
  BY DEF Return, Settled, NoFaultYet
<1>2. Places(p, k, resolveQueue, spawnQueue)
  BY <1>0, <1>1, IdleHolds DEF HeldNow, Settled
<1>3. /\ Saves(p, e, k, spawnQueue, itemDirty, dirtyIndex)
      /\ a \in Calls /\ executes[a] => Done(call, itemDirty, a)
      /\ a \in Calls /\ pc[a] = "queued" => call[a].opts.strategy = "ForceSpawnNew"
  BY <1>1, SaveTypeNow, IdleSaves
<1>4. /\ call' = k /\ executes' = e
      /\ UNCHANGED <<resolveQueue, spawnQueue, itemDirty, dirtyIndex>>
      /\ pc' = [(IF a = None THEN pc ELSE Resume(a, "resolved")) EXCEPT ![c] = "idle"]
  BY <1>1 DEF Return
<1>5. SaveType(p, e, k, resolveQueue, spawnQueue, itemDirty, dirtyIndex)
  <2>1. p \in [Calls -> PCs] /\ e \in [Calls -> BOOLEAN] /\ k \in [Calls -> CallRecord]
    BY NoCallType DEF TypeOK, PCs
  <2> QED BY <1>0, <1>2, <1>3, <2>1 DEF SaveType, StateType, TypeOK
<1>6. CASE a = None
  BY <1>3, <1>4, <1>6 DEF SavesNow
<1>7. CASE a # None
  <2>1. a \in Calls
    BY <1>0, <1>7 DEF CallRecord
  <2>2. pc[a] \in Waiting /\ a # c
    <3>1. Wakes(pc, call, c, a)
      BY <1>1 DEF Wakes
    <3> QED BY <1>1, <2>1, <3>1 DEF HeldNow, Places, HeldAreQueued, Waiting
  <2>3. p[a] = pc[a] /\ k[a] = call[a]
    BY <2>1, <2>2 DEF TypeOK
  <2>4. {"observer", "outOfSync", "awaiting", "again", "complete"} \subseteq Released
    BY DEF Released
  <2>a. ASSUME NEW q, pc' = q, Saves(q, e, k, spawnQueue, itemDirty, dirtyIndex) PROVE SavesNow'
    BY <1>4, <2>a DEF SavesNow
  <2>5. CASE pc[a] = "queued"
    <3>1. pc' = [p EXCEPT ![a] = "resolved"]
      BY <1>4, <1>7, <2>1, <2>2, <2>5 DEF Resume, TypeOK
    <3>2. k[a].opts.strategy = "ForceSpawnNew"
      BY <1>3, <2>1, <2>3, <2>5
    <3> HIDE DEF a, p, e, k
    <3>3. Saves([p EXCEPT ![a] = "resolved"], e, k, spawnQueue, itemDirty, dirtyIndex)
      BY <1>5, <2>1, <2>3, <2>5, <3>2, WokenSaves
    <3> QED BY <2>a, <3>1, <3>3
  <2>6. CASE pc[a] = "observer"
    <3>1. pc' = [p EXCEPT ![a] = "again"]
      BY <1>4, <1>7, <2>1, <2>2, <2>6 DEF Resume, TypeOK
    <3> HIDE DEF a, p, e, k
    <3>3. Saves([p EXCEPT ![a] = "again"], e, k, spawnQueue, itemDirty, dirtyIndex)
      BY <1>5, <2>1, <2>3, <2>4, <2>6, MoveSaves
    <3> QED BY <2>a, <3>1, <3>3
  <2>7. CASE pc[a] = "outOfSync"
    <3>1. pc' = [p EXCEPT ![a] = "complete"]
      BY <1>4, <1>7, <2>1, <2>2, <2>7 DEF Resume, TypeOK
    <3>2. k[a].mode = "Default"
      BY <2>1, <2>3, <2>7 DEF SavesNow, Saves, Executors
    <3> HIDE DEF a, p, e, k
    <3>3. Saves([p EXCEPT ![a] = "complete"], e, k, spawnQueue, itemDirty, dirtyIndex)
      BY <1>5, <2>1, <2>3, <2>4, <2>7, <3>2, MoveSaves
    <3> QED BY <2>a, <3>1, <3>3
  <2>8. CASE pc[a] = "awaiting"
    <3>0. "awaiting" \notin Idling \cup {"presave"}
      BY DEF Idling, Settled
    <3>1. pc' = [ReturnResolvingInTime(a) EXCEPT ![c] = "idle"]
      BY <1>4, <1>7, <2>8 DEF Resume
    <3>2. c \notin call[a].inTime
      <4>1. Answers(pc, call, a, c) \/ c \notin call[a].inTime
        BY <2>8, <3>0 DEF Answers
      <4> QED BY <1>1, <2>1, <4>1 DEF HeldNow, Places, HeldAreQueued
    <3>3. pc' = Settle(p, k[a].inTime \cup {a})
      BY <2>1, <2>2, <2>3, <3>1, <3>2 DEF ReturnResolvingInTime, Settling, Settle, TypeOK
    <3>4. Done(k, itemDirty, a)
      <4>1. executes[a]
        BY <2>1, <2>8, <3>0 DEF SavesNow, Saves, Executors
      <4> QED BY <1>3, <2>1, <2>3, <4>1 DEF Done, Clean
    <3> HIDE DEF a, p, e, k
    <3>5. Saves(Settle(p, k[a].inTime \cup {a}), e, k, spawnQueue, itemDirty, dirtyIndex)
      BY <1>5, <2>1, <2>3, <2>4, <2>8, <3>4, SettleSaves
    <3> QED BY <2>a, <3>3, <3>5
  <2> QED BY <2>2, <2>5, <2>6, <2>7, <2>8 DEF Waiting
<1> QED BY <1>6, <1>7

LEMMA SegmentSaves ==
  ASSUME TypeOK, LockInv, NoFaultYet, HeldNow(pc, call, resolveQueue, spawnQueue), SavesNow,
         NEW c \in Calls, Segment(c), ~EncryptionFails(c), ~ResponseError(c)
  PROVE  SavesNow'
<1> USE DEF queues, data
<1>0. StateType(pc, call, resolveQueue, spawnQueue) /\ call[c] \in CallRecord
  BY TypeOfState DEF StateType
<1>a. ~dealloced /\ ~clientLocked /\ ~opError
  BY DEF NoFaultYet
<1>b. ASSUME Saves(pc', executes', call', spawnQueue, itemDirty, dirtyIndex),
             UNCHANGED <<spawnQueue, itemDirty, dirtyIndex>>
      PROVE  SavesNow'
  BY <1>b DEF SavesNow
<1>c. ASSUME pc[c] \in Released, NEW label \in Released,
             label \in {"observer", "outOfSync", "integrity", "complete"} => call[c].mode = "Default",
             Goto(c, label), UNCHANGED <<executes, call, spawnQueue, itemDirty, dirtyIndex>>
      PROVE  SavesNow'
  BY <1>b, <1>c, GoOnSaves
<1>d. /\ {"finish", "again", "downloaded", "integrity", "complete"} \subseteq Released \ Waiting
      /\ {"observer", "outOfSync", "awaiting"} \subseteq Released
      /\ AllDone(c) \in {"integrity", "complete"}
  BY DEF Released, Waiting, AllDone
<1>e. pc[c] \in {"integrity", "complete"} => call[c].mode = "Default"
  BY DEF SavesNow, Saves, Executors
<1>f. SaveType(pc, executes, call, resolveQueue, spawnQueue, itemDirty, dirtyIndex)
  BY SaveTypeNow
<1>1. CASE Defer(c)
  <2>1. /\ pc' = [pc EXCEPT ![c] = "queued"] /\ pc[c] = "presave" /\ call' = call /\ ~executes[c]
        /\ UNCHANGED <<executes, itemDirty, dirtyIndex>>
    BY <1>1 DEF Defer, Goto
  <2> DEFINE t == spawnQueue'
             entry == [call |-> c, opts |-> [call[c].opts EXCEPT !.awaitAll = FALSE]]
  <2>2. \A b \in Calls : Spawning(t, b) => \/ Spawning(spawnQueue, b)
                                           \/ b = c /\ call[c].opts.strategy = "ForceSpawnNew"
    <3>1. CASE t = spawnQueue
      BY <3>1
    <3>2. CASE t # spawnQueue
      <4>1. t = Append(spawnQueue, entry) /\ call[c].opts.strategy = "ForceSpawnNew"
        <5>1. call[c].opts.strategy # "ResolveOnNext" /\ t = Append(spawnQueue, entry)
          BY <1>1, <3>2 DEF Defer
        <5> QED BY <1>0, <5>1 DEF CallRecord, SyncOptions, Strategies
      <4>2. entry.call = c /\ entry \in Entries
        <5>1. call[c].opts \in SyncOptions
          BY <1>0 DEF CallRecord
        <5> QED BY <5>1, OptionsUpdate DEF Entries
      <4> HIDE DEF t, entry
      <4>3. \A b \in Calls : Spawning(t, b) => Spawning(spawnQueue, b) \/ (b = c /\ t # spawnQueue)
        <5>1. \A i \in DOMAIN t : t[i].call = c \/ (i \in DOMAIN spawnQueue /\ t[i] = spawnQueue[i])
          <6>1. spawnQueue \in Seq(Entries)
            BY <1>0 DEF StateType
          <6>2. Len(t) = Len(spawnQueue) + 1 /\ Len(spawnQueue) \in Nat /\ t \in Seq(Entries)
            BY <4>1, <4>2, <6>1
          <6>3. \A i \in 1..Len(t) : t[i] = IF i <= Len(spawnQueue) THEN spawnQueue[i] ELSE entry
            BY <4>1, <4>2, <6>1
          <6>4. DOMAIN t = 1..Len(t) /\ DOMAIN spawnQueue = 1..Len(spawnQueue)
            BY <6>1, <6>2
          <6> QED BY <4>2, <6>2, <6>3, <6>4
        <5> QED BY <3>2, <5>1 DEF Spawning
      <4> QED BY <4>1, <4>3
    <3> QED BY <3>1, <3>2
  <2>3. Saves([pc EXCEPT ![c] = "queued"], executes, call, t, itemDirty, dirtyIndex)
    <3> HIDE DEF t
    <3> QED BY <1>f, <2>1, <2>2, QueueSaves
  <2> QED BY <2>1, <2>3 DEF SavesNow
<1>2. CASE Begin(c)
  <2>1. /\ pc[c] = "presave" /\ executes[c] /\ pc' = [pc EXCEPT ![c] = "begin"]
        /\ call' = [call EXCEPT ![c].inTime = resolveQueue]
        /\ UNCHANGED <<executes, spawnQueue, itemDirty, dirtyIndex>>
    BY <1>2 DEF Begin, Goto
  <2>2. Saves([pc EXCEPT ![c] = "begin"], executes, [call EXCEPT ![c].inTime = resolveQueue],
              spawnQueue, itemDirty, dirtyIndex)
    BY <1>f, <2>1, BeginSaves
  <2> QED BY <1>b, <2>1, <2>2
<1>3. CASE RunSyncOperation(c)
  <2>1. PICK on, mode :
          call' = [call EXCEPT ![c].online = on, ![c].mode = mode,
                     ![c].pending = IF mode = "Default" THEN call[c].items ELSE {}]
    BY <1>3 DEF RunSyncOperation
  <2>2. /\ pc[c] = "begin" /\ pc' = [pc EXCEPT ![c] = "run"]
        /\ UNCHANGED <<executes, spawnQueue, itemDirty, dirtyIndex>>
    BY <1>3 DEF RunSyncOperation, Goto
  <2> DEFINE pending == IF mode = "Default" THEN call[c].items ELSE {}
             r == [call[c] EXCEPT !.online = on, !.mode = mode, !.pending = pending]
             k == call'
  <2>3. k[c] = r /\ \A d \in Calls \ {c} : k[d] = call[d]
    BY <2>1 DEF TypeOK
  <2>4. /\ r.frozen = call[c].frozen /\ r.items = call[c].items /\ r.inTime = call[c].inTime
        /\ r.parent = call[c].parent /\ r.opts = call[c].opts /\ r.mode = mode /\ r.pending = pending
    BY <1>0 DEF CallRecord
  <2>5. Running(call, itemDirty, k, c, "run")
    BY <2>3, <2>4 DEF Running
  <2>6. Saves([pc EXCEPT ![c] = "run"], executes, k, spawnQueue, itemDirty, dirtyIndex)
    <3> HIDE DEF k
    <3> QED BY <1>f, <2>2, <2>5, RunSaves
  <2> QED BY <1>b, <2>2, <2>6
<1>4. CASE ResponseSuccess(c)
  BY <1>4, <1>a, ResponseSaves
<1>5. CASE FinishOperation(c)
  <2>1. /\ pc[c] = "ran" /\ pc' = [pc EXCEPT ![c] = "finish"]
        /\ UNCHANGED <<executes, call, spawnQueue, itemDirty, dirtyIndex>>
    BY <1>5, <1>a DEF FinishOperation, Goto
  <2>2. \A d \in Calls \ {c} : ~(executes[d] /\ pc[d] \in Preparing)
    BY <2>1 DEF LockInv, Holding, Preparing, InFlight
  <2>3. Saves([pc EXCEPT ![c] = "finish"], executes, call, spawnQueue, itemDirty, dirtyIndex)
    BY <1>f, <2>1, <2>2, FinishSaves
  <2> QED BY <1>b, <2>1, <2>3
<1>6. CASE NotifyUploaded(c)
  <2>1. pc[c] = "finish" /\ UNCHANGED <<spawnQueue, itemDirty, dirtyIndex>>
    BY <1>6 DEF NotifyUploaded
  <2>2. CASE StartSync(DefaultOptions, c, [pc EXCEPT ![c] = "observer"]) /\ call[c].mode = "Default"
    <3>1. Saves(pc', executes', call', spawnQueue, itemDirty, dirtyIndex)
      BY <1>d, <2>1, <2>2, AwaitSaves, DefaultOptionsType, DefaultStrategy
    <3> QED BY <1>b, <2>1, <3>1
  <2>3. CASE Goto(c, "again") /\ UNCHANGED <<executes, call>>
    BY <1>c, <1>d, <2>1, <2>3
  <2> QED BY <1>6, <1>a, <2>2, <2>3 DEF NotifyUploaded, AwaitSync
<1>7. CASE DownloadFirstCompleted(c)
  BY <1>7, <1>c, <1>d DEF DownloadFirstCompleted
<1>8. ASSUME NEW opts \in SyncOptions, opts.strategy = "ResolveOnNext",
             pc[c] \in {"again", "downloaded"}, UNCHANGED <<spawnQueue, itemDirty, dirtyIndex>>,
             StartSync(opts, c, [pc EXCEPT ![c] = "awaiting"])
      PROVE  SavesNow'
  <2>1. Saves(pc', executes', call', spawnQueue, itemDirty, dirtyIndex)
    BY <1>8, <1>d, AwaitSaves
  <2> QED BY <1>8, <1>b, <2>1
<1>9. CASE SyncAfterDownloadFirst(c)
  <2> DEFINE opts == [DefaultOptions EXCEPT !.checkIntegrity = TRUE, !.awaitAll = call[c].opts.awaitAll]
  <2>1. opts \in SyncOptions
    BY <1>0, DefaultOptionsType DEF CallRecord, SyncOptions
  <2>2. opts.strategy = "ResolveOnNext"
    BY DefaultStrategy
  <2>3. /\ StartSync(opts, c, [pc EXCEPT ![c] = "awaiting"]) /\ pc[c] = "downloaded"
        /\ UNCHANGED <<spawnQueue, itemDirty, dirtyIndex>>
    BY <1>9, <1>a DEF SyncAfterDownloadFirst, AwaitSync
  <2> HIDE DEF opts
  <2> QED BY <1>8, <2>1, <2>2, <2>3
<1>10. CASE SpawnNext(c)
  BY <1>10, SpawnSaves
<1>11. CASE SyncForResolveQueue(c)
  <2> DEFINE opts == [DefaultOptions EXCEPT !.checkIntegrity = call[c].opts.checkIntegrity]
  <2>1. opts \in SyncOptions
    <3>1. call[c].opts.checkIntegrity \in BOOLEAN
      BY <1>0 DEF CallRecord, SyncOptions
    <3> QED BY <3>1, DefaultOptionsType, OptionsUpdate
  <2>2. opts.strategy = "ResolveOnNext"
    BY DefaultStrategy
  <2>3. /\ pc[c] = "again" /\ call[c].mode = "Default"
        /\ UNCHANGED <<spawnQueue, itemDirty, dirtyIndex>>
        /\ \/ StartSync(opts, c, [pc EXCEPT ![c] = "awaiting"])
           \/ StartSync(opts, None, ReturnResolvingInTime(c))
    BY <1>11, <1>a DEF SyncForResolveQueue, AwaitSync
  <2> HIDE DEF opts
  <2>4. CASE StartSync(opts, c, [pc EXCEPT ![c] = "awaiting"])
    BY <1>8, <2>1, <2>2, <2>3, <2>4
  <2>5. CASE StartSync(opts, None, ReturnResolvingInTime(c))
    <3>1. Saves(pc', executes', call', spawnQueue, itemDirty, dirtyIndex)
      BY <1>d, <2>1, <2>3, <2>5, DetachSaves
    <3> QED BY <1>b, <2>3, <3>1
  <2> QED BY <2>3, <2>4, <2>5
<1>12. CASE SyncForNewDirtyItems(c)
  <2>1. MoreDirtyOptions(c) \in SyncOptions /\ MoreDirtyOptions(c).strategy = "ResolveOnNext"
    BY MoreDirtyOptionsType, DefaultStrategy DEF MoreDirtyOptions
  <2>2. /\ StartSync(MoreDirtyOptions(c), c, [pc EXCEPT ![c] = "awaiting"]) /\ pc[c] = "again"
        /\ UNCHANGED <<spawnQueue, itemDirty, dirtyIndex>>
    BY <1>12, <1>a DEF SyncForNewDirtyItems, AwaitSync
  <2> QED BY <1>8, <2>1, <2>2
<1>13. CASE NothingToSyncAgain(c)
  BY <1>13, <1>c, <1>d DEF NothingToSyncAgain
<1>14. CASE IntegrityInSync(c)
  BY <1>14, <1>c, <1>d, <1>e DEF IntegrityInSync
<1>15. CASE IntegrityMismatch(c)
  <2> DEFINE opts == [DefaultOptions EXCEPT !.source = "ResolveOutOfSync",
                        !.checkIntegrity = call[c].opts.source # "ResolveOutOfSync"]
  <2>1. opts \in SyncOptions /\ opts.strategy = "ResolveOnNext"
    BY DefaultOptionsType, DefaultStrategy DEF SyncOptions, Sources
  <2>2. /\ StartSync(opts, c, [pc EXCEPT ![c] = "outOfSync"]) /\ pc[c] = "integrity"
        /\ UNCHANGED <<spawnQueue, itemDirty, dirtyIndex>>
    BY <1>15, <1>a DEF IntegrityMismatch, AwaitSync
  <2> HIDE DEF opts
  <2>3. Saves(pc', executes', call', spawnQueue, itemDirty, dirtyIndex)
    BY <1>d, <1>e, <2>1, <2>2, AwaitSaves
  <2> QED BY <1>b, <2>2, <2>3
<1>16. CASE Complete(c)
  <2>1. /\ pc[c] = "complete" /\ pc' = ReturnResolvingInTime(c)
        /\ UNCHANGED <<executes, call, spawnQueue, itemDirty, dirtyIndex>>
    BY <1>16 DEF Complete
  <2>2. Saves(ReturnResolvingInTime(c), executes, call, spawnQueue, itemDirty, dirtyIndex)
    BY <1>d, <1>e, <2>1, ReturnSaves
  <2> QED BY <1>b, <2>1, <2>2
<1>17. CASE Return(c)
  BY <1>17, SettledSaves
<1> QED
  BY <1>a, <1>1, <1>2, <1>3, <1>4, <1>5, <1>6, <1>7, <1>9, <1>10, <1>11, <1>12, <1>13,
     <1>14, <1>15, <1>16, <1>17
  DEF Segment, SpawnNextLocked, ReturnDealloced, ThrowDealloced

LEMMA SaveStep ==
  ASSUME TypeOK, LockInv, HoldInv, SaveInv, [Next]_vars
  PROVE  SaveInv'
<1> SUFFICES ASSUME used'.faults = 0 PROVE SavesNow'
  BY DEF SaveInv, SavesNow
<1> USE DEF queues, data
<1>1. CASE UNCHANGED vars
  BY <1>1 DEF vars, SaveInv, SavesNow
<1>2. CASE Next
  <2>1. /\ NoFaultYet /\ HeldNow(pc, call, resolveQueue, spawnQueue) /\ SavesNow
        /\ ~LockSyncing /\ ~Deinit
        /\ \A c \in Calls : ~EncryptionFails(c) /\ ~ResponseError(c)
    BY <1>2, NoFault DEF HoldInv, HeldNow, SaveInv, SavesNow
  <2>2. ASSUME NEW opts \in SyncOptions, StartSync(opts, None, pc),
               UNCHANGED <<spawnQueue, itemDirty, dirtyIndex>>
        PROVE  SavesNow'
    <3>1. pc \in [Calls -> PCs] /\ spawnQueue \in Seq(Entries) /\ None \notin Calls
      BY SyncQueueAssumption DEF TypeOK, Entries
    <3>2. Places(pc, call, resolveQueue, spawnQueue)
      BY <2>1 DEF HeldNow
    <3>3. Saves(pc, executes, call, spawnQueue, itemDirty, dirtyIndex)
      BY <2>1 DEF SavesNow
    <3>4. Saves(pc', executes', call', spawnQueue, itemDirty, dirtyIndex)
      BY <2>2, <3>1, <3>2, <3>3, StartSaves
    <3> QED BY <2>2, <3>4 DEF SavesNow
  <2>3. CASE Sync
    BY <2>2, <2>3, SyncQueueAssumption DEF Sync
  <2>4. CASE AutoSync
    BY <2>2, <2>4, DefaultOptionsType DEF AutoSync
  <2>5. CASE UnlockSyncing \/ DatabaseLoaded \/ SignIn \/ NewSingletonItems
    BY <2>1, <2>5 DEF UnlockSyncing, DatabaseLoaded, SignIn, NewSingletonItems, SavesNow
  <2>6. CASE Edit
    <3>1. PICK i \in Items : itemDirty' = [itemDirty EXCEPT ![i] = dirtyIndex + 1]
      BY <2>6 DEF Edit
    <3> DEFINE jt == itemDirty'
               jx == dirtyIndex'
    <3>2. jx \in Nat /\ dirtyIndex <= jx /\ UNCHANGED <<pc, executes, call, spawnQueue>>
      BY <2>6 DEF Edit, TypeOK
    <3>3. \A c \in Calls : \A j \in Items : Clean(call, itemDirty, c, j) => Clean(call, jt, c, j)
      <4>1. \A c \in Calls : call[c].frozen \in Nat /\ call[c].frozen <= dirtyIndex
        BY <2>1 DEF SavesNow, Saves, Executors, TypeOK, CallRecord
      <4>2. \A j \in Items : jt[j] = itemDirty[j] \/ jt[j] = dirtyIndex + 1
        BY <3>1 DEF TypeOK
      <4>3. dirtyIndex \in Nat
        BY DEF TypeOK
      <4> QED BY <4>1, <4>2, <4>3 DEF Clean
    <3>4. Saves(pc, executes, call, spawnQueue, jt, jx)
      <4>1. SaveType(pc, executes, call, resolveQueue, spawnQueue, itemDirty, dirtyIndex)
        BY <2>1, SaveTypeNow
      <4> HIDE DEF jt, jx
      <4> QED BY <3>2, <3>3, <4>1, ItemsSave
    <3> QED BY <3>2, <3>4 DEF SavesNow
  <2>7. ASSUME NEW c \in Calls, Segment(c) PROVE SavesNow'
    BY <2>1, <2>7, SegmentSaves
  <2> QED BY <1>2, <2>1, <2>3, <2>4, <2>5, <2>6, <2>7 DEF Next
<1> QED BY <1>1, <1>2

LEMMA SaveInit == ASSUME Init PROVE SaveInv
<1>1. /\ \A c \in Calls : pc[c] = "idle" /\ call[c].frozen = 0 /\ ~executes[c]
      /\ dirtyIndex = 0 /\ DOMAIN spawnQueue = {}
  BY DEF Init, NoCall
<1>2. "idle" \in Idling /\ "idle" \notin Released \cup Preparing
  BY DEF Idling, Released, Preparing, InFlight
<1>3. Executors(pc, executes, call, dirtyIndex)
  BY <1>1, <1>2 DEF Executors
<1>4. SavesOwn(pc, executes, call, itemDirty)
  BY <1>1, <1>2 DEF SavesOwn
<1>5. LeavesToLater(pc, executes, call, itemDirty)
  BY <1>1, <1>2 DEF LeavesToLater, Wakes
<1>6. SpawnsOwn(pc, executes, call, spawnQueue)
  BY <1>1, <1>2 DEF SpawnsOwn, Wakes, Spawning
<1> QED BY <1>3, <1>4, <1>5, <1>6 DEF SaveInv, Saves

(* While no sync fails, a call that ran an operation of its own resolves   *)
(* only when every edit made before it was called is saved, whichever      *)
(* second, spawned or deferred sync it left them to (performSync up to     *)
(* potentiallySyncAgainAfterSyncCompletion and its nested calls).          *)
THEOREM SyncQueueExecutedSyncUploads == Spec => []ExecutedSyncUploads
<1>1. Init => SaveInv
  BY SaveInit
<1>2. TypeOK /\ LockInv /\ HoldInv /\ SaveInv /\ [Next]_vars => SaveInv'
  BY SaveStep
<1>3. SaveInv => ExecutedSyncUploads
  BY DEF SaveInv, Saves, SavesOwn, Done, Clean, ExecutedSyncUploads, Uploaded
<1> QED BY <1>1, <1>2, <1>3, SyncQueueTypeCorrect, SyncQueueLock, SyncQueueHolders, PTL DEF Spec
=============================================================================
