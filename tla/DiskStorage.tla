---------------------------- MODULE DiskStorage ----------------------------
(***************************************************************************)
(* DiskStorageService: a store of key-values kept in memory and written to *)
(* disk as one object, and a database of item payloads.  Both are          *)
(* encrypted before they are handed to the device, and both writes end     *)
(* some time after they were asked for.                                    *)
(*                                                                         *)
(* The object of key-values is represented by its version, the number of   *)
(* changes made to it; the payload of an item by the number of the save    *)
(* that wrote or deleted it.  Saves overtake each other, erasing overtakes *)
(* saves, and deinit overtakes both: passed, spared and abandoned remember *)
(* which, for the properties only.                                         *)
(***************************************************************************)
EXTENDS Naturals, Sequences, FiniteSets, FiniteSetsExt, SequencesExt

CONSTANTS
  Item,             \* items of the database
  Batches,          \* what callers save at once: the payloads to write, those to delete
  MaxPersists,      \* bound: persists of the key-values ever asked for
  MaxSaves,         \* bound: savePayloads ever called
  MaxCalls,         \* bound: both together
  MaxEvents         \* bound: failures, restarts, clearAllData, changes of policy, deinit

ASSUME DiskStorageAssumption ==
  /\ {MaxPersists, MaxSaves, MaxCalls, MaxEvents} \subseteq Nat
  /\ Batches \subseteq [items : SUBSET Item, discardable : SUBSET Item]

Persist == 1 .. MaxPersists
SaveId  == 1 .. MaxSaves
None    == 0

VARIABLES
  latest,           \* number of changes of the key-values so far, of all sessions
  values,           \* version of the key-values in memory
  persistable,      \* storagePersistable
  needsPersist,
  ephemeral,        \* persistencePolicy is Ephemeral
  persist,          \* the calls of persistValuesToDisk
  currentPersist,   \* currentPersistPromise: the persist it belongs to, or None
  save,             \* the calls of savePayloads
  clearing,         \* where clearAllData is, its persist, and the saves before it
  switching,        \* where setPersistencePolicy(Ephemeral) is
  crypto,           \* encryptions of the key-values under way, in the order they began
  device,           \* device calls under way, in the order they were made
  diskValues,       \* version of the stored object; hasValues says if there is one
  hasValues,
  diskPayloads,     \* which save last wrote or deleted each item, and if it is there
  preparing,        \* deinit has been asked for, and awaits the calls in closing,
  limited,          \* for no longer than lock() allows
  closing,
  dealloced,
  events,
  passed,           \* history: for each save, the saves that were not yet handed to the
                    \* device when it was called
  spared,           \* history: the same for each erasing of the disk
  abandoned         \* history: the calls in closing that deinit did not wait for

valueVars  == <<latest, values, needsPersist, persist, currentPersist>>
statusVars == <<persistable, ephemeral, preparing, limited, closing, dealloced>>
diskVars   == <<diskValues, hasValues, diskPayloads>>
history    == <<passed, spared, abandoned>>
vars == <<valueVars, statusVars, save, clearing, switching, crypto, device, diskVars, events, history>>

PersistRecord ==
  [stage : {"none", "waiting", "encrypting", "writing", "done", "failed", "lost"},
   on    : Persist \cup {None},      \* the persist it waits for
   snap  : Nat]                      \* the version it writes

SaveRecord ==
  [stage       : {"none", "deleting", "encrypting", "writing", "done", "failed", "rejected", "lost", "dropped"},
   items       : SUBSET Item,
   discardable : SUBSET Item]

(* A call in the queue of the device: what it does, for which persist or   *)
(* save, and the item a deletion is about.                                 *)
DeviceCall ==
  [op : {"setValues"}, id : Persist]
    \cup [op : {"savePayloads"}, id : SaveId]
    \cup [op : {"removePayload"}, id : SaveId, item : Item]
    \cup [op : {"removeValues", "removePayloads"}, for : {"clear", "switch"}]

(* A critical function: a persist, the write of a save, or an erasing.     *)
CriticalFunction ==
  ({"persist"} \X Persist) \cup ({"save"} \X SaveId) \cup ({"clear", "switch"} \X {None})

TypeOK ==
  /\ latest \in Nat /\ values \in 0 .. latest
  /\ persistable \in BOOLEAN /\ needsPersist \in BOOLEAN
  /\ ephemeral \in BOOLEAN /\ dealloced \in BOOLEAN /\ hasValues \in BOOLEAN
  /\ persist \in [Persist -> PersistRecord]
  /\ currentPersist \in Persist \cup {None}
  /\ save \in [SaveId -> SaveRecord]
  /\ clearing \in [at : {"no", "values", "payloads", "remove", "done", "failed"},
                   by : Persist \cup {None}, saves : SaveId \cup {None}]
  /\ switching \in {"no", "values", "payloads", "done", "failed"}
  /\ crypto \in Seq(Persist)
  /\ device \in Seq(DeviceCall)
  /\ diskValues \in 0 .. latest
  /\ diskPayloads \in [Item -> [by : SaveId \cup {None}, there : BOOLEAN]]
  /\ preparing \in BOOLEAN /\ limited \in BOOLEAN
  /\ closing \in SUBSET CriticalFunction /\ abandoned \in SUBSET CriticalFunction
  /\ events \in 0 .. MaxEvents
  /\ passed \in [SaveId -> SUBSET SaveId]
  /\ spared \in [{"clear", "switch"} -> SUBSET SaveId]

-----------------------------------------------------------------------------
(* The persist of the key-values *)

PersistsUsed == Cardinality({p \in Persist : persist[p].stage # "none"})
SavesUsed    == Cardinality({s \in SaveId : save[s].stage # "none"})

NewPersists(n) == {p \in Persist : /\ PersistsUsed < p /\ p <= PersistsUsed + n
                                  /\ SavesUsed + p <= MaxCalls}

Pending(p) == p # None /\ persist[p].stage \in {"waiting", "encrypting", "writing"}

LastOf(P) == Max(P)

(* immediatelyPersistValuesToDisk, by all of the calls P in one go: each    *)
(* takes a copy of the values and starts to encrypt it.  The last one's     *)
(* promise is the current one.                                              *)
StartedWithEarlyCopy(record, P, version) ==
  [p \in Persist |-> IF p \in P
                     THEN [stage |-> "encrypting", on |-> None,
                           snap |-> IF record[p].stage = "waiting" THEN record[p].snap ELSE version]
                     ELSE record[p]]

Started(record, P, version) ==
  [p \in Persist |-> IF p \in P
                     THEN [stage |-> "encrypting", on |-> None, snap |-> version]
                     ELSE record[p]]

InOrder(P) ==
  [i \in 1 .. Cardinality(P) |-> CHOOSE p \in P : Cardinality({q \in P : q <= p}) = i]

(* The calls P of persistValuesToDisk after a change to `version`: they     *)
(* await the current persist, which may be over, pending or rejected.       *)
PersistValues(P, version) ==
  IF ~persistable
  THEN /\ needsPersist' = TRUE
       /\ UNCHANGED <<persist, currentPersist, crypto>>
  ELSE IF ephemeral \/ P = {}
  THEN UNCHANGED <<needsPersist, persist, currentPersist, crypto>>
  ELSE IF Pending(currentPersist)
  THEN /\ persist' = [p \in Persist |-> IF p \in P
                        THEN [stage |-> "waiting", on |-> currentPersist, snap |-> version]
                        ELSE persist[p]]
       /\ UNCHANGED <<needsPersist, currentPersist, crypto>>
  ELSE IF currentPersist # None /\ persist[currentPersist].stage = "failed"
  THEN /\ persist' = [p \in Persist |-> IF p \in P
                        THEN [stage |-> "failed", on |-> None, snap |-> version] ELSE persist[p]]
       /\ UNCHANGED <<needsPersist, currentPersist, crypto>>
  ELSE /\ needsPersist' = FALSE
       /\ persist' = Started(persist, P, version)
       /\ currentPersist' = LastOf(P)
       /\ crypto' = crypto \o InOrder(P)

(* n changes in one segment of the caller: setValue, removeValue.           *)
SetValues(n) ==
  LET P == NewPersists(n)
  IN  /\ ~dealloced /\ Cardinality(P) = n /\ latest < MaxPersists
      /\ latest' = latest + 1
      /\ values' = latest + 1
      /\ PersistValues(P, latest + 1)
      /\ UNCHANGED <<statusVars, save, clearing, switching, device, diskVars, events, history>>

(* handleApplicationStage(Launched_10) *)
Launched ==
  LET P == NewPersists(1)
  IN  /\ ~persistable /\ ~dealloced /\ P # {}
      /\ persistable' = TRUE
      /\ IF needsPersist /\ ~ephemeral
         THEN /\ persist' = Started(persist, P, values)
              /\ currentPersist' = LastOf(P)
              /\ crypto' = crypto \o InOrder(P)
              /\ needsPersist' = FALSE
         ELSE UNCHANGED <<persist, currentPersist, crypto, needsPersist>>
      /\ UNCHANGED <<latest, values, ephemeral, preparing, limited, closing, dealloced, save, clearing,
                     switching, device, diskVars, events, history>>

(* A variant of Settle in which the calls that await it do not go on.       *)
SettleAlone(p, result, queue) ==
  /\ persist' = [persist EXCEPT ![p].stage = result]
  /\ crypto' = queue
  /\ UNCHANGED <<currentPersist, needsPersist>>

(* The promise of p settles, and the calls that await it go on.  The rest   *)
(* of the queue of encryptions is `queue`.                                  *)
Settle(p, result, queue) ==
  LET waiters == {q \in Persist : persist[q].stage = "waiting" /\ persist[q].on = p}
      settled == [persist EXCEPT ![p].stage = result]
  IN  IF result = "done" /\ waiters # {} /\ ~dealloced
      THEN /\ persist' = Started(settled, waiters, values)
           /\ currentPersist' = LastOf(waiters)
           /\ crypto' = queue \o InOrder(waiters)
           /\ needsPersist' = FALSE
      ELSE /\ persist' = [q \in Persist |-> IF q \in waiters
                            THEN [settled[q] EXCEPT !.stage = "failed", !.on = None]
                            ELSE settled[q]]
           /\ crypto' = queue
           /\ UNCHANGED <<currentPersist, needsPersist>>

(* clearAllData goes on with the persist of its clearValues, and fails with *)
(* it, or when there is no device any more.                                 *)
ClearedBy(p) == clearing.at = "values" /\ clearing.by = p

ClearAfter(p, at) ==
  IF ClearedBy(p) THEN [clearing EXCEPT !.at = IF dealloced THEN "failed" ELSE at] ELSE clearing

(* A variant of CallsAfter that leaves the payloads.                        *)
RemoveValuesOnly(p, calls) == IF ClearedBy(p) /\ ~dealloced
                              THEN Append(calls, [op |-> "removeValues", for |-> "clear"])
                              ELSE calls

(* Once the values are written it asks for the removal of the payloads.     *)
CallsAfter(p, calls) == IF ClearedBy(p) /\ ~dealloced
                        THEN Append(calls, [op |-> "removePayloads", for |-> "clear"])
                        ELSE calls

-----------------------------------------------------------------------------
(* Encryption ends.  Those of the key-values end in the order they began.   *)
(* That of a save may end before an earlier one's: it takes a moment for    *)
(* each kind of key, and none when all its payloads are deleted or          *)
(* encrypted already.                                                       *)

PolicySuddenlyChanged == ephemeral

PersistEncrypted ==
  /\ crypto # <<>>
  /\ LET p == Head(crypto)
     IN  IF PolicySuddenlyChanged \/ dealloced
         THEN /\ Settle(p, "done", Tail(crypto))
              /\ clearing' = ClearAfter(p, "payloads")
              /\ device' = CallsAfter(p, device)
         ELSE /\ persist' = [persist EXCEPT ![p].stage = "writing"]
              /\ device' = Append(device, [op |-> "setValues", id |-> p])
              /\ crypto' = Tail(crypto)
              /\ UNCHANGED <<currentPersist, needsPersist, clearing>>
  /\ UNCHANGED <<latest, values, statusVars, save, switching, diskVars, events, history>>

(* A variant of SaveEncrypted that does not await the write.                *)
SaveNotAwaited(s) ==
  /\ save[s].stage = "encrypting"
  /\ save' = [save EXCEPT ![s].stage = "done"]
  /\ device' = IF dealloced THEN device ELSE Append(device, [op |-> "savePayloads", id |-> s])
  /\ UNCHANGED <<valueVars, statusVars, clearing, switching, crypto, diskVars, events, history>>

(* After deinit there is no device to write to.                             *)
SaveEncrypted(s) ==
  /\ save[s].stage = "encrypting"
  /\ IF dealloced
     THEN /\ save' = [save EXCEPT ![s].stage = "dropped"]
          /\ UNCHANGED device
     ELSE /\ save' = [save EXCEPT ![s].stage = "writing"]
          /\ device' = Append(device, [op |-> "savePayloads", id |-> s])
  /\ UNCHANGED <<valueVars, statusVars, clearing, switching, crypto, diskVars, events, history>>

EncryptionFails ==
  /\ events < MaxEvents /\ events' = events + 1
  /\ \/ /\ crypto # <<>>
        /\ Settle(Head(crypto), "failed", Tail(crypto))
        /\ clearing' = ClearAfter(Head(crypto), "failed")
        /\ UNCHANGED save
     \/ \E s \in SaveId :
          /\ save[s].stage = "encrypting"
          /\ save' = [save EXCEPT ![s].stage = "failed"]
          /\ UNCHANGED <<persist, currentPersist, needsPersist, crypto, clearing>>
  /\ UNCHANGED <<latest, values, statusVars, switching, device, diskVars, history>>

-----------------------------------------------------------------------------
(* savePayloads: discardable payloads are deleted first, then the others    *)
(* are encrypted and written.                                               *)

(* The saves that are not yet handed to the device, which can be overtaken. *)
Unwritten == {s \in SaveId : save[s].stage \in {"deleting", "encrypting"}}

SavePayloads(s, items, discardable) ==
  /\ ~dealloced
  /\ s = SavesUsed + 1 /\ PersistsUsed + s <= MaxCalls
  /\ items \cap discardable = {} /\ Cardinality(discardable) <= 1
  /\ passed' = [passed EXCEPT ![s] = Unwritten]
  /\ IF ephemeral
     THEN /\ save' = [save EXCEPT ![s].stage = "done"]
          /\ UNCHANGED device
     ELSE IF discardable = {}
     THEN /\ save' = [save EXCEPT ![s] = [stage |-> "encrypting", items |-> items, discardable |-> {}]]
          /\ UNCHANGED device
     ELSE \E u \in discardable :
          /\ discardable = {u}
          /\ save' = [save EXCEPT ![s] = [stage |-> "deleting", items |-> items,
                                         discardable |-> discardable]]
          /\ device' = Append(device, [op |-> "removePayload", id |-> s, item |-> u])
  /\ UNCHANGED <<valueVars, statusVars, clearing, switching, crypto, diskVars, events, spared, abandoned>>

(* setPersistencePolicy(Ephemeral): a save looked at the policy when it was *)
(* called, and goes on.                                                     *)
SwitchToEphemeral ==
  /\ events < MaxEvents /\ events' = events + 1
  /\ ~ephemeral /\ ~dealloced /\ switching = "no"
  /\ ephemeral' = TRUE
  /\ switching' = "values"
  /\ device' = Append(device, [op |-> "removeValues", for |-> "switch"])
  /\ spared' = [spared EXCEPT !["switch"] = Unwritten]
  /\ UNCHANGED <<valueVars, persistable, preparing, limited, closing, dealloced, save, clearing,
                 crypto, diskVars, passed, abandoned>>

(* clearAllData: clearValues persists at once, whatever is under way.       *)
ClearAllData ==
  \E p \in NewPersists(1) :
    /\ events < MaxEvents /\ events' = events + 1
    /\ ~dealloced /\ clearing.at = "no"
    /\ latest' = latest + 1
    /\ values' = latest + 1
    /\ persist' = Started(persist, {p}, latest + 1)
    /\ currentPersist' = p
    /\ crypto' = Append(crypto, p)
    /\ clearing' = [at |-> "values", by |-> p, saves |-> SavesUsed]
    /\ spared' = [spared EXCEPT !["clear"] = Unwritten]
    /\ UNCHANGED <<needsPersist, statusVars, save, switching, device, diskVars, passed, abandoned>>

-----------------------------------------------------------------------------
(* The device carries out its calls in the order they were made, and the    *)
(* caller of the first one goes on.                                         *)

Call == Head(device)

ValuesWritten ==
  /\ device # <<>> /\ Call.op = "setValues"
  /\ diskValues' = persist[Call.id].snap
  /\ hasValues' = TRUE
  /\ Settle(Call.id, "done", crypto)
  /\ clearing' = ClearAfter(Call.id, "payloads")
  /\ device' = CallsAfter(Call.id, Tail(device))
  /\ UNCHANGED <<latest, values, statusVars, save, switching, diskPayloads, events, history>>

PayloadsWritten ==
  /\ device # <<>> /\ Call.op = "savePayloads"
  /\ save' = [save EXCEPT ![Call.id].stage = "done"]
  /\ diskPayloads' = [u \in Item |-> IF u \in save[Call.id].items
                                     THEN [by |-> Call.id, there |-> TRUE] ELSE diskPayloads[u]]
  /\ device' = Tail(device)
  /\ UNCHANGED <<valueVars, statusVars, clearing, switching, crypto, diskValues, hasValues, events,
                 history>>

PayloadRemoved ==
  /\ device # <<>> /\ Call.op = "removePayload"
  /\ save' = [save EXCEPT ![Call.id].stage = "encrypting"]
  /\ diskPayloads' = [diskPayloads EXCEPT ![Call.item] = [by |-> Call.id, there |-> FALSE]]
  /\ device' = Tail(device)
  /\ UNCHANGED <<valueVars, statusVars, clearing, switching, crypto, diskValues, hasValues, events,
                 history>>

(* removeAllRawDatabasePayloads; clearAllData then removes the values, if   *)
(* there still is a device.                                                 *)
AllPayloadsRemoved ==
  /\ device # <<>> /\ Call.op = "removePayloads"
  /\ diskPayloads' = [u \in Item |-> [diskPayloads[u] EXCEPT !.there = FALSE]]
  /\ IF Call.for = "clear"
     THEN /\ device' = IF dealloced THEN Tail(device)
                       ELSE Append(Tail(device), [op |-> "removeValues", for |-> "clear"])
          /\ clearing' = [clearing EXCEPT !.at = IF dealloced THEN "failed" ELSE "remove"]
          /\ UNCHANGED switching
     ELSE /\ device' = Tail(device)
          /\ switching' = "done"
          /\ UNCHANGED clearing
  /\ UNCHANGED <<valueVars, statusVars, save, crypto, diskValues, hasValues, events, history>>

(* removeRawStorageValue, removeAllRawStorageValues; setPersistencePolicy   *)
(* then removes the payloads.                                               *)
AllValuesRemoved ==
  /\ device # <<>> /\ Call.op = "removeValues"
  /\ hasValues' = FALSE
  /\ IF Call.for = "clear"
     THEN /\ device' = Tail(device)
          /\ clearing' = [clearing EXCEPT !.at = "done"]
          /\ UNCHANGED switching
     ELSE /\ device' = IF dealloced THEN Tail(device)
                       ELSE Append(Tail(device), [op |-> "removePayloads", for |-> "switch"])
          /\ switching' = IF dealloced THEN "failed" ELSE "payloads"
          /\ UNCHANGED clearing
  /\ UNCHANGED <<valueVars, statusVars, save, crypto, diskValues, diskPayloads, events, history>>

(* A write fails, of a full disk for instance.                              *)
WriteFails ==
  /\ device # <<>>
  /\ events < MaxEvents /\ events' = events + 1
  /\ device' = Tail(device)
  /\ \/ /\ Call.op = "setValues"
        /\ Settle(Call.id, "failed", crypto)
        /\ clearing' = ClearAfter(Call.id, "failed")
        /\ UNCHANGED save
     \/ /\ Call.op = "savePayloads"
        /\ save' = [save EXCEPT ![Call.id].stage = "rejected"]
        /\ UNCHANGED <<persist, currentPersist, needsPersist, crypto, clearing>>
  /\ UNCHANGED <<latest, values, statusVars, switching, diskVars, history>>

-----------------------------------------------------------------------------
(* The end of the session *)

(* The critical functions under way: persists, writes of saves, and the     *)
(* erasing of the payloads.                                                 *)
Critical == {<<"persist", p>> : p \in {q \in Persist : persist[q].stage \in {"encrypting", "writing"}}}
              \cup {<<"save", s>> : s \in {t \in SaveId : save[t].stage = "writing"}}
              \cup {<<"clear", None>> : at \in {clearing.at} \cap {"values", "payloads", "remove"}}
              \cup {<<"switch", None>> : at \in {switching} \cap {"payloads"}}

Rejected == \/ \E p \in Persist : persist[p].stage = "failed"
            \/ \E s \in SaveId : save[s].stage = "rejected"

(* prepareForDeinit: blockDeinit awaits the critical functions begun so     *)
(* far.  Signing out waits for as long as they take, lock() for 500 ms.     *)
PrepareForDeinit ==
  /\ events < MaxEvents /\ events' = events + 1
  /\ ~preparing /\ ~dealloced
  /\ preparing' = TRUE
  /\ limited' \in IF Critical = {} THEN {FALSE} ELSE BOOLEAN
  /\ closing' = Critical
  /\ UNCHANGED <<valueVars, persistable, ephemeral, dealloced, save, clearing, switching, crypto,
                 device, diskVars, history>>

NothingAwaited == TRUE
CriticalSettled == closing \cap Critical = {}

(* Once they have settled, or the time is up.                               *)
Deinit ==
  /\ preparing /\ ~dealloced /\ ~Rejected
  /\ CriticalSettled \/ limited
  /\ dealloced' = TRUE
  /\ persistable' = FALSE
  /\ abandoned' = IF limited THEN closing \cap Critical ELSE {}
  /\ UNCHANGED <<valueVars, ephemeral, preparing, limited, closing, save, clearing, switching,
                 crypto, device, diskVars, events, passed, spared>>

(* A crash, or a restart after deinit: calls under way are lost, and the    *)
(* next session loads what is on disk (initializeFromDisk).                 *)
Restart ==
  /\ events < MaxEvents /\ events' = events + 1
  /\ values' = IF hasValues THEN diskValues ELSE 0
  /\ needsPersist' = FALSE /\ currentPersist' = None
  /\ persistable' = FALSE /\ ephemeral' = FALSE
  /\ preparing' = FALSE /\ limited' = FALSE /\ closing' = {} /\ dealloced' = FALSE
  /\ persist' = [p \in Persist |-> IF persist[p].stage = "none" THEN persist[p]
                                   ELSE [persist[p] EXCEPT !.stage = "lost", !.on = None]]
  /\ save' = [s \in SaveId |-> IF save[s].stage \in {"none", "done"} THEN save[s]
                               ELSE [save[s] EXCEPT !.stage = "lost"]]
  /\ clearing' = [at |-> "no", by |-> None, saves |-> None]
  /\ switching' = "no"
  /\ crypto' = <<>> /\ device' = <<>>
  /\ passed' = [s \in SaveId |-> IF save[s].stage = "done" THEN passed[s] ELSE {}]
  /\ spared' = [e \in {"clear", "switch"} |-> {}] /\ abandoned' = {}
  /\ UNCHANGED <<latest, diskVars>>

Init ==
  /\ latest = 0 /\ values = 0
  /\ persistable = FALSE /\ needsPersist = FALSE /\ ephemeral = FALSE
  /\ persist = [p \in Persist |-> [stage |-> "none", on |-> None, snap |-> 0]]
  /\ currentPersist = None
  /\ save = [s \in SaveId |-> [stage |-> "none", items |-> {}, discardable |-> {}]]
  /\ clearing = [at |-> "no", by |-> None, saves |-> None]
  /\ switching = "no"
  /\ crypto = <<>> /\ device = <<>>
  /\ diskValues = 0 /\ hasValues = FALSE
  /\ diskPayloads = [u \in Item |-> [by |-> None, there |-> FALSE]]
  /\ preparing = FALSE /\ limited = FALSE /\ closing = {} /\ dealloced = FALSE
  /\ events = 0
  /\ passed = [s \in SaveId |-> {}]
  /\ spared = [e \in {"clear", "switch"} |-> {}] /\ abandoned = {}

EncryptionEnds == PersistEncrypted \/ \E s \in SaveId : SaveEncrypted(s)

DeviceAnswers == \/ ValuesWritten \/ PayloadsWritten \/ PayloadRemoved
                 \/ AllPayloadsRemoved \/ AllValuesRemoved

Next ==
  \/ \E n \in 1 .. 2 : SetValues(n)
  \/ \E s \in SaveId, b \in Batches : SavePayloads(s, b.items, b.discardable)
  \/ Launched \/ SwitchToEphemeral \/ ClearAllData
  \/ EncryptionEnds \/ EncryptionFails
  \/ DeviceAnswers \/ WriteFails
  \/ PrepareForDeinit \/ Deinit \/ Restart

Spec == Init /\ [][Next]_vars

(* Encryption and the device answer, and the application gets launched.     *)
FairSpec == Spec /\ WF_vars(EncryptionEnds) /\ WF_vars(DeviceAnswers) /\ WF_vars(Launched)

-----------------------------------------------------------------------------
(* The last change reaches the disk once changes stop, although its persist *)
(* may have found another one under way (persistValuesToDisk), unless a     *)
(* persist has failed in this session: every later one then awaits a        *)
(* rejected promise.                                                        *)
Healthy == /\ persistable /\ ~ephemeral /\ ~preparing /\ clearing.at = "no"
           /\ \A p \in Persist : persist[p].stage # "failed"

LastChangePersists == <>[]Healthy => <>[](values = IF hasValues THEN diskValues ELSE 0)

Store == INSTANCE VersionedStore WITH mem <- values, disk <- diskValues, there <- hasValues

(* Whatever order calls, failures and crashes come in, the key-values on    *)
(* disk are a version they had in memory, and never go back to an earlier   *)
(* one: overlapping writes (currentPersistPromise) do not overtake.         *)
KeepsVersions == Store!Spec

(* A save that has resolved is not undone by one called before it, unless   *)
(* that one was still being encrypted, or waited for deletions, when it was *)
(* called: savePayloads lets saves overtake each other until they are       *)
(* handed to the device, and nothing puts them in order again.              *)
ResolvedSaveIsNotReverted ==
  \A s \in SaveId : save[s].stage = "done" =>
    \A u \in save[s].items \cup save[s].discardable :
      diskPayloads[u].by >= s \/ diskPayloads[u].by \in passed[s]

EphemeralLeavesNothing ==
  switching = "done" =>
    /\ ~hasValues
    /\ \A u \in Item : diskPayloads[u].there => diskPayloads[u].by \in spared["switch"]

ClearedDataStaysCleared ==
  clearing.at = "done" =>
    /\ hasValues => diskValues >= persist[clearing.by].snap
    /\ \A u \in Item : diskPayloads[u].there =>
         diskPayloads[u].by > clearing.saves \/ diskPayloads[u].by \in spared["clear"]

(* When clearAllData has returned, none of the key-values of before it come *)
(* back; when setPersistencePolicy(Ephemeral) has, none come back or are    *)
(* written.  Nor are payloads, but for those of a save that was under way   *)
(* and not yet handed to the device: neither erasing waits for it, and it   *)
(* looked at the policy when it was called.                                 *)
ErasedDataStaysErased == ClearedDataStaysCleared /\ EphemeralLeavesNothing

(* Deinit waits for every critical function that had begun, unless the time *)
(* that lock() gives it is up: the values and payloads are on disk, or      *)
(* something newer is, and the clearing is over (blockDeinit).              *)
CriticalWritesOutliveDeinit ==
  dealloced =>
    \A c \in closing \ abandoned :
      CASE c[1] = "persist" -> ephemeral \/ persist[c[2]].snap <= diskValues
        [] c[1] = "save"    -> ephemeral \/ \A u \in save[c[2]].items :
                                 diskPayloads[u].by >= c[2] \/ diskPayloads[u].by \in passed[c[2]]
        [] c[1] = "clear"   -> clearing.at = "done"
        [] OTHER            -> switching = "done"
=============================================================================
