# A verification project for snjs

snjs is the client library of Standard Notes: an application object that loads an
encrypted local database, keeps a collection of items in memory, and syncs it with
a server that other devices of the same account sync with as well. This directory
models the parts of it (`packages/snjs/lib`) whose correctness depends on order,
on failures, or on what happens between two awaits.

All of it is JavaScript on one thread: a segment of code between two awaits runs
alone, and anything may run at an await. That is the granularity of every module
here. An await that is known to be resolved by microtasks only is not a point where
user input, timers or the network can intervene, and is merged with its segment.

## Inventory

| Component | State | Operations | What is hard about it | What makes it correct |
|---|---|---|---|---|
| Sync orchestration, `SyncService.ts` | sync lock, `opStatus`, resolve queue, spawn queue, client lock, download-first flag, deinit flag | `sync`, `performSync`, the syncs that follow a sync, integrity check, `lockSyncing`, `deinit` | overlapping calls, each suspended at up to ten awaits; calls that start and await other calls; errors in the middle; destruction at any await | one operation at a time; every call returns; a call that resolves has done what it promised; dirty items are uploaded in the end |
| Sync data path, `SyncService.ts`, `Account/*`, deltas of `@standardnotes/models` | collection, dirty indices, tokens, payloads on disk | presave, freeze, upload, apply a response, store tokens | edits during each stage; lost answers, late requests; crashes; conflicts with other devices; paging | nothing the user wrote is lost; what the server lacks stays dirty; stored tokens never run ahead of the disk; client and server converge |
| Payload manager, `PayloadManager.ts` | collection, emit queue, observers | `emitDeltaEmit`, `emitPayloads`, `importPayloads`, observers | observers that emit again; an observer that throws | emits are applied once each, in order; observers see each before it resolves |
| Disk storage, `DiskStorageService.ts` | the value store, its persist promise, persistence and encryption policies | `setValue`, `persistValuesToDisk`, `savePayloads`, `clearAllData` | coalesced writes; encryption before a write; a failed write whose promise stays; erasing under writes | the last value set is on disk once writes stop; writes keep their order; erased data stays erased |
| Item manager, `ItemManager.ts` | typed collections over the payloads | item mutations, relationships, deletion | mutations are computed from the item found and emitted later | a mutation never reverts another; nothing refers to a deleted item |
| Singletons, `SingletonManager.ts` | resolution queue | `findOrCreateSingleton`, resolution after a sync | a check, an await, a second check; several devices deciding alone | one singleton survives, the same everywhere |
| Sessions and API, `SessionManager.ts`, `ApiService.ts`, `HttpService.ts` | session, refresh and authentication flags, renewal challenge | requests, session refresh, sign in and out | concurrent requests that find the token expired; a prompt open meanwhile; answers after sign out | one refresh at a time; the stored session is the server's latest; no request twice |
| User credentials, `UserService.ts` | root key, items keys, the lock on syncing | register, sign in, change credentials, sign out | several steps, one of which fails; other syncs in between | who knows the credentials can read the items, on server and device |
| Key recovery, `KeyRecoveryService.ts` | decryption queue, processing flag, isolated storage | undecryptable keys arrive, user answers, keys are recovered | arrivals while a prompt is open; several runs; restarts | no key is lost; each queued key is recovered or given up; the root key is never replaced by an older one |
| Application, `Application.ts` | launch stage | prepare, launch stages, deinit | a launch that ends at any step; deinit during critical functions | launched in the end; what had begun to be written is written |
| Migrations, `MigrationService.ts`, `2_0_0.ts` | stored version, legacy values | staged migrations | a restart between two steps | the account is never lost; marked as done means done |
| Challenges, `Challenge*.ts` | running operations, observers | prompt, submit, cancel, complete | validation against cancellation | each prompt settles once |
| Protections, `ProtectionService.ts` | session expiry, timer | authorize, start, clear | timer against renewal | an action is authorised or the session valid |
| Features, `FeaturesService.ts` | roles and features, in memory and stored; enabled experimental features; the offline repository | roles reported by responses and the web socket, downloads of features, mapping to items, switching | reports, downloads and the first sync in any order; roles that do not change with the features; restarts | one item of a feature; the items agree with the features; the status of a feature is what is granted in the end |
| Application group | descriptors | add, rename, sign out all workspaces | descriptors stored without being awaited | the primary descriptor is one of the group |
| Components, history, mutator, actions, settings, listed, preferences, MFA, view controllers | little or none of their own | request wrappers, lists, messages to editor frames | bound to the browser or sequential | - |

How they interact. Every mutation goes through the item manager to the payload
manager, whose observers are the item manager's collections, the history manager, the
singleton manager and the views. `sync()` is called by everybody: after mutations, by
the 30 s timer of the application, by the user service, key recovery, singletons and
by itself. The sync service reads dirty items from the item manager, encrypts them with
the encryption service, sends them through the API service, applies the response to the
payload manager, and persists payloads and tokens through the storage service.
Observers of sync events (singletons, integrity, key recovery) are awaited by the
operation that notifies them, and may call `sync()` themselves. Sign in, a change of
credentials and key recovery replace the root key under the feet of all of these, and
take the sync lock for part of the time. Launch initialises storage before encryption and
both before the database, with migrations between the stages; deinit ends all of it.

## Modules

| Module | Models |
|---|---|
| `SyncQueue` | the orchestration: one action per segment of `performSync`, every call a process |
| `SyncData` | the data path: client, disk, server, other devices, crashes |
| `PayloadManager` | payload manager and item manager: emits nested by observers, changes, deletions |
| `EmitQueue` | abstract: emits are applied and resolved one at a time in order; `PayloadManager` implements it |
| `DiskStorage` | the key-values and the payloads on disk, overlapping writes, erasing, deinit |
| `VersionedStore` | abstract: a store whose disk never goes back to an earlier version; `DiskStorage` implements it |
| `Singletons` | singletons of several devices with their syncs |
| `Sessions` | requests, refresh, renewal prompts, sign in and out of one client |
| `Credentials` | a change of password or email with its keys, syncs and rollback |
| `KeyRecovery` | undecryptable items keys, the runs of the wizard, the root key |
| `Launch` | launch stages and migrations, ended and started again |
| `Challenges` | challenges, their values, validations and callers, each with its own way of ending |
| `Features` | roles, downloads of features, the offline repository, and the items made of features |
| `Prompts` | abstract: a question is settled once, with one value for each prompt; `Challenges` implements it |
| `SyncQueue_proofs`, `SyncData_proofs`, `DiskStorage_proofs`, `Sessions_proofs`, `Features_proofs`, `KeyRecovery_proofs` | theorems about these modules and their proofs |
| `Access_proofs` | theorems about `Challenges`, `Launch` and `Credentials`, which share no name (hence `LaunchSpec`, `CredentialsInit`) |
| `Items_proofs` | theorems about `PayloadManager` and `Singletons`, likewise |
| `MCSyncQueue`, `MCSyncData`, `MCFeatures`, `MCDiskStorage` | the values of options, item names, plans and batches of saves for TLC; the other modules are run as they are |

Modules that leave a part of the system out take over what another one shows of it:
`SyncData` runs one operation at a time (`AtMostOneOperation`), `KeyRecovery` and
`Credentials` write to a storage that keeps what it was given in order (`DiskStorage`), and
all but `PayloadManager` take an emit as applied to every observer when it returns
(`EmitsInOrder`, `ObserversSeeEveryEmit`).

Most modules have a constant `Environment`. In `SyncQueue` it lists what may happen
besides calls; elsewhere it names behaviours under which one of the module's properties is
known to fail, each described below ("Known not to hold"). Passing runs exclude just these. Where the failing case can
be told from the others in a state, the model has it in every run instead, a history variable remembers it, and the property
excepts it: `passed`, `spared` and `abandoned` in `DiskStorage`, `late` in `PayloadManager`, `discarded` in `Singletons`, `missed` in `Sessions`,
`foreign` in `Features`.

### SyncQueue

`pc[c]` says at which await call `c` of `performSync` is suspended, `executes[c]` is its
`shouldExecuteSync`, and `call[c]` its other locals. `syncLock`, `syncing`
(`opStatus.syncInProgress`), `opError`, `resolveQueue`, `spawnQueue`,
`completedDownloadFirst`, `clientLocked`, `databaseLoaded` and `dealloced` are the fields
of the service. Of the items only their dirty index is kept, and of the server whether it
answers a round trip with success or an error.

`Sync` is a call from outside with any of the instance's options, `AutoSync` the timer's.
A call checks the lock and freezes the dirty items in one segment (`StartSync`), awaits its
presave, and then is deferred (`Defer`), takes the requests queued so far and begins
(`Begin`), or finds the service destroyed. `RunSyncOperation` prepares and creates the
operation; `ResponseSuccess` and `ResponseError` are its round trips, one per page of
uploads; `FinishOperation` releases the lock and runs the checks; then one of
`SyncAfterDownloadFirst`, `SpawnNext`, `SyncForResolveQueue`, `SyncForNewDirtyItems` starts
the sync that follows, or the call goes on to the integrity check and completes. `Resume`
and `Return` deliver a settled promise to the call that awaits it.

Abstractions. The resolve queue is a set, for it is only copied, subtracted and resolved as
a whole. A call that needs a slot when all are taken waits for one; external calls leave
`Reserve` slots for the syncs that syncs start. The awaits from `setDidBegin` to the request
are one segment, as no state of the service changes between them, except that encryption may
throw (`EncryptionFails`: `encryptSplit` throws without a usable items key). A presave with
nothing to write is resolved by microtasks, so no round trip ends during it
(`NothingToPersist`).

### SyncData

One operation at a time, which is what `SyncQueueMutualExclusion` proves of the
orchestration. `local` is the payload manager's collection, with each payload's content,
server revision, `dirty`, `dirtyIndex` and `globalDirtyIndexAtLastSync`; `dirtyCount` the
global dirty counter; `previous` the newest revision the history manager has of each item;
`tokens` the sync token and the cursor; `disk` and `storedTokens` what is persisted. Both
indices are absent from payloads on disk, and the counter starts again with the
application: `Crash` is a crash or a closing, and the launch that loads the database.

`BeginSync` freezes (`prepareForSync`), `Presaved` ends the presave, marks the latest version
of the items and sends it, `ServerAnswers` is the server's handling, `ReceiveReply` takes the
snapshot of the collection and the history, `Resolve` computes every delta from that snapshot
and applies the first emit, `PersistEmit` writes it and applies the next, and `FinishPage`
sets the tokens and asks for the next page while there is a cursor. `StoreTokens` is the
value store reaching the disk some time later. `RequestFails` is an error the client sees:
the request may have been handled, may be handled later (`ServerHandlesOrphan`) or never.

The deltas (`SavedDelta`, `RetrievedDelta`, `ConflictDelta` with its strategies and copies)
are code of `@standardnotes/models`, which the resolver calls; the server is modelled as the
client relies on it: an upload made on an outdated revision is a conflict, the items newer
than the cursor or the token come oldest first, a page at a time.

Contents are numbers, and a new edit is a new number. `lineage[c]` is the set of contents
that `c` was edited from, itself included, so that "not lost" can be said: a content is
still there if some content edited from it is. `unsaved`, `forgotten` and `received` are
history variables for the properties.

Left out: deletions, uuid conflicts, rejected payloads, items keys, offline operations,
failing disk writes (`persistPayloads` only reports them), uploads of more than one page,
references between items and the order of two overlapping writes of one item.

### PayloadManager and EmitQueue

`emitQueue` is the queue, `step` and `observer` tell what `popQueue` is doing with its head:
applying it to `collection`, mapping it into `items` (the item manager is the first
observer), notifying observer after observer, finishing it. Callers run when no emit is
handled (`Quiet`); observers run in the middle of one and emit too (`Reaction`). A payload
is represented by the set of changes in it, the items it refers to and whether it is a
deletion, so `NoChangeReverted` can say that an item has every change made to it.
`setItemToBeDeleted` is its emit and then one change for each item that referred to the deleted one
(`RemoveReference`), with awaits between. `AddRelationship` does not look whether the item it refers to still exists, as
`addTagToNote` and the like do not: `late` remembers the references made to an item after its deletion. `ObserverThrows` leaves `popQueue` with the
element at the head: later emits are queued behind it and never popped, which the abstract
queue allows (safety only); a removal of one item (`RemoveItemLocally`) bypasses the queue.

`EmitsInOrder` is the specification of `EmitQueue` under the mapping `pending` = the numbers
in `emitQueue`, `log` = `applied`.

### DiskStorage and VersionedStore

`values` is the object in memory by its version, `persist[p]` one call of
`persistValuesToDisk` and `save[s]` one of `savePayloads`. `crypto` holds the encryptions of key-values under way,
`device` the device calls under way. The device is first in, first out, as the transactions of one database
are. So is `crypto`: the encryptions of one kind of object by one key take the same steps. That is an assumption where
`clearAllData` follows the deletion of the root key: its values are then not encrypted at all, and could pass a persist
that still is. A save may end its encryption in any order (`SaveEncrypted`): it takes a moment for each kind of key its payloads need,
and none if all are deleted or encrypted already. A save with discardable payloads awaits their deletion before that. A persist takes its
copy of the values when it starts to encrypt, which may be after another was waited for; several that waited start together (`Started`).
`ClearAllData` and `SwitchToEphemeral` are chains of device calls, each asked for
when the one before answered (`CallsAfter`, `AllPayloadsRemoved`, `AllValuesRemoved`), and begin whatever else is under way.
`PrepareForDeinit` remembers the critical functions that `blockDeinit` awaits: without a limit when signing out, for 500 ms in
`lock()` (`limited`), after which `Deinit` comes although they have not settled, and what is still encrypting is not written. `Restart` is
a crash at any point, or the launch after deinit.

Nothing orders saves before they are handed to the device, so the properties say what is left. `passed[s]` are the saves not yet handed over when `s`
was called, and only they may undo it; `spared` the same for each erasing, which only they survive; `abandoned` is what the limit of `lock()` cut off.

`KeepsVersions` is `VersionedStore` under `mem <- values`, `disk <- diskValues`, `there <- hasValues`: a safety
property. That the last change is written in the end is `LastChangePersists`.

### Singletons

Items of one content type, numbered by creation. Each device has what it `known`s of every item,
the order they came in, what is to be uploaded, and the manager's `resolveQueue`. A sync is
`StartSync`, `Answer` at the server and `FinishSync`, or `FailSync` before or after the server acted.
Retrieved items may come before the key that decrypts them (`errored`), as they do while signing in.
`Resolve` is the reaction to the sync event, which reaches the manager after other steps.
`FindOrCreate`, `LookAgain` and `Create` are the three parts of
`findOrCreateContentTypeSingleton`. The sync a caller asks for is one it starts, or somebody else's that its request is in time for
(`CallersStarting`). It returns with that sync (`CallersReturn`); if the sync fails, who started it goes on, and who was in time for it hangs
for good (`CallersOfFailedSync`), as `RemovedRequestsAreCalled` says of `SyncQueue`. Each device begins with a singleton made before it signed in,
or with none. `discarded` remembers the items that a caller deleted because it could not decrypt them, to create
another (`deleteErroredPayloads`). Before it, nobody deletes the earliest singleton. After it, nothing is certain any more
("Known not to hold"), and `SomeSingletonSurvives` claims nothing; `DevicesAgree` still claims that the devices agree,
on one singleton or on none.

### Sessions

A pair of access and refresh token is a number, in the order of issue; `server[p]` is what the
server takes it for. `SetSession` puts a pair into memory at once and starts a persist that nobody awaits (`saving`), which ends in
`Persisted`; a crash before that leaves the former pair on disk. `call[r]` is a request: made (unless `preprocessingError`), answered, refreshing,
retried, populating a changed session. `attempt[a]` is a sign in from the renewal challenge,
`signOut` the sign outs, begun by the user or by a revoked session. The server, the network
and the user are external actions. `executed` counts what the server did of each request;
`missed` remembers that a new pair was lost, with its answer or in a crash before it was on disk, after which the client cannot be
expected to keep up; `late` that such an answer came between the clearing of the storage and deinit.
Requests that were not served when the process dies are taken as lost.
The answer to a refresh may replace the pair of a newer sign in (`ApiService.ts:397`). The server takes both pairs, so `SessionKeepsUp` does not tell them apart,
and no other property does.

### Credentials

A root key is the number of the change that made it, and so is an items key; one note stands
for all. `server` and `disk` are the account and the device: the root key (by the server's
password), the root key each items key is encrypted with, the items key of the note.
`change` goes through `performCredentialsChange`: the request under the lock, the root key,
the new items key and the re-encryption of all, the sync, the decision, and the rollback
with the former root key. `StartSync`..`FinishSync` are this client's syncs, those of the change or
any other while syncing is not locked, with edits of the note meanwhile. `DeleteItemsKeys` and
`RewriteItemsKeys` are the two writes of `rewriteItemsKeys`.

### KeyRecovery

Items keys arrive in versions, encrypted with the root key of some password: one that the client can decrypt
(`ReceiveDecryptable`) replaces the copies in memory and in the database. One that it cannot (`Receive`) replaces them
if they are errored or missing; otherwise it is put into the isolated storage (`handleIgnoredItemsKeys`). Either way it joins `decryptionQueue`.
The copies say what root key they are encrypted with in the database. `run[r]` is a call of `beginKeyRecovery` at one of its awaits:
fetching parameters, prompting the user, replacing the root key, decrypting every key of the queue
that matches, emitting, saving, removing from isolated storage, and at the end the fallback to
a corrective sign in. The user answers with the right password, a wrong one or cancels;
A corrective sign in also has the errored copies decrypted that can be (`decryptErroredPayloads`).
`PresentKeyRecoveryWizard` is the user's own opening of the wizard; `Restart` ends all runs and loads the database, where the root key decides what is errored.

### Launch

`app.at` goes through `prepareForLaunch` and `launch`: stored version, required migrations,
preparation of each (`Migration2_0_0` moves the storage structure), the storage object, encryption,
the launch challenge, stage `StorageDecrypted_09` with the move and then the deletion of legacy values, stage
`Launched_10` at which storage becomes persistable, the database, the first full sync with
`markMigrationsAsDone`. `user` is the kind of installation: 1.x or fresh, with account or
without, with passcode or without. `End` ends the application at any step, and loses what
was only in memory. `LoseKeychain` stands for a device whose keychain comes back empty, which
`repairMissingKeychain` (`Base.ts`) handles.

### Challenges and Prompts

A challenge is one of three kinds by its caller: validated by the service (`Validated`), a form whose caller
takes the values as they are (`Form`), or checked by the caller, who asks the server or derives a key
and goes on until the values are right (`Check`: session renewal, migration, keychain repair).
`operation[c]` is the entry of `challengeOperations`, `promise[c]` what the caller awaits,
`told[c]` what observers heard. `SubmitValues` is a call of `submitValuesForChallenge`;
`Validate` is the result of `validateChallengeValue` for its next value, by when the challenge may have ended;
`Checked` is the end of a caller's check; `Cancel` and `Deinit` may come between any of them.
Which values an operation keeps is determined by prompt (`ValuesWith`, `Added`). What a value is made of is left out, and
so are wrong values that are validated, since nothing reads them.

`AnswersAreRight` is `Prompts` under `right <- Right`, `outcome <- promise`.

### Features

`server` is the plan of the account: its roles, and which features it makes available or lets expire. `reports` are the roles
under way in metas of responses and messages of the web socket. `ReceiveReport` is `updateRolesAndFetchFeatures` up to the storing of
the roles, `GetUserFeatures` asks for the features, `ServerAnswers` and `DownloadFails` end the request, and `DidDownloadFeatures` takes
the answer and maps it: no segment of the mapping awaits anything but microtasks, as `setItemsToBeDeleted` and `createItem`
only emit. `update[u]` is one such call or a `downloadOfflineFeatures`; `asked` keeps their answers in the order they were asked for.
`known` are the items in memory and `database` those on disk and at the server, which `DownloadFirstSync` brings into memory; `Sync` saves.
`EnableExperimentalFeature` and `DisableExperimentalFeature` map one feature. `IsEntitled` is `getFeatureStatus` of a native feature, and
`MayUse` what the account or the repository grants. The switches of experimental features are kept on a device, while items are synced: the database
may have items of a feature that is off here, from a device on which it is on. `foreign` are the experimental features of which it had such an item from the beginning, until
they are switched here. Other devices add no items after that. Every session is one of an account, with or without an offline repository besides. That of a repository without an account, its usual
user, is not modelled.

## Runs

| Run | Shows | Distinct states | Time |
|---|---|---|---|
| `queue` | two overlapping external calls of distinct kinds, an edit, a sign in, a follow-up, and one fault (an error, a failing encryption, the client lock, deinit) at any point: one operation at a time; every deferred request is held by something that settles it; a call that ran an operation resolves after its edits are saved; after deinit no operation begins and no response is applied | 1 656 000 | 35 s |
| `queue_live` | with the timer, and a start offline, every call settles unless a sync failed; every edit is uploaded although one did | 84 000 | 100 s |
| `data` | paged downloads with an edit on each side, a conflict, a failed or late request and a crash at any point: no edit is lost and what the server never had is dirty, in memory and on disk (`EditsAreSafe`); stored tokens are covered by the disk; client and server converge | 125 000 | 40 s |
| `storage` | up to three persists and two saves overlapping, a deletion that passes a save of the same note, two events among failures, restarts, clearing, ephemeral policy, deinit and lock: implements `VersionedStore`; a resolved save is not reverted, erased data stays erased, but for saves not yet handed to the device; deinit waits for what had begun, but for the limit of `lock()` | 1 047 000 | 50 s |
| `payloads` | eight emits on two items, two observers that react, one that throws, deletions: implements `EmitQueue`; observers see every emit; no change reverted; only references made after a deletion outlive it | 669 000 | 11 s |
| `singletons` | two devices, two items, a failed request, keys that come later: one singleton survives unless one was discarded, devices agree, callers return unless they were in time for a failed sync | 118 000 | 22 s |
| `session` | an ordinary request and a change of credentials, two expiries, two sign ins, two lost answers, a crash, also before a persist: no token refreshed twice; the session keeps up with the server; each request executed once | 2 809 000 | 50 s |
| `credentials` | two changes, three edits, three failures: account and device readable, and readable in the end | 88 000 | 8 s |
| `recovery` | two keys, three passwords, two runs, two arrivals, a restart, a wizard: no key lost, the root key never goes back, the queue is worked off | 578 000 | 60 s |
| `launch` | every kind of installation, ended three times at any step but those of the gap below: account kept, migrations done in the end | 627 | 2 s |
| `challenges` | a validated challenge, a renewal, a code and a form that its caller leaves open, of two prompts each; two submissions that overlap, with right and wrong values, complete or not; late checks, a cancellation, deinit: implements `Prompts`; observers hear of the end once and last; right values for all prompts end a challenge whatever else is submitted | 952 000 | 110 s |
| `features` | a plan and an offline repository that grant different features and change, items from before and from other devices, an experimental theme switched, a failed download, a restart: one item of a feature; items follow features; the status of each is what is granted in the end | 490 000 | 50 s |

Type correctness (`TypeOK` of each module) was checked with the same configurations; of the runs only `session` keeps it, and the
proofs have it for every value of the constants of six modules.

### Bounds

Every bound is a constant. `MaxRequests` (external calls), `MaxDirtyIndex` (edits),
`MaxFaults` (errors, throws, client lock, deinit) and `MaxFollowUps` (integrity mismatch,
singletons) for `SyncQueue`; `MaxEdits`, `MaxRemoteEdits`, `MaxFailures` and `MaxCrashes`
for `SyncData`. Two external calls and a follow-up give four calls in flight, enough for
one that runs, one it starts, one deferred to each queue. With `PageLimit = 1`, two items make
two pages. The edits on both sides meet in a conflict at every point of an operation; the pool of
copies is never empty when one is needed: deadlock is checked in `data`, and an operation that
lacks a uuid would be one. A larger instance of `SyncData` (one note with two edits here and one
elsewhere, so that a copy is in conflict again; 659 000 states, four minutes) was checked as well, and
is left out of the runs for its time.

`MaxCalls` bounds persists and saves together in `DiskStorage`: three writes under way at once are needed for
one to wait, one to encrypt and one to be written. `MaxEmits = 8` in `PayloadManager` leaves room for a deletion, the removal of its reference and
reactions of both observers to both. Two devices with two items can each keep one in favour of another. Three items (554 000 states,
two minutes) were checked as well, and that one survives is proved for any numbers of both. `Sessions` has a request that can refresh while the
other's answer is under way, and a second expiry after the first refresh; `Attempt` has two sign ins, as two
prompts can overlap. `Credentials` has a change after one that failed, and a failure for its request, its sync and its rollback.
`KeyRecovery` needs two runs for a prompt to be open while another run ends, and three passwords for a key of a root key
that is neither the client's nor the server's. `Challenges` has two prompts, so that values of different submissions can complete a
challenge together, and two submissions that overlap, each of which may be the later one. `Features` has two updates at once, two
changes of plan or repository, and two items of a feature, of which the second is only made if the database has one that is not known.

The `SyncQueue` run without the timer, and those of the modules whose bounded supplies of calls, failures
and arrivals run out, turn the deadlock check off: a state in which nothing is left to do is an end there.
`queue_live` and `data` check it.

### Fairness

All of it is weak, and on what the program, the device or the network does by itself.
`SyncQueue`: the segments of each call, the loading of the database and the timer; every await of a call ends, as
writes and observers complete and the HTTP layer answers a lost request with an error. The
timer is an interval that fires again and again. `SyncData`: the steps
of the operation under way, beginning the next one included (the timer again), and the
write of the value store. `DiskStorage`: encryption and the device answer, and the application gets launched.
`Singletons` and `Credentials`: the application syncs while there is something to sync, requests are answered,
what has begun goes on. `KeyRecovery`: the application's own steps, and a user who is asked for a password
gives the right one at last or cancels. `Launch`: the launch goes on with a user who knows the passcode
and a server that can be reached in the end, and a failed launch is started again. `Challenges`: a validation that has begun ends.
`Features`: syncs go on and report the roles, the first one of a session ends, requests are answered or fail. Nothing is assumed of the user elsewhere, nor of other devices,
late requests, failures or crashes, except that the bounds make them stop.

## Known not to hold

Each of the following is a behaviour of the code met while modelling and outside the runs. The first four are
definitions of `SyncQueue` that no run has; the others, where nothing else is said, appear when the setting is put into `Environment`
(`LaunchEnvironment`, `SingletonsEnvironment`), and violate the property named.

- `NoRequestLeftBehind` (`SyncQueue`): a request whose presave is still being written when the running sync looks at the queue for the last
  time (`SyncService.ts:1088`) is queued with no sync under way. The timer finds it within 30 s, which is why `EveryCallSettles` holds.
- `RemovedRequestsAreCalled`: an operation that fails has taken the in-time requests off the queue (`SyncService.ts:792`), and never settles them.
- `LockMeansPreparing`: an operation that throws while it is prepared, as when encryption finds no usable items key, keeps the lock (`SyncService.ts:789`).
- `ResolvedSyncUploads`: a request resolves with an operation that had frozen its items before the request's edit (`SyncService.ts:759`).
- `"editWhileApplying"`, `"editUncounted"` (`SyncData`): an edit between the snapshot its response is resolved against and the emit of the result is overwritten (`SyncService.ts:860`);
  the first edit of a session, to an item in flight, is marked as saved, since `frozenDirtyIndex` is 0 (`SyncService.ts:506`): `EditsAreSafe` fails.
- `"staleReaction"` (`PayloadManager`): an observer that changes an item whose emit waits in the queue computes the change from the item without it: `NoChangeReverted` fails.
- `"sameTime"` (`Singletons`): with equal creation dates each device keeps the one that came first to it, and deletes the other's: `SomeSingletonSurvives` fails.
- `SomeSingletonSurvives` without its exception for discarded items (`Singletons`, two devices, two callers, three items): a device that has retrieved an item before its key deletes it
  (`SingletonManager.ts:199`) and creates another one. Meanwhile the first device has kept the deleted one and deleted a third in its favour; the second retrieves that third, finds it earlier than its own and
  deletes its own. Both upload their deletions, and no singleton is left until somebody asks for one again.
- `"overlappingSync"` (`Credentials`): a sync begun before the change, or between its stages, applies its answer to items re-encrypted meanwhile: `AccountIsReadable` and `DeviceIsReadable` fail.
- `"newVersion"`, `"passwordChanges"` (`KeyRecovery`): keys are removed from the isolated storage by uuid, also when a newer undecryptable version came between the saving of the recovered one and the removal (`UndecryptablesAreKept` fails); a password changed elsewhere between the fetching of parameters and the prompt lets an older root key replace a newer one (`RootKeyNeverGoesBack` fails).
- `"unfinishedMigration"` (`Launch`): a launch that ends after `2_0_0` has deleted the legacy values (`2_0_0.ts:61-68`, `578-601`) and before the last migration
  writes the version (`2_42_0.ts:15-18`, marked by `MigrationService.ts:51-55` after the first full sync) is followed by one that runs `2_0_0` again, finds no legacy
  values and writes an empty structure over the storage object (`2_0_0.ts:85-166`): `AccountIsKept` fails.
- `FailedChangeIsRolledBack` (`Credentials`, a definition that no run has): after a failed change of the email address the rollback (`UserService.ts:548`) sends the former root key but
  not the former address, from which that key was derived, although the comment at `UserService.ts:529` says that the changes are rolled back.
- `"earlyMessage"` (`Features`): `updateRolesAndFetchFeatures` is called by the web socket at any time; its answer may come before the first sync, and then a feature that has
  an item gets another (`OneItemEach`), which the comment at `FeaturesService.ts:120-124` says must be avoided. The duplicate stays until the singleton manager meets it, if the component is one.
- `"earlyCall"`, `"enabledTwice"`, `"lostDeletion"` (`Features`): the user switches a feature, or enters an offline code, before the first sync; a feature is pushed twice into
  `enabledExperimentalFeatures` and removed once (`FeaturesService.ts:155`, `169`); the deletion of its item is not saved before the application ends, while the switch is: `ItemsFollowFeatures` fails.
- `"overtakenAnswer"`, `"planReturns"`, `"renewal"`, `"subscriberWithRepo"` (`Features`): an older answer comes after a newer one; a plan changes and changes back
  while its features are fetched; a plan has other features but the same roles, which no report shows before the next launch; a subscriber has an offline repository as well, so that the stored
  roles mean no download: `EntitlementsSettle` fails.

The next ones are in the models and in the runs, as exceptions of the properties:

- `DiskStorageService.ts:381-433` (`passed`): a save waits for its deletions and then for its encryption, and another save of the same item that has less
  to wait for passes it. A note that is discarded while an earlier save of it is being encrypted is deleted first and then written: it is on disk again.
- `DiskStorageService.ts:82-89`, `455-466` (`spared`): neither `setPersistencePolicy` nor `clearAllData` waits for a save that is still deleting or encrypting, and such a save writes
  its payloads to the erased disk; `savePayloads` looks at the policy only when it is called.
- `Application.ts:901-907` (`abandoned`): `lock()` deinits after 500 ms, and a persist or save still encrypting then is not written.
- `ItemManager.ts:1116-1148` (`late`): a tag or file is made to refer to an item that was deleted meanwhile, after its deletion looked for references.
- `SyncService.ts:792` again (`hung` in `Singletons`): a call of `findOrCreateSingleton` whose request was in time for a sync that failed never returns.
- `ApiService.ts:130-135` (`missed`): the process dies after a refresh and before its pair is on disk; the next session presents the rotated refresh token again.
- `FeaturesService.ts:540` (`foreign`): an item of an experimental feature that another device has on is never removed on a device where it is off.
- `SyncService.ts:1026-1028`: a download-first sync whose awaits end after deinit still sets `completedOnlineDownloadFirstSync`; `NothingAfterDeinit` does not speak of that flag.

Other behaviours the models contain and no property forbids: after a failed persist every later one of the session fails with it
(`DiskStorageService.ts:206`); a request in flight during a refresh is answered as invalid and opens the renewal prompt; the answer to a refresh that arrives between `clearAllData` and deinit stores a session again
(`late` in `Sessions`); emits behind an observer that threw are never handled; `promptForLegacyPassword` gets its values and never completes its
challenge, which stays open (`Left`); a renewal cancelled while the sign in it began goes on is renewed all the same, with no
notification that the session is restored, as completing a challenge that is gone throws (`CheckedRight`); a validated challenge without observers
completes, and then its submission throws when the observers are cleared (`ValidatedLast`);
`UserRolesChanged` is never notified, as `setRoles` assigns the roles before it compares with them (`FeaturesService.ts:359`); a download of features that failed is only repeated when
the roles change or the application starts again (`missed`).

## Proofs

`SyncQueue_proofs` proves, for any number of calls and items and any options, page limit and bounds:

- `SyncQueueTypeCorrect`: `TypeOK` is an invariant. One step per action; the lemmas say that
  the building blocks (`StartSync`, `AwaitSync`, `Resume`) preserve the types of the
  variables they assign.
- `SyncQueueMutualExclusion`: `AtMostOneOperation`. It is not inductive: nothing in it says that a
  call which prepares a sync excludes another. The invariant `LockInv` does: a call in flight
  executes; at most one call holds the lock, that is executes and is in its presave or in
  flight; and while one does, `syncLock` is set. `CanExecute` then gives the lock to nobody else,
  and `releaseLock` is only reached by the holder.
- `SyncQueueNothingAfterDeinit`: the action property, which leaves out only the download-first flag, from the type invariant and from
  `NoErrorOnceDealloced`, as an error set before deinit is the one thing a segment would clear later.
- `SyncQueueRequestsAreHeld`: `QueuedRequestIsHeld`, about runs in which nothing has failed. The invariant `HoldInv` says that there is
  then no error, throw, client lock or deinit (`NoFaultYet`), that each queued call is in one of four places (the resolve queue, the spawn
  queue, the list of a call that will settle it, or a sync spawned for it), and never in two but for the segments
  in which a call that begins has copied the queue and not yet subtracted its list. Each building block of a step has a
  lemma that says what it does to the places.
- `SyncQueueExecutedSyncUploads`: what a call captured has been uploaded when it returns, although after a download-first sync
  its upload is left to a second one, which may itself be deferred and settled by the operation of yet another call. `SaveInv` follows
  what was captured: by the operation itself (`SavesOwn`); by whatever is called after the lock was released, which captures
  what is still unsaved then (`LeavesToLater`); a sync that an executed call starts is never put off to the spawn queue (`SpawnsOwn`). It rests on `HoldInv`.

`SyncData_proofs` proves, for any notes, any finite number of copies, any page limit and any number of edits here and elsewhere, lost answers, late requests and crashes, if neither
race of `Environment` is let in (the theorems assume that it is empty: with either race TLC finds edits lost):

- `SyncDataTypeCorrect`: `TypeOK`, from the invariant below, as the types of an operation's parts depend on its stage.
- `SyncDataEditsAreSafe`: `EditsAreSafe`, which says nothing of the payloads on their way. The invariant `IInv` does. It speaks of two functions the program does not keep
  (it has them under an existential quantifier): `origin`, the first content an item had, and `family`, the contents ever found under its uuid. A content may give way to
  another that was edited from it, or when some item began with what was edited from it (`Stays`): this is how a conflict's copy keeps an edit. What the server
  has only grows (`Grows`), and all else is stated relative to it: a payload that has the server's revision was edited from the server's content (`Based`), so an upload that is
  accepted overwrites nothing unseen; what is not dirty has reached the server (`Marked`). Each stage of the operation adds what it
  needs: the captured payloads are those of memory or older (`PresaveOK`); the upload is what the frozen index says (`WaitingOK`); the answer contains what its token covers (`Complete`);
  the snapshot agrees with memory where it is used (`ResolveOK`), which is what the races break; and the emits, of which each is applied and persisted on its own, lose nothing whichever
  of them a crash cuts off (`PersistOK`). The deltas have lemmas of their own, one per branch.
- `SyncDataStoredTokensAreCovered`: `StoredTokensAreCovered`, from the part of `IInv` about tokens (`TokensOK`, `FinalOK`): the tokens in memory cover only what is on disk already, as
  a page's tokens are set after its last emit is persisted.

`Items_proofs` proves, for any number of devices, callers, items and lost requests:

- `SingletonsSomeSingletonSurvives`: `SomeSingletonSurvives`, if no two singletons have the same creation date (without `sameTime`). The property only says that there is
  a survivor; the invariant says which. An item is `Beaten` if an earlier one was created. All that is deleted anywhere, or that a request under way will delete or drop,
  is beaten (`BeatenInv`), as `Kept` is the earliest of those a device has (`KeptIsEarliest`); what is not beaten is with somebody (`ThereInv`), although a response makes a device
  forget what it has deleted; and only what was created is anywhere (`CreatedInv`), so that what beats an item is a singleton. The earliest of all is not beaten, hence it survives.
  TLC found the need for the exception: with three items the property is false once an item has been discarded.

`Items_proofs` also proves, for any number of items, observers and emits and any `Environment` of `PayloadManager`:

- `PayloadManagerTypeCorrect`: `TypeOK`, one step per action; lemmas give the types of what `EmitPayload` and the changes built on it assign.
- `PayloadManagerObserversSeeEveryEmit`: `ObserversSeeEveryEmit` is not inductive, as it says nothing of the emits that
  wait. `OrderInv` does: the emits are numbered consecutively through `applied` and the queue (`QueueInv`, `AppliedInv`),
  the resolved ones are those before the head, and each observer has seen the applied ones,
  all but the one being handled if its turn has not come (`SeenInv`, with `BusyInv` tying `step` to the queue).
- `PayloadManagerEmitsInOrder`: from the same invariant, `PayloadManager` implements `EmitQueue`. Emits are `Emit`,
  `ApplyPayloads` is `Apply`, `Finish` is `Resolve`, everything else stutters.
- `PayloadManagerNoChangeReverted` and `PayloadManagerDeletedItemsAreUnreferenced`, if no observer changes an item whose emit is still in the queue
  (without `staleReaction`). `Final` is what every item comes to once the elements still to be mapped are mapped. `ChangeInv` says that no item has two
  of these, that every item has in `Final` all the changes made to it, and that a deleted item is referred to there only
  by those its deletion still has to change and by the `late` ones. `popQueue` leaves `Final` alone, and an emit changes one item of it. Once an
  observer has thrown nothing is handled again and nothing is claimed.

`DiskStorage_proofs` proves, for any number of items, persists, saves, failures, erasures and restarts:

- `DiskStorageTypeCorrect`: `TypeOK`. That a version in memory or on disk is one there has been depends on the copies under way, so it is proved with `BaseInv`:
  what is in a queue is in the stage for it, and there once (`SaveQueues`, `PersistQueues`); calls are numbered in the order they begin (`FirstUsed`);
  a copy is a version there was (`Snaps`), and the copies stand in `crypto` and `device` in the order of their versions and are no older than the disk (`PersistQueues`),
  because a persist takes its copy when it starts to encrypt and both `crypto` and `device` are first in, first out; and only a session that changed the values
  persists them (`Current`).
- `DiskStorageKeepsVersions`: `DiskStorage` implements `VersionedStore`. A change is `Change`, `ValuesWritten` is `Write`, a removal of the values is `Erase`, `Restart` is
  `NextSession`, everything else stutters.

- `DiskStorageResolvedSaveIsNotReverted`: `OrderInv` says that of the saves called before `s` only those in `passed[s]` may not be handed to the device yet
  (`HandedOver`), that the calls of the device are in the order of the saves but for these (`DeviceOrder`), that they come after what has been done (`ActedFirst`), and that so is what is on disk (`OnDisk`).
- `DiskStorageCriticalWritesOutliveDeinit`: what `blockDeinit` awaits goes on to its end (`CloseInv`): a persist or save of `closing` is being
  written, has failed, which keeps deinit from ending, or is over and on disk, unless it was `abandoned`.
- `DiskStorageErasedDataStaysErased`: after `clearAllData` by `ClearInv`: whatever is encrypted after its persist, and every
  device call made after that persist is written, is newer than it, so the removal of the payloads, and then of the values, comes after everything
  older that is not `spared`. After `setPersistencePolicy(Ephemeral)` by `SwitchInv`: no write but those of `spared` saves is begun once the policy has changed, and the device does what was begun before
  it erases.

`Sessions_proofs` proves, for any number of requests, sign ins, tokens, lost answers, sign outs and restarts:

- `SessionsTypeCorrect` and `SessionsExecutedOnce`, from `TypeInv`, which adds to the types that the refreshing flag is up for just one request and
  the renewal flag for one prompt, and that a request that may still be sent, or sent again, has not been executed (`Sound`).
- `SessionsNoTokenRefreshedTwice` and `SessionsKeepUp`, from `PairInv`. Neither is inductive: a pair might be on its way to the client twice, or a stored one
  might be older than the one in memory. `PairInv` says where every pair is: one on its way is new to the client and is brought by one request or one sign in
  (`BroughtInv`, `ApartInv`), the one being saved is the one in memory, and once nothing is being saved the stored one is, or gone (`StoredInv`), and a pair that was used up has its successor on the way
  (`SuccessorInv`).

`Access_proofs` proves of `Challenges`, for any number of challenges of each kind, prompts and submissions:

- `ChallengesTypeCorrect`: `TypeOK`; the part about submissions needs that the next prompt exists, which is the minimum of a
  nonempty set of naturals.
- `ChallengesObserversKnowTheEnd`: from `EndInv`, which adds that nothing is told of a challenge never asked, that a promise that is settled
  was asked for, and that what is being checked belongs to a submission made.
- `ChallengesAnswersAreRight`: `Challenges` implements `Prompts`. The invariant `ValuesInv` says of the values an operation has
  collected that there is one per prompt, that the valid ones are right, and that values handed to a caller are complete. As many values
  as prompts, each of another prompt, are one for every prompt: an argument about cardinalities, by an injection.

`Access_proofs` proves of `Launch`, for any number of restarts and if no launch ends in the gap that `unfinishedMigration` stands for:

- `LaunchTypeCorrect`: `TypeOK`, one step per action.
- `LaunchKeepsAccount`: `AccountIsKept`. Inductive is `AccountInv`, which follows the account through the launch: until the
  deletion the legacy values are those of the installation (`RawInv`); the migration runs exactly while the version is old
  (`ActiveInv`); what it computes, and then what the disk and the values in memory hold, yields the root key (`ObjectInv`); a
  launch past its challenge has that key (`RootKeyInv`). The hypothesis is needed: with `unfinishedMigration` TLC finds the violation in one restart.

`Access_proofs` proves of `Credentials`, for any number of changes, edits and lost requests or answers, if no sync overlaps a change outside of its lock (without `overlappingSync`):

- `CredentialsTypeCorrect`, `CredentialsAccountIsReadable` and `CredentialsDeviceIsReadable`, from `CredentialsInv`. Neither of the last two is inductive: they say
  nothing in the middle of a change. The invariant follows a change by its stages: who has which root key (`RootInv`: client and server agree but for the time an answer is on its way);
  which items key is the default, and that the one a rollback returns to stays (`KeysInv`); that a sync under way sent what the client has (`SyncInv`); that every items key that is
  kept is still to be uploaded or is on the server under the root key, and likewise on disk (`ServerInv`, `DiskInv`); and that a note which the new items key has encrypted was edited, if that key is
  going to be deleted (`UndoInv`), so that the sync of the rollback encrypts it once more.

`Features_proofs` proves, for any features, plans and repositories and any number of updates, failures and restarts, if no update comes before
the first sync, no feature is enabled twice and the deletion of a disabled one is saved (`InOrder`):

- `FeaturesOneItemEach`: `OneItemEach`. It needs that nothing is under way and nothing in memory before the first sync (`QuietInv`), or the mapping would
  not find what the database has; the lemmas on `MappedItem` say that it leaves one item of a feature, in the state granted.
- `FeaturesItemsFollow`: `ItemsFollowFeatures`. The invariant adds what the database may have when a session begins: of an experimental feature only if it is enabled, or `foreign` (`EnabledInv`),
  which each restart has to establish from the items in memory.

`KeyRecovery_proofs` proves, for any number of keys, passwords, runs of the wizard, arrivals and restarts:

- `KeyRecoveryKeepsKeys`: `UndecryptablesAreKept`, if no version of a key arrives while an earlier one is being recovered (without `newVersion`).
  Inductive with `SavedInv`: the keys a run is about to remove from the isolated storage are in the database in their last version.
- `KeyRecoveryRootKeyNeverGoesBack`: `RootKeyNeverGoesBack`, if the password of the account does not change while a run is under way (without
  `passwordChanges`). The invariant `RootInv` says that the parameters a run has fetched are the server's and that a root key
  that will replace the client's has these; several runs may be open. In both, `Shape` says of `run` that it is a function to records, with whatever values.

They rest on the assumptions about constants of each module, which TLC evaluates in every run. The other properties of the runs
are only model-checked: they are liveness, for every safety property of the runs is stated by a theorem, and of the type invariants only `SingletonsTypeOK` is not proved,
whose part about `order` rests on what `SelectSeq` returns. Liveness and `ENABLED` are beyond the prover and stay with TLC (`LastChangePersists`, and `RightValuesPass`, for instance),
as does anything that needs induction over a data structure. No module uses `RECURSIVE`.

## Plan

The modules planned are written, and the safety properties of the runs are proved. What would add most next: an abstract specification of the sync service, one operation at a time over a ledger of edits, that `SyncQueue` implements.

## Not modelled

Cryptography (encryption is a step that may throw), the user interface, editor frames and
their messages, files, e-mail and extension settings: request wrappers with no state that
outlives a call. Protections, history, the mutator and the application group are sequential
over one stored value or list. More than half of the repository's lines of code are the vendored `.pnp.cjs` and the package manager, and most of the rest is
queries, request wrappers and typed accessors, which is why the models cover a small share of all lines.
`PROJECT.json` lists every component with its status, and every hazard found in the code
with the properties that cover it, or why none does.
