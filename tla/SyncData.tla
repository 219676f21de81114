------------------------------- MODULE SyncData -------------------------------
(***************************************************************************)
(* What a sync does to the data: which payloads it writes to disk, sends   *)
(* and applies, and which tokens it stores, between one client, its disk,  *)
(* the server and the user's other devices.                                *)
(*                                                                         *)
(* One operation runs at a time, which is the theorem                      *)
(* SyncQueueMutualExclusion of SyncQueue_proofs; the queues around it are  *)
(* not repeated here.  A content stands for everything the user can edit   *)
(* in an item.  Items are decrypted notes, and none is deleted.            *)
(***************************************************************************)
EXTENDS Naturals, FiniteSets, Sequences

CONSTANTS
  Notes,            (* The user's notes, 1..n.                               *)
  Copies,           (* The uuids given to conflicted copies.                 *)
  PageLimit,        (* SyncUpDownLimit, as far as downloads go.              *)
  Environment,      (* Which races the instance allows, see below.           *)
  MaxEdits,         (* Bound: edits on this client.                          *)
  MaxRemoteEdits,   (* Bound: edits on other devices.                        *)
  MaxFailures,      (* Bound: requests the client sees fail.                 *)
  MaxCrashes        (* Bound: crashes, or closings, of the client.           *)

Items == Notes \cup Copies

(***************************************************************************)
(* Two races that lose edits, each allowed by its name:                    *)
(*   "editWhileApplying"  an item is edited between the snapshot a         *)
(*                        response is resolved against and the emit of the *)
(*                        result for that item                             *)
(*   "editUncounted"      an item with a request in flight is edited, when *)
(*                        nothing had been edited since launch before      *)
(***************************************************************************)
Races == {"editWhileApplying", "editUncounted"}

ASSUME SyncDataAssumption ==
  /\ IsFiniteSet(Notes) /\ Notes = 1..Cardinality(Notes)
  /\ IsFiniteSet(Copies) /\ Copies \subseteq Nat /\ 0 \notin Items /\ Notes \cap Copies = {}
  /\ PageLimit \in Nat \ {0}
  /\ Environment \subseteq Races
  /\ {MaxEdits, MaxRemoteEdits, MaxFailures, MaxCrashes} \subseteq Nat

VARIABLES
  local,           (* payloadManager.collection, by uuid.                    *)
  dirtyCount,      (* The counter of getIncrementedDirtyIndex.               *)
  previous,        (* The newest session revision of each item, 0 for none.  *)
  copyOf,          (* conflict_of of each copy, 0 while its uuid is unused.  *)
  sync,            (* The operation under way, and the locals of its call.   *)
  tokens,          (* syncToken and cursorToken.                             *)
  completedDownloadFirst,
  disk,            (* The database of payloads.                              *)
  storedTokens,    (* The tokens in the value store on disk.                 *)
  server,          (* The server's items.                                    *)
  serverSeq,       (* The server's clock: the latest updated_at_timestamp.   *)
  orphans,         (* Uploads of requests given up, that may still arrive.   *)
  lineage,         (* Per content: the contents it was edited from.          *)
  received,        (* The contents the server had at some time.              *)
  unsaved,         (* Edits no presave has covered yet.                      *)
  forgotten,       (* Those of them that a crash took away.                  *)
  used             (* How much of each bound has been used.                  *)

client == <<local, dirtyCount, previous, copyOf>>
store == <<disk, storedTokens>>
remote == <<server, serverSeq, orphans, received>>
ghosts == <<lineage, unsaved, forgotten>>
vars == <<client, sync, tokens, completedDownloadFirst, store, remote, ghosts, used>>

Contents == DOMAIN lineage

(* dirtyIndex and globalDirtyIndexAtLastSync are 0 when undefined: the     *)
(* code tests both for truth, and 0 is false as well.                      *)
Payload == [content : Nat, rev : Nat, dirty : BOOLEAN,
            dirtyIndex : Nat, globalDirtyIndexAtLastSync : Nat]

ServerItem == [content : Nat, rev : Nat]

(* A cursor is 0 when there is none.                                       *)
Token == [sync : Nat, cursor : Nat]

IsMap(f, S) == DOMAIN f \subseteq Items /\ \A i \in DOMAIN f : f[i] \in S

NoItems == [i \in {} |-> 0]

Request == [upload |-> NoItems, since |-> 0]

Reply == [retrieved |-> NoItems, saved |-> NoItems, conflicts |-> NoItems,
          token |-> [sync |-> 0, cursor |-> 0]]

Idle == [pc |-> "idle", captured |-> NoItems, frozen |-> 0, mode |-> "Default",
         request |-> Request, sent |-> {}, reply |-> Reply,
         snapshot |-> NoItems, history |-> [i \in Items |-> 0], emits |-> <<>>]

Stages == {"idle", "presave", "waiting", "answered", "resolve", "persist"}

(* Besides types: an index was drawn from the counter of this session, and *)
(* an item that is not dirty has none.                                     *)
TypeOK ==
  /\ IsMap(local, Payload) /\ IsMap(disk, Payload)
  /\ \A i \in DOMAIN local : /\ local[i].dirtyIndex <= dirtyCount
                             /\ local[i].globalDirtyIndexAtLastSync <= dirtyCount
                             /\ ~local[i].dirty => local[i].dirtyIndex = 0
  /\ IsMap(server, ServerItem)
  /\ dirtyCount \in Nat /\ serverSeq \in Nat
  /\ previous \in [Items -> Nat] /\ copyOf \in [Copies -> Nat]
  /\ sync.pc \in Stages /\ sync.mode \in {"Default", "DownloadFirst"}
  /\ IsMap(sync.captured, Payload) /\ IsMap(sync.snapshot, Payload)
  /\ IsMap(sync.request.upload, ServerItem) /\ sync.sent \subseteq Items
  /\ {tokens, storedTokens} \subseteq Token
  /\ completedDownloadFirst \in BOOLEAN
  /\ received \cup unsaved \cup forgotten \subseteq Contents
-----------------------------------------------------------------------------
(* Collections of payloads.                                                *)

Put(collection, payloads) ==
  [i \in DOMAIN collection \cup DOMAIN payloads |->
     IF i \in DOMAIN payloads THEN payloads[i] ELSE collection[i]]

Pick(collection, S) == [i \in S |-> collection[i]]

ContentsOf(collection) == {collection[i].content : i \in DOMAIN collection}

DirtyItems == {i \in DOMAIN local : local[i].dirty}

Clean(content, rev) ==
  [content |-> content, rev |-> rev, dirty |-> FALSE,
   dirtyIndex |-> 0, globalDirtyIndexAtLastSync |-> 0]

(* What savePayloads writes of payloads: neither index goes to disk.       *)
DiskForm(payloads) ==
  [i \in DOMAIN payloads |->
     [payloads[i] EXCEPT !.dirtyIndex = 0, !.globalDirtyIndexAtLastSync = 0]]

(* applyPayloads of the payload manager, and the history manager observing *)
(* it: the content that a new one replaces becomes the newest revision.    *)
Emit(payloads) ==
  /\ local' = Put(local, payloads)
  /\ previous' =
       [i \in Items |->
          IF i \in DOMAIN payloads \cap DOMAIN local /\ local[i].content # payloads[i].content
            THEN local[i].content ELSE previous[i]]

(* The next content, edited from `base`.                                   *)
NewContent == Len(lineage) + 1
Write(base) == lineage' = Append(lineage, lineage[base] \cup {NewContent})

-----------------------------------------------------------------------------
(* The server, as the client's code relies on it.                          *)

Since(token) == IF token.cursor > 0 THEN token.cursor ELSE token.sync

(* An upload is saved if it was made on the revision the server has.       *)
Savable(upload) ==
  {i \in DOMAIN upload : i \notin DOMAIN server \/ server[i].rev = upload[i].rev}

Newer(since) == {i \in DOMAIN server : server[i].rev > since}

(* The oldest of the newer items, up to the limit.                         *)
Page(since) ==
  {i \in Newer(since) :
     Cardinality({j \in Newer(since) : server[j].rev < server[i].rev}) < PageLimit}

LastRevOf(page) == CHOOSE r \in {server[i].rev : i \in page} :
                     \A i \in page : server[i].rev <= r

(* Saved items get consecutive timestamps.                                 *)
NewRev(saved, i) == serverSeq + Cardinality({j \in saved : j <= i})

Apply(upload) ==
  LET saved == Savable(upload)
  IN /\ server' = Put(server, [i \in saved |-> [content |-> upload[i].content,
                                                rev |-> NewRev(saved, i)]])
     /\ serverSeq' = serverSeq + Cardinality(saved)
     /\ received' = received \cup {upload[i].content : i \in saved}

(* The answer: the items that were newer, apart from those in conflict.    *)
Answer(request) ==
  LET saved == Savable(request.upload)
      conflicts == DOMAIN request.upload \ saved
      page == Page(request.since)
  IN [retrieved |-> Pick(server, page \ conflicts),
      saved |-> [i \in saved |-> NewRev(saved, i)],
      conflicts |-> Pick(server, conflicts),
      token |-> [sync |-> serverSeq + Cardinality(saved),
                 cursor |-> IF page = Newer(request.since) THEN 0 ELSE LastRevOf(page)]]

-----------------------------------------------------------------------------
(* The deltas of a response: what it makes of the collection as it was in  *)
(* the snapshot.  The indices a resolution draws are consecutive; what     *)
(* matters is that they are new, so all are the next one.                  *)

Redirtied(payload) ==
  [payload EXCEPT !.dirty = TRUE, !.dirtyIndex = dirtyCount + 1]

StillDirty(base) ==
  /\ base.dirtyIndex # 0 /\ base.globalDirtyIndexAtLastSync # 0
  /\ base.dirtyIndex > base.globalDirtyIndexAtLastSync

(* payloadByFinalizingSyncState                                            *)
FinalizeSyncState(payload, base) ==
  IF StillDirty(base) THEN Redirtied(payload)
                      ELSE [payload EXCEPT !.dirty = FALSE, !.dirtyIndex = 0]

(* DeltaRemoteSaved                                                        *)
SavedDelta(snapshot, saved) ==
  [i \in DOMAIN saved |->
     FinalizeSyncState([snapshot[i] EXCEPT !.rev = saved[i]], snapshot[i])]

(* DeltaRemoteRetrieved takes an item for a conflict if this operation     *)
(* sent it or it is dirty, and applies it otherwise.                       *)
Conflicting(snapshot, retrieved, sent) ==
  {i \in DOMAIN retrieved : i \in sent \/ (i \in DOMAIN snapshot /\ snapshot[i].dirty)}

RetrievedDelta(snapshot, retrieved) ==
  [i \in DOMAIN retrieved |->
     LET clean == Clean(retrieved[i].content, retrieved[i].rev)
     IN IF i \in DOMAIN snapshot THEN FinalizeSyncState(clean, snapshot[i]) ELSE clean]

Duplicating == {"KeepBaseDuplicateApply", "DuplicateBaseKeepApply"}
ConflictStrategies == {"KeepBase", "KeepApply"} \cup Duplicating

(* getConflictStrategy: a copy made before wins over a second one, and a   *)
(* server content this client had before loses to what it was edited into. *)
(* Which side is duplicated depends on how recently the user edited.       *)
StrategiesFor(i, snapshot, history, apply) ==
  LET copies == {c \in Copies \cap DOMAIN snapshot : copyOf[c] = i}
      first == CHOOSE c \in copies : \A d \in copies : c <= d
  IN IF copies # {} /\ snapshot[first].content = apply.content THEN {"KeepBase"}
     ELSE IF snapshot[i].content = apply.content THEN {"KeepApply"}
     ELSE IF history[i] = apply.content THEN {"KeepBase"}
     ELSE Duplicating

(* The item itself and, with a new uuid, the copy.                         *)
Left(base, apply, strategy) ==
  IF strategy \in {"KeepApply", "DuplicateBaseKeepApply"}
    THEN Clean(apply.content, apply.rev)
    ELSE Redirtied([base EXCEPT !.rev = IF apply.rev > base.rev THEN apply.rev ELSE base.rev])

Right(base, apply, strategy) ==
  IF strategy = "KeepBaseDuplicateApply"
    THEN Redirtied(Clean(apply.content, apply.rev))
    ELSE Redirtied(base)

(* ConflictDelta of each of `applies`, uuid naming the copies.             *)
ConflictDelta(snapshot, applies, strategy, uuid) ==
  LET duplicated == {i \in DOMAIN applies : strategy[i] \in Duplicating}
      source == [c \in {uuid[i] : i \in duplicated} |->
                   CHOOSE i \in duplicated : uuid[i] = c]
  IN Put([i \in DOMAIN applies |-> Left(snapshot[i], applies[i], strategy[i])],
         [c \in DOMAIN source |->
            Right(snapshot[source[c]], applies[source[c]], strategy[source[c]])])

(* ServerSyncResponseResolver.result(), without the emits that are empty.  *)
UnlessEmpty(emit) == IF DOMAIN emit = {} THEN <<>> ELSE <<emit>>

Emits(strategy, uuid) ==
  LET S == sync.snapshot
      R == sync.reply
      conflicting == Conflicting(S, R.retrieved, sync.sent)
      retrieved == RetrievedDelta(S, Pick(R.retrieved, DOMAIN R.retrieved \ conflicting))
  IN UnlessEmpty(Put(retrieved, ConflictDelta(S, Pick(R.retrieved, conflicting), strategy, uuid)))
     \o UnlessEmpty(SavedDelta(S, R.saved))
     \o UnlessEmpty(ConflictDelta(S, R.conflicts, strategy, uuid))

-----------------------------------------------------------------------------
Synced == [i \in Notes |-> Clean(i, i)]

(* The client is launched after a sign in, or with everything synced.      *)
Init ==
  /\ local \in {NoItems, Synced}
  /\ disk = local
  /\ tokens = [sync |-> IF local = NoItems THEN 0 ELSE Cardinality(Notes), cursor |-> 0]
  /\ storedTokens = tokens
  /\ server = [i \in Notes |-> [content |-> i, rev |-> i]]
  /\ serverSeq = Cardinality(Notes)
  /\ dirtyCount = 0
  /\ previous = [i \in Items |-> 0] /\ copyOf = [c \in Copies |-> 0]
  /\ sync = Idle /\ completedDownloadFirst = FALSE
  /\ orphans = {}
  /\ lineage = [i \in Notes |-> {i}] /\ received = Notes
  /\ unsaved = {} /\ forgotten = {}
  /\ used = [edits |-> 0, remoteEdits |-> 0, failures |-> 0, crashes |-> 0]

Use(bound, max) == used[bound] < max /\ used' = [used EXCEPT ![bound] = @ + 1]

(***************************************************************************)
(* The user.                                                               *)
(***************************************************************************)

Affected(reply) ==
  DOMAIN reply.retrieved \cup DOMAIN reply.saved \cup DOMAIN reply.conflicts

(* The result for i is being computed, or waits for an earlier emit.       *)
BeingApplied(i) ==
  \/ sync.pc = "resolve" /\ i \in Affected(sync.reply)
  \/ sync.pc = "persist" /\ \E n \in 2..Len(sync.emits) : i \in DOMAIN sync.emits[n]

InFlight(i) == sync.pc \notin {"idle", "presave"} /\ i \in sync.sent

(* With nothing to decrypt, a response is resolved as soon as it arrives.  *)
NothingToDecrypt ==
  sync.pc = "resolve" /\ DOMAIN sync.reply.retrieved \cup DOMAIN sync.reply.conflicts = {}

(* A mutation of an item.                                                  *)
Edit(i) ==
  /\ i \in DOMAIN local
  /\ ~NothingToDecrypt
  /\ BeingApplied(i) => "editWhileApplying" \in Environment
  /\ InFlight(i) /\ sync.frozen = 0 => "editUncounted" \in Environment
  /\ Use("edits", MaxEdits)
  /\ Write(local[i].content)
  /\ Emit([j \in {i} |-> Redirtied([local[i] EXCEPT !.content = NewContent])])
  /\ dirtyCount' = dirtyCount + 1
  /\ unsaved' = unsaved \cup {NewContent}
  /\ UNCHANGED <<copyOf, sync, tokens, completedDownloadFirst, store, remote, forgotten>>

(***************************************************************************)
(* An operation.                                                           *)
(***************************************************************************)

(* prepareForSync, up to its await; getOnlineSyncParameters.               *)
BeginSync ==
  /\ sync.pc = "idle"
  /\ sync' = [Idle EXCEPT !.pc = "presave",
                          !.captured = Pick(local, DirtyItems),
                          !.frozen = dirtyCount,
                          !.mode = IF completedDownloadFirst THEN "Default"
                                                             ELSE "DownloadFirst"]
  /\ UNCHANGED <<client, tokens, completedDownloadFirst, store, remote, ghosts, used>>

(* Mutation: the presave is skipped.                                       *)
SkipPresave == disk' = disk

(* persistPayloads(payloadsNeedingSave)                                    *)
PersistCaptured == disk' = Put(disk, DiskForm(sync.captured))

(* setLastSyncBeganForItems: the latest versions get the frozen index.     *)
LastSyncBegan(items) ==
  [i \in DOMAIN local |->
     IF i \in items THEN [local[i] EXCEPT !.globalDirtyIndexAtLastSync = sync.frozen]
                    ELSE local[i]]

(* getOnlineSyncParameters: a DownloadFirst sync uploads nothing.          *)
Upload(items) ==
  [i \in IF sync.mode = "Default" THEN items ELSE {} |->
     [content |-> local[i].content, rev |-> local[i].rev]]

(* The presave ends; the captured items are marked, and run() sends the    *)
(* versions they have now.                                                 *)
Presaved ==
  /\ sync.pc = "presave"
  /\ PersistCaptured
  /\ unsaved' = unsaved \ UNION {lineage[c] : c \in ContentsOf(sync.captured)}
  /\ local' = LastSyncBegan(DOMAIN sync.captured)
  /\ LET upload == Upload(DOMAIN sync.captured)
     IN sync' = [sync EXCEPT !.pc = "waiting", !.captured = NoItems, !.sent = DOMAIN upload,
                             !.request = [upload |-> upload, since |-> Since(tokens)]]
  /\ UNCHANGED <<dirtyCount, previous, copyOf, tokens, completedDownloadFirst,
                 storedTokens, remote, lineage, forgotten, used>>

ServerAnswers ==
  /\ sync.pc = "waiting"
  /\ Apply(sync.request.upload)
  /\ sync' = [sync EXCEPT !.pc = "answered", !.request = Request,
                          !.reply = Answer(sync.request)]
  /\ UNCHANGED <<client, tokens, completedDownloadFirst, store, orphans, ghosts, used>>

(* What the server may still make of the request of an operation that ends *)
(* without an answer.                                                      *)
Abandoned == IF DOMAIN sync.request.upload = {} THEN {} ELSE {sync.request.upload}

(* The client sees an error: its request may reach the server yet, or the  *)
(* answer is lost.  performSync returns.                                   *)
RequestFails ==
  /\ sync.pc \in {"waiting", "answered"}
  /\ Use("failures", MaxFailures)
  /\ orphans' = orphans \cup Abandoned
  /\ sync' = Idle
  /\ UNCHANGED <<client, tokens, completedDownloadFirst, store, server, serverSeq,
                 received, ghosts>>

(* handleSuccessServerResponse, up to the decryption of the response: the  *)
(* collection and the history are those of now.                            *)
ReceiveReply ==
  /\ sync.pc = "answered"
  /\ sync' = [sync EXCEPT !.pc = "resolve", !.snapshot = local, !.history = previous]
  /\ UNCHANGED <<client, tokens, completedDownloadFirst, store, remote, ghosts, used>>

(* Mutation: a page that is not the last one ends the operation.           *)
FinishFirstPage ==
  /\ tokens' = [sync.reply.token EXCEPT !.cursor = 0]
  /\ sync' = Idle
  /\ completedDownloadFirst' = (completedDownloadFirst \/ sync.mode = "DownloadFirst")

(* setLastSyncToken and setPaginationToken; the operation goes on while    *)
(* there is a cursor.                                                      *)
FinishPage ==
  /\ tokens' = sync.reply.token
  /\ IF tokens'.cursor > 0
       THEN /\ sync' = [Idle EXCEPT !.pc = "waiting", !.frozen = sync.frozen,
                                    !.mode = sync.mode, !.sent = sync.sent,
                                    !.request = [Request EXCEPT !.since = Since(tokens')]]
            /\ UNCHANGED completedDownloadFirst
       ELSE /\ sync' = Idle
            /\ completedDownloadFirst' = (completedDownloadFirst \/ sync.mode = "DownloadFirst")

Unused == {c \in Copies : copyOf[c] = 0}

Injections(S, T) == {f \in [S -> T] : \A x, y \in S : f[x] = f[y] => x = y}

(* The response is decrypted: the resolver computes every delta from the   *)
(* snapshot, and the first emit is applied.                                *)
Resolve ==
  /\ sync.pc = "resolve"
  /\ LET S == sync.snapshot
         R == sync.reply
         applies == Put(R.conflicts,
                        Pick(R.retrieved, Conflicting(S, R.retrieved, sync.sent)))
     IN \E strategy \in [DOMAIN applies -> ConflictStrategies] :
          LET duplicated == {i \in DOMAIN applies : strategy[i] \in Duplicating}
              uuid == CHOOSE f \in Injections(duplicated, Unused) : TRUE
              emits == Emits(strategy, uuid)
          IN /\ \A i \in DOMAIN applies :
                  strategy[i] \in StrategiesFor(i, S, sync.history, applies[i])
             /\ Injections(duplicated, Unused) # {}
             /\ copyOf' = [c \in Copies |->
                             IF \E i \in duplicated : uuid[i] = c
                               THEN CHOOSE i \in duplicated : uuid[i] = c ELSE copyOf[c]]
             /\ dirtyCount' =
                  IF \E n \in DOMAIN emits : \E i \in DOMAIN emits[n] : emits[n][i].dirty
                    THEN dirtyCount + 1 ELSE dirtyCount
             /\ IF emits = <<>>
                  THEN FinishPage /\ UNCHANGED <<local, previous>>
                  ELSE /\ Emit(Head(emits))
                       /\ sync' = [sync EXCEPT !.pc = "persist", !.emits = emits,
                                               !.reply = [Reply EXCEPT !.token = R.token],
                                               !.snapshot = NoItems,
                                               !.history = Idle.history]
                       /\ UNCHANGED <<tokens, completedDownloadFirst>>
  /\ UNCHANGED <<store, remote, ghosts, used>>

(* An emit is on disk; the next one is applied, or the page is finished.   *)
PersistEmit ==
  /\ sync.pc = "persist"
  /\ disk' = Put(disk, DiskForm(Head(sync.emits)))
  /\ IF Len(sync.emits) > 1
       THEN /\ Emit(sync.emits[2])
            /\ sync' = [sync EXCEPT !.emits = Tail(@)]
            /\ UNCHANGED <<tokens, completedDownloadFirst>>
       ELSE FinishPage /\ UNCHANGED <<local, previous>>
  /\ UNCHANGED <<dirtyCount, copyOf, storedTokens, remote, ghosts, used>>

(* Mutation: the write of one token takes its snapshot before the other is *)
(* set.                                                                    *)
StoreTokensOneByOne ==
  /\ storedTokens # tokens
  /\ storedTokens' = IF storedTokens.sync # tokens.sync
                       THEN [storedTokens EXCEPT !.sync = tokens.sync] ELSE tokens
  /\ UNCHANGED <<client, sync, tokens, completedDownloadFirst, disk, remote, ghosts, used>>

(* setValue writes the whole value store to disk some time later; both     *)
(* tokens are set in one segment, so no write holds only one of them.      *)
StoreTokens ==
  /\ storedTokens # tokens
  /\ storedTokens' = tokens
  /\ UNCHANGED <<client, sync, tokens, completedDownloadFirst, disk, remote, ghosts, used>>

(***************************************************************************)
(* The surroundings.                                                       *)
(***************************************************************************)

OtherDeviceEdit(i) ==
  /\ i \in DOMAIN server
  /\ Use("remoteEdits", MaxRemoteEdits)
  /\ Write(server[i].content)
  /\ server' = [server EXCEPT ![i] = [content |-> NewContent, rev |-> serverSeq + 1]]
  /\ serverSeq' = serverSeq + 1
  /\ received' = received \cup {NewContent}
  /\ UNCHANGED <<client, sync, tokens, completedDownloadFirst, store, orphans,
                 unsaved, forgotten>>

(* A request the client gave up reaches the server after all.              *)
ServerHandlesOrphan(upload) ==
  /\ upload \in orphans
  /\ orphans' = orphans \ {upload}
  /\ Apply(upload)
  /\ UNCHANGED <<client, sync, tokens, completedDownloadFirst, store, ghosts, used>>

(* The client stops at any point and is launched again from its disk.      *)
Crash ==
  /\ Use("crashes", MaxCrashes)
  /\ local' = disk
  /\ dirtyCount' = 0 /\ previous' = Idle.history
  /\ tokens' = storedTokens
  /\ completedDownloadFirst' = FALSE
  /\ orphans' = orphans \cup Abandoned
  /\ sync' = Idle
  /\ forgotten' = forgotten \cup unsaved /\ unsaved' = {}
  /\ UNCHANGED <<copyOf, store, server, serverSeq, received, lineage>>

-----------------------------------------------------------------------------
Operate ==
  \/ BeginSync \/ Presaved \/ ServerAnswers \/ ReceiveReply \/ Resolve
  \/ PersistEmit

Next ==
  \/ Operate \/ StoreTokens \/ RequestFails \/ Crash
  \/ \E i \in Items : Edit(i) \/ OtherDeviceEdit(i)
  \/ \E upload \in orphans : ServerHandlesOrphan(upload)

Spec == Init /\ [][Next]_vars

(* The autosync timer begins an operation when none is under way, and the  *)
(* awaits of one complete: requests are answered, writes finish.  Nobody   *)
(* has to edit, and a request that was given up need never arrive.         *)
FairSpec == Spec /\ WF_vars(Operate) /\ WF_vars(StoreTokens)

(***************************************************************************)
(* Properties                                                              *)
(***************************************************************************)

(* Nothing the user wrote disappears: of every content written here or on  *)
(* another device, the client or the server has a content edited from it,  *)
(* through conflicts, lost answers, retries and crashes.  Only a crash     *)
(* may take an edit, and only one that no presave has covered: "if the     *)
(* application is closed before a sync request completes, pending data     *)
(* will be saved to disk".                                                 *)
NoEditLost ==
  \A c \in Contents \ forgotten :
    \E d \in ContentsOf(local) \cup ContentsOf(server) : c \in lineage[d]

(* "An item dirtied at any point after this date is marked as needing      *)
(* another sync": a client content the server never had is dirty, in       *)
(* memory and on disk.                                                     *)
UnsentIsDirty ==
  \A collection \in {local, disk} : \A i \in DOMAIN collection :
    collection[i].dirty \/ collection[i].content \in received

(* Both, as one run checks them: neither an edit nor the mark that it is   *)
(* still to be sent gets lost, in memory, on disk or through a restart     *)
(* (prepareForSync, payloadByFinalizingSyncState).                         *)
EditsAreSafe == NoEditLost /\ UnsentIsDirty

(* A client restarted from its disk skips nothing: what the server will    *)
(* not send again for the stored tokens is on disk, or what was edited     *)
(* from it is.                                                             *)
StoredTokensAreCovered ==
  \A i \in DOMAIN server :
    server[i].rev <= Since(storedTokens) =>
      \E d \in ContentsOf(disk) : server[i].content \in lineage[d]

Converged ==
  /\ DOMAIN local = DOMAIN server
  /\ \A i \in DOMAIN local : ~local[i].dirty /\ local[i].content = server[i].content

(* Once nobody edits any more, the client and the server agree on every    *)
(* item and stay so.                                                       *)
Converges == <>[]Converged
=============================================================================
