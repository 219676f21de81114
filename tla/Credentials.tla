----------------------------- MODULE Credentials ----------------------------
(***************************************************************************)
(* A change of the account's credentials (performCredentialsChange of      *)
(* UserService), the passcode's rewriting of the items keys, and the syncs *)
(* of the same client that go on meanwhile.  The server's data is that of  *)
(* the account: what it keeps of the items keys is encrypted with a root   *)
(* key, which is derived from the password and the email address, and what *)
(* it keeps of the notes, with an items key.  The device has another copy. *)
(*                                                                         *)
(* One note stands for all.  A root key is the number of the change that   *)
(* made it, and so are an items key and an email address.  The encryption  *)
(* service, the keychain and the server are external.                      *)
(***************************************************************************)
EXTENDS Naturals, FiniteSets

CONSTANTS
  MaxChanges,     \* bound: changes of the credentials
  MaxEdits,       \* bound: edits of the note
  MaxFailures,    \* bound: requests or answers lost
  Environment     \* what else may happen, subset of {"overlappingSync"}

ASSUME CredentialsAssumption ==
  /\ MaxChanges \in Nat /\ MaxEdits \in Nat /\ MaxFailures \in Nat
  /\ Environment \subseteq {"overlappingSync"}

RootKey  == 0 .. MaxChanges
ItemsKey == 0 .. MaxChanges
Email    == 0 .. MaxChanges
None     == MaxChanges + 1

VARIABLES
  server,         \* the account on the server
  disk,           \* keychain and database of the device
  root, email,    \* root key and email address of the client
  emailOf,        \* the address each root key was derived with
  keys,           \* items keys of the client, by state
  default,        \* the default items key
  edited,         \* the note is dirty
  sync,           \* the sync operation
  locked,         \* the sync lock
  change,         \* the change of the credentials
  rewriting,      \* rewriteItemsKeys has deleted the items keys
  mismatch,       \* an answer was lost after the server changed the credentials
  changes, edits, failures

client == <<root, email, emailOf, keys, default, edited>>
limits == <<changes, edits, failures>>
credentialsVars == <<server, disk, client, sync, locked, change, rewriting, mismatch, limits>>

(* The items keys there are, those to be uploaded, those to be deleted, and *)
(* those the server has confirmed (not neverSynced).                        *)
Keys == [there : SUBSET ItemsKey, dirty : SUBSET ItemsKey,
         deleted : SUBSET ItemsKey, synced : SUBSET ItemsKey]

Stage == {"idle", "request", "answered", "populating", "changed", "upload", "uploading", "uploaded",
          "back", "backAnswered", "backPopulating", "undone", "reupload", "reuploading"}

CredentialsTypeOK ==
  /\ server \in [root : RootKey, email : Email, keys : [ItemsKey -> RootKey \cup {None}], note : ItemsKey]
  /\ disk \in [root : RootKey, keys : [ItemsKey -> RootKey \cup {None}], note : ItemsKey]
  /\ root \in RootKey /\ email \in Email /\ emailOf \in [RootKey -> Email]
  /\ keys \in Keys /\ default \in keys.there
  /\ keys.dirty \cup keys.deleted \subseteq keys.there /\ default \notin keys.deleted
  /\ edited \in BOOLEAN
  /\ sync \in [at : {"idle", "sent", "served", "lost"}, frozen : SUBSET ItemsKey, root : RootKey,
               dropped : SUBSET ItemsKey, removed : SUBSET ItemsKey,
               note : ItemsKey \cup {None}, touched : SUBSET ItemsKey, retyped : BOOLEAN]
  /\ locked \in BOOLEAN
  /\ change \in [at : Stage, new : RootKey, old : RootKey, oldDefault : ItemsKey,
                 ok : BOOLEAN, result : {"none", "ok", "failed"}]
  /\ rewriting \in BOOLEAN /\ mismatch \in BOOLEAN
  /\ changes \in 0 .. MaxChanges /\ edits \in 0 .. MaxEdits /\ failures \in 0 .. MaxFailures

NoSync == [at |-> "idle", frozen |-> {}, root |-> 0, dropped |-> {}, removed |-> {}, note |-> None,
           touched |-> {}, retyped |-> FALSE]

Only(k) == [i \in ItemsKey |-> IF i = k THEN 0 ELSE None]

CredentialsInit ==
  /\ server = [root |-> 0, email |-> 0, keys |-> Only(0), note |-> 0]
  /\ disk = [root |-> 0, keys |-> Only(0), note |-> 0]
  /\ root = 0 /\ email = 0 /\ emailOf = [r \in RootKey |-> 0]
  /\ keys = [there |-> {0}, dirty |-> {}, deleted |-> {}, synced |-> {0}]
  /\ default = 0 /\ edited = FALSE
  /\ sync = NoSync /\ locked = FALSE
  /\ change = [at |-> "idle", new |-> 0, old |-> 0, oldDefault |-> 0, ok |-> FALSE, result |-> "none"]
  /\ rewriting = FALSE /\ mismatch = FALSE
  /\ changes = 0 /\ edits = 0 /\ failures = 0

-----------------------------------------------------------------------------
(* Edits and syncs.                                                         *)
Edit ==
  /\ edits < MaxEdits /\ edits' = edits + 1
  /\ edited' = TRUE
  /\ sync' = [sync EXCEPT !.retyped = TRUE]
  /\ UNCHANGED <<server, disk, root, email, emailOf, keys, default, locked, change, rewriting,
                 mismatch, changes, failures>>

(* Where a sync is not locked out but overlaps with a change of the default *)
(* items key, which the change may roll back.                               *)
Overlapping == change.at \in {"changed", "uploaded", "back", "backAnswered", "backPopulating", "undone"}

(* A variant that sends what is dirty before it is written to the disk.     *)
StartSyncUnsaved ==
  /\ sync.at = "idle" /\ ~locked
  /\ keys.dirty # {} \/ keys.deleted # {} \/ edited
  /\ Overlapping => "overlappingSync" \in Environment
  /\ sync' = [at |-> "sent", frozen |-> keys.dirty \ keys.deleted, root |-> root,
              dropped |-> keys.deleted \ keys.synced, removed |-> keys.deleted \cap keys.synced,
              note |-> IF edited THEN default ELSE None, touched |-> {}, retyped |-> FALSE]
  /\ change' = [change EXCEPT !.at = CASE @ = "upload" -> "uploading"
                                       [] @ = "reupload" -> "reuploading"
                                       [] OTHER -> @]
  /\ UNCHANGED <<server, disk, client, locked, rewriting, mismatch, limits>>

(* What is dirty is written to the disk and sent, except deletions of what  *)
(* the server never had.  A change that waits for its sync has this one.    *)
StartSync ==
  /\ sync.at = "idle" /\ ~locked
  /\ keys.dirty # {} \/ keys.deleted # {} \/ edited
  /\ Overlapping => "overlappingSync" \in Environment
  /\ sync' = [at |-> "sent", frozen |-> keys.dirty \ keys.deleted, root |-> root,
              dropped |-> keys.deleted \ keys.synced, removed |-> keys.deleted \cap keys.synced,
              note |-> IF edited THEN default ELSE None, touched |-> {}, retyped |-> FALSE]
  /\ disk' = [disk EXCEPT !.keys = [k \in ItemsKey |-> IF k \in keys.dirty THEN root ELSE @[k]],
                          !.note = IF edited THEN default ELSE @]
  /\ change' = [change EXCEPT !.at = CASE @ = "upload" -> "uploading"
                                       [] @ = "reupload" -> "reuploading"
                                       [] OTHER -> @]
  /\ UNCHANGED <<server, client, locked, rewriting, mismatch, limits>>

(* The server takes the items as they were sent.                            *)
ServeSync ==
  /\ sync.at = "sent"
  /\ server' = [server EXCEPT
                  !.keys = [k \in ItemsKey |-> CASE k \in sync.removed -> None
                                                 [] k \in sync.frozen -> sync.root
                                                 [] OTHER -> @[k]],
                  !.note = IF sync.note = None THEN @ ELSE sync.note]
  /\ sync' = [sync EXCEPT !.at = "served"]
  /\ UNCHANGED <<disk, client, locked, change, rewriting, mismatch, limits>>

(* The request does not arrive, or its answer does not.                     *)
LoseSync ==
  /\ failures < MaxFailures /\ failures' = failures + 1
  /\ sync.at \in {"sent", "served"}
  /\ sync' = [sync EXCEPT !.at = "lost"]
  /\ UNCHANGED <<server, disk, client, locked, change, rewriting, mismatch, changes, edits>>

SyncEnded(at) == CASE at = "uploading" -> "uploaded" [] at = "reuploading" -> "idle" [] OTHER -> at

(* A variant that takes any end of a sync for a success.                    *)
UploadedAnyway == TRUE

Uploaded == sync.at = "served"

(* What was uploaded is not dirty any more, unless it was changed           *)
(* meanwhile, and is written to the disk as it is now encrypted.            *)
FinishSync ==
  /\ sync.at \in {"served", "lost"}
  /\ sync' = NoSync
  /\ LET gone  == sync.dropped \cup sync.removed
         saved == sync.frozen \ gone IN
     IF ~Uploaded
     THEN UNCHANGED <<keys, edited, disk>>
     ELSE /\ keys' = [there |-> keys.there \ gone, deleted |-> keys.deleted \ gone,
                      dirty |-> keys.dirty \ ((sync.frozen \ sync.touched) \cup gone),
                      synced |-> (keys.synced \cup sync.frozen) \ gone]
          /\ edited' = (edited /\ (sync.note = None \/ sync.retyped))
          /\ disk' = [disk EXCEPT !.keys = [k \in ItemsKey |-> CASE k \in gone -> None
                                                                 [] k \in saved -> root
                                                                 [] OTHER -> @[k]],
                                  !.note = IF sync.note = None THEN @ ELSE default]
  /\ change' = [change EXCEPT !.at = SyncEnded(@),
                              !.result = IF change.at = "reuploading" THEN "failed" ELSE @]
  /\ UNCHANGED <<server, root, email, emailOf, default, locked, rewriting, mismatch, limits>>

-----------------------------------------------------------------------------
(* performCredentialsChange.  The password is right and the passcode given. *)
Begin ==
  /\ change.at = "idle" /\ ~rewriting
  /\ sync.at = "idle" \/ "overlappingSync" \in Environment
  /\ changes < MaxChanges /\ changes' = changes + 1
  /\ change' = [at |-> "request", new |-> changes + 1, old |-> root, oldDefault |-> default,
                ok |-> FALSE, result |-> "none"]
  /\ \E address \in {email, changes + 1} : emailOf' = [emailOf EXCEPT ![changes + 1] = address]
  /\ locked' = TRUE
  /\ UNCHANGED <<server, disk, root, email, keys, default, edited, sync, rewriting, mismatch, edits, failures>>

(* The server changes the credentials if the request knows the current ones. *)
ServeChange ==
  /\ change.at = "request"
  /\ LET known == server.root = change.old IN
     /\ server' = IF known THEN [server EXCEPT !.root = change.new, !.email = emailOf[change.new]]
                           ELSE server
     /\ change' = [change EXCEPT !.at = "answered", !.ok = known]
  /\ UNCHANGED <<disk, client, sync, locked, rewriting, mismatch, limits>>

(* To roll back, the credentials are changed to the former ones; the new    *)
(* email address, if there is one, stays.                                   *)
ServeBack ==
  /\ change.at = "back"
  /\ LET known == server.root = change.new IN
     /\ server' = IF known THEN [server EXCEPT !.root = change.old] ELSE server
     /\ change' = [change EXCEPT !.at = "backAnswered", !.ok = known]
  /\ UNCHANGED <<disk, client, sync, locked, rewriting, mismatch, limits>>

(* Either request is lost, or its answer.                                   *)
LoseChange ==
  /\ failures < MaxFailures /\ failures' = failures + 1
  /\ change.at \in {"request", "answered", "back", "backAnswered"}
  /\ change' = [change EXCEPT !.at = IF @ \in {"request", "answered"} THEN "answered" ELSE "backAnswered",
                              !.ok = FALSE]
  /\ mismatch' = (mismatch \/ change.ok)
  /\ UNCHANGED <<server, disk, client, sync, locked, rewriting, changes, edits>>

(* populateSession: the new root key is set at once and then saved.         *)
GetChangeAnswer ==
  /\ change.at = "answered"
  /\ IF change.ok
     THEN /\ root' = change.new
          /\ change' = [change EXCEPT !.at = "populating", !.ok = FALSE]
          /\ UNCHANGED locked
     ELSE /\ change' = [change EXCEPT !.at = "idle", !.result = "failed"]
          /\ locked' = FALSE
          /\ UNCHANGED root
  /\ UNCHANGED <<server, disk, email, emailOf, keys, default, edited, sync, rewriting, mismatch, limits>>

SaveRootKey ==
  /\ change.at = "populating"
  /\ disk' = [disk EXCEPT !.root = root]
  /\ email' = server.email
  /\ locked' = FALSE
  /\ change' = [change EXCEPT !.at = "changed"]
  /\ UNCHANGED <<server, root, emailOf, keys, default, edited, sync, rewriting, mismatch, limits>>

(* A variant that forgets to encrypt the items keys again.                  *)
CreateItemsKey ==
  /\ change.at = "changed"
  /\ default' = change.new
  /\ keys' = [keys EXCEPT !.there = @ \cup {change.new}, !.dirty = @ \cup {change.new}]
  /\ change' = [change EXCEPT !.at = "upload"]
  /\ UNCHANGED <<server, disk, root, email, emailOf, edited, sync, locked, rewriting, mismatch, limits>>

(* createNewItemsKeyWithRollback and reencryptItemsKeys.                    *)
CreateItemsKeyAndReencrypt ==
  /\ change.at = "changed"
  /\ default' = change.new
  /\ LET there == keys.there \cup {change.new} IN
     keys' = [keys EXCEPT !.there = there, !.dirty = there \ keys.deleted]
  /\ sync' = [sync EXCEPT !.touched = keys.there]
  /\ change' = [change EXCEPT !.at = "upload"]
  /\ UNCHANGED <<server, disk, root, email, emailOf, edited, locked, rewriting, mismatch, limits>>

(* Whether the new items key was synced decides: the change is done, or it  *)
(* is rolled back.                                                          *)
Decide ==
  /\ change.at = "uploaded"
  /\ change' = IF default \in keys.synced
               THEN [change EXCEPT !.at = "idle", !.result = "ok"]
               ELSE [change EXCEPT !.at = "back"]
  /\ UNCHANGED <<server, disk, client, sync, locked, rewriting, mismatch, limits>>

GetBackAnswer ==
  /\ change.at = "backAnswered"
  /\ change' = [change EXCEPT !.at = IF change.ok THEN "backPopulating" ELSE "undone", !.ok = FALSE]
  /\ root' = IF change.ok THEN change.old ELSE root
  /\ UNCHANGED <<server, disk, email, emailOf, keys, default, edited, sync, locked, rewriting, mismatch, limits>>

SaveFormerRootKey ==
  /\ change.at = "backPopulating"
  /\ disk' = [disk EXCEPT !.root = root]
  /\ email' = server.email
  /\ change' = [change EXCEPT !.at = "undone"]
  /\ UNCHANGED <<server, root, emailOf, keys, default, edited, sync, locked, rewriting, mismatch, limits>>

(* Whatever the answer was, the items keys are encrypted again, the new one *)
(* is deleted and the former default restored.                              *)
UndoItemsKey ==
  /\ change.at = "undone"
  /\ default' = change.oldDefault
  /\ keys' = [keys EXCEPT !.dirty = (keys.there \ keys.deleted) \ {default},
                          !.deleted = @ \cup {default}]
  /\ sync' = [sync EXCEPT !.touched = keys.there]
  /\ change' = [change EXCEPT !.at = "reupload"]
  /\ UNCHANGED <<server, disk, root, email, emailOf, edited, locked, rewriting, mismatch, limits>>

-----------------------------------------------------------------------------
(* rewriteItemsKeys, when a passcode is set or removed: the items keys are  *)
(* deleted from the database and written again.                             *)
DeleteItemsKeys ==
  /\ change.at = "idle" /\ ~rewriting
  /\ rewriting' = TRUE
  /\ disk' = [disk EXCEPT !.keys = [k \in ItemsKey |-> IF k \in keys.there THEN None ELSE @[k]]]
  /\ UNCHANGED <<server, client, sync, locked, change, mismatch, limits>>

RewriteItemsKeys ==
  /\ rewriting
  /\ rewriting' = FALSE
  /\ disk' = [disk EXCEPT !.keys = [k \in ItemsKey |-> IF k \in keys.there \ keys.deleted THEN root ELSE @[k]]]
  /\ UNCHANGED <<server, client, sync, locked, change, mismatch, limits>>

-----------------------------------------------------------------------------
Syncing == StartSync \/ ServeSync \/ FinishSync

Going ==
  \/ ServeChange \/ GetChangeAnswer \/ SaveRootKey \/ CreateItemsKeyAndReencrypt \/ Decide
  \/ ServeBack \/ GetBackAnswer \/ SaveFormerRootKey \/ UndoItemsKey
  \/ RewriteItemsKeys

CredentialsNext == Syncing \/ Going \/ Edit \/ Begin \/ DeleteItemsKeys \/ LoseSync \/ LoseChange

CredentialsSpec == CredentialsInit /\ [][CredentialsNext]_credentialsVars

(* Requests are answered, what was begun goes on, and the application syncs *)
(* while there is anything to upload.                                       *)
CredentialsFairSpec == CredentialsSpec /\ WF_credentialsVars(Syncing) /\ WF_credentialsVars(Going)

-----------------------------------------------------------------------------
AtRest ==
  /\ change.at = "idle" /\ sync.at = "idle" /\ ~rewriting
  /\ keys.dirty = {} /\ keys.deleted = {} /\ ~edited

(* Whoever signs in with the credentials of the account reads the note: it  *)
(* is encrypted with an items key that the server has, encrypted with the   *)
(* root key of the account, once everything is uploaded, however the change *)
(* of the credentials ended, unless the client never learnt of it           *)
(* (reencryptItemsKeys, createNewItemsKeyWithRollback).                     *)
AccountIsReadable ==
  AtRest /\ ~mismatch => server.keys[server.note] = server.root

(* Should the process die, the next launch reads the note on the device,    *)
(* except between the saving of a new root key, or the deletion of the      *)
(* items keys, and their being written again (prepareForSync,               *)
(* rewriteItemsKeys).                                                       *)
Between == {"populating", "changed", "upload", "backPopulating", "undone", "reupload"}

DeviceIsReadable ==
  change.at \notin Between /\ ~rewriting => disk.keys[disk.note] = disk.root

(* A change that was reported failed has left the credentials as they were, *)
(* address and password, when no answer was lost but that of a sync ("Now,  *)
(* change the credentials on the server. Roll back on failure",             *)
(* performCredentialsChange).                                               *)
FailedChangeIsRolledBack ==
  change.result = "failed" /\ ~mismatch =>
    /\ server.root = change.old
    /\ server.email = emailOf[change.old]

(* In the end the account is readable, whatever failed on the way.          *)
BecomesReadable ==
  <>[](mismatch \/ server.keys[server.note] = server.root)
=============================================================================
