----------------------------- MODULE KeyRecovery ----------------------------
(***************************************************************************)
(* The recovery of items keys that arrived encrypted with a root key the   *)
(* client does not hold (SNKeyRecoveryService): the keys that wait, the    *)
(* runs of the wizard that work on them, and the sign-in that replaces an  *)
(* outdated root key.  Every await of a run is a step of its own, and      *)
(* other keys arrive in between.                                           *)
(*                                                                         *)
(* Items keys are numbered in the order of their creation; a root key and  *)
(* its parameters are the number of the password they come from, and 0 is  *)
(* no account.  All root keys have one protocol version                    *)
(* (serverKeyParamsAreSafe) and there is no passcode.  The resync of a     *)
(* recovered key is left to SyncData, and that the storage keeps what it   *)
(* was given to DiskStorage.  The user, the server, the encryption service *)
(* and the deltas are external.                                            *)
(***************************************************************************)
EXTENDS Naturals, Sequences, SequencesExt

CONSTANTS
  MaxKey,         \* items keys 1 .. MaxKey
  MaxPassword,    \* passwords the account has had, 1 .. MaxPassword
  Run,            \* runs of the wizard that may exist at a time
  MaxArrivals,    \* bound: versions of items keys that arrive
  MaxRestarts,    \* bound: restarts of the application
  MaxWizards,     \* bound: openings of the wizard by the user
  Environment     \* what else may happen, subset of {"newVersion", "passwordChanges"}

ASSUME KeyRecoveryAssumption ==
  /\ MaxKey \in Nat /\ MaxPassword \in Nat \ {0}
  /\ MaxArrivals \in Nat /\ MaxRestarts \in Nat /\ MaxWizards \in Nat
  /\ Environment \subseteq {"newVersion", "passwordChanges"}

Key == 1 .. MaxKey
RootKey == 0 .. MaxPassword

(* A version of an items key as it arrives; the arrival numbers it. *)
Version == [key : Key, root : RootKey, number : 0 .. MaxArrivals]

(* A copy of an items key in memory or in the database, where it is         *)
(* encrypted with a root key in any case.  As the contents of items keys    *)
(* are immutable, a decrypted one stands for all versions that have come.   *)
Copy == [is : {"none", "errored", "decrypted"}, root : RootKey, number : 0 .. MaxArrivals]

VARIABLES
  server,             \* the password of the account
  client,             \* the root key of this client, 0 without account
  memory, database,   \* the copies of every items key
  undecryptables,     \* isolated storage (KeyRecoveryUndecryptableItems), per key
  decryptionQueue,
  isProcessingQueue,
  run,                \* the state of every run of beginKeyRecovery
  gaveUp,             \* the user has cancelled a prompt since the last run began
  received,           \* history: the last version of every items key that arrived
  arrivals, restarts, wizards

keys == <<memory, database, undecryptables>>
limits == <<received, arrivals, restarts, wizards>>
vars == <<server, client, keys, decryptionQueue, isProcessingQueue, run, gaveUp, limits>>

Stage == {"idle", "params", "prompt", "setRootKey", "decrypting", "saving", "notifying",
          "signIn", "signInParams", "correcting"}

NoVersion == [key |-> 1, root |-> 0, number |-> 0]
Idle == [at |-> "idle", serverParams |-> 0, item |-> NoVersion, replace |-> FALSE, root |-> 0,
         matching |-> <<>>]

TypeOK ==
  /\ server \in RootKey \ {0} /\ client \in RootKey
  /\ memory \in [Key -> Copy] /\ database \in [Key -> Copy]
  /\ undecryptables \in [Key -> Version]
  /\ decryptionQueue \in Seq(Version)
  /\ isProcessingQueue \in BOOLEAN /\ gaveUp \in BOOLEAN
  /\ run \in [Run -> [at : Stage, serverParams : RootKey, item : Version, replace : BOOLEAN,
                      root : RootKey, matching : Seq(Version)]]
  /\ \A r \in Run : /\ run[r].at \in {"params", "prompt"} => isProcessingQueue
                    /\ run[r].at = "prompt" => run[r].item \in ToSet(decryptionQueue)
                    /\ run[r].at \in {"decrypting", "saving", "notifying"} => run[r].matching # <<>>
  /\ received \in [Key -> 0 .. MaxArrivals]
  /\ arrivals \in 0 .. MaxArrivals /\ restarts \in 0 .. MaxRestarts /\ wizards \in 0 .. MaxWizards

Init ==
  /\ server \in RootKey \ {0} /\ client \in 0 .. server
  /\ memory \in [Key -> {[is |-> s, root |-> client, number |-> 0] : s \in {"none", "decrypted"}}]
  /\ database = memory
  /\ undecryptables = [k \in Key |-> NoVersion]
  /\ decryptionQueue = <<>> /\ isProcessingQueue = FALSE /\ gaveUp = FALSE
  /\ run = [r \in Run |-> Idle]
  /\ received = [k \in Key |-> 0]
  /\ arrivals = 0 /\ restarts = 0 /\ wizards = 0

----------------------------------------------------------------------------
(* beginKeyRecovery *)

Quiet == \A r \in Run : run[r].at = "idle"

To(r, stage) == run' = [run EXCEPT ![r].at = stage]

(* beginKeyRecovery returns at once while a run processes the queue; without *)
(* an account it does not ask for the server's parameters.                   *)
BeginKeyRecovery ==
  IF isProcessingQueue
  THEN UNCHANGED <<isProcessingQueue, run, gaveUp>>
  ELSE /\ isProcessingQueue' = TRUE /\ gaveUp' = FALSE
       /\ \E r \in Run : /\ run[r].at = "idle"
                         /\ To(r, IF client = 0 THEN "signIn" ELSE "params")

(* An operation that only looks at the age of the key. *)
ReplacesAnyNewer(v, serverParams) ==
  /\ serverParams # 0 /\ client # 0 /\ client # serverParams
  /\ \A k \in Key : memory[k].is = "decrypted" => k < v.key

(* KeyRecoveryOperation.run: the password of a key replaces the local root *)
(* key when its parameters are the server's, the client's are not, and no  *)
(* decrypted key is newer.                                                 *)
Replaces(v, serverParams) ==
  /\ serverParams # 0 /\ client # 0 /\ client # serverParams
  /\ v.root = serverParams
  /\ \A k \in Key : memory[k].is = "decrypted" => k < v.key

(* processQueueItem *)
Prompted(v, serverParams) ==
  [at |-> "prompt", serverParams |-> serverParams, item |-> v,
   replace |-> Replaces(v, serverParams), root |-> 0, matching |-> <<>>]

(* potentiallyPerformFallbackSignInToUpdateOutdatedLocalRootKey *)
Fallback(serverParams) == serverParams # 0 /\ client # 0 /\ serverParams # client

(* A run that lets others in only when its sign-in is over. *)
ProcessQueueUntilSignedIn(r, queue, serverParams) ==
  IF queue # <<>>
  THEN /\ run' = [run EXCEPT ![r] = Prompted(Head(queue), serverParams)]
       /\ UNCHANGED isProcessingQueue
  ELSE /\ run' = [run EXCEPT ![r] = [Idle EXCEPT !.at = IF Fallback(serverParams) THEN "signIn" ELSE "idle"]]
       /\ isProcessingQueue' = Fallback(serverParams)

(* The run r goes on with the head of the queue, or leaves the queue. *)
ProcessQueue(r, queue, serverParams) ==
  IF queue # <<>>
  THEN /\ run' = [run EXCEPT ![r] = Prompted(Head(queue), serverParams)]
       /\ UNCHANGED isProcessingQueue
  ELSE /\ run' = [run EXCEPT ![r] = [Idle EXCEPT !.at = IF Fallback(serverParams) THEN "signIn" ELSE "idle"]]
       /\ isProcessingQueue' = FALSE

----------------------------------------------------------------------------
(* Keys that arrive *)

(* A version of a key is being recovered. *)
Pending(k) ==
  \/ \E i \in DOMAIN decryptionQueue : decryptionQueue[i].key = k
  \/ \E r \in Run : \E i \in DOMAIN run[r].matching : run[r].matching[i].key = k

(* A service that keeps the first version of a key. *)
SaveFirstToUndecryptables(v) ==
  undecryptables' = [undecryptables EXCEPT ![v.key] = IF @.number = 0 THEN v ELSE @]

(* handleIgnoredItemsKeys keeps the version of a key whose local copy is    *)
(* decrypted in isolated storage; handleUndecryptableItemsKeys only queues. *)
SaveToUndecryptables(v) == undecryptables' = [undecryptables EXCEPT ![v.key] = v]

Receive(k, p) ==
  LET v == [key |-> k, root |-> p, number |-> arrivals + 1]
      errored == [is |-> "errored", root |-> p, number |-> arrivals + 1]
  IN /\ arrivals < MaxArrivals /\ p # client /\ p <= server
     /\ "newVersion" \in Environment \/ ~Pending(k)
     /\ arrivals' = arrivals + 1 /\ received' = [received EXCEPT ![k] = arrivals + 1]
     /\ IF memory[k].is = "decrypted"
        THEN SaveToUndecryptables(v) /\ UNCHANGED <<memory, database>>
        ELSE /\ memory' = [memory EXCEPT ![k] = errored]
             /\ database' = [database EXCEPT ![k] = errored]
             /\ UNCHANGED undecryptables
     /\ decryptionQueue' = Append(decryptionQueue, v)
     /\ BeginKeyRecovery
     /\ UNCHANGED <<server, client, restarts, wizards>>

(* A version the client can decrypt, which another device encrypted anew.   *)
ReceiveDecryptable(k) ==
  LET decrypted == [is |-> "decrypted", root |-> client, number |-> arrivals + 1]
  IN /\ arrivals < MaxArrivals /\ client # 0
     /\ arrivals' = arrivals + 1 /\ received' = [received EXCEPT ![k] = arrivals + 1]
     /\ memory' = [memory EXCEPT ![k] = decrypted]
     /\ database' = [database EXCEPT ![k] = decrypted]
     /\ UNCHANGED <<server, client, undecryptables, decryptionQueue, isProcessingQueue, run, gaveUp,
                    restarts, wizards>>

(* presentKeyRecoveryWizard *)
Invalid == {[key |-> k, root |-> memory[k].root, number |-> memory[k].number] :
              k \in {i \in Key : memory[i].is = "errored"}}

PresentKeyRecoveryWizard ==
  /\ wizards < MaxWizards /\ wizards' = wizards + 1
  /\ decryptionQueue' = decryptionQueue \o SetToSeq(Invalid)
  /\ BeginKeyRecovery
  /\ UNCHANGED <<server, client, keys, received, arrivals, restarts>>

(* The application ends and starts again.  The database is loaded, where a *)
(* key is decrypted if the client holds its root key and queued if not;    *)
(* then processPersistedUndecryptables queues the isolated ones.           *)
Loaded(c) ==
  IF c.is = "none" THEN c ELSE [c EXCEPT !.is = IF c.root = client THEN "decrypted" ELSE "errored"]

Restart ==
  LET loaded == [k \in Key |-> Loaded(database[k])]
      invalid == {[key |-> k, root |-> loaded[k].root, number |-> loaded[k].number] :
                    k \in {i \in Key : loaded[i].is = "errored"}}
      isolated == {undecryptables[k] : k \in Key} \ {NoVersion}
      queue == SetToSeq(invalid) \o SetToSeq(isolated)
  IN /\ restarts < MaxRestarts /\ restarts' = restarts + 1
     /\ memory' = loaded
     /\ decryptionQueue' = queue
     /\ isProcessingQueue' = (queue # <<>>) /\ gaveUp' = FALSE
     /\ \E r \in Run : run' = [[i \in Run |-> Idle] EXCEPT ![r].at =
                                 IF queue = <<>> THEN "idle" ELSE IF client = 0 THEN "signIn" ELSE "params"]
     /\ UNCHANGED <<server, client, database, undecryptables, received, arrivals, wizards>>

----------------------------------------------------------------------------
(* The queue *)

(* The answer of getLatestKeyParamsFromServer, which may be an error. *)
GetServerParams(r) ==
  /\ run[r].at = "params"
  /\ \E p \in {0, server} : ProcessQueue(r, decryptionQueue, p)
  /\ UNCHANGED <<server, client, keys, decryptionQueue, gaveUp, limits>>

(* A wrong password: the key is put back in front, and tried anew. *)
WrongPassword(r) ==
  /\ run[r].at = "prompt"
  /\ ProcessQueue(r, decryptionQueue, run[r].serverParams)
  /\ UNCHANGED <<server, client, keys, decryptionQueue, gaveUp, limits>>

(* A cancelled prompt removes its key from the queue and stops the run. *)
Abort(r) ==
  /\ run[r].at = "prompt"
  /\ decryptionQueue' = Remove(decryptionQueue, run[r].item)
  /\ gaveUp' = TRUE
  /\ isProcessingQueue' = FALSE
  /\ run' = [run EXCEPT ![r] = [Idle EXCEPT !.at =
                                IF Fallback(run[r].serverParams) THEN "signIn" ELSE "idle"]]
  /\ UNCHANGED <<server, client, keys, limits>>

(* The elements of the queue with the parameters of the root key found are *)
(* taken from the queue together.                                          *)
Match(r, root) ==
  /\ run' = [run EXCEPT ![r].at = "decrypting", ![r].root = root,
                        ![r].matching = SelectSeq(decryptionQueue, LAMBDA v : v.root = root)]
  /\ decryptionQueue' = SelectSeq(decryptionQueue, LAMBDA v : v.root # root)

RightPassword(r) ==
  LET root == run[r].item.root
  IN /\ run[r].at = "prompt"
     /\ IF run[r].replace
        THEN run' = [run EXCEPT ![r].at = "setRootKey", ![r].root = root] /\ UNCHANGED decryptionQueue
        ELSE Match(r, root)
     /\ UNCHANGED <<server, client, keys, isProcessingQueue, gaveUp, limits>>

SetRootKey(r) ==
  /\ run[r].at = "setRootKey"
  /\ client' = run[r].root
  /\ Match(r, run[r].root)
  /\ UNCHANGED <<server, keys, isProcessingQueue, gaveUp, limits>>

(* A collection with the keys of a sequence of versions put in.             *)
Put(copies, versions) ==
  [k \in Key |-> IF \E i \in DOMAIN versions : versions[i].key = k
                 THEN [is |-> "decrypted", root |-> client, number |-> received[k]]
                 ELSE copies[k]]

EmitDecrypted(r) ==
  /\ run[r].at = "decrypting"
  /\ memory' = Put(memory, run[r].matching)
  /\ To(r, "saving")
  /\ UNCHANGED <<server, client, database, undecryptables, decryptionQueue, isProcessingQueue,
                 gaveUp, limits>>

SaveDecrypted(r) ==
  /\ run[r].at = "saving"
  /\ database' = Put(database, run[r].matching)
  /\ To(r, "notifying")
  /\ UNCHANGED <<server, client, memory, undecryptables, decryptionQueue, isProcessingQueue,
                 gaveUp, limits>>

(* removeFromUndecryptables goes by the key, not by the version. *)
RemoveFromUndecryptables(versions) ==
  undecryptables' = [k \in Key |-> IF \E i \in DOMAIN versions : versions[i].key = k
                                   THEN NoVersion ELSE undecryptables[k]]

(* Once the recovery is told to the observers, the run goes on. *)
KeysRecovered(r) ==
  /\ run[r].at = "notifying"
  /\ RemoveFromUndecryptables(run[r].matching)
  /\ ProcessQueue(r, decryptionQueue, run[r].serverParams)
  /\ UNCHANGED <<server, client, memory, database, decryptionQueue, gaveUp, limits>>

----------------------------------------------------------------------------
(* performServerSignIn *)

CancelSignIn(r) ==
  /\ run[r].at = "signIn"
  /\ IF client = 0
     THEN ProcessQueue(r, decryptionQueue, 0)
     ELSE To(r, "idle") /\ UNCHANGED isProcessingQueue
  /\ UNCHANGED <<server, client, keys, decryptionQueue, gaveUp, limits>>

(* The password is given.  Without an account clientParams is undefined,   *)
(* and reading its identifier throws: beginKeyRecovery is rejected.        *)
EnterPassword(r) ==
  /\ run[r].at = "signIn"
  /\ To(r, IF client = 0 THEN "idle" ELSE "signInParams")
  /\ UNCHANGED <<server, client, keys, decryptionQueue, isProcessingQueue, gaveUp, limits>>

GetSignInParams(r) ==
  /\ run[r].at = "signInParams"
  /\ \/ run' = [run EXCEPT ![r].at = "correcting", ![r].root = server]
     \/ run' = [run EXCEPT ![r] = Idle]
  /\ UNCHANGED <<server, client, keys, decryptionQueue, isProcessingQueue, gaveUp, limits>>

(* The answer to correctiveSignIn, which has errored keys decrypted if they *)
(* can be (decryptErroredPayloads); a password that is not the server's is  *)
(* asked for again.                                                         *)
CorrectiveSignIn(r) ==
  /\ run[r].at = "correcting"
  /\ \/ /\ run[r].root = server
        /\ client' = run[r].root
        /\ memory' = [k \in Key |-> IF memory[k].is = "errored" /\ memory[k].root = client'
                                    THEN [memory[k] EXCEPT !.is = "decrypted"] ELSE memory[k]]
        /\ run' = [run EXCEPT ![r] = Idle]
     \/ /\ run' = [run EXCEPT ![r] = [Idle EXCEPT !.at = "signIn"]]
        /\ UNCHANGED <<client, memory>>
  /\ UNCHANGED <<server, database, undecryptables, decryptionQueue, isProcessingQueue,
                 gaveUp, limits>>

(* Another device changes the password of the account. *)
PasswordChanges ==
  /\ server < MaxPassword /\ client # 0
  /\ "passwordChanges" \in Environment \/ Quiet
  /\ server' = server + 1
  /\ UNCHANGED <<client, keys, decryptionQueue, isProcessingQueue, run, gaveUp, limits>>

----------------------------------------------------------------------------
Progress(r) ==
  \/ GetServerParams(r) \/ SetRootKey(r)
  \/ EmitDecrypted(r) \/ SaveDecrypted(r) \/ KeysRecovered(r)
  \/ GetSignInParams(r)

User(r) == WrongPassword(r) \/ Abort(r) \/ RightPassword(r) \/ CancelSignIn(r) \/ EnterPassword(r)

Next ==
  \/ \E k \in Key, p \in RootKey \ {0} : Receive(k, p) \/ ReceiveDecryptable(k)
  \/ \E r \in Run : Progress(r) \/ User(r) \/ CorrectiveSignIn(r)
  \/ PresentKeyRecoveryWizard \/ Restart \/ PasswordChanges

Spec == Init /\ [][Next]_vars

(* The application's own steps happen, and a user who is asked for a *)
(* password gives the right one at last, or cancels.                 *)
FairSpec ==
  /\ Spec
  /\ \A r \in Run : WF_vars(Progress(r)) /\ WF_vars(RightPassword(r) \/ Abort(r))
                  /\ WF_vars(CancelSignIn(r) \/ EnterPassword(r))

----------------------------------------------------------------------------
(* The last version of an items key that arrived is never lost: it is in    *)
(* the database, decrypted or not, or in the isolated storage, whatever the *)
(* user cancels and whenever the application ends, so that it can be        *)
(* decrypted later (handleIgnoredItemsKeys, KeyRecoveryService.ts:165-169). *)
UndecryptablesAreKept ==
  \A k \in Key : received[k] \in {database[k].number, undecryptables[k].number}

(* Every items key in the queue of a client with an account is recovered in *)
(* the end, or the user has cancelled: a key that arrives while a run waits *)
(* for the user is taken up by that run, or by its own, since the flag that *)
(* keeps other runs out is reset exactly where the queue is left            *)
(* (beginKeyRecovery, processQueue).                                        *)
QueueIsEmptied ==
  client # 0 /\ decryptionQueue # <<>> ~> decryptionQueue = <<>> \/ gaveUp

(* The local root key is only ever replaced by that of a later password, *)
(* even with two prompts open (replaceLocalRootKeyWithResult).           *)
RootKeyNeverGoesBack == [][client' >= client]_vars
=============================================================================
