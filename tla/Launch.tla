------------------------------- MODULE Launch -------------------------------
(***************************************************************************)
(* The launch of an application (prepareForLaunch and launch), and the     *)
(* migrations that run at its stages: the base migration, that from the    *)
(* 1.x storage of web and desktop (Migration2_0_0), and the later ones,    *)
(* of which only the last marks the migrations as done.  The application   *)
(* may end between any two steps and is started again.                     *)
(*                                                                         *)
(* The legacy values of the root storage are                               *)
(*   "params"     the key parameters of the account,                       *)
(*   "keys"       its keys (mk, ak),                                       *)
(*   "session"    the session (user, jwt),                                 *)
(*   "encrypted"  the encrypted storage and the passcode's parameters: it  *)
(*                holds the three above when there is a passcode,          *)
(*   "marker"     any other value that tells a 1.x installation.           *)
(* The device, the encryption service, the server and the user are         *)
(* external; the variant for mobile is not modelled.                       *)
(***************************************************************************)
EXTENDS Naturals

CONSTANTS
  MaxRestarts,    \* bound: ends of the application
  LaunchEnvironment   \* what else may happen, subset of {"unfinishedMigration"}

ASSUME LaunchAssumption ==
  MaxRestarts \in Nat /\ LaunchEnvironment \subseteq {"unfinishedMigration"}

Legacy == {"params", "keys", "session", "encrypted", "marker"}

VARIABLES
  user,        \* what the installation has: account, passcode, 1.x storage
  raw,         \* legacy values of the root storage
  version,     \* the stored snjs version
  object,      \* the managed storage (RawStorageKey.StorageObject)
  keychain,    \* the namespaced keychain holds the account key
  itemsKey,    \* the database holds an items key made of the account key
  app,         \* the running application
  restarts

device == <<raw, version, object, keychain, itemsKey>>
launchVars == <<user, device, app, restarts>>

(* Managed values: parameters of the root key, of its wrapper, the wrapped *)
(* root key, the session.                                                  *)
Values == SUBSET {"params", "wrapperParams", "wrappedKey", "session"}

LaunchStage == {"off", "failed", "version", "migrations", "keychain", "structure", "passcode", "object", "storage",
                "challenge", "decrypted", "deleteManaged", "deleteMisc", "launched", "database",
                "loaded", "ready", "synced"}

(* at: how far the launch is;  values, unsaved: the managed values in memory *)
(* (values of DiskStorageService) and whether they are still to be written;  *)
(* rootKey, itemsKey: in memory;  active: migrations are required;           *)
(* new: the structure that Migration2_0_0 computes.                          *)
Off == [at |-> "off", values |-> {}, unsaved |-> FALSE, rootKey |-> FALSE, itemsKey |-> FALSE,
        active |-> FALSE, new |-> {}]

LaunchTypeOK ==
  /\ user \in [account : BOOLEAN, passcode : BOOLEAN, legacy : BOOLEAN]
  /\ raw \in SUBSET Legacy
  /\ version \in {"none", "1.0.0", "current"}
  /\ object \in Values /\ keychain \in BOOLEAN /\ itemsKey \in BOOLEAN
  /\ app \in [at : LaunchStage, values : Values, unsaved : BOOLEAN, rootKey : BOOLEAN, itemsKey : BOOLEAN,
              active : BOOLEAN, new : Values]
  /\ app.at \in {"launched", "database", "loaded", "ready", "synced"} /\ user.account => app.rootKey
  /\ restarts \in 0 .. MaxRestarts

InStorage(u) == IF u.account THEN {"params", "keys", "session"} ELSE {}

LaunchInit ==
  /\ user \in {u \in [account : BOOLEAN, passcode : BOOLEAN, legacy : BOOLEAN] :
                 ~u.legacy => ~u.account /\ ~u.passcode}
  /\ raw = IF ~user.legacy THEN {}
           ELSE IF user.passcode THEN {"encrypted"} ELSE InStorage(user) \cup {"marker"}
  /\ version = "none" /\ object = {} /\ keychain = FALSE /\ itemsKey = FALSE
  /\ app = Off /\ restarts = 0

At(stage) == app.at = stage
GoTo(stage) == app' = [app EXCEPT !.at = stage]

----------------------------------------------------------------------------
(* prepareForLaunch *)

Start ==
  /\ At("off")
  /\ GoTo("version")
  /\ UNCHANGED <<user, device, restarts>>

(* storeVersionNumber of the base migration *)
StoreVersionNumber ==
  /\ At("version")
  /\ version' = IF version # "none" THEN version
                ELSE IF raw \cap {"marker", "session", "encrypted"} # {} THEN "1.0.0" ELSE "current"
  /\ GoTo("migrations")
  /\ UNCHANGED <<user, raw, object, keychain, itemsKey, restarts>>

(* MigrationService.initialize: getRequiredMigrations, and the version of *)
(* an installation that needs none.                                       *)
RequireMigrations ==
  /\ At("migrations")
  /\ app' = [app EXCEPT !.at = "keychain", !.active = (version # "current")]
  /\ UNCHANGED <<user, device, restarts>>

(* PreparingForLaunch_0 of the base migration.  The reader of a 1.0.0      *)
(* installation needs no keychain; a later one asks for the password until *)
(* it is right when the keychain lacks the key of an account without       *)
(* passcode.                                                               *)
NeedsKeychainRepair ==
  version # "1.0.0" /\ "params" \in object /\ "wrappedKey" \notin object /\ ~keychain

RepairMissingKeychain ==
  /\ At("keychain")
  /\ keychain' = (keychain \/ NeedsKeychainRepair)
  /\ GoTo(IF app.active THEN "structure" ELSE "storage")
  /\ UNCHANGED <<user, raw, version, object, itemsKey, restarts>>

----------------------------------------------------------------------------
(* PreparingForLaunch_0 of Migration2_0_0: migrateStorageStructureForWebDesktop *)

(* A migration that moves the account's keys instead of copying them. *)
MoveLegacyStructure ==
  /\ At("structure")
  /\ IF "encrypted" \in raw
     THEN GoTo("passcode") /\ UNCHANGED <<keychain, raw>>
     ELSE /\ keychain' = (keychain \/ "keys" \in raw)
          /\ raw' = raw \ {"keys"}
          /\ app' = [app EXCEPT !.at = "object", !.new = raw \cap {"params"}]
  /\ UNCHANGED <<user, version, object, itemsKey, restarts>>

(* Without encrypted storage the account's key goes to the keychain; the key *)
(* without its parameters is an error that ends the launch.                  *)
ReadLegacyStructure ==
  /\ At("structure")
  /\ IF "encrypted" \in raw
     THEN GoTo("passcode") /\ UNCHANGED keychain
     ELSE IF "keys" \in raw /\ "params" \notin raw
     THEN GoTo("failed") /\ UNCHANGED keychain
     ELSE /\ keychain' = (keychain \/ "keys" \in raw)
          /\ app' = [app EXCEPT !.at = "object", !.new = raw \cap {"params"}]
  /\ UNCHANGED <<user, raw, version, object, itemsKey, restarts>>

(* promptForPasscodeUntilCorrect, then the account's key is taken out of *)
(* the encrypted storage and wrapped; the rest keeps the session.        *)
EnterMigrationPasscode ==
  /\ At("passcode")
  /\ app' = [app EXCEPT !.at = "object",
                        !.new = {"wrapperParams"} \cup
                                (IF user.account THEN {"params", "wrappedKey", "session"} ELSE {})]
  /\ UNCHANGED <<user, device, restarts>>

(* allPlatformHelperSetStorageStructure writes over what there is. *)
SetStorageStructure ==
  /\ At("object")
  /\ object' = app.new
  /\ GoTo("storage")
  /\ UNCHANGED <<user, raw, version, keychain, itemsKey, restarts>>

(* initializeFromDisk of the storage and initialize of the encryption *)
(* service; the application is started.                               *)
InitializeFromDisk ==
  /\ At("storage")
  /\ app' = [app EXCEPT !.at = "challenge", !.values = object,
                        !.rootKey = "params" \in object /\ "wrapperParams" \notin object /\ keychain]
  /\ UNCHANGED <<user, device, restarts>>

----------------------------------------------------------------------------
(* launch *)

(* The launch challenge, if there is a passcode: the root key is unwrapped, *)
(* and the storage decrypted.                                               *)
PassLaunchChallenge ==
  /\ At("challenge")
  /\ app' = [app EXCEPT !.at = "decrypted", !.rootKey = @ \/ "wrappedKey" \in app.values]
  /\ UNCHANGED <<user, device, restarts>>

CancelLaunchChallenge ==
  /\ At("challenge") /\ "wrapperParams" \in app.values
  /\ restarts < MaxRestarts
  /\ GoTo("failed")
  /\ UNCHANGED <<user, device, restarts>>

(* StorageDecrypted_09: migrateArbitraryRawStorageToManagedStorage and     *)
(* migrateSessionStorage put the legacy values in memory; the storage does *)
(* not write before Launched_10.                                           *)
MigrateRawStorage ==
  /\ At("decrypted")
  /\ app' = IF app.active
            THEN [app EXCEPT !.at = "deleteManaged", !.unsaved = TRUE,
                             !.values = @ \cup (raw \cap {"session"})]
            ELSE [app EXCEPT !.at = "launched"]
  /\ UNCHANGED <<user, device, restarts>>

(* deleteLegacyStorageValues, in its order: managed keys, then the others. *)
DeleteManagedKeys ==
  /\ At("deleteManaged")
  /\ raw' = raw \ {"params", "encrypted", "marker"}
  /\ GoTo("deleteMisc")
  /\ UNCHANGED <<user, version, object, keychain, itemsKey, restarts>>

DeleteMiscKeys ==
  /\ At("deleteMisc")
  /\ raw' = raw \ {"keys", "session"}
  /\ GoTo("launched")
  /\ UNCHANGED <<user, version, object, keychain, itemsKey, restarts>>

(* Launched_10 starts the writing of the values, which nobody awaits. *)
PersistValues ==
  /\ app.at \in {"launched", "database", "loaded", "ready", "synced"} /\ app.unsaved
  /\ object' = app.values
  /\ app' = [app EXCEPT !.unsaved = FALSE]
  /\ UNCHANGED <<user, raw, version, keychain, itemsKey, restarts>>

(* getDatabasePayloads, then LoadingDatabase_11, where Migration2_0_0 makes  *)
(* an items key of the root key.                                             *)
LoadDatabase ==
  /\ At("launched")
  /\ app' = [app EXCEPT !.at = "database", !.itemsKey = itemsKey \/ (app.active /\ app.rootKey)]
  /\ UNCHANGED <<user, device, restarts>>

(* A service whose migrations are done with the first that is. *)
LoadedDatabaseDone ==
  /\ At("database")
  /\ app' = [app EXCEPT !.at = "loaded", !.itemsKey = @ \/ (app.active /\ app.rootKey)]
  /\ version' = "current"
  /\ UNCHANGED <<user, raw, object, keychain, itemsKey, restarts>>

(* loadDatabasePayloads, then LoadedDatabase_12, where Migration2_0_15 makes *)
(* the items key if there is none.                                           *)
LoadedDatabase ==
  /\ At("database")
  /\ app' = [app EXCEPT !.at = "loaded", !.itemsKey = @ \/ (app.active /\ app.rootKey)]
  /\ UNCHANGED <<user, device, restarts>>

(* The sync that starts then saves and uploads what is dirty; it is over  *)
(* well after the values are written.                                     *)
CompleteFullSync ==
  /\ At("loaded") /\ ~app.unsaved
  /\ itemsKey' = app.itemsKey
  /\ GoTo("synced")
  /\ UNCHANGED <<user, raw, version, object, keychain, restarts>>

(* FullSyncCompleted_13: the last migration is done (markMigrationsAsDone). *)
MarkMigrationsAsDone ==
  /\ At("synced")
  /\ version' = "current"
  /\ GoTo("ready")
  /\ UNCHANGED <<user, raw, object, keychain, itemsKey, restarts>>

----------------------------------------------------------------------------
(* The environment *)

(* The migration has changed what it starts from and is not done. *)
Unfinished ==
  \/ app.at \in {"deleteMisc", "launched", "database", "loaded", "synced"} /\ version # "current"
  \/ At("deleteManaged")

(* The application ends: it is closed, killed, or its launch has failed. *)
End ==
  /\ ~At("off")
  /\ restarts < MaxRestarts /\ restarts' = restarts + 1
  /\ "unfinishedMigration" \in LaunchEnvironment \/ ~Unfinished
  /\ app' = Off
  /\ UNCHANGED <<user, device>>

(* A device restored from a backup comes without its keychain. *)
LoseKeychain ==
  /\ At("off") /\ version = "current" /\ keychain
  /\ restarts < MaxRestarts /\ restarts' = restarts + 1
  /\ keychain' = FALSE
  /\ UNCHANGED <<user, raw, version, object, itemsKey, app>>

Prepare ==
  \/ Start \/ StoreVersionNumber \/ RequireMigrations \/ RepairMissingKeychain
  \/ ReadLegacyStructure \/ EnterMigrationPasscode \/ SetStorageStructure \/ InitializeFromDisk

GoOn ==
  \/ PassLaunchChallenge \/ MigrateRawStorage \/ DeleteManagedKeys \/ DeleteMiscKeys
  \/ LoadDatabase \/ LoadedDatabase \/ CompleteFullSync \/ MarkMigrationsAsDone

LaunchNext == Prepare \/ GoOn \/ PersistValues \/ CancelLaunchChallenge \/ End \/ LoseKeychain

LaunchSpec == LaunchInit /\ [][LaunchNext]_launchVars

(* The launch goes on, with a user who knows the passcode and a server that *)
(* can be reached in the end; the values are written; what has failed is    *)
(* started again.                                                           *)
LaunchFairSpec ==
  LaunchSpec /\ WF_launchVars(Prepare) /\ WF_launchVars(GoOn) /\ WF_launchVars(PersistValues) /\ WF_launchVars(End /\ At("failed"))

----------------------------------------------------------------------------
(* The account of a 1.x installation is never lost: either all the legacy   *)
(* values it is made of are still there, or the managed storage and the     *)
(* keychain hold its key, or the parameters by which the password gives it  *)
(* again (Migration2_0_0, 2_0_0.ts:75-84).                                  *)
LegacyAccount ==
  IF user.passcode THEN "encrypted" \in raw ELSE {"params", "keys"} \subseteq raw

ManagedAccount ==
  /\ "params" \in object
  /\ IF user.passcode THEN {"wrapperParams", "wrappedKey"} \subseteq object
                      ELSE keychain \/ version = "current"

AccountIsKept == user.account => LegacyAccount \/ ManagedAccount

(* Migrations that are marked as done have nothing left to do: the account, *)
(* its session and the items key that decrypts its items are on disk, and   *)
(* no legacy value is (markMigrationsAsDone).                               *)
Migrated ==
  user.legacy =>
    /\ raw = {}
    /\ user.account => ManagedAccount /\ "session" \in object /\ itemsKey

(* However often it is interrupted, every installation is launched in the   *)
(* end, with its migrations done.                                           *)
MigratesInTheEnd == <>[](version = "current" /\ At("ready") /\ Migrated)
=============================================================================
