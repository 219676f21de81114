------------------------------ MODULE Features ------------------------------
(***************************************************************************)
(* The features service (FeaturesService.ts): the roles and features of    *)
(* the user, in memory and stored, and the themes and components that are  *)
(* made of features.                                                       *)
(*                                                                         *)
(* Roles are reported by the meta of any response of the server, and by a  *)
(* message of the web socket when they change.  If they differ from those  *)
(* known, or at the first report of a session, they are stored and the     *)
(* features are fetched; several such updates may overlap.  An offline     *)
(* repository, if there is one, gives the features instead.  What an answer *)
(* grants is mapped to items in one go (mapRemoteNativeFeaturesToItems     *)
(* awaits nothing but microtasks), but items come from the database and    *)
(* the server only with the first sync of a session.                       *)
(***************************************************************************)
EXTENDS Naturals, FiniteSets, SequencesExt

CONSTANTS
  Theme, Component, Plain,  \* native features, by content type (none: Plain)
  Experimental, Deprecated, \* some of them
  Plan,           \* what an account may have: roles, live and expired features
  Repository,     \* what the offline repository grants
  Free,           \* roles that are not paid for
  MaxCopies,      \* bound: items of one feature
  MaxUpdates,     \* bound: downloads of features at once
  MaxChanges,     \* bounds: changes of the plan, and of the repository,
  MaxToggles,     \* switching of experimental features,
  MaxFailures,    \* failing downloads
  MaxRestarts,    \* and restarts of the application
  Environment     \* behaviours under which some property is known to fail

Feature == Theme \cup Component \cup Plain
Item == (Theme \cup Component) \X (1 .. MaxCopies)
Update == 1 .. MaxUpdates
State == {"none", "live", "expired"}

ASSUME FeaturesAssumption ==
  /\ Theme \cap Component = {} /\ Plain \cap (Theme \cup Component) = {}
  /\ Experimental \cup Deprecated \subseteq Feature
  /\ MaxCopies \in Nat /\ MaxCopies >= 2
  /\ \A p \in Plan \cup {Repository} : p.live \cup p.expired \subseteq Feature /\ p.live \cap p.expired = {}
  /\ Environment \subseteq {"earlyMessage", "earlyCall", "enabledTwice", "lostDeletion",
                            "overtakenAnswer", "planReturns", "renewal", "subscriberWithRepo"}

VARIABLES
  server,       \* the plan of the account
  reports,      \* roles on their way to the client
  roles, features, enabled,   \* fields of the service, the last the number of
                              \* times in enabledExperimentalFeatures
  needsInitial, \* needsInitialFeaturesUpdate
  retrieved,    \* completedSuccessfulFeaturesRetrieval
  stored,       \* the roles and features in storage
  update,       \* calls of updateRolesAndFetchFeatures or downloadOfflineFeatures
  asked,        \* downloads under way, in the order they were asked for
  known,        \* items in memory
  database,     \* items on disk and at the server
  downloaded,   \* completedOnlineDownloadFirstSync
  staged,       \* the stage FullSyncCompleted_13 has been handled
  foreign,      \* experimental features with an item of a device that has them
                \* enabled, and not switched on or off on this one since
  repo,         \* the offline repository: in memory, not loaded, or none
  used,         \* what has been used of the bounds, and the plans there were
  missed        \* the last download of features failed

service == <<roles, features, enabled, needsInitial, retrieved, stored>>
fetches == <<update, asked>>
items == <<known, database, foreign, downloaded, staged, repo>>
vars == <<server, reports, service, fetches, items, used, missed>>

NoFeatures == [f \in Feature |-> "none"]
Granted(plan) == [f \in Feature |-> IF f \in plan.live THEN "live"
                                    ELSE IF f \in plan.expired THEN "expired" ELSE "none"]
Roles == UNION {p.roles : p \in Plan}
Idle == [at |-> "idle", offline |-> FALSE, answer |-> NoFeatures]

TypeOK ==
  /\ server \in Plan /\ reports \subseteq [roles : SUBSET Roles, socket : BOOLEAN]
  /\ roles \subseteq Roles /\ features \in [Feature -> State] /\ enabled \in [Experimental -> Nat]
  /\ stored \in [roles : SUBSET Roles, features : [Feature -> State]]
  /\ update \in [Update -> [at : {"idle", "storing", "asked", "answered", "failed"},
                            offline : BOOLEAN, answer : [Feature -> State]]]
  /\ asked \in Seq(Update)
  /\ ToSet(asked) = {u \in Update : update[u].at \in {"asked", "answered", "failed"}}
  /\ Len(asked) = Cardinality(ToSet(asked))
  /\ known \in [Item -> State] /\ database \in [Item -> State]
  /\ foreign \subseteq Experimental /\ repo \in {"none", "here", "elsewhere"}
  /\ {needsInitial, retrieved, downloaded, staged, missed} \subseteq BOOLEAN
  /\ staged => downloaded

On(f) == f \in Experimental => enabled[f] > 0

(* Who pays for roles has no offline repository.                            *)
MayHave(plan, repository) ==
  "subscriberWithRepo" \in Environment \/ plan.roles \subseteq Free \/ repository = "none"

(* The first launch, or one after the features of the plan were stored;     *)
(* items may be there from other devices, where other experimental features *)
(* are enabled.                                                             *)
Init ==
  /\ server \in Plan /\ used = [changes |-> 0, toggles |-> 0, failures |-> 0, restarts |-> 0,
                                plans |-> {server}]
  /\ stored \in {[roles |-> {}, features |-> NoFeatures],
                 [roles |-> server.roles, features |-> Granted(server)]}
  /\ roles = stored.roles /\ features = stored.features
  /\ enabled \in [Experimental -> 0 .. 1]
  /\ database \in [Item -> {"none", "live"}]
  /\ \A i \in Item : database[i] # "none" => i[2] = 1
  /\ foreign = {f \in Experimental : ~On(f) /\ \E i \in Item : i[1] = f /\ database[i] # "none"}
  /\ known = [i \in Item |-> "none"]
  /\ repo \in {"none", "elsewhere"} /\ MayHave(server, repo)
  /\ reports = {} /\ update = [u \in Update |-> Idle] /\ asked = <<>>
  /\ needsInitial = TRUE /\ retrieved = FALSE
  /\ downloaded = FALSE /\ staged = FALSE /\ missed = FALSE

HasUsed(bound, max) == /\ used[bound] < max
                       /\ used' = [used EXCEPT ![bound] = @ + 1]

-----------------------------------------------------------------------------
(* mapNativeFeatureToItem: the item found for a feature takes over what is  *)
(* granted of it, or a new one does; an expired theme is deleted.           *)
Existing(f) == {i \in Item : i[1] = f /\ known[i] # "none"}
Found(f) == CHOOSE i \in Existing(f) : TRUE
New(f) == CHOOSE i \in Item : i[1] = f /\ known[i] = "none" /\ database[i] = "none"

(* Mutant: expired themes are kept.                                         *)
NeverDeleted(f, state) == FALSE

Deleted(f, state) == f \in Theme /\ state = "expired"

IsMapped(f, state, on) ==
  /\ state # "none" /\ on
  /\ Existing(f) = {} => f \notin Deprecated /\ ~Deleted(f, state)

MappedItem(i, state, on) ==
  LET f == i[1]
  IN  IF IsMapped(f, state, on) /\ i = IF Existing(f) # {} THEN Found(f) ELSE New(f)
      THEN IF Deleted(f, state) THEN "none" ELSE state
      ELSE known[i]

(* mapRemoteNativeFeaturesToItems *)
MappedItems(granted) == [i \in Item |-> MappedItem(i, granted[i[1]], On(i[1]))]

-----------------------------------------------------------------------------
(* Responses of the server report the roles, again and again.               *)
ServerReports ==
  /\ [roles |-> server.roles, socket |-> FALSE] \notin reports
  /\ reports' = reports \cup {[roles |-> server.roles, socket |-> FALSE]}
  /\ UNCHANGED <<server, service, fetches, items, used, missed>>

(* The plan changes.  A message of the web socket may say so; it differs    *)
(* from other reports only if it comes before the first sync.               *)
ChangePlan(plan) ==
  /\ used.changes < MaxChanges /\ plan # server /\ MayHave(plan, repo)
  /\ plan \in used.plans => "planReturns" \in Environment
  /\ plan.roles = server.roles => "renewal" \in Environment
  /\ server' = plan
  /\ used' = [used EXCEPT !.changes = @ + 1, !.plans = @ \cup {plan}]
  /\ \/ reports' = reports
     \/ /\ "earlyMessage" \in Environment
        /\ reports' = reports \cup {[roles |-> plan.roles, socket |-> TRUE]}
  /\ UNCHANGED <<service, fetches, items, missed>>

(* updateRolesAndFetchFeatures, up to the storing of the roles.             *)
(* Mutant: only roles that were added count.                                *)
HaveRolesBeenAdded(reported) == ~reported \subseteq roles

HaveRolesChanged(reported) == reported # roles

UpdateRoles(u, reported) ==
  /\ update[u].at = "idle"
  /\ update' = [update EXCEPT ![u] = [Idle EXCEPT !.at = "storing"]]
  /\ roles' = reported /\ stored' = [stored EXCEPT !.roles = reported]
  /\ needsInitial' = FALSE
  /\ UNCHANGED <<features, enabled, retrieved>>

(* handleEvent ignores what comes before the first sync.                    *)
(* Mutant: it does not.                                                     *)
NeverTooEarly(report) == FALSE

TooEarly(report) == ~report.socket /\ ~downloaded

ReceiveReport(report) ==
  /\ report \in reports /\ reports' = reports \ {report}
  /\ IF TooEarly(report) \/ (~HaveRolesChanged(report.roles) /\ ~needsInitial)
     THEN UNCHANGED <<service, update>>
     ELSE \E u \in Update : UpdateRoles(u, report.roles)
  /\ UNCHANGED <<server, asked, items, used, missed>>

(* The roles are stored: the features are asked for, unless a repository    *)
(* gives them.                                                              *)
HasOfflineRepo == repo = "here"

GetUserFeatures(u) ==
  /\ update[u].at = "storing"
  /\ IF HasOfflineRepo
     THEN update' = [update EXCEPT ![u] = Idle] /\ asked' = asked
     ELSE update' = [update EXCEPT ![u].at = "asked"] /\ asked' = Append(asked, u)
  /\ UNCHANGED <<server, reports, service, items, used, missed>>

(* The server, or that of the repository, answers, or the request fails.    *)
ServerAnswers(u) ==
  /\ update[u].at = "asked"
  /\ update' = [update EXCEPT ![u].at = "answered", ![u].answer =
                  Granted(IF update[u].offline THEN Repository ELSE server)]
  /\ UNCHANGED <<server, reports, service, asked, items, used, missed>>

DownloadFails(u) ==
  /\ update[u].at = "asked" /\ HasUsed("failures", MaxFailures)
  /\ update' = [update EXCEPT ![u].at = "failed"]
  /\ UNCHANGED <<server, reports, service, asked, items, missed>>

(* didDownloadFeatures.  A failed download is not repeated.                 *)
Take(u) ==
  /\ u = Head(asked) \/ "overtakenAnswer" \in Environment
  /\ update' = [update EXCEPT ![u] = Idle]
  /\ asked' = SelectSeq(asked, LAMBDA v : v # u)

DidDownloadFeatures(u) ==
  /\ update[u].at = "answered" /\ Take(u)
  /\ features' = update[u].answer /\ stored' = [stored EXCEPT !.features = update[u].answer]
  /\ retrieved' = TRUE /\ missed' = FALSE
  /\ known' = MappedItems(update[u].answer)
  /\ UNCHANGED <<server, reports, roles, enabled, needsInitial, database, foreign, downloaded,
                 staged, repo, used>>

DownloadFailed(u) ==
  /\ update[u].at = "failed" /\ Take(u)
  /\ missed' = TRUE
  /\ UNCHANGED <<server, reports, service, items, used>>

-----------------------------------------------------------------------------
(* downloadOfflineFeatures, at the first full sync and of a new repository, *)
(* and deleteOfflineFeatureRepo.  The response of the first full sync has   *)
(* reported the roles by then.                                              *)
DownloadOfflineFeatures(u) ==
  /\ update[u].at = "idle"
  /\ update' = [update EXCEPT ![u] = [Idle EXCEPT !.at = "asked", !.offline = TRUE]]
  /\ asked' = Append(asked, u)

HasOnlineSubscription == ~roles \subseteq Free

FullSyncCompleted ==
  /\ downloaded /\ ~needsInitial /\ ~staged /\ staged' = TRUE
  /\ IF ~HasOnlineSubscription /\ HasOfflineRepo
     THEN \E u \in Update : DownloadOfflineFeatures(u)
     ELSE UNCHANGED fetches
  /\ UNCHANGED <<server, reports, service, known, database, foreign, downloaded, repo, used, missed>>

SetOfflineFeaturesCode(u) ==
  /\ downloaded \/ "earlyCall" \in Environment
  /\ repo = "none" /\ MayHave(server, "here") /\ HasUsed("changes", MaxChanges)
  /\ repo' = "here"
  /\ DownloadOfflineFeatures(u)
  /\ UNCHANGED <<server, reports, service, known, database, foreign, downloaded, staged, missed>>

DeleteOfflineFeatureRepo ==
  /\ repo = "here" /\ HasUsed("changes", MaxChanges)
  /\ repo' = "none"
  /\ stored' = [stored EXCEPT !.features = NoFeatures]
  /\ UNCHANGED <<server, reports, roles, features, enabled, needsInitial, retrieved, fetches,
                 known, database, foreign, downloaded, staged, missed>>

-----------------------------------------------------------------------------
(* enableExperimentalFeature, disableExperimentalFeature: of a feature the  *)
(* user has.                                                                *)
MayToggle(f) ==
  /\ features[f] # "none" /\ HasUsed("toggles", MaxToggles)
  /\ downloaded \/ "earlyCall" \in Environment

EnableExperimentalFeature(f) ==
  /\ MayToggle(f)
  /\ enabled[f] = 0 \/ "enabledTwice" \in Environment
  /\ enabled' = [enabled EXCEPT ![f] = @ + 1]
  /\ known' = [i \in Item |-> IF i[1] = f THEN MappedItem(i, features[f], TRUE) ELSE known[i]]
  /\ foreign' = foreign \ {f}
  /\ UNCHANGED <<server, reports, roles, features, needsInitial, retrieved, stored, fetches,
                 database, downloaded, staged, repo, missed>>

DisableExperimentalFeature(f) ==
  /\ MayToggle(f)
  /\ enabled' = [enabled EXCEPT ![f] = IF @ = 0 THEN 0 ELSE @ - 1]
  /\ known' = [i \in Item |-> IF Existing(f) # {} /\ i = Found(f) THEN "none" ELSE known[i]]
  /\ foreign' = foreign \ {f}
  /\ UNCHANGED <<server, reports, roles, features, needsInitial, retrieved, stored, fetches,
                 database, downloaded, staged, repo, missed>>

-----------------------------------------------------------------------------
(* The database is loaded and what the server has is downloaded: until then *)
(* only items made meanwhile are in memory.                                 *)
DownloadFirstSync ==
  /\ ~downloaded /\ downloaded' = TRUE
  /\ known' = [i \in Item |-> IF known[i] = "none" THEN database[i] ELSE known[i]]
  /\ repo' = IF repo = "elsewhere" THEN "here" ELSE repo
  /\ UNCHANGED <<server, reports, service, fetches, database, foreign, staged, used, missed>>

(* A sync: items are saved and uploaded.                                    *)
Sync ==
  /\ database' = [i \in Item |-> IF known[i] = "none" /\ ~downloaded THEN database[i] ELSE known[i]]
  /\ database' # database
  /\ UNCHANGED <<server, reports, service, fetches, known, foreign, downloaded, staged, repo,
                 used, missed>>

(* A launch: initializeFromDisk.  An item deleted in the session is back,   *)
(* if the deletion was not saved.                                           *)
Restart ==
  /\ HasUsed("restarts", MaxRestarts)
  /\ \/ "lostDeletion" \in Environment \/ ~downloaded
     \/ \A i \in Item : i[1] \in Experimental /\ known[i] = "none" => database[i] = "none"
  /\ roles' = stored.roles /\ features' = stored.features
  /\ needsInitial' = TRUE /\ retrieved' = FALSE /\ missed' = FALSE
  /\ update' = [u \in Update |-> Idle] /\ asked' = <<>> /\ reports' = {}
  /\ known' = [i \in Item |-> "none"] /\ downloaded' = FALSE /\ staged' = FALSE
  /\ repo' = IF repo = "here" THEN "elsewhere" ELSE repo
  /\ UNCHANGED <<server, enabled, stored, database, foreign>>

-----------------------------------------------------------------------------
Answer(u) == GetUserFeatures(u) \/ ServerAnswers(u) \/ DidDownloadFeatures(u) \/ DownloadFailed(u)

Next ==
  \/ ServerReports \/ FullSyncCompleted \/ DownloadFirstSync \/ Sync \/ Restart
  \/ \E plan \in Plan : ChangePlan(plan)
  \/ \E report \in reports : ReceiveReport(report)
  \/ \E u \in Update : Answer(u) \/ DownloadFails(u) \/ SetOfflineFeaturesCode(u)
  \/ DeleteOfflineFeatureRepo
  \/ \E f \in Experimental : EnableExperimentalFeature(f) \/ DisableExperimentalFeature(f)

Spec == Init /\ [][Next]_vars

(* Syncs go on, their responses and what they cause arrive.                 *)
FairSpec ==
  /\ Spec
  /\ WF_vars(ServerReports) /\ WF_vars(DownloadFirstSync) /\ WF_vars(FullSyncCompleted)
  /\ \A p \in Plan, s \in BOOLEAN : WF_vars(ReceiveReport([roles |-> p.roles, socket |-> s]))
  /\ \A u \in Update : WF_vars(Answer(u))

-----------------------------------------------------------------------------
(* There is one item of a feature: mapping does not create another when the *)
(* feature has one already, on this device or another (handleEvent:         *)
(* "feature mapping may think a component doesn't exist and create a new    *)
(* one, when in reality the component already exists but hasn't been        *)
(* downloaded yet").                                                        *)
OneItemEach ==
  \A i, j \in Item : i[1] = j[1] /\ i # j =>
    \A k \in {i, j} : known[k] # "none" \/ (~downloaded /\ database[k] # "none") =>
      LET l == IF k = i THEN j ELSE i
      IN  known[l] = "none" /\ (downloaded \/ database[l] = "none")

(* Once the features of a session are there, the items agree with them,     *)
(* whatever was stored, expired, enabled or interrupted before: one with    *)
(* what is granted of each, none of an expired theme, none of a deprecated  *)
(* feature that had none; and at any time none of an experimental feature   *)
(* that is not enabled, but for one that came from a device that has it     *)
(* enabled, which stays until the feature is switched on or off on this one *)
(* (mapRemoteNativeFeaturesToItems, disableExperimentalFeature).            *)
States(f) == {known[i] : i \in Existing(f)}

ItemsFollowFeatures ==
  /\ downloaded => \A f \in Experimental : On(f) \/ Existing(f) = {} \/ f \in foreign
  /\ retrieved => \A f \in Theme \cup Component :
       features[f] # "none" /\ On(f) =>
         IF f \in Theme /\ features[f] = "expired" THEN States(f) = {}
         ELSE States(f) = {features[f]} \/ (f \in Deprecated /\ States(f) = {})

(* getFeatureStatus                                                         *)
Paid == HasOnlineSubscription \/ HasOfflineRepo

IsEntitled(f) ==
  /\ Paid
  /\ \/ f \in Deprecated \/ features[f] = "live"
     \/ ~retrieved /\ features = NoFeatures

MayUse(f) ==
  IF repo = "none" THEN ~server.roles \subseteq Free /\ (f \in Deprecated \/ f \in server.live)
  ELSE f \in Deprecated \/ f \in Repository.live

(* Whatever plans there were, in the end the user is entitled to what the   *)
(* account or the repository grants, unless the last download of the        *)
(* session failed (updateRolesAndFetchFeatures, downloadOfflineFeatures).   *)
EntitlementsSettle == <>[](missed \/ \A f \in Feature : IsEntitled(f) <=> MayUse(f))

=============================================================================
