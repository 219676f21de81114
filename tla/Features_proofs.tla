-------------------------- MODULE Features_proofs --------------------------
(***************************************************************************)
(* Theorems about Features: whatever plans, repositories, updates and      *)
(* restarts there are, a feature has one item, and the items follow the    *)
(* features.  They hold if the database has been loaded before the web     *)
(* socket, the user or an offline code causes an update, if no feature is  *)
(* enabled twice, and if the deletion of a disabled one is saved before    *)
(* the application ends: the settings of Environment that break them.      *)
(***************************************************************************)
EXTENDS Features, TLAPS

InOrder ==
  Environment \cap {"earlyMessage", "earlyCall", "enabledTwice", "lostDeletion"} = {}

Updates == [at : {"idle", "storing", "asked", "answered", "failed"},
            offline : BOOLEAN, answer : [Feature -> State]]

Types ==
  /\ features \in [Feature -> State] /\ stored.features \in [Feature -> State]
  /\ enabled \in [Experimental -> Nat]
  /\ update \in [Update -> Updates]
  /\ known \in [Item -> State] /\ database \in [Item -> State]
  /\ {retrieved, downloaded} \subseteq BOOLEAN

(* No update and no item before the first sync of the session.              *)
QuietInv ==
  /\ \A report \in reports : ~report.socket
  /\ ~downloaded =>
       /\ ~retrieved
       /\ \A u \in Update : update[u].at = "idle"
       /\ \A i \in Item : known[i] = "none"

OneOf(state) == \A i, j \in Item : i[1] = j[1] /\ state[i] # "none" /\ state[j] # "none" => i = j

OneInv == OneOf(known) /\ OneOf(database)

(* What the database has of an experimental feature when a session begins   *)
(* is of an enabled one, or came from another device.                       *)
EnabledInv ==
  /\ \A f \in Experimental : enabled[f] <= 1
  /\ ~downloaded => \A i \in Item : database[i] # "none" => On(i[1]) \/ i[1] \in foreign

Follows(f) ==
  features[f] # "none" /\ On(f) =>
    IF f \in Theme /\ features[f] = "expired" THEN States(f) = {}
    ELSE States(f) = {features[f]} \/ (f \in Deprecated /\ States(f) = {})

FollowInv ==
  /\ downloaded => \A f \in Experimental : On(f) \/ Existing(f) = {} \/ f \in foreign
  /\ retrieved => \A f \in Theme \cup Component : Follows(f)

ItemsInv == Types /\ QuietInv /\ OneInv /\ EnabledInv /\ FollowInv

-----------------------------------------------------------------------------
(* The item of a feature is found, and a new one is to be had.              *)
LEMMA FoundExists ==
  ASSUME NEW f, Existing(f) # {} PROVE Found(f) \in Existing(f)
BY DEF Found

LEMMA NewExists ==
  ASSUME Types, OneInv, NEW f \in Theme \cup Component, Existing(f) = {}
  PROVE  New(f) \in Item /\ New(f)[1] = f
<1>1. <<f, 1>> \in Item /\ <<f, 2>> \in Item
  BY FeaturesAssumption DEF FeaturesAssumption, Item
<1>2. PICK i \in {<<f, 1>>, <<f, 2>>} : database[i] = "none"
  <2>1. <<f, 1>> # <<f, 2>> OBVIOUS
  <2>2. <<f, 1>>[1] = f /\ <<f, 2>>[1] = f OBVIOUS
  <2>3. QED BY <1>1, <2>1, <2>2 DEF OneInv, OneOf
<1>3. known[i] = "none"
  BY <1>1, <1>2 DEF Existing
<1>4. i \in Item /\ i[1] = f
  BY <1>1, <1>2
<1>5. \E j \in Item : j[1] = f /\ known[j] = "none" /\ database[j] = "none"
  BY <1>2, <1>3, <1>4
<1>6. QED BY <1>5 DEF New

(* mapNativeFeatureToItem leaves one item of a feature, in the state        *)
(* granted.                                                                 *)
MapsTo(f, state, on, mapped) ==
  \A i \in Item : i[1] = f => mapped[i] = MappedItem(i, state, on)

LEMMA MappedOne ==
  ASSUME Types, OneInv, NEW f \in Theme \cup Component, NEW state \in State, NEW on,
         NEW mapped, MapsTo(f, state, on, mapped)
  PROVE  \A i, j \in Item : i[1] = f /\ j[1] = f /\ mapped[i] # "none" /\ mapped[j] # "none" => i = j
<1> SUFFICES ASSUME NEW i \in Item, NEW j \in Item, i[1] = f, j[1] = f,
                    mapped[i] # "none", mapped[j] # "none"
             PROVE  i = j
  OBVIOUS
<1>1. mapped[i] = MappedItem(i, state, on) /\ mapped[j] = MappedItem(j, state, on)
  BY DEF MapsTo
<1>2. CASE Existing(f) # {}
  <2>1. Found(f) \in Existing(f)
    BY <1>2, FoundExists
  <2>2. \A k \in Item : k[1] = f /\ MappedItem(k, state, on) # "none" => k \in Existing(f)
    BY <1>2, <2>1 DEF MappedItem, Existing
  <2>3. QED BY <1>1, <2>2 DEF Existing, OneInv, OneOf
<1>3. CASE Existing(f) = {}
  <2>1. known[i] = "none" /\ known[j] = "none"
    BY <1>3 DEF Existing
  <2>2. i = New(f) /\ j = New(f)
    BY <1>1, <1>3, <2>1 DEF MappedItem
  <2>3. QED BY <2>2
<1>4. QED BY <1>2, <1>3

Reached(f, state, mapped, left) ==
  IF f \in Theme /\ state = "expired" THEN left = {}
  ELSE {mapped[i] : i \in left} = {state} \/ (f \in Deprecated /\ left = {})

LEMMA MappedStates ==
  ASSUME Types, OneInv, NEW f \in Theme \cup Component, NEW state \in State, state # "none",
         NEW mapped, MapsTo(f, state, TRUE, mapped),
         NEW left, left = {i \in Item : i[1] = f /\ mapped[i] # "none"}
  PROVE  Reached(f, state, mapped, left)
<1> USE DEF Reached
<1>1. CASE Existing(f) # {}
  <2>1. Found(f) \in Existing(f) /\ Found(f) \in Item /\ Found(f)[1] = f
    BY <1>1, FoundExists DEF Existing
  <2>2. IsMapped(f, state, TRUE)
    BY <1>1 DEF IsMapped
  <2>3. \A i \in Item : i[1] = f /\ i # Found(f) => known[i] = "none"
    BY <2>1 DEF Existing, OneInv, OneOf
  <2>4. \A i \in Item : i[1] = f /\ i # Found(f) => mapped[i] = "none"
    BY <1>1, <2>2, <2>3 DEF MapsTo, MappedItem
  <2>5. mapped[Found(f)] = IF Deleted(f, state) THEN "none" ELSE state
    BY <1>1, <2>1, <2>2 DEF MapsTo, MappedItem
  <2>6. CASE Deleted(f, state)
    <3>1. left = {}
      BY <2>4, <2>5, <2>6
    <3>2. QED BY <2>6, <3>1 DEF Deleted
  <2>7. CASE ~Deleted(f, state)
    <3>1. left = {Found(f)}
      BY <2>1, <2>4, <2>5, <2>7
    <3>2. {mapped[i] : i \in left} = {state}
      BY <2>5, <2>7, <3>1
    <3>3. QED BY <2>7, <3>2 DEF Deleted
  <2>8. QED BY <2>6, <2>7
<1>2. CASE Existing(f) = {} /\ ~IsMapped(f, state, TRUE)
  <2>1. \A i \in Item : i[1] = f => mapped[i] = "none"
    BY <1>2 DEF MapsTo, MappedItem, Existing
  <2>2. left = {}
    BY <2>1
  <2>3. f \in Deprecated \/ Deleted(f, state)
    BY <1>2 DEF IsMapped
  <2>4. QED BY <2>2, <2>3 DEF Deleted
<1>3. CASE Existing(f) = {} /\ IsMapped(f, state, TRUE)
  <2>1. ~Deleted(f, state)
    BY <1>3 DEF IsMapped
  <2>2. New(f) \in Item /\ New(f)[1] = f
    BY <1>3, NewExists
  <2>3. mapped[New(f)] = state
    BY <1>3, <2>1, <2>2 DEF MapsTo, MappedItem
  <2>4. \A i \in Item : i[1] = f /\ i # New(f) => mapped[i] = "none"
    <3>1. \A i \in Item : i[1] = f => known[i] = "none"
      BY <1>3 DEF Existing
    <3>2. QED BY <1>3, <3>1 DEF MapsTo, MappedItem
  <2>5. left = {New(f)}
    BY <2>2, <2>3, <2>4
  <2>6. {mapped[i] : i \in left} = {state}
    BY <2>3, <2>5
  <2>7. QED BY <2>1, <2>6 DEF Deleted
<1>4. QED BY <1>1, <1>2, <1>3

-----------------------------------------------------------------------------
LEMMA InitInv == ASSUME InOrder, Init PROVE ItemsInv
<1>1. NoFeatures \in [Feature -> State] /\ \A p \in Plan : Granted(p) \in [Feature -> State]
  BY DEF NoFeatures, Granted, State
<1>2. Types
  <2>1. features \in [Feature -> State] /\ stored.features \in [Feature -> State]
    BY <1>1 DEF Init
  <2>2. enabled \in [Experimental -> Nat]
    BY DEF Init
  <2>3. update \in [Update -> Updates]
    BY <1>1 DEF Init, Idle, Updates
  <2>4. known \in [Item -> State] /\ database \in [Item -> State]
    BY DEF Init, State
  <2>5. QED BY <2>1, <2>2, <2>3, <2>4 DEF Types, Init
<1>3. QuietInv
  BY DEF QuietInv, Init, Idle
<1>4. OneInv
  <2>1. \A i, j \in Item : i[1] = j[1] /\ i[2] = 1 /\ j[2] = 1 => i = j
    BY DEF Item
  <2>2. \A i \in Item : known[i] = "none" /\ (database[i] # "none" => i[2] = 1)
    BY DEF Init
  <2>3. QED BY <2>1, <2>2 DEF OneInv, OneOf
<1>5. EnabledInv
  <2>1. \A f \in Experimental : enabled[f] <= 1
    BY DEF Init
  <2>2. ASSUME NEW i \in Item, database[i] # "none", ~On(i[1]) PROVE i[1] \in foreign
    <3>1. i[1] \in Experimental
      BY <2>2 DEF On
    <3>2. foreign = {f \in Experimental : ~On(f) /\ \E j \in Item : j[1] = f /\ database[j] # "none"}
      BY DEF Init
    <3>3. QED BY <2>2, <3>1, <3>2
  <2>3. QED BY <2>1, <2>2 DEF EnabledInv
<1>6. FollowInv
  BY DEF FollowInv, Init
<1>7. QED BY <1>2, <1>3, <1>4, <1>5, <1>6 DEF ItemsInv

(* Steps that leave features, items and what is enabled as they are.        *)
Same == UNCHANGED <<features, enabled, known, database, foreign, downloaded, retrieved>>

LEMMA SameInv ==
  ASSUME ItemsInv, Same, stored'.features \in [Feature -> State],
         update' \in [Update -> Updates],
         \A report \in reports' : ~report.socket,
         ~downloaded => update' = update
  PROVE  ItemsInv'
<1>1. Types'
  BY DEF ItemsInv, Types, Same
<1>2. QuietInv'
  BY DEF ItemsInv, QuietInv, Same
<1>3. OneInv'
  BY DEF ItemsInv, OneInv, OneOf, Same
<1>4. EnabledInv'
  BY DEF ItemsInv, EnabledInv, On, Same
<1>5. (\A f : On(f) <=> On(f)') /\ \A f : Existing(f)' = Existing(f) /\ States(f)' = States(f)
  BY DEF On, Same, Existing, States
<1>6. FollowInv'
  BY <1>5 DEF ItemsInv, FollowInv, Follows, Same
<1>7. QED BY <1>1, <1>2, <1>3, <1>4, <1>6 DEF ItemsInv

(* Items mapped from an answer or of one feature switched on.               *)
LEMMA MappedType ==
  ASSUME Types, NEW i \in Item, NEW state \in State, NEW on \in BOOLEAN
  PROVE  MappedItem(i, state, on) \in State
BY DEF Types, MappedItem, State

LEMMA ReportInv ==
  ASSUME InOrder, ItemsInv, NEW report \in reports, ReceiveReport(report) PROVE ItemsInv'
<1>1. ~report.socket
  BY DEF ItemsInv, QuietInv
<1>2. CASE UNCHANGED <<service, update>>
  BY <1>2, SameInv DEF ReceiveReport, Same, service, items, ItemsInv, Types, QuietInv
<1>3. CASE downloaded /\ \E u \in Update : UpdateRoles(u, report.roles)
  <2>1. PICK u \in Update : UpdateRoles(u, report.roles)
    BY <1>3
  <2>2. [Idle EXCEPT !.at = "storing"] \in Updates
    BY DEF Idle, NoFeatures, State, Updates
  <2>3. stored'.features \in [Feature -> State]
    BY <2>1 DEF UpdateRoles, ItemsInv, Types
  <2>4. update' \in [Update -> Updates]
    BY <2>1, <2>2 DEF UpdateRoles, ItemsInv, Types
  <2>5. QED BY <1>3, <2>1, <2>3, <2>4, SameInv
            DEF UpdateRoles, ReceiveReport, Same, items, ItemsInv, QuietInv
<1>4. QED BY <1>1, <1>2, <1>3 DEF ReceiveReport, TooEarly

LEMMA DownloadedInv ==
  ASSUME ItemsInv, NEW u \in Update, DidDownloadFeatures(u) PROVE ItemsInv'
<1> DEFINE answer == update[u].answer
<1>1. answer \in [Feature -> State] /\ downloaded
  BY DEF ItemsInv, Types, Updates, QuietInv, DidDownloadFeatures
<1>2. features' = answer /\ stored'.features = answer /\ retrieved' = TRUE
      /\ UNCHANGED <<enabled, database, foreign, downloaded, reports>>
  BY DEF DidDownloadFeatures, ItemsInv, Types
<1>3. \A f \in Theme \cup Component : answer[f] \in State /\ On(f) \in BOOLEAN
  BY <1>1 DEF Feature, On
<1>4. \A i \in Item : i[1] \in Theme \cup Component
  BY DEF Item
<1>5. known' = [i \in Item |-> MappedItem(i, answer[i[1]], On(i[1]))]
  BY DEF DidDownloadFeatures, MappedItems
<1>6. \A f : MapsTo(f, answer[f], On(f), known')
  BY <1>5 DEF MapsTo
<1>7. Types'
  <2>1. known' \in [Item -> State]
    BY <1>3, <1>4, <1>5, MappedType DEF ItemsInv
  <2>2. update' \in [Update -> Updates]
    BY DEF DidDownloadFeatures, Take, Idle, NoFeatures, State, ItemsInv, Types, Updates
  <2>3. QED BY <1>1, <1>2, <2>1, <2>2 DEF ItemsInv, Types
<1>8. QuietInv'
  BY <1>1, <1>2 DEF ItemsInv, QuietInv
<1>9. OneInv'
  <2>1. OneOf(known')
    BY <1>3, <1>4, <1>6, MappedOne DEF OneOf, ItemsInv
  <2>2. QED BY <1>2, <2>1 DEF OneInv, OneOf, ItemsInv
<1>10. EnabledInv'
  BY <1>1, <1>2 DEF ItemsInv, EnabledInv
<1>11. (\A f : On(f) <=> On(f)') /\ \A f : Existing(f)' = {i \in Item : i[1] = f /\ known'[i] # "none"}
  BY <1>2 DEF On, Existing
<1>12. FollowInv'
  <2>1. ASSUME NEW f \in Experimental PROVE On(f)' \/ Existing(f)' = {} \/ f \in foreign'
    <3>1. CASE On(f) \/ f \in foreign
      BY <3>1, <1>2, <1>11
    <3>2. CASE ~On(f) /\ f \notin foreign
      <4>1. \A i \in Item : i[1] = f => known[i] = "none"
        BY <1>1, <3>2 DEF ItemsInv, FollowInv, Existing
      <4>2. \A i \in Item : i[1] = f => known'[i] = "none"
        BY <1>5, <3>2, <4>1 DEF MappedItem, IsMapped
      <4>3. QED BY <1>11, <4>2
    <3>3. QED BY <3>1, <3>2
  <2>2. ASSUME NEW f \in Theme \cup Component PROVE Follows(f)'
    <3>1. SUFFICES ASSUME answer[f] # "none", On(f)
                   PROVE  IF f \in Theme /\ answer[f] = "expired" THEN States(f)' = {}
                          ELSE States(f)' = {answer[f]} \/ (f \in Deprecated /\ States(f)' = {})
      BY <1>2, <1>11 DEF Follows
    <3>2. On(f) = TRUE
      BY <3>1, <1>3
    <3>3. MapsTo(f, answer[f], TRUE, known')
      BY <3>2, <1>6
    <3>4. Reached(f, answer[f], known', Existing(f)')
      <4>1. Existing(f)' = {i \in Item : i[1] = f /\ known'[i] # "none"}
        BY <1>11
      <4>2. answer[f] \in State
        BY <1>3
      <4>3. QED BY <3>1, <3>3, <4>1, <4>2, MappedStates DEF ItemsInv
    <3>5. States(f)' = {known'[i] : i \in Existing(f)'}
      BY DEF States
    <3>6. QED BY <3>4, <3>5 DEF Reached
  <2>3. QED BY <2>1, <2>2 DEF FollowInv
<1>13. QED BY <1>7, <1>8, <1>9, <1>10, <1>12 DEF ItemsInv

LEMMA EnableInv ==
  ASSUME InOrder, ItemsInv, NEW f \in Experimental, EnableExperimentalFeature(f) PROVE ItemsInv'
<1>1. downloaded /\ enabled[f] = 0 /\ features[f] # "none" /\ features[f] \in State /\ f \in Feature
  BY FeaturesAssumption
     DEF FeaturesAssumption, InOrder, EnableExperimentalFeature, MayToggle, HasUsed, ItemsInv, Types, EnabledInv
<1>2. /\ UNCHANGED <<features, stored, database, downloaded, reports, update, retrieved>>
      /\ foreign' = foreign \ {f}
  BY DEF EnableExperimentalFeature, fetches
<1>3. enabled' = [enabled EXCEPT ![f] = @ + 1]
  BY DEF EnableExperimentalFeature
<1>4. known' = [i \in Item |-> IF i[1] = f THEN MappedItem(i, features[f], TRUE) ELSE known[i]]
  BY DEF EnableExperimentalFeature
<1>5. /\ \A i \in Item : i[1] # f => known'[i] = known[i]
      /\ MapsTo(f, features[f], TRUE, known')
  BY <1>4 DEF MapsTo
<1>6. (\A g : g # f => (On(g) <=> On(g)')) /\ On(f)'
  BY <1>1, <1>3 DEF On, ItemsInv, Types
<1>7. Types'
  <2>1. known' \in [Item -> State]
    BY <1>1, <1>4, MappedType DEF ItemsInv, Types
  <2>2. enabled' \in [Experimental -> Nat]
    BY <1>3 DEF ItemsInv, Types
  <2>3. QED BY <1>2, <2>1, <2>2 DEF ItemsInv, Types
<1>8. QuietInv'
  BY <1>1, <1>2 DEF ItemsInv, QuietInv
<1>9. OneInv'
  <2>1. \A i, j \in Item : i[1] = j[1] /\ known'[i] # "none" /\ known'[j] # "none" => i = j
    <3>1. SUFFICES ASSUME NEW i \in Item, NEW j \in Item, i[1] = j[1],
                          known'[i] # "none", known'[j] # "none"
                   PROVE  i = j
      OBVIOUS
    <3>2. CASE i[1] # f
      BY <1>5, <3>1, <3>2 DEF ItemsInv, OneInv, OneOf
    <3>3. CASE i[1] = f
      <4>1. f \in Theme \cup Component
        BY <3>3 DEF Item
      <4>2. j[1] = f /\ features[f] \in State /\ Types /\ OneInv
        BY <1>1, <3>1, <3>3 DEF ItemsInv
      <4>3. MapsTo(f, features[f], On(f)', known')
        <5>1. On(f)' = TRUE
          BY <1>6 DEF On
        <5>2. QED BY <1>5, <5>1
      <4>4. \A k, l \in Item : k[1] = f /\ l[1] = f /\ known'[k] # "none" /\ known'[l] # "none" => k = l
        BY <4>1, <4>2, <4>3, MappedOne
      <4>5. QED BY <3>1, <3>3, <4>2, <4>4
    <3>4. QED BY <3>2, <3>3
  <2>2. QED BY <1>2, <2>1 DEF OneInv, OneOf, ItemsInv
<1>10. EnabledInv'
  BY <1>1, <1>2, <1>3 DEF ItemsInv, EnabledInv, Types
<1>11. \A g : g # f => Existing(g)' = Existing(g) /\ States(g)' = States(g)
  BY <1>5 DEF Existing, States
<1>12. FollowInv'
  <2>1. ASSUME NEW g \in Experimental PROVE On(g)' \/ Existing(g)' = {} \/ g \in foreign'
    BY <1>1, <1>2, <1>6, <1>11 DEF ItemsInv, FollowInv
  <2>2. ASSUME retrieved, NEW g \in Theme \cup Component PROVE Follows(g)'
    <3>1. CASE g # f
      BY <1>2, <1>6, <1>11, <2>2, <3>1 DEF ItemsInv, FollowInv, Follows
    <3>2. CASE g = f
      <4>1. Existing(f)' = {i \in Item : i[1] = f /\ known'[i] # "none"}
        BY DEF Existing
      <4>2. Reached(f, features[f], known', Existing(f)')
        BY <1>1, <1>5, <2>2, <3>2, <4>1, MappedStates DEF ItemsInv
      <4>3. States(f)' = {known'[i] : i \in Existing(f)'}
        BY DEF States
      <4>4. QED BY <1>2, <3>2, <4>2, <4>3 DEF Follows, Reached
    <3>3. QED BY <3>1, <3>2
  <2>3. QED BY <1>2, <2>1, <2>2 DEF FollowInv
<1>13. QED BY <1>7, <1>8, <1>9, <1>10, <1>12 DEF ItemsInv

LEMMA DisableInv ==
  ASSUME InOrder, ItemsInv, NEW f \in Experimental, DisableExperimentalFeature(f) PROVE ItemsInv'
<1>1. downloaded /\ (enabled[f] = 0 \/ enabled[f] = 1)
  <2>1. downloaded
    BY DEF InOrder, DisableExperimentalFeature, MayToggle
  <2>2. enabled[f] \in Nat /\ enabled[f] <= 1
    BY DEF ItemsInv, Types, EnabledInv
  <2>3. QED BY <2>1, <2>2
<1>2. /\ UNCHANGED <<features, stored, database, downloaded, reports, update, retrieved>>
      /\ foreign' = foreign \ {f}
  BY DEF DisableExperimentalFeature, fetches
<1>3. enabled' = [enabled EXCEPT ![f] = 0]
  <2>1. enabled' = [enabled EXCEPT ![f] = IF @ = 0 THEN 0 ELSE @ - 1]
    BY DEF DisableExperimentalFeature
  <2>2. (IF enabled[f] = 0 THEN 0 ELSE enabled[f] - 1) = 0
    BY <1>1
  <2>3. QED BY <2>1, <2>2
<1>4. known' = [i \in Item |-> IF Existing(f) # {} /\ i = Found(f) THEN "none" ELSE known[i]]
  BY DEF DisableExperimentalFeature
<1>5. Existing(f) # {} => Found(f) \in Item /\ Found(f)[1] = f
  BY FoundExists DEF Existing
<1>6. \A i \in Item : /\ i[1] # f => known'[i] = known[i]
                      /\ known'[i] # "none" => known'[i] = known[i]
  BY <1>4, <1>5
<1>7. Existing(f)' = {}
  <2>1. SUFFICES ASSUME NEW i \in Item, i[1] = f, known'[i] # "none" PROVE FALSE
    BY DEF Existing
  <2>2. i \in Existing(f)
    BY <1>6, <2>1 DEF Existing
  <2>3. Found(f) \in Existing(f)
    BY <2>2, FoundExists
  <2>4. i = Found(f)
    BY <2>1, <2>2, <2>3 DEF Existing, ItemsInv, OneInv, OneOf
  <2>5. QED BY <1>4, <2>1, <2>2, <2>4
<1>8. (\A g : g # f => (On(g) <=> On(g)')) /\ ~On(f)'
  BY <1>3 DEF On, ItemsInv, Types
<1>9. Types'
  <2>1. known' \in [Item -> State]
    BY <1>4 DEF ItemsInv, Types, State
  <2>2. enabled' \in [Experimental -> Nat]
    BY <1>3 DEF ItemsInv, Types
  <2>3. QED BY <1>2, <2>1, <2>2 DEF ItemsInv, Types
<1>10. QuietInv'
  BY <1>1, <1>2 DEF ItemsInv, QuietInv
<1>11. OneInv'
  BY <1>2, <1>6 DEF ItemsInv, OneInv, OneOf
<1>12. EnabledInv'
  BY <1>1, <1>2, <1>3 DEF ItemsInv, EnabledInv, Types
<1>13. \A g : g # f => Existing(g)' = Existing(g) /\ States(g)' = States(g)
  BY <1>6 DEF Existing, States
<1>14. FollowInv'
  <2>1. ASSUME NEW g \in Experimental PROVE On(g)' \/ Existing(g)' = {} \/ g \in foreign'
    BY <1>1, <1>2, <1>7, <1>8, <1>13 DEF ItemsInv, FollowInv
  <2>2. ASSUME retrieved, NEW g \in Theme \cup Component PROVE Follows(g)'
    BY <1>2, <1>8, <1>13, <2>2 DEF ItemsInv, FollowInv, Follows
  <2>3. QED BY <1>2, <2>1, <2>2 DEF FollowInv
<1>15. QED BY <1>9, <1>10, <1>11, <1>12, <1>14 DEF ItemsInv

LEMMA FirstSyncInv ==
  ASSUME ItemsInv, DownloadFirstSync PROVE ItemsInv'
<1>1. \A i \in Item : known[i] = "none"
  BY DEF ItemsInv, QuietInv, DownloadFirstSync
<1>2. known' = database
  BY <1>1 DEF DownloadFirstSync, ItemsInv, Types
<1>3. /\ UNCHANGED <<features, stored, enabled, update, reports, database, foreign, retrieved>>
      /\ ~retrieved /\ downloaded'
  BY DEF DownloadFirstSync, service, fetches, ItemsInv, QuietInv
<1>4. Types' /\ QuietInv' /\ OneInv' /\ EnabledInv'
  BY <1>2, <1>3 DEF ItemsInv, Types, QuietInv, OneInv, OneOf, EnabledInv
<1>5. ASSUME NEW f \in Experimental PROVE On(f)' \/ Existing(f)' = {} \/ f \in foreign'
  <2>1. \A i \in Item : database[i] # "none" => On(i[1]) \/ i[1] \in foreign
    BY DEF ItemsInv, EnabledInv, DownloadFirstSync
  <2>2. On(f)' <=> On(f)
    BY <1>3 DEF On
  <2>3. QED BY <1>2, <1>3, <2>1, <2>2 DEF Existing
<1>6. FollowInv'
  BY <1>3, <1>5 DEF FollowInv
<1>7. QED BY <1>4, <1>6 DEF ItemsInv

LEMMA SyncInv ==
  ASSUME ItemsInv, Sync PROVE ItemsInv'
<1>1. downloaded /\ database' = known
  <2>1. CASE ~downloaded
    <3>1. database' = [i \in Item |-> database[i]]
      BY <2>1 DEF Sync, ItemsInv, QuietInv
    <3>2. QED BY <3>1 DEF Sync, ItemsInv, Types
  <2>2. CASE downloaded
    BY <2>2 DEF Sync, ItemsInv, Types
  <2>3. QED BY <2>1, <2>2
<1>2. UNCHANGED <<features, stored, enabled, update, reports, known, foreign, downloaded, retrieved>>
  BY DEF Sync, service, fetches
<1>3. Types' /\ QuietInv' /\ OneInv' /\ EnabledInv'
  BY <1>1, <1>2 DEF ItemsInv, Types, QuietInv, OneInv, OneOf, EnabledInv
<1>4. (\A f : On(f) <=> On(f)') /\ \A f : Existing(f)' = Existing(f) /\ States(f)' = States(f)
  BY <1>2 DEF On, Existing, States
<1>5. FollowInv'
  BY <1>2, <1>4 DEF ItemsInv, FollowInv, Follows
<1>6. QED BY <1>3, <1>5 DEF ItemsInv

LEMMA RestartInv ==
  ASSUME InOrder, ItemsInv, Restart PROVE ItemsInv'
<1>1. /\ features' = stored.features /\ ~retrieved' /\ ~downloaded' /\ reports' = {}
      /\ update' = [u \in Update |-> Idle] /\ known' = [i \in Item |-> "none"]
      /\ retrieved' \in BOOLEAN /\ downloaded' \in BOOLEAN
      /\ UNCHANGED <<enabled, stored, database, foreign>>
  BY DEF Restart
<1>2. Idle \in Updates
  BY DEF Idle, NoFeatures, State, Updates
<1>3. update' \in [Update -> Updates]
      /\ \A u \in Update : update'[u].at = "idle"
  BY <1>1, <1>2 DEF Idle
<1>4. known' \in [Item -> State]
  BY <1>1 DEF State
<1>5. Types' /\ QuietInv' /\ OneInv'
  BY <1>1, <1>3, <1>4 DEF ItemsInv, Types, QuietInv, OneInv, OneOf
<1>6. ASSUME NEW i \in Item, database[i] # "none" PROVE On(i[1]) \/ i[1] \in foreign
  <2>1. CASE ~downloaded
    BY <1>6, <2>1 DEF ItemsInv, EnabledInv
  <2>2. CASE downloaded /\ i[1] \in Experimental
    <3>1. known[i] # "none"
      BY <1>6, <2>2 DEF Restart, InOrder
    <3>2. QED BY <2>2, <3>1 DEF ItemsInv, FollowInv, Existing
  <2>3. CASE i[1] \notin Experimental
    BY <2>3 DEF On
  <2>4. QED BY <2>1, <2>2, <2>3
<1>7. \A f : On(f) <=> On(f)'
  BY <1>1 DEF On
<1>8. EnabledInv' /\ FollowInv'
  BY <1>1, <1>6, <1>7 DEF ItemsInv, EnabledInv, FollowInv
<1>9. QED BY <1>5, <1>8 DEF ItemsInv

LEMMA UpdateRecords ==
  ASSUME ItemsInv, NEW u \in Update,
         Answer(u) \/ DownloadFails(u) \/ DownloadOfflineFeatures(u)
  PROVE  update' \in [Update -> Updates]
<1>1. NoFeatures \in [Feature -> State] /\ \A p : Granted(p) \in [Feature -> State]
  BY DEF NoFeatures, Granted, State
<1>2. update \in [Update -> Updates] /\ update[u] \in Updates
  BY DEF ItemsInv, Types
<1>3. /\ Idle \in Updates /\ [Idle EXCEPT !.at = "asked", !.offline = TRUE] \in Updates
      /\ [update[u] EXCEPT !.at = "asked"] \in Updates
      /\ [update[u] EXCEPT !.at = "failed"] \in Updates
      /\ \A p : [update[u] EXCEPT !.at = "answered", !.answer = Granted(p)] \in Updates
  BY <1>1, <1>2 DEF Idle, Updates
<1>4. \E record \in Updates : update' = [update EXCEPT ![u] = record]
  <2>1. CASE GetUserFeatures(u)
    BY <1>3, <2>1 DEF GetUserFeatures
  <2>2. CASE ServerAnswers(u)
    <3>1. PICK p : update' = [update EXCEPT ![u].at = "answered", ![u].answer = Granted(p)]
      BY <2>2 DEF ServerAnswers
    <3>2. update' = [update EXCEPT ![u] = [update[u] EXCEPT !.at = "answered", !.answer = Granted(p)]]
      BY <1>2, <3>1
    <3>3. QED BY <1>3, <3>2
  <2>3. CASE DidDownloadFeatures(u) \/ DownloadFailed(u)
    BY <1>3, <2>3 DEF DidDownloadFeatures, DownloadFailed, Take
  <2>4. CASE DownloadFails(u)
    BY <1>3, <2>4 DEF DownloadFails
  <2>5. CASE DownloadOfflineFeatures(u)
    BY <1>3, <2>5 DEF DownloadOfflineFeatures
  <2>6. QED BY <2>1, <2>2, <2>3, <2>4, <2>5 DEF Answer
<1>5. QED BY <1>2, <1>4

LEMMA NextInv == ASSUME InOrder, ItemsInv, [Next]_vars PROVE ItemsInv'
<1>1. CASE ServerReports
  BY <1>1, SameInv DEF ServerReports, Same, service, fetches, items, ItemsInv, Types, QuietInv
<1>2. CASE FullSyncCompleted
  <2>1. CASE UNCHANGED fetches
    BY <1>2, <2>1, SameInv DEF FullSyncCompleted, Same, service, fetches, ItemsInv, Types, QuietInv
  <2>2. CASE \E u \in Update : DownloadOfflineFeatures(u)
    BY <1>2, <2>2, UpdateRecords, SameInv
       DEF FullSyncCompleted, Same, service, ItemsInv, Types, QuietInv
  <2>3. QED BY <1>2, <2>1, <2>2 DEF FullSyncCompleted
<1>3. CASE DownloadFirstSync
  BY <1>3, FirstSyncInv
<1>4. CASE Sync
  BY <1>4, SyncInv
<1>5. CASE Restart
  BY <1>5, RestartInv
<1>6. ASSUME NEW plan \in Plan, ChangePlan(plan) PROVE ItemsInv'
  BY <1>6, SameInv DEF InOrder, ChangePlan, Same, service, fetches, items, ItemsInv, Types, QuietInv
<1>7. ASSUME NEW report \in reports, ReceiveReport(report) PROVE ItemsInv'
  BY <1>7, ReportInv
<1>8. ASSUME NEW u \in Update, Answer(u) \/ DownloadFails(u) \/ SetOfflineFeaturesCode(u)
      PROVE  ItemsInv'
  <2>1. CASE DidDownloadFeatures(u)
    BY <2>1, DownloadedInv
  <2>2. CASE GetUserFeatures(u) \/ ServerAnswers(u) \/ DownloadFailed(u) \/ DownloadFails(u)
    <3>1. downloaded
      BY <2>2 DEF GetUserFeatures, ServerAnswers, DownloadFailed, DownloadFails, ItemsInv, QuietInv
    <3>2. Same /\ UNCHANGED <<stored, reports>>
      BY <2>2 DEF GetUserFeatures, ServerAnswers, DownloadFailed, DownloadFails, Same, service, items
    <3>3. QED BY <2>2, <3>1, <3>2, UpdateRecords, SameInv DEF Answer, ItemsInv, Types, QuietInv
  <2>3. CASE SetOfflineFeaturesCode(u)
    <3>1. downloaded /\ DownloadOfflineFeatures(u)
      BY <2>3 DEF InOrder, SetOfflineFeaturesCode
    <3>2. Same /\ UNCHANGED <<stored, reports>>
      BY <2>3 DEF SetOfflineFeaturesCode, Same, service
    <3>3. QED BY <3>1, <3>2, UpdateRecords, SameInv DEF ItemsInv, Types, QuietInv
  <2>4. QED BY <1>8, <2>1, <2>2, <2>3 DEF Answer
<1>9. CASE DeleteOfflineFeatureRepo
  <2>1. stored'.features = NoFeatures /\ NoFeatures \in [Feature -> State]
    BY <1>9 DEF DeleteOfflineFeatureRepo, NoFeatures, State, ItemsInv, Types
  <2>2. QED BY <1>9, <2>1, SameInv DEF DeleteOfflineFeatureRepo, Same, fetches, ItemsInv, Types, QuietInv
<1>10. ASSUME NEW f \in Experimental, EnableExperimentalFeature(f) \/ DisableExperimentalFeature(f)
       PROVE  ItemsInv'
  BY <1>10, EnableInv, DisableInv
<1>11. CASE UNCHANGED vars
  BY <1>11, SameInv DEF vars, Same, service, fetches, items, ItemsInv, Types, QuietInv
<1>12. QED BY <1>1, <1>2, <1>3, <1>4, <1>5, <1>6, <1>7, <1>8, <1>9, <1>10, <1>11 DEF Next

-----------------------------------------------------------------------------
(* A feature has one item, in memory and, before the first sync, in the     *)
(* database.                                                                *)
THEOREM FeaturesOneItemEach == InOrder => (Spec => []OneItemEach)
<1> SUFFICES ASSUME InOrder PROVE Spec => []OneItemEach
  OBVIOUS
<1>1. ItemsInv => OneItemEach
  <2>1. SUFFICES ASSUME ItemsInv, NEW i \in Item, NEW j \in Item, i[1] = j[1], i # j
                 PROVE  \A k \in {i, j} : known[k] # "none" \/ (~downloaded /\ database[k] # "none") =>
                          LET l == IF k = i THEN j ELSE i
                          IN  known[l] = "none" /\ (downloaded \/ database[l] = "none")
    BY DEF OneItemEach
  <2>2. (known[i] = "none" \/ known[j] = "none") /\ (database[i] = "none" \/ database[j] = "none")
    BY <2>1 DEF ItemsInv, OneInv, OneOf
  <2>3. ~downloaded => known[i] = "none" /\ known[j] = "none"
    BY <2>1 DEF ItemsInv, QuietInv
  <2>4. QED BY <2>1, <2>2, <2>3
<1>2. Init => ItemsInv
  BY InitInv
<1>3. ItemsInv /\ [Next]_vars => ItemsInv'
  BY NextInv
<1>4. QED BY <1>1, <1>2, <1>3, PTL DEF Spec

(* Once the features of a session are there the items agree with them, and  *)
(* an experimental feature that is not enabled has none, but for one that   *)
(* came from another device and was not switched on or off here since.      *)
THEOREM FeaturesItemsFollow == InOrder => (Spec => []ItemsFollowFeatures)
<1> SUFFICES ASSUME InOrder PROVE Spec => []ItemsFollowFeatures
  OBVIOUS
<1>1. ItemsInv => ItemsFollowFeatures
  BY DEF ItemsInv, FollowInv, Follows, ItemsFollowFeatures
<1>2. Init => ItemsInv
  BY InitInv
<1>3. ItemsInv /\ [Next]_vars => ItemsInv'
  BY NextInv
<1>4. QED BY <1>1, <1>2, <1>3, PTL DEF Spec
=============================================================================
