---------------------------- MODULE Items_proofs ----------------------------
(***************************************************************************)
(* Proofs about Singletons, for any number of devices, callers, items and  *)
(* lost requests, and about PayloadManager, for any number of items,       *)
(* observers, emits and throws.                                            *)
(***************************************************************************)
EXTENDS Singletons, PayloadManager, WellFoundedInduction, TLAPS

-----------------------------------------------------------------------------
(* SINGLETONS                                                              *)
(*                                                                         *)
(* An item is beaten when an earlier one was created.  Devices only delete *)
(* what is beaten, so the earliest of all is never deleted, and it is      *)
(* never dropped by whoever has it either.                                 *)

(* The types of what the proof speaks of.                                   *)
SingletonTypes ==
  /\ created \subseteq Singleton /\ discarded \subseteq Singleton
  /\ known \in [Device -> [Singleton -> {"none", "valid", "errored", "deleted"}]]
  /\ sync \in [Device -> Request]
  /\ server \in [Singleton -> {"none", "live", "deleted"}]
  /\ unseen \in [Device -> SUBSET Singleton]

(* What a device or the server has was created.                             *)
CreatedInv ==
  /\ \A d \in Device : \A i \in Singleton : known[d][i] # "none" => i \in created
  /\ \A d \in Device : sync[d].live \cup sync[d].deleted \cup sync[d].retrieved \subseteq created
  /\ \A i \in Singleton : server[i] # "none" => i \in created

(* There is an earlier one, for which i may be deleted.                     *)
Beaten(i) == \E j \in created : j < i

Ending(d) == sync[d].deleted \cup sync[d].dropped \cup sync[d].tombstones

(* What is deleted anywhere, or is going to be, is beaten.                  *)
BeatenInv ==
  /\ \A d \in Device : \A i \in Singleton : known[d][i] = "deleted" => Beaten(i)
  /\ \A d \in Device : \A i \in Ending(d) : Beaten(i)
  /\ \A i \in Singleton : server[i] = "deleted" => Beaten(i)

(* What is not beaten is somewhere.                                         *)
ThereInv ==
  \A i \in created : \/ Beaten(i) \/ server[i] = "live"
                     \/ \E d \in Device : known[d][i] # "none"

SingletonsInv == SingletonTypes /\ CreatedInv /\ (discarded = {} => BeatenInv /\ ThereInv)

-----------------------------------------------------------------------------
(* The one that is kept is the earliest.                                    *)
LEMMA SomeEarliest ==
  ASSUME NEW S \in SUBSET Nat, S # {}
  PROVE  \E i \in S : \A j \in S : i <= j
<1>1. PICK i \in S : \A j \in S : ~ (<<j, i>> \in OpToRel(<, Nat))
  BY NatLessThanWellFounded, WFMin, Zenon
<1>2. \A j \in S : ~ (<<j, i>> \in {ss \in Nat \X Nat : ss[1] < ss[2]})
  BY <1>1, Zenon DEF OpToRel
<1>3. ASSUME NEW j \in S PROVE i <= j
  <2>1. i \in Nat /\ j \in Nat /\ <<j, i>> \in Nat \X Nat
    OBVIOUS
  <2> QED
    BY <1>2, <2>1
<1> QED
  BY <1>3

LEMMA KeptIsEarliest ==
  ASSUME "sameTime" \notin SingletonsEnvironment, NEW d, NEW S \in SUBSET Singleton, S # {}
  PROVE  Kept(d, S) \in S /\ \A j \in S \ {Kept(d, S)} : Kept(d, S) < j
<1> DEFINE Earliest(i) == \A j \in S \ {i} : \/ CreatedAt(i) < CreatedAt(j)
                                             \/ CreatedAt(i) = CreatedAt(j) /\ IndexOn(d, i) < IndexOn(d, j)
<1>1. \A i : CreatedAt(i) = i
  BY DEF CreatedAt
<1>2. S \in SUBSET Nat
  BY DEF Singleton
<1>3. PICK i \in S : \A j \in S : i <= j
  BY <1>2, SomeEarliest
<1>4. \A j \in S \ {i} : i < j
  BY <1>2, <1>3
<1>5. Earliest(i)
  BY <1>1, <1>4
<1>6. Kept(d, S) = CHOOSE k \in S : Earliest(k)
  BY DEF Kept
<1>7. Kept(d, S) \in S /\ Earliest(Kept(d, S))
  <2> HIDE DEF Earliest
  <2> QED
    BY <1>5, <1>6
<1>8. ASSUME NEW j \in S \ {Kept(d, S)} PROVE Kept(d, S) < j
  <2>1. ~ (CreatedAt(Kept(d, S)) = CreatedAt(j))
    BY <1>1
  <2> QED
    BY <1>1, <1>7, <2>1
<1> QED
  BY <1>7, <1>8

-----------------------------------------------------------------------------
LEMMA SingletonsInvInit == SingletonsInit => SingletonsInv
<1> SUFFICES ASSUME SingletonsInit PROVE SingletonsInv
  OBVIOUS
<1>1. PICK own \in [Device -> Singleton \cup {0}] :
        /\ created = {own[d] : d \in Device} \ {0}
        /\ known = [d \in Device |-> [i \in Singleton |-> IF i = own[d] THEN "valid" ELSE "none"]]
  BY DEF SingletonsInit
<1>2. created \subseteq Singleton
  BY <1>1
<1>3. /\ discarded = {} /\ server = [i \in Singleton |-> "none"]
      /\ sync = [d \in Device |-> NoRequest] /\ unseen = [d \in Device |-> {}]
  BY DEF SingletonsInit
<1>4. NoRequest \in Request
  BY DEF NoRequest, Request
<1>5. SingletonTypes
  BY <1>1, <1>2, <1>3, <1>4 DEF SingletonTypes
<1>6. ASSUME NEW d \in Device, NEW i \in Singleton
      PROVE  known[d][i] = (IF i = own[d] THEN "valid" ELSE "none") /\ 0 \notin Singleton
  BY <1>1 DEF Singleton
<1>7. CreatedInv
  <2>1. \A d \in Device : \A i \in Singleton : known[d][i] # "none" => i \in created
    BY <1>1, <1>6
  <2> QED
    BY <1>3, <2>1 DEF CreatedInv, NoRequest
<1>8. BeatenInv
  BY <1>3, <1>6 DEF BeatenInv, Ending, NoRequest
<1>9. ThereInv
  BY <1>1, <1>2, <1>6 DEF ThereInv
<1> QED
  BY <1>5, <1>7, <1>8, <1>9 DEF SingletonsInv

-----------------------------------------------------------------------------
(* Every action keeps the invariant.                                        *)

LEMMA FindOrCreateKeeps ==
  ASSUME SingletonsInv, NEW d \in Device, NEW c \in Caller, FindOrCreate(d, c)
  PROVE  SingletonsInv'
BY DEF FindOrCreate, deviceVars, syncVars, serverVars, SingletonsInv, SingletonTypes, CreatedInv, BeatenInv, ThereInv,
       Beaten, Ending

LEMMA ResolveKeeps ==
  ASSUME "sameTime" \notin SingletonsEnvironment, SingletonsInv, NEW d \in Device, Resolve(d)
  PROVE  SingletonsInv'
<1> DEFINE extra == IF resolveQueue[d] # {} /\ Cardinality(Valid(d)) > 1
                    THEN Valid(d) \ {Kept(d, Valid(d))} ELSE {}
<1>1. known' = [known EXCEPT ![d] = [i \in Singleton |-> IF i \in extra THEN "deleted" ELSE known[d][i]]]
  BY DEF Resolve
<1>2. UNCHANGED <<created, discarded, sync, server, unseen>>
  BY DEF Resolve, syncVars, serverVars
<1>3. \A i \in extra : i \in Valid(d) /\ Beaten(i)
  <2> SUFFICES ASSUME NEW i \in extra PROVE i \in Valid(d) /\ Beaten(i)
    OBVIOUS
  <2>1. i \in Valid(d) \ {Kept(d, Valid(d))}
    OBVIOUS
  <2>2. Valid(d) \in SUBSET Singleton /\ Valid(d) # {}
    BY <2>1 DEF Valid, Having
  <2>3. Kept(d, Valid(d)) \in Valid(d) /\ Kept(d, Valid(d)) < i
    BY <2>1, <2>2, KeptIsEarliest
  <2>4. Valid(d) \subseteq created
    BY DEF SingletonsInv, CreatedInv, Valid, Having
  <2> QED
    BY <2>1, <2>3, <2>4 DEF Beaten
<1> HIDE DEF extra
<1>4. ASSUME NEW e \in Device, NEW i \in Singleton
      PROVE  known'[e][i] = IF e = d /\ i \in extra THEN "deleted" ELSE known[e][i]
  BY <1>1 DEF SingletonsInv, SingletonTypes
<1>5. ASSUME NEW i \in extra PROVE i \in Singleton /\ known[d][i] = "valid"
  BY <1>3 DEF Valid, Having
<1>6. SingletonTypes'
  BY <1>1, <1>2 DEF SingletonsInv, SingletonTypes
<1>7. CreatedInv'
  BY <1>2, <1>4, <1>5 DEF SingletonsInv, CreatedInv
<1>8. ASSUME discarded = {} PROVE BeatenInv' /\ ThereInv'
  <2>1. BeatenInv'
    BY <1>2, <1>3, <1>4, <1>8 DEF SingletonsInv, BeatenInv, Ending, Beaten
  <2>2. ThereInv'
    BY <1>2, <1>4, <1>6, <1>8 DEF SingletonsInv, SingletonTypes, ThereInv, Beaten
  <2> QED
    BY <2>1, <2>2
<1> QED
  BY <1>2, <1>6, <1>7, <1>8 DEF SingletonsInv

LEMMA LookAgainKeeps ==
  ASSUME SingletonsInv, NEW d \in Device, NEW c \in Caller, LookAgain(d, c)
  PROVE  SingletonsInv'
<1>1. UNCHANGED <<created, sync, server, unseen>>
  BY DEF LookAgain, syncVars, serverVars
<1>2. CASE Valid(d) # {}
  <2>1. UNCHANGED <<known, discarded>>
    BY <1>2 DEF LookAgain
  <2> QED
    BY <1>1, <2>1 DEF SingletonsInv, SingletonTypes, CreatedInv, BeatenInv, ThereInv, Beaten, Ending
<1>3. CASE Valid(d) = {}
  <2>1. /\ known' = [known EXCEPT ![d] = [i \in Singleton |-> IF known[d][i] = "errored" THEN "deleted"
                                                                                       ELSE known[d][i]]]
        /\ discarded' = discarded \cup Having(d, "errored")
    BY <1>3 DEF LookAgain
  <2>2. ASSUME NEW e \in Device, NEW i \in Singleton
        PROVE  known'[e][i] = IF e = d /\ known[d][i] = "errored" THEN "deleted" ELSE known[e][i]
    BY <2>1 DEF SingletonsInv, SingletonTypes
  <2>3. SingletonTypes'
    BY <1>1, <2>1 DEF SingletonsInv, SingletonTypes, Having
  <2>4. CreatedInv'
    BY <1>1, <2>2 DEF SingletonsInv, CreatedInv
  <2>5. ASSUME discarded' = {} PROVE discarded = {} /\ BeatenInv' /\ ThereInv'
    <3>1. discarded = {} /\ Having(d, "errored") = {}
      BY <2>1, <2>5
    <3>2. \A i \in Singleton : known[d][i] # "errored"
      BY <3>1 DEF Having
    <3>3. ASSUME NEW e \in Device, NEW i \in Singleton PROVE known'[e][i] = known[e][i]
      BY <2>2, <3>2
    <3>4. BeatenInv'
      BY <1>1, <3>1, <3>3 DEF SingletonsInv, BeatenInv, Ending, Beaten
    <3>5. ThereInv'
      BY <1>1, <3>1, <3>3 DEF SingletonsInv, SingletonTypes, ThereInv, Beaten
    <3> QED
      BY <3>1, <3>4, <3>5
  <2> QED
    BY <2>3, <2>4, <2>5 DEF SingletonsInv
<1> QED
  BY <1>2, <1>3

LEMMA CreateKeeps ==
  ASSUME SingletonsInv, NEW d \in Device, NEW c \in Caller, Create(d, c)
  PROVE  SingletonsInv'
<1>1. PICK n \in Singleton \ created : AddItem(d, n)
  BY DEF Create
<1>2. UNCHANGED <<discarded, sync, server, unseen>>
  BY DEF Create, syncVars, serverVars
<1>3. created' = created \cup {n} /\ known' = [known EXCEPT ![d][n] = "valid"]
  BY <1>1 DEF AddItem
<1>4. ASSUME NEW e \in Device, NEW i \in Singleton
      PROVE  known'[e][i] = IF e = d /\ i = n THEN "valid" ELSE known[e][i]
  BY <1>3 DEF SingletonsInv, SingletonTypes
<1>5. SingletonTypes'
  BY <1>2, <1>3 DEF SingletonsInv, SingletonTypes
<1>6. CreatedInv'
  BY <1>2, <1>3, <1>4 DEF SingletonsInv, CreatedInv
<1>7. \A i : Beaten(i) => Beaten(i)'
  BY <1>3 DEF Beaten
<1>8. ASSUME discarded = {} PROVE BeatenInv' /\ ThereInv'
  <2>1. BeatenInv'
    BY <1>2, <1>4, <1>7, <1>8 DEF SingletonsInv, BeatenInv, Ending
  <2>2. ThereInv'
    BY <1>2, <1>3, <1>4, <1>7, <1>8 DEF SingletonsInv, SingletonTypes, ThereInv
  <2> QED
    BY <2>1, <2>2
<1> QED
  BY <1>2, <1>5, <1>6, <1>8 DEF SingletonsInv

LEMMA StartSyncKeeps ==
  ASSUME SingletonsInv, NEW d \in Device, StartSync(d)
  PROVE  SingletonsInv'
<1>1. UNCHANGED <<created, known, discarded, server, unseen>>
  BY DEF StartSync, deviceVars, serverVars
<1>2. PICK r \in Request : /\ sync' = [sync EXCEPT ![d] = r]
                           /\ r.live \subseteq Valid(d) /\ r.retrieved = {}
                           /\ r.deleted \cup r.dropped \cup r.tombstones \subseteq Having(d, "deleted")
  <2>1. /\ NoRequest \in Request
        /\ NoRequest.live = {} /\ NoRequest.deleted = {} /\ NoRequest.dropped = {}
        /\ NoRequest.retrieved = {} /\ NoRequest.tombstones = {}
    BY DEF NoRequest, Request
  <2>2. Valid(d) \subseteq Singleton /\ Having(d, "deleted") \subseteq Singleton
    BY DEF Valid, Having
  <2>3. CASE downloadFirst[d]
    <3> DEFINE r == [NoRequest EXCEPT !.at = "sent", !.first = TRUE]
    <3>1. sync' = [sync EXCEPT ![d] = r]
      BY <2>3 DEF StartSync
    <3>2. r \in Request /\ r.live = {} /\ r.retrieved = {} /\ r.deleted = {} /\ r.dropped = {}
          /\ r.tombstones = {}
      BY <2>1 DEF Request
    <3> QED
      BY <3>1, <3>2
  <2>4. CASE ~downloadFirst[d]
    <3> DEFINE live == dirty[d] \cap Valid(d)
               deleted == Having(d, "deleted") \cap confirmed[d]
               dropped == NeverSyncedDeleted(d)
               r == [NoRequest EXCEPT !.at = "sent", !.live = live, !.deleted = deleted,
                                      !.dropped = dropped]
    <3>1. sync' = [sync EXCEPT ![d] = r]
      BY <2>4 DEF StartSync
    <3>2. live \subseteq Valid(d) /\ deleted \subseteq Having(d, "deleted")
          /\ dropped \subseteq Having(d, "deleted")
      BY DEF NeverSyncedDeleted
    <3> HIDE DEF live, deleted, dropped
    <3>3. r \in Request
      BY <2>1, <2>2, <3>2 DEF Request
    <3>4. r.live = live /\ r.deleted = deleted /\ r.dropped = dropped
          /\ r.retrieved = {} /\ r.tombstones = {}
      BY <2>1 DEF Request
    <3>5. /\ r.live \subseteq Valid(d) /\ r.retrieved = {}
          /\ r.deleted \cup r.dropped \cup r.tombstones \subseteq Having(d, "deleted")
      BY <3>2, <3>4
    <3> QED
      BY <3>1, <3>3, <3>5
  <2> QED
    BY <2>3, <2>4
<1>3. \A e \in Device : sync'[e] = IF e = d THEN r ELSE sync[e]
  BY <1>2 DEF SingletonsInv, SingletonTypes
<1>4. SingletonTypes'
  BY <1>1, <1>2 DEF SingletonsInv, SingletonTypes
<1>5. CreatedInv'
  BY <1>1, <1>2, <1>3 DEF SingletonsInv, CreatedInv, Valid, Having
<1>6. ASSUME discarded = {} PROVE BeatenInv' /\ ThereInv'
  <2>1. ASSUME NEW i \in Having(d, "deleted") PROVE Beaten(i)
    BY <1>6, <2>1 DEF SingletonsInv, BeatenInv, Having
  <2>2. BeatenInv'
    BY <1>1, <1>2, <1>3, <1>6, <2>1 DEF SingletonsInv, BeatenInv, Ending, Beaten
  <2>3. ThereInv'
    BY <1>1, <1>6 DEF SingletonsInv, ThereInv, Beaten
  <2> QED
    BY <2>2, <2>3
<1> QED
  BY <1>1, <1>4, <1>5, <1>6 DEF SingletonsInv

LEMMA AnswerKeeps ==
  ASSUME SingletonsInv, NEW d \in Device, Answer(d)
  PROVE  SingletonsInv'
<1> DEFINE saved == (sync[d].live \cup sync[d].deleted) \ unseen[d]
           retrieved == {i \in unseen[d] : server[i] = "live"}
           tombstones == {i \in unseen[d] : server[i] = "deleted"}
<1>1. UNCHANGED <<created, known, discarded>>
  BY DEF Answer, deviceVars
<1>2. /\ server' = [i \in Singleton |-> IF i \notin saved THEN server[i]
                                        ELSE IF i \in sync[d].live THEN "live" ELSE "deleted"]
      /\ unseen' = [e \in Device |-> IF e = d THEN {} ELSE unseen[e] \cup saved]
      /\ sync' = [sync EXCEPT ![d].at = "answered", ![d].retrieved = retrieved, ![d].tombstones = tombstones]
  BY DEF Answer
<1>3. SingletonTypes /\ sync[d] \in Request /\ unseen[d] \subseteq Singleton
  BY DEF SingletonsInv, SingletonTypes
<1>4. sync[d].live \subseteq Singleton /\ sync[d].deleted \subseteq Singleton
  BY <1>3 DEF Request
<1>5. saved \subseteq sync[d].live \cup sync[d].deleted /\ saved \subseteq Singleton
  BY <1>4
<1>6. retrieved \subseteq Singleton /\ tombstones \subseteq Singleton
  BY <1>3
<1>7. \A i \in retrieved : server[i] = "live"
  OBVIOUS
<1>8. \A i \in tombstones : server[i] = "deleted"
  OBVIOUS
<1> HIDE DEF saved, retrieved, tombstones
<1>9. sync' = [sync EXCEPT ![d] = [sync[d] EXCEPT !.at = "answered", !.retrieved = retrieved,
                                                  !.tombstones = tombstones]]
  BY <1>2, <1>3 DEF SingletonTypes
<1>10. sync'[d] \in Request /\ sync' \in [Device -> Request]
  <2>1. [sync[d] EXCEPT !.at = "answered", !.retrieved = retrieved, !.tombstones = tombstones] \in Request
    BY <1>3, <1>6 DEF Request
  <2> QED
    BY <1>3, <1>9, <2>1 DEF SingletonTypes
<1>11. /\ sync'[d].live = sync[d].live /\ sync'[d].deleted = sync[d].deleted
       /\ sync'[d].dropped = sync[d].dropped
       /\ sync'[d].retrieved = retrieved /\ sync'[d].tombstones = tombstones
  BY <1>3, <1>9 DEF SingletonTypes, Request
<1>12. \A e \in Device : e # d => sync'[e] = sync[e]
  BY <1>3, <1>9 DEF SingletonTypes
<1>13. ASSUME NEW i \in Singleton
       PROVE  server'[i] = IF i \notin saved THEN server[i]
                           ELSE IF i \in sync[d].live THEN "live" ELSE "deleted"
  BY <1>2
<1>14. SingletonTypes'
  <2>1. server' \in [Singleton -> {"none", "live", "deleted"}]
    BY <1>2, <1>3 DEF SingletonTypes
  <2>2. unseen' \in [Device -> SUBSET Singleton]
    BY <1>2, <1>3, <1>5 DEF SingletonTypes
  <2> QED
    BY <1>1, <1>3, <1>10, <2>1, <2>2 DEF SingletonTypes
<1>15. CreatedInv'
  <2>1. ASSUME NEW i \in Singleton, server'[i] # "none" PROVE i \in created'
    BY <1>1, <1>5, <1>13, <2>1 DEF SingletonsInv, CreatedInv
  <2>2. retrieved \subseteq created
    BY <1>6, <1>7 DEF SingletonsInv, CreatedInv
  <2>3. ASSUME NEW e \in Device
        PROVE  sync'[e].live \cup sync'[e].deleted \cup sync'[e].retrieved \subseteq created
    <3>1. CASE e = d
      BY <1>11, <2>2, <3>1 DEF SingletonsInv, CreatedInv
    <3>2. CASE e # d
      BY <1>12, <3>2 DEF SingletonsInv, CreatedInv
    <3> QED
      BY <3>1, <3>2
  <2> QED
    BY <1>1, <2>1, <2>3 DEF SingletonsInv, CreatedInv
<1>16. ASSUME discarded = {} PROVE BeatenInv' /\ ThereInv'
  <2>1. BeatenInv /\ ThereInv /\ (\A i : Beaten(i)' <=> Beaten(i))
    BY <1>1, <1>16 DEF SingletonsInv, Beaten
  <2>2. \A i \in sync[d].deleted \cup sync[d].dropped : Beaten(i)
    BY <2>1 DEF BeatenInv, Ending
  <2>3. \A i \in tombstones : Beaten(i)
    BY <1>6, <1>8, <2>1 DEF BeatenInv
  <2>4. ASSUME NEW i \in Singleton, server'[i] = "deleted" PROVE Beaten(i)
    BY <1>5, <1>13, <2>1, <2>2, <2>4 DEF BeatenInv
  <2>5. ASSUME NEW e \in Device, NEW i \in Ending(e)' PROVE Beaten(i)
    <3>1. CASE e = d
      BY <1>11, <2>2, <2>3, <3>1 DEF Ending
    <3>2. CASE e # d
      BY <1>12, <2>1, <3>2 DEF Ending, BeatenInv
    <3> QED
      BY <3>1, <3>2
  <2>6. BeatenInv'
    BY <1>1, <2>1, <2>4, <2>5 DEF BeatenInv
  <2>7. ASSUME NEW i \in created, ~Beaten(i), server[i] = "live" PROVE server'[i] = "live"
    BY <1>3, <1>5, <1>13, <2>2, <2>7 DEF SingletonTypes
  <2>8. ThereInv'
    BY <1>1, <2>1, <2>7 DEF ThereInv
  <2> QED
    BY <2>6, <2>8
<1> QED
  BY <1>1, <1>14, <1>15, <1>16 DEF SingletonsInv

LEMMA FinishSyncKeeps ==
  ASSUME SingletonsInv, NEW d \in Device, FinishSync(d)
  PROVE  SingletonsInv'
<1>1. UNCHANGED <<created, discarded, server, unseen>>
  BY DEF FinishSync, serverVars
<1>2. SingletonTypes /\ sync[d] \in Request
  BY DEF SingletonsInv, SingletonTypes
<1>3. sync' = [sync EXCEPT ![d] = NoRequest]
  BY DEF FinishSync
<1>4. PICK errored \in SUBSET {i \in sync[d].retrieved : known[d][i] = "none"} :
        known' = [known EXCEPT ![d] = Arrived(d, errored)]
  BY DEF FinishSync
<1>5. ASSUME NEW i \in Singleton
      PROVE  /\ Arrived(d, errored)[i] \in {"none", "valid", "errored", "deleted"}
             /\ Arrived(d, errored)[i] = "none" => i \in Ending(d) \/ known[d][i] = "none"
             /\ Arrived(d, errored)[i] = "deleted" => known[d][i] = "deleted"
             /\ Arrived(d, errored)[i] # "none" => i \in sync[d].retrieved \/ known[d][i] # "none"
  BY <1>2, <1>4 DEF Arrived, Ending, SingletonTypes
<1>6. Arrived(d, errored) \in [Singleton -> {"none", "valid", "errored", "deleted"}]
  <2>1. Arrived(d, errored) = [i \in Singleton |-> Arrived(d, errored)[i]]
    BY DEF Arrived
  <2> QED
    BY <1>5, <2>1
<1>7. known'[d] = Arrived(d, errored) /\ (\A e \in Device : e # d => known'[e] = known[e])
  BY <1>2, <1>4 DEF SingletonTypes
<1>8. sync'[d] = NoRequest /\ (\A e \in Device : e # d => sync'[e] = sync[e])
  BY <1>2, <1>3 DEF SingletonTypes
<1>9. NoRequest \in Request
  BY DEF NoRequest, Request
<1>10. SingletonTypes'
  BY <1>1, <1>2, <1>3, <1>4, <1>6, <1>9 DEF SingletonTypes
<1>11. CreatedInv'
  <2>1. ASSUME NEW e \in Device, NEW i \in Singleton, known'[e][i] # "none" PROVE i \in created
    BY <1>5, <1>7, <2>1 DEF SingletonsInv, CreatedInv
  <2>2. ASSUME NEW e \in Device
        PROVE  sync'[e].live \cup sync'[e].deleted \cup sync'[e].retrieved \subseteq created
    BY <1>8 DEF SingletonsInv, CreatedInv, NoRequest
  <2> QED
    BY <1>1, <2>1, <2>2 DEF SingletonsInv, CreatedInv
<1>12. ASSUME discarded = {} PROVE BeatenInv' /\ ThereInv'
  <2>1. BeatenInv /\ ThereInv /\ (\A i : Beaten(i)' <=> Beaten(i))
    BY <1>1, <1>12 DEF SingletonsInv, Beaten
  <2>2. ASSUME NEW e \in Device, NEW i \in Singleton, known'[e][i] = "deleted" PROVE Beaten(i)
    BY <1>5, <1>7, <2>1, <2>2 DEF BeatenInv
  <2>3. ASSUME NEW e \in Device, NEW i \in Ending(e)' PROVE Beaten(i)
    BY <1>8, <2>1, <2>3 DEF Ending, NoRequest, BeatenInv
  <2>4. BeatenInv'
    BY <1>1, <2>1, <2>2, <2>3 DEF BeatenInv
  <2>5. ASSUME NEW e \in Device, NEW i \in Singleton, ~Beaten(i), known[e][i] # "none"
        PROVE  known'[e][i] # "none"
    BY <1>5, <1>7, <2>1, <2>5 DEF BeatenInv
  <2>6. created \subseteq Singleton
    BY <1>2 DEF SingletonTypes
  <2>7. ThereInv'
    BY <1>1, <2>1, <2>5, <2>6 DEF ThereInv
  <2> QED
    BY <2>4, <2>7
<1> QED
  BY <1>1, <1>10, <1>11, <1>12 DEF SingletonsInv

LEMMA FailSyncKeeps ==
  ASSUME SingletonsInv, NEW d \in Device, FailSync(d)
  PROVE  SingletonsInv'
<1>1. UNCHANGED <<created, known, discarded, server>>
  BY DEF FailSync, deviceVars
<1>2. SingletonTypes /\ sync[d] \in Request
  BY DEF SingletonsInv, SingletonTypes
<1>3. sync' = [sync EXCEPT ![d] = NoRequest]
  BY DEF FailSync
<1>4. sync'[d] = NoRequest /\ (\A e \in Device : e # d => sync'[e] = sync[e])
  BY <1>2, <1>3 DEF SingletonTypes
<1>5. unseen' \in [Device -> SUBSET Singleton]
  <2>1. sync[d].live \cup sync[d].deleted \cup sync[d].retrieved \cup sync[d].tombstones \subseteq Singleton
    BY <1>2 DEF Request
  <2> DEFINE more == sync[d].live \cup sync[d].deleted \cup sync[d].retrieved \cup sync[d].tombstones
             all == IF sync[d].at = "sent" THEN unseen[d] ELSE unseen[d] \cup more
  <2>2. unseen' = [unseen EXCEPT ![d] = IF sync[d].at = "sent" THEN unseen[d]
                     ELSE unseen[d] \cup sync[d].live \cup sync[d].deleted \cup sync[d].retrieved
                          \cup sync[d].tombstones]
    BY DEF FailSync
  <2>3. all = IF sync[d].at = "sent" THEN unseen[d]
              ELSE unseen[d] \cup sync[d].live \cup sync[d].deleted \cup sync[d].retrieved
                   \cup sync[d].tombstones
    OBVIOUS
  <2>4. unseen' = [unseen EXCEPT ![d] = all]
    <3> HIDE DEF all
    <3> QED
      BY <2>2, <2>3
  <2>5. all \subseteq Singleton
    BY <1>2, <2>1 DEF SingletonTypes
  <2> QED
    BY <1>2, <2>4, <2>5 DEF SingletonTypes
<1>6. NoRequest \in Request
  BY DEF NoRequest, Request
<1>7. SingletonTypes'
  BY <1>1, <1>2, <1>3, <1>5, <1>6 DEF SingletonTypes
<1>8. CreatedInv'
  <2>1. ASSUME NEW e \in Device
        PROVE  sync'[e].live \cup sync'[e].deleted \cup sync'[e].retrieved \subseteq created
    BY <1>4 DEF SingletonsInv, CreatedInv, NoRequest
  <2> QED
    BY <1>1, <2>1 DEF SingletonsInv, CreatedInv
<1>9. ASSUME discarded = {} PROVE BeatenInv' /\ ThereInv'
  <2>1. BeatenInv /\ ThereInv /\ (\A i : Beaten(i)' <=> Beaten(i))
    BY <1>1, <1>9 DEF SingletonsInv, Beaten
  <2>2. ASSUME NEW e \in Device, NEW i \in Ending(e)' PROVE Beaten(i)
    BY <1>4, <2>1, <2>2 DEF Ending, NoRequest, BeatenInv
  <2> QED
    BY <1>1, <2>1, <2>2 DEF BeatenInv, ThereInv
<1> QED
  BY <1>1, <1>7, <1>8, <1>9 DEF SingletonsInv

LEMMA DecryptErroredKeeps ==
  ASSUME SingletonsInv, NEW d \in Device, DecryptErrored(d)
  PROVE  SingletonsInv'
<1>1. UNCHANGED <<created, discarded, sync, server, unseen>>
  BY DEF DecryptErrored, syncVars, serverVars
<1>2. known' = [known EXCEPT ![d] = [i \in Singleton |-> IF known[d][i] = "errored" THEN "valid" ELSE known[d][i]]]
  BY DEF DecryptErrored
<1>3. ASSUME NEW e \in Device, NEW i \in Singleton
      PROVE  known'[e][i] = IF e = d /\ known[d][i] = "errored" THEN "valid" ELSE known[e][i]
  BY <1>2 DEF SingletonsInv, SingletonTypes
<1>4. SingletonTypes'
  BY <1>1, <1>2 DEF SingletonsInv, SingletonTypes
<1>5. CreatedInv'
  BY <1>1, <1>3 DEF SingletonsInv, CreatedInv
<1>6. ASSUME discarded = {} PROVE BeatenInv' /\ ThereInv'
  <2>1. BeatenInv'
    BY <1>1, <1>3, <1>6 DEF SingletonsInv, BeatenInv, Ending, Beaten
  <2>2. ThereInv'
    BY <1>1, <1>3, <1>6 DEF SingletonsInv, SingletonTypes, ThereInv, Beaten
  <2> QED
    BY <2>1, <2>2
<1> QED
  BY <1>1, <1>4, <1>5, <1>6 DEF SingletonsInv

LEMMA SingletonsInvNext ==
  ASSUME "sameTime" \notin SingletonsEnvironment, SingletonsInv, [SingletonsNext]_singletonsVars
  PROVE  SingletonsInv'
<1>1. CASE UNCHANGED singletonsVars
  BY <1>1 DEF singletonsVars, deviceVars, syncVars, serverVars, SingletonsInv, SingletonTypes, CreatedInv,
              BeatenInv, ThereInv, Beaten, Ending
<1>2. ASSUME NEW d \in Device, Local(d) PROVE SingletonsInv'
  <2>1. CASE Resolve(d)
    BY <2>1, ResolveKeeps
  <2>2. CASE DecryptErrored(d)
    BY <2>2, DecryptErroredKeeps
  <2>3. ASSUME NEW c \in Caller, LookAgain(d, c) PROVE SingletonsInv'
    BY <2>3, LookAgainKeeps
  <2>4. ASSUME NEW c \in Caller, Create(d, c) PROVE SingletonsInv'
    BY <2>4, CreateKeeps
  <2> QED
    BY <1>2, <2>1, <2>2, <2>3, <2>4 DEF Local
<1>3. ASSUME NEW d \in Device, Syncing(d) PROVE SingletonsInv'
  <2>1. CASE StartSync(d)
    BY <2>1, StartSyncKeeps
  <2>2. CASE Answer(d)
    BY <2>2, AnswerKeeps
  <2>3. CASE FinishSync(d)
    BY <2>3, FinishSyncKeeps
  <2> QED
    BY <1>3, <2>1, <2>2, <2>3 DEF Syncing
<1>4. ASSUME NEW d \in Device, FailSync(d) PROVE SingletonsInv'
  BY <1>4, FailSyncKeeps
<1>5. ASSUME NEW d \in Device, NEW c \in Caller, FindOrCreate(d, c) PROVE SingletonsInv'
  BY <1>5, FindOrCreateKeeps
<1> QED
  BY <1>1, <1>2, <1>3, <1>4, <1>5 DEF SingletonsNext

(* The earliest of the singletons survives.                                 *)
LEMMA EarliestSurvives ==
  ASSUME SingletonsInv PROVE SomeSingletonSurvives
<1> SUFFICES ASSUME created # {}, discarded = {} PROVE SomeSingletonSurvives
  BY DEF SomeSingletonSurvives
<1>1. SingletonTypes /\ BeatenInv /\ ThereInv
  BY DEF SingletonsInv
<1>2. created \in SUBSET Singleton /\ created \in SUBSET Nat
  BY <1>1 DEF SingletonTypes, Singleton
<1>3. PICK i \in created : \A j \in created : i <= j
  BY <1>2, SomeEarliest
<1>4. ~Beaten(i)
  BY <1>2, <1>3 DEF Beaten
<1>5. server[i] # "deleted" /\ (\A d \in Device : known[d][i] # "deleted")
  BY <1>1, <1>2, <1>4 DEF BeatenInv
<1>6. server[i] = "live" \/ (\E d \in Device : known[d][i] # "none")
  BY <1>1, <1>4 DEF ThereInv
<1> QED
  BY <1>5, <1>6 DEF SomeSingletonSurvives

(* As long as no device deletes what it could not decrypt, and no two       *)
(* singletons are created at the same time, one that nobody has deleted     *)
(* survives, with whatever devices, callers, items and lost requests.       *)
THEOREM SingletonsSomeSingletonSurvives ==
  ASSUME "sameTime" \notin SingletonsEnvironment
  PROVE  SingletonsSpec => []SomeSingletonSurvives
<1>1. SingletonsInit => SingletonsInv
  BY SingletonsInvInit
<1>2. SingletonsInv /\ [SingletonsNext]_singletonsVars => SingletonsInv'
  BY SingletonsInvNext
<1>3. SingletonsInv => SomeSingletonSurvives
  BY EarliestSurvives
<1> QED
  BY <1>1, <1>2, <1>3, PTL DEF SingletonsSpec

-----------------------------------------------------------------------------
(* THE PAYLOAD MANAGER                                                     *)

USE PayloadManagerAssumption DEF EmitId, Observer

-----------------------------------------------------------------------------
(* Types.  An element is only handled while there is one, which is part of *)
(* the invariant.                                                          *)

BusyInv == (step = "idle") <=> (emitQueue = <<>>)

LEMMA NoPayloadIsNone == NoPayload \notin Payload
BY DEF NoPayload, Payload

LEMMA InitType == ASSUME Init PROVE TypeOK /\ BusyInv
BY DEF Init, TypeOK, BusyInv, Deletion, NoPayload, Payload

LEMMA EmitType ==
  ASSUME TypeOK, NEW x \in Item, NEW payload \in Payload, NEW discardable \in BOOLEAN,
         EmitPayload(x, payload, discardable)
  PROVE  /\ emitted' \in 0 .. MaxEmits
         /\ emitQueue' \in Seq(Element) /\ emitQueue' # <<>>
         /\ step' \in {"apply", step}
         /\ BusyInv => BusyInv'
         /\ Change \in EmitId
<1>1. emitted \in Nat /\ emitted + 1 \in EmitId
  BY DEF TypeOK, EmitPayload
<1>2. [id |-> emitted + 1, item |-> x, payload |-> payload, discardable |-> discardable] \in Element
  BY <1>1 DEF Element
<1>3. emitQueue \in Seq(Element)
  BY DEF TypeOK
<1>4. emitQueue' \in Seq(Element) /\ emitQueue' # <<>>
  BY <1>2, <1>3 DEF EmitPayload
<1> QED BY <1>1, <1>3, <1>4 DEF EmitPayload, Change, BusyInv

LEMMA PayloadUpdate ==
  ASSUME NEW p \in Payload, NEW e \in EmitId, NEW refs \in SUBSET Item
  PROVE  /\ [edits |-> {e}, refs |-> {}, deleted |-> FALSE] \in Payload
         /\ [p EXCEPT !.edits = @ \cup {e}] \in Payload
         /\ [p EXCEPT !.edits = @ \cup {e}, !.refs = refs] \in Payload
         /\ [p EXCEPT !.edits = @ \cup {e}, !.refs = refs, !.deleted = TRUE] \in Payload
         /\ p.refs \in SUBSET Item
BY DEF Payload

LEMMA EmptyPayload ==
  ASSUME NEW e \in EmitId PROVE [edits |-> {e}, refs |-> {}, deleted |-> FALSE] \in Payload
BY DEF Payload

LEMMA LateType ==
  ASSUME NEW dels \in [Item -> Deletion], NEW x \in Item, NEW y \in Item, NEW exists
  PROVE  [dels EXCEPT ![y].late = IF exists THEN @ ELSE @ \cup {x}] \in [Item -> Deletion]
<1> DEFINE late == IF exists THEN dels[y].late ELSE dels[y].late \cup {x}
<1>1. dels[y] \in Deletion /\ late \in SUBSET Item
  BY DEF Deletion
<1> HIDE DEF late
<1>2. [dels[y] EXCEPT !.late = late] \in Deletion
  BY <1>1 DEF Deletion
<1>3. [dels EXCEPT ![y] = [dels[y] EXCEPT !.late = late]] \in [Item -> Deletion]
  BY <1>2
<1> QED BY <1>3 DEF late

(* An emit that is within the bound has a number.                          *)
LEMMA ChangeType ==
  ASSUME TypeOK, NEW x, NEW payload, NEW discardable, EmitPayload(x, payload, discardable)
  PROVE  Change \in EmitId
BY DEF TypeOK, EmitPayload, Change

(* The changes of the callers, and of observers.                           *)
LEMMA LocalChangeType ==
  ASSUME TypeOK, NEW x \in Item, LocalChange(x) \/ DiscardItem(x)
  PROVE  /\ emitted' \in 0 .. MaxEmits
         /\ emitQueue' \in Seq(Element) /\ emitQueue' # <<>>
         /\ step' \in {"apply", step}
         /\ BusyInv => BusyInv'
         /\ made' \in [Item -> SUBSET EmitId]
         /\ deletions' \in [Item -> Deletion]
         /\ \E y \in Item, payload \in Payload, discardable \in BOOLEAN : EmitPayload(y, payload, discardable)
<1> DEFINE Emits(payload, discardable) == payload \in Payload /\ discardable \in BOOLEAN /\ EmitPayload(x, payload, discardable)
<1>0. /\ made \in [Item -> SUBSET EmitId] /\ deletions \in [Item -> Deletion]
      /\ emitted \in 0 .. MaxEmits
  BY DEF TypeOK
<1>1. ASSUME Exists(x) PROVE items[x] \in Payload
  BY <1>1 DEF Exists, TypeOK
<1>2. CASE CreateItem(x)
  <2>0. EmitPayload(x, [edits |-> {Change}, refs |-> {}, deleted |-> FALSE], FALSE)
    BY <1>2 DEF CreateItem
  <2>2. Change \in EmitId
    BY <2>0, ChangeType
  <2>1. Emits([edits |-> {Change}, refs |-> {}, deleted |-> FALSE], FALSE)
    BY <2>0, <2>2, EmptyPayload
  <2>3. made' \in [Item -> SUBSET EmitId] /\ deletions' = deletions
    BY <1>0, <1>2, <2>2 DEF CreateItem
  <2> QED BY <2>1, <2>3, <1>0, EmitType
<1>3. CASE ChangeItem(x)
  <2>0. EmitPayload(x, [items[x] EXCEPT !.edits = @ \cup {Change}], FALSE)
    BY <1>3 DEF ChangeItem
  <2>2. Change \in EmitId
    BY <2>0, ChangeType
  <2>3a. items[x] \in Payload
    BY <1>1, <1>3 DEF ChangeItem
  <2>1. Emits([items[x] EXCEPT !.edits = @ \cup {Change}], FALSE)
    BY <2>0, <2>2, <2>3a, PayloadUpdate
  <2>3. made' \in [Item -> SUBSET EmitId] /\ deletions' = deletions
    BY <1>0, <1>3, <2>2 DEF ChangeItem
  <2> QED BY <2>1, <2>3, <1>0, EmitType
<1>4. ASSUME NEW y \in Item, AddRelationship(x, y)
      PROVE  /\ made' \in [Item -> SUBSET EmitId] /\ deletions' \in [Item -> Deletion]
             /\ \E payload \in Payload : EmitPayload(x, payload, FALSE)
  <2>0. EmitPayload(x, [items[x] EXCEPT !.edits = @ \cup {Change}, !.refs = @ \cup {y}], FALSE)
    BY <1>4 DEF AddRelationship
  <2>2. Change \in EmitId
    BY <2>0, ChangeType
  <2>3a. items[x] \in Payload
    BY <1>1, <1>4 DEF AddRelationship
  <2>1. Emits([items[x] EXCEPT !.edits = @ \cup {Change}, !.refs = @ \cup {y}], FALSE)
    <3>1. items[x].refs \cup {y} \in SUBSET Item
      BY <2>2, <2>3a, PayloadUpdate
    <3> QED BY <3>1, <2>0, <2>2, <2>3a, PayloadUpdate
  <2>3. made' \in [Item -> SUBSET EmitId]
    BY <1>0, <1>4, <2>2 DEF AddRelationship
  <2>4. deletions' \in [Item -> Deletion]
    BY <1>0, <1>4, LateType DEF AddRelationship
  <2> QED BY <2>1, <2>3, <2>4
<1>5. CASE DeleteItem(x)
  <2>0. EmitPayload(x, [items[x] EXCEPT !.edits = @ \cup {Change}, !.refs = {}, !.deleted = TRUE], FALSE)
    BY <1>5 DEF DeleteItem
  <2>2. Change \in EmitId
    BY <2>0, ChangeType
  <2>3a. items[x] \in Payload
    BY <1>1, <1>5 DEF DeleteItem
  <2>1. Emits([items[x] EXCEPT !.edits = @ \cup {Change}, !.refs = {}, !.deleted = TRUE], FALSE)
    BY <2>0, <2>2, <2>3a, PayloadUpdate
  <2>3. made' \in [Item -> SUBSET EmitId]
    BY <1>0, <1>5, <2>2 DEF DeleteItem
  <2>4. [at |-> "emitted", waits |-> Change, refs |-> Referencing(x), late |-> deletions[x].late] \in Deletion
    BY <1>0, <2>2 DEF Deletion, Referencing
  <2>5. deletions' \in [Item -> Deletion]
    BY <1>0, <1>5, <2>4 DEF DeleteItem
  <2> QED BY <2>1, <2>3, <2>5, EmitType
<1>6. CASE DiscardItem(x)
  <2>1. Emits(items[x], TRUE)
    BY <1>6 DEF DiscardItem, TypeOK
  <2>2. made' = made /\ deletions' = deletions
    BY <1>6 DEF DiscardItem
  <2> QED BY <2>1, <2>2, <1>0, EmitType
<1>7. CASE \E y \in Item : AddRelationship(x, y)
  BY <1>4, <1>7, <1>0, EmitType
<1> QED BY <1>2, <1>3, <1>5, <1>6, <1>7 DEF LocalChange

(* Facts about sequences that the steps below need.                        *)
LEMMA SequenceElement ==
  ASSUME NEW S, NEW q \in Seq(S), NEW i \in DOMAIN q
  PROVE  q[i] \in S /\ i \in 1 .. Len(q)
OBVIOUS

LEMMA EqualSequences ==
  ASSUME NEW S, NEW s \in Seq(S), NEW t \in Seq(S), Len(s) = Len(t),
         \A i \in 1 .. Len(s) : s[i] = t[i]
  PROVE  s = t
OBVIOUS

LEMMA EqualPrefixes ==
  ASSUME NEW S, NEW s \in Seq(S), NEW t \in Seq(S), NEW n \in Nat,
         n <= Len(s), n <= Len(t), \A i \in 1 .. n : s[i] = t[i]
  PROVE  SubSeq(s, 1, n) = SubSeq(t, 1, n)
<1>1. /\ SubSeq(s, 1, n) \in Seq(S) /\ Len(SubSeq(s, 1, n)) = n
      /\ \A i \in 1 .. n : SubSeq(s, 1, n)[i] = s[i]
  OBVIOUS
<1>2. /\ SubSeq(t, 1, n) \in Seq(S) /\ Len(SubSeq(t, 1, n)) = n
      /\ \A i \in 1 .. n : SubSeq(t, 1, n)[i] = t[i]
  OBVIOUS
<1> QED BY <1>1, <1>2, EqualSequences

LEMMA EmptySequence ==
  ASSUME NEW S, NEW q \in Seq(S) PROVE Len(q) = 0 <=> q = <<>>
OBVIOUS

LEMMA QueueHead ==
  ASSUME NEW S, NEW q \in Seq(S), q # <<>>
  PROVE  /\ Head(q) \in S /\ Tail(q) \in Seq(S)
         /\ Len(Tail(q)) = Len(q) - 1 /\ Len(q) >= 1
         /\ \A i \in DOMAIN Tail(q) : i + 1 \in DOMAIN q /\ Tail(q)[i] = q[i + 1]
         /\ Head(q) = q[1]
         /\ Len(q) = 1 <=> Tail(q) = <<>>
<1>1. Len(q) >= 1 /\ Len(q) \in Nat
  OBVIOUS
<1>2. Head(q) \in S /\ Tail(q) \in Seq(S)
  OBVIOUS
<1>3. Len(Tail(q)) = Len(q) - 1 /\ Head(q) = q[1]
  OBVIOUS
<1>4. \A i \in DOMAIN Tail(q) : i + 1 \in DOMAIN q /\ Tail(q)[i] = q[i + 1]
  BY <1>1, <1>3
<1>5. Len(q) = 1 <=> Tail(q) = <<>>
  <2>1. Len(Tail(q)) = 0 <=> Tail(q) = <<>>
    BY <1>2, EmptySequence
  <2> QED BY <2>1, <1>1, <1>3
<1> QED BY <1>1, <1>2, <1>3, <1>4, <1>5

(* The steps of popQueue.                                                  *)
LEMMA PopQueueType ==
  ASSUME TypeOK, BusyInv, PopQueue \/ ObserverThrows
  PROVE  TypeOK' /\ BusyInv'
<1>0. /\ emitQueue \in Seq(Element) /\ observer \in 1 .. Observers + 1
      /\ seen \in [Observer -> Seq(EmitId)] /\ applied \in Seq(EmitId)
      /\ resolved \subseteq EmitId
      /\ collection \in [Item -> Payload \cup {NoPayload}]
      /\ items \in [Item -> Payload \cup {NoPayload}]
  BY DEF TypeOK
<1>1. ASSUME step # "idle"
      PROVE  /\ First \in Element /\ First.id \in EmitId /\ First.item \in Item
             /\ Stored(First) \in Payload \cup {NoPayload}
             /\ Tail(emitQueue) \in Seq(Element)
             /\ Len(emitQueue) = 1 <=> Tail(emitQueue) = <<>>
  <2>1. emitQueue # <<>>
    BY <1>1 DEF BusyInv
  <2>2. First \in Element /\ Tail(emitQueue) \in Seq(Element)
        /\ (Len(emitQueue) = 1 <=> Tail(emitQueue) = <<>>)
    BY <2>1, <1>0, QueueHead DEF First
  <2>3. /\ First.id \in EmitId /\ First.item \in Item
        /\ First.payload \in Payload
    BY <2>2 DEF Element
  <2>4. Stored(First) \in Payload \cup {NoPayload}
    BY <2>3 DEF Stored
  <2> QED BY <2>2, <2>3, <2>4
<1>2. CASE ApplyPayloads
  <2>1. Stored(First) \in Payload \cup {NoPayload} /\ First.id \in EmitId
    BY <1>1, <1>2 DEF ApplyPayloads
  <2>2. collection' \in [Item -> Payload \cup {NoPayload}]
    BY <1>0, <1>2, <2>1 DEF ApplyPayloads
  <2>3. applied' \in Seq(EmitId)
    BY <1>0, <1>2, <2>1 DEF ApplyPayloads
  <2> QED BY <1>2, <2>2, <2>3 DEF ApplyPayloads, TypeOK, BusyInv, queueVars
<1>3. CASE SetPayloads
  <2>1. Stored(First) \in Payload \cup {NoPayload}
    BY <1>1, <1>3 DEF SetPayloads
  <2>2. items' \in [Item -> Payload \cup {NoPayload}]
    BY <1>0, <1>3, <2>1 DEF SetPayloads
  <2>3. observer' \in 1 .. Observers + 1
    BY <1>3 DEF SetPayloads
  <2> QED BY <1>3, <2>2, <2>3 DEF SetPayloads, TypeOK, BusyInv, queueVars, historyVars
<1>4. CASE Finish
  <2>1. /\ First.id \in EmitId /\ Tail(emitQueue) \in Seq(Element)
        /\ Len(emitQueue) = 1 <=> Tail(emitQueue) = <<>>
    BY <1>1, <1>4 DEF Finish
  <2>2. resolved' \subseteq EmitId /\ emitQueue' \in Seq(Element)
    BY <1>0, <1>4, <2>1 DEF Finish
  <2>3. BusyInv' /\ step' \in {"idle", "apply"}
    BY <1>4, <2>1 DEF Finish, BusyInv
  <2> QED BY <1>4, <2>2, <2>3 DEF Finish, TypeOK
<1>5. ASSUME NEW reaction \in BOOLEAN, Notify(reaction) PROVE TypeOK' /\ BusyInv'
  <2>1. First.id \in EmitId
    BY <1>1, <1>5 DEF Notify
  <2>2. seen' \in [Observer -> Seq(EmitId)]
    BY <1>0, <1>5, <2>1 DEF Notify
  <2>3. observer' \in 1 .. Observers + 1
    BY <1>0, <1>5 DEF Notify
  <2>4. /\ emitted' \in 0 .. MaxEmits /\ emitQueue' \in Seq(Element)
        /\ step' \in {"apply", step} /\ made' \in [Item -> SUBSET EmitId]
        /\ deletions' \in [Item -> Deletion] /\ BusyInv'
    <3>1. CASE reaction /\ \E x \in Item : LocalChange(x)
      BY <3>1, LocalChangeType
    <3>2. CASE reaction /\ ~\E x \in Item : LocalChange(x)
      BY <3>2, <1>5 DEF Notify, Reaction, LocalChange
    <3>3. CASE ~reaction
      BY <3>3, <1>5 DEF Notify, TypeOK, BusyInv, queueVars
    <3> QED BY <3>1, <3>2, <3>3
  <2> QED BY <1>5, <2>2, <2>3, <2>4 DEF Notify, TypeOK
<1>6. CASE ObserverThrows
  BY <1>6, <1>0 DEF ObserverThrows, TypeOK, BusyInv, queueVars, historyVars
<1> QED BY <1>2, <1>3, <1>4, <1>5, <1>6 DEF PopQueue

(* The removal of a reference to a deleted item.                           *)
LEMMA RemoveReferenceType ==
  ASSUME TypeOK, BusyInv, NEW x \in Item, RemoveReference(x)
  PROVE  TypeOK' /\ BusyInv'
<1>0. /\ made \in [Item -> SUBSET EmitId] /\ deletions \in [Item -> Deletion]
      /\ emitted \in 0 .. MaxEmits /\ emitQueue \in Seq(Element)
      /\ deletions[x].refs \in SUBSET Item /\ deletions[x].at \in {"no", "emitted", "references"}
  BY DEF TypeOK, Deletion
<1>1. CASE deletions[x].refs = {}
  <2>1. [at |-> "no", waits |-> 0, refs |-> {}, late |-> deletions[x].late] \in Deletion
    BY <1>0 DEF Deletion
  <2>2. deletions' \in [Item -> Deletion]
    BY <1>0, <1>1, <2>1 DEF RemoveReference
  <2> QED BY <1>1, <2>2 DEF RemoveReference, TypeOK, BusyInv, queueVars, historyVars
<1>2. ASSUME NEW y \in deletions[x].refs, Exists(y),
             EmitPayload(y, [items[y] EXCEPT !.edits = @ \cup {Change}, !.refs = @ \ {x}], FALSE),
             made' = [made EXCEPT ![y] = @ \cup {Change}],
             deletions' = [deletions EXCEPT ![x] = [at |-> "references", waits |-> Change,
                                                    refs |-> @.refs \ {y}, late |-> @.late]]
      PROVE  TypeOK' /\ BusyInv'
  <2>1. y \in Item /\ Change \in EmitId
    BY <1>0, <1>2, ChangeType
  <2>2. items[y] \in Payload
    BY <1>2, <2>1 DEF Exists, TypeOK
  <2>3. items[y].refs \ {x} \in SUBSET Item
    BY <2>1, <2>2, PayloadUpdate
  <2>4. [items[y] EXCEPT !.edits = @ \cup {Change}, !.refs = @ \ {x}] \in Payload
    BY <2>1, <2>2, <2>3, PayloadUpdate
  <2>5. /\ emitted' \in 0 .. MaxEmits /\ emitQueue' \in Seq(Element)
        /\ step' \in {"apply", step} /\ BusyInv'
    BY <1>2, <2>1, <2>4, EmitType
  <2>6. made' \in [Item -> SUBSET EmitId]
    BY <1>0, <1>2, <2>1
  <2>7. [at |-> "references", waits |-> Change, refs |-> deletions[x].refs \ {y},
         late |-> deletions[x].late] \in Deletion
    BY <1>0, <2>1 DEF Deletion
  <2>8. deletions' \in [Item -> Deletion]
    BY <1>0, <1>2, <2>7
  <2> QED BY <2>5, <2>6, <2>8 DEF RemoveReference, TypeOK, historyVars
<1>3. ASSUME NEW y \in deletions[x].refs,
             deletions' = [deletions EXCEPT ![x].refs = @ \ {y}],
             UNCHANGED <<queueVars, step, made>>
      PROVE  TypeOK' /\ BusyInv'
  <2>0. deletions[x] \in Deletion /\ deletions[x].refs \ {y} \in SUBSET Item
    BY <1>0
  <2>1. [deletions[x] EXCEPT !.refs = @ \ {y}] \in Deletion
    BY <2>0 DEF Deletion
  <2>2. deletions' \in [Item -> Deletion]
    BY <1>0, <1>3, <2>1
  <2> QED BY <1>3, <2>2 DEF RemoveReference, TypeOK, BusyInv, queueVars, historyVars
<1> QED BY <1>1, <1>2, <1>3 DEF RemoveReference

(* All the payloads and items are well-formed, however observers nest the  *)
(* emits, and popQueue only looks at the head of a queue that has one.     *)
THEOREM PayloadManagerTypeCorrect == Spec => []TypeOK
<1>1. Init => TypeOK /\ BusyInv
  BY InitType
<1>2. TypeOK /\ BusyInv /\ [Next]_vars => TypeOK' /\ BusyInv'
  <2> SUFFICES ASSUME TypeOK, BusyInv, [Next]_vars PROVE TypeOK' /\ BusyInv'
    OBVIOUS
  <2>1. CASE Call
    <3>1. PICK x \in Item : LocalChange(x) \/ DiscardItem(x)
      BY <2>1 DEF Call
    <3> QED BY <2>1, <3>1, LocalChangeType DEF Call, TypeOK, historyVars
  <2>2. CASE PopQueue \/ ObserverThrows
    BY <2>2, PopQueueType
  <2>3. CASE \E x \in Item : RemoveReference(x)
    BY <2>3, RemoveReferenceType
  <2>4. ASSUME NEW x \in Item, RemoveItemLocally(x) PROVE TypeOK' /\ BusyInv'
    <3>1. /\ items' \in [Item -> Payload \cup {NoPayload}]
          /\ collection' \in [Item -> Payload \cup {NoPayload}]
      BY <2>4 DEF RemoveItemLocally, TypeOK
    <3> QED BY <2>4, <3>1 DEF RemoveItemLocally, TypeOK, BusyInv, queueVars, progressVars, historyVars
  <2>5. CASE UNCHANGED vars
    BY <2>5 DEF vars, TypeOK, BusyInv, queueVars, progressVars, historyVars
  <2> QED BY <2>1, <2>2, <2>3, <2>4, <2>5 DEF Next
<1> QED BY <1>1, <1>2, PTL DEF Spec

-----------------------------------------------------------------------------
(***************************************************************************)
(* The order of the emits.  They are numbered as they are made, so that    *)
(* the queue, the emits applied and those an observer was notified of are  *)
(* all made of consecutive numbers: the first Done emits are done, and the *)
(* rest waits in the queue, its head being in hand or not.                 *)
(***************************************************************************)
Done == emitted - Len(emitQueue)

InHand == IF step \in {"map", "observers", "thrown"} THEN 1 ELSE 0

Told(o) == IF step \in {"observers", "thrown"} /\ o < observer THEN 1 ELSE 0

QueueInv == /\ Len(emitQueue) <= emitted
            /\ \A i \in DOMAIN emitQueue : emitQueue[i].id = Done + i

AppliedInv == /\ Len(applied) = Done + InHand
              /\ \A i \in DOMAIN applied : applied[i] = i
              /\ resolved = 1 .. Done

SeenInv == \A o \in Observer : /\ Len(seen[o]) = Done + Told(o)
                               /\ \A i \in DOMAIN seen[o] : seen[o][i] = i

OrderInv == BusyInv /\ QueueInv /\ AppliedInv /\ SeenInv

LEMMA AppendedNumber ==
  ASSUME NEW S, NEW s \in Seq(S), NEW n \in S, n = Len(s) + 1,
         \A i \in DOMAIN s : s[i] = i
  PROVE  /\ Len(Append(s, n)) = Len(s) + 1
         /\ \A i \in DOMAIN Append(s, n) : Append(s, n)[i] = i
OBVIOUS

LEMMA OrderTypes ==
  ASSUME TypeOK
  PROVE  /\ emitQueue \in Seq(Element) /\ emitted \in 0 .. MaxEmits /\ emitted \in Nat
         /\ Len(emitQueue) \in Nat /\ DOMAIN emitQueue = 1 .. Len(emitQueue)
         /\ Done \in Int /\ applied \in Seq(EmitId) /\ Len(applied) \in Nat
         /\ seen \in [Observer -> Seq(EmitId)]
         /\ observer \in 1 .. Observers + 1
BY DEF TypeOK, Done

(* An emit leaves what is done, in hand and told as it is.                 *)
LEMMA EmitOrder ==
  ASSUME TypeOK, BusyInv, QueueInv, NEW x \in Item, NEW payload \in Payload,
         NEW discardable \in BOOLEAN, EmitPayload(x, payload, discardable)
  PROVE  BusyInv' /\ QueueInv' /\ Done' = Done /\ InHand' = InHand
         /\ (emitQueue # <<>> => step' = step)
         /\ (step' = step \/ (step = "idle" /\ step' = "apply"))
<1> DEFINE e == [id |-> emitted + 1, item |-> x, payload |-> payload, discardable |-> discardable]
<1>1. /\ emitQueue' = Append(emitQueue, e) /\ emitted' = emitted + 1
      /\ step' = IF emitQueue = <<>> THEN "apply" ELSE step
  BY DEF EmitPayload
<1>2. e \in Element
  BY <1>1, OrderTypes DEF Element, EmitPayload
<1>3. e.id = emitted + 1
  OBVIOUS
<1> HIDE DEF e
<1>4. /\ Len(emitQueue') = Len(emitQueue) + 1 /\ DOMAIN emitQueue' = 1 .. Len(emitQueue) + 1
      /\ emitQueue'[Len(emitQueue) + 1] = e
      /\ \A i \in DOMAIN emitQueue : emitQueue'[i] = emitQueue[i]
  BY <1>1, <1>2, OrderTypes
<1>5. Done' = Done
  BY <1>1, <1>4, OrderTypes DEF Done
<1>6. QueueInv'
  <2>1. ASSUME NEW i \in DOMAIN emitQueue' PROVE emitQueue'[i].id = Done + i
    <3>1. CASE i \in DOMAIN emitQueue
      BY <3>1, <1>4 DEF QueueInv
    <3>2. CASE i = Len(emitQueue) + 1
      BY <3>2, <1>3, <1>4, OrderTypes DEF Done
    <3> QED BY <3>1, <3>2, <1>4, OrderTypes
  <2>2. Len(emitQueue') <= emitted'
    BY <1>1, <1>4, OrderTypes DEF QueueInv
  <2> QED BY <2>1, <2>2, <1>5 DEF QueueInv
<1>7. BusyInv' /\ InHand' = InHand
  BY <1>1, <1>2, EmitType DEF BusyInv, InHand
<1> QED BY <1>1, <1>5, <1>6, <1>7 DEF BusyInv

LEMMA OrderUnchanged ==
  ASSUME OrderInv, UNCHANGED <<queueVars, progressVars, historyVars>>
  PROVE  OrderInv'
BY DEF OrderInv, BusyInv, QueueInv, AppliedInv, SeenInv, Done, InHand, Told,
       queueVars, progressVars, historyVars

(* A caller, or the removal of a reference, emits while no emit is handled. *)
LEMMA CallerOrder ==
  ASSUME TypeOK, OrderInv, NEW x \in Item, NEW payload \in Payload, NEW discardable \in BOOLEAN,
         EmitPayload(x, payload, discardable), UNCHANGED <<observer, historyVars>>
  PROVE  OrderInv'
<1>1. /\ BusyInv' /\ QueueInv' /\ Done' = Done /\ InHand' = InHand
      /\ (step' = step \/ (step = "idle" /\ step' = "apply"))
  BY EmitOrder DEF OrderInv
<1>2. AppliedInv'
  BY <1>1 DEF OrderInv, AppliedInv, historyVars
<1>3. ASSUME NEW o \in Observer PROVE Told(o)' = Told(o)
  BY <1>1 DEF Told
<1>4. SeenInv'
  BY <1>1, <1>3 DEF OrderInv, SeenInv, historyVars
<1> QED BY <1>1, <1>2, <1>4 DEF OrderInv

(* The head of the queue carries the number after those that are done.     *)
LEMMA HeadNumber ==
  ASSUME TypeOK, OrderInv, step # "idle"
  PROVE  /\ emitQueue # <<>> /\ First \in Element /\ First.id = Done + 1
         /\ First.id \in EmitId /\ Done \in Nat
<1>1. emitQueue # <<>>
  BY DEF OrderInv, BusyInv
<1>2. emitQueue \in Seq(Element)
  BY OrderTypes
<1>3. 1 \in DOMAIN emitQueue /\ First = emitQueue[1] /\ First \in Element
  BY <1>1, <1>2, QueueHead DEF First
<1>4. First.id = Done + 1
  BY <1>3 DEF OrderInv, QueueInv
<1>5. Done \in Nat
  BY OrderTypes DEF OrderInv, QueueInv, Done
<1> QED BY <1>1, <1>3, <1>4, <1>5 DEF Element

LEMMA ApplyOrder ==
  ASSUME TypeOK, OrderInv, ApplyPayloads
  PROVE  OrderInv' /\ applied' = Append(applied, Done + 1)
<1>1. step = "apply" /\ step' = "map" /\ UNCHANGED <<queueVars, observer, resolved, seen>>
  BY DEF ApplyPayloads
<1>2. First.id = Done + 1 /\ First.id \in EmitId /\ emitQueue # <<>>
  BY <1>1, HeadNumber
<1>3. applied' = Append(applied, Done + 1)
  BY <1>2 DEF ApplyPayloads
<1>4. Len(applied) = Done
  BY <1>1, OrderTypes DEF OrderInv, AppliedInv, InHand
<1>5. /\ Len(applied') = Len(applied) + 1
      /\ \A i \in DOMAIN applied' : applied'[i] = i
  BY <1>2, <1>3, <1>4, OrderTypes, AppendedNumber DEF OrderInv, AppliedInv
<1>6. Done' = Done /\ InHand' = 1
  BY <1>1 DEF Done, InHand, queueVars
<1>7. AppliedInv'
  BY <1>1, <1>4, <1>5, <1>6 DEF OrderInv, AppliedInv
<1>8. \A o \in Observer : Told(o)' = Told(o)
  BY <1>1 DEF Told
<1>9. SeenInv'
  BY <1>1, <1>6, <1>8 DEF OrderInv, SeenInv
<1>10. BusyInv' /\ QueueInv'
  BY <1>1, <1>2 DEF OrderInv, BusyInv, QueueInv, Done, queueVars
<1> QED BY <1>3, <1>7, <1>9, <1>10 DEF OrderInv

LEMMA SetPayloadsOrder == ASSUME TypeOK, OrderInv, SetPayloads PROVE OrderInv'
<1>1. step = "map" /\ step' = "observers" /\ observer' = 1 /\ UNCHANGED <<queueVars, historyVars>>
  BY DEF SetPayloads
<1>2. \A o \in Observer : Told(o)' = 0 /\ Told(o) = 0
  BY <1>1 DEF Told
<1>3. Done' = Done /\ InHand' = InHand
  BY <1>1 DEF Done, InHand, queueVars
<1>4. AppliedInv'
  BY <1>1, <1>3 DEF OrderInv, AppliedInv, historyVars
<1>5. SeenInv'
  BY <1>1, <1>2, <1>3 DEF OrderInv, SeenInv, historyVars
<1>6. BusyInv' /\ QueueInv'
  BY <1>1 DEF OrderInv, BusyInv, QueueInv, Done, queueVars
<1> QED BY <1>4, <1>5, <1>6 DEF OrderInv

LEMMA FinishOrder ==
  ASSUME TypeOK, OrderInv, Finish
  PROVE  OrderInv' /\ resolved' = resolved \cup {Done + 1}
<1>1. /\ step = "observers" /\ observer = Observers + 1
      /\ emitQueue' = Tail(emitQueue) /\ resolved' = resolved \cup {First.id}
      /\ step' = (IF Len(emitQueue) = 1 THEN "idle" ELSE "apply")
      /\ UNCHANGED <<emitted, observer, applied, seen>>
  BY OrderTypes DEF Finish
<1>2. First.id = Done + 1 /\ emitQueue # <<>> /\ Done \in Nat
  BY <1>1, HeadNumber
<1>3. /\ Len(emitQueue') = Len(emitQueue) - 1
      /\ \A i \in DOMAIN emitQueue' : i + 1 \in DOMAIN emitQueue /\ emitQueue'[i] = emitQueue[i + 1]
      /\ Len(emitQueue) = 1 <=> emitQueue' = <<>>
      /\ emitQueue' \in Seq(Element)
  BY <1>1, <1>2, OrderTypes, QueueHead
<1>4. Done' = Done + 1
  BY <1>1, <1>3, OrderTypes DEF Done
<1>5. QueueInv'
  <2>1. ASSUME NEW i \in DOMAIN emitQueue' PROVE emitQueue'[i].id = Done' + i
    <3>1. emitQueue'[i].id = Done + (i + 1)
      BY <1>3 DEF OrderInv, QueueInv
    <3>2. i \in Nat
      BY <1>3
    <3> QED BY <3>1, <3>2, <1>2, <1>4
  <2> QED BY <1>1, <1>3, <2>1, OrderTypes DEF OrderInv, QueueInv
<1>6. InHand = 1 /\ InHand' = 0
  BY <1>1 DEF InHand
<1>7. AppliedInv'
  <2>1. resolved' = 1 .. Done'
    BY <1>1, <1>2, <1>4 DEF OrderInv, AppliedInv
  <2>2. Len(applied') = Done' + InHand'
    BY <1>1, <1>2, <1>4, <1>6 DEF OrderInv, AppliedInv
  <2> QED BY <1>1, <2>1, <2>2 DEF OrderInv, AppliedInv
<1>8. SeenInv'
  <2>1. ASSUME NEW o \in Observer PROVE Told(o) = 1 /\ Told(o)' = 0
    BY <1>1 DEF Told
  <2> QED BY <1>1, <1>2, <1>4, <2>1 DEF OrderInv, SeenInv
<1>9. BusyInv'
  BY <1>1, <1>3 DEF BusyInv
<1> QED BY <1>1, <1>2, <1>5, <1>7, <1>8, <1>9 DEF OrderInv

LEMMA NotifyOrder ==
  ASSUME TypeOK, OrderInv, NEW reaction \in BOOLEAN, Notify(reaction)
  PROVE  OrderInv'
<1>1. /\ step = "observers" /\ observer \in Observer /\ observer' = observer + 1
      /\ seen' = [seen EXCEPT ![observer] = Append(@, First.id)]
      /\ UNCHANGED <<applied, resolved>>
  BY DEF Notify
<1>2. First.id = Done + 1 /\ First.id \in EmitId /\ emitQueue # <<>> /\ Done \in Nat
  BY <1>1, HeadNumber
<1>3. BusyInv' /\ QueueInv' /\ Done' = Done /\ InHand' = InHand /\ step' = step
  <2>1. CASE reaction /\ \E x \in Item : LocalChange(x)
    BY <2>1, <1>2, EmitOrder, LocalChangeType DEF OrderInv
  <2>2. CASE ~(reaction /\ \E x \in Item : LocalChange(x))
    <3>1. UNCHANGED <<queueVars, step>>
      BY <2>2 DEF Notify, Reaction, LocalChange
    <3> QED BY <3>1 DEF OrderInv, BusyInv, QueueInv, Done, InHand, queueVars
  <2> QED BY <2>1, <2>2
<1>4. AppliedInv'
  BY <1>1, <1>3 DEF OrderInv, AppliedInv
<1>5. ASSUME NEW o \in Observer
      PROVE  /\ Len(seen'[o]) = Done' + Told(o)'
             /\ \A i \in DOMAIN seen'[o] : seen'[o][i] = i
  <2>0. seen[o] \in Seq(EmitId) /\ Len(seen[o]) = Done + Told(o)
        /\ \A i \in DOMAIN seen[o] : seen[o][i] = i
    BY OrderTypes DEF OrderInv, SeenInv
  <2>1. CASE o = observer
    <3>1. Told(o) = 0 /\ Told(o)' = 1
      BY <1>1, <1>3, <2>1 DEF Told
    <3>2. seen'[o] = Append(seen[o], Done + 1)
      BY <1>1, <1>2, <2>1, OrderTypes
    <3>3. Len(seen[o]) = Done
      BY <1>2, <2>0, <3>1
    <3>4. /\ Len(seen'[o]) = Len(seen[o]) + 1
          /\ \A i \in DOMAIN seen'[o] : seen'[o][i] = i
      BY <1>2, <2>0, <3>2, <3>3, AppendedNumber
    <3> QED BY <1>3, <3>1, <3>3, <3>4
  <2>2. CASE o # observer
    <3>1. Told(o)' = Told(o)
      BY <1>1, <1>3, <2>2 DEF Told
    <3>2. seen'[o] = seen[o]
      BY <1>1, <2>2, OrderTypes
    <3> QED BY <1>3, <2>0, <3>1, <3>2
  <2> QED BY <2>1, <2>2
<1>6. SeenInv'
  BY <1>5 DEF SeenInv
<1> QED BY <1>3, <1>4, <1>6 DEF OrderInv

LEMMA ThrowOrder == ASSUME TypeOK, OrderInv, ObserverThrows PROVE OrderInv'
<1>1. step = "observers" /\ step' = "thrown" /\ UNCHANGED <<queueVars, observer, historyVars>>
  BY DEF ObserverThrows
<1>2. InHand' = InHand /\ Done' = Done /\ \A o \in Observer : Told(o)' = Told(o)
  BY <1>1 DEF InHand, Done, Told, queueVars
<1> QED
  BY <1>1, <1>2 DEF OrderInv, BusyInv, QueueInv, AppliedInv, SeenInv, queueVars, historyVars, Done

LEMMA RemoveReferenceOrder ==
  ASSUME TypeOK, OrderInv, NEW x \in Item, RemoveReference(x)
  PROVE  OrderInv'
<1>0. UNCHANGED <<observer, historyVars>> /\ deletions[x].refs \in SUBSET Item
  BY DEF RemoveReference, TypeOK, Deletion
<1>1. CASE UNCHANGED <<queueVars, step>>
  BY <1>0, <1>1, OrderUnchanged DEF progressVars
<1>2. ASSUME NEW y \in deletions[x].refs, Exists(y),
             EmitPayload(y, [items[y] EXCEPT !.edits = @ \cup {Change}, !.refs = @ \ {x}], FALSE)
      PROVE  OrderInv'
  <2>1. y \in Item /\ Change \in EmitId /\ items[y] \in Payload
    BY <1>0, <1>2, ChangeType DEF Exists, TypeOK
  <2>2. items[y].refs \ {x} \in SUBSET Item
    BY <2>1, PayloadUpdate
  <2>3. [items[y] EXCEPT !.edits = @ \cup {Change}, !.refs = @ \ {x}] \in Payload
    BY <2>1, <2>2, PayloadUpdate
  <2> QED BY <1>0, <1>2, <2>1, <2>3, CallerOrder
<1> QED BY <1>1, <1>2 DEF RemoveReference

LEMMA NextOrder ==
  ASSUME TypeOK, OrderInv, [Next]_vars
  PROVE  OrderInv'
<1>1. CASE Call
  <2>1. PICK x \in Item : LocalChange(x) \/ DiscardItem(x)
    BY <1>1 DEF Call
  <2> QED BY <1>1, <2>1, LocalChangeType, CallerOrder DEF Call
<1>2. CASE ApplyPayloads
  BY <1>2, ApplyOrder
<1>3. CASE SetPayloads
  BY <1>3, SetPayloadsOrder
<1>4. CASE Finish
  BY <1>4, FinishOrder
<1>5. CASE \E reaction \in BOOLEAN : Notify(reaction)
  BY <1>5, NotifyOrder
<1>6. CASE ObserverThrows
  BY <1>6, ThrowOrder
<1>7. CASE \E x \in Item : RemoveReference(x)
  BY <1>7, RemoveReferenceOrder
<1>8. CASE \E x \in Item : RemoveItemLocally(x)
  BY <1>8, OrderUnchanged DEF RemoveItemLocally
<1>9. CASE UNCHANGED vars
  BY <1>9, OrderUnchanged DEF vars
<1> QED BY <1>1, <1>2, <1>3, <1>4, <1>5, <1>6, <1>7, <1>8, <1>9 DEF Next, PopQueue

LEMMA InitOrder == ASSUME Init PROVE OrderInv
<1>1. emitQueue = <<>> /\ applied = <<>> /\ resolved = {} /\ emitted = 0 /\ step = "idle"
      /\ \A o \in Observer : seen[o] = <<>>
  BY DEF Init
<1>2. Done = 0
  <2>1. emitQueue \in Seq(Element)
    BY InitType, OrderTypes
  <2>2. Len(emitQueue) = 0
    BY <1>1, <2>1, EmptySequence
  <2>3. emitted = 0
    BY <1>1
  <2> QED BY <2>2, <2>3, SMT DEF Done
<1>3. InHand = 0
  BY <1>1 DEF InHand
<1>4. \A o \in Observer : Told(o) = 0
  BY <1>1 DEF Told
<1> QED BY <1>1, <1>2, <1>3, <1>4 DEF OrderInv, BusyInv, QueueInv, AppliedInv, SeenInv

LEMMA OrderInvariant == Spec => []OrderInv
<1>1. Init => OrderInv
  BY InitOrder
<1>2. TypeOK /\ OrderInv /\ [Next]_vars => OrderInv'
  BY NextOrder
<1> QED BY <1>1, <1>2, PayloadManagerTypeCorrect, PTL DEF Spec

(* Whatever observers emit or throw, every observer is notified of the     *)
(* emits one by one as they are applied, and no promise resolves before.   *)
THEOREM PayloadManagerObserversSeeEveryEmit == Spec => []ObserversSeeEveryEmit
<1>1. ASSUME TypeOK, OrderInv PROVE ObserversSeeEveryEmit
  <2>1. ASSUME NEW o \in Observer
        PROVE  /\ IsPrefix(seen[o], applied)
               /\ resolved \subseteq {seen[o][i] : i \in DOMAIN seen[o]}
    <3>1. /\ seen[o] \in Seq(EmitId) /\ applied \in Seq(EmitId) /\ Done \in Int
          /\ Len(seen[o]) = Done + Told(o) /\ Len(applied) = Done + InHand
      BY <1>1, OrderTypes DEF OrderInv, AppliedInv, SeenInv
    <3>2. Told(o) \in 0 .. 1 /\ Told(o) <= InHand /\ InHand \in 0 .. 1
      BY DEF Told, InHand
    <3>3. Len(seen[o]) <= Len(applied)
      BY <3>1, <3>2
    <3>4. \A i \in 1 .. Len(seen[o]) : seen[o][i] = i /\ applied[i] = i
      <4>1. DOMAIN seen[o] = 1 .. Len(seen[o]) /\ DOMAIN applied = 1 .. Len(applied)
            /\ 1 .. Len(seen[o]) \subseteq 1 .. Len(applied)
        BY <3>1, <3>3
      <4>2. \A i \in DOMAIN seen[o] : seen[o][i] = i
        BY <1>1 DEF OrderInv, SeenInv
      <4>3. \A i \in DOMAIN applied : applied[i] = i
        BY <1>1 DEF OrderInv, AppliedInv
      <4> QED BY <4>1, <4>2, <4>3
    <3>5. SubSeq(seen[o], 1, Len(seen[o])) = SubSeq(applied, 1, Len(seen[o]))
      <4>1. seen[o] \in Seq(EmitId) /\ applied \in Seq(EmitId)
        BY <3>1
      <4>2. Len(seen[o]) \in Nat /\ Len(seen[o]) <= Len(seen[o])
        BY <4>1
      <4>3. \A i \in 1 .. Len(seen[o]) : seen[o][i] = applied[i]
        BY <3>4
      <4> HIDE DEF EmitId
      <4> QED BY <4>1, <4>2, <4>3, <3>3, EqualPrefixes, Zenon
    <3>6. resolved \subseteq {seen[o][i] : i \in DOMAIN seen[o]}
      <4>1. ASSUME NEW e \in resolved PROVE e \in DOMAIN seen[o] /\ seen[o][e] = e
        <5>1. e \in 1 .. Done
          BY <1>1, <4>1 DEF OrderInv, AppliedInv
        <5>2. e \in 1 .. Len(seen[o])
          BY <5>1, <3>1, <3>2
        <5> QED BY <5>2, <3>1, <3>4
      <4> QED BY <4>1
    <3> QED BY <3>3, <3>5, <3>6 DEF IsPrefix
  <2> QED BY <2>1 DEF ObserversSeeEveryEmit
<1> QED BY <1>1, PayloadManagerTypeCorrect, OrderInvariant, PTL

-----------------------------------------------------------------------------
(* The numbers of a queue, which the abstract queue keeps.                 *)

Ids(q) == [i \in DOMAIN q |-> q[i].id]

LEMMA IdsType == ASSUME NEW q \in Seq(Element) PROVE Ids(q) \in Seq(EmitId) /\ Len(Ids(q)) = Len(q)
<1>1. ASSUME NEW i \in DOMAIN q PROVE q[i].id \in EmitId
  <2>1. q[i] \in Element
    BY SequenceElement
  <2> QED BY <2>1 DEF Element
<1> QED BY <1>1 DEF Ids

LEMMA IdsAppend ==
  ASSUME NEW q \in Seq(Element), NEW e \in Element
  PROVE  Ids(Append(q, e)) = Append(Ids(q), e.id)
<1>1. /\ Append(q, e) \in Seq(Element) /\ Len(Append(q, e)) = Len(q) + 1
      /\ \A i \in 1 .. Len(q) : Append(q, e)[i] = q[i]
      /\ Append(q, e)[Len(q) + 1] = e
  OBVIOUS
<1>2. e.id \in EmitId
  BY DEF Element
<1>3. /\ Ids(q) \in Seq(EmitId) /\ Len(Ids(q)) = Len(q)
      /\ Ids(Append(q, e)) \in Seq(EmitId) /\ Len(Ids(Append(q, e))) = Len(q) + 1
  BY <1>1, IdsType
<1>4. \A i \in 1 .. Len(q) + 1 : Ids(Append(q, e))[i] = Append(Ids(q), e.id)[i]
  BY <1>1, <1>2, <1>3 DEF Ids
<1>5. Append(Ids(q), e.id) \in Seq(EmitId) /\ Len(Append(Ids(q), e.id)) = Len(q) + 1
  BY <1>2, <1>3
<1> QED BY <1>3, <1>4, <1>5, EqualSequences

LEMMA IdsTail ==
  ASSUME NEW q \in Seq(Element), q # <<>>
  PROVE  Ids(Tail(q)) = Tail(Ids(q)) /\ Head(Ids(q)) = Head(q).id /\ Ids(q) # <<>>
<1>1. /\ Tail(q) \in Seq(Element) /\ Len(Tail(q)) = Len(q) - 1 /\ Len(q) >= 1
      /\ \A i \in DOMAIN Tail(q) : i + 1 \in DOMAIN q /\ Tail(q)[i] = q[i + 1]
      /\ Head(q) = q[1]
  BY QueueHead
<1>2. /\ Ids(q) \in Seq(EmitId) /\ Len(Ids(q)) = Len(q)
      /\ Ids(Tail(q)) \in Seq(EmitId) /\ Len(Ids(Tail(q))) = Len(q) - 1
  BY <1>1, IdsType
<1>3. Ids(q) # <<>>
  BY <1>1, <1>2
<1>4. /\ Tail(Ids(q)) \in Seq(EmitId) /\ Len(Tail(Ids(q))) = Len(q) - 1
      /\ \A i \in DOMAIN Tail(Ids(q)) : i + 1 \in DOMAIN Ids(q) /\ Tail(Ids(q))[i] = Ids(q)[i + 1]
      /\ Head(Ids(q)) = Ids(q)[1]
  BY <1>2, <1>3, QueueHead
<1>5. \A i \in 1 .. Len(q) - 1 : Ids(Tail(q))[i] = Tail(Ids(q))[i]
  BY <1>1, <1>2, <1>4 DEF Ids
<1>6. Head(Ids(q)) = Head(q).id
  BY <1>1, <1>4 DEF Ids
<1>7. Ids(Tail(q)) = Tail(Ids(q))
  BY <1>2, <1>4, <1>5, EqualSequences
<1> QED BY <1>3, <1>6, <1>7

(***************************************************************************)
(* The refinement: whatever is done with the head of the queue between its *)
(* being applied and its being resolved is a stutter of EmitQueue.         *)
(***************************************************************************)
LEMMA PendingIds == [i \in DOMAIN emitQueue |-> emitQueue[i].id] = Ids(emitQueue)
BY DEF Ids

(* An emit is one of the abstract queue.                                   *)
LEMMA EmitRefines ==
  ASSUME TypeOK, OrderInv, NEW x \in Item, NEW payload \in Payload, NEW discardable \in BOOLEAN,
         EmitPayload(x, payload, discardable), UNCHANGED <<applied, resolved>>
  PROVE  Queue!Emit
<1> DEFINE e == [id |-> emitted + 1, item |-> x, payload |-> payload, discardable |-> discardable]
<1>1. emitQueue' = Append(emitQueue, e) /\ emitted + 1 \in EmitId
  BY OrderTypes DEF EmitPayload
<1>2. e \in Element /\ e.id = emitted + 1
  BY <1>1 DEF Element
<1> HIDE DEF e
<1>3. Ids(emitQueue') = Append(Ids(emitQueue), emitted + 1)
  BY <1>1, <1>2, IdsAppend, OrderTypes
<1>4. emitted + 1 \in EmitId \ resolved
  BY <1>1, OrderTypes DEF OrderInv, AppliedInv, Done
<1>5. \A i \in DOMAIN Ids(emitQueue) : Ids(emitQueue)[i] # emitted + 1
  <2>1. ASSUME NEW i \in DOMAIN emitQueue PROVE emitQueue[i].id # emitted + 1
    BY OrderTypes DEF OrderInv, QueueInv, Done
  <2> QED BY <2>1 DEF Ids
<1> QED BY <1>3, <1>4, <1>5 DEF Queue!Emit, Ids

LEMMA ApplyRefines == ASSUME TypeOK, OrderInv, ApplyPayloads PROVE Queue!Apply
<1>1. step = "apply" /\ UNCHANGED <<queueVars, resolved>> /\ applied' = Append(applied, Done + 1)
  BY ApplyOrder DEF ApplyPayloads
<1>2. emitQueue # <<>> /\ First.id = Done + 1 /\ Done \in Nat
  BY <1>1, HeadNumber
<1>3. Ids(emitQueue) # <<>> /\ Head(Ids(emitQueue)) = Done + 1
  BY <1>2, IdsTail, OrderTypes DEF First
<1>4. Len(applied) = Done /\ \A i \in DOMAIN applied : applied[i] = i
  BY <1>1, OrderTypes DEF OrderInv, AppliedInv, InHand
<1>5. ~(applied # <<>> /\ applied[Len(applied)] = Done + 1)
  <2>1. ASSUME applied # <<>> PROVE applied[Len(applied)] = Done
    <3>1. Len(applied) \in DOMAIN applied
      BY <2>1, OrderTypes, EmptySequence
    <3> QED BY <3>1, <1>4
  <2> QED BY <2>1, <1>2
<1> QED
  BY <1>1, <1>3, <1>5 DEF Queue!Apply, Queue!Applied, Ids, queueVars

LEMMA FinishRefines == ASSUME TypeOK, OrderInv, Finish PROVE Queue!Resolve
<1>1. /\ step = "observers" /\ emitQueue' = Tail(emitQueue)
      /\ resolved' = resolved \cup {Done + 1} /\ UNCHANGED applied
  BY FinishOrder DEF Finish
<1>2. emitQueue # <<>> /\ First.id = Done + 1 /\ Done \in Nat
  BY <1>1, HeadNumber
<1>3. /\ Ids(emitQueue) # <<>> /\ Head(Ids(emitQueue)) = Done + 1
      /\ Ids(emitQueue') = Tail(Ids(emitQueue))
  BY <1>1, <1>2, IdsTail, OrderTypes DEF First
<1>4. applied # <<>> /\ applied[Len(applied)] = Done + 1
  <2>1. Len(applied) = Done + 1 /\ \A i \in DOMAIN applied : applied[i] = i
    BY <1>1 DEF OrderInv, AppliedInv, InHand
  <2>2. Len(applied) \in DOMAIN applied /\ applied # <<>>
    BY <2>1, <1>2, OrderTypes, EmptySequence
  <2> QED BY <2>1, <2>2
<1> QED BY <1>1, <1>3, <1>4 DEF Queue!Resolve, Queue!Applied, Ids

LEMMA StepRefines ==
  ASSUME TypeOK, OrderInv, [Next]_vars
  PROVE  [Queue!Next]_(Queue!vars)
<1> DEFINE Stutter == UNCHANGED <<emitQueue, applied, resolved>>
<1>0. Stutter => UNCHANGED Queue!vars
  BY DEF Queue!vars
<1> HIDE DEF Stutter
<1>1. CASE Call
  <2>1. PICK x \in Item : LocalChange(x) \/ DiscardItem(x)
    BY <1>1 DEF Call
  <2>2. UNCHANGED <<applied, resolved>>
    BY <1>1 DEF Call, historyVars
  <2> QED BY <2>1, <2>2, LocalChangeType, EmitRefines DEF Queue!Next
<1>2. CASE ApplyPayloads
  BY <1>2, ApplyRefines DEF Queue!Next
<1>3. CASE SetPayloads
  BY <1>3, <1>0 DEF SetPayloads, Stutter, queueVars, historyVars
<1>4. CASE Finish
  BY <1>4, FinishRefines DEF Queue!Next
<1>5. ASSUME NEW reaction \in BOOLEAN, Notify(reaction)
      PROVE  [Queue!Next]_(Queue!vars)
  <2>1. UNCHANGED <<applied, resolved>>
    BY <1>5 DEF Notify
  <2>2. CASE reaction /\ \E x \in Item : LocalChange(x)
    BY <2>1, <2>2, LocalChangeType, EmitRefines DEF Queue!Next
  <2>3. CASE ~(reaction /\ \E x \in Item : LocalChange(x))
    <3>1. UNCHANGED emitQueue
      BY <1>5, <2>3 DEF Notify, Reaction, LocalChange, queueVars
    <3> QED BY <1>0, <2>1, <3>1 DEF Stutter
  <2> QED BY <2>2, <2>3
<1>6. CASE ObserverThrows
  BY <1>6, <1>0 DEF ObserverThrows, Stutter, queueVars, historyVars
<1>7. ASSUME NEW x \in Item, RemoveReference(x)
      PROVE  [Queue!Next]_(Queue!vars)
  <2>0. UNCHANGED <<applied, resolved>> /\ deletions[x].refs \in SUBSET Item
    BY <1>7 DEF RemoveReference, historyVars, TypeOK, Deletion
  <2>1. CASE UNCHANGED queueVars
    BY <2>0, <2>1, <1>0 DEF Stutter, queueVars
  <2>2. ASSUME NEW y \in deletions[x].refs, Exists(y),
               EmitPayload(y, [items[y] EXCEPT !.edits = @ \cup {Change}, !.refs = @ \ {x}], FALSE)
        PROVE  [Queue!Next]_(Queue!vars)
    <3>1. y \in Item /\ Change \in EmitId /\ items[y] \in Payload
      BY <2>0, <2>2, ChangeType DEF Exists, TypeOK
    <3>2. items[y].refs \ {x} \in SUBSET Item
      BY <3>1, PayloadUpdate
    <3>3. [items[y] EXCEPT !.edits = @ \cup {Change}, !.refs = @ \ {x}] \in Payload
      BY <3>1, <3>2, PayloadUpdate
    <3>4. Queue!Emit
      BY <2>0, <2>2, <3>1, <3>3, EmitRefines
    <3> QED BY <3>4 DEF Queue!Next
  <2> QED BY <1>7, <2>1, <2>2 DEF RemoveReference
<1>8. CASE \E x \in Item : RemoveItemLocally(x)
  BY <1>8, <1>0 DEF RemoveItemLocally, Stutter, queueVars, historyVars
<1>9. CASE UNCHANGED vars
  BY <1>9, <1>0 DEF vars, Stutter, queueVars, historyVars
<1> QED BY <1>1, <1>2, <1>3, <1>4, <1>5, <1>6, <1>7, <1>8, <1>9 DEF Next, PopQueue

(* The payload manager implements the queue: for any nesting of emits and  *)
(* with observers that throw, emits are applied one by one in their order, *)
(* and each is resolved before the next is applied.                        *)
THEOREM PayloadManagerEmitsInOrder == Spec => EmitsInOrder
<1>1. Init => Queue!Init
  <2> SUFFICES ASSUME Init PROVE Queue!Init
    OBVIOUS
  <2>1. emitQueue = <<>> /\ applied = <<>> /\ resolved = {}
    BY DEF Init
  <2>2. emitQueue \in Seq(Element)
    BY InitType, OrderTypes
  <2>3. Ids(emitQueue) = <<>>
    BY <2>1, <2>2, IdsType, EmptySequence
  <2> QED BY <2>1, <2>3 DEF Queue!Init, Ids
<1>2. TypeOK /\ OrderInv /\ [Next]_vars => [Queue!Next]_(Queue!vars)
  BY StepRefines
<1> QED
  BY <1>1, <1>2, PayloadManagerTypeCorrect, OrderInvariant, PTL
  DEF Spec, EmitsInOrder, Queue!Spec

-----------------------------------------------------------------------------
(***************************************************************************)
(* What the items come to.  A change is computed from the item it finds,   *)
(* so none is lost as long as no item has two elements that are still to   *)
(* be mapped.  Final is what every item will be once all those elements    *)
(* are mapped: popQueue leaves it alone, and an emit changes one item of   *)
(* it.  An observer that throws stops the queue for good: nothing is said  *)
(* of the items from then on.                                              *)
(***************************************************************************)
Pending == IF step \in {"apply", "map"} THEN DOMAIN emitQueue
           ELSE {i \in DOMAIN emitQueue : i > 1}

OneEach(q, P) == \A i, j \in P : q[i].item = q[j].item => i = j

FinalOf(q, P, its) ==
  [x \in Item |-> IF \E i \in P : q[i].item = x
                  THEN Stored(q[CHOOSE i \in P : q[i].item = x]) ELSE its[x]]

Final == FinalOf(emitQueue, Pending, items)

Whole(final, mades) == \A x \in Item : final[x] # NoPayload => final[x].edits = mades[x]

Alive(final, x) == final[x] # NoPayload /\ ~final[x].deleted

(* A deleted item is referred to by those only that its deletion has still *)
(* to change, and by those that came to refer to it later.                 *)
Owed(dels, x, y) == (dels[x].at # "no" /\ y \in dels[x].refs) \/ y \in dels[x].late

Unreferenced(final, dels) ==
  \A x, y \in Item :
    final[x] # NoPayload /\ final[x].deleted /\ Alive(final, y) /\ x \in final[y].refs
      => Owed(dels, x, y)

ChangesKept == /\ OneEach(emitQueue, Pending)
               /\ Whole(Final, made)
               /\ Unreferenced(Final, deletions)

ChangeInv == step # "thrown" => ChangesKept

LEMMA FinalWaiting ==
  ASSUME NEW q, NEW P, NEW its, OneEach(q, P), NEW i \in P, NEW x \in Item, q[i].item = x
  PROVE  FinalOf(q, P, its)[x] = Stored(q[i])
<1>1. (CHOOSE j \in P : q[j].item = x) = i
  BY DEF OneEach
<1> QED BY <1>1 DEF FinalOf

LEMMA FinalMapped ==
  ASSUME NEW q, NEW P, NEW its, NEW x \in Item, \A i \in P : q[i].item # x
  PROVE  FinalOf(q, P, its)[x] = its[x]
BY DEF FinalOf

LEMMA FinalType ==
  ASSUME TypeOK PROVE Final \in [Item -> Payload \cup {NoPayload}]
<1>1. emitQueue \in Seq(Element) /\ items \in [Item -> Payload \cup {NoPayload}]
  BY DEF TypeOK
<1>2. Pending \subseteq DOMAIN emitQueue
  BY DEF Pending
<1>3. \A i \in DOMAIN emitQueue : Stored(emitQueue[i]) \in Payload \cup {NoPayload}
  <2>1. \A i \in DOMAIN emitQueue : emitQueue[i] \in Element
    BY <1>1, SequenceElement
  <2> QED BY <2>1 DEF Stored, Element
<1>4. \A x \in Item : (\E i \in Pending : emitQueue[i].item = x)
        => (CHOOSE i \in Pending : emitQueue[i].item = x) \in Pending
  OBVIOUS
<1>5. \A x \in Item : Final[x] \in Payload \cup {NoPayload}
  BY <1>1, <1>2, <1>3, <1>4 DEF Final, FinalOf
<1> QED BY <1>5 DEF Final, FinalOf

(* One more element, of an item that had none.                             *)
LEMMA FinalAppended ==
  ASSUME NEW q, NEW P, NEW its, NEW r, NEW n, n \notin P, OneEach(q, P),
         \A i \in P : r[i] = q[i], NEW x \in Item, r[n].item = x, \A i \in P : q[i].item # x
  PROVE  /\ OneEach(r, P \cup {n})
         /\ FinalOf(r, P \cup {n}, its) = [FinalOf(q, P, its) EXCEPT ![x] = Stored(r[n])]
<1> DEFINE F == FinalOf(q, P, its)
           G == FinalOf(r, P \cup {n}, its)
<1>1. OneEach(r, P \cup {n})
  BY DEF OneEach
<1>2. G[x] = Stored(r[n])
  BY <1>1, FinalWaiting
<1>3. ASSUME NEW y \in Item \ {x} PROVE G[y] = F[y]
  <2>1. CASE \E i \in P : q[i].item = y
    <3>1. PICK i \in P : q[i].item = y
      BY <2>1
    <3>2. F[y] = Stored(q[i])
      BY <3>1, FinalWaiting
    <3>3. r[i].item = y /\ i \in P \cup {n}
      BY <3>1
    <3>4. G[y] = Stored(r[i])
      BY <1>1, <3>3, FinalWaiting
    <3> QED BY <3>2, <3>4
  <2>2. CASE ~\E i \in P : q[i].item = y
    <3>1. F[y] = its[y]
      BY <2>2, FinalMapped
    <3>2. \A i \in P \cup {n} : r[i].item # y
      BY <2>2
    <3>3. G[y] = its[y]
      BY <3>2, FinalMapped
    <3> QED BY <3>1, <3>3
  <2> QED BY <2>1, <2>2
<1>4. DOMAIN F = Item /\ DOMAIN G = Item /\ G = [y \in Item |-> G[y]] /\ F = [y \in Item |-> F[y]]
  BY DEF FinalOf
<1> HIDE DEF F, G
<1>5. G = [F EXCEPT ![x] = Stored(r[n])]
  BY <1>2, <1>3, <1>4
<1> QED BY <1>1, <1>5 DEF F, G

(* The same elements, in other places.                                     *)
LEMMA FinalMoved ==
  ASSUME NEW q, NEW P, NEW its, NEW r, NEW R, OneEach(q, P), OneEach(r, R),
         \A i \in P : \E j \in R : r[j] = q[i], \A j \in R : \E i \in P : r[j] = q[i]
  PROVE  FinalOf(r, R, its) = FinalOf(q, P, its)
<1> DEFINE F == FinalOf(q, P, its)
           G == FinalOf(r, R, its)
<1>3. ASSUME NEW y \in Item PROVE G[y] = F[y]
  <2>1. CASE \E i \in P : q[i].item = y
    <3>1. PICK i \in P : q[i].item = y
      BY <2>1
    <3>2. PICK j \in R : r[j] = q[i]
      BY <3>1
    <3>3. F[y] = Stored(q[i])
      BY <3>1, FinalWaiting
    <3>4. G[y] = Stored(r[j])
      BY <3>1, <3>2, FinalWaiting
    <3> QED BY <3>2, <3>3, <3>4
  <2>2. CASE ~\E i \in P : q[i].item = y
    <3>1. F[y] = its[y]
      BY <2>2, FinalMapped
    <3>2. \A j \in R : r[j].item # y
      BY <2>2
    <3>3. G[y] = its[y]
      BY <3>2, FinalMapped
    <3> QED BY <3>1, <3>3
  <2> QED BY <2>1, <2>2
<1>4. G = [y \in Item |-> G[y]] /\ F = [y \in Item |-> F[y]]
  BY DEF FinalOf
<1> HIDE DEF F, G
<1>5. G = F
  BY <1>3, <1>4
<1> QED BY <1>5 DEF F, G

LEMMA EmitFinal ==
  ASSUME TypeOK, BusyInv, step # "thrown", OneEach(emitQueue, Pending),
         NEW x \in Item, NEW payload \in Payload, NEW discardable \in BOOLEAN,
         EmitPayload(x, payload, discardable), UNCHANGED items,
         \A i \in Pending : emitQueue[i].item # x
  PROVE  /\ OneEach(emitQueue', Pending') /\ step' # "thrown"
         /\ Final' = [Final EXCEPT ![x] = IF discardable THEN NoPayload ELSE payload]
<1> DEFINE e == [id |-> emitted + 1, item |-> x, payload |-> payload, discardable |-> discardable]
           n == Len(emitQueue) + 1
           q == emitQueue'
<1>1. /\ emitQueue' = Append(emitQueue, e) /\ emitted' = emitted + 1
      /\ step' = IF emitQueue = <<>> THEN "apply" ELSE step
  BY DEF EmitPayload
<1>2. e \in Element
  BY OrderTypes DEF Element, EmitPayload
<1>3. e.item = x /\ Stored(e) = IF discardable THEN NoPayload ELSE payload
  BY DEF Stored
<1> HIDE DEF e
<1>4. /\ DOMAIN q = 1 .. n /\ q[n] = e /\ n \in Nat /\ DOMAIN emitQueue = 1 .. n - 1
      /\ \A i \in DOMAIN emitQueue : q[i] = emitQueue[i]
  BY <1>1, <1>2, OrderTypes
<1>5. n \notin Pending /\ Pending \subseteq DOMAIN emitQueue
  BY <1>4 DEF Pending
<1>6. Pending' = Pending \cup {n}
  <2>1. CASE emitQueue = <<>>
    <3>1. n = 1 /\ step' = "apply" /\ Pending = {}
      BY <1>1, <2>1 DEF Pending
    <3> QED BY <1>4, <3>1 DEF Pending
  <2>2. CASE emitQueue # <<>>
    <3>1. step' = step /\ n > 1
      BY <1>1, <1>4, <2>2, OrderTypes, EmptySequence
    <3>2. CASE step \in {"apply", "map"}
      BY <1>4, <3>1, <3>2 DEF Pending
    <3>3. CASE step \notin {"apply", "map"}
      BY <1>4, <3>1, <3>3 DEF Pending
    <3> QED BY <3>2, <3>3
  <2> QED BY <2>1, <2>2
<1>7. \A i \in Pending : q[i] = emitQueue[i]
  BY <1>4, <1>5
<1>8. q[n].item = x
  BY <1>3, <1>4
<1>9. /\ OneEach(q, Pending \cup {n})
      /\ FinalOf(q, Pending \cup {n}, items) = [FinalOf(emitQueue, Pending, items) EXCEPT ![x] = Stored(q[n])]
  <2> DEFINE P == Pending
  <2>1. n \notin P /\ OneEach(emitQueue, P) /\ (\A i \in P : q[i] = emitQueue[i])
        /\ (\A i \in P : emitQueue[i].item # x)
    BY <1>5, <1>7
  <2> HIDE DEF P, n, q
  <2>2. /\ OneEach(q, P \cup {n})
        /\ FinalOf(q, P \cup {n}, items) = [FinalOf(emitQueue, P, items) EXCEPT ![x] = Stored(q[n])]
    BY <1>8, <2>1, FinalAppended
  <2> QED BY <2>2 DEF P
<1>10. step' # "thrown"
  BY <1>1
<1>11. Final' = FinalOf(q, Pending', items)
  BY DEF Final
<1>12. Final' = [Final EXCEPT ![x] = Stored(e)]
  BY <1>4, <1>6, <1>9, <1>11 DEF Final
<1> QED BY <1>3, <1>6, <1>9, <1>10, <1>12

(* A change of x that leaves it with refs refers to what there is, or is   *)
(* known to have come late, and pays no debt but its own.                  *)
RefersToKnown(final, dels, x, refs) ==
  \A y \in refs : ~Alive(final, y) => Owed(dels, y, x) \/ (Alive(final, x) /\ y \in final[x].refs)

StillOwed(dels, dels2, x, refs) ==
  \A y, z \in Item : Owed(dels, y, z) => Owed(dels2, y, z) \/ (z = x /\ y \notin refs)

(* What changing, deleting and removing one item does to the two facts.    *)
LEMMA KeptAfterChange ==
  ASSUME NEW final \in [Item -> Payload \cup {NoPayload}], NEW mades \in [Item -> SUBSET EmitId],
         NEW dels, NEW dels2, Whole(final, mades), Unreferenced(final, dels),
         NEW x \in Item, NEW p \in Payload, NEW made2, made2 = [mades EXCEPT ![x] = p.edits],
         ~p.deleted,
         RefersToKnown(final, dels2, x, p.refs), StillOwed(dels, dels2, x, p.refs)
  PROVE  Whole([final EXCEPT ![x] = p], made2) /\ Unreferenced([final EXCEPT ![x] = p], dels2)
<1> DEFINE G == [final EXCEPT ![x] = p]
<1>1. G[x] = p /\ (\A y \in Item : y # x => G[y] = final[y])
  OBVIOUS
<1>2. made2[x] = p.edits /\ (\A y \in Item : y # x => made2[y] = mades[y])
  OBVIOUS
<1> HIDE DEF G
<1>3. Whole(G, made2)
  BY <1>1, <1>2 DEF Whole
<1>4. ASSUME NEW y \in Item, NEW z \in Item, G[y] # NoPayload, G[y].deleted, Alive(G, z), y \in G[z].refs
      PROVE  Owed(dels2, y, z)
  <2>1. y # x /\ G[y] = final[y]
    BY <1>1, <1>4
  <2>2. CASE z = x
    <3>1. y \in p.refs
      BY <1>1, <1>4, <2>2
    <3>2. ~Alive(final, y)
      BY <1>4, <2>1 DEF Alive
    <3>3. CASE Alive(final, x) /\ y \in final[x].refs
      <4>1. Owed(dels, y, x)
        BY <1>4, <2>1, <3>3 DEF Unreferenced
      <4> QED BY <2>2, <3>1, <4>1 DEF StillOwed
    <3> QED BY <2>2, <3>1, <3>2, <3>3 DEF RefersToKnown
  <2>3. CASE z # x
    <3>1. Alive(final, z) /\ y \in final[z].refs
      BY <1>1, <1>4, <2>3 DEF Alive
    <3>2. Owed(dels, y, z)
      BY <1>4, <2>1, <3>1 DEF Unreferenced
    <3> QED BY <2>3, <3>2 DEF StillOwed
  <2> QED BY <2>2, <2>3
<1>5. Unreferenced(G, dels2)
  BY <1>4 DEF Unreferenced, Owed
<1> QED BY <1>3, <1>5 DEF G

LEMMA KeptAfterDeletion ==
  ASSUME NEW final \in [Item -> Payload \cup {NoPayload}], NEW mades \in [Item -> SUBSET EmitId],
         NEW dels \in [Item -> Deletion], Whole(final, mades), Unreferenced(final, dels),
         NEW x \in Item, NEW p \in Payload, p.deleted, NEW d, d.at # "no",
         \A y \in Item : Alive(final, y) /\ x \in final[y].refs => y \in d.refs
  PROVE  /\ Whole([final EXCEPT ![x] = p], [mades EXCEPT ![x] = p.edits])
         /\ Unreferenced([final EXCEPT ![x] = p], [dels EXCEPT ![x] = d])
<1> DEFINE G == [final EXCEPT ![x] = p]
           M == [mades EXCEPT ![x] = p.edits]
           D == [dels EXCEPT ![x] = d]
<1>1. G[x] = p /\ (\A y \in Item : y # x => G[y] = final[y])
  OBVIOUS
<1>2. M[x] = p.edits /\ (\A y \in Item : y # x => M[y] = mades[y])
  OBVIOUS
<1>3. D[x] = d /\ (\A y \in Item : y # x => D[y] = dels[y])
  OBVIOUS
<1> HIDE DEF G, M, D
<1>4. Whole(G, M)
  BY <1>1, <1>2 DEF Whole
<1>5. ASSUME NEW y \in Item, NEW z \in Item, G[y] # NoPayload, G[y].deleted, Alive(G, z), y \in G[z].refs
      PROVE  Owed(D, y, z)
  <2>1. z # x /\ Alive(final, z) /\ y \in final[z].refs
    BY <1>1, <1>5 DEF Alive
  <2>2. CASE y = x
    BY <1>3, <2>1, <2>2 DEF Owed
  <2>3. CASE y # x
    <3>1. Owed(dels, y, z)
      BY <1>1, <1>5, <2>1, <2>3 DEF Unreferenced, Owed
    <3> QED BY <1>3, <2>3, <3>1 DEF Owed
  <2> QED BY <2>2, <2>3
<1>6. Unreferenced(G, D)
  BY <1>5 DEF Unreferenced, Owed
<1> QED BY <1>4, <1>6 DEF G, M, D

LEMMA KeptAfterRemoval ==
  ASSUME NEW final \in [Item -> Payload \cup {NoPayload}], NEW mades, NEW dels,
         Whole(final, mades), Unreferenced(final, dels), NEW x \in Item
  PROVE  /\ Whole([final EXCEPT ![x] = NoPayload], mades)
         /\ Unreferenced([final EXCEPT ![x] = NoPayload], dels)
<1> DEFINE G == [final EXCEPT ![x] = NoPayload]
<1>1. G[x] = NoPayload /\ (\A y \in Item : y # x => G[y] = final[y])
  OBVIOUS
<1> HIDE DEF G
<1>2. Whole(G, mades)
  BY <1>1 DEF Whole
<1>3. Unreferenced(G, dels)
  BY <1>1 DEF Unreferenced, Alive
<1> QED BY <1>2, <1>3 DEF G

(* With nothing to map the items are what they come to.                    *)
LEMMA NothingPending ==
  ASSUME TypeOK, Pending = {} PROVE Final = items
<1>1. \A x \in Item : Final[x] = items[x]
  <2>1. \A x \in Item, i \in Pending : emitQueue[i].item # x
    OBVIOUS
  <2> QED BY <2>1, FinalMapped DEF Final
<1>2. Final = [x \in Item |-> Final[x]] /\ items = [x \in Item |-> items[x]]
  BY DEF Final, FinalOf, TypeOK
<1> QED BY <1>1, <1>2

(* A change of an item that has no other change waiting.                   *)
LEMMA ChangeKept ==
  ASSUME TypeOK, BusyInv, step # "thrown", ChangesKept, UNCHANGED items, NEW x \in Item,
         \A i \in Pending : emitQueue[i].item # x,
         NEW p \in Payload, EmitPayload(x, p, FALSE), made' = [made EXCEPT ![x] = p.edits],
         ~p.deleted,
         RefersToKnown(Final, deletions', x, p.refs), StillOwed(deletions, deletions', x, p.refs)
  PROVE  ChangesKept' /\ step' # "thrown"
<1>1. /\ OneEach(emitQueue', Pending') /\ step' # "thrown"
      /\ Final' = [Final EXCEPT ![x] = p]
  <2>1. OneEach(emitQueue, Pending) /\ FALSE \in BOOLEAN
    BY DEF ChangesKept
  <2>2. /\ OneEach(emitQueue', Pending') /\ step' # "thrown"
        /\ Final' = [Final EXCEPT ![x] = IF FALSE THEN NoPayload ELSE p]
    BY <2>1, EmitFinal
  <2> QED BY <2>2
<1>2. Final \in [Item -> Payload \cup {NoPayload}]
  BY FinalType
<1>3. made \in [Item -> SUBSET EmitId]
  BY DEF TypeOK
<1>4. Whole(Final, made) /\ Unreferenced(Final, deletions)
  BY DEF ChangesKept
<1>5. Whole([Final EXCEPT ![x] = p], made') /\ Unreferenced([Final EXCEPT ![x] = p], deletions')
  <2> DEFINE F == Final  m == made  m2 == made'  d == deletions  d2 == deletions'
  <2>1. /\ F \in [Item -> Payload \cup {NoPayload}] /\ m \in [Item -> SUBSET EmitId]
        /\ Whole(F, m) /\ Unreferenced(F, d) /\ m2 = [m EXCEPT ![x] = p.edits]
    BY <1>2, <1>3, <1>4
  <2>2. RefersToKnown(F, d2, x, p.refs) /\ StillOwed(d, d2, x, p.refs)
    OBVIOUS
  <2> HIDE DEF F, m, m2, d, d2
  <2>4. Whole([F EXCEPT ![x] = p], m2) /\ Unreferenced([F EXCEPT ![x] = p], d2)
    BY <2>1, <2>2, KeptAfterChange
  <2> QED BY <2>4 DEF F, m2, d2
<1> QED BY <1>1, <1>5 DEF ChangesKept

LEMMA CreateOrChangeKept ==
  ASSUME TypeOK, BusyInv, step # "thrown", ChangesKept, UNCHANGED items, NEW x \in Item,
         \A i \in Pending : emitQueue[i].item # x, CreateItem(x) \/ ChangeItem(x)
  PROVE  ChangesKept' /\ step' # "thrown"
<1>1. Final[x] = items[x]
  BY FinalMapped DEF Final
<1>2. deletions' = deletions
  BY DEF CreateItem, ChangeItem
<1>3. \A refs : StillOwed(deletions, deletions', x, refs)
  BY <1>2 DEF StillOwed
<1>4. CASE CreateItem(x)
  <2> DEFINE p == [edits |-> {Change}, refs |-> {}, deleted |-> FALSE]
  <2>1. EmitPayload(x, p, FALSE) /\ made' = [made EXCEPT ![x] = {Change}]
    BY <1>4 DEF CreateItem
  <2>2. p \in Payload /\ p.edits = {Change} /\ p.refs = {} /\ ~p.deleted
    BY <2>1, ChangeType, EmptyPayload
  <2>3. RefersToKnown(Final, deletions', x, p.refs)
    BY <2>2 DEF RefersToKnown
  <2> HIDE DEF p
  <2> QED BY <1>3, <2>1, <2>2, <2>3, ChangeKept
<1>5. CASE ChangeItem(x)
  <2> DEFINE p == [items[x] EXCEPT !.edits = @ \cup {Change}]
  <2>1. /\ EmitPayload(x, p, FALSE) /\ made' = [made EXCEPT ![x] = @ \cup {Change}]
        /\ items[x] # NoPayload /\ ~items[x].deleted
    BY <1>5 DEF ChangeItem, Exists
  <2>2. items[x] \in Payload /\ Change \in EmitId
    BY <2>1, ChangeType DEF TypeOK
  <2>3. /\ p \in Payload /\ p.edits = items[x].edits \cup {Change} /\ p.refs = items[x].refs
        /\ ~p.deleted
    BY <2>1, <2>2, PayloadUpdate DEF Payload
  <2>4. items[x].edits = made[x]
    BY <1>1, <2>1 DEF ChangesKept, Whole
  <2>5. made' = [made EXCEPT ![x] = p.edits]
    BY <2>1, <2>3, <2>4
  <2>6. Alive(Final, x)
    BY <1>1, <2>1 DEF Alive
  <2>7. RefersToKnown(Final, deletions', x, p.refs)
    BY <1>1, <2>3, <2>6 DEF RefersToKnown
  <2> HIDE DEF p
  <2> QED BY <1>3, <2>1, <2>3, <2>5, <2>7, ChangeKept
<1> QED BY <1>4, <1>5

LEMMA AddRelationshipKept ==
  ASSUME TypeOK, BusyInv, step # "thrown", ChangesKept, UNCHANGED items, Pending = {},
         NEW x \in Item, NEW y \in Item, AddRelationship(x, y)
  PROVE  ChangesKept' /\ step' # "thrown"
<1> DEFINE p == [items[x] EXCEPT !.edits = @ \cup {Change}, !.refs = @ \cup {y}]
<1>1. Final = items
  BY NothingPending
<1>2. /\ EmitPayload(x, p, FALSE) /\ made' = [made EXCEPT ![x] = @ \cup {Change}]
      /\ items[x] # NoPayload /\ ~items[x].deleted
      /\ deletions' = [deletions EXCEPT ![y].late = IF Exists(y) THEN @ ELSE @ \cup {x}]
  BY DEF AddRelationship, Exists
<1>3. items[x] \in Payload /\ Change \in EmitId
  BY <1>2, ChangeType DEF TypeOK
<1>4. items[x].refs \cup {y} \in SUBSET Item
  BY <1>3, PayloadUpdate
<1>5. /\ p \in Payload /\ p.edits = items[x].edits \cup {Change}
      /\ p.refs = items[x].refs \cup {y} /\ ~p.deleted
  BY <1>2, <1>3, <1>4, PayloadUpdate DEF Payload
<1>6. items[x].edits = made[x]
  BY <1>1, <1>2 DEF ChangesKept, Whole
<1>7. made' = [made EXCEPT ![x] = p.edits]
  BY <1>2, <1>5, <1>6
<1>10. /\ \A z \in Item : deletions'[z].at = deletions[z].at /\ deletions'[z].refs = deletions[z].refs
       /\ \A z \in Item : deletions[z].late \subseteq deletions'[z].late
       /\ ~Exists(y) => x \in deletions'[y].late
  <2>1. deletions \in [Item -> Deletion]
    BY DEF TypeOK
  <2>2. /\ deletions'[y].at = deletions[y].at /\ deletions'[y].refs = deletions[y].refs
        /\ deletions'[y].late = IF Exists(y) THEN deletions[y].late ELSE deletions[y].late \cup {x}
    BY <1>2, <2>1 DEF Deletion
  <2>3. \A z \in Item : z # y => deletions'[z] = deletions[z]
    BY <1>2, <2>1
  <2> QED BY <2>2, <2>3
<1>8. RefersToKnown(Final, deletions', x, p.refs)
  BY <1>1, <1>2, <1>5, <1>10 DEF Alive, Exists, Owed, RefersToKnown
<1>9. StillOwed(deletions, deletions', x, p.refs)
  BY <1>10 DEF Owed, StillOwed
<1> HIDE DEF p
<1> QED BY <1>2, <1>5, <1>7, <1>8, <1>9, ChangeKept

(* Every item that refers to the deleted one is found by Referencing.      *)
LEMMA DeleteItemKept ==
  ASSUME TypeOK, BusyInv, step # "thrown", ChangesKept, UNCHANGED items, Pending = {},
         NEW x \in Item, DeleteItem(x)
  PROVE  ChangesKept' /\ step' # "thrown"
<1> DEFINE p == [items[x] EXCEPT !.edits = @ \cup {Change}, !.refs = {}, !.deleted = TRUE]
           d == [at |-> "emitted", waits |-> Change, refs |-> Referencing(x), late |-> deletions[x].late]
<1>1. Final = items
  BY NothingPending
<1>2. /\ EmitPayload(x, p, FALSE) /\ made' = [made EXCEPT ![x] = @ \cup {Change}]
      /\ items[x] # NoPayload /\ ~items[x].deleted
      /\ deletions' = [deletions EXCEPT ![x] = d]
  BY DEF DeleteItem, Exists
<1>3. items[x] \in Payload /\ Change \in EmitId
  BY <1>2, ChangeType DEF TypeOK
<1>4. p \in Payload /\ p.edits = items[x].edits \cup {Change} /\ p.deleted
  <2>1. {} \in SUBSET Item
    OBVIOUS
  <2>2. p \in Payload
    BY <1>3, <2>1, PayloadUpdate
  <2> QED BY <1>3, <2>2 DEF Payload
<1>5. items[x].edits = made[x]
  BY <1>1, <1>2 DEF ChangesKept, Whole
<1>6. made' = [made EXCEPT ![x] = p.edits]
  BY <1>2, <1>4, <1>5
<1>7. d.at # "no" /\ (\A y \in Item : Alive(Final, y) /\ x \in Final[y].refs => y \in d.refs)
  BY <1>1 DEF Alive, Referencing, Exists
<1> HIDE DEF p, d
<1>8. /\ OneEach(emitQueue', Pending') /\ step' # "thrown"
      /\ Final' = [Final EXCEPT ![x] = p]
  <2>1. OneEach(emitQueue, Pending) /\ FALSE \in BOOLEAN
    BY DEF ChangesKept
  <2>2. /\ OneEach(emitQueue', Pending') /\ step' # "thrown"
        /\ Final' = [Final EXCEPT ![x] = IF FALSE THEN NoPayload ELSE p]
    BY <1>2, <1>4, <2>1, EmitFinal
  <2> QED BY <2>2
<1>9. /\ Whole([Final EXCEPT ![x] = p], [made EXCEPT ![x] = p.edits])
      /\ Unreferenced([Final EXCEPT ![x] = p], [deletions EXCEPT ![x] = d])
  <2> DEFINE F == Final  m == made  e == deletions
  <2>1. /\ F \in [Item -> Payload \cup {NoPayload}] /\ m \in [Item -> SUBSET EmitId]
        /\ e \in [Item -> Deletion] /\ Whole(F, m) /\ Unreferenced(F, e)
    BY FinalType DEF TypeOK, ChangesKept
  <2>2. \A y \in Item : Alive(F, y) /\ x \in F[y].refs => y \in d.refs
    BY <1>7
  <2> HIDE DEF F, m, e
  <2>3. /\ Whole([F EXCEPT ![x] = p], [m EXCEPT ![x] = p.edits])
        /\ Unreferenced([F EXCEPT ![x] = p], [e EXCEPT ![x] = d])
    BY <1>4, <1>7, <2>1, <2>2, KeptAfterDeletion
  <2> QED BY <2>3 DEF F, m, e
<1> QED BY <1>2, <1>6, <1>8, <1>9 DEF ChangesKept

LEMMA DiscardItemKept ==
  ASSUME TypeOK, BusyInv, step # "thrown", ChangesKept, UNCHANGED items, Pending = {},
         NEW x \in Item, DiscardItem(x)
  PROVE  ChangesKept' /\ step' # "thrown"
<1>1. items[x] \in Payload /\ EmitPayload(x, items[x], TRUE) /\ made' = made /\ deletions' = deletions
  BY DEF DiscardItem, TypeOK
<1>2. /\ OneEach(emitQueue', Pending') /\ step' # "thrown"
      /\ Final' = [Final EXCEPT ![x] = NoPayload]
  <2>1. OneEach(emitQueue, Pending) /\ TRUE \in BOOLEAN
    BY DEF ChangesKept
  <2>2. /\ OneEach(emitQueue', Pending') /\ step' # "thrown"
        /\ Final' = [Final EXCEPT ![x] = IF TRUE THEN NoPayload ELSE items[x]]
    BY <1>1, <2>1, EmitFinal
  <2> QED BY <2>2
<1>3. /\ Whole([Final EXCEPT ![x] = NoPayload], made)
      /\ Unreferenced([Final EXCEPT ![x] = NoPayload], deletions)
  BY FinalType, KeptAfterRemoval DEF ChangesKept
<1> QED BY <1>1, <1>2, <1>3 DEF ChangesKept

LEMMA LocalChangeKept ==
  ASSUME TypeOK, BusyInv, step # "thrown", ChangesKept, UNCHANGED items, Pending = {},
         NEW x \in Item, LocalChange(x) \/ DiscardItem(x)
  PROVE  ChangesKept' /\ step' # "thrown"
<1>1. \A i \in Pending : emitQueue[i].item # x
  OBVIOUS
<1>2. CASE CreateItem(x) \/ ChangeItem(x)
  BY <1>1, <1>2, CreateOrChangeKept
<1>3. CASE \E y \in Item : AddRelationship(x, y)
  BY <1>3, AddRelationshipKept
<1>4. CASE DeleteItem(x)
  BY <1>4, DeleteItemKept
<1>5. CASE DiscardItem(x)
  BY <1>5, DiscardItemKept
<1> QED BY <1>2, <1>3, <1>4, <1>5 DEF LocalChange

(* The removal of a reference: callers run when no change waits.           *)
LEMMA QuietPending ==
  ASSUME TypeOK, BusyInv, Quiet, step # "thrown" PROVE Pending = {} /\ emitQueue = <<>>
BY DEF Quiet, BusyInv, Pending

LEMMA RemoveReferenceKept ==
  ASSUME TypeOK, BusyInv, step # "thrown", ChangesKept, NEW x \in Item, RemoveReference(x)
  PROVE  ChangesKept' /\ step' # "thrown"
<1>0. /\ Quiet /\ UNCHANGED items /\ deletions[x].at # "no"
      /\ deletions \in [Item -> Deletion] /\ deletions[x].refs \in SUBSET Item
  BY DEF RemoveReference, TypeOK, Deletion
<1>1. Pending = {} /\ Final = items
  BY <1>0, QuietPending, NothingPending
<1>2. ASSUME UNCHANGED <<queueVars, step, made>>,
             \A y, z \in Item : Owed(deletions, y, z) /\ Alive(Final, z) => Owed(deletions', y, z)
      PROVE  ChangesKept' /\ step' # "thrown"
  <2>1. Final' = Final /\ OneEach(emitQueue', Pending') /\ step' # "thrown"
    BY <1>0, <1>2 DEF Final, Pending, queueVars, ChangesKept
  <2>2. Whole(Final', made')
    BY <1>2, <2>1 DEF ChangesKept
  <2>3. Unreferenced(Final', deletions')
    BY <1>2, <2>1 DEF ChangesKept, Unreferenced, Owed
  <2> QED BY <2>1, <2>2, <2>3 DEF ChangesKept
<1>3. CASE deletions[x].refs = {}
  <2>1. /\ deletions' = [deletions EXCEPT ![x] = [at |-> "no", waits |-> 0, refs |-> {}, late |-> @.late]]
        /\ UNCHANGED <<queueVars, step, made>>
    BY <1>3 DEF RemoveReference
  <2>3. deletions'[x].late = deletions[x].late /\ (\A y \in Item : y # x => deletions'[y] = deletions[y])
    BY <1>0, <2>1
  <2>2. \A y, z \in Item : Owed(deletions, y, z) => Owed(deletions', y, z)
    BY <1>3, <2>3 DEF Owed
  <2> QED BY <1>2, <2>1, <2>2
<1>4. ASSUME NEW y \in deletions[x].refs, Exists(y),
             EmitPayload(y, [items[y] EXCEPT !.edits = @ \cup {Change}, !.refs = @ \ {x}], FALSE),
             made' = [made EXCEPT ![y] = @ \cup {Change}],
             deletions' = [deletions EXCEPT ![x] = [at |-> "references", waits |-> Change,
                                                    refs |-> @.refs \ {y}, late |-> @.late]]
      PROVE  ChangesKept' /\ step' # "thrown"
  <2> DEFINE p == [items[y] EXCEPT !.edits = @ \cup {Change}, !.refs = @ \ {x}]
  <2>1. y \in Item /\ Change \in EmitId /\ items[y] \in Payload /\ ~items[y].deleted /\ items[y] # NoPayload
    BY <1>0, <1>4, ChangeType DEF Exists, TypeOK
  <2>2. items[y].refs \ {x} \in SUBSET Item
    BY <2>1, PayloadUpdate
  <2>3. /\ p \in Payload /\ p.edits = items[y].edits \cup {Change}
        /\ p.refs = items[y].refs \ {x} /\ ~p.deleted
    BY <2>1, <2>2, PayloadUpdate DEF Payload
  <2>4. items[y].edits = made[y]
    BY <1>1, <2>1 DEF ChangesKept, Whole
  <2>5. made' = [made EXCEPT ![y] = p.edits]
    BY <1>4, <2>3, <2>4
  <2>6. RefersToKnown(Final, deletions', y, p.refs)
    BY <1>1, <2>1, <2>3 DEF Alive, RefersToKnown
  <2>7. StillOwed(deletions, deletions', y, p.refs)
    <3>1. /\ deletions'[x].at # "no" /\ deletions'[x].refs = deletions[x].refs \ {y}
          /\ deletions'[x].late = deletions[x].late
      BY <1>0, <1>4
    <3>2. \A z \in Item : z # x => deletions'[z] = deletions[z]
      BY <1>0, <1>4
    <3> QED BY <2>3, <3>1, <3>2 DEF Owed, StillOwed
  <2>8. EmitPayload(y, p, FALSE)
    BY <1>4
  <2>9. \A i \in Pending : emitQueue[i].item # y
    BY <1>1
  <2> HIDE DEF p
  <2> QED BY <1>0, <2>1, <2>3, <2>5, <2>6, <2>7, <2>8, <2>9, ChangeKept
<1>5. ASSUME NEW y \in deletions[x].refs, ~Exists(y),
             deletions' = [deletions EXCEPT ![x].refs = @ \ {y}],
             UNCHANGED <<queueVars, step, made>>
      PROVE  ChangesKept' /\ step' # "thrown"
  <2>1. ~Alive(Final, y)
    BY <1>1, <1>5 DEF Alive, Exists
  <2>2. /\ deletions'[x].at = deletions[x].at /\ deletions'[x].refs = deletions[x].refs \ {y}
        /\ deletions'[x].late = deletions[x].late
    BY <1>0, <1>5
  <2>3. \A z \in Item : z # x => deletions'[z] = deletions[z]
    BY <1>0, <1>5
  <2>4. \A z, w \in Item : Owed(deletions, z, w) /\ Alive(Final, w) => Owed(deletions', z, w)
    BY <2>1, <2>2, <2>3 DEF Owed
  <2> QED BY <1>2, <1>5, <2>4
<1> QED BY <1>3, <1>4, <1>5 DEF RemoveReference

(* The steps of popQueue: what waits is mapped, as it was emitted.         *)
LEMMA SetPayloadsKept ==
  ASSUME TypeOK, BusyInv, ChangesKept, SetPayloads PROVE ChangesKept' /\ step' # "thrown"
<1>1. /\ emitQueue \in Seq(Element) /\ emitQueue # <<>> /\ emitQueue' = emitQueue
      /\ step = "map" /\ step' = "observers" /\ made' = made /\ deletions' = deletions
      /\ items' = [items EXCEPT ![First.item] = Stored(First)]
  BY DEF SetPayloads, TypeOK, BusyInv, queueVars
<1>2. First = emitQueue[1] /\ First \in Element /\ 1 \in DOMAIN emitQueue
  <2>1. First = emitQueue[1] /\ First \in Element /\ Len(emitQueue) >= 1
    BY <1>1, QueueHead DEF First
  <2> QED BY <1>1, <2>1
<1>3. Pending = DOMAIN emitQueue /\ Pending' = {i \in DOMAIN emitQueue : i > 1}
  BY <1>1 DEF Pending
<1>3a. \A i \in DOMAIN emitQueue : i # 1 => i > 1
  BY <1>1
<1>4. OneEach(emitQueue', Pending')
  BY <1>1, <1>3 DEF ChangesKept, OneEach
<1>5. First.item \in Item /\ items'[First.item] = Stored(First)
      /\ (\A x \in Item : x # First.item => items'[x] = items[x])
  BY <1>1, <1>2 DEF Element, TypeOK
<1>6. ASSUME NEW x \in Item PROVE Final'[x] = Final[x]
  <2>0. Final' = FinalOf(emitQueue, Pending', items')
    BY <1>1 DEF Final
  <2>1. CASE x = First.item
    <3>1. \A i \in Pending' : emitQueue[i].item # x
      BY <1>2, <1>3, <2>1 DEF ChangesKept, OneEach
    <3>2. Final'[x] = items'[x]
      BY <2>0, <3>1, FinalMapped
    <3>3. Final[x] = Stored(First)
      BY <1>2, <1>3, <2>1, FinalWaiting DEF ChangesKept, Final
    <3> QED BY <1>5, <2>1, <3>2, <3>3
  <2>2. CASE x # First.item /\ \E i \in Pending : emitQueue[i].item = x
    <3>1. PICK i \in Pending : emitQueue[i].item = x
      BY <2>2
    <3>2. i \in Pending'
      BY <1>2, <1>3, <1>3a, <2>2, <3>1
    <3>3. Final'[x] = Stored(emitQueue[i])
      BY <1>1, <1>4, <2>0, <3>1, <3>2, FinalWaiting
    <3>4. Final[x] = Stored(emitQueue[i])
      BY <3>1, FinalWaiting DEF ChangesKept, Final
    <3> QED BY <3>3, <3>4
  <2>3. CASE x # First.item /\ ~\E i \in Pending : emitQueue[i].item = x
    <3>1. \A i \in Pending' : emitQueue[i].item # x
      BY <1>3, <2>3
    <3>2. Final'[x] = items'[x]
      BY <2>0, <3>1, FinalMapped
    <3>3. Final[x] = items[x]
      BY <2>3, FinalMapped DEF Final
    <3> QED BY <1>5, <2>3, <3>2, <3>3
  <2> QED BY <2>1, <2>2, <2>3
<1>7. Final' = Final
  <2>1. Final = [x \in Item |-> Final[x]] /\ Final' = [x \in Item |-> Final'[x]]
    BY DEF Final, FinalOf
  <2> QED BY <1>6, <2>1
<1> QED BY <1>1, <1>4, <1>7 DEF ChangesKept

LEMMA FinishKept ==
  ASSUME TypeOK, BusyInv, ChangesKept, Finish PROVE ChangesKept' /\ step' # "thrown"
<1> DEFINE q == emitQueue
           r == Tail(emitQueue)
           R == DOMAIN r
<1>1. /\ q \in Seq(Element) /\ q # <<>> /\ emitQueue' = r /\ step = "observers"
      /\ step' = (IF Len(q) = 1 THEN "idle" ELSE "apply")
      /\ made' = made /\ deletions' = deletions /\ items' = items
  BY DEF Finish, TypeOK, BusyInv
<1>2. /\ r \in Seq(Element) /\ Len(r) = Len(q) - 1 /\ Len(q) >= 1
      /\ \A i \in R : i + 1 \in DOMAIN q /\ r[i] = q[i + 1]
      /\ Len(q) = 1 <=> r = <<>>
  BY <1>1, QueueHead
<1>3. Pending = {i \in DOMAIN q : i > 1} /\ Pending' = R
  <2>1. CASE Len(q) = 1
    BY <1>1, <1>2, <2>1 DEF Pending
  <2>2. CASE Len(q) # 1
    BY <1>1, <1>2, <2>2 DEF Pending
  <2> QED BY <2>1, <2>2
<1>4. DOMAIN q = 1 .. Len(q) /\ R = 1 .. Len(q) - 1 /\ Len(q) \in Nat
  BY <1>1, <1>2
<1>5. \A i \in R : i + 1 \in Pending /\ r[i] = q[i + 1]
  BY <1>2, <1>3, <1>4
<1>6. \A i \in Pending : i - 1 \in R /\ r[i - 1] = q[i]
  <2> TAKE i \in Pending
  <2>1. i \in Nat /\ i > 1 /\ i <= Len(q)
    BY <1>3, <1>4
  <2>2. i - 1 \in R /\ (i - 1) + 1 = i
    BY <1>4, <2>1
  <2> QED BY <1>5, <2>2
<1>7. OneEach(r, R)
  <2> SUFFICES ASSUME NEW i \in R, NEW j \in R, r[i].item = r[j].item PROVE i = j
    BY DEF OneEach
  <2>1. q[i + 1].item = q[j + 1].item /\ i + 1 \in Pending /\ j + 1 \in Pending
    BY <1>5
  <2>2. i + 1 = j + 1
    BY <2>1 DEF ChangesKept, OneEach
  <2>3. i \in Nat /\ j \in Nat
    BY <1>4
  <2> QED BY <2>2, <2>3
<1>8. FinalOf(r, R, items) = FinalOf(q, Pending, items)
  <2> DEFINE P == Pending
  <2>1. OneEach(q, P)
    BY DEF ChangesKept
  <2>2. (\A i \in P : \E j \in R : r[j] = q[i]) /\ (\A j \in R : \E i \in P : r[j] = q[i])
    BY <1>5, <1>6
  <2> HIDE DEF P, q, r, R
  <2>3. FinalOf(r, R, items) = FinalOf(q, P, items)
    BY <1>7, <2>1, <2>2, FinalMoved
  <2> QED BY <2>3 DEF P
<1>9. Final' = Final
  BY <1>1, <1>3, <1>8 DEF Final
<1>10. step' # "thrown"
  BY <1>1
<1> QED BY <1>1, <1>3, <1>7, <1>9, <1>10 DEF ChangesKept

(* An observer only changes what no element that waits is about to change. *)
LEMMA NotifyKept ==
  ASSUME "staleReaction" \notin Environment, TypeOK, BusyInv, ChangesKept,
         NEW reaction \in BOOLEAN, Notify(reaction)
  PROVE  ChangesKept' /\ step' # "thrown"
<1>1. step = "observers" /\ UNCHANGED items /\ emitQueue \in Seq(Element)
  BY DEF Notify, TypeOK
<1>2. Pending = {i \in DOMAIN emitQueue : i > 1} /\ DOMAIN emitQueue = 1 .. Len(emitQueue)
      /\ Len(emitQueue) \in Nat
  BY <1>1 DEF Pending
<1>3. \A i \in Pending : Waiting(emitQueue[i].item) /\ emitQueue[i].item \in Item
  <2> TAKE i \in Pending
  <2>1. i \in 2 .. Len(emitQueue) /\ i \in DOMAIN emitQueue
    BY <1>2
  <2>2. emitQueue[i] \in Element
    BY <1>1, <2>1, SequenceElement
  <2> QED BY <2>1, <2>2 DEF Waiting, Element
<1>4. CASE ~reaction
  <2>1. UNCHANGED <<emitQueue, step, made, deletions, items>>
    BY <1>1, <1>4 DEF Notify, queueVars
  <2> QED BY <1>1, <2>1 DEF ChangesKept, Final, Pending
<1>5. CASE reaction
  <2>1. PICK x \in Item : \/ (~\E y \in Item : Waiting(y)) /\ LocalChange(x)
                          \/ ~Waiting(x) /\ (CreateItem(x) \/ ChangeItem(x))
    BY <1>5 DEF Notify, Reaction
  <2>2. CASE (~\E y \in Item : Waiting(y)) /\ LocalChange(x)
    <3>1. Pending = {}
      BY <1>3, <2>2
    <3> QED BY <1>1, <2>2, <3>1, LocalChangeKept
  <2>3. CASE ~Waiting(x) /\ (CreateItem(x) \/ ChangeItem(x))
    <3>1. \A i \in Pending : emitQueue[i].item # x
      BY <1>3, <2>3
    <3> QED BY <1>1, <2>3, <3>1, CreateOrChangeKept
  <2> QED BY <2>1, <2>2, <2>3
<1> QED BY <1>4, <1>5

LEMMA RemoveItemLocallyKept ==
  ASSUME TypeOK, BusyInv, step # "thrown", ChangesKept, NEW x \in Item, RemoveItemLocally(x)
  PROVE  ChangesKept' /\ step' # "thrown"
<1>1. /\ Quiet /\ items' = [items EXCEPT ![x] = NoPayload]
      /\ UNCHANGED <<emitQueue, step, made, deletions>>
  BY DEF RemoveItemLocally, queueVars, progressVars
<1>2. Pending = {} /\ Final = items
  BY <1>1, QuietPending, NothingPending
<1>3. Pending' = {} /\ OneEach(emitQueue', Pending')
  BY <1>1, <1>2 DEF Pending, OneEach
<1>4. Final' = items'
  <2>1. \A y \in Item : Final'[y] = items'[y]
    BY <1>3 DEF Final, FinalOf
  <2>2. Final' = [y \in Item |-> Final'[y]] /\ items' = [y \in Item |-> items'[y]]
    BY <1>1 DEF Final, FinalOf, TypeOK
  <2> QED BY <2>1, <2>2
<1>5. Whole(items', made) /\ Unreferenced(items', deletions)
  BY <1>1, <1>2, KeptAfterRemoval DEF ChangesKept, TypeOK
<1> QED BY <1>1, <1>3, <1>4, <1>5 DEF ChangesKept

(* An observer that has thrown leaves the queue as it is, for good.        *)
LEMMA ThrownStays ==
  ASSUME TypeOK, BusyInv, step = "thrown", [Next]_vars PROVE step' = "thrown"
<1>1. emitQueue # <<>>
  BY DEF BusyInv
<1>2. ASSUME NEW x, NEW p, NEW d, EmitPayload(x, p, d) PROVE step' = step
  BY <1>1, <1>2 DEF EmitPayload
<1>3. ASSUME NEW x \in Item, LocalChange(x) \/ DiscardItem(x) PROVE step' = step
  BY <1>2, <1>3 DEF LocalChange, CreateItem, ChangeItem, AddRelationship, DeleteItem, DiscardItem
<1>4. ASSUME NEW x \in Item, RemoveReference(x) PROVE step' = step
  BY <1>2, <1>4 DEF RemoveReference
<1>5. CASE Call
  BY <1>3, <1>5 DEF Call
<1>6. CASE PopQueue \/ ObserverThrows
  BY <1>6 DEF PopQueue, ApplyPayloads, SetPayloads, Finish, Notify, ObserverThrows
<1>7. CASE \E x \in Item : RemoveReference(x) \/ RemoveItemLocally(x)
  BY <1>1, <1>4, <1>7 DEF RemoveItemLocally
<1>8. CASE UNCHANGED vars
  BY <1>8 DEF vars, progressVars
<1> QED BY <1>5, <1>6, <1>7, <1>8 DEF Next

LEMMA InitChanges == ASSUME Init PROVE ChangeInv
<1>1. Pending = {} /\ TypeOK
  BY InitType DEF Init, Pending
<1>2. Final = items
  BY <1>1, NothingPending
<1>3. OneEach(emitQueue, Pending)
  BY <1>1 DEF OneEach
<1>4. \A x \in Item : items[x] = NoPayload
  BY DEF Init
<1>5. Whole(Final, made) /\ Unreferenced(Final, deletions)
  BY <1>2, <1>4 DEF Whole, Unreferenced, Alive
<1> QED BY <1>3, <1>5 DEF ChangeInv, ChangesKept

LEMMA NextChanges ==
  ASSUME "staleReaction" \notin Environment, TypeOK, BusyInv, ChangeInv, [Next]_vars
  PROVE  ChangeInv'
<1>1. CASE step = "thrown"
  BY <1>1, ThrownStays DEF ChangeInv
<1>2. CASE step # "thrown"
  <2>0. ChangesKept
    BY <1>2 DEF ChangeInv
  <2>1. CASE Call
    <3>1. Pending = {} /\ UNCHANGED items
      BY <1>2, <2>1, QuietPending DEF Call
    <3>2. PICK x \in Item : LocalChange(x) \/ DiscardItem(x)
      BY <2>1 DEF Call
    <3>3. ChangesKept'
      BY <1>2, <2>0, <3>1, <3>2, LocalChangeKept
    <3> QED BY <3>3 DEF ChangeInv
  <2>2. CASE ApplyPayloads
    <3>1. /\ UNCHANGED <<emitQueue, items, made, deletions>>
          /\ step = "apply" /\ step' = "map"
      BY <2>2 DEF ApplyPayloads, queueVars
    <3>2. Pending' = Pending
      BY <3>1 DEF Pending
    <3>3. ChangesKept'
      BY <2>0, <3>1, <3>2 DEF ChangesKept, Final
    <3> QED BY <3>3 DEF ChangeInv
  <2>3. CASE SetPayloads
    BY <2>0, <2>3, SetPayloadsKept DEF ChangeInv
  <2>4. CASE Finish
    BY <2>0, <2>4, FinishKept DEF ChangeInv
  <2>5. CASE \E reaction \in BOOLEAN : Notify(reaction)
    BY <2>0, <2>5, NotifyKept DEF ChangeInv
  <2>6. CASE ObserverThrows
    BY <2>6 DEF ObserverThrows, ChangeInv
  <2>7. ASSUME NEW x \in Item, RemoveReference(x) PROVE ChangeInv'
    BY <1>2, <2>0, <2>7, RemoveReferenceKept DEF ChangeInv
  <2>8. ASSUME NEW x \in Item, RemoveItemLocally(x) PROVE ChangeInv'
    BY <1>2, <2>0, <2>8, RemoveItemLocallyKept DEF ChangeInv
  <2>9. CASE UNCHANGED vars
    <3>1. UNCHANGED <<emitQueue, items, made, deletions, step>>
      BY <2>9 DEF vars, queueVars, progressVars
    <3>2. Pending' = Pending
      BY <3>1 DEF Pending
    <3>3. ChangesKept'
      BY <2>0, <3>1, <3>2 DEF ChangesKept, Final
    <3> QED BY <3>3 DEF ChangeInv
  <2> QED BY <2>1, <2>2, <2>3, <2>4, <2>5, <2>6, <2>7, <2>8, <2>9 DEF Next, PopQueue
<1> QED BY <1>1, <1>2

LEMMA PayloadManagerChanges ==
  ASSUME "staleReaction" \notin Environment PROVE Spec => []ChangeInv
<1>1. Init => ChangeInv
  BY InitChanges
<1>2. TypeOK /\ BusyInv /\ ChangeInv /\ [Next]_vars => ChangeInv'
  BY NextChanges
<1>3. OrderInv => BusyInv
  BY DEF OrderInv
<1> QED BY <1>1, <1>2, <1>3, PayloadManagerTypeCorrect, OrderInvariant, PTL DEF Spec

(* With an empty queue nothing has thrown, and nothing waits.              *)
LEMMA EmptyQueueKept ==
  ASSUME TypeOK, BusyInv, ChangeInv, emitQueue = <<>>
  PROVE  Whole(items, made) /\ Unreferenced(items, deletions)
<1>1. step = "idle" /\ Pending = {}
  BY DEF BusyInv, Pending
<1>2. Final = items /\ ChangesKept
  BY <1>1, NothingPending DEF ChangeInv
<1> QED BY <1>2 DEF ChangesKept

(* Nobody's change is lost: when the queue is empty every item has in it   *)
(* all the changes that were ever made to it, as long as observers leave   *)
(* alone the items whose change waits in the queue (changeItem,            *)
(* emitDeltaEmit).                                                         *)
THEOREM PayloadManagerNoChangeReverted ==
  ASSUME "staleReaction" \notin Environment PROVE Spec => []NoChangeReverted
<1>1. TypeOK /\ BusyInv /\ ChangeInv => NoChangeReverted
  BY EmptyQueueKept DEF NoChangeReverted, Whole
<1>2. OrderInv => BusyInv
  BY DEF OrderInv
<1> QED BY <1>1, <1>2, PayloadManagerChanges, PayloadManagerTypeCorrect, OrderInvariant, PTL

(* No item is left that refers to a deleted one once setItemToBeDeleted    *)
(* has returned, under the same condition, but for those that came to      *)
(* refer to it after it was deleted (AddRelationship).                     *)
THEOREM PayloadManagerDeletedItemsAreUnreferenced ==
  ASSUME "staleReaction" \notin Environment PROVE Spec => []DeletedItemsAreUnreferenced
<1>1. TypeOK /\ BusyInv /\ ChangeInv => DeletedItemsAreUnreferenced
  BY EmptyQueueKept DEF DeletedItemsAreUnreferenced, Unreferenced, Owed, Alive, Exists
<1>2. OrderInv => BusyInv
  BY DEF OrderInv
<1> QED BY <1>1, <1>2, PayloadManagerChanges, PayloadManagerTypeCorrect, OrderInvariant, PTL
=============================================================================
