------------------------- MODULE KeyRecovery_proofs -------------------------
(***************************************************************************)
(* Theorems about KeyRecovery: for any number of items keys, passwords,    *)
(* runs, arrivals and restarts, no items key is lost if no new version of  *)
(* a key arrives while one is being recovered, and the local root key is   *)
(* only replaced by a later one if the password does not change during a   *)
(* run.                                                                    *)
(***************************************************************************)
EXTENDS KeyRecovery, TLAPS

(* The record of a run, whatever it has taken from the queue.               *)
Record(A) == [at : Stage, serverParams : A, item : A, replace : BOOLEAN, root : A, matching : A]

Shape == \E A : run \in [Run -> Record(A)]

(* What is removed from the isolated storage has been saved.                *)
Has(versions, k) == \E i \in DOMAIN versions : versions[i].key = k

SavedInv ==
  \A r \in Run : run[r].at = "notifying" =>
    \A k \in Key : Has(run[r].matching, k) => database[k].number = received[k]

(* What is kept of every items key.                                         *)
Indexed ==
  /\ database = [k \in Key |-> database[k]]
  /\ undecryptables = [k \in Key |-> undecryptables[k]]
  /\ received = [k \in Key |-> received[k]]

KeptInv == Indexed /\ Shape /\ SavedInv /\ UndecryptablesAreKept

(* A run knows the parameters of the server, and replaces the root key only *)
(* by one that has them.                                                    *)
Knows(record) ==
  /\ record.at \in {"prompt", "setRootKey", "decrypting", "saving", "notifying"} =>
       record.serverParams \in {0, server}
  /\ record.at = "prompt" /\ record.replace => record.item.root = server
  /\ record.at = "setRootKey" => record.root = server

RootInv ==
  /\ server \in RootKey \ {0} /\ client \in RootKey /\ client <= server
  /\ Shape /\ \A r \in Run : Knows(run[r])

-----------------------------------------------------------------------------
(* How runs change.                                                         *)
LEMMA IdleShape ==
  ASSUME NEW stage \in Stage
  PROVE  /\ [Idle EXCEPT !.at = stage].at = stage
         /\ \E A : Idle \in Record(A) /\ [Idle EXCEPT !.at = stage] \in Record(A)
<1>1. Idle \in Record({NoVersion, 0, <<>>})
  BY KeyRecoveryAssumption DEF KeyRecoveryAssumption, Idle, Record, Stage, RootKey
<1>2. [Idle EXCEPT !.at = stage] \in Record({NoVersion, 0, <<>>})
  BY <1>1 DEF Record
<1>3. QED BY <1>1, <1>2 DEF Record

LEMMA ShapeKept ==
  ASSUME Shape, NEW r \in Run, NEW n, \E B : n \in Record(B), run' = [run EXCEPT ![r] = n]
  PROVE  Shape' /\ run'[r] = n /\ \A s \in Run \ {r} : run'[s] = run[s]
<1>1. PICK A : run \in [Run -> Record(A)]
  BY DEF Shape
<1>2. PICK B : n \in Record(B)
  OBVIOUS
<1>3. n \in Record(A \cup B) /\ \A s \in Run : run[s] \in Record(A \cup B)
  BY <1>1, <1>2 DEF Record
<1>4. run' \in [Run -> Record(A \cup B)]
  BY <1>1, <1>3
<1>5. QED BY <1>1, <1>4 DEF Shape

LEMMA ToShape ==
  ASSUME Shape, NEW r \in Run, NEW stage \in Stage, To(r, stage)
  PROVE  /\ Shape' /\ \A s \in Run \ {r} : run'[s] = run[s]
         /\ run'[r].at = stage /\ run'[r].serverParams = run[r].serverParams
         /\ run'[r].item = run[r].item /\ run'[r].replace = run[r].replace
         /\ run'[r].root = run[r].root /\ run'[r].matching = run[r].matching
<1>1. PICK A : run \in [Run -> Record(A)]
  BY DEF Shape
<1>2. [run[r] EXCEPT !.at = stage] \in Record(A)
  BY <1>1 DEF Record
<1>3. run' = [run EXCEPT ![r] = [run[r] EXCEPT !.at = stage]]
  BY <1>1 DEF To
<1>4. run'[r] = [run[r] EXCEPT !.at = stage] /\ Shape' /\ \A s \in Run \ {r} : run'[s] = run[s]
  BY <1>2, <1>3, ShapeKept
<1>5. QED BY <1>1, <1>4 DEF Record

(* A run that begins waits for parameters or for a password.                *)
LEMMA BeginShape ==
  ASSUME Shape, BeginKeyRecovery
  PROVE  /\ Shape'
         /\ \A s \in Run : run'[s] = run[s] \/ run'[s].at \in {"params", "signIn"}
<1>1. CASE run' = run
  BY <1>1 DEF Shape
<1>2. CASE \E r \in Run : To(r, IF client = 0 THEN "signIn" ELSE "params")
  <2>1. PICK r \in Run, stage \in {"params", "signIn"} : To(r, stage)
    BY <1>2
  <2>2. stage \in Stage
    BY DEF Stage
  <2>3. QED BY <2>1, <2>2, ToShape
<1>3. QED BY <1>1, <1>2 DEF BeginKeyRecovery

(* processQueue prompts for the head of the queue or leaves it.             *)
LEMMA ProcessShape ==
  ASSUME Shape, NEW r \in Run, NEW queue, NEW p, ProcessQueue(r, queue, p)
  PROVE  /\ Shape' /\ \A s \in Run \ {r} : run'[s] = run[s]
         /\ run'[r].at \in {"prompt", "signIn", "idle"}
         /\ p \in {0, server} /\ server' = server => Knows(run[r])'
<1>1. CASE queue # <<>>
  <2> DEFINE n == Prompted(Head(queue), p)
  <2>1. n = [at |-> "prompt", serverParams |-> p, item |-> Head(queue),
             replace |-> Replaces(Head(queue), p), root |-> 0, matching |-> <<>>]
    BY DEF Prompted
  <2>2. n \in Record({Head(queue), p, 0, <<>>})
    <3>1. Replaces(Head(queue), p) \in BOOLEAN
      BY DEF Replaces
    <3>2. QED BY <2>1, <3>1 DEF Record, Stage
  <2>3. run' = [run EXCEPT ![r] = n]
    BY <1>1 DEF ProcessQueue
  <2>4. Shape' /\ run'[r] = n /\ \A s \in Run \ {r} : run'[s] = run[s]
    BY <2>2, <2>3, ShapeKept
  <2>5. /\ n.at = "prompt" /\ n.serverParams = p
        /\ n.replace => n.item.root = p /\ p # 0
    BY <2>1 DEF Replaces
  <2>6. QED BY <2>4, <2>5 DEF Knows
<1>2. CASE queue = <<>>
  <2>1. PICK stage \in {"signIn", "idle"} : run' = [run EXCEPT ![r] = [Idle EXCEPT !.at = stage]]
    BY <1>2 DEF ProcessQueue
  <2>2. [Idle EXCEPT !.at = stage].at = stage /\ \E B : [Idle EXCEPT !.at = stage] \in Record(B)
    BY IdleShape DEF Stage
  <2>4. Shape' /\ run'[r] = [Idle EXCEPT !.at = stage] /\ \A s \in Run \ {r} : run'[s] = run[s]
    BY <2>1, <2>2, ShapeKept
  <2>5. QED BY <2>2, <2>4 DEF Knows
<1>3. QED BY <1>1, <1>2

(* Two or three fields of the record of a run change at once.               *)
LEMMA RootShape ==
  ASSUME Shape, NEW r \in Run, NEW stage \in Stage, NEW root,
         run' = [run EXCEPT ![r].at = stage, ![r].root = root]
  PROVE  /\ Shape' /\ \A s \in Run \ {r} : run'[s] = run[s]
         /\ run'[r].at = stage /\ run'[r].root = root
         /\ run'[r].serverParams = run[r].serverParams
<1>1. PICK A : run \in [Run -> Record(A)]
  BY DEF Shape
<1> DEFINE n == [[run[r] EXCEPT !.at = stage] EXCEPT !.root = root]
<1>2. [run[r] EXCEPT !.at = stage] \in Record(A)
  BY <1>1 DEF Record
<1>3. run[r] \in Record(A \cup {root}) /\ [run[r] EXCEPT !.at = stage] \in Record(A \cup {root})
  BY <1>1, <1>2 DEF Record
<1>4. /\ n \in Record(A \cup {root})
      /\ n.at = stage /\ n.root = root /\ n.serverParams = run[r].serverParams
  BY <1>3 DEF Record
<1>5. run' = [run EXCEPT ![r] = n]
  BY <1>1
<1>6. Shape' /\ run'[r] = n /\ \A s \in Run \ {r} : run'[s] = run[s]
  BY <1>4, <1>5, ShapeKept
<1>7. QED BY <1>4, <1>6

LEMMA MatchShape ==
  ASSUME Shape, NEW r \in Run, NEW root, Match(r, root)
  PROVE  /\ Shape' /\ \A s \in Run \ {r} : run'[s] = run[s]
         /\ run'[r].at = "decrypting" /\ run'[r].serverParams = run[r].serverParams
<1>1. PICK A : run \in [Run -> Record(A)]
  BY DEF Shape
<1>2. PICK m : run' = [run EXCEPT ![r].at = "decrypting", ![r].root = root, ![r].matching = m]
  BY DEF Match
<1> DEFINE B == A \cup {root, m}
           n == [[[run[r] EXCEPT !.at = "decrypting"] EXCEPT !.root = root] EXCEPT !.matching = m]
<1>3. [run[r] EXCEPT !.at = "decrypting"] \in Record(B)
  BY <1>1 DEF Record, Stage
<1>4. [[run[r] EXCEPT !.at = "decrypting"] EXCEPT !.root = root] \in Record(B)
  BY <1>3 DEF Record
<1>5. n \in Record(B)
  BY <1>4 DEF Record
<1>6. n.at = "decrypting" /\ n.serverParams = run[r].serverParams
  BY <1>1, <1>3, <1>4 DEF Record, Stage
<1>7. run' = [run EXCEPT ![r] = n]
  BY <1>1, <1>2
<1>8. Shape' /\ run'[r] = n /\ \A s \in Run \ {r} : run'[s] = run[s]
  BY <1>5, <1>7, ShapeKept
<1>9. QED BY <1>6, <1>8

(* After a restart no run has begun, or one.                                *)
LEMMA RestartShape ==
  ASSUME Restart
  PROVE  Shape' /\ \A s \in Run : run'[s].at \in {"idle", "params", "signIn"}
<1>1. PICK r \in Run, stage \in {"idle", "signIn", "params"} :
        run' = [[i \in Run |-> Idle] EXCEPT ![r].at = stage]
  BY DEF Restart
<1>2. "idle" \in Stage /\ stage \in Stage
  BY DEF Stage
<1>3. PICK A : Idle \in Record(A) /\ [Idle EXCEPT !.at = stage] \in Record(A)
  BY <1>2, IdleShape
<1>4. [Idle EXCEPT !.at = stage].at = stage
  BY <1>2, IdleShape
<1>5. run' = [[i \in Run |-> Idle] EXCEPT ![r] = [Idle EXCEPT !.at = stage]]
  BY <1>1
<1>6. run' = [i \in Run |-> IF i = r THEN [Idle EXCEPT !.at = stage] ELSE Idle]
  BY <1>5
<1>7. Shape'
  BY <1>3, <1>6 DEF Shape
<1>8. \A s \in Run : run'[s].at \in {"idle", "params", "signIn"}
  BY <1>4, <1>6 DEF Idle
<1>9. QED BY <1>7, <1>8

-----------------------------------------------------------------------------
(* No items key is lost.                                                    *)
LEMMA KeptInit == Init => KeptInv
<1> SUFFICES ASSUME Init PROVE KeptInv
  OBVIOUS
<1>1. \A r \in Run : run[r] = Idle
  BY DEF Init
<1>2. Shape
  <2>1. PICK A : Idle \in Record(A)
    BY IdleShape DEF Stage
  <2>2. QED BY <2>1 DEF Init, Shape
<1>3. SavedInv
  BY <1>1 DEF SavedInv, Idle
<1>4. memory \in [Key -> {[is |-> s, root |-> client, number |-> 0] : s \in {"none", "decrypted"}}]
  BY DEF Init
<1>5. Indexed /\ UndecryptablesAreKept
  BY <1>4 DEF Init, Indexed, UndecryptablesAreKept
<1>6. QED BY <1>2, <1>3, <1>5 DEF KeptInv

(* A step that keeps the copies, and of which no run comes out that has     *)
(* just saved.                                                              *)
LEMMA KeptFrame ==
  ASSUME KeptInv, Shape', UNCHANGED <<database, undecryptables, received>>,
         \A s \in Run : run'[s] = run[s] \/ run'[s].at # "notifying"
  PROVE  KeptInv'
<1>1. SavedInv'
  BY DEF KeptInv, SavedInv, Has
<1>2. QED BY <1>1 DEF KeptInv, Indexed, UndecryptablesAreKept

LEMMA KeptReceive ==
  ASSUME KeptInv, "newVersion" \notin Environment, NEW k \in Key, NEW p, Receive(k, p)
  PROVE  KeptInv'
<1> DEFINE v == [key |-> k, root |-> p, number |-> arrivals + 1]
           errored == [is |-> "errored", root |-> p, number |-> arrivals + 1]
<1>1. Shape' /\ \A s \in Run : run'[s] = run[s] \/ run'[s].at \in {"params", "signIn"}
  BY BeginShape DEF Receive, KeptInv
<1>2. /\ ~Pending(k)
      /\ received' = [received EXCEPT ![k] = arrivals + 1]
      /\ \/ undecryptables' = [undecryptables EXCEPT ![k] = v] /\ UNCHANGED database
         \/ database' = [database EXCEPT ![k] = errored] /\ UNCHANGED undecryptables
  BY DEF Receive, SaveToUndecryptables
<1>3. /\ Indexed' /\ received'[k] = arrivals + 1
      /\ \/ undecryptables'[k] = v
         \/ database'[k] = errored
      /\ \A i \in Key \ {k} : /\ received'[i] = received[i] /\ database'[i] = database[i]
                              /\ undecryptables'[i] = undecryptables[i]
  BY <1>2 DEF KeptInv, Indexed
<1>4. UndecryptablesAreKept'
  BY <1>3 DEF KeptInv, UndecryptablesAreKept
<1>5. ASSUME NEW r \in Run, run'[r].at = "notifying",
             NEW i \in Key, Has(run'[r].matching, i)
      PROVE  database'[i].number = received'[i]
  <2>1. run'[r] = run[r] /\ Has(run[r].matching, i)
    BY <1>1, <1>5
  <2>2. i # k
    BY <1>2, <2>1 DEF Pending, Has
  <2>3. QED BY <1>3, <1>5, <2>1, <2>2 DEF KeptInv, SavedInv
<1>6. SavedInv'
  BY <1>5 DEF SavedInv, Has
<1>7. QED BY <1>1, <1>3, <1>4, <1>6 DEF KeptInv

LEMMA KeptReceiveDecryptable ==
  ASSUME KeptInv, NEW k \in Key, ReceiveDecryptable(k)
  PROVE  KeptInv'
<1> DEFINE decrypted == [is |-> "decrypted", root |-> client, number |-> arrivals + 1]
<1>1. /\ received' = [received EXCEPT ![k] = arrivals + 1]
      /\ database' = [database EXCEPT ![k] = decrypted]
      /\ UNCHANGED <<undecryptables, run>>
  BY DEF ReceiveDecryptable
<1>2. /\ Indexed' /\ received'[k] = arrivals + 1 /\ database'[k] = decrypted
      /\ \A i \in Key \ {k} : received'[i] = received[i] /\ database'[i] = database[i]
  BY <1>1 DEF KeptInv, Indexed
<1>3. SavedInv'
  BY <1>1, <1>2 DEF KeptInv, SavedInv, Has
<1>4. Shape' /\ UndecryptablesAreKept'
  BY <1>1, <1>2 DEF KeptInv, Shape, UndecryptablesAreKept
<1>5. QED BY <1>2, <1>3, <1>4 DEF KeptInv

LEMMA KeptSave ==
  ASSUME KeptInv, NEW r \in Run, SaveDecrypted(r)
  PROVE  KeptInv'
<1>1. /\ Shape' /\ \A s \in Run \ {r} : run'[s] = run[s]
      /\ run'[r].at = "notifying" /\ run'[r].matching = run[r].matching
  BY ToShape DEF SaveDecrypted, KeptInv, Stage
<1>2. UNCHANGED <<undecryptables, received>>
  BY DEF SaveDecrypted, limits
<1>3. /\ Indexed'
      /\ \A k \in Key : \/ database'[k].number = received[k]
                        \/ database'[k] = database[k] /\ ~Has(run[r].matching, k)
  BY <1>2 DEF SaveDecrypted, Put, Has, KeptInv, Indexed
<1>4. UndecryptablesAreKept'
  BY <1>2, <1>3 DEF KeptInv, UndecryptablesAreKept
<1>5. SavedInv'
  BY <1>1, <1>2, <1>3 DEF KeptInv, SavedInv, Has
<1>6. QED BY <1>1, <1>3, <1>4, <1>5 DEF KeptInv

LEMMA KeptRecovered ==
  ASSUME KeptInv, NEW r \in Run, KeysRecovered(r)
  PROVE  KeptInv'
<1>1. /\ Shape' /\ \A s \in Run \ {r} : run'[s] = run[s]
      /\ run'[r].at \in {"prompt", "signIn", "idle"}
  BY ProcessShape DEF KeysRecovered, KeptInv
<1>2. UNCHANGED <<database, received>>
  BY DEF KeysRecovered, limits
<1>3. \A k \in Key : Has(run[r].matching, k) => database[k].number = received[k]
  BY DEF KeysRecovered, KeptInv, SavedInv
<1>4. /\ undecryptables' = [k \in Key |-> undecryptables'[k]]
      /\ \A k \in Key : Has(run[r].matching, k) \/ undecryptables'[k] = undecryptables[k]
  BY DEF KeysRecovered, RemoveFromUndecryptables, Has
<1>5. UndecryptablesAreKept'
  BY <1>2, <1>3, <1>4 DEF KeptInv, UndecryptablesAreKept
<1>6. SavedInv'
  BY <1>1, <1>2 DEF KeptInv, SavedInv, Has
<1>7. Indexed'
  BY <1>2, <1>4 DEF KeptInv, Indexed
<1>8. QED BY <1>1, <1>5, <1>6, <1>7 DEF KeptInv

LEMMA KeptRestart ==
  ASSUME KeptInv, Restart
  PROVE  KeptInv'
<1>1. Shape' /\ \A s \in Run : run'[s].at \in {"idle", "params", "signIn"}
  BY RestartShape
<1>2. QED BY <1>1, KeptFrame DEF Restart

(* The other steps of a run keep the copies that last.                      *)
LEMMA KeptRun ==
  ASSUME KeptInv, NEW r \in Run, Progress(r) \/ User(r) \/ CorrectiveSignIn(r)
  PROVE  KeptInv'
<1>1. CASE SaveDecrypted(r)
  BY <1>1, KeptSave
<1>2. CASE KeysRecovered(r)
  BY <1>2, KeptRecovered
<1>3. ASSUME UNCHANGED <<database, undecryptables, received>>, Shape',
             \A s \in Run \ {r} : run'[s] = run[s], run'[r].at # "notifying"
      PROVE  KeptInv'
  BY <1>3, KeptFrame
<1>4. ASSUME NEW queue, NEW p, ProcessQueue(r, queue, p), UNCHANGED <<database, undecryptables, received>>
      PROVE  KeptInv'
  BY <1>3, <1>4, ProcessShape DEF KeptInv
<1>5. ASSUME NEW stage \in Stage \ {"notifying"}, To(r, stage),
             UNCHANGED <<database, undecryptables, received>>
      PROVE  KeptInv'
  BY <1>3, <1>5, ToShape DEF KeptInv
<1>6. ASSUME NEW stage \in Stage \ {"notifying"}, run' = [run EXCEPT ![r] = [Idle EXCEPT !.at = stage]],
             UNCHANGED <<database, undecryptables, received>>
      PROVE  KeptInv'
  <2>1. [Idle EXCEPT !.at = stage].at = stage /\ \E B : [Idle EXCEPT !.at = stage] \in Record(B)
    BY IdleShape
  <2>2. Shape' /\ run'[r] = [Idle EXCEPT !.at = stage] /\ \A s \in Run \ {r} : run'[s] = run[s]
    BY <1>6, <2>1, ShapeKept DEF KeptInv
  <2>3. QED BY <1>3, <1>6, <2>1, <2>2
<1>7. ASSUME run' = [run EXCEPT ![r] = Idle], UNCHANGED <<database, undecryptables, received>>
      PROVE  KeptInv'
  <2>1. \E B : Idle \in Record(B)
    BY IdleShape DEF Stage
  <2>2. Shape' /\ run'[r] = Idle /\ \A s \in Run \ {r} : run'[s] = run[s]
    BY <1>7, <2>1, ShapeKept DEF KeptInv
  <2>3. QED BY <1>3, <1>7, <2>2 DEF Idle
<1>8. ASSUME NEW stage \in Stage \ {"notifying"}, NEW root,
             run' = [run EXCEPT ![r].at = stage, ![r].root = root],
             UNCHANGED <<database, undecryptables, received>>
      PROVE  KeptInv'
  BY <1>3, <1>8, RootShape DEF KeptInv
<1>9. ASSUME NEW root, Match(r, root), UNCHANGED <<database, undecryptables, received>>
      PROVE  KeptInv'
  BY <1>3, <1>9, MatchShape DEF KeptInv
<1>10. CASE GetServerParams(r)
  <2>1. PICK p : ProcessQueue(r, decryptionQueue, p)
    BY <1>10 DEF GetServerParams
  <2>2. QED BY <1>4, <1>10, <2>1 DEF GetServerParams, keys, limits
<1>11. CASE SetRootKey(r)
  BY <1>9, <1>11 DEF SetRootKey, keys, limits
<1>12. CASE EmitDecrypted(r)
  BY <1>5, <1>12 DEF EmitDecrypted, Stage, limits
<1>13. CASE GetSignInParams(r)
  <2>1. UNCHANGED <<database, undecryptables, received>>
    BY <1>13 DEF GetSignInParams, keys, limits
  <2>2. CASE run' = [run EXCEPT ![r].at = "correcting", ![r].root = server]
    BY <1>8, <2>1, <2>2 DEF Stage
  <2>3. CASE run' = [run EXCEPT ![r] = Idle]
    BY <1>7, <2>1, <2>3
  <2>4. QED BY <1>13, <2>2, <2>3 DEF GetSignInParams
<1>14. CASE WrongPassword(r)
  BY <1>4, <1>14 DEF WrongPassword, keys, limits
<1>15. CASE Abort(r)
  <2>1. PICK stage \in {"signIn", "idle"} : run' = [run EXCEPT ![r] = [Idle EXCEPT !.at = stage]]
    BY <1>15 DEF Abort
  <2>2. QED BY <1>6, <1>15, <2>1 DEF Abort, Stage, keys, limits
<1>16. CASE RightPassword(r)
  <2>1. UNCHANGED <<database, undecryptables, received>>
    BY <1>16 DEF RightPassword, keys, limits
  <2>2. CASE run' = [run EXCEPT ![r].at = "setRootKey", ![r].root = run[r].item.root]
    BY <1>8, <2>1, <2>2 DEF Stage
  <2>3. CASE Match(r, run[r].item.root)
    BY <1>9, <2>1, <2>3
  <2>4. QED BY <1>16, <2>2, <2>3 DEF RightPassword
<1>17. CASE CancelSignIn(r)
  <2>1. UNCHANGED <<database, undecryptables, received>>
    BY <1>17 DEF CancelSignIn, keys, limits
  <2>2. CASE To(r, "idle")
    BY <1>5, <2>1, <2>2 DEF Stage
  <2>3. CASE ProcessQueue(r, decryptionQueue, 0)
    BY <1>4, <2>1, <2>3
  <2>4. QED BY <1>17, <2>2, <2>3 DEF CancelSignIn
<1>18. CASE EnterPassword(r)
  <2>1. PICK stage \in {"idle", "signInParams"} : To(r, stage)
    BY <1>18 DEF EnterPassword
  <2>2. QED BY <1>5, <1>18, <2>1 DEF EnterPassword, Stage, keys, limits
<1>19. CASE CorrectiveSignIn(r)
  <2>1. UNCHANGED <<database, undecryptables, received>>
    BY <1>19 DEF CorrectiveSignIn, limits
  <2>2. CASE run' = [run EXCEPT ![r] = Idle]
    BY <1>7, <2>1, <2>2
  <2>3. CASE run' = [run EXCEPT ![r] = [Idle EXCEPT !.at = "signIn"]]
    BY <1>6, <2>1, <2>3 DEF Stage
  <2>4. QED BY <1>19, <2>2, <2>3 DEF CorrectiveSignIn
<1>20. QED
  BY <1>1, <1>2, <1>10, <1>11, <1>12, <1>13, <1>14, <1>15, <1>16, <1>17, <1>18, <1>19 DEF Progress, User

LEMMA KeptStep ==
  ASSUME "newVersion" \notin Environment, KeptInv, [Next]_vars
  PROVE  KeptInv'
<1>1. CASE \E k \in Key, p \in RootKey \ {0} : Receive(k, p) \/ ReceiveDecryptable(k)
  BY <1>1, KeptReceive, KeptReceiveDecryptable
<1>2. CASE \E r \in Run : Progress(r) \/ User(r) \/ CorrectiveSignIn(r)
  BY <1>2, KeptRun
<1>3. CASE PresentKeyRecoveryWizard
  <2>1. Shape' /\ \A s \in Run : run'[s] = run[s] \/ run'[s].at \in {"params", "signIn"}
    BY <1>3, BeginShape DEF PresentKeyRecoveryWizard, KeptInv
  <2>2. QED BY <1>3, <2>1, KeptFrame DEF PresentKeyRecoveryWizard, keys
<1>4. CASE Restart
  BY <1>4, KeptRestart
<1>5. CASE PasswordChanges \/ UNCHANGED vars
  <2>1. UNCHANGED <<database, undecryptables, received, run>>
    BY <1>5 DEF PasswordChanges, vars, keys, limits
  <2>2. QED BY <2>1, KeptFrame DEF KeptInv, Shape
<1>6. QED BY <1>1, <1>2, <1>3, <1>4, <1>5 DEF Next

(* UndecryptablesAreKept, the last version of every items key is in the     *)
(* database or in the isolated storage (handleIgnoredItemsKeys and          *)
(* removeFromUndecryptables, KeyRecoveryService.ts), for any number of      *)
(* keys, passwords, runs, arrivals and restarts, if no version of a key     *)
(* arrives while an earlier one is being recovered.                         *)
THEOREM KeyRecoveryKeepsKeys ==
  "newVersion" \notin Environment => (Spec => []UndecryptablesAreKept)
<1> SUFFICES ASSUME "newVersion" \notin Environment PROVE Spec => []UndecryptablesAreKept
  OBVIOUS
<1>1. Init => KeptInv
  BY KeptInit
<1>2. KeptInv /\ [Next]_vars => KeptInv'
  BY KeptStep
<1>3. KeptInv => UndecryptablesAreKept
  BY DEF KeptInv
<1>4. QED BY <1>1, <1>2, <1>3, PTL DEF Spec

-----------------------------------------------------------------------------
(* The local root key never goes back.                                      *)
LEMMA RootInit == Init => RootInv
<1> SUFFICES ASSUME Init PROVE RootInv
  OBVIOUS
<1>1. \A r \in Run : run[r] = Idle
  BY DEF Init
<1>2. Shape
  <2>1. PICK A : Idle \in Record(A)
    BY IdleShape DEF Stage
  <2>2. QED BY <2>1 DEF Init, Shape
<1>3. \A r \in Run : Knows(run[r])
  BY <1>1 DEF Knows, Idle
<1>4. server \in RootKey \ {0} /\ client \in RootKey /\ client <= server
  BY KeyRecoveryAssumption DEF Init, RootKey, KeyRecoveryAssumption
<1>5. QED BY <1>2, <1>3, <1>4 DEF RootInv

(* A step that keeps both passwords, and of which a run comes out that      *)
(* knows.                                                                   *)
LEMMA RootFrame ==
  ASSUME RootInv, Shape', UNCHANGED <<server, client>>,
         \A s \in Run : run'[s] = run[s] \/ Knows(run'[s])
  PROVE  RootInv' /\ client' >= client
<1>1. \A s \in Run : Knows(run[s])'
  BY DEF RootInv, Knows
<1>2. QED BY <1>1, KeyRecoveryAssumption DEF RootInv, RootKey, KeyRecoveryAssumption

LEMMA RootRun ==
  ASSUME RootInv, NEW r \in Run, Progress(r) \/ User(r) \/ CorrectiveSignIn(r)
  PROVE  RootInv' /\ client' >= client
<1> USE DEF keys, limits
<1>1. Shape /\ Knows(run[r])
  BY DEF RootInv
<1>2. ASSUME UNCHANGED server, client' = client \/ client' = server, Shape',
             \A s \in Run \ {r} : run'[s] = run[s], Knows(run[r])'
      PROVE  RootInv' /\ client' >= client
  <2>1. \A s \in Run : Knows(run[s])'
    BY <1>2 DEF RootInv, Knows
  <2>2. server' \in RootKey \ {0} /\ client' \in RootKey /\ client' <= server' /\ client' >= client
    BY <1>2, KeyRecoveryAssumption DEF RootInv, RootKey, KeyRecoveryAssumption
  <2>3. QED BY <1>2, <2>1, <2>2 DEF RootInv
<1>3. ASSUME NEW queue, NEW p \in {0, server}, ProcessQueue(r, queue, p), UNCHANGED <<server, client>>
      PROVE  RootInv' /\ client' >= client
  BY <1>1, <1>2, <1>3, ProcessShape
<1>4. ASSUME NEW n, run' = [run EXCEPT ![r] = n], \E B : n \in Record(B), n.at \in {"idle", "signIn"},
             UNCHANGED server, client' = client \/ client' = server
      PROVE  RootInv' /\ client' >= client
  <2>1. Shape' /\ run'[r] = n /\ \A s \in Run \ {r} : run'[s] = run[s]
    BY <1>1, <1>4, ShapeKept
  <2>2. QED BY <1>2, <1>4, <2>1 DEF Knows
<1>5. /\ Idle.at = "idle" /\ \E B : Idle \in Record(B)
      /\ \A stage \in {"idle", "signIn"} :
           /\ [Idle EXCEPT !.at = stage].at = stage
           /\ \E B : [Idle EXCEPT !.at = stage] \in Record(B)
  <2>1. Idle.at = "idle"
    BY DEF Idle
  <2>2. "idle" \in Stage /\ "signIn" \in Stage
    BY DEF Stage
  <2>3. \E B : Idle \in Record(B)
    BY <2>2, IdleShape
  <2>4. QED BY <2>1, <2>2, <2>3, IdleShape
<1>6. ASSUME NEW stage \in {"idle", "saving", "notifying", "signInParams"}, To(r, stage),
             stage \in {"idle", "signInParams"} \/ run[r].at \in {"decrypting", "saving"},
             UNCHANGED <<server, client>>
      PROVE  RootInv' /\ client' >= client
  <2>1. stage \in Stage
    BY DEF Stage
  <2>2. /\ Shape' /\ \A s \in Run \ {r} : run'[s] = run[s]
        /\ run'[r].at = stage /\ run'[r].serverParams = run[r].serverParams
    BY <1>1, <1>6, <2>1, ToShape
  <2>3. QED BY <1>1, <1>2, <1>6, <2>2 DEF Knows
<1>7. CASE GetServerParams(r)
  <2>1. PICK p \in {0, server} : ProcessQueue(r, decryptionQueue, p)
    BY <1>7 DEF GetServerParams
  <2>2. QED BY <1>3, <1>7, <2>1 DEF GetServerParams
<1>8. CASE WrongPassword(r) \/ KeysRecovered(r)
  <2>1. /\ ProcessQueue(r, decryptionQueue, run[r].serverParams)
        /\ UNCHANGED <<server, client>> /\ run[r].at \in {"prompt", "notifying"}
    BY <1>8 DEF WrongPassword, KeysRecovered
  <2>2. run[r].serverParams \in {0, server}
    BY <1>1, <2>1 DEF Knows
  <2>3. QED BY <1>3, <2>1, <2>2
<1>9. CASE SetRootKey(r)
  <2>1. /\ run[r].at = "setRootKey" /\ client' = run[r].root /\ UNCHANGED server
        /\ Match(r, run[r].root)
    BY <1>9 DEF SetRootKey
  <2>2. /\ Shape' /\ \A s \in Run \ {r} : run'[s] = run[s]
        /\ run'[r].at = "decrypting" /\ run'[r].serverParams = run[r].serverParams
    BY <1>1, <2>1, MatchShape
  <2>3. QED BY <1>1, <1>2, <2>1, <2>2 DEF Knows
<1>10. CASE EmitDecrypted(r)
  BY <1>6, <1>10 DEF EmitDecrypted
<1>11. CASE SaveDecrypted(r)
  BY <1>6, <1>11 DEF SaveDecrypted
<1>12. CASE GetSignInParams(r)
  <2>1. CASE run' = [run EXCEPT ![r].at = "correcting", ![r].root = server]
    <3>1. "correcting" \in Stage
      BY DEF Stage
    <3>2. Shape' /\ (\A s \in Run \ {r} : run'[s] = run[s]) /\ run'[r].at = "correcting"
      BY <1>1, <2>1, <3>1, RootShape
    <3>3. QED BY <1>2, <1>12, <3>2 DEF GetSignInParams, Knows
  <2>2. CASE run' = [run EXCEPT ![r] = Idle]
    BY <1>4, <1>5, <1>12, <2>2 DEF GetSignInParams
  <2>3. QED BY <1>12, <2>1, <2>2 DEF GetSignInParams
<1>13. CASE Abort(r)
  <2>1. PICK stage \in {"signIn", "idle"} : run' = [run EXCEPT ![r] = [Idle EXCEPT !.at = stage]]
    BY <1>13 DEF Abort
  <2>2. UNCHANGED <<server, client>>
    BY <1>13 DEF Abort
  <2>3. QED BY <1>4, <1>5, <2>1, <2>2
<1>14. CASE RightPassword(r)
  <2>1. UNCHANGED <<server, client>> /\ run[r].at = "prompt"
    BY <1>14 DEF RightPassword
  <2>2. CASE run[r].replace
    <3>1. run' = [run EXCEPT ![r].at = "setRootKey", ![r].root = run[r].item.root]
      BY <1>14, <2>2 DEF RightPassword
    <3>2. "setRootKey" \in Stage
      BY DEF Stage
    <3>3. /\ Shape' /\ \A s \in Run \ {r} : run'[s] = run[s]
          /\ run'[r].at = "setRootKey" /\ run'[r].root = run[r].item.root
          /\ run'[r].serverParams = run[r].serverParams
      BY <1>1, <3>1, <3>2, RootShape
    <3>4. QED BY <1>1, <1>2, <2>1, <2>2, <3>3 DEF Knows
  <2>3. CASE ~run[r].replace
    <3>1. Match(r, run[r].item.root)
      BY <1>14, <2>3 DEF RightPassword
    <3>2. /\ Shape' /\ \A s \in Run \ {r} : run'[s] = run[s]
          /\ run'[r].at = "decrypting" /\ run'[r].serverParams = run[r].serverParams
      BY <1>1, <3>1, MatchShape
    <3>3. QED BY <1>1, <1>2, <2>1, <3>2 DEF Knows
  <2>4. QED BY <2>2, <2>3
<1>15. CASE CancelSignIn(r)
  <2>1. UNCHANGED <<server, client>>
    BY <1>15 DEF CancelSignIn
  <2>2. CASE To(r, "idle")
    BY <1>6, <2>1, <2>2
  <2>3. CASE ProcessQueue(r, decryptionQueue, 0)
    BY <1>3, <2>1, <2>3
  <2>4. QED BY <1>15, <2>2, <2>3 DEF CancelSignIn
<1>16. CASE EnterPassword(r)
  <2>1. PICK stage \in {"idle", "signInParams"} : To(r, stage)
    BY <1>16 DEF EnterPassword
  <2>2. UNCHANGED <<server, client>>
    BY <1>16 DEF EnterPassword
  <2>3. QED BY <1>6, <2>1, <2>2
<1>17. CASE CorrectiveSignIn(r)
  <2>1. UNCHANGED server /\ (client' = client \/ client' = server)
    BY <1>17 DEF CorrectiveSignIn
  <2>2. CASE run' = [run EXCEPT ![r] = Idle]
    BY <1>4, <1>5, <2>1, <2>2
  <2>3. CASE run' = [run EXCEPT ![r] = [Idle EXCEPT !.at = "signIn"]]
    BY <1>4, <1>5, <2>1, <2>3
  <2>4. QED BY <1>17, <2>2, <2>3 DEF CorrectiveSignIn
<1>18. QED
  BY <1>7, <1>8, <1>9, <1>10, <1>11, <1>12, <1>13, <1>14, <1>15, <1>16, <1>17 DEF Progress, User

LEMMA RootStep ==
  ASSUME "passwordChanges" \notin Environment, RootInv, [Next]_vars
  PROVE  RootInv' /\ client' >= client
<1>1. ASSUME BeginKeyRecovery, UNCHANGED <<server, client>>
      PROVE  RootInv' /\ client' >= client
  <2>1. Shape' /\ \A s \in Run : run'[s] = run[s] \/ run'[s].at \in {"params", "signIn"}
    BY <1>1, BeginShape DEF RootInv
  <2>2. QED BY <1>1, <2>1, RootFrame DEF Knows
<1>2. CASE \E k \in Key, p \in RootKey \ {0} : Receive(k, p) \/ ReceiveDecryptable(k)
  <2>1. PICK k \in Key, p \in RootKey \ {0} : Receive(k, p) \/ ReceiveDecryptable(k)
    BY <1>2
  <2>2. CASE Receive(k, p)
    <3>1. BeginKeyRecovery /\ UNCHANGED <<server, client>>
      BY <2>2 DEF Receive
    <3>2. QED BY <1>1, <3>1
  <2>3. CASE ReceiveDecryptable(k)
    <3>1. UNCHANGED <<server, client, run>>
      BY <2>3 DEF ReceiveDecryptable
    <3>2. QED BY <3>1, RootFrame DEF RootInv, Shape
  <2>4. QED BY <2>1, <2>2, <2>3
<1>3. CASE \E r \in Run : Progress(r) \/ User(r) \/ CorrectiveSignIn(r)
  BY <1>3, RootRun
<1>4. CASE PresentKeyRecoveryWizard
  BY <1>1, <1>4 DEF PresentKeyRecoveryWizard
<1>5. CASE Restart
  <2>1. Shape' /\ \A s \in Run : run'[s].at \in {"idle", "params", "signIn"}
    BY <1>5, RestartShape
  <2>2. QED BY <1>5, <2>1, RootFrame DEF Restart, Knows
<1>6. CASE PasswordChanges
  <2>1. /\ Quiet /\ server' = server + 1 /\ server < MaxPassword /\ UNCHANGED <<client, run>>
    BY <1>6 DEF PasswordChanges
  <2>2. \A r \in Run : Knows(run[r])'
    BY <2>1 DEF Quiet, Knows
  <2>3. Shape'
    BY <2>1 DEF RootInv, Shape
  <2>4. server' \in RootKey \ {0} /\ client' \in RootKey /\ client' <= server' /\ client' >= client
    BY <2>1, KeyRecoveryAssumption DEF RootInv, RootKey, KeyRecoveryAssumption
  <2>5. QED BY <2>2, <2>3, <2>4 DEF RootInv
<1>7. CASE UNCHANGED vars
  <2>1. UNCHANGED <<server, client, run>>
    BY <1>7 DEF vars
  <2>2. QED BY <2>1, RootFrame DEF RootInv, Shape
<1>8. QED BY <1>2, <1>3, <1>4, <1>5, <1>6, <1>7 DEF Next

(* RootKeyNeverGoesBack, the root key of the client is only replaced by     *)
(* that of a later password (replaceLocalRootKeyWithResult and              *)
(* performServerSignIn, KeyRecoveryService.ts), for any number of keys and  *)
(* runs at a time, if the password of the account does not change while one *)
(* of them is under way.                                                    *)
THEOREM KeyRecoveryRootKeyNeverGoesBack ==
  "passwordChanges" \notin Environment => (Spec => RootKeyNeverGoesBack)
<1> SUFFICES ASSUME "passwordChanges" \notin Environment PROVE Spec => RootKeyNeverGoesBack
  OBVIOUS
<1>1. Init => RootInv
  BY RootInit
<1>2. RootInv /\ [Next]_vars => RootInv' /\ [client' >= client]_vars
  BY RootStep
<1>3. QED BY <1>1, <1>2, PTL DEF Spec, RootKeyNeverGoesBack
=============================================================================
