------------------------ MODULE DiskStorage_proofs -------------------------
(***************************************************************************)
(* Proofs about DiskStorage, for any number of items, persists, saves and  *)
(* events.                                                                 *)
(***************************************************************************)
EXTENDS DiskStorage, FiniteSetTheorems, WellFoundedInduction, TLAPS

USE DiskStorageAssumption DEF Persist, SaveId, None

-----------------------------------------------------------------------------
(* Sets of numbers: the numbers of calls, and the order they are taken in. *)

LEMMA SmallestOf ==
  ASSUME NEW T \in SUBSET Nat, T # {} PROVE \E x \in T : \A y \in T : x <= y
<1>1. \E x \in T : \A y \in T : ~(<<y, x>> \in OpToRel(<, Nat))
  BY NatLessThanWellFounded, WFMin
<1>2. PICK x \in T : \A y \in T : ~(<<y, x>> \in OpToRel(<, Nat))
  BY <1>1
<1>3. ASSUME NEW y \in T PROVE x <= y
  <2>1. x \in Nat /\ y \in Nat
    OBVIOUS
  <2>2. ~(y < x)
    BY <1>2, <2>1 DEF OpToRel
  <2> QED BY <2>1, <2>2
<1> QED BY <1>3

LEMMA LargestOf ==
  ASSUME NEW n \in Nat, NEW T \in SUBSET (1 .. n), T # {} PROVE \E x \in T : \A y \in T : y <= x
<1> DEFINE D == {n - x : x \in T}
<1>1. D \in SUBSET Nat /\ D # {}
  <2>1. \A x \in T : n - x \in Nat
    OBVIOUS
  <2> QED BY <2>1
<1>2. PICK d \in D : \A e \in D : d <= e
  BY <1>1, SmallestOf
<1>3. PICK x \in T : d = n - x
  OBVIOUS
<1>4. \A y \in T : n - x <= n - y
  BY <1>2, <1>3
<1>5. \A y \in T : y <= x
  BY <1>4
<1> QED BY <1>5

LEMMA Numbers ==
  ASSUME NEW n \in Nat, NEW T \in SUBSET (1 .. n)
  PROVE  /\ IsFiniteSet(T) /\ Cardinality(T) \in Nat /\ Cardinality(T) <= n
         /\ \A S \in SUBSET T : IsFiniteSet(S) /\ Cardinality(S) \in Nat /\ Cardinality(S) <= Cardinality(T)
         /\ Cardinality(T) = 0 <=> T = {}
<1>1. IsFiniteSet(1 .. n) /\ Cardinality(1 .. n) = n
  <2>1. 1 \in Int /\ n \in Int
    OBVIOUS
  <2>2. IsFiniteSet(1 .. n) /\ Cardinality(1 .. n) = IF 1 > n THEN 0 ELSE n - 1 + 1
    BY <2>1, FS_Interval
  <2> QED BY <2>2
<1>2. IsFiniteSet(T) /\ Cardinality(T) <= n
  BY <1>1, FS_Subset
<1>3. Cardinality(T) \in Nat /\ (Cardinality(T) = 0 <=> T = {})
  BY <1>2, FS_CardinalityType, FS_EmptySet
<1>4. ASSUME NEW S \in SUBSET T PROVE IsFiniteSet(S) /\ Cardinality(S) \in Nat /\ Cardinality(S) <= Cardinality(T)
  BY <1>2, FS_Subset, FS_CardinalityType
<1> QED BY <1>2, <1>3, <1>4

(* Every place in the order is taken, by one element.                      *)
LEMMA RankExists ==
  ASSUME NEW n \in Nat, NEW P \in SUBSET (1 .. n), NEW i \in 1 .. Cardinality(P)
  PROVE  \E p \in P : Cardinality({q \in P : q <= p}) = i
<1> DEFINE Rank(p) == Cardinality({q \in P : q <= p})
           T == {p \in P : Rank(p) >= i}
<1>1. /\ P # {} /\ Cardinality(P) \in Nat /\ Cardinality(P) >= 1
      /\ \A S \in SUBSET P : IsFiniteSet(S) /\ Cardinality(S) \in Nat
  BY Numbers
<1>1a. \A p \in P : {q \in P : q <= p} \in SUBSET P
  OBVIOUS
<1>2. \A p \in P : Rank(p) \in Nat
  BY <1>1, <1>1a
<1>3. T # {}
  <2>1. PICK p \in P : \A q \in P : q <= p
    BY <1>1, LargestOf
  <2>2. {q \in P : q <= p} = P
    BY <2>1
  <2>3. Rank(p) = Cardinality(P)
    BY <2>2
  <2> HIDE DEF Rank
  <2> QED BY <1>1, <2>3
<1>4. PICK p \in T : \A q \in T : p <= q
  <2>1. T \in SUBSET P /\ P \in SUBSET Nat
    OBVIOUS
  <2>2. T \in SUBSET Nat
    BY <2>1
  <2> HIDE DEF T
  <2> QED BY <1>3, <2>2, SmallestOf
<1>5. CASE Rank(p) = i
  BY <1>5
<1>6. CASE Rank(p) # i
  <2> DEFINE B == {q \in P : q < p}
  <2>1. p \in P /\ Rank(p) \in Nat /\ Rank(p) >= i /\ i \in Nat /\ i >= 1
    BY <1>2
  <2>2. Rank(p) = Cardinality(B) + 1
    <3>0. p \in P /\ ~(p < p) /\ \A q \in P : q <= p <=> q < p \/ q = p
      BY <2>1
    <3>1. {q \in P : q <= p} = B \cup {p} /\ p \notin B /\ B \in SUBSET P
      BY <3>0
    <3>2. IsFiniteSet(B)
      BY <1>1, <3>1
    <3>3. Cardinality(B \cup {p}) = Cardinality(B) + 1
      BY <3>1, <3>2, FS_AddElement
    <3> QED BY <3>1, <3>3
  <2>3. Cardinality(B) \in Nat /\ B \in SUBSET (1 .. n)
    BY <1>1
  <2>4. Cardinality(B) >= i
    <3> HIDE DEF Rank, B
    <3> QED BY <1>6, <2>1, <2>2, <2>3
  <2>5. B # {}
    BY <2>1, <2>3, <2>4, Numbers
  <2>6. PICK q \in B : \A r \in B : r <= q
    BY <2>3, <2>5, LargestOf
  <2>7. {r \in P : r <= q} = B
    <3>1. (\A r \in P : r \in Nat) /\ q \in P /\ p \in P /\ q < p
      BY <2>1, <2>6
    <3>2. q \in Nat /\ p \in Nat
      BY <3>1
    <3>3. ASSUME NEW r \in P PROVE r <= q <=> r < p
      <4>1. r \in Nat
        BY <3>1
      <4>2. r < p => r <= q
        BY <2>6
      <4> QED BY <3>1, <3>2, <4>1, <4>2
    <3> QED BY <3>3
  <2>8. q \in T /\ q < p
    BY <2>4, <2>7
  <2>9. q \in Nat /\ p \in Nat
    BY <2>1
  <2> HIDE DEF T, B
  <2> QED BY <1>4, <2>8, <2>9
<1> QED BY <1>5, <1>6

(* What is in the queue of encryptions.  Entry and Enc stay folded: to the *)
(* provers an encryption is a token, not a number.                         *)
Entry == Persist

LEMMA OrderOf ==
  ASSUME NEW P \in SUBSET Persist
  PROVE  /\ Cardinality(P) \in Nat
         /\ InOrder(P) \in [1 .. Cardinality(P) -> P]
         /\ \A i, j \in 1 .. Cardinality(P) : InOrder(P)[i] = InOrder(P)[j] => i = j
<1>0. MaxPersists \in Nat
  OBVIOUS
<1>1. Cardinality(P) \in Nat
  BY <1>0, Numbers
<1>2. ASSUME NEW i \in 1 .. Cardinality(P)
      PROVE  /\ InOrder(P)[i] \in P
             /\ Cardinality({q \in P : q <= InOrder(P)[i]}) = i
  <2>1. \E p \in P : Cardinality({q \in P : q <= p}) = i
    BY <1>0, RankExists
  <2> QED BY <2>1 DEF InOrder
<1>3. InOrder(P) \in [1 .. Cardinality(P) -> P]
  BY <1>2 DEF InOrder
<1>4. ASSUME NEW i \in 1 .. Cardinality(P), NEW j \in 1 .. Cardinality(P), InOrder(P)[i] = InOrder(P)[j]
      PROVE  i = j
  BY <1>2, <1>4
<1> QED BY <1>1, <1>3, <1>4

LEMMA InOrderType ==
  ASSUME NEW P \in SUBSET Persist
  PROVE  /\ InOrder(P) \in Seq(Entry)
         /\ \A i \in DOMAIN InOrder(P) : \E p \in P : InOrder(P)[i] = p
         /\ \A i, j \in DOMAIN InOrder(P) : InOrder(P)[i] = InOrder(P)[j] => i = j
<1> DEFINE n == Cardinality(P)
           f == InOrder(P)
<1>1. n \in Nat /\ f \in [1 .. n -> P] /\ (\A i, j \in 1 .. n : f[i] = f[j] => i = j)
  BY OrderOf
<1>2. \A i \in 1 .. n : f[i] \in Entry /\ f[i] \in P
  BY <1>1 DEF Entry
<1> HIDE DEF f, n
<1>3. f \in Seq(Entry) /\ DOMAIN f = 1 .. n
  BY <1>1, <1>2
<1> QED BY <1>1, <1>2, <1>3 DEF f

LEMMA LastOfType ==
  ASSUME NEW P \in SUBSET Persist, P # {} PROVE LastOf(P) \in P
<1>1. \E p \in P : \A q \in P : q <= p
  BY LargestOf
<1>2. \E p \in P : \A q \in P : p >= q
  BY <1>1
<1> QED BY <1>2 DEF LastOf, Max

(* Calls are numbered as they are made: the ones made are the first ones.  *)
LEMMA FirstNumbers ==
  ASSUME NEW n \in Nat, NEW U \in SUBSET (1 .. n), \A q \in U : \A p \in 1 .. q : p \in U
  PROVE  Cardinality(U) \in Nat /\ \A q \in 1 .. n : q \in U <=> q <= Cardinality(U)
<1>1. IsFiniteSet(U) /\ Cardinality(U) \in Nat
  BY Numbers
<1>2. ASSUME NEW q \in U PROVE q <= Cardinality(U)
  <2>1. 1 .. q \in SUBSET U /\ q \in Nat /\ q >= 1
    OBVIOUS
  <2>2. Cardinality(1 .. q) = q
    BY <2>1, FS_Interval
  <2>3. Cardinality(1 .. q) <= Cardinality(U)
    BY <1>1, <2>1, FS_Subset
  <2> QED BY <2>2, <2>3
<1>3. ASSUME NEW q \in 1 .. n, q \notin U PROVE ~(q <= Cardinality(U))
  <2>1. \A p \in U : p < q
    <3>1. \A p \in U : p \in 1 .. n /\ ~(q \in 1 .. p)
      BY <1>3
    <3> QED BY <3>1
  <2>2. U \in SUBSET (1 .. q - 1) /\ q - 1 \in Nat
    BY <2>1
  <2>3. Cardinality(U) <= q - 1
    BY <2>2, Numbers
  <2> QED BY <1>1, <2>2, <2>3
<1> QED BY <1>1, <1>2, <1>3

-----------------------------------------------------------------------------
(* Queues: what is in one, and what is before what.                        *)

Before(q) == {x \in Range(q) \X Range(q) : \E i, j \in DOMAIN q : i < j /\ x = <<q[i], q[j]>>}

(* From q to r nothing was added but elements of S, at the end.            *)
Moved(q, r, S) == /\ Range(r) \subseteq Range(q) \cup S
                  /\ Before(r) \subseteq Before(q) \cup ((Range(q) \cup S) \X S)

LEMMA BeforeOf ==
  ASSUME NEW q, NEW i \in DOMAIN q, NEW j \in DOMAIN q, i < j
  PROVE  <<q[i], q[j]>> \in Before(q) /\ q[i] \in Range(q)
BY DEF Before, Range

LEMMA MovedTail ==
  ASSUME NEW E, NEW q \in Seq(E), q # <<>>, NEW S
  PROVE  /\ Tail(q) \in Seq(E) /\ Head(q) \in E /\ Head(q) \in Range(q)
         /\ Moved(q, Tail(q), S)
         /\ \A e \in Range(Tail(q)) : <<Head(q), e>> \in Before(q)
<1>1. /\ Tail(q) \in Seq(E) /\ Len(q) \in Nat /\ Len(q) >= 1 /\ Len(Tail(q)) = Len(q) - 1
      /\ DOMAIN q = 1 .. Len(q) /\ Head(q) = q[1]
  OBVIOUS
<1>1a. DOMAIN Tail(q) = 1 .. Len(q) - 1
  BY <1>1
<1>2. \A i \in DOMAIN Tail(q) : i + 1 \in DOMAIN q /\ Tail(q)[i] = q[i + 1]
  BY <1>1, <1>1a
<1>3. 1 \in DOMAIN q /\ \A i \in DOMAIN Tail(q) : 1 < i + 1
  BY <1>1, <1>1a
<1>4. Head(q) \in E /\ Head(q) \in Range(q)
  BY <1>1, <1>3 DEF Range
<1>5. Range(Tail(q)) \subseteq Range(q)
  BY <1>2 DEF Range
<1>6. ASSUME NEW x \in Before(Tail(q)) PROVE x \in Before(q)
  <2>1. PICK i \in DOMAIN Tail(q), j \in DOMAIN Tail(q) : i < j /\ x = <<Tail(q)[i], Tail(q)[j]>>
    BY DEF Before
  <2>2. i + 1 < j + 1
    BY <2>1, <1>1a
  <2>3. i + 1 \in DOMAIN q /\ j + 1 \in DOMAIN q /\ x = <<q[i + 1], q[j + 1]>>
    BY <1>2, <2>1
  <2> QED BY <2>2, <2>3, BeforeOf
<1>7. ASSUME NEW e \in Range(Tail(q)) PROVE <<Head(q), e>> \in Before(q)
  <2>1. PICK i \in DOMAIN Tail(q) : e = Tail(q)[i]
    BY DEF Range
  <2>2. i + 1 \in DOMAIN q /\ e = q[i + 1] /\ 1 < i + 1
    BY <1>2, <1>3, <2>1
  <2>3. <<q[1], q[i + 1]>> \in Before(q)
    BY <1>3, <2>2, BeforeOf
  <2> QED BY <1>1, <2>2, <2>3
<1> QED BY <1>1, <1>4, <1>5, <1>6, <1>7 DEF Moved

LEMMA MovedConcat ==
  ASSUME NEW E, NEW q \in Seq(E), NEW t \in Seq(E)
  PROVE  /\ q \o t \in Seq(E)
         /\ Range(q \o t) = Range(q) \cup Range(t)
         /\ Before(q \o t) \subseteq Before(q) \cup Before(t) \cup (Range(q) \X Range(t))
         /\ Moved(q, q \o t, Range(t))
<1> DEFINE r == q \o t
<1>1. /\ r \in Seq(E) /\ Len(q) \in Nat /\ Len(t) \in Nat /\ Len(r) = Len(q) + Len(t)
      /\ DOMAIN q = 1 .. Len(q) /\ DOMAIN t = 1 .. Len(t) /\ DOMAIN r = 1 .. Len(q) + Len(t)
  OBVIOUS
<1>2. \A i \in DOMAIN r : /\ i \in DOMAIN q => r[i] = q[i]
                          /\ i \notin DOMAIN q => i - Len(q) \in DOMAIN t /\ r[i] = t[i - Len(q)]
  <2> TAKE i \in DOMAIN r
  <2>1. r[i] = IF i <= Len(q) THEN q[i] ELSE t[i - Len(q)]
    BY <1>1
  <2> QED BY <1>1, <2>1
<1>3. \A j \in DOMAIN t : j + Len(q) \in DOMAIN r /\ r[j + Len(q)] = t[j]
  <2> TAKE j \in DOMAIN t
  <2>1. j + Len(q) \in DOMAIN r /\ j + Len(q) \notin DOMAIN q /\ j + Len(q) - Len(q) = j
    BY <1>1
  <2> QED BY <1>2, <2>1
<1>4. DOMAIN q \subseteq DOMAIN r /\ (\A i, j \in DOMAIN r : i < j /\ j \in DOMAIN q => i \in DOMAIN q)
      /\ (\A i, j \in DOMAIN r : i < j => i - Len(q) < j - Len(q))
  BY <1>1
<1> HIDE DEF r
<1>5. Range(r) = Range(q) \cup Range(t)
  BY <1>2, <1>3, <1>4 DEF Range
<1>6. ASSUME NEW x \in Before(r) PROVE x \in Before(q) \cup Before(t) \cup (Range(q) \X Range(t))
  <2>1. PICK i \in DOMAIN r, j \in DOMAIN r : i < j /\ x = <<r[i], r[j]>>
    BY DEF Before
  <2>2. CASE j \in DOMAIN q
    <3>1. i \in DOMAIN q /\ x = <<q[i], q[j]>>
      BY <1>2, <1>4, <2>1, <2>2
    <3> QED BY <2>1, <2>2, <3>1, BeforeOf
  <2>3. CASE i \in DOMAIN q /\ j \notin DOMAIN q
    BY <1>2, <2>1, <2>3 DEF Range
  <2>4. CASE i \notin DOMAIN q /\ j \notin DOMAIN q
    <3>1. x = <<t[i - Len(q)], t[j - Len(q)]>> /\ i - Len(q) \in DOMAIN t /\ j - Len(q) \in DOMAIN t
      BY <1>2, <2>1, <2>4
    <3>2. i - Len(q) < j - Len(q)
      BY <1>4, <2>1
    <3>3. <<t[i - Len(q)], t[j - Len(q)]>> \in Before(t)
      BY <3>1, <3>2, BeforeOf
    <3> QED BY <3>1, <3>3
  <2> QED BY <2>2, <2>3, <2>4
<1>7. Before(t) \subseteq Range(t) \X Range(t)
  BY DEF Before
<1>8. Moved(q, r, Range(t))
  BY <1>5, <1>6, <1>7 DEF Moved
<1> QED BY <1>1, <1>5, <1>6, <1>8 DEF r

LEMMA MovedAppend ==
  ASSUME NEW E, NEW q \in Seq(E), NEW e \in E
  PROVE  /\ Append(q, e) \in Seq(E)
         /\ Range(Append(q, e)) = Range(q) \cup {e}
         /\ Before(Append(q, e)) \subseteq Before(q) \cup (Range(q) \X {e})
         /\ Moved(q, Append(q, e), {e})
<1>1. <<e>> \in Seq(E) /\ Append(q, e) = q \o <<e>>
  OBVIOUS
<1>2. DOMAIN <<e>> = {1} /\ <<e>>[1] = e
  OBVIOUS
<1>3. Range(<<e>>) = {e}
  BY <1>2 DEF Range
<1>4. Before(<<e>>) = {}
  BY <1>2 DEF Before
<1> DEFINE t == <<e>>
           r == Append(q, e)
<1>5. t \in Seq(E) /\ r = q \o t /\ Range(t) = {e} /\ Before(t) = {}
  BY <1>1, <1>3, <1>4
<1> HIDE DEF t, r
<1>6. /\ q \o t \in Seq(E)
      /\ Range(q \o t) = Range(q) \cup Range(t)
      /\ Before(q \o t) \subseteq Before(q) \cup Before(t) \cup (Range(q) \X Range(t))
      /\ Moved(q, q \o t, Range(t))
  BY <1>5, MovedConcat
<1>7. r \in Seq(E) /\ Range(r) = Range(q) \cup {e} /\ Moved(q, r, {e})
  BY <1>5, <1>6
<1>8. Before(r) \subseteq Before(q) \cup {} \cup (Range(q) \X {e})
  BY <1>5, <1>6
<1> QED BY <1>7, <1>8 DEF r

LEMMA MovedSame == ASSUME NEW q, NEW S PROVE Moved(q, q, S)
BY DEF Moved

LEMMA MovedMore ==
  ASSUME NEW q, NEW r, NEW t, NEW S, NEW T, NEW U, Moved(q, r, S), Moved(r, t, T), S \subseteq U, T \subseteq U
  PROVE  Moved(q, t, U)
BY DEF Moved

LEMMA MovedNothing == Range(<<>>) = {} /\ Before(<<>>) = {}
BY DEF Range, Before

-----------------------------------------------------------------------------
(* Types.  The calls are numbered as they are made, and no persist has a   *)
(* version that is not made yet.                                           *)

SetCall(p)       == [op |-> "setValues", id |-> p]
SaveCall(s)      == [op |-> "savePayloads", id |-> s]
RemoveCall(s, u) == [op |-> "removePayload", id |-> s, item |-> u]
EraseCall(o, f)  == [op |-> o, for |-> f]

LEMMA CallForms ==
  ASSUME NEW c \in DeviceCall
  PROVE  /\ c.op \in {"setValues", "savePayloads", "removePayload", "removeValues", "removePayloads"}
         /\ c.op = "setValues" => c.id \in Persist /\ c = SetCall(c.id)
         /\ c.op = "savePayloads" => c.id \in SaveId /\ c = SaveCall(c.id)
         /\ c.op = "removePayload" => c.id \in SaveId /\ c.item \in Item /\ c = RemoveCall(c.id, c.item)
         /\ c.op \in {"removeValues", "removePayloads"}
              => c.for \in {"clear", "switch"} /\ c = EraseCall(c.op, c.for)
<1>1. CASE c \in [op : {"setValues"}, id : Persist]
  BY <1>1 DEF SetCall
<1>2. CASE c \in [op : {"savePayloads"}, id : SaveId]
  BY <1>2 DEF SaveCall
<1>3. CASE c \in [op : {"removePayload"}, id : SaveId, item : Item]
  BY <1>3 DEF RemoveCall
<1>4. CASE c \in [op : {"removeValues", "removePayloads"}, for : {"clear", "switch"}]
  BY <1>4 DEF EraseCall
<1> QED BY <1>1, <1>2, <1>3, <1>4 DEF DeviceCall

LEMMA CallTypes ==
  /\ \A p \in Persist : SetCall(p) \in DeviceCall /\ SetCall(p).op = "setValues" /\ SetCall(p).id = p
  /\ \A s \in SaveId : SaveCall(s) \in DeviceCall /\ SaveCall(s).op = "savePayloads" /\ SaveCall(s).id = s
  /\ \A s \in SaveId, u \in Item : /\ RemoveCall(s, u) \in DeviceCall /\ RemoveCall(s, u).op = "removePayload"
                                   /\ RemoveCall(s, u).id = s /\ RemoveCall(s, u).item = u
  /\ \A o \in {"removeValues", "removePayloads"}, f \in {"clear", "switch"} :
       /\ EraseCall(o, f) \in DeviceCall /\ EraseCall(o, f).op = o /\ EraseCall(o, f).for = f
BY DEF DeviceCall, SetCall, SaveCall, RemoveCall, EraseCall

LEMMA DeviceAppend ==
  ASSUME NEW q \in Seq(DeviceCall), NEW e \in DeviceCall
  PROVE  /\ Append(q, e) \in Seq(DeviceCall)
         /\ Range(Append(q, e)) = Range(q) \cup {e}
         /\ Before(Append(q, e)) \subseteq Before(q) \cup (Range(q) \X {e})
         /\ Moved(q, Append(q, e), {e})
<1> DEFINE E == DeviceCall
<1>1. q \in Seq(E) /\ e \in E
  OBVIOUS
<1> HIDE DEF E
<1> QED BY <1>1, MovedAppend

LEMMA EntryAppend ==
  ASSUME NEW q \in Seq(Entry), NEW e \in Entry
  PROVE  /\ Append(q, e) \in Seq(Entry)
         /\ Range(Append(q, e)) = Range(q) \cup {e}
         /\ Before(Append(q, e)) \subseteq Before(q) \cup (Range(q) \X {e})
         /\ Moved(q, Append(q, e), {e})
BY MovedAppend

(* Calls are numbered as they are made.                                    *)
FirstUsed(calls) ==
  \A q \in DOMAIN calls : calls[q].stage # "none" => \A p \in 1 .. q : calls[p].stage # "none"

Snaps == \A p \in Persist : persist[p].snap <= latest

TypeInv == TypeOK /\ FirstUsed(persist) /\ FirstUsed(save) /\ Snaps

LEMMA NewNumbers ==
  ASSUME TypeOK, FirstUsed(persist), FirstUsed(save)
  PROVE  /\ PersistsUsed \in Nat /\ SavesUsed \in Nat /\ SavesUsed <= MaxSaves
         /\ \A p \in Persist : persist[p].stage # "none" <=> p <= PersistsUsed
         /\ \A s \in SaveId : save[s].stage # "none" <=> s <= SavesUsed
<1> DEFINE U == {p \in Persist : persist[p].stage # "none"}
           V == {s \in SaveId : save[s].stage # "none"}
<1>0. /\ MaxPersists \in Nat /\ MaxSaves \in Nat /\ DOMAIN persist = Persist /\ DOMAIN save = SaveId
      /\ U \in SUBSET (1 .. MaxPersists) /\ V \in SUBSET (1 .. MaxSaves)
  BY DEF TypeOK
<1>1. \A q \in U : \A p \in 1 .. q : p \in U
  <2> SUFFICES ASSUME NEW q \in U, NEW p \in 1 .. q PROVE p \in U
    OBVIOUS
  <2>1. persist[p].stage # "none"
    BY <1>0 DEF FirstUsed
  <2>2. p \in Persist
    OBVIOUS
  <2> QED BY <2>1, <2>2
<1>2. \A q \in V : \A p \in 1 .. q : p \in V
  <2> SUFFICES ASSUME NEW q \in V, NEW p \in 1 .. q PROVE p \in V
    OBVIOUS
  <2>1. save[p].stage # "none"
    BY <1>0 DEF FirstUsed
  <2>2. p \in SaveId
    OBVIOUS
  <2> QED BY <2>1, <2>2
<1>3. PersistsUsed = Cardinality(U) /\ SavesUsed = Cardinality(V)
  BY DEF PersistsUsed, SavesUsed
<1>4. \A p \in Persist : persist[p].stage # "none" <=> p \in U
  OBVIOUS
<1>5. \A s \in SaveId : save[s].stage # "none" <=> s \in V
  OBVIOUS
<1> HIDE DEF U, V
<1>6. Cardinality(U) \in Nat /\ \A q \in 1 .. MaxPersists : q \in U <=> q <= Cardinality(U)
  BY <1>0, <1>1, FirstNumbers
<1>7. Cardinality(V) \in Nat /\ \A q \in 1 .. MaxSaves : q \in V <=> q <= Cardinality(V)
  BY <1>0, <1>2, FirstNumbers
<1>8. Cardinality(V) <= MaxSaves
  BY <1>0, Numbers
<1> QED BY <1>3, <1>4, <1>5, <1>6, <1>7, <1>8

LEMMA NewPersistsOf ==
  ASSUME TypeOK, FirstUsed(persist), FirstUsed(save), NEW n \in Nat
  PROVE  /\ NewPersists(n) \in SUBSET Persist
         /\ \A p \in NewPersists(n) : persist[p].stage = "none"
         /\ \A q \in NewPersists(n) : \A p \in 1 .. q : persist[p].stage # "none" \/ p \in NewPersists(n)
<1>1. NewPersists(n) \in SUBSET Persist
  BY DEF NewPersists
<1>2. \A p \in NewPersists(n) : persist[p].stage = "none"
  <2> SUFFICES ASSUME NEW p \in NewPersists(n) PROVE persist[p].stage = "none"
    OBVIOUS
  <2>1. p \in Persist /\ PersistsUsed < p /\ PersistsUsed \in Nat
    BY NewNumbers DEF NewPersists
  <2>2. ~(p <= PersistsUsed)
    BY <2>1
  <2> QED BY <2>1, <2>2, NewNumbers
<1>3. ASSUME NEW q \in NewPersists(n), NEW p \in 1 .. q, persist[p].stage = "none" PROVE p \in NewPersists(n)
  <2>1. /\ q \in Persist /\ PersistsUsed < q /\ q <= PersistsUsed + n /\ SavesUsed + q <= MaxCalls
        /\ PersistsUsed \in Nat /\ SavesUsed \in Nat /\ MaxCalls \in Nat
    BY NewNumbers DEF NewPersists
  <2>2. p \in Persist
    BY <2>1
  <2>3. ~(p <= PersistsUsed)
    BY <1>3, <2>2, NewNumbers
  <2>4. PersistsUsed < p /\ p <= PersistsUsed + n /\ SavesUsed + p <= MaxCalls
    BY <2>1, <2>2, <2>3
  <2> QED BY <2>2, <2>4 DEF NewPersists
<1> QED BY <1>1, <1>2, <1>3

(* What the calls of persistValuesToDisk come to: some of them, Q, start   *)
(* to encrypt the current version, others wait or fail.                    *)
Fresh == {"none", "waiting"}

Encrypting(version) == [stage |-> "encrypting", on |-> None, snap |-> version]

Begun(ps, ps2, queue, queue2, Q, version) ==
  /\ Q \in SUBSET Persist
  /\ queue2 = queue \o InOrder(Q) \/ (Q = {} /\ queue2 = queue)
  /\ ps2 \in [Persist -> PersistRecord]
  /\ \A p \in Q : ps[p].stage \in Fresh /\ ps2[p] = Encrypting(version)
  /\ \A p \in Persist \ Q :
       \/ ps2[p] = ps[p]
       \/ /\ ps[p].stage \in Fresh /\ ps2[p].stage \in {"waiting", "failed"}
          /\ ps2[p].snap \in {ps[p].snap, version}

LEMMA StartedType ==
  ASSUME NEW ps \in [Persist -> PersistRecord], NEW P \in SUBSET Persist, NEW version \in Nat
  PROVE  /\ Started(ps, P, version) \in [Persist -> PersistRecord]
         /\ \A p \in P : Started(ps, P, version)[p] = Encrypting(version)
         /\ \A p \in Persist \ P : Started(ps, P, version)[p] = ps[p]
<1>1. Encrypting(version) \in PersistRecord
  BY DEF Encrypting, PersistRecord
<1> QED BY <1>1 DEF Started, Encrypting

LEMMA PersistValuesBegins ==
  ASSUME TypeOK, NEW P \in SUBSET Persist, \A p \in P : persist[p].stage = "none",
         NEW version \in Nat, PersistValues(P, version)
  PROVE  /\ \E Q \in SUBSET P : Begun(persist, persist', crypto, crypto', Q, version)
         /\ needsPersist' \in BOOLEAN /\ currentPersist' \in Persist \cup {None}
         /\ persist' = persist \/ \A p \in P : persist'[p].stage # "none"
         /\ \A p \in Persist \ P : persist'[p] = persist[p]
<1>0. /\ persist \in [Persist -> PersistRecord] /\ needsPersist \in BOOLEAN
      /\ currentPersist \in Persist \cup {None}
  BY DEF TypeOK
<1>1. ASSUME UNCHANGED <<persist, currentPersist, crypto>>, needsPersist' \in BOOLEAN
      PROVE  /\ \E Q \in SUBSET P : Begun(persist, persist', crypto, crypto', Q, version)
             /\ needsPersist' \in BOOLEAN /\ currentPersist' \in Persist \cup {None}
             /\ persist' = persist \/ \A p \in P : persist'[p].stage # "none"
             /\ \A p \in Persist \ P : persist'[p] = persist[p]
  <2>1. Begun(persist, persist', crypto, crypto', {}, version)
    BY <1>0, <1>1 DEF Begun
  <2> QED BY <1>0, <1>1, <2>1
<1>2. ASSUME NEW f, f \in [P -> PersistRecord],
             \A p \in P : f[p].stage \in {"waiting", "failed"} /\ f[p].snap = version,
             persist' = [p \in Persist |-> IF p \in P THEN f[p] ELSE persist[p]],
             UNCHANGED <<needsPersist, currentPersist, crypto>>
      PROVE  /\ \E Q \in SUBSET P : Begun(persist, persist', crypto, crypto', Q, version)
             /\ needsPersist' \in BOOLEAN /\ currentPersist' \in Persist \cup {None}
             /\ persist' = persist \/ \A p \in P : persist'[p].stage # "none"
             /\ \A p \in Persist \ P : persist'[p] = persist[p]
  <2>1. persist' \in [Persist -> PersistRecord]
    BY <1>0, <1>2
  <2>2. Begun(persist, persist', crypto, crypto', {}, version)
    BY <1>0, <1>2, <2>1 DEF Begun, Fresh
  <2> QED BY <1>0, <1>2, <2>2
<1>3. CASE ~persistable
  BY <1>1, <1>3 DEF PersistValues
<1>4. CASE persistable /\ (ephemeral \/ P = {})
  BY <1>0, <1>1, <1>4 DEF PersistValues
<1>5. CASE persistable /\ ~(ephemeral \/ P = {}) /\ Pending(currentPersist)
  <2> DEFINE f == [p \in P |-> [stage |-> "waiting", on |-> currentPersist, snap |-> version]]
  <2>1. f \in [P -> PersistRecord]
    BY <1>0 DEF PersistRecord
  <2>2. \A p \in P : f[p].stage \in {"waiting", "failed"} /\ f[p].snap = version
    OBVIOUS
  <2>3. /\ persist' = [p \in Persist |-> IF p \in P THEN f[p] ELSE persist[p]]
        /\ UNCHANGED <<needsPersist, currentPersist, crypto>>
    BY <1>5 DEF PersistValues
  <2> HIDE DEF f
  <2> QED BY <1>2, <2>1, <2>2, <2>3
<1>6. CASE /\ persistable /\ ~(ephemeral \/ P = {}) /\ ~Pending(currentPersist)
           /\ currentPersist # None /\ persist[currentPersist].stage = "failed"
  <2> DEFINE f == [p \in P |-> [stage |-> "failed", on |-> None, snap |-> version]]
  <2>1. f \in [P -> PersistRecord]
    BY <1>0 DEF PersistRecord
  <2>2. \A p \in P : f[p].stage \in {"waiting", "failed"} /\ f[p].snap = version
    OBVIOUS
  <2>3. /\ persist' = [p \in Persist |-> IF p \in P THEN f[p] ELSE persist[p]]
        /\ UNCHANGED <<needsPersist, currentPersist, crypto>>
    BY <1>6 DEF PersistValues
  <2> HIDE DEF f
  <2> QED BY <1>2, <2>1, <2>2, <2>3
<1>7. CASE /\ persistable /\ ~(ephemeral \/ P = {}) /\ ~Pending(currentPersist)
           /\ ~(currentPersist # None /\ persist[currentPersist].stage = "failed")
  <2>1. /\ needsPersist' = FALSE /\ persist' = Started(persist, P, version)
        /\ currentPersist' = LastOf(P) /\ crypto' = crypto \o InOrder(P) /\ P # {}
    BY <1>7 DEF PersistValues
  <2>2. LastOf(P) \in P
    BY <2>1, LastOfType
  <2>3. /\ persist' \in [Persist -> PersistRecord]
        /\ \A p \in P : persist'[p] = Encrypting(version)
        /\ \A p \in Persist \ P : persist'[p] = persist[p]
    <3> DEFINE st == Started(persist, P, version)
    <3>1. /\ st \in [Persist -> PersistRecord]
          /\ \A p \in P : st[p] = Encrypting(version)
          /\ \A p \in Persist \ P : st[p] = persist[p]
      BY <1>0, StartedType
    <3>2. persist' = st
      BY <2>1
    <3> HIDE DEF st
    <3> QED BY <3>1, <3>2, Zenon
  <2>4. Begun(persist, persist', crypto, crypto', P, version)
    BY <2>1, <2>3 DEF Begun, Fresh
  <2>5. \A p \in P : persist'[p].stage # "none"
    <3>1. Encrypting(version).stage = "encrypting"
      BY DEF Encrypting
    <3> QED BY <2>3, <3>1
  <2> QED BY <2>1, <2>2, <2>3, <2>4, <2>5
<1> QED BY <1>3, <1>4, <1>5, <1>6, <1>7

LEMMA SettleBegins ==
  ASSUME TypeOK, NEW p \in Persist, persist[p].stage \in {"encrypting", "writing"},
         NEW result \in {"done", "failed"}, NEW queue, Settle(p, result, queue)
  PROVE  /\ \E Q \in SUBSET {q \in Persist : persist[q].stage = "waiting"} :
              Begun([persist EXCEPT ![p].stage = result], persist', queue, crypto', Q, values)
         /\ needsPersist' \in {needsPersist, FALSE} /\ currentPersist' \in Persist \cup {None}
         /\ \A q \in Persist : persist[q].stage = "none" => persist'[q].stage = "none"
<1> DEFINE waiters == {q \in Persist : persist[q].stage = "waiting" /\ persist[q].on = p}
           settled == [persist EXCEPT ![p].stage = result]
<1>0. /\ persist \in [Persist -> PersistRecord] /\ needsPersist \in BOOLEAN
      /\ currentPersist \in Persist \cup {None} /\ values \in Nat
      /\ waiters \in SUBSET {q \in Persist : persist[q].stage = "waiting"} /\ waiters \in SUBSET Persist
  BY DEF TypeOK
<1>1. /\ settled \in [Persist -> PersistRecord]
      /\ \A q \in waiters : settled[q].stage \in Fresh /\ settled[q] = persist[q] /\ q # p
  BY <1>0 DEF PersistRecord, Fresh
<1>2. CASE result = "done" /\ waiters # {} /\ ~dealloced
  <2>1. /\ persist' = Started(settled, waiters, values)
        /\ currentPersist' = LastOf(waiters)
        /\ crypto' = queue \o InOrder(waiters) /\ needsPersist' = FALSE
    BY <1>2 DEF Settle
  <2> HIDE DEF waiters, settled
  <2>2. LastOf(waiters) \in waiters
    BY <1>0, <1>2, LastOfType
  <2>3. /\ persist' \in [Persist -> PersistRecord]
        /\ \A q \in waiters : persist'[q] = Encrypting(values)
        /\ \A q \in Persist \ waiters : persist'[q] = settled[q]
    <3> DEFINE st == Started(settled, waiters, values)
    <3>1. /\ st \in [Persist -> PersistRecord]
          /\ \A q \in waiters : st[q] = Encrypting(values)
          /\ \A q \in Persist \ waiters : st[q] = settled[q]
      BY <1>0, <1>1, StartedType
    <3>2. persist' = st
      BY <2>1
    <3> HIDE DEF st
    <3> QED BY <3>1, <3>2, Zenon
  <2>4. Begun(settled, persist', queue, crypto', waiters, values)
    BY <1>0, <1>1, <2>1, <2>3 DEF Begun
  <2>5. currentPersist' \in Persist \cup {None}
    BY <1>0, <2>1, <2>2
  <2>6. /\ \E Q \in SUBSET {q \in Persist : persist[q].stage = "waiting"} :
             Begun(settled, persist', queue, crypto', Q, values)
        /\ needsPersist' \in {needsPersist, FALSE}
    BY <1>0, <2>1, <2>4
  <2>7. \A q \in Persist : persist[q].stage = "none" => q # p /\ q \notin waiters
    BY <1>0
  <2>8. \A q \in Persist : persist[q].stage = "none" => persist'[q].stage = "none"
    BY <2>3, <2>7 DEF settled
  <2> QED BY <2>5, <2>6, <2>8 DEF settled
<1>3. CASE ~(result = "done" /\ waiters # {} /\ ~dealloced)
  <2>1. /\ persist' = [q \in Persist |-> IF q \in waiters
                          THEN [settled[q] EXCEPT !.stage = "failed", !.on = None]
                          ELSE settled[q]]
        /\ crypto' = queue /\ UNCHANGED <<currentPersist, needsPersist>>
    BY <1>3 DEF Settle
  <2> HIDE DEF waiters, settled
  <2>2. \A q \in waiters : /\ [settled[q] EXCEPT !.stage = "failed", !.on = None] \in PersistRecord
                           /\ [settled[q] EXCEPT !.stage = "failed", !.on = None].stage = "failed"
                           /\ [settled[q] EXCEPT !.stage = "failed", !.on = None].snap = settled[q].snap
    <3>1. \A q \in waiters : settled[q] \in PersistRecord
      BY <1>0, <1>1
    <3> QED BY <3>1 DEF PersistRecord
  <2>3. persist' \in [Persist -> PersistRecord]
    BY <1>1, <2>1, <2>2
  <2>4. Begun(settled, persist', queue, crypto', {}, values)
    BY <1>1, <2>1, <2>2, <2>3 DEF Begun
  <2>5. /\ \E Q \in SUBSET {q \in Persist : persist[q].stage = "waiting"} :
             Begun(settled, persist', queue, crypto', Q, values)
        /\ needsPersist' \in {needsPersist, FALSE} /\ currentPersist' \in Persist \cup {None}
    BY <1>0, <2>1, <2>4
  <2>6. \A q \in Persist : persist[q].stage = "none" => q # p /\ q \notin waiters
    BY <1>0
  <2>7. \A q \in Persist : persist[q].stage = "none" => persist'[q].stage = "none"
    BY <1>0, <2>1, <2>6 DEF settled
  <2> QED BY <2>5, <2>7 DEF settled
<1> QED BY <1>2, <1>3

-----------------------------------------------------------------------------
(* The order of persists.  A persist takes its copy of the key-values when *)
(* it starts to encrypt; encryptions end, and the device writes, in the    *)
(* order they were begun, so that no copy is older than one before it, nor *)
(* than the version on disk (low).                                         *)
Enc(p) == p

PersistQueues(ps, cry, dev, low) ==
  /\ \A p \in Persist : Enc(p) \in Range(cry) => ps[p].stage = "encrypting" /\ low <= ps[p].snap
  /\ \A p \in Persist : SetCall(p) \in Range(dev) => ps[p].stage = "writing" /\ low <= ps[p].snap
  /\ \A p, q \in Persist : <<Enc(p), Enc(q)>> \in Before(cry) => p # q /\ ps[p].snap <= ps[q].snap
  /\ \A p, q \in Persist : <<SetCall(p), SetCall(q)>> \in Before(dev) => p # q /\ ps[p].snap <= ps[q].snap
  /\ \A p, q \in Persist : SetCall(p) \in Range(dev) /\ Enc(q) \in Range(cry) => ps[p].snap <= ps[q].snap

LEMMA EncIs == \A p, q : Enc(p) = Enc(q) => p = q
BY DEF Enc

LEMMA SetCallIs == \A p, q : SetCall(p) = SetCall(q) => p = q
<1>1. \A p : SetCall(p).id = p
  BY DEF SetCall
<1> QED BY <1>1

LEMMA EncryptionRange ==
  ASSUME NEW Q \in SUBSET Persist
  PROVE  /\ InOrder(Q) \in Seq(Entry)
         /\ \A x \in Range(InOrder(Q)) : \E p \in Q : x = Enc(p)
         /\ \A p, q \in Persist : <<Enc(p), Enc(q)>> \in Before(InOrder(Q)) => p # q /\ p \in Q /\ q \in Q
<1> DEFINE t == InOrder(Q)
<1>1. /\ t \in Seq(Entry)
      /\ \A i \in DOMAIN t : \E p \in Q : t[i] = Enc(p)
      /\ \A i, j \in DOMAIN t : t[i] = t[j] => i = j
  BY InOrderType DEF Enc
<1>1a. DOMAIN t = 1 .. Len(t) /\ Len(t) \in Nat
  BY <1>1
<1> HIDE DEF t
<1>2. \A x \in Range(t) : \E p \in Q : x = Enc(p)
  BY <1>1 DEF Range
<1>3. ASSUME NEW p \in Persist, NEW q \in Persist, <<Enc(p), Enc(q)>> \in Before(t)
      PROVE  p # q /\ p \in Q /\ q \in Q
  <2>1. PICK i \in DOMAIN t, j \in DOMAIN t : i < j /\ <<Enc(p), Enc(q)>> = <<t[i], t[j]>>
    BY <1>3 DEF Before
  <2>2. i # j /\ t[i] = Enc(p) /\ t[j] = Enc(q)
    BY <1>1a, <2>1
  <2>3. t[i] # t[j]
    BY <1>1, <2>2
  <2>4. \A x \in {p, q} : Enc(x) \in Range(t)
    BY <2>2 DEF Range
  <2> QED BY <1>2, <2>2, <2>3, <2>4, EncIs
<1> QED BY <1>1, <1>2, <1>3 DEF t

(* What Begun does to the queue.                                           *)
LEMMA BegunQueue ==
  ASSUME NEW ps, NEW ps2, NEW queue \in Seq(Entry), NEW queue2, NEW Q, NEW version,
         Begun(ps, ps2, queue, queue2, Q, version)
  PROVE  /\ queue2 \in Seq(Entry)
         /\ Moved(queue, queue2, {Enc(p) : p \in Q})
         /\ \A p \in Persist : Enc(p) \in Range(queue2) => Enc(p) \in Range(queue) \/ p \in Q
         /\ \A p, q \in Persist : <<Enc(p), Enc(q)>> \in Before(queue2)
              => \/ <<Enc(p), Enc(q)>> \in Before(queue)
                 \/ q \in Q /\ p # q /\ p \in Q
                 \/ q \in Q /\ Enc(p) \in Range(queue)
<1>1. Q \in SUBSET Persist /\ (queue2 = queue \o InOrder(Q) \/ (Q = {} /\ queue2 = queue))
  BY DEF Begun
<1>2. CASE Q = {} /\ queue2 = queue
  BY <1>2 DEF Moved
<1>3. CASE queue2 = queue \o InOrder(Q)
  <2> DEFINE t == InOrder(Q)
  <2>1. /\ t \in Seq(Entry) /\ queue2 = queue \o t
        /\ \A x \in Range(t) : \E p \in Q : x = Enc(p)
        /\ \A p, q \in Persist : <<Enc(p), Enc(q)>> \in Before(t) => p # q /\ p \in Q /\ q \in Q
    BY <1>1, <1>3, EncryptionRange
  <2> HIDE DEF t
  <2>2. /\ queue2 \in Seq(Entry)
        /\ Range(queue2) = Range(queue) \cup Range(t)
        /\ Before(queue2) \subseteq Before(queue) \cup Before(t) \cup (Range(queue) \X Range(t))
        /\ Moved(queue, queue2, Range(t))
    BY <2>1, MovedConcat
  <2>3. Range(t) \subseteq {Enc(p) : p \in Q} /\ \A p \in Persist : Enc(p) \in Range(t) => p \in Q
    BY <2>1, EncIs
  <2>4. Moved(queue, queue2, {Enc(p) : p \in Q})
    BY <2>2, <2>3 DEF Moved
  <2>5. \A p, q \in Persist : <<Enc(p), Enc(q)>> \in Before(queue2)
              => \/ <<Enc(p), Enc(q)>> \in Before(queue)
                 \/ q \in Q /\ p # q /\ p \in Q
                 \/ q \in Q /\ Enc(p) \in Range(queue)
    BY <2>1, <2>2, <2>3
  <2> QED BY <2>2, <2>3, <2>4, <2>5
<1> QED BY <1>1, <1>2, <1>3

LEMMA PersistBegun ==
  ASSUME NEW ps, NEW ps2, NEW queue \in Seq(Entry), NEW queue2, NEW Q, NEW version \in Nat,
         NEW dev, NEW low \in Nat, Begun(ps, ps2, queue, queue2, Q, version),
         PersistQueues(ps, queue, dev, low), \A p \in Persist : ps[p].snap <= version, low <= version
  PROVE  /\ PersistQueues(ps2, queue2, dev, low)
         /\ \A p \in Persist : ps2[p].snap <= version
<1>1. /\ \A p \in Persist : Enc(p) \in Range(queue2) => Enc(p) \in Range(queue) \/ p \in Q
      /\ \A p, q \in Persist : <<Enc(p), Enc(q)>> \in Before(queue2)
           => \/ <<Enc(p), Enc(q)>> \in Before(queue)
              \/ q \in Q /\ p # q /\ p \in Q
              \/ q \in Q /\ Enc(p) \in Range(queue)
  BY BegunQueue
<1>2. Encrypting(version).stage = "encrypting" /\ Encrypting(version).snap = version /\ version <= version
  BY DEF Encrypting
<1>3. \A p \in Q : /\ p \in Persist /\ ps[p].stage \in Fresh
                   /\ ps2[p].stage = "encrypting" /\ ps2[p].snap = version
  BY <1>2 DEF Begun
<1>4. \A p \in Persist \ Q : ps[p].stage \notin Fresh => ps2[p] = ps[p]
  BY DEF Begun
<1>5. \A p \in Persist : ps2[p].snap <= version
  BY <1>2, <1>3 DEF Begun
<1>6. "encrypting" \notin Fresh /\ "writing" \notin Fresh
  BY DEF Fresh
<1>7. \A p \in Persist : Enc(p) \in Range(queue) => p \notin Q /\ ps2[p] = ps[p]
  BY <1>3, <1>4, <1>6 DEF PersistQueues
<1>8. \A p \in Persist : SetCall(p) \in Range(dev) => p \notin Q /\ ps2[p] = ps[p]
  BY <1>3, <1>4, <1>6 DEF PersistQueues
<1>9. \A p, q \in Persist : <<Enc(p), Enc(q)>> \in Before(queue) => Enc(p) \in Range(queue) /\ Enc(q) \in Range(queue)
  BY DEF Before
<1>10. \A p, q \in Persist : <<SetCall(p), SetCall(q)>> \in Before(dev) => SetCall(p) \in Range(dev) /\ SetCall(q) \in Range(dev)
  BY DEF Before
<1>11. \A p \in Persist : Enc(p) \in Range(queue2) => ps2[p].stage = "encrypting" /\ low <= ps2[p].snap
  BY <1>1, <1>3, <1>7 DEF PersistQueues
<1>12. \A p \in Persist : SetCall(p) \in Range(dev) => ps2[p].stage = "writing" /\ low <= ps2[p].snap
  BY <1>8 DEF PersistQueues
<1>13. ASSUME NEW p \in Persist, NEW q \in Persist, <<Enc(p), Enc(q)>> \in Before(queue2)
       PROVE  p # q /\ ps2[p].snap <= ps2[q].snap
  <2>1. CASE <<Enc(p), Enc(q)>> \in Before(queue)
    BY <1>7, <1>9, <2>1 DEF PersistQueues
  <2>2. CASE q \in Q /\ p # q /\ p \in Q
    BY <1>3, <1>5, <2>2
  <2>3. CASE q \in Q /\ Enc(p) \in Range(queue)
    BY <1>3, <1>5, <1>7, <2>3
  <2> QED BY <1>1, <1>13, <2>1, <2>2, <2>3
<1>14. \A p, q \in Persist : <<SetCall(p), SetCall(q)>> \in Before(dev) => p # q /\ ps2[p].snap <= ps2[q].snap
  BY <1>8, <1>10 DEF PersistQueues
<1>15. ASSUME NEW p \in Persist, NEW q \in Persist, SetCall(p) \in Range(dev), Enc(q) \in Range(queue2)
       PROVE  ps2[p].snap <= ps2[q].snap
  <2>1. CASE Enc(q) \in Range(queue)
    BY <1>7, <1>8, <1>15, <2>1 DEF PersistQueues
  <2>2. CASE q \in Q
    BY <1>3, <1>5, <2>2
  <2> QED BY <1>1, <1>15, <2>1, <2>2
<1>16. PersistQueues(ps2, queue2, dev, low)
  BY <1>11, <1>12, <1>13, <1>14, <1>15 DEF PersistQueues
<1> QED BY <1>5, <1>16

LEMMA PersistFrame ==
  ASSUME NEW ps, NEW cry, NEW cry2, NEW dev, NEW dev2, NEW low, NEW S, NEW T,
         PersistQueues(ps, cry, dev, low), Moved(cry, cry2, S), Moved(dev, dev2, T),
         \A p \in Persist : Enc(p) \notin S, \A p \in Persist : SetCall(p) \notin T
  PROVE  PersistQueues(ps, cry2, dev2, low)
<1>1. \A p \in Persist : /\ Enc(p) \in Range(cry2) => Enc(p) \in Range(cry)
                         /\ SetCall(p) \in Range(dev2) => SetCall(p) \in Range(dev)
  BY DEF Moved
<1>2. \A p, q \in Persist : /\ <<Enc(p), Enc(q)>> \in Before(cry2) => <<Enc(p), Enc(q)>> \in Before(cry)
                            /\ <<SetCall(p), SetCall(q)>> \in Before(dev2) => <<SetCall(p), SetCall(q)>> \in Before(dev)
  BY DEF Moved
<1> QED BY <1>1, <1>2 DEF PersistQueues

(* The first encryption ends, and its persist settles.                     *)
LEMMA PersistHeadSettled ==
  ASSUME NEW ps \in [Persist -> PersistRecord], NEW cry \in Seq(Entry), cry # <<>>, NEW dev, NEW low \in Nat,
         NEW p \in Persist, Head(cry) = Enc(p), NEW result \in {"done", "failed", "writing"},
         PersistQueues(ps, cry, dev, low)
  PROVE  /\ ps[p].stage = "encrypting" /\ low <= ps[p].snap
         /\ \A q \in Persist : Enc(q) \in Range(Tail(cry)) => q # p /\ ps[p].snap <= ps[q].snap
         /\ PersistQueues([ps EXCEPT ![p].stage = result], Tail(cry), dev, low)
<1> DEFINE r == Tail(cry)
           ps2 == [ps EXCEPT ![p].stage = result]
<1>1. /\ r \in Seq(Entry) /\ Head(cry) \in Range(cry) /\ Moved(cry, r, {})
      /\ \A e \in Range(r) : <<Head(cry), e>> \in Before(cry)
  BY MovedTail
<1>2. (\A q \in Persist : q # p => ps2[q] = ps[q]) /\ ps2[p].snap = ps[p].snap
  BY DEF PersistRecord
<1> HIDE DEF r, ps2
<1>3. \A q \in Persist : Enc(q) \in Range(r) => q # p /\ ps[p].snap <= ps[q].snap
  BY <1>1 DEF PersistQueues
<1>4. ps[p].stage = "encrypting" /\ low <= ps[p].snap
  BY <1>1 DEF PersistQueues
<1>5. \A q \in Persist : ps2[q].snap = ps[q].snap
  BY <1>2
<1>6. PersistQueues(ps, r, dev, low)
  BY <1>1, PersistFrame, MovedSame
<1>7. \A q \in Persist : SetCall(q) \in Range(dev) => q # p
  BY <1>4 DEF PersistQueues
<1>8. PersistQueues(ps2, r, dev, low)
  BY <1>2, <1>3, <1>5, <1>6, <1>7 DEF PersistQueues
<1> QED BY <1>3, <1>4, <1>8 DEF r, ps2

(* It is written next.                                                     *)
LEMMA PersistHeadWriting ==
  ASSUME NEW ps \in [Persist -> PersistRecord], NEW cry \in Seq(Entry), cry # <<>>,
         NEW dev \in Seq(DeviceCall), NEW low \in Nat,
         NEW p \in Persist, Head(cry) = Enc(p), PersistQueues(ps, cry, dev, low)
  PROVE  PersistQueues([ps EXCEPT ![p].stage = "writing"], Tail(cry), Append(dev, SetCall(p)), low)
<1> DEFINE r == Tail(cry)
           ps2 == [ps EXCEPT ![p].stage = "writing"]
           dev2 == Append(dev, SetCall(p))
<1>1. /\ ps[p].stage = "encrypting" /\ low <= ps[p].snap
      /\ \A q \in Persist : Enc(q) \in Range(r) => q # p /\ ps[p].snap <= ps[q].snap
      /\ PersistQueues(ps2, r, dev, low)
  BY PersistHeadSettled
<1>2. (\A q \in Persist : q # p => ps2[q] = ps[q]) /\ ps2[p].snap = ps[p].snap /\ ps2[p].stage = "writing"
  BY DEF PersistRecord
<1>3. SetCall(p) \in DeviceCall
  BY CallTypes
<1>4. Range(dev2) = Range(dev) \cup {SetCall(p)} /\ Before(dev2) \subseteq Before(dev) \cup (Range(dev) \X {SetCall(p)})
  <2> DEFINE e == SetCall(p)
  <2>1. e \in DeviceCall
    BY <1>3
  <2> HIDE DEF e
  <2>2. Range(Append(dev, e)) = Range(dev) \cup {e} /\ Before(Append(dev, e)) \subseteq Before(dev) \cup (Range(dev) \X {e})
    BY <2>1, DeviceAppend
  <2> QED BY <2>2 DEF e, dev2
<1>5. \A q \in Persist : SetCall(q) \in Range(dev) => q # p /\ ps[q].snap <= ps[p].snap
  <2>1. Enc(p) \in Range(cry)
    <3>1. Head(cry) \in Range(cry)
      BY MovedTail
    <3> QED BY <3>1
  <2>2. \A q \in Persist : SetCall(q) \in Range(dev) => ps[q].stage = "writing"
    BY DEF PersistQueues
  <2> QED BY <1>1, <2>1, <2>2 DEF PersistQueues
<1> HIDE DEF r, ps2, dev2
<1>6. \A q \in Persist : SetCall(q) \in Range(dev2) => SetCall(q) \in Range(dev) \/ q = p
  BY <1>4, SetCallIs
<1>7. \A q, t \in Persist : <<SetCall(q), SetCall(t)>> \in Before(dev2) =>
        <<SetCall(q), SetCall(t)>> \in Before(dev) \/ (SetCall(q) \in Range(dev) /\ t = p)
  BY <1>4, SetCallIs
<1>8. \A q \in Persist : ps2[q].snap = ps[q].snap
  BY <1>2
<1>9. PersistQueues(ps2, r, dev2, low)
  BY <1>1, <1>2, <1>5, <1>6, <1>7, <1>8 DEF PersistQueues
<1> QED BY <1>9 DEF r, ps2, dev2

(* A write ends.                                                           *)
LEMMA PersistWriteEnds ==
  ASSUME NEW ps \in [Persist -> PersistRecord], NEW cry, NEW dev \in Seq(DeviceCall), dev # <<>>, NEW low \in Nat,
         NEW p \in Persist, Head(dev) = SetCall(p), NEW result \in {"done", "failed"},
         NEW low2 \in Nat, low2 <= ps[p].snap, PersistQueues(ps, cry, dev, low)
  PROVE  PersistQueues([ps EXCEPT ![p].stage = result], cry, Tail(dev), low2)
<1> DEFINE r == Tail(dev)
           ps2 == [ps EXCEPT ![p].stage = result]
<1>1. /\ r \in Seq(DeviceCall) /\ Head(dev) \in Range(dev) /\ Moved(dev, r, {})
      /\ \A e \in Range(r) : <<Head(dev), e>> \in Before(dev)
  BY MovedTail
<1>2. (\A q \in Persist : q # p => ps2[q] = ps[q]) /\ ps2[p].snap = ps[p].snap
  BY DEF PersistRecord
<1> HIDE DEF r, ps2
<1>3. \A q \in Persist : SetCall(q) \in Range(r) => q # p /\ ps[p].snap <= ps[q].snap
  BY <1>1 DEF PersistQueues
<1>4. ps[p].stage = "writing" /\ low <= ps[p].snap
  BY <1>1 DEF PersistQueues
<1>5. \A q \in Persist : ps2[q].snap = ps[q].snap
  BY <1>2
<1>6. PersistQueues(ps, cry, r, low)
  BY <1>1, PersistFrame, MovedSame
<1>7. \A q \in Persist : Enc(q) \in Range(cry) => q # p /\ ps[p].snap <= ps[q].snap
  BY <1>1, <1>4 DEF PersistQueues
<1>8. \A q \in Persist : ps[q].snap \in Nat /\ ps2[q].snap = ps[q].snap
  BY <1>5 DEF PersistRecord
<1>9. \A q \in Persist : SetCall(q) \in Range(r) \/ Enc(q) \in Range(cry) => low2 <= ps[q].snap
  BY <1>3, <1>7, <1>8
<1>10. PersistQueues(ps2, cry, r, low2)
  BY <1>2, <1>3, <1>6, <1>7, <1>8, <1>9 DEF PersistQueues
<1> QED BY <1>10 DEF r, ps2

-----------------------------------------------------------------------------
(* The calls of savePayloads under way: each is in the queue of the device *)
(* once, while it is written or its deletions are.                         *)
SaveQueues(sv, dev) ==
  /\ \A s \in SaveId : SaveCall(s) \in Range(dev) => sv[s].stage = "writing"
  /\ \A s \in SaveId, u \in Item : RemoveCall(s, u) \in Range(dev) => sv[s].stage = "deleting" /\ sv[s].discardable = {u}
  /\ \A s \in SaveId : <<SaveCall(s), SaveCall(s)>> \notin Before(dev)
  /\ \A s \in SaveId, u \in Item : <<RemoveCall(s, u), RemoveCall(s, u)>> \notin Before(dev)

LEMMA SaveCallIs ==
  /\ \A s, t : SaveCall(s) = SaveCall(t) => s = t
  /\ \A s, t, u, w : RemoveCall(s, u) = RemoveCall(t, w) => s = t /\ u = w
<1>1. \A s : SaveCall(s).id = s
  BY DEF SaveCall
<1>2. \A s, u : RemoveCall(s, u).id = s /\ RemoveCall(s, u).item = u
  BY DEF RemoveCall
<1> QED BY <1>1, <1>2

LEMMA SaveFrame ==
  ASSUME NEW sv, NEW dev, NEW dev2, NEW T, SaveQueues(sv, dev), Moved(dev, dev2, T),
         \A s \in SaveId : SaveCall(s) \notin T,
         \A s \in SaveId, u \in Item : RemoveCall(s, u) \notin T
  PROVE  SaveQueues(sv, dev2)
<1>1. \A s \in SaveId : /\ SaveCall(s) \in Range(dev2) => SaveCall(s) \in Range(dev)
                        /\ \A u \in Item : RemoveCall(s, u) \in Range(dev2) => RemoveCall(s, u) \in Range(dev)
  BY DEF Moved
<1>2. \A s \in SaveId : /\ <<SaveCall(s), SaveCall(s)>> \in Before(dev2) => <<SaveCall(s), SaveCall(s)>> \in Before(dev)
                        /\ \A u \in Item : <<RemoveCall(s, u), RemoveCall(s, u)>> \in Before(dev2)
                                           => <<RemoveCall(s, u), RemoveCall(s, u)>> \in Before(dev)
  BY DEF Moved
<1> QED BY <1>1, <1>2 DEF SaveQueues

LEMMA EraseIsNoWrite ==
  /\ \A p : \A o, f : SetCall(p) # EraseCall(o, f)
  /\ \A s, u, p : SetCall(p) # SaveCall(s) /\ SetCall(p) # RemoveCall(s, u)
  /\ \A s : \A o, f : SaveCall(s) # EraseCall(o, f)
  /\ \A s, t, u : SaveCall(s) # RemoveCall(t, u)
  /\ \A s, u : \A o, f : RemoveCall(s, u) # EraseCall(o, f)
BY DEF SetCall, SaveCall, RemoveCall, EraseCall

(* Only a session that has changed the key-values persists them: what is   *)
(* persisted is the version in memory, the latest one.                     *)
Current == needsPersist \/ (\E p \in Persist : persist[p].stage \in {"waiting", "encrypting", "writing"})
             => values = latest

BaseInv == /\ TypeInv /\ Current
           /\ PersistQueues(persist, crypto, device, diskValues)
           /\ SaveQueues(save, device)

AnyEnc == {Enc(p) : p \in Persist}

AnyErase == {EraseCall(o, f) : o \in {"removeValues", "removePayloads"}, f \in {"clear", "switch"}}

LEMMA NoSaveIn ==
  /\ \A s, u : SaveCall(s) \notin AnyErase /\ RemoveCall(s, u) \notin AnyErase
  /\ \A p : SetCall(p) \notin AnyErase
BY EraseIsNoWrite DEF AnyErase

AnyWrite == AnyErase \cup {SetCall(p) : p \in Persist}

(* A step that is not about saves, but for those that fail.                *)
Quiet == /\ \A u \in Item : diskPayloads'[u].by = diskPayloads[u].by
         /\ Moved(device, device', AnyWrite)
         /\ \A s \in SaveId :
              /\ save'[s].items = save[s].items /\ save'[s].discardable = save[s].discardable
              /\ \/ save'[s].stage = save[s].stage
                 \/ save[s].stage # "none" /\ save'[s].stage \in {"failed", "rejected", "lost"}

LEMMA QuietStep ==
  ASSUME UNCHANGED <<save, diskPayloads>>, NEW T \in SUBSET AnyWrite, Moved(device, device', T)
  PROVE  Quiet
BY DEF Quiet, Moved

LEMMA BegunKeeps ==
  ASSUME NEW ps, NEW ps2, NEW queue, NEW queue2, NEW Q, NEW version, Begun(ps, ps2, queue, queue2, Q, version)
  PROVE  \A p \in Persist : ps[p].stage # "none" => ps2[p].stage # "none"
<1>1. Encrypting(version).stage = "encrypting"
  BY DEF Encrypting
<1> QED BY <1>1 DEF Begun

LEMMA OneEncryption ==
  ASSUME NEW queue \in Seq(Entry), NEW p \in Persist
  PROVE  Append(queue, p) = queue \o InOrder({p})
<1>1. Cardinality({p}) = 1
  BY FS_Singleton
<1>2. InOrder({p}) \in [1 .. 1 -> {p}]
  BY <1>1, OrderOf
<1>3. InOrder({p}) = <<p>>
  <2>1. DOMAIN InOrder({p}) = {1} /\ InOrder({p})[1] = p
    BY <1>2
  <2> QED BY <1>2, <2>1
<1>4. Append(queue, p) = queue \o <<p>>
  <2>1. p \in Entry
    BY DEF Entry
  <2> QED BY <2>1
<1> QED BY <1>3, <1>4

LEMMA SettleStep ==
  ASSUME BaseInv, NEW p \in Persist, persist[p].stage \in {"encrypting", "writing"},
         NEW result \in {"done", "failed"}, NEW queue \in Seq(Entry), NEW dev, NEW low \in Nat, low <= latest,
         Settle(p, result, queue), PersistQueues([persist EXCEPT ![p].stage = result], queue, dev, low)
  PROVE  /\ persist' \in [Persist -> PersistRecord] /\ crypto' \in Seq(Entry)
         /\ needsPersist' \in BOOLEAN /\ currentPersist' \in Persist \cup {None}
         /\ FirstUsed(persist') /\ \A q \in Persist : persist'[q].snap <= latest
         /\ PersistQueues(persist', crypto', dev, low)
         /\ values = latest /\ latest \in Nat
<1> DEFINE ps == [persist EXCEPT ![p].stage = result]
<1>0. /\ TypeOK /\ FirstUsed(persist) /\ Snaps /\ values = latest /\ latest \in Nat
      /\ persist \in [Persist -> PersistRecord] /\ needsPersist \in BOOLEAN
  BY DEF BaseInv, TypeInv, TypeOK, Current
<1>1. PICK Q \in SUBSET {q \in Persist : persist[q].stage = "waiting"} : Begun(ps, persist', queue, crypto', Q, values)
  BY <1>0, SettleBegins
<1>2. /\ needsPersist' \in BOOLEAN /\ currentPersist' \in Persist \cup {None}
      /\ \A q \in Persist : persist[q].stage = "none" => persist'[q].stage = "none"
  BY <1>0, SettleBegins
<1>3. \A q \in Persist : /\ ps[q].snap <= latest
                         /\ persist[q].stage # "none" => ps[q].stage # "none"
  BY <1>0 DEF Snaps, PersistRecord
<1>3a. PersistQueues(ps, queue, dev, low)
  OBVIOUS
<1> HIDE DEF ps
<1>4. PersistQueues(persist', crypto', dev, low) /\ \A q \in Persist : persist'[q].snap <= latest
  <2>1. values \in Nat /\ low <= values /\ \A q \in Persist : ps[q].snap <= values
    BY <1>0, <1>3
  <2>2. PersistQueues(persist', crypto', dev, low) /\ \A q \in Persist : persist'[q].snap <= values
    BY <1>1, <1>3a, <2>1, PersistBegun
  <2> QED BY <1>0, <2>2
<1>5. crypto' \in Seq(Entry)
  BY <1>1, BegunQueue
<1>6. persist' \in [Persist -> PersistRecord]
  BY <1>1 DEF Begun
<1>7. FirstUsed(persist')
  <2>1. \A q \in Persist : persist[q].stage # "none" => persist'[q].stage # "none"
    BY <1>1, <1>3, BegunKeeps
  <2>2. \A q \in Persist : \A x \in 1 .. q : x \in Persist
    OBVIOUS
  <2> QED BY <1>0, <1>2, <1>6, <2>1, <2>2 DEF FirstUsed
<1> QED BY <1>0, <1>2, <1>4, <1>5, <1>6, <1>7

LEMMA BaseSetValues == ASSUME BaseInv, NEW n \in 1 .. 2, SetValues(n) PROVE BaseInv' /\ Quiet
<1> DEFINE P == NewPersists(n)
           version == latest + 1
<1>0. /\ TypeOK /\ FirstUsed(persist) /\ FirstUsed(save) /\ Snaps /\ latest \in Nat /\ diskValues \in 0 .. latest
      /\ persist \in [Persist -> PersistRecord] /\ crypto \in Seq(Entry) /\ n \in Nat
      /\ PersistQueues(persist, crypto, device, diskValues) /\ SaveQueues(save, device)
  BY DEF BaseInv, TypeInv, TypeOK, Entry
<1>1. /\ latest' = version /\ values' = version /\ PersistValues(P, version)
      /\ UNCHANGED <<statusVars, save, clearing, switching, device, diskVars, events, history>>
  BY DEF SetValues
<1>2. /\ P \in SUBSET Persist /\ \A p \in P : persist[p].stage = "none"
      /\ \A q \in P : \A p \in 1 .. q : persist[p].stage # "none" \/ p \in P
  BY <1>0, NewPersistsOf
<1>3. version \in Nat /\ diskValues \in Nat /\ diskValues <= version /\ \A p \in Persist : persist[p].snap <= version
  <2>1. \A p \in Persist : persist[p].snap \in Nat /\ persist[p].snap <= latest
    BY <1>0 DEF Snaps, PersistRecord
  <2> QED BY <1>0, <2>1
<1> HIDE DEF P, version
<1>4. /\ \E Q \in SUBSET P : Begun(persist, persist', crypto, crypto', Q, version)
      /\ needsPersist' \in BOOLEAN /\ currentPersist' \in Persist \cup {None}
      /\ persist' = persist \/ \A p \in P : persist'[p].stage # "none"
      /\ \A p \in Persist \ P : persist'[p] = persist[p]
  BY <1>0, <1>1, <1>2, <1>3, PersistValuesBegins
<1>5. PICK Q \in SUBSET P : Begun(persist, persist', crypto, crypto', Q, version)
  BY <1>4
<1>6. PersistQueues(persist', crypto', device, diskValues) /\ \A p \in Persist : persist'[p].snap <= version
  BY <1>0, <1>3, <1>5, PersistBegun
<1>7. crypto' \in Seq(Entry)
  BY <1>0, <1>5, BegunQueue
<1>8. persist' \in [Persist -> PersistRecord]
  BY <1>5 DEF Begun
<1>9. FirstUsed(persist')
  <2>1. \A p \in Persist : persist[p].stage # "none" => persist'[p].stage # "none"
    BY <1>5, BegunKeeps
  <2>2. \A q \in Persist : \A x \in 1 .. q : x \in Persist
    OBVIOUS
  <2> QED BY <1>0, <1>2, <1>4, <1>8, <2>1, <2>2 DEF FirstUsed
<1>10. device' = device /\ diskValues' = diskValues /\ save' = save
  BY <1>1 DEF diskVars
<1>11. PersistQueues(persist, crypto, device, diskValues)' /\ SaveQueues(save, device)'
  BY <1>0, <1>6, <1>7, <1>10
<1>12. TypeOK'
  <2>1. version = latest + 1
    BY DEF version
  <2>2. latest' \in Nat /\ values' \in 0 .. latest' /\ diskValues' \in 0 .. latest'
    BY <1>0, <1>1, <1>3, <1>10, <2>1
  <2> QED BY <1>0, <1>1, <1>4, <1>7, <1>8, <2>2 DEF TypeOK, Entry, statusVars, diskVars, history
<1>13. Snaps'
  BY <1>1, <1>6 DEF Snaps
<1>14. Current'
  BY <1>1 DEF Current
<1>15. Quiet
  <2>1. {} \in SUBSET AnyWrite /\ Moved(device, device', {}) /\ UNCHANGED <<save, diskPayloads>>
    BY <1>1, <1>10, MovedSame DEF diskVars
  <2> QED BY <2>1, QuietStep
<1> QED BY <1>0, <1>9, <1>10, <1>11, <1>12, <1>13, <1>14, <1>15 DEF BaseInv, TypeInv

LEMMA BaseLaunched == ASSUME BaseInv, Launched PROVE BaseInv' /\ Quiet
<1> DEFINE P == NewPersists(1)
<1>0. /\ TypeOK /\ FirstUsed(persist) /\ FirstUsed(save) /\ Snaps /\ latest \in Nat /\ diskValues \in 0 .. latest
      /\ persist \in [Persist -> PersistRecord] /\ crypto \in Seq(Entry) /\ Current
      /\ PersistQueues(persist, crypto, device, diskValues) /\ SaveQueues(save, device)
  BY DEF BaseInv, TypeInv, TypeOK, Entry
<1>1. /\ UNCHANGED <<latest, values, ephemeral, preparing, limited, closing, dealloced, save, clearing,
                     switching, device, diskVars, events, history>>
      /\ persistable' = TRUE /\ P # {}
  BY DEF Launched
<1>2. /\ P \in SUBSET Persist /\ \A p \in P : persist[p].stage = "none"
      /\ \A q \in P : \A p \in 1 .. q : persist[p].stage # "none" \/ p \in P
  BY <1>0, NewPersistsOf
<1>3. /\ persist' \in [Persist -> PersistRecord] /\ crypto' \in Seq(Entry)
      /\ needsPersist' \in BOOLEAN /\ currentPersist' \in Persist \cup {None}
      /\ FirstUsed(persist') /\ \A p \in Persist : persist'[p].snap <= latest
      /\ PersistQueues(persist', crypto', device, diskValues) /\ Current'
  <2>1. CASE needsPersist /\ ~ephemeral
    <3>1. /\ persist' = Started(persist, P, values) /\ currentPersist' = LastOf(P)
          /\ crypto' = crypto \o InOrder(P) /\ needsPersist' = FALSE /\ values = latest
      BY <1>0, <2>1 DEF Launched, Current
    <3> HIDE DEF P
    <3>2. LastOf(P) \in P /\ values \in Nat
      BY <1>0, <1>1, <1>2, <3>1, LastOfType
    <3>3. /\ persist' \in [Persist -> PersistRecord]
          /\ \A p \in P : persist'[p] = Encrypting(values)
          /\ \A p \in Persist \ P : persist'[p] = persist[p]
      <4> DEFINE st == Started(persist, P, values)
      <4>1. /\ st \in [Persist -> PersistRecord]
            /\ \A p \in P : st[p] = Encrypting(values)
            /\ \A p \in Persist \ P : st[p] = persist[p]
        <5>1. values \in Nat /\ P \in SUBSET Persist /\ persist \in [Persist -> PersistRecord]
          BY <1>0, <1>2, <3>2
        <5> QED BY <5>1, StartedType
      <4>2. persist' = st
        BY <3>1
      <4> HIDE DEF st
      <4> QED BY <4>1, <4>2, Zenon
    <3>4. Begun(persist, persist', crypto, crypto', P, values)
      BY <1>2, <3>1, <3>3 DEF Begun, Fresh
    <3>5. values \in Nat /\ diskValues \in Nat /\ diskValues <= values /\ \A p \in Persist : persist[p].snap <= values
      BY <1>0, <3>1 DEF Snaps, PersistRecord
    <3>6. PersistQueues(persist', crypto', device, diskValues) /\ \A p \in Persist : persist'[p].snap <= values
      BY <1>0, <3>4, <3>5, PersistBegun
    <3>7. crypto' \in Seq(Entry)
      BY <1>0, <3>4, BegunQueue
    <3>8. Encrypting(values).stage = "encrypting"
      BY DEF Encrypting
    <3>9. FirstUsed(persist')
      <4>2. \A q \in Persist : \A x \in 1 .. q : x \in Persist
        OBVIOUS
      <4> QED BY <1>0, <1>2, <3>3, <3>8, <4>2 DEF FirstUsed
    <3>10. Current'
      BY <1>1, <3>1 DEF Current
    <3> QED BY <1>2, <3>1, <3>2, <3>3, <3>6, <3>7, <3>9, <3>10
  <2>2. CASE ~(needsPersist /\ ~ephemeral)
    <3>1. UNCHANGED <<persist, currentPersist, crypto, needsPersist>>
      BY <2>2 DEF Launched
    <3>2. Current'
      BY <1>0, <1>1, <3>1 DEF Current
    <3> QED BY <1>0, <3>1, <3>2, MovedSame DEF TypeOK, Snaps
  <2> QED BY <2>1, <2>2
<1>4. device' = device /\ diskValues' = diskValues /\ save' = save /\ latest' = latest
  BY <1>1 DEF diskVars
<1>5. PersistQueues(persist, crypto, device, diskValues)' /\ Snaps' /\ SaveQueues(save, device)'
  BY <1>0, <1>3, <1>4 DEF Snaps
<1>6. TypeOK'
  BY <1>0, <1>1, <1>3 DEF TypeOK, Entry, diskVars, history
<1>7. Quiet
  <2>1. {} \in SUBSET AnyWrite /\ Moved(device, device', {}) /\ UNCHANGED <<save, diskPayloads>>
    BY <1>1, <1>4, MovedSame DEF diskVars
  <2> QED BY <2>1, QuietStep
<1> QED BY <1>0, <1>3, <1>4, <1>5, <1>6, <1>7 DEF BaseInv, TypeInv

LEMMA BaseClearAllData == ASSUME BaseInv, ClearAllData PROVE BaseInv' /\ Quiet
<1>0. /\ TypeOK /\ FirstUsed(persist) /\ FirstUsed(save) /\ Snaps /\ latest \in Nat /\ diskValues \in 0 .. latest
      /\ persist \in [Persist -> PersistRecord] /\ crypto \in Seq(Entry) /\ SavesUsed \in SaveId \cup {None}
      /\ PersistQueues(persist, crypto, device, diskValues) /\ SaveQueues(save, device)
  <2>1. TypeOK /\ FirstUsed(persist) /\ FirstUsed(save)
    BY DEF BaseInv, TypeInv
  <2>2. SavesUsed \in Nat /\ SavesUsed <= MaxSaves
    BY <2>1, NewNumbers
  <2> QED BY <2>2 DEF BaseInv, TypeInv, TypeOK, Entry
<1> DEFINE version == latest + 1
<1>1. PICK p \in NewPersists(1) :
        /\ events < MaxEvents /\ events' = events + 1
        /\ latest' = version /\ values' = version
        /\ persist' = Started(persist, {p}, version)
        /\ currentPersist' = p
        /\ crypto' = Append(crypto, p)
        /\ clearing' = [at |-> "values", by |-> p, saves |-> SavesUsed]
        /\ spared' = [spared EXCEPT !["clear"] = Unwritten]
        /\ UNCHANGED <<needsPersist, statusVars, save, switching, device, diskVars, passed, abandoned>>
  BY DEF ClearAllData
<1> DEFINE P == NewPersists(1)
           Q == {p}
<1>2. /\ P \in SUBSET Persist /\ \A x \in P : persist[x].stage = "none"
      /\ \A q \in P : \A x \in 1 .. q : persist[x].stage # "none" \/ x \in P
  BY <1>0, NewPersistsOf
<1>2a. \A q \in P : q = p
  BY <1>0, NewNumbers DEF NewPersists
<1>3. version \in Nat /\ diskValues \in Nat /\ diskValues <= version /\ \A x \in Persist : persist[x].snap <= version
  BY <1>0 DEF Snaps, PersistRecord
<1>3a. p \in P /\ p \in Persist /\ Q \in SUBSET Persist /\ \A x \in Q : x = p
  BY <1>2
<1>3b. crypto' = crypto \o InOrder(Q) /\ persist' = Started(persist, Q, version)
  BY <1>0, <1>1, <1>3a, OneEncryption
<1> HIDE DEF P, version, Q
<1>4. /\ persist' \in [Persist -> PersistRecord]
      /\ \A x \in Q : persist'[x] = Encrypting(version)
      /\ \A x \in Persist \ Q : persist'[x] = persist[x]
  <2> DEFINE st == Started(persist, Q, version)
  <2>1. /\ st \in [Persist -> PersistRecord]
        /\ \A x \in Q : st[x] = Encrypting(version)
        /\ \A x \in Persist \ Q : st[x] = persist[x]
    <3>1. version \in Nat /\ Q \in SUBSET Persist /\ persist \in [Persist -> PersistRecord]
      BY <1>0, <1>3, <1>3a
    <3>2. Encrypting(version) \in PersistRecord
      BY <3>1 DEF Encrypting, PersistRecord
    <3> QED BY <3>1, <3>2 DEF Started, Encrypting
  <2>2. persist' = st
    BY <1>3b
  <2> HIDE DEF st
  <2> QED BY <2>1, <2>2, Zenon
<1>5. Begun(persist, persist', crypto, crypto', Q, version)
  BY <1>2, <1>3a, <1>3b, <1>4 DEF Begun, Fresh
<1>6. PersistQueues(persist', crypto', device, diskValues) /\ \A x \in Persist : persist'[x].snap <= version
  BY <1>0, <1>3, <1>5, PersistBegun
<1>7. crypto' \in Seq(Entry)
  BY <1>0, <1>5, BegunQueue
<1>8. Encrypting(version).stage = "encrypting"
  BY DEF Encrypting
<1>9. FirstUsed(persist')
  <2>1. \A q \in Persist : \A x \in 1 .. q : x \in Persist
    OBVIOUS
  <2>2. \A q \in Persist : persist[q].stage # "none" => persist'[q].stage # "none"
    BY <1>5, BegunKeeps
  <2>3. \A q \in Persist : persist'[q].stage # "none" => persist[q].stage # "none" \/ q = p
    BY <1>3a, <1>4
  <2>4. persist'[p].stage # "none"
    <3>1. p \in Q
      BY DEF Q
    <3> QED BY <1>4, <1>8, <3>1
  <2>5. \A x \in 1 .. p : persist[x].stage # "none" \/ x = p
    BY <1>2, <1>2a, <1>3a
  <2> QED BY <1>0, <1>3a, <1>4, <2>1, <2>2, <2>3, <2>4, <2>5 DEF FirstUsed
<1>10. device' = device /\ diskValues' = diskValues /\ save' = save
  BY <1>1 DEF diskVars
<1>11. PersistQueues(persist, crypto, device, diskValues)' /\ SaveQueues(save, device)'
  BY <1>0, <1>6, <1>7, <1>10
<1>12. TypeOK'
  <2>1. version = latest + 1
    BY DEF version
  <2>2. clearing' \in [at : {"no", "values", "payloads", "remove", "done", "failed"},
                       by : Persist \cup {None}, saves : SaveId \cup {None}]
    BY <1>0, <1>1, <1>3a
  <2>3. events' \in 0 .. MaxEvents
    BY <1>0, <1>1 DEF TypeOK
  <2>4. latest' \in Nat /\ values' \in 0 .. latest' /\ diskValues' \in 0 .. latest'
    BY <1>0, <1>1, <1>10, <2>1
  <2>5. currentPersist' \in Persist \cup {None}
    BY <1>1, <1>3a
  <2>6. spared' \in [{"clear", "switch"} -> SUBSET SaveId]
    BY <1>0, <1>1 DEF TypeOK, Unwritten
  <2> QED BY <1>0, <1>1, <1>4, <1>7, <2>2, <2>3, <2>4, <2>5, <2>6 DEF TypeOK, Entry, statusVars, diskVars
<1>13. Snaps'
  BY <1>1, <1>6 DEF Snaps
<1>14. Current'
  BY <1>1 DEF Current
<1>15. Quiet
  <2>1. {} \in SUBSET AnyWrite /\ Moved(device, device', {}) /\ UNCHANGED <<save, diskPayloads>>
    BY <1>1, <1>10, MovedSame DEF diskVars
  <2> QED BY <2>1, QuietStep
<1> QED BY <1>0, <1>9, <1>10, <1>11, <1>12, <1>13, <1>14, <1>15 DEF BaseInv, TypeInv

LEMMA HeadOf ==
  ASSUME NEW q \in Seq(Entry), q # <<>>
  PROVE  /\ Tail(q) \in Seq(Entry) /\ Head(q) \in Range(q)
         /\ Head(q) \in Persist /\ Head(q) = Enc(Head(q))
<1>1. Tail(q) \in Seq(Entry) /\ Head(q) \in Entry /\ Head(q) \in Range(q)
  BY MovedTail
<1> QED BY <1>1 DEF Entry, Enc

LEMMA CallOf ==
  ASSUME device \in Seq(DeviceCall), device # <<>>
  PROVE  /\ Tail(device) \in Seq(DeviceCall) /\ Call \in DeviceCall
         /\ Call.op = "setValues" => Call.id \in Persist /\ Call = SetCall(Call.id)
         /\ Call.op = "savePayloads" => Call.id \in SaveId /\ Call = SaveCall(Call.id)
         /\ Call.op = "removePayload" => Call.id \in SaveId /\ Call.item \in Item /\ Call = RemoveCall(Call.id, Call.item)
         /\ Call.op \in {"removeValues", "removePayloads"}
              => Call.for \in {"clear", "switch"} /\ Call = EraseCall(Call.op, Call.for)
<1>1. Tail(device) \in Seq(DeviceCall) /\ Head(device) \in DeviceCall
  OBVIOUS
<1> DEFINE a == Head(device)
<1>2. a \in DeviceCall
  BY <1>1
<1> HIDE DEF a
<1>3. /\ a.op = "setValues" => a.id \in Persist /\ a = SetCall(a.id)
      /\ a.op = "savePayloads" => a.id \in SaveId /\ a = SaveCall(a.id)
      /\ a.op = "removePayload" => a.id \in SaveId /\ a.item \in Item /\ a = RemoveCall(a.id, a.item)
      /\ a.op \in {"removeValues", "removePayloads"} => a.for \in {"clear", "switch"} /\ a = EraseCall(a.op, a.for)
  BY <1>2, CallForms
<1> QED BY <1>1, <1>3 DEF a, Call

(* clearAllData goes on once its persist settles.                          *)
LEMMA ClearGoesOn ==
  ASSUME TypeOK, NEW p \in Persist, NEW calls \in Seq(DeviceCall), NEW at \in {"payloads", "failed"}
  PROVE  /\ CallsAfter(p, calls) \in Seq(DeviceCall)
         /\ Moved(calls, CallsAfter(p, calls), {EraseCall("removePayloads", "clear")})
         /\ Moved(calls, CallsAfter(p, calls), AnyErase)
         /\ ClearAfter(p, at) \in [at : {"no", "values", "payloads", "remove", "done", "failed"},
                                   by : Persist \cup {None}, saves : SaveId \cup {None}]
<1> DEFINE e == EraseCall("removePayloads", "clear")
<1>1. e \in DeviceCall /\ e = [op |-> "removePayloads", for |-> "clear"]
  BY CallTypes DEF EraseCall
<1>2. CallsAfter(p, calls) = calls \/ CallsAfter(p, calls) = Append(calls, e)
  BY <1>1 DEF CallsAfter
<1> HIDE DEF e
<1>3. Append(calls, e) \in Seq(DeviceCall) /\ Moved(calls, Append(calls, e), {e})
  BY <1>1, DeviceAppend
<1>4. CallsAfter(p, calls) \in Seq(DeviceCall) /\ Moved(calls, CallsAfter(p, calls), {e})
  BY <1>2, <1>3, MovedSame
<1>5. ClearAfter(p, at) \in [at : {"no", "values", "payloads", "remove", "done", "failed"},
                             by : Persist \cup {None}, saves : SaveId \cup {None}]
  BY DEF TypeOK, ClearAfter
<1>6. e \in AnyErase
  BY DEF AnyErase, e
<1>7. Moved(calls, CallsAfter(p, calls), AnyErase)
  BY <1>4, <1>6 DEF Moved
<1> QED BY <1>4, <1>5, <1>7 DEF e

LEMMA BasePersistEncrypted == ASSUME BaseInv, PersistEncrypted PROVE BaseInv' /\ Quiet
<1>0. /\ TypeOK /\ FirstUsed(persist) /\ FirstUsed(save) /\ Snaps /\ latest \in Nat /\ diskValues \in 0 .. latest
      /\ persist \in [Persist -> PersistRecord] /\ crypto \in Seq(Entry) /\ device \in Seq(DeviceCall)
      /\ PersistQueues(persist, crypto, device, diskValues) /\ Current /\ SaveQueues(save, device)
  BY DEF BaseInv, TypeInv, TypeOK, Entry
<1> DEFINE p == Head(crypto)
<1>1. /\ crypto # <<>>
      /\ UNCHANGED <<latest, values, statusVars, save, switching, diskVars, events, history>>
  BY DEF PersistEncrypted
<1>2. p \in Persist /\ Head(crypto) = Enc(p) /\ Tail(crypto) \in Seq(Entry) /\ Head(crypto) \in Range(crypto)
  BY <1>0, <1>1, HeadOf
<1>2a. Moved(crypto, Tail(crypto), {})
  BY <1>0, <1>1, MovedTail
<1>3. \/ /\ Settle(p, "done", Tail(crypto))
         /\ clearing' = ClearAfter(p, "payloads")
         /\ device' = CallsAfter(p, device)
      \/ /\ persist' = [persist EXCEPT ![p].stage = "writing"]
         /\ device' = Append(device, SetCall(p))
         /\ crypto' = Tail(crypto)
         /\ UNCHANGED <<currentPersist, needsPersist, clearing>>
  BY DEF PersistEncrypted, SetCall
<1> HIDE DEF p
<1>3a. diskValues \in Nat /\ diskValues <= latest
  BY <1>0
<1>4. persist[p].stage = "encrypting"
  BY <1>0, <1>2 DEF PersistQueues
<1>5. /\ persist' \in [Persist -> PersistRecord] /\ crypto' \in Seq(Entry) /\ device' \in Seq(DeviceCall)
      /\ needsPersist' \in BOOLEAN /\ currentPersist' \in Persist \cup {None}
      /\ clearing' \in [at : {"no", "values", "payloads", "remove", "done", "failed"},
                                   by : Persist \cup {None}, saves : SaveId \cup {None}]
      /\ FirstUsed(persist') /\ \A q \in Persist : persist'[q].snap <= latest
      /\ PersistQueues(persist', crypto', device', diskValues) /\ values = latest
      /\ SaveQueues(save, device')
      /\ Moved(device, device', AnyWrite)
  <2>1. CASE /\ Settle(p, "done", Tail(crypto))
             /\ clearing' = ClearAfter(p, "payloads")
             /\ device' = CallsAfter(p, device)
    <3>1. PersistQueues([persist EXCEPT ![p].stage = "done"], Tail(crypto), device, diskValues)
      BY <1>0, <1>1, <1>2, <1>3a, PersistHeadSettled
    <3>2. /\ persist' \in [Persist -> PersistRecord] /\ crypto' \in Seq(Entry)
          /\ needsPersist' \in BOOLEAN /\ currentPersist' \in Persist \cup {None}
          /\ FirstUsed(persist') /\ \A q \in Persist : persist'[q].snap <= latest
          /\ PersistQueues(persist', crypto', device, diskValues) /\ values = latest
      BY <1>2, <1>3a, <1>4, <2>1, <3>1, SettleStep
    <3>3. /\ device' \in Seq(DeviceCall) /\ Moved(device, device', AnyErase)
          /\ clearing' \in [at : {"no", "values", "payloads", "remove", "done", "failed"},
                                   by : Persist \cup {None}, saves : SaveId \cup {None}]
      BY <1>0, <1>2, <2>1, ClearGoesOn
    <3>4. PersistQueues(persist', crypto', device', diskValues)
      <4>1. Moved(crypto', crypto', {})
        BY MovedSame
      <4>2. \A q \in Persist : SetCall(q) \notin AnyErase /\ Enc(q) \notin {}
        BY NoSaveIn
      <4> QED BY <3>2, <3>3, <4>1, <4>2, PersistFrame
    <3>5. Moved(device, device', AnyWrite)
      BY <3>3 DEF Moved, AnyWrite
    <3>6. SaveQueues(save, device')
      BY <1>0, <3>3, <3>5, SaveFrame, NoSaveIn
    <3> QED BY <3>2, <3>3, <3>4, <3>5, <3>6
  <2>2. CASE /\ persist' = [persist EXCEPT ![p].stage = "writing"]
             /\ device' = Append(device, SetCall(p))
             /\ crypto' = Tail(crypto)
             /\ UNCHANGED <<currentPersist, needsPersist, clearing>>
    <3>1. PersistQueues(persist', crypto', device', diskValues)
      BY <1>0, <1>1, <1>2, <1>3a, <2>2, PersistHeadWriting
    <3>2. /\ device' \in Seq(DeviceCall) /\ SaveQueues(save, device')
          /\ Moved(device, device', AnyWrite)
      <4> DEFINE e == SetCall(p)
      <4>1. e \in DeviceCall /\ (\A s \in SaveId : SaveCall(s) \notin {e} /\ \A u \in Item : RemoveCall(s, u) \notin {e})
        BY <1>2, CallTypes, EraseIsNoWrite
      <4>2. device' = Append(device, e)
        BY <2>2
      <4> HIDE DEF e
      <4>3. device' \in Seq(DeviceCall) /\ Moved(device, device', {e})
        BY <1>0, <4>1, <4>2, DeviceAppend
      <4>5. SaveQueues(save, device')
        BY <1>0, <4>1, <4>3, SaveFrame
      <4>6. {e} \subseteq AnyWrite
        BY <1>2 DEF e, AnyWrite
      <4>7. Moved(device, device', AnyWrite)
        BY <4>3, <4>6 DEF Moved
      <4> QED BY <4>3, <4>5, <4>7
    <3>3. /\ persist' \in [Persist -> PersistRecord]
          /\ \A q \in Persist : persist'[q].snap = persist[q].snap /\ (persist'[q].stage # "none" <=> persist[q].stage # "none")
      BY <1>0, <1>2, <1>4, <2>2 DEF PersistRecord
    <3>4. FirstUsed(persist')
      <4>1. \A q \in Persist : \A x \in 1 .. q : x \in Persist
        OBVIOUS
      <4> QED BY <1>0, <3>3, <4>1 DEF FirstUsed
    <3>5. \A q \in Persist : persist'[q].snap <= latest
      BY <1>0, <3>3 DEF Snaps
    <3>6. values = latest
      BY <1>0, <1>2, <1>4 DEF Current
    <3> QED BY <1>0, <1>2, <2>2, <3>1, <3>2, <3>3, <3>4, <3>5, <3>6 DEF TypeOK
  <2> QED BY <1>3, <2>1, <2>2
<1>6. diskValues' = diskValues /\ save' = save /\ latest' = latest
  BY <1>1 DEF diskVars
<1>7. PersistQueues(persist, crypto, device, diskValues)' /\ Snaps' /\ SaveQueues(save, device)'
  BY <1>5, <1>6 DEF Snaps
<1>8. TypeOK'
  BY <1>0, <1>1, <1>5 DEF TypeOK, Entry, statusVars, diskVars, history
<1>9. Current'
  BY <1>1, <1>5 DEF Current
<1>10. Quiet
  BY <1>1, <1>5, QuietStep DEF diskVars
<1> QED BY <1>0, <1>5, <1>6, <1>7, <1>8, <1>9, <1>10 DEF BaseInv, TypeInv

LEMMA BaseValuesWritten ==
  ASSUME BaseInv, ValuesWritten
  PROVE  BaseInv' /\ Quiet /\ diskValues' \in diskValues .. latest
<1>0. /\ TypeOK /\ FirstUsed(persist) /\ FirstUsed(save) /\ Snaps /\ latest \in Nat /\ diskValues \in 0 .. latest
      /\ persist \in [Persist -> PersistRecord] /\ crypto \in Seq(Entry) /\ device \in Seq(DeviceCall)
      /\ PersistQueues(persist, crypto, device, diskValues) /\ Current /\ SaveQueues(save, device)
  BY DEF BaseInv, TypeInv, TypeOK, Entry
<1> DEFINE p == Call.id
<1>1. /\ device # <<>> /\ Call.op = "setValues" /\ hasValues' = TRUE /\ diskValues' = persist[p].snap
      /\ Settle(p, "done", crypto)
      /\ clearing' = ClearAfter(p, "payloads")
      /\ device' = CallsAfter(p, Tail(device))
      /\ UNCHANGED <<latest, values, statusVars, save, switching, diskPayloads, events, history>>
  BY DEF ValuesWritten
<1>2. p \in Persist /\ Head(device) = SetCall(p) /\ Tail(device) \in Seq(DeviceCall)
  BY <1>0, <1>1, CallOf DEF Call
<1> HIDE DEF p
<1>3. diskValues \in Nat /\ diskValues <= latest /\ persist[p].snap \in Nat /\ persist[p].snap <= latest
  <2>1. \A q \in Persist : persist[q].snap \in Nat /\ persist[q].snap <= latest
    BY <1>0 DEF Snaps, PersistRecord
  <2> QED BY <1>0, <1>2, <2>1
<1>4. persist[p].stage = "writing" /\ diskValues <= persist[p].snap
  <2>1. Head(device) \in Range(device)
    BY <1>0, <1>1, MovedTail
  <2> QED BY <1>0, <1>2, <2>1 DEF PersistQueues
<1> DEFINE low == persist[p].snap
           ps == [persist EXCEPT ![p].stage = "done"]
<1>5. PersistQueues(ps, crypto, Tail(device), low)
  <2>1. low \in Nat /\ low <= persist[p].snap
    BY <1>3
  <2> HIDE DEF low
  <2> QED BY <1>0, <1>1, <1>2, <1>3, <2>1, PersistWriteEnds
<1>6. low \in Nat /\ low <= latest
  BY <1>3
<1> HIDE DEF low
<1>7. /\ persist' \in [Persist -> PersistRecord] /\ crypto' \in Seq(Entry)
      /\ needsPersist' \in BOOLEAN /\ currentPersist' \in Persist \cup {None}
      /\ FirstUsed(persist') /\ \A q \in Persist : persist'[q].snap <= latest
      /\ PersistQueues(persist', crypto', Tail(device), low) /\ values = latest
  BY <1>0, <1>1, <1>2, <1>4, <1>5, <1>6, SettleStep
<1>8. /\ device' \in Seq(DeviceCall) /\ Moved(Tail(device), device', AnyErase)
      /\ clearing' \in [at : {"no", "values", "payloads", "remove", "done", "failed"},
                        by : Persist \cup {None}, saves : SaveId \cup {None}]
  BY <1>0, <1>1, <1>2, ClearGoesOn
<1>9. PersistQueues(persist', crypto', device', low)
  <2>1. Moved(crypto', crypto', {})
    BY MovedSame
  <2>2. \A q \in Persist : SetCall(q) \notin AnyErase /\ Enc(q) \notin {}
    BY NoSaveIn
  <2> QED BY <1>7, <1>8, <2>1, <2>2, PersistFrame
<1>9a. SaveQueues(save, device') /\ Moved(device, device', AnyErase)
  <2>1. Moved(device, Tail(device), AnyErase)
    BY <1>0, <1>1, MovedTail
  <2>2. Moved(device, device', AnyErase)
    BY <1>8, <2>1, MovedMore
  <2> QED BY <1>0, <1>7, <2>2, SaveFrame, NoSaveIn
<1>10. diskValues' = low /\ save' = save /\ latest' = latest
  BY <1>1 DEF low
<1>11. PersistQueues(persist, crypto, device, diskValues)' /\ Snaps' /\ SaveQueues(save, device)'
  BY <1>7, <1>9, <1>9a, <1>10 DEF Snaps
<1>12. TypeOK'
  <2>1. diskValues' \in 0 .. latest' /\ latest' \in Nat /\ values' \in 0 .. latest'
    BY <1>0, <1>1, <1>6, <1>7, <1>10
  <2> QED BY <1>0, <1>1, <1>7, <1>8, <2>1 DEF TypeOK, Entry, statusVars, history
<1>13. Current'
  BY <1>1, <1>7 DEF Current
<1>14. diskValues' \in diskValues .. latest
  BY <1>0, <1>1, <1>3, <1>4
<1>15. Quiet
  <2>1. AnyErase \in SUBSET AnyWrite
    BY DEF AnyWrite
  <2> QED BY <1>1, <1>9a, <2>1, QuietStep
<1> QED BY <1>0, <1>7, <1>10, <1>11, <1>12, <1>13, <1>14, <1>15 DEF BaseInv, TypeInv

(* The persists are left alone by all other actions.                       *)
LEMMA BaseFrame ==
  ASSUME BaseInv, NEW T, TypeOK', FirstUsed(save'), UNCHANGED <<latest, values, persist, crypto, diskValues>>,
         (needsPersist' => needsPersist),
         Moved(device, device', T), \A p \in Persist : SetCall(p) \notin T,
         SaveQueues(save', device')
  PROVE  BaseInv'
<1>0. /\ TypeOK' /\ FirstUsed(save') /\ persist' = persist /\ crypto' = crypto /\ diskValues' = diskValues
      /\ latest' = latest /\ values' = values
  OBVIOUS
<1>1. PersistQueues(persist, crypto, device', diskValues)
  <2>1. Moved(crypto, crypto, {})
    BY MovedSame
  <2> QED BY <2>1, PersistFrame DEF BaseInv
<1>2. PersistQueues(persist, crypto, device, diskValues)'
  BY <1>0, <1>1
<1>3. FirstUsed(persist') /\ Snaps'
  BY <1>0 DEF BaseInv, TypeInv, Snaps
<1>4. Current'
  BY <1>0 DEF BaseInv, Current
<1> QED BY <1>0, <1>2, <1>3, <1>4 DEF BaseInv, TypeInv

(* A save that is not in the queue may change; one that leaves it is there *)
(* no more; one that is not there may enter it.                            *)
Off(s, dev) == /\ SaveCall(s) \notin Range(dev)
               /\ \A u \in Item : RemoveCall(s, u) \notin Range(dev)

LEMMA SaveOff ==
  ASSUME NEW sv, NEW sv2, NEW dev, NEW s \in SaveId, SaveQueues(sv, dev), Off(s, dev),
         \A t \in SaveId : t # s => sv2[t] = sv[t]
  PROVE  SaveQueues(sv2, dev)
BY DEF SaveQueues, Off

LEMMA SaveOffStage ==
  ASSUME NEW sv, NEW dev, NEW s \in SaveId, SaveQueues(sv, dev),
         sv[s].stage \notin {"deleting", "writing"}
  PROVE  Off(s, dev)
BY DEF SaveQueues, Off

LEMMA SaveWriteEnds ==
  ASSUME NEW sv, NEW dev \in Seq(DeviceCall), dev # <<>>, NEW s \in SaveId, Head(dev) = SaveCall(s),
         SaveQueues(sv, dev)
  PROVE  /\ sv[s].stage = "writing" /\ Moved(dev, Tail(dev), {})
         /\ SaveQueues(sv, Tail(dev)) /\ Off(s, Tail(dev))
<1>1. /\ Head(dev) \in Range(dev) /\ Moved(dev, Tail(dev), {})
      /\ \A e \in Range(Tail(dev)) : <<Head(dev), e>> \in Before(dev)
  BY MovedTail
<1> DEFINE r == Tail(dev)
<1>2. Moved(dev, r, {}) /\ SaveCall(s) \in Range(dev)
  BY <1>1, MovedSame
<1>3. SaveCall(s) \notin Range(r)
  BY <1>1 DEF SaveQueues
<1> HIDE DEF r
<1>4. SaveQueues(sv, r)
  BY <1>2, SaveFrame
<1>5. sv[s].stage = "writing"
  BY <1>2 DEF SaveQueues
<1>6. Off(s, r)
  <2>1. \A u \in Item : RemoveCall(s, u) \notin Range(dev)
    BY <1>5 DEF SaveQueues
  <2> QED BY <1>2, <1>3, <1>5, <2>1 DEF SaveQueues, Off, Moved
<1> QED BY <1>2, <1>4, <1>5, <1>6 DEF r

LEMMA SaveDeletionEnds ==
  ASSUME NEW sv, NEW dev \in Seq(DeviceCall), dev # <<>>, NEW s \in SaveId, NEW u \in Item,
         Head(dev) = RemoveCall(s, u), SaveQueues(sv, dev)
  PROVE  /\ sv[s].stage = "deleting" /\ Moved(dev, Tail(dev), {})
         /\ SaveQueues(sv, Tail(dev)) /\ Off(s, Tail(dev))
<1>1. /\ Head(dev) \in Range(dev) /\ Moved(dev, Tail(dev), {})
      /\ \A e \in Range(Tail(dev)) : <<Head(dev), e>> \in Before(dev)
  BY MovedTail
<1> DEFINE r == Tail(dev)
<1>2. Moved(dev, r, {}) /\ RemoveCall(s, u) \in Range(dev)
  BY <1>1, MovedSame
<1>3. RemoveCall(s, u) \notin Range(r)
  BY <1>1 DEF SaveQueues
<1> HIDE DEF r
<1>4. SaveQueues(sv, r)
  BY <1>2, SaveFrame
<1>5. sv[s].stage = "deleting" /\ sv[s].discardable = {u}
  BY <1>2 DEF SaveQueues
<1>6. Off(s, r)
  <2>1. \A w \in Item : RemoveCall(s, w) \in Range(r) => w = u
    BY <1>4, <1>5 DEF SaveQueues
  <2> QED BY <1>2, <1>3, <1>5, <2>1 DEF SaveQueues, Off, Moved
<1> QED BY <1>2, <1>4, <1>5, <1>6 DEF r

LEMMA SaveWriteBegins ==
  ASSUME NEW sv, NEW dev \in Seq(DeviceCall), NEW s \in SaveId, SaveQueues(sv, dev), Off(s, dev),
         sv[s].stage = "writing"
  PROVE  /\ Append(dev, SaveCall(s)) \in Seq(DeviceCall) /\ Moved(dev, Append(dev, SaveCall(s)), {SaveCall(s)})
         /\ SaveQueues(sv, Append(dev, SaveCall(s)))
<1> DEFINE e == SaveCall(s)
           r == Append(dev, e)
<1>1. e \in DeviceCall
  BY CallTypes
<1> HIDE DEF e
<1>2. /\ r \in Seq(DeviceCall) /\ Moved(dev, r, {e}) /\ Range(r) = Range(dev) \cup {e}
      /\ Before(r) \subseteq Before(dev) \cup (Range(dev) \X {e})
  BY <1>1, DeviceAppend
<1> HIDE DEF r
<1>3. \A t \in SaveId : /\ SaveCall(t) \in Range(r) => SaveCall(t) \in Range(dev) \/ t = s
                        /\ \A u \in Item : RemoveCall(t, u) \in Range(r) => RemoveCall(t, u) \in Range(dev)
  BY <1>2, SaveCallIs, EraseIsNoWrite DEF e
<1>4. \A t \in SaveId : <<SaveCall(t), SaveCall(t)>> \notin Before(r)
  <2>1. \A t \in SaveId : <<SaveCall(t), SaveCall(t)>> \in Range(dev) \X {e} => FALSE
    BY SaveCallIs DEF e, Off
  <2> QED BY <1>2, <2>1 DEF SaveQueues
<1>5. \A t \in SaveId, u \in Item : <<RemoveCall(t, u), RemoveCall(t, u)>> \notin Before(r)
  <2>1. \A t \in SaveId, u \in Item : <<RemoveCall(t, u), RemoveCall(t, u)>> \in Range(dev) \X {e} => FALSE
    BY EraseIsNoWrite DEF e
  <2> QED BY <1>2, <2>1 DEF SaveQueues
<1>6. SaveQueues(sv, r)
  BY <1>3, <1>4, <1>5 DEF SaveQueues
<1> QED BY <1>2, <1>6 DEF e, r

LEMMA SaveDeletionBegins ==
  ASSUME NEW sv, NEW dev \in Seq(DeviceCall), NEW s \in SaveId, NEW u \in Item,
         SaveQueues(sv, dev), Off(s, dev), sv[s].stage = "deleting", sv[s].discardable = {u}
  PROVE  /\ Append(dev, RemoveCall(s, u)) \in Seq(DeviceCall)
         /\ Moved(dev, Append(dev, RemoveCall(s, u)), {RemoveCall(s, u)})
         /\ SaveQueues(sv, Append(dev, RemoveCall(s, u)))
<1> DEFINE e == RemoveCall(s, u)
           r == Append(dev, e)
<1>1. e \in DeviceCall
  BY CallTypes
<1> HIDE DEF e
<1>2. /\ r \in Seq(DeviceCall) /\ Moved(dev, r, {e}) /\ Range(r) = Range(dev) \cup {e}
      /\ Before(r) \subseteq Before(dev) \cup (Range(dev) \X {e})
  BY <1>1, DeviceAppend
<1> HIDE DEF r
<1>3. \A t \in SaveId : /\ SaveCall(t) \in Range(r) => SaveCall(t) \in Range(dev)
                        /\ \A w \in Item : RemoveCall(t, w) \in Range(r) => RemoveCall(t, w) \in Range(dev) \/ (t = s /\ w = u)
  BY <1>2, SaveCallIs, EraseIsNoWrite DEF e
<1>4. \A t \in SaveId : <<SaveCall(t), SaveCall(t)>> \notin Before(r)
  <2>1. \A t \in SaveId : <<SaveCall(t), SaveCall(t)>> \in Range(dev) \X {e} => FALSE
    BY EraseIsNoWrite DEF e
  <2> QED BY <1>2, <2>1 DEF SaveQueues
<1>5. \A t \in SaveId, w \in Item : <<RemoveCall(t, w), RemoveCall(t, w)>> \notin Before(r)
  <2>1. \A t \in SaveId, w \in Item : <<RemoveCall(t, w), RemoveCall(t, w)>> \in Range(dev) \X {e} => FALSE
    BY SaveCallIs DEF e, Off
  <2> QED BY <1>2, <2>1 DEF SaveQueues
<1>6. SaveQueues(sv, r)
  BY <1>3, <1>4, <1>5 DEF SaveQueues
<1> QED BY <1>2, <1>6 DEF e, r

(* A stage set for a save that has begun.                                  *)
LEMMA SaveStage ==
  ASSUME TypeOK, FirstUsed(save), NEW s \in SaveId, save[s].stage # "none",
         NEW stage \in {"deleting", "encrypting", "writing", "done", "failed", "rejected", "lost", "dropped"},
         save' = [save EXCEPT ![s].stage = stage]
  PROVE  /\ save' \in [SaveId -> SaveRecord] /\ FirstUsed(save')
         /\ save'[s].stage = stage /\ save'[s].items = save[s].items /\ save'[s].discardable = save[s].discardable
         /\ \A t \in SaveId : t # s => save'[t] = save[t]
<1>1. save \in [SaveId -> SaveRecord]
  BY DEF TypeOK
<1>2. save' \in [SaveId -> SaveRecord] /\ \A t \in SaveId : save'[t].stage # "none" <=> save[t].stage # "none"
  BY <1>1 DEF SaveRecord
<1>3. \A q \in SaveId : \A x \in 1 .. q : x \in SaveId
  OBVIOUS
<1>4. FirstUsed(save')
  BY <1>1, <1>2, <1>3 DEF FirstUsed
<1>5. /\ save'[s].stage = stage /\ save'[s].items = save[s].items /\ save'[s].discardable = save[s].discardable
      /\ \A t \in SaveId : t # s => save'[t] = save[t]
  BY <1>1 DEF SaveRecord
<1> QED BY <1>2, <1>4, <1>5

LEMMA BaseFacts ==
  ASSUME BaseInv
  PROVE  /\ TypeOK /\ FirstUsed(persist) /\ FirstUsed(save) /\ Snaps /\ Current
         /\ latest \in Nat /\ diskValues \in 0 .. latest
         /\ persist \in [Persist -> PersistRecord] /\ save \in [SaveId -> SaveRecord]
         /\ crypto \in Seq(Entry) /\ device \in Seq(DeviceCall)
         /\ PersistQueues(persist, crypto, device, diskValues) /\ SaveQueues(save, device)
BY DEF BaseInv, TypeInv, TypeOK, Entry

LEMMA NoPersistIn ==
  \A p, s, u : SetCall(p) \notin {SaveCall(s)} /\ SetCall(p) \notin {RemoveCall(s, u)} /\ SetCall(p) \notin {}
BY EraseIsNoWrite

LEMMA SaveTypes ==
  ASSUME TypeOK, save' \in [SaveId -> SaveRecord], device' \in Seq(DeviceCall),
         diskPayloads' \in [Item -> [by : SaveId \cup {None}, there : BOOLEAN]], events' \in 0 .. MaxEvents,
         UNCHANGED <<valueVars, statusVars, clearing, switching, crypto, diskValues, hasValues, spared, abandoned>>,
         passed' \in [SaveId -> SUBSET SaveId]
  PROVE  TypeOK'
<1>1. /\ latest' \in Nat /\ values' \in 0 .. latest' /\ diskValues' \in 0 .. latest'
      /\ needsPersist' \in BOOLEAN /\ hasValues' \in BOOLEAN
      /\ persist' \in [Persist -> PersistRecord] /\ currentPersist' \in Persist \cup {None}
      /\ crypto' \in Seq(Entry)
  BY DEF TypeOK, Entry, valueVars
<1>2. /\ persistable' \in BOOLEAN /\ ephemeral' \in BOOLEAN /\ dealloced' \in BOOLEAN
      /\ preparing' \in BOOLEAN /\ limited' \in BOOLEAN
      /\ closing' \in SUBSET CriticalFunction /\ abandoned' \in SUBSET CriticalFunction
  BY DEF TypeOK, statusVars
<1>3. /\ clearing' \in [at : {"no", "values", "payloads", "remove", "done", "failed"},
                        by : Persist \cup {None}, saves : SaveId \cup {None}]
      /\ switching' \in {"no", "values", "payloads", "done", "failed"}
      /\ spared' \in [{"clear", "switch"} -> SUBSET SaveId]
  BY DEF TypeOK
<1> QED BY <1>1, <1>2, <1>3 DEF TypeOK, Entry

LEMMA BaseSaveEncrypted == ASSUME BaseInv, NEW s \in SaveId, SaveEncrypted(s) PROVE BaseInv'
<1>0. TypeOK /\ FirstUsed(save) /\ device \in Seq(DeviceCall) /\ SaveQueues(save, device)
  BY BaseFacts
<1>1. /\ save[s].stage = "encrypting"
      /\ UNCHANGED <<valueVars, statusVars, clearing, switching, crypto, diskVars, events, history>>
      /\ \/ save' = [save EXCEPT ![s].stage = "dropped"] /\ UNCHANGED device
         \/ save' = [save EXCEPT ![s].stage = "writing"] /\ device' = Append(device, SaveCall(s))
  BY DEF SaveEncrypted, SaveCall
<1>2. Off(s, device)
  BY <1>0, <1>1, SaveOffStage
<1>3. /\ device' \in Seq(DeviceCall) /\ Moved(device, device', {SaveCall(s)})
      /\ save' \in [SaveId -> SaveRecord] /\ FirstUsed(save')
      /\ SaveQueues(save', device')
  <2>1. CASE save' = [save EXCEPT ![s].stage = "dropped"] /\ UNCHANGED device
    <3>1. save' \in [SaveId -> SaveRecord] /\ FirstUsed(save') /\ \A t \in SaveId : t # s => save'[t] = save[t]
      BY <1>0, <1>1, <2>1, SaveStage
    <3>2. SaveQueues(save', device)
      BY <1>0, <1>2, <3>1, SaveOff
    <3> QED BY <1>0, <2>1, <3>1, <3>2, MovedSame
  <2>2. CASE save' = [save EXCEPT ![s].stage = "writing"] /\ device' = Append(device, SaveCall(s))
    <3>1. /\ save' \in [SaveId -> SaveRecord] /\ FirstUsed(save') /\ save'[s].stage = "writing"
          /\ \A t \in SaveId : t # s => save'[t] = save[t]
      BY <1>0, <1>1, <2>2, SaveStage
    <3>2. SaveQueues(save', device)
      BY <1>0, <1>2, <3>1, SaveOff
    <3>3. /\ device' \in Seq(DeviceCall) /\ Moved(device, device', {SaveCall(s)})
          /\ SaveQueues(save', device')
      BY <1>0, <1>2, <2>2, <3>1, <3>2, SaveWriteBegins
    <3> QED BY <3>1, <3>3
  <2> QED BY <1>1, <2>1, <2>2
<1>4. TypeOK'
  <2>1. diskPayloads' \in [Item -> [by : SaveId \cup {None}, there : BOOLEAN]] /\ events' \in 0 .. MaxEvents
        /\ passed' \in [SaveId -> SUBSET SaveId]
    BY <1>0, <1>1 DEF TypeOK, diskVars, history
  <2> QED BY <1>0, <1>1, <1>3, <2>1, SaveTypes DEF diskVars, history
<1>5. UNCHANGED <<latest, values, persist, needsPersist, crypto, diskValues>>
  BY <1>1 DEF valueVars, diskVars
<1> QED BY <1>3, <1>4, <1>5, NoPersistIn, BaseFrame

LEMMA BasePayloadsWritten == ASSUME BaseInv, PayloadsWritten PROVE BaseInv'
<1>0. /\ TypeOK /\ FirstUsed(save) /\ device \in Seq(DeviceCall) /\ SaveQueues(save, device)
  BY BaseFacts
<1> DEFINE s == Call.id
<1>1. /\ device # <<>> /\ Call.op = "savePayloads"
      /\ save' = [save EXCEPT ![s].stage = "done"]
      /\ diskPayloads' = [u \in Item |-> IF u \in save[s].items
                                         THEN [by |-> s, there |-> TRUE] ELSE diskPayloads[u]]
      /\ device' = Tail(device)
      /\ UNCHANGED <<valueVars, statusVars, clearing, switching, crypto, diskValues, hasValues, events, history>>
  BY DEF PayloadsWritten
<1>2. s \in SaveId /\ Head(device) = SaveCall(s) /\ Tail(device) \in Seq(DeviceCall)
  BY <1>0, <1>1, CallOf DEF Call
<1> HIDE DEF s
<1>3. /\ save[s].stage = "writing" /\ Moved(device, device', {})
      /\ SaveQueues(save, device') /\ Off(s, device')
  <2>1. device # <<>> /\ device' = Tail(device) /\ device \in Seq(DeviceCall) /\ Head(device) = SaveCall(s) /\ s \in SaveId
    BY <1>0, <1>1, <1>2
  <2>2. /\ save[s].stage = "writing" /\ Moved(device, Tail(device), {})
        /\ SaveQueues(save, Tail(device)) /\ Off(s, Tail(device))
    BY <1>0, <2>1, SaveWriteEnds
  <2> QED BY <2>1, <2>2
<1>4. save' \in [SaveId -> SaveRecord] /\ FirstUsed(save') /\ \A t \in SaveId : t # s => save'[t] = save[t]
  BY <1>0, <1>1, <1>2, <1>3, SaveStage
<1>5. SaveQueues(save', device')
  BY <1>2, <1>3, <1>4, SaveOff
<1>6. TypeOK'
  <2>1. diskPayloads' \in [Item -> [by : SaveId \cup {None}, there : BOOLEAN]]
    BY <1>0, <1>1, <1>2 DEF TypeOK
  <2>2. events' \in 0 .. MaxEvents /\ passed' \in [SaveId -> SUBSET SaveId]
    BY <1>0, <1>1 DEF TypeOK, history
  <2> QED BY <1>0, <1>1, <1>2, <1>4, <2>1, <2>2, SaveTypes DEF history
<1>7. UNCHANGED <<latest, values, persist, needsPersist, crypto, diskValues>>
  BY <1>1 DEF valueVars
<1> QED BY <1>3, <1>4, <1>5, <1>6, <1>7, NoPersistIn, BaseFrame

LEMMA BasePayloadRemoved == ASSUME BaseInv, PayloadRemoved PROVE BaseInv'
<1>0. /\ TypeOK /\ FirstUsed(save) /\ device \in Seq(DeviceCall) /\ SaveQueues(save, device)
  BY BaseFacts
<1> DEFINE s == Call.id
           u == Call.item
<1>1. /\ device # <<>> /\ Call.op = "removePayload"
      /\ save' = [save EXCEPT ![s].stage = "encrypting"]
      /\ diskPayloads' = [diskPayloads EXCEPT ![u] = [by |-> s, there |-> FALSE]]
      /\ device' = Tail(device)
      /\ UNCHANGED <<valueVars, statusVars, clearing, switching, crypto, diskValues, hasValues, events, history>>
  BY DEF PayloadRemoved
<1>2. s \in SaveId /\ u \in Item /\ Head(device) = RemoveCall(s, u) /\ Tail(device) \in Seq(DeviceCall)
  BY <1>0, <1>1, CallOf DEF Call
<1> HIDE DEF s, u
<1>3. /\ save[s].stage = "deleting" /\ Moved(device, device', {})
      /\ SaveQueues(save, device') /\ Off(s, device')
  <2>1. /\ device # <<>> /\ device' = Tail(device) /\ device \in Seq(DeviceCall)
        /\ Head(device) = RemoveCall(s, u) /\ s \in SaveId /\ u \in Item
    BY <1>0, <1>1, <1>2
  <2>2. /\ save[s].stage = "deleting" /\ Moved(device, Tail(device), {})
        /\ SaveQueues(save, Tail(device)) /\ Off(s, Tail(device))
    BY <1>0, <2>1, SaveDeletionEnds
  <2> QED BY <2>1, <2>2
<1>4. /\ save' \in [SaveId -> SaveRecord] /\ FirstUsed(save') /\ save'[s].stage = "encrypting"
      /\ \A t \in SaveId : t # s => save'[t] = save[t]
  BY <1>0, <1>1, <1>2, <1>3, SaveStage
<1>5. SaveQueues(save', device')
  BY <1>2, <1>3, <1>4, SaveOff
<1>6. TypeOK'
  <2>1. diskPayloads' \in [Item -> [by : SaveId \cup {None}, there : BOOLEAN]]
    BY <1>0, <1>1, <1>2 DEF TypeOK
  <2>2. events' \in 0 .. MaxEvents /\ passed' \in [SaveId -> SUBSET SaveId] /\ device' \in Seq(DeviceCall)
    BY <1>0, <1>1, <1>2 DEF TypeOK, history
  <2> QED BY <1>0, <1>1, <1>2, <1>4, <2>1, <2>2, SaveTypes DEF history
<1>7. UNCHANGED <<latest, values, persist, needsPersist, crypto, diskValues>>
  BY <1>1 DEF valueVars
<1> QED BY <1>3, <1>4, <1>5, <1>6, <1>7, NoPersistIn, BaseFrame

(* The calls that erase.                                                   *)
LEMMA EraseTypes ==
  \A o \in {"removeValues", "removePayloads"}, f \in {"clear", "switch"} :
    EraseCall(o, f) \in DeviceCall /\ EraseCall(o, f) \in AnyErase
BY CallTypes DEF AnyErase

LEMMA EraseMoves ==
  ASSUME device \in Seq(DeviceCall), device # <<>>
  PROVE  /\ Moved(device, Tail(device), AnyErase)
         /\ \A o \in {"removeValues", "removePayloads"}, f \in {"clear", "switch"} :
              /\ Append(Tail(device), EraseCall(o, f)) \in Seq(DeviceCall)
              /\ Moved(device, Append(Tail(device), EraseCall(o, f)), AnyErase)
<1> DEFINE t == Tail(device)
<1>1. t \in Seq(DeviceCall) /\ Moved(device, t, AnyErase)
  BY MovedTail
<1> HIDE DEF t
<1>2. ASSUME NEW o \in {"removeValues", "removePayloads"}, NEW f \in {"clear", "switch"}
      PROVE  Append(t, EraseCall(o, f)) \in Seq(DeviceCall) /\ Moved(device, Append(t, EraseCall(o, f)), AnyErase)
  <2> DEFINE e == EraseCall(o, f)
  <2>1. e \in DeviceCall /\ {e} \subseteq AnyErase
    BY EraseTypes
  <2> HIDE DEF e
  <2>2. Append(t, e) \in Seq(DeviceCall) /\ Moved(t, Append(t, e), {e})
    BY <1>1, <2>1, DeviceAppend
  <2>3. Moved(device, Append(t, e), AnyErase)
    BY <1>1, <2>1, <2>2, MovedMore
  <2> QED BY <2>2, <2>3 DEF e
<1> QED BY <1>1, <1>2 DEF t

LEMMA BaseErase == ASSUME BaseInv, AllPayloadsRemoved \/ AllValuesRemoved PROVE BaseInv' /\ Quiet
<1>0. /\ TypeOK /\ FirstUsed(save) /\ device \in Seq(DeviceCall) /\ SaveQueues(save, device)
  BY BaseFacts
<1>1. /\ device # <<>>
      /\ UNCHANGED <<valueVars, statusVars, save, crypto, diskValues, events, history>>
      /\ \/ device' = Tail(device)
         \/ device' = Append(Tail(device), EraseCall("removeValues", "clear"))
         \/ device' = Append(Tail(device), EraseCall("removePayloads", "switch"))
  BY DEF AllPayloadsRemoved, AllValuesRemoved, EraseCall
<1>2. device' \in Seq(DeviceCall) /\ Moved(device, device', AnyErase)
  BY <1>0, <1>1, EraseMoves, CallOf
<1>4. SaveQueues(save', device') /\ FirstUsed(save')
  <2>1. SaveQueues(save, device')
    BY <1>0, <1>2, SaveFrame, NoSaveIn
  <2> QED BY <1>0, <1>1, <2>1
<1>5. TypeOK'
  <2>1. diskPayloads' \in [Item -> [by : SaveId \cup {None}, there : BOOLEAN]] /\ hasValues' \in BOOLEAN
    <3>1. diskPayloads \in [Item -> [by : SaveId \cup {None}, there : BOOLEAN]] /\ hasValues \in BOOLEAN
      BY <1>0 DEF TypeOK
    <3>2. CASE AllPayloadsRemoved
      <4>1. \A u \in Item : [diskPayloads[u] EXCEPT !.there = FALSE] \in [by : SaveId \cup {None}, there : BOOLEAN]
        BY <3>1
      <4>2. diskPayloads' = [u \in Item |-> [diskPayloads[u] EXCEPT !.there = FALSE]] /\ hasValues' = hasValues
        BY <3>2 DEF AllPayloadsRemoved
      <4> QED BY <3>1, <4>1, <4>2
    <3>3. CASE AllValuesRemoved
      BY <3>1, <3>3 DEF AllValuesRemoved
    <3> QED BY <3>2, <3>3
  <2>2. clearing' \in [at : {"no", "values", "payloads", "remove", "done", "failed"},
                       by : Persist \cup {None}, saves : SaveId \cup {None}]
        /\ switching' \in {"no", "values", "payloads", "done", "failed"}
    <3>1. \A at \in {"remove", "done", "failed"} : [clearing EXCEPT !.at = at] \in
            [at : {"no", "values", "payloads", "remove", "done", "failed"}, by : Persist \cup {None}, saves : SaveId \cup {None}]
      BY <1>0 DEF TypeOK
    <3>2. /\ clearing' = clearing \/ \E at \in {"remove", "done", "failed"} : clearing' = [clearing EXCEPT !.at = at]
          /\ switching' \in {switching, "payloads", "done", "failed"}
      BY DEF AllPayloadsRemoved, AllValuesRemoved
    <3> QED BY <1>0, <3>1, <3>2 DEF TypeOK
  <2> QED BY <1>0, <1>1, <1>2, <2>1, <2>2 DEF TypeOK, valueVars, statusVars, history
<1>6. UNCHANGED <<latest, values, persist, needsPersist, crypto, diskValues>>
  BY <1>1 DEF valueVars
<1>7. \A p \in Persist : SetCall(p) \notin AnyErase
  BY NoSaveIn
<1>8. BaseInv'
  BY <1>2, <1>4, <1>5, <1>6, <1>7, BaseFrame
<1>9. Quiet
  <2>1. \A u \in Item : diskPayloads'[u].by = diskPayloads[u].by
    <3>1. diskPayloads \in [Item -> [by : SaveId \cup {None}, there : BOOLEAN]]
      BY <1>0 DEF TypeOK
    <3>2. CASE AllPayloadsRemoved
      <4>1. diskPayloads' = [u \in Item |-> [diskPayloads[u] EXCEPT !.there = FALSE]]
        BY <3>2 DEF AllPayloadsRemoved
      <4>2. \A u \in Item : [diskPayloads[u] EXCEPT !.there = FALSE].by = diskPayloads[u].by
        BY <3>1
      <4> QED BY <4>1, <4>2
    <3>3. CASE AllValuesRemoved
      BY <3>3 DEF AllValuesRemoved
    <3> QED BY <3>2, <3>3
  <2>2. Moved(device, device', AnyWrite)
    BY <1>2 DEF Moved, AnyWrite
  <2> QED BY <1>1, <2>1, <2>2 DEF Quiet
<1> QED BY <1>8, <1>9

LEMMA BaseSwitch == ASSUME BaseInv, SwitchToEphemeral PROVE BaseInv' /\ Quiet
<1>0. /\ TypeOK /\ FirstUsed(save) /\ device \in Seq(DeviceCall) /\ SaveQueues(save, device)
  BY BaseFacts
<1> DEFINE e == EraseCall("removeValues", "switch")
<1>1. /\ events < MaxEvents /\ events' = events + 1 /\ ephemeral' = TRUE /\ switching' = "values"
      /\ device' = Append(device, e)
      /\ spared' = [spared EXCEPT !["switch"] = Unwritten]
      /\ UNCHANGED <<valueVars, persistable, preparing, limited, closing, dealloced, save, clearing, crypto,
                     diskVars, passed, abandoned>>
  BY DEF SwitchToEphemeral, EraseCall
<1>2. e \in DeviceCall /\ {e} \subseteq AnyErase
  BY EraseTypes
<1> HIDE DEF e
<1>3. device' \in Seq(DeviceCall) /\ Moved(device, device', AnyErase)
  <2>1. device' \in Seq(DeviceCall) /\ Moved(device, device', {e})
    BY <1>0, <1>1, <1>2, DeviceAppend
  <2> QED BY <1>1, <1>2, <2>1 DEF Moved
<1>4. SaveQueues(save', device') /\ FirstUsed(save')
  <2>1. SaveQueues(save, device')
    BY <1>0, <1>3, SaveFrame, NoSaveIn
  <2> QED BY <1>0, <1>1, <2>1
<1>5. TypeOK'
  <2>1. events' \in 0 .. MaxEvents
    BY <1>0, <1>1 DEF TypeOK
  <2>2. spared' \in [{"clear", "switch"} -> SUBSET SaveId]
    BY <1>0, <1>1 DEF TypeOK, Unwritten
  <2> QED BY <1>0, <1>1, <1>3, <2>1, <2>2 DEF TypeOK, valueVars, diskVars
<1>6. UNCHANGED <<latest, values, persist, needsPersist, crypto, diskValues>>
  BY <1>1 DEF valueVars, diskVars
<1>7. \A p \in Persist : SetCall(p) \notin AnyErase
  BY NoSaveIn
<1>8. BaseInv'
  BY <1>3, <1>4, <1>5, <1>6, <1>7, BaseFrame
<1>9. Quiet
  <2>1. Moved(device, device', AnyWrite)
    BY <1>3 DEF Moved, AnyWrite
  <2>2. UNCHANGED <<save, diskPayloads>>
    BY <1>1 DEF diskVars
  <2> QED BY <2>1, <2>2 DEF Quiet
<1> QED BY <1>8, <1>9

LEMMA BaseEncryptionFails == ASSUME BaseInv, EncryptionFails PROVE BaseInv' /\ Quiet
<1>0. /\ TypeOK /\ FirstUsed(persist) /\ FirstUsed(save) /\ Snaps /\ Current /\ latest \in Nat
      /\ diskValues \in Nat /\ diskValues <= latest
      /\ persist \in [Persist -> PersistRecord] /\ crypto \in Seq(Entry) /\ device \in Seq(DeviceCall)
      /\ PersistQueues(persist, crypto, device, diskValues) /\ SaveQueues(save, device)
  BY BaseFacts
<1>1. /\ events < MaxEvents /\ events' = events + 1
      /\ UNCHANGED <<latest, values, statusVars, switching, device, diskVars, history>>
  BY DEF EncryptionFails
<1>1a. events' \in 0 .. MaxEvents
  BY <1>0, <1>1 DEF TypeOK
<1>2. CASE /\ crypto # <<>>
           /\ Settle(Head(crypto), "failed", Tail(crypto))
           /\ clearing' = ClearAfter(Head(crypto), "failed")
           /\ UNCHANGED save
  <2> DEFINE p == Head(crypto)
             t == Tail(crypto)
  <2>1. crypto # <<>> /\ Settle(p, "failed", t) /\ clearing' = ClearAfter(p, "failed") /\ save' = save
    BY <1>2
  <2>2. p \in Persist /\ Head(crypto) = Enc(p) /\ t \in Seq(Entry) /\ Head(crypto) \in Range(crypto)
    BY <1>0, <2>1, HeadOf
  <2> HIDE DEF p
  <2>3. persist[p].stage = "encrypting"
    BY <1>0, <2>2 DEF PersistQueues
  <2>4. PersistQueues([persist EXCEPT ![p].stage = "failed"], t, device, diskValues)
    BY <1>0, <2>1, <2>2, PersistHeadSettled
  <2> HIDE DEF t
  <2>5. /\ persist' \in [Persist -> PersistRecord] /\ crypto' \in Seq(Entry)
        /\ needsPersist' \in BOOLEAN /\ currentPersist' \in Persist \cup {None}
        /\ FirstUsed(persist') /\ \A q \in Persist : persist'[q].snap <= latest
        /\ PersistQueues(persist', crypto', device, diskValues) /\ values = latest
    BY <1>0, <2>1, <2>2, <2>3, <2>4, SettleStep
  <2>7. device' = device /\ diskValues' = diskValues /\ latest' = latest
    BY <1>1 DEF diskVars
  <2>8. PersistQueues(persist, crypto, device, diskValues)' /\ Snaps' /\ SaveQueues(save, device)'
    BY <1>0, <2>1, <2>5, <2>7 DEF Snaps
  <2>9. clearing' \in [at : {"no", "values", "payloads", "remove", "done", "failed"},
                       by : Persist \cup {None}, saves : SaveId \cup {None}]
    BY <1>0, <2>1, <2>2, ClearGoesOn
  <2>10. TypeOK'
    BY <1>0, <1>1, <1>1a, <2>1, <2>5, <2>9 DEF TypeOK, Entry, statusVars, diskVars, history
  <2>11. Current'
    BY <1>1, <2>5 DEF Current
  <2>12. Quiet
    <3>1. {} \in SUBSET AnyWrite /\ Moved(device, device', {}) /\ UNCHANGED <<save, diskPayloads>>
      BY <1>1, <2>1, MovedSame DEF diskVars
    <3> QED BY <3>1, QuietStep
  <2> QED BY <1>0, <2>1, <2>5, <2>8, <2>10, <2>11, <2>12 DEF BaseInv, TypeInv
<1>3. ASSUME NEW s \in SaveId, save[s].stage = "encrypting", save' = [save EXCEPT ![s].stage = "failed"],
             UNCHANGED <<persist, currentPersist, needsPersist, crypto, clearing>>
      PROVE  BaseInv' /\ Quiet
  <2>3. Off(s, device)
    BY <1>0, <1>3, SaveOffStage
  <2>4. save' \in [SaveId -> SaveRecord] /\ FirstUsed(save') /\ \A t \in SaveId : t # s => save'[t] = save[t]
    BY <1>0, <1>3, SaveStage
  <2>5. SaveQueues(save', device') /\ Moved(device, device', {})
    <3>1. SaveQueues(save', device)
      BY <1>0, <2>3, <2>4, SaveOff
    <3> QED BY <1>1, <3>1, MovedSame
  <2>6. TypeOK'
    <3>1. /\ UNCHANGED <<valueVars, statusVars, clearing, switching, crypto, diskValues, hasValues, spared, abandoned>>
          /\ diskPayloads' = diskPayloads /\ passed' = passed /\ device' = device
      BY <1>1, <1>3 DEF valueVars, diskVars, history
    <3>2. /\ diskPayloads \in [Item -> [by : SaveId \cup {None}, there : BOOLEAN]]
          /\ passed \in [SaveId -> SUBSET SaveId]
      BY <1>0 DEF TypeOK
    <3> QED BY <1>0, <1>1a, <2>4, <3>1, <3>2, SaveTypes
  <2>7. UNCHANGED <<latest, values, persist, needsPersist, crypto, diskValues>>
    BY <1>1, <1>3 DEF diskVars
  <2>8. BaseInv'
    BY <2>4, <2>5, <2>6, <2>7, NoPersistIn, BaseFrame
  <2>9. Quiet
    <3>1. Moved(device, device', AnyWrite) /\ diskPayloads' = diskPayloads
      BY <1>1, <2>5 DEF Moved, diskVars
    <3>2. /\ save'[s].stage \in {"failed", "rejected"} /\ save'[s].items = save[s].items
          /\ save'[s].discardable = save[s].discardable
      BY <1>0, <1>3, SaveStage
    <3> QED BY <1>3, <2>4, <3>1, <3>2 DEF Quiet
  <2> QED BY <2>8, <2>9
<1> QED BY <1>2, <1>3 DEF EncryptionFails

LEMMA BaseWriteFails == ASSUME BaseInv, WriteFails PROVE BaseInv' /\ Quiet
<1>0. /\ TypeOK /\ FirstUsed(persist) /\ FirstUsed(save) /\ Snaps /\ Current /\ latest \in Nat
      /\ diskValues \in Nat /\ diskValues <= latest
      /\ persist \in [Persist -> PersistRecord] /\ crypto \in Seq(Entry) /\ device \in Seq(DeviceCall)
      /\ PersistQueues(persist, crypto, device, diskValues) /\ SaveQueues(save, device)
  BY BaseFacts
<1>1. /\ device # <<>> /\ events < MaxEvents /\ events' = events + 1 /\ device' = Tail(device)
      /\ UNCHANGED <<latest, values, statusVars, switching, diskVars, history>>
  BY DEF WriteFails
<1>1a. events' \in 0 .. MaxEvents
  BY <1>0, <1>1 DEF TypeOK
<1>2. CASE /\ Call.op = "setValues"
           /\ Settle(Call.id, "failed", crypto)
           /\ clearing' = ClearAfter(Call.id, "failed")
           /\ UNCHANGED save
  <2> DEFINE p == Call.id
             t == Tail(device)
             ps == [persist EXCEPT ![p].stage = "failed"]
  <2>1. Settle(p, "failed", crypto) /\ clearing' = ClearAfter(p, "failed") /\ save' = save /\ device' = t
    BY <1>1, <1>2
  <2>2. p \in Persist /\ Head(device) = SetCall(p) /\ t \in Seq(DeviceCall)
    BY <1>0, <1>1, <1>2, CallOf DEF Call
  <2>2a. Head(device) \in Range(device) /\ Moved(device, t, AnyErase)
    BY <1>0, <1>1, MovedTail
  <2> HIDE DEF p
  <2>3. persist[p].stage = "writing" /\ diskValues <= persist[p].snap
    BY <1>0, <2>2, <2>2a DEF PersistQueues
  <2>4. PersistQueues(ps, crypto, t, diskValues)
    <3>1. diskValues \in Nat /\ diskValues <= persist[p].snap /\ PersistQueues(persist, crypto, device, diskValues)
      BY <1>0, <2>3
    <3> QED BY <1>0, <1>1, <2>2, <3>1, PersistWriteEnds
  <2> HIDE DEF t
  <2>5. /\ persist' \in [Persist -> PersistRecord] /\ crypto' \in Seq(Entry)
        /\ needsPersist' \in BOOLEAN /\ currentPersist' \in Persist \cup {None}
        /\ FirstUsed(persist') /\ \A q \in Persist : persist'[q].snap <= latest
        /\ PersistQueues(persist', crypto', t, diskValues) /\ values = latest
    BY <1>0, <2>1, <2>2, <2>3, <2>4, SettleStep
  <2>6. SaveQueues(save, t)
    BY <1>0, <2>2a, <2>5, SaveFrame, NoSaveIn
  <2>7. diskValues' = diskValues /\ latest' = latest
    BY <1>1 DEF diskVars
  <2>8. PersistQueues(persist, crypto, device, diskValues)' /\ Snaps' /\ SaveQueues(save, device)'
    BY <2>1, <2>5, <2>6, <2>7 DEF Snaps
  <2>9. clearing' \in [at : {"no", "values", "payloads", "remove", "done", "failed"},
                       by : Persist \cup {None}, saves : SaveId \cup {None}]
    BY <1>0, <2>1, <2>2, ClearGoesOn
  <2>10. TypeOK'
    BY <1>0, <1>1, <1>1a, <2>1, <2>2, <2>5, <2>9 DEF TypeOK, Entry, statusVars, diskVars, history
  <2>11. Current'
    BY <1>1, <2>5 DEF Current
  <2>12. Quiet
    <3>1. AnyErase \in SUBSET AnyWrite /\ Moved(device, device', AnyErase) /\ UNCHANGED <<save, diskPayloads>>
      BY <1>1, <2>1, <2>2a DEF diskVars, AnyWrite
    <3> QED BY <2>5, <3>1, QuietStep
  <2> QED BY <1>0, <2>1, <2>5, <2>8, <2>10, <2>11, <2>12 DEF BaseInv, TypeInv
<1>3. CASE /\ Call.op = "savePayloads"
           /\ save' = [save EXCEPT ![Call.id].stage = "rejected"]
           /\ UNCHANGED <<persist, currentPersist, needsPersist, crypto, clearing>>
  <2> DEFINE s == Call.id
  <2>1. s \in SaveId /\ Head(device) = SaveCall(s) /\ Tail(device) \in Seq(DeviceCall)
    BY <1>0, <1>1, <1>3, CallOf DEF Call
  <2>2. save' = [save EXCEPT ![s].stage = "rejected"]
    BY <1>3
  <2> HIDE DEF s
  <2>3. /\ save[s].stage = "writing" /\ Moved(device, device', {})
        /\ SaveQueues(save, device') /\ Off(s, device')
    <3>1. /\ save[s].stage = "writing" /\ Moved(device, Tail(device), {})
          /\ SaveQueues(save, Tail(device)) /\ Off(s, Tail(device))
      BY <1>0, <1>1, <2>1, SaveWriteEnds
    <3> QED BY <1>1, <3>1
  <2>4. save' \in [SaveId -> SaveRecord] /\ FirstUsed(save') /\ \A t \in SaveId : t # s => save'[t] = save[t]
    BY <1>0, <2>1, <2>2, <2>3, SaveStage
  <2>5. SaveQueues(save', device')
    BY <2>1, <2>3, <2>4, SaveOff
  <2>6. TypeOK'
    <3>1. /\ UNCHANGED <<valueVars, statusVars, clearing, switching, crypto, diskValues, hasValues, spared, abandoned>>
          /\ diskPayloads' = diskPayloads /\ passed' = passed
      BY <1>1, <1>3 DEF valueVars, diskVars, history
    <3>2. /\ diskPayloads \in [Item -> [by : SaveId \cup {None}, there : BOOLEAN]]
          /\ passed \in [SaveId -> SUBSET SaveId] /\ device' \in Seq(DeviceCall)
      BY <1>0, <1>1, <2>1 DEF TypeOK
    <3> QED BY <1>0, <1>1a, <2>4, <3>1, <3>2, SaveTypes
  <2>7. UNCHANGED <<latest, values, persist, needsPersist, crypto, diskValues>>
    BY <1>1, <1>3 DEF diskVars
  <2>8. BaseInv'
    BY <2>3, <2>4, <2>5, <2>6, <2>7, NoPersistIn, BaseFrame
  <2>9. Quiet
    <3>1. Moved(device, device', AnyWrite) /\ diskPayloads' = diskPayloads
      BY <1>1, <2>3, <2>5 DEF Moved, diskVars
    <3>2. /\ save'[s].stage \in {"failed", "rejected"} /\ save'[s].items = save[s].items
          /\ save'[s].discardable = save[s].discardable
      BY <1>0, <2>1, <2>2, <2>3, SaveStage
    <3> QED BY <2>3, <2>4, <3>1, <3>2 DEF Quiet
  <2> QED BY <2>8, <2>9
<1> QED BY <1>2, <1>3 DEF WriteFails

(* A save that begins is the next one.                                     *)
LEMMA NextSave ==
  ASSUME TypeOK, FirstUsed(persist), FirstUsed(save), NEW s \in SaveId, s = SavesUsed + 1
  PROVE  /\ save[s].stage = "none"
         /\ \A t \in SaveId : save[t].stage # "none" <=> t < s
<1>1. SavesUsed \in Nat /\ \A t \in SaveId : save[t].stage # "none" <=> t <= SavesUsed
  BY NewNumbers
<1>2. \A t \in SaveId : t <= SavesUsed <=> t < s
  BY <1>1
<1>3. ~(s < s)
  OBVIOUS
<1> QED BY <1>1, <1>2, <1>3

LEMMA SaveBegins ==
  ASSUME TypeOK, FirstUsed(persist), FirstUsed(save), NEW s \in SaveId, s = SavesUsed + 1,
         NEW record \in SaveRecord, record.stage # "none", save' = [save EXCEPT ![s] = record]
  PROVE  /\ save' \in [SaveId -> SaveRecord] /\ FirstUsed(save') /\ save'[s] = record
         /\ \A t \in SaveId : t # s => save'[t] = save[t]
<1>1. save \in [SaveId -> SaveRecord]
  BY DEF TypeOK
<1>2. save' \in [SaveId -> SaveRecord] /\ save'[s] = record /\ \A t \in SaveId : t # s => save'[t] = save[t]
  BY <1>1
<1>3. \A t \in SaveId : save'[t].stage # "none" <=> t <= s
  <2>1. \A t \in SaveId : save[t].stage # "none" <=> t < s
    BY NextSave
  <2> QED BY <1>2, <2>1
<1>4. FirstUsed(save')
  <2>1. DOMAIN save' = SaveId
    BY <1>2
  <2>2. \A q \in SaveId : \A x \in 1 .. q : x \in SaveId /\ (q <= s => x <= s)
    OBVIOUS
  <2> QED BY <1>3, <2>1, <2>2 DEF FirstUsed
<1> QED BY <1>2, <1>4

LEMMA BaseSavePayloads ==
  ASSUME BaseInv, NEW s \in SaveId, NEW items \in SUBSET Item, NEW discardable \in SUBSET Item,
         SavePayloads(s, items, discardable)
  PROVE  BaseInv'
<1>0. /\ TypeOK /\ FirstUsed(persist) /\ FirstUsed(save) /\ save \in [SaveId -> SaveRecord]
      /\ device \in Seq(DeviceCall) /\ SaveQueues(save, device)
  BY BaseFacts
<1>1. /\ s = SavesUsed + 1 /\ passed' = [passed EXCEPT ![s] = Unwritten]
      /\ UNCHANGED <<valueVars, statusVars, clearing, switching, crypto, diskVars, events, spared, abandoned>>
  BY DEF SavePayloads
<1>2. save[s].stage = "none"
  BY <1>0, <1>1, NextSave
<1>3. Off(s, device)
  BY <1>0, <1>2, SaveOffStage
<1>4. UNCHANGED <<latest, values, persist, needsPersist, crypto, diskValues>>
  BY <1>1 DEF valueVars, diskVars
<1>5. ASSUME NEW record \in SaveRecord, record.stage # "none", save' = [save EXCEPT ![s] = record],
             NEW T, Moved(device, device', T), device' \in Seq(DeviceCall), \A p \in Persist : SetCall(p) \notin T,
             SaveQueues(save', device) => SaveQueues(save', device')
      PROVE  BaseInv'
  <2>1. save' \in [SaveId -> SaveRecord] /\ FirstUsed(save') /\ \A t \in SaveId : t # s => save'[t] = save[t]
    BY <1>0, <1>1, <1>5, SaveBegins
  <2>2. SaveQueues(save', device')
    BY <1>0, <1>3, <1>5, <2>1, SaveOff
  <2>3. TypeOK'
    <3>1. /\ diskPayloads' \in [Item -> [by : SaveId \cup {None}, there : BOOLEAN]] /\ events' \in 0 .. MaxEvents
          /\ passed' \in [SaveId -> SUBSET SaveId]
      BY <1>0, <1>1 DEF TypeOK, diskVars, Unwritten
    <3> QED BY <1>0, <1>1, <1>5, <2>1, <3>1, SaveTypes DEF diskVars
  <2> QED BY <1>4, <1>5, <2>1, <2>2, <2>3, BaseFrame
<1>6. CASE save' = [save EXCEPT ![s].stage = "done"] /\ UNCHANGED device
  <2> DEFINE record == [save[s] EXCEPT !.stage = "done"]
  <2>1. record \in SaveRecord /\ record.stage # "none" /\ save' = [save EXCEPT ![s] = record]
    BY <1>0, <1>6 DEF SaveRecord
  <2> HIDE DEF record
  <2> QED BY <1>0, <1>5, <1>6, <2>1, MovedSame, NoPersistIn
<1>7. CASE save' = [save EXCEPT ![s] = [stage |-> "encrypting", items |-> items, discardable |-> {}]] /\ UNCHANGED device
  <2> DEFINE record == [stage |-> "encrypting", items |-> items, discardable |-> {}]
  <2>1. record \in SaveRecord /\ record.stage # "none" /\ save' = [save EXCEPT ![s] = record]
    BY <1>7 DEF SaveRecord
  <2> HIDE DEF record
  <2> QED BY <1>0, <1>5, <1>7, <2>1, MovedSame, NoPersistIn
<1>8. ASSUME NEW u \in Item,
             save' = [save EXCEPT ![s] = [stage |-> "deleting", items |-> items, discardable |-> {u}]],
             device' = Append(device, RemoveCall(s, u))
      PROVE  BaseInv'
  <2> DEFINE record == [stage |-> "deleting", items |-> items, discardable |-> {u}]
  <2>1. /\ record \in SaveRecord /\ record.stage = "deleting" /\ record.discardable = {u}
        /\ save' = [save EXCEPT ![s] = record]
    BY <1>8 DEF SaveRecord
  <2> HIDE DEF record
  <2>2. save'[s].stage = "deleting" /\ save'[s].discardable = {u}
    BY <1>0, <2>1
  <2>3. /\ device' \in Seq(DeviceCall) /\ Moved(device, device', {RemoveCall(s, u)})
    <3> DEFINE e == RemoveCall(s, u)
    <3>1. e \in DeviceCall /\ device' = Append(device, e)
      BY <1>8, CallTypes
    <3> HIDE DEF e
    <3>2. device' \in Seq(DeviceCall) /\ Moved(device, device', {e})
      BY <1>0, <3>1, DeviceAppend
    <3> QED BY <3>2 DEF e
  <2>4. SaveQueues(save', device) => SaveQueues(save', device')
    BY <1>0, <1>3, <1>8, <2>2, SaveDeletionBegins
  <2> QED BY <1>5, <2>1, <2>3, <2>4, NoPersistIn
<1>9. \/ save' = [save EXCEPT ![s].stage = "done"] /\ UNCHANGED device
      \/ /\ save' = [save EXCEPT ![s] = [stage |-> "encrypting", items |-> items, discardable |-> {}]]
         /\ UNCHANGED device
      \/ \E u \in discardable :
         /\ save' = [save EXCEPT ![s] = [stage |-> "deleting", items |-> items, discardable |-> {u}]]
         /\ device' = Append(device, RemoveCall(s, u))
  BY DEF SavePayloads, RemoveCall
<1> QED BY <1>6, <1>7, <1>8, <1>9

LEMMA BaseStatus == ASSUME BaseInv, PrepareForDeinit \/ Deinit \/ UNCHANGED vars PROVE BaseInv' /\ Quiet
<1>0. /\ TypeOK /\ FirstUsed(persist) /\ FirstUsed(save) /\ Snaps /\ Current
      /\ PersistQueues(persist, crypto, device, diskValues) /\ SaveQueues(save, device)
      /\ persist \in [Persist -> PersistRecord] /\ save \in [SaveId -> SaveRecord]
  BY BaseFacts
<1>1. Critical \in SUBSET CriticalFunction
  BY DEF Critical, CriticalFunction
<1>2. /\ UNCHANGED <<valueVars, save, clearing, switching, crypto, device, diskVars>>
      /\ events' \in 0 .. MaxEvents /\ persistable' \in BOOLEAN /\ ephemeral' \in BOOLEAN
      /\ preparing' \in BOOLEAN /\ dealloced' \in BOOLEAN
      /\ limited' \in BOOLEAN /\ closing' \in SUBSET CriticalFunction /\ abandoned' \in SUBSET CriticalFunction
      /\ UNCHANGED <<passed, spared>>
  <2>1. CASE PrepareForDeinit
    <3>1. /\ UNCHANGED <<valueVars, persistable, ephemeral, dealloced, save, clearing, switching, crypto, device, diskVars, history>>
          /\ preparing' = TRUE /\ limited' \in BOOLEAN /\ closing' = Critical /\ events < MaxEvents /\ events' = events + 1
      BY <2>1 DEF PrepareForDeinit
    <3> QED BY <1>0, <1>1, <3>1 DEF TypeOK, history
  <2>2. CASE Deinit
    <3>1. /\ UNCHANGED <<valueVars, ephemeral, preparing, limited, closing, save, clearing, switching, crypto, device,
                         diskVars, events, passed, spared>>
          /\ persistable' = FALSE /\ dealloced' = TRUE /\ abandoned' \subseteq closing
      BY <2>2 DEF Deinit
    <3> QED BY <1>0, <3>1 DEF TypeOK
  <2>3. CASE UNCHANGED vars
    BY <1>0, <2>3 DEF TypeOK, vars, statusVars, history
  <2> QED BY <2>1, <2>2, <2>3
<1>3. TypeOK'
  BY <1>0, <1>2 DEF TypeOK, valueVars, diskVars
<1>4. UNCHANGED <<latest, values, persist, needsPersist, crypto, device, save, diskValues>>
  BY <1>2 DEF valueVars, diskVars
<1>5. Snaps' /\ Current' /\ FirstUsed(persist') /\ FirstUsed(save')
  BY <1>0, <1>4 DEF Snaps, Current
<1>6. PersistQueues(persist, crypto, device, diskValues)' /\ SaveQueues(save, device)'
  BY <1>0, <1>4
<1>7. Quiet
  <2>1. /\ {} \in SUBSET AnyWrite /\ Moved(device, device', {})
        /\ UNCHANGED <<save, diskPayloads>>
    BY <1>2, MovedSame DEF diskVars
  <2> QED BY <2>1, QuietStep
<1> QED BY <1>3, <1>5, <1>6, <1>7 DEF BaseInv, TypeInv

LEMMA BaseRestart == ASSUME BaseInv, Restart PROVE BaseInv' /\ Quiet
<1>0. /\ TypeOK /\ FirstUsed(persist) /\ FirstUsed(save) /\ Snaps
      /\ latest \in Nat /\ diskValues \in 0 .. latest
      /\ persist \in [Persist -> PersistRecord] /\ save \in [SaveId -> SaveRecord]
  BY BaseFacts
<1>1. /\ events < MaxEvents /\ events' = events + 1
      /\ values' = IF hasValues THEN diskValues ELSE 0
      /\ needsPersist' = FALSE /\ currentPersist' = None
      /\ persistable' = FALSE /\ ephemeral' = FALSE
      /\ preparing' = FALSE /\ limited' = FALSE /\ closing' = {} /\ dealloced' = FALSE
      /\ clearing' = [at |-> "no", by |-> None, saves |-> None]
      /\ switching' = "no" /\ crypto' = <<>> /\ device' = <<>>
      /\ UNCHANGED <<latest, diskVars>>
  BY DEF Restart
<1>2. /\ persist' \in [Persist -> PersistRecord]
      /\ \A p \in Persist : persist'[p].stage \in {"none", "lost"}
      /\ \A p \in Persist : persist'[p].snap = persist[p].snap
      /\ \A p \in Persist : persist'[p].stage # "none" <=> persist[p].stage # "none"
  <2>1. persist' = [p \in Persist |-> IF persist[p].stage = "none" THEN persist[p]
                                      ELSE [persist[p] EXCEPT !.stage = "lost", !.on = None]]
    BY DEF Restart
  <2>2. \A p \in Persist : /\ [persist[p] EXCEPT !.stage = "lost", !.on = None] \in PersistRecord
                           /\ [persist[p] EXCEPT !.stage = "lost", !.on = None].stage = "lost"
                           /\ [persist[p] EXCEPT !.stage = "lost", !.on = None].snap = persist[p].snap
    BY <1>0 DEF PersistRecord
  <2> QED BY <1>0, <2>1, <2>2
<1>3. /\ save' \in [SaveId -> SaveRecord]
      /\ \A s \in SaveId : save'[s].stage # "none" <=> save[s].stage # "none"
      /\ \A s \in SaveId : save'[s].items = save[s].items
      /\ \A s \in SaveId : save'[s].discardable = save[s].discardable
      /\ \A s \in SaveId : save'[s].stage = save[s].stage \/ save'[s].stage = "lost"
  <2>1. save' = [s \in SaveId |-> IF save[s].stage \in {"none", "done"} THEN save[s]
                                  ELSE [save[s] EXCEPT !.stage = "lost"]]
    BY DEF Restart
  <2>2. \A s \in SaveId : /\ [save[s] EXCEPT !.stage = "lost"] \in SaveRecord
                          /\ [save[s] EXCEPT !.stage = "lost"].stage = "lost"
                          /\ [save[s] EXCEPT !.stage = "lost"].items = save[s].items
                          /\ [save[s] EXCEPT !.stage = "lost"].discardable = save[s].discardable
    BY <1>0 DEF SaveRecord
  <2> QED BY <1>0, <2>1, <2>2
<1>4. FirstUsed(persist') /\ FirstUsed(save')
  <2>1. /\ \A q \in Persist : \A x \in 1 .. q : x \in Persist
        /\ \A q \in SaveId : \A x \in 1 .. q : x \in SaveId
    OBVIOUS
  <2>2. /\ DOMAIN persist' = Persist /\ DOMAIN persist = Persist
        /\ \A p \in Persist : persist'[p].stage # "none" <=> persist[p].stage # "none"
    BY <1>0, <1>2
  <2>3. /\ DOMAIN save' = SaveId /\ DOMAIN save = SaveId
        /\ \A s \in SaveId : save'[s].stage # "none" <=> save[s].stage # "none"
    BY <1>0, <1>3
  <2>4. FirstUsed(persist')
    BY <1>0, <2>1, <2>2 DEF FirstUsed
  <2>5. FirstUsed(save')
    BY <1>0, <2>1, <2>3 DEF FirstUsed
  <2> QED BY <2>4, <2>5
<1>5. Snaps' /\ Current'
  BY <1>0, <1>1, <1>2 DEF Snaps, Current
<1>6. crypto' \in Seq(Entry) /\ device' \in Seq(DeviceCall) /\ Range(crypto') = {} /\ Range(device') = {}
      /\ Before(crypto') = {} /\ Before(device') = {}
  BY <1>1, MovedNothing
<1>7. PersistQueues(persist, crypto, device, diskValues)' /\ SaveQueues(save, device)'
  BY <1>6 DEF PersistQueues, SaveQueues
<1>8. TypeOK'
  <2>1. values' \in 0 .. latest' /\ latest' \in Nat /\ diskValues' \in 0 .. latest' /\ events' \in 0 .. MaxEvents
    BY <1>0, <1>1 DEF TypeOK, diskVars
  <2>2. /\ clearing' \in [at : {"no", "values", "payloads", "remove", "done", "failed"},
                          by : Persist \cup {None}, saves : SaveId \cup {None}]
    BY <1>1
  <2>3. passed' \in [SaveId -> SUBSET SaveId] /\ spared' \in [{"clear", "switch"} -> SUBSET SaveId] /\ abandoned' = {}
    <3>1. passed' = [s \in SaveId |-> IF save[s].stage = "done" THEN passed[s] ELSE {}]
      BY DEF Restart
    <3>2. spared' = [e \in {"clear", "switch"} |-> {}] /\ abandoned' = {}
      BY DEF Restart
    <3> QED BY <1>0, <3>1, <3>2 DEF TypeOK
  <2> QED BY <1>0, <1>1, <1>2, <1>3, <1>6, <2>1, <2>2, <2>3 DEF TypeOK, Entry, diskVars
<1>9. Quiet
  <2>1. Moved(device, device', AnyWrite)
    BY <1>6 DEF Moved
  <2>2. diskPayloads' = diskPayloads
    BY <1>1 DEF diskVars
  <2>3. ASSUME NEW s \in SaveId
        PROVE  /\ save'[s].items = save[s].items /\ save'[s].discardable = save[s].discardable
               /\ \/ save'[s].stage = save[s].stage
                  \/ save[s].stage # "none" /\ save'[s].stage \in {"failed", "rejected", "lost"}
    <3>1. save'[s].items = save[s].items /\ save'[s].discardable = save[s].discardable
      BY <1>3
    <3>2. save'[s].stage = save[s].stage \/ save'[s].stage = "lost"
      BY <1>3
    <3>3. save'[s].stage # "none" <=> save[s].stage # "none"
      BY <1>3
    <3> QED BY <3>1, <3>2, <3>3
  <2> QED BY <2>1, <2>2, <2>3 DEF Quiet
<1> QED BY <1>4, <1>5, <1>7, <1>8, <1>9 DEF BaseInv, TypeInv

LEMMA BaseInit == ASSUME Init PROVE BaseInv
<1>1. TypeOK
  <2>1. /\ persist \in [Persist -> PersistRecord] /\ save \in [SaveId -> SaveRecord]
        /\ diskPayloads \in [Item -> [by : SaveId \cup {None}, there : BOOLEAN]]
    BY DEF Init, PersistRecord, SaveRecord
  <2>2. /\ clearing \in [at : {"no", "values", "payloads", "remove", "done", "failed"},
                         by : Persist \cup {None}, saves : SaveId \cup {None}]
        /\ crypto \in Seq(Entry) /\ device \in Seq(DeviceCall) /\ events \in 0 .. MaxEvents
    BY DEF Init
  <2>3. /\ latest = 0 /\ values = 0 /\ diskValues = 0 /\ currentPersist = None /\ closing = {}
        /\ persistable \in BOOLEAN /\ needsPersist \in BOOLEAN /\ ephemeral \in BOOLEAN
        /\ dealloced \in BOOLEAN /\ hasValues \in BOOLEAN /\ preparing \in BOOLEAN /\ switching = "no"
        /\ limited = FALSE /\ abandoned = {}
        /\ passed \in [SaveId -> SUBSET SaveId] /\ spared \in [{"clear", "switch"} -> SUBSET SaveId]
    BY DEF Init
  <2>4. closing \in SUBSET CriticalFunction /\ abandoned \in SUBSET CriticalFunction
    BY <2>3
  <2>5. latest \in Nat /\ values \in 0 .. latest /\ diskValues \in 0 .. latest
    BY <2>3
  <2>6. /\ limited \in BOOLEAN /\ currentPersist \in Persist \cup {None}
        /\ switching \in {"no", "values", "payloads", "done", "failed"}
    BY <2>3
  <2> QED BY <2>1, <2>2, <2>3, <2>4, <2>5, <2>6 DEF TypeOK, Entry
<1>2. FirstUsed(persist) /\ FirstUsed(save) /\ Snaps /\ Current
  BY DEF Init, FirstUsed, Snaps, Current
<1>3. PersistQueues(persist, crypto, device, diskValues) /\ SaveQueues(save, device)
  BY MovedNothing DEF Init, PersistQueues, SaveQueues
<1> QED BY <1>1, <1>2, <1>3 DEF BaseInv, TypeInv

LEMMA BaseNext == ASSUME BaseInv, [Next]_vars PROVE BaseInv'
<1>1. ASSUME NEW n \in 1 .. 2, SetValues(n) PROVE BaseInv'
  BY <1>1, BaseSetValues
<1>2. ASSUME NEW s \in SaveId, NEW b \in Batches, SavePayloads(s, b.items, b.discardable) PROVE BaseInv'
  <2>1. b.items \in SUBSET Item /\ b.discardable \in SUBSET Item
    OBVIOUS
  <2> QED BY <1>2, <2>1, BaseSavePayloads
<1>3. CASE Launched
  BY <1>3, BaseLaunched
<1>4. CASE SwitchToEphemeral
  BY <1>4, BaseSwitch
<1>5. CASE ClearAllData
  BY <1>5, BaseClearAllData
<1>6. CASE EncryptionEnds
  BY <1>6, BasePersistEncrypted, BaseSaveEncrypted DEF EncryptionEnds
<1>7. CASE EncryptionFails
  BY <1>7, BaseEncryptionFails
<1>8. CASE DeviceAnswers
  BY <1>8, BaseValuesWritten, BasePayloadsWritten, BasePayloadRemoved, BaseErase DEF DeviceAnswers
<1>9. CASE WriteFails
  BY <1>9, BaseWriteFails
<1>10. CASE PrepareForDeinit \/ Deinit \/ UNCHANGED vars
  BY <1>10, BaseStatus
<1>11. CASE Restart
  BY <1>11, BaseRestart
<1> QED BY <1>1, <1>2, <1>3, <1>4, <1>5, <1>6, <1>7, <1>8, <1>9, <1>10, <1>11 DEF Next

(* The variables keep their types whatever calls, failures and restarts    *)
(* come: the values on disk and in memory are versions there have been,    *)
(* and the queues hold calls that were made (DiskStorageService).          *)
THEOREM DiskStorageTypeCorrect == Spec => []TypeOK
<1>1. Init => BaseInv
  BY BaseInit
<1>2. BaseInv /\ [Next]_vars => BaseInv'
  BY BaseNext
<1>3. BaseInv => TypeOK
  BY DEF BaseInv, TypeInv
<1> QED BY <1>1, <1>2, <1>3, PTL DEF Spec

(* The key-values on disk are a version they had in memory, and never go   *)
(* back to an earlier one: overlapping persists do not overtake each other *)
(* (currentPersistPromise, persistValuesToDisk).                           *)
THEOREM DiskStorageKeepsVersions == Spec => KeepsVersions
<1>1. Init => Store!Init
  BY DEF Init, Store!Init
<1>2. BaseInv /\ [Next]_vars => [Store!Next]_Store!vars
  <2> SUFFICES ASSUME BaseInv, [Next]_vars PROVE Store!Next \/ UNCHANGED Store!vars
    OBVIOUS
  <2>1. CASE (\E n \in 1 .. 2 : SetValues(n)) \/ ClearAllData
    BY <2>1 DEF SetValues, ClearAllData, diskVars, Store!Next, Store!Change
  <2>2. CASE ValuesWritten
    <3>1. diskValues' \in diskValues .. latest
      BY <2>2, BaseValuesWritten
    <3> QED BY <2>2, <3>1 DEF ValuesWritten, Store!Next, Store!Write
  <2>3. CASE AllValuesRemoved
    BY <2>3 DEF AllValuesRemoved, valueVars, Store!Next, Store!Erase
  <2>4. CASE Restart
    BY <2>4 DEF Restart, diskVars, Store!Next, Store!NextSession
  <2>5. ASSUME NEW s \in SaveId, NEW items, NEW discardable, SavePayloads(s, items, discardable)
        PROVE  UNCHANGED Store!vars
    BY <2>5 DEF SavePayloads, valueVars, diskVars, Store!vars
  <2>6. CASE Launched \/ SwitchToEphemeral
    BY <2>6 DEF Launched, SwitchToEphemeral, valueVars, diskVars, Store!vars
  <2>7. CASE EncryptionEnds \/ EncryptionFails
    BY <2>7 DEF EncryptionEnds, PersistEncrypted, SaveEncrypted, EncryptionFails, valueVars, diskVars, Store!vars
  <2>8. CASE PayloadsWritten \/ PayloadRemoved \/ AllPayloadsRemoved
    BY <2>8 DEF PayloadsWritten, PayloadRemoved, AllPayloadsRemoved, valueVars, Store!vars
  <2>9. CASE WriteFails
    BY <2>9 DEF WriteFails, diskVars, Store!vars
  <2>10. CASE PrepareForDeinit \/ Deinit \/ UNCHANGED vars
    BY <2>10 DEF PrepareForDeinit, Deinit, vars, valueVars, diskVars, Store!vars
  <2> QED BY <2>1, <2>2, <2>3, <2>4, <2>5, <2>6, <2>7, <2>8, <2>9, <2>10 DEF Next, DeviceAnswers
<1>3. Init => BaseInv
  BY BaseInit
<1>4. BaseInv /\ [Next]_vars => BaseInv'
  BY BaseNext
<1> QED BY <1>1, <1>2, <1>3, <1>4, PTL DEF Spec, KeepsVersions, Store!Spec

-----------------------------------------------------------------------------
(* The order of the saves.  A save may come after another although it was  *)
(* called before it only if it was not handed to the device by then.       *)
After(ps, x, s) == x >= s \/ x \in ps[s]

ForSave(x) == x.op \in {"savePayloads", "removePayload"}

(* What was handed to the device when a save was called has been written,  *)
(* or is in the queue of the device.                                       *)
HandedOver(sv, ps) ==
  \A s, t \in SaveId : sv[s].stage # "none" /\ t < s /\ t \notin ps[s] => sv[t].stage \notin {"deleting", "encrypting"}

DeviceOrder(ps, dev) ==
  \A x, y \in DeviceCall : <<x, y>> \in Before(dev) /\ ForSave(x) /\ ForSave(y) => After(ps, y.id, x.id)

(* A save that has already written or deleted something.                   *)
Acted(sv, s) == \/ sv[s].stage = "done" /\ sv[s].items \cup sv[s].discardable # {}
                \/ sv[s].stage \in {"encrypting", "writing"} /\ sv[s].discardable # {}

ActedFirst(sv, ps, dev) ==
  \A s \in SaveId, x \in DeviceCall : Acted(sv, s) /\ x \in Range(dev) /\ ForSave(x) => After(ps, x.id, s)

(* What has been done of a save is on disk, or something later is.         *)
OnDisk(sv, ps, disk) ==
  /\ \A s \in SaveId : sv[s].stage = "done" =>
       \A u \in sv[s].items \cup sv[s].discardable : After(ps, disk[u].by, s)
  /\ \A s \in SaveId : sv[s].stage \in {"encrypting", "writing"} =>
       \A u \in sv[s].discardable : After(ps, disk[u].by, s)
  /\ \A s \in SaveId : sv[s].stage = "none" => sv[s].items = {} /\ sv[s].discardable = {}

OrderInv == /\ HandedOver(save, passed) /\ DeviceOrder(passed, device)
            /\ ActedFirst(save, passed, device) /\ OnDisk(save, passed, diskPayloads)

LEMMA ForSaveCalls ==
  /\ \A s \in SaveId : SaveCall(s).id = s /\ ForSave(SaveCall(s))
  /\ \A s \in SaveId, u \in Item : RemoveCall(s, u).id = s /\ ForSave(RemoveCall(s, u))
  /\ \A x \in AnyWrite : ~ForSave(x)
  /\ \A x \in DeviceCall : ForSave(x) => x.id \in SaveId
<1>1. \A s \in SaveId : SaveCall(s).id = s /\ ForSave(SaveCall(s))
  BY DEF SaveCall, ForSave
<1>2. \A s \in SaveId, u \in Item : RemoveCall(s, u).id = s /\ ForSave(RemoveCall(s, u))
  BY DEF RemoveCall, ForSave
<1>3. ASSUME NEW x \in AnyWrite PROVE ~ForSave(x)
  <2>1. ASSUME NEW o \in {"removeValues", "removePayloads"}, NEW f, x = EraseCall(o, f) PROVE ~ForSave(x)
    BY <2>1 DEF EraseCall, ForSave
  <2>2. ASSUME NEW p, x = SetCall(p) PROVE ~ForSave(x)
    BY <2>2 DEF SetCall, ForSave
  <2> QED BY <2>1, <2>2 DEF AnyWrite, AnyErase
<1>4. \A x \in DeviceCall : ForSave(x) => x.id \in SaveId
  BY CallForms DEF ForSave
<1> QED BY <1>1, <1>2, <1>3, <1>4

(* Steps that are not about saves leave their order alone.                 *)
LEMMA OrderQuiet == ASSUME BaseInv, OrderInv, Quiet, UNCHANGED passed PROVE OrderInv'
<1>1. /\ \A u \in Item : diskPayloads'[u].by = diskPayloads[u].by
      /\ Range(device') \subseteq Range(device) \cup AnyWrite
      /\ Before(device') \subseteq Before(device) \cup ((Range(device) \cup AnyWrite) \X AnyWrite)
  BY DEF Quiet, Moved
<1>2. \A s \in SaveId : /\ save'[s].items = save[s].items /\ save'[s].discardable = save[s].discardable
                        /\ save'[s].stage = "none" <=> save[s].stage = "none"
                        /\ \A stage \in {"done", "deleting", "encrypting", "writing"} :
                             save'[s].stage = stage => save[s].stage = stage
  BY DEF Quiet
<1>3. \A s \in SaveId : save[s].items \in SUBSET Item /\ save[s].discardable \in SUBSET Item
  BY DEF BaseInv, TypeInv, TypeOK, SaveRecord
<1>4. HandedOver(save', passed')
  BY <1>2 DEF OrderInv, HandedOver
<1>5. DeviceOrder(passed', device')
  BY <1>1, ForSaveCalls DEF OrderInv, DeviceOrder
<1>6. \A s \in SaveId : Acted(save', s) => Acted(save, s)
  BY <1>2 DEF Acted
<1>7. ActedFirst(save', passed', device')
  BY <1>1, <1>6, ForSaveCalls DEF OrderInv, ActedFirst
<1>8. OnDisk(save', passed', diskPayloads')
  <2>1. \A s \in SaveId : save'[s].stage = "done" =>
          \A u \in save'[s].items \cup save'[s].discardable : After(passed', diskPayloads'[u].by, s)
    BY <1>1, <1>2, <1>3 DEF OrderInv, OnDisk
  <2>2. \A s \in SaveId : save'[s].stage \in {"encrypting", "writing"} =>
          \A u \in save'[s].discardable : After(passed', diskPayloads'[u].by, s)
    BY <1>1, <1>2, <1>3 DEF OrderInv, OnDisk
  <2>3. \A s \in SaveId : save'[s].stage = "none" => save'[s].items = {} /\ save'[s].discardable = {}
    BY <1>2 DEF OrderInv, OnDisk
  <2> QED BY <2>1, <2>2, <2>3 DEF OnDisk
<1> QED BY <1>4, <1>5, <1>7, <1>8 DEF OrderInv

LEMMA OrderSaveEncrypted == ASSUME BaseInv, OrderInv, NEW s \in SaveId, SaveEncrypted(s) PROVE OrderInv'
<1>0. save \in [SaveId -> SaveRecord] /\ device \in Seq(DeviceCall)
  BY BaseFacts
<1>1. /\ save[s].stage = "encrypting" /\ UNCHANGED <<passed, diskPayloads>>
      /\ \/ save' = [save EXCEPT ![s].stage = "dropped"] /\ UNCHANGED device
         \/ save' = [save EXCEPT ![s].stage = "writing"] /\ device' = Append(device, SaveCall(s))
  BY DEF SaveEncrypted, SaveCall, diskVars, history
<1>2. /\ \A t \in SaveId : save'[t].items = save[t].items /\ save'[t].discardable = save[t].discardable
      /\ save'[s].stage \in {"dropped", "writing"} /\ \A t \in SaveId : t # s => save'[t] = save[t]
  <2>1. \A stage \in {"dropped", "writing"} : save' = [save EXCEPT ![s].stage = stage] =>
          /\ save'[s].stage = stage /\ save'[s].items = save[s].items /\ save'[s].discardable = save[s].discardable
          /\ \A t \in SaveId : t # s => save'[t] = save[t]
    BY <1>0 DEF SaveRecord
  <2> QED BY <1>1, <2>1
<1>3. HandedOver(save', passed')
  BY <1>1, <1>2 DEF OrderInv, HandedOver
<1>4. \A t \in SaveId : save[t].stage # "none" => After(passed, s, t)
  BY <1>1 DEF OrderInv, HandedOver, After
<1>5. \A t \in SaveId : Acted(save', t) => Acted(save, t)
  BY <1>1, <1>2 DEF Acted
<1>6. /\ Range(device') \subseteq Range(device) \cup {SaveCall(s)}
      /\ Before(device') \subseteq Before(device) \cup (Range(device) \X {SaveCall(s)})
  <2>1. SaveCall(s) \in DeviceCall
    BY CallTypes
  <2> QED BY <1>0, <1>1, <2>1, DeviceAppend
<1>7. \A x \in DeviceCall : x \in Range(device) /\ ForSave(x) => save[x.id].stage # "none" /\ x.id \in SaveId
  <2> SUFFICES ASSUME NEW x \in DeviceCall, x \in Range(device), ForSave(x)
               PROVE  save[x.id].stage # "none" /\ x.id \in SaveId
    OBVIOUS
  <2>1. SaveQueues(save, device)
    BY BaseFacts
  <2>2. CASE x.op = "savePayloads"
    BY <2>1, <2>2, CallForms DEF SaveQueues
  <2>3. CASE x.op = "removePayload"
    BY <2>1, <2>3, CallForms DEF SaveQueues
  <2> QED BY <2>2, <2>3 DEF ForSave
<1>8. DeviceOrder(passed', device')
  BY <1>1, <1>4, <1>6, <1>7, ForSaveCalls DEF OrderInv, DeviceOrder
<1>9. ActedFirst(save', passed', device')
  <2>1. \A t \in SaveId : Acted(save, t) => save[t].stage # "none"
    BY DEF Acted
  <2> QED BY <1>1, <1>4, <1>5, <1>6, <2>1, ForSaveCalls DEF OrderInv, ActedFirst
<1>10. OnDisk(save', passed', diskPayloads')
  BY <1>1, <1>2 DEF OrderInv, OnDisk
<1> QED BY <1>3, <1>8, <1>9, <1>10 DEF OrderInv

(* The first call of the device is one of s, and is carried out.           *)
CarriedOut(s, c) ==
  /\ c \in DeviceCall /\ ForSave(c) /\ c.id = s /\ device # <<>> /\ c = Head(device) /\ device' = Tail(device)
  /\ save[s].stage \in {"deleting", "writing"} /\ save'[s].stage \in {"encrypting", "done"}
  /\ save'[s].stage = "encrypting" => save[s].stage = "deleting"
  /\ save'[s].items = save[s].items /\ save'[s].discardable = save[s].discardable
  /\ \A t \in SaveId : t # s => save'[t] = save[t]
  /\ save[s].items \cup save[s].discardable # {} \/ save'[s].stage = "done"
  /\ \A u \in Item : diskPayloads'[u].by = s \/ (diskPayloads'[u].by = diskPayloads[u].by)
  /\ save'[s].stage = "done" => \A u \in save[s].items : diskPayloads'[u].by = s
  /\ \A u \in save[s].discardable : After(passed, diskPayloads'[u].by, s)
  /\ UNCHANGED passed

LEMMA OrderCarriedOut == ASSUME BaseInv, OrderInv, NEW s \in SaveId, NEW c, CarriedOut(s, c) PROVE OrderInv'
<1>0. save \in [SaveId -> SaveRecord] /\ device \in Seq(DeviceCall)
  BY BaseFacts
<1>1. /\ c \in DeviceCall /\ ForSave(c) /\ c.id = s /\ UNCHANGED passed
      /\ save[s].stage \in {"deleting", "writing"} /\ save'[s].stage \in {"encrypting", "done"}
      /\ save'[s].stage = "encrypting" => save[s].stage = "deleting"
      /\ save'[s].items = save[s].items /\ save'[s].discardable = save[s].discardable
      /\ \A t \in SaveId : t # s => save'[t] = save[t]
  BY DEF CarriedOut
<1>2. /\ c \in Range(device) /\ Range(device') \subseteq Range(device) /\ Before(device') \subseteq Before(device)
      /\ \A e \in Range(device') : <<c, e>> \in Before(device)
  <2>1. c = Head(device) /\ device' = Tail(device) /\ device # <<>>
    BY DEF CarriedOut
  <2>2. Head(device) \in Range(device) /\ Moved(device, Tail(device), {})
        /\ \A e \in Range(Tail(device)) : <<Head(device), e>> \in Before(device)
    BY <1>0, <2>1, MovedTail
  <2> QED BY <2>1, <2>2 DEF Moved
<1>3. HandedOver(save', passed')
  BY <1>1 DEF OrderInv, HandedOver
<1>4. DeviceOrder(passed', device')
  BY <1>1, <1>2 DEF OrderInv, DeviceOrder
<1>5. ActedFirst(save', passed', device')
  <2> SUFFICES ASSUME NEW t \in SaveId, NEW x \in DeviceCall, Acted(save', t), x \in Range(device'), ForSave(x)
               PROVE  After(passed, x.id, t)
    BY <1>1 DEF ActedFirst
  <2>1. CASE t = s
    BY <1>1, <1>2, <2>1 DEF OrderInv, DeviceOrder
  <2>2. CASE t # s
    <3>1. Acted(save, t)
      BY <1>1, <2>2 DEF Acted
    <3> QED BY <1>2, <3>1 DEF OrderInv, ActedFirst
  <2> QED BY <2>1, <2>2
<1>6. \A t \in SaveId, u \in Item : t # s /\ Acted(save, t) /\ After(passed, diskPayloads[u].by, t)
        => After(passed, diskPayloads'[u].by, t)
  <2> SUFFICES ASSUME NEW t \in SaveId, NEW u \in Item, t # s, Acted(save, t), After(passed, diskPayloads[u].by, t)
               PROVE  After(passed, diskPayloads'[u].by, t)
    OBVIOUS
  <2>1. After(passed, s, t)
    BY <1>1, <1>2 DEF OrderInv, ActedFirst
  <2> QED BY <2>1 DEF CarriedOut
<1>7. OnDisk(save', passed', diskPayloads')
  <2>0. \A t \in SaveId : save[t].items \in SUBSET Item /\ save[t].discardable \in SUBSET Item
    BY <1>0 DEF SaveRecord
  <2>1. After(passed, s, s)
    BY DEF After
  <2>2. ASSUME NEW t \in SaveId, save'[t].stage = "done", NEW u \in save'[t].items \cup save'[t].discardable
        PROVE  After(passed', diskPayloads'[u].by, t)
    <3>1. CASE t = s
      BY <1>1, <2>0, <2>1, <2>2, <3>1 DEF CarriedOut
    <3>2. CASE t # s
      <4>1. /\ save[t].stage = "done" /\ u \in save[t].items \cup save[t].discardable /\ u \in Item
            /\ Acted(save, t)
        BY <1>1, <2>0, <2>2, <3>2 DEF Acted
      <4>2. After(passed, diskPayloads[u].by, t)
        BY <4>1 DEF OrderInv, OnDisk
      <4> QED BY <1>1, <1>6, <3>2, <4>1, <4>2
    <3> QED BY <3>1, <3>2
  <2>3. ASSUME NEW t \in SaveId, save'[t].stage \in {"encrypting", "writing"}, NEW u \in save'[t].discardable
        PROVE  After(passed', diskPayloads'[u].by, t)
    <3>1. CASE t = s
      BY <1>1, <2>3, <3>1 DEF CarriedOut
    <3>2. CASE t # s
      <4>1. /\ save[t].stage \in {"encrypting", "writing"} /\ u \in save[t].discardable /\ u \in Item
            /\ Acted(save, t)
        BY <1>1, <2>0, <2>3, <3>2 DEF Acted
      <4>2. After(passed, diskPayloads[u].by, t)
        BY <4>1 DEF OrderInv, OnDisk
      <4> QED BY <1>1, <1>6, <3>2, <4>1, <4>2
    <3> QED BY <3>1, <3>2
  <2>4. \A t \in SaveId : save'[t].stage = "none" => save'[t].items = {} /\ save'[t].discardable = {}
    BY <1>1 DEF OrderInv, OnDisk
  <2> QED BY <2>2, <2>3, <2>4 DEF OnDisk
<1> QED BY <1>3, <1>4, <1>5, <1>7 DEF OrderInv

LEMMA OrderPayloadsWritten == ASSUME BaseInv, OrderInv, PayloadsWritten PROVE OrderInv'
<1>0. /\ TypeOK /\ FirstUsed(save) /\ device \in Seq(DeviceCall) /\ SaveQueues(save, device)
      /\ save \in [SaveId -> SaveRecord]
  BY BaseFacts
<1> DEFINE s == Call.id
           c == Call
<1>1. /\ device # <<>> /\ Call.op = "savePayloads"
      /\ save' = [save EXCEPT ![s].stage = "done"]
      /\ diskPayloads' = [u \in Item |-> IF u \in save[s].items
                                         THEN [by |-> s, there |-> TRUE] ELSE diskPayloads[u]]
      /\ device' = Tail(device) /\ UNCHANGED passed
  BY DEF PayloadsWritten, history
<1>2. s \in SaveId /\ Head(device) = SaveCall(s) /\ c \in DeviceCall /\ c = Head(device) /\ c.id = s /\ ForSave(c)
  BY <1>0, <1>1, CallOf DEF Call, ForSave
<1> HIDE DEF s, c
<1>3. save[s].stage = "writing"
  <2>1. device # <<>> /\ device \in Seq(DeviceCall) /\ Head(device) = SaveCall(s) /\ s \in SaveId /\ SaveQueues(save, device)
    BY <1>0, <1>1, <1>2
  <2> QED BY <2>1, SaveWriteEnds
<1>4. /\ save'[s].stage = "done" /\ save'[s].items = save[s].items
      /\ save'[s].discardable = save[s].discardable /\ \A t \in SaveId : t # s => save'[t] = save[t]
  BY <1>0, <1>1, <1>2, <1>3, SaveStage
<1>5. save[s].items \in SUBSET Item /\ save[s].discardable \in SUBSET Item
  BY <1>0, <1>2 DEF SaveRecord
<1>6. /\ \A u \in Item : diskPayloads'[u].by = s \/ (diskPayloads'[u].by = diskPayloads[u].by)
      /\ \A u \in save[s].items : diskPayloads'[u].by = s
  BY <1>1, <1>5
<1>7. \A u \in save[s].discardable : After(passed, diskPayloads'[u].by, s)
  <2>1. \A u \in save[s].discardable : After(passed, diskPayloads[u].by, s)
    BY <1>2, <1>3 DEF OrderInv, OnDisk
  <2>2. After(passed, s, s)
    BY <1>2 DEF After
  <2> QED BY <1>5, <1>6, <2>1, <2>2
<1>8. CarriedOut(s, c)
  BY <1>1, <1>2, <1>3, <1>4, <1>6, <1>7 DEF CarriedOut
<1> QED BY <1>2, <1>8, OrderCarriedOut

LEMMA OrderPayloadRemoved == ASSUME BaseInv, OrderInv, PayloadRemoved PROVE OrderInv'
<1>0. /\ TypeOK /\ FirstUsed(save) /\ device \in Seq(DeviceCall) /\ SaveQueues(save, device)
      /\ save \in [SaveId -> SaveRecord]
  BY BaseFacts
<1> DEFINE s == Call.id
           w == Call.item
           c == Call
<1>1. /\ device # <<>> /\ Call.op = "removePayload"
      /\ save' = [save EXCEPT ![s].stage = "encrypting"]
      /\ diskPayloads' = [diskPayloads EXCEPT ![w] = [by |-> s, there |-> FALSE]]
      /\ device' = Tail(device) /\ UNCHANGED passed
  BY DEF PayloadRemoved, history
<1>2. /\ s \in SaveId /\ w \in Item /\ Head(device) = RemoveCall(s, w) /\ c \in DeviceCall /\ c = Head(device)
      /\ c.id = s /\ ForSave(c)
  BY <1>0, <1>1, CallOf DEF Call, ForSave
<1> HIDE DEF s, w, c
<1>3. save[s].stage = "deleting" /\ save[s].discardable = {w}
  <2>1. RemoveCall(s, w) \in Range(device)
    BY <1>0, <1>1, <1>2, MovedTail
  <2> QED BY <1>0, <1>2, <2>1 DEF SaveQueues
<1>4. /\ save'[s].stage = "encrypting" /\ save'[s].items = save[s].items
      /\ save'[s].discardable = save[s].discardable /\ \A t \in SaveId : t # s => save'[t] = save[t]
  BY <1>0, <1>1, <1>2, <1>3, SaveStage
<1>5. diskPayloads'[w].by = s /\ \A u \in Item : u # w => diskPayloads'[u].by = diskPayloads[u].by
  <2>1. diskPayloads \in [Item -> [by : SaveId \cup {None}, there : BOOLEAN]]
    BY <1>0 DEF TypeOK
  <2> QED BY <1>1, <1>2, <2>1
<1>6. After(passed, s, s)
  BY <1>2 DEF After
<1>7. CarriedOut(s, c)
  BY <1>1, <1>2, <1>3, <1>4, <1>5, <1>6 DEF CarriedOut
<1> QED BY <1>2, <1>7, OrderCarriedOut

LEMMA OrderSavePayloads ==
  ASSUME BaseInv, OrderInv, NEW s \in SaveId, NEW items \in SUBSET Item, NEW discardable \in SUBSET Item,
         SavePayloads(s, items, discardable)
  PROVE  OrderInv'
<1>0. /\ TypeOK /\ FirstUsed(persist) /\ FirstUsed(save) /\ save \in [SaveId -> SaveRecord]
      /\ device \in Seq(DeviceCall) /\ SaveQueues(save, device)
  BY BaseFacts
<1>1. s = SavesUsed + 1 /\ passed' = [passed EXCEPT ![s] = Unwritten] /\ diskPayloads' = diskPayloads
  BY DEF SavePayloads, diskVars
<1>2. save[s].stage = "none" /\ \A t \in SaveId : save[t].stage # "none" => t < s
  BY <1>0, <1>1, NextSave
<1>3. passed'[s] = Unwritten /\ \A t \in SaveId : t # s => passed'[t] = passed[t]
  BY <1>0, <1>1 DEF TypeOK
<1>4. \/ save' = [save EXCEPT ![s].stage = "done"] /\ UNCHANGED device
      \/ /\ save' = [save EXCEPT ![s] = [stage |-> "encrypting", items |-> items, discardable |-> {}]]
         /\ UNCHANGED device
      \/ \E u \in discardable :
         /\ save' = [save EXCEPT ![s] = [stage |-> "deleting", items |-> items, discardable |-> {u}]]
         /\ device' = Append(device, RemoveCall(s, u))
  BY DEF SavePayloads, RemoveCall
<1>5. /\ save'[s].stage \in {"done", "encrypting", "deleting"} /\ \A t \in SaveId : t # s => save'[t] = save[t]
      /\ save'[s].stage = "done" => save'[s].items = {} /\ save'[s].discardable = {}
      /\ save'[s].stage = "encrypting" => save'[s].discardable = {}
  <2>1. save[s].items = {} /\ save[s].discardable = {}
    BY <1>2 DEF OrderInv, OnDisk
  <2>2. CASE save' = [save EXCEPT ![s].stage = "done"]
    BY <1>0, <2>1, <2>2 DEF SaveRecord
  <2>3. CASE save' = [save EXCEPT ![s] = [stage |-> "encrypting", items |-> items, discardable |-> {}]]
    BY <1>0, <2>3
  <2>4. CASE \E u \in discardable :
               save' = [save EXCEPT ![s] = [stage |-> "deleting", items |-> items, discardable |-> {u}]]
    BY <1>0, <2>4
  <2> QED BY <1>4, <2>2, <2>3, <2>4
<1>6. HandedOver(save', passed')
  <2> SUFFICES ASSUME NEW r \in SaveId, NEW t \in SaveId, save'[r].stage # "none", t < r, t \notin passed'[r]
               PROVE  save'[t].stage \notin {"deleting", "encrypting"}
    BY DEF HandedOver
  <2>1. CASE r = s
    <3>1. t # s
      BY <2>1
    <3> QED BY <1>3, <1>5, <2>1, <3>1 DEF Unwritten
  <2>2. CASE r # s
    <3>1. save[r].stage # "none" /\ r < s
      BY <1>2, <1>5, <2>2
    <3>2. t # s
      BY <3>1
    <3> QED BY <1>3, <1>5, <2>2, <3>1, <3>2 DEF OrderInv, HandedOver
  <2> QED BY <2>1, <2>2
<1>7. \A x \in DeviceCall : x \in Range(device) /\ ForSave(x) => x.id \in SaveId /\ x.id < s
  <2> SUFFICES ASSUME NEW x \in DeviceCall, x \in Range(device), ForSave(x) PROVE x.id \in SaveId /\ x.id < s
    OBVIOUS
  <2>1. CASE x.op = "savePayloads"
    BY <1>0, <1>2, <2>1, CallForms DEF SaveQueues
  <2>2. CASE x.op = "removePayload"
    BY <1>0, <1>2, <2>2, CallForms DEF SaveQueues
  <2> QED BY <2>1, <2>2 DEF ForSave
<1>7a. \A t \in SaveId : t < s => t # s /\ s >= t
  OBVIOUS
<1>8. \A x, y \in DeviceCall : <<x, y>> \in Before(device) => x \in Range(device) /\ y \in Range(device)
  BY DEF Before
<1>9. DeviceOrder(passed, device) => DeviceOrder(passed', device)
  BY <1>3, <1>7, <1>7a, <1>8 DEF DeviceOrder, After
<1>10. \A t \in SaveId : Acted(save', t) => t # s /\ Acted(save, t) /\ save[t].stage # "none"
  BY <1>5 DEF Acted
<1>11. ActedFirst(save', passed', device)
  BY <1>3, <1>10 DEF OrderInv, ActedFirst, After
<1>12. DeviceOrder(passed', device') /\ ActedFirst(save', passed', device')
  <2>1. CASE UNCHANGED device
    BY <1>9, <1>11, <2>1 DEF OrderInv
  <2>2. ASSUME NEW u \in discardable, device' = Append(device, RemoveCall(s, u))
        PROVE  DeviceOrder(passed', device') /\ ActedFirst(save', passed', device')
    <3>1. RemoveCall(s, u) \in DeviceCall /\ RemoveCall(s, u).id = s
      BY CallTypes
    <3>2. /\ Range(device') = Range(device) \cup {RemoveCall(s, u)}
          /\ Before(device') \subseteq Before(device) \cup (Range(device) \X {RemoveCall(s, u)})
      BY <1>0, <2>2, <3>1, DeviceAppend
    <3>3. \A t \in SaveId : t < s => After(passed', s, t)
      BY <1>7a DEF After
    <3>4. DeviceOrder(passed', device')
      BY <1>7, <1>9, <3>1, <3>2, <3>3 DEF OrderInv, DeviceOrder
    <3>5. ActedFirst(save', passed', device')
      BY <1>2, <1>10, <1>11, <3>1, <3>2, <3>3 DEF ActedFirst
    <3> QED BY <3>4, <3>5
  <2> QED BY <1>4, <2>1, <2>2
<1>13. OnDisk(save', passed', diskPayloads')
  <2>1. ASSUME NEW t \in SaveId, save'[t].stage = "done", NEW u \in save'[t].items \cup save'[t].discardable
        PROVE  After(passed', diskPayloads'[u].by, t)
    <3>1. t # s /\ save[t].stage = "done" /\ u \in save[t].items \cup save[t].discardable
      BY <1>5, <2>1
    <3> QED BY <1>1, <1>3, <3>1 DEF OrderInv, OnDisk, After
  <2>2. ASSUME NEW t \in SaveId, save'[t].stage \in {"encrypting", "writing"}, NEW u \in save'[t].discardable
        PROVE  After(passed', diskPayloads'[u].by, t)
    <3>1. t # s /\ save[t].stage \in {"encrypting", "writing"} /\ u \in save[t].discardable
      BY <1>5, <2>2
    <3> QED BY <1>1, <1>3, <3>1 DEF OrderInv, OnDisk, After
  <2>3. \A t \in SaveId : save'[t].stage = "none" => save'[t].items = {} /\ save'[t].discardable = {}
    BY <1>5 DEF OrderInv, OnDisk
  <2> QED BY <2>1, <2>2, <2>3 DEF OnDisk
<1> QED BY <1>6, <1>12, <1>13 DEF OrderInv

(* After a restart nothing is under way.                                   *)
LEMMA OrderRestart == ASSUME BaseInv, OrderInv, Restart PROVE OrderInv'
<1>0. save \in [SaveId -> SaveRecord] /\ device' = <<>>
  BY BaseFacts DEF Restart
<1>1. /\ diskPayloads' = diskPayloads
      /\ \A s \in SaveId : /\ save'[s].items = save[s].items /\ save'[s].discardable = save[s].discardable
                           /\ save'[s].stage \in {"none", "done", "lost"}
                           /\ save'[s].stage # "lost" => save[s].stage = save'[s].stage
                           /\ save'[s].stage = "done" => passed'[s] = passed[s]
  BY <1>0 DEF Restart, diskVars, SaveRecord
<1>2. HandedOver(save', passed')
  BY <1>1 DEF HandedOver
<1>3. DeviceOrder(passed', device') /\ ActedFirst(save', passed', device')
  BY <1>0, MovedNothing DEF DeviceOrder, ActedFirst
<1>4. OnDisk(save', passed', diskPayloads')
  BY <1>1 DEF OrderInv, OnDisk, After
<1> QED BY <1>2, <1>3, <1>4 DEF OrderInv

LEMMA OrderInit == ASSUME Init PROVE OrderInv
<1>1. device = <<>> /\ \A s \in SaveId : save[s].stage = "none" /\ save[s].items = {} /\ save[s].discardable = {}
  BY DEF Init
<1> QED BY <1>1, MovedNothing DEF OrderInv, HandedOver, DeviceOrder, ActedFirst, Acted, OnDisk

LEMMA OrderNext == ASSUME BaseInv, OrderInv, [Next]_vars PROVE OrderInv'
<1>1. ASSUME NEW n \in 1 .. 2, SetValues(n) PROVE OrderInv'
  BY <1>1, BaseSetValues, OrderQuiet DEF SetValues, history
<1>2. ASSUME NEW s \in SaveId, NEW b \in Batches, SavePayloads(s, b.items, b.discardable) PROVE OrderInv'
  <2>1. b.items \in SUBSET Item /\ b.discardable \in SUBSET Item
    OBVIOUS
  <2> QED BY <1>2, <2>1, OrderSavePayloads
<1>3. CASE Launched
  BY <1>3, BaseLaunched, OrderQuiet DEF Launched, history
<1>4. CASE SwitchToEphemeral
  BY <1>4, BaseSwitch, OrderQuiet DEF SwitchToEphemeral
<1>5. CASE ClearAllData
  BY <1>5, BaseClearAllData, OrderQuiet DEF ClearAllData
<1>6. CASE PersistEncrypted
  BY <1>6, BasePersistEncrypted, OrderQuiet DEF PersistEncrypted, history
<1>7. ASSUME NEW s \in SaveId, SaveEncrypted(s) PROVE OrderInv'
  BY <1>7, OrderSaveEncrypted
<1>8. CASE EncryptionFails
  BY <1>8, BaseEncryptionFails, OrderQuiet DEF EncryptionFails, history
<1>9. CASE ValuesWritten
  BY <1>9, BaseValuesWritten, OrderQuiet DEF ValuesWritten, history
<1>10. CASE PayloadsWritten
  BY <1>10, OrderPayloadsWritten
<1>11. CASE PayloadRemoved
  BY <1>11, OrderPayloadRemoved
<1>12. CASE AllPayloadsRemoved \/ AllValuesRemoved
  BY <1>12, BaseErase, OrderQuiet DEF AllPayloadsRemoved, AllValuesRemoved, history
<1>13. CASE WriteFails
  BY <1>13, BaseWriteFails, OrderQuiet DEF WriteFails, history
<1>14. CASE PrepareForDeinit \/ Deinit \/ UNCHANGED vars
  BY <1>14, BaseStatus, OrderQuiet DEF PrepareForDeinit, Deinit, vars, history
<1>15. CASE Restart
  BY <1>15, OrderRestart
<1> QED BY <1>1, <1>2, <1>3, <1>4, <1>5, <1>6, <1>7, <1>8, <1>9, <1>10, <1>11, <1>12, <1>13, <1>14, <1>15
        DEF Next, EncryptionEnds, DeviceAnswers

(* What a resolved save has written or deleted is on disk, or the work of  *)
(* a later save is, or that of one which was not yet handed to the device  *)
(* when the save was called: saves overtake each other only until then     *)
(* (savePayloads).                                                         *)
THEOREM DiskStorageResolvedSaveIsNotReverted == Spec => []ResolvedSaveIsNotReverted
<1>1. Init => BaseInv /\ OrderInv
  BY BaseInit, OrderInit
<1>2. BaseInv /\ OrderInv /\ [Next]_vars => (BaseInv /\ OrderInv)'
  BY BaseNext, OrderNext
<1>3. OrderInv => ResolvedSaveIsNotReverted
  BY DEF OrderInv, OnDisk, After, ResolvedSaveIsNotReverted
<1> QED BY <1>1, <1>2, <1>3, PTL DEF Spec


-----------------------------------------------------------------------------
(* How a step moves the persists: one that has taken its copy keeps it,    *)
(* those of P go on, and what starts to encrypt has the latest version.    *)
Latest(ps, version) == {Enc(p) : p \in {q \in Persist : ps[q].snap = version}}

Onward(P) ==
  /\ \A p \in Persist : persist[p].stage \notin Fresh =>
       /\ persist'[p].stage \notin Fresh /\ persist'[p].snap = persist[p].snap
       /\ p \notin P => persist'[p] = persist[p]
  /\ Moved(crypto, crypto', Latest(persist', latest'))

LEMMA BegunLatest ==
  ASSUME NEW ps, NEW ps2, NEW queue \in Seq(Entry), NEW queue2, NEW Q, NEW version,
         Begun(ps, ps2, queue, queue2, Q, version)
  PROVE  /\ Moved(queue, queue2, Latest(ps2, version))
         /\ \A p \in Persist : ps[p].stage \notin Fresh => ps2[p] = ps[p]
<1>1. Encrypting(version).snap = version
  BY DEF Encrypting
<1>2. Q \in SUBSET Persist /\ \A p \in Q : ps2[p].snap = version
  BY <1>1 DEF Begun
<1>3. {Enc(p) : p \in Q} \subseteq Latest(ps2, version)
  BY <1>2 DEF Latest
<1>4. Moved(queue, queue2, {Enc(p) : p \in Q})
  BY BegunQueue
<1>5. Moved(queue, queue2, Latest(ps2, version))
  BY <1>3, <1>4 DEF Moved
<1>6. \A p \in Persist : ps[p].stage \notin Fresh => ps2[p] = ps[p]
  BY DEF Begun
<1> QED BY <1>5, <1>6

LEMMA BegunOnward ==
  ASSUME NEW Q, NEW version, crypto \in Seq(Entry), Begun(persist, persist', crypto, crypto', Q, version),
         latest' = version
  PROVE  Onward({})
<1>1. /\ Moved(crypto, crypto', Latest(persist', version))
      /\ \A p \in Persist : persist[p].stage \notin Fresh => persist'[p] = persist[p]
  BY BegunLatest
<1> QED BY <1>1 DEF Onward

LEMMA StartedIs ==
  ASSUME NEW ps, NEW P, NEW version
  PROVE  Started(ps, P, version) = [p \in Persist |-> IF p \in P THEN Encrypting(version) ELSE ps[p]]
BY DEF Started, Encrypting

LEMMA StartedOnward ==
  ASSUME BaseInv, NEW P \in SUBSET Persist, \A p \in P : persist[p].stage \in Fresh, NEW version \in Nat,
         persist' = Started(persist, P, version), crypto' = crypto \o InOrder(P), latest' = version
  PROVE  Onward({})
<1>0. persist \in [Persist -> PersistRecord] /\ crypto \in Seq(Entry)
  BY BaseFacts
<1>1. persist' = [p \in Persist |-> IF p \in P THEN Encrypting(version) ELSE persist[p]]
  BY StartedIs, Zenon
<1>2. Encrypting(version) \in PersistRecord
  BY DEF Encrypting, PersistRecord
<1>3. /\ persist' \in [Persist -> PersistRecord]
      /\ \A p \in P : persist'[p] = Encrypting(version)
      /\ \A p \in Persist \ P : persist'[p] = persist[p]
  BY <1>0, <1>1, <1>2
<1>4. Begun(persist, persist', crypto, crypto', P, version)
  BY <1>3 DEF Begun
<1> QED BY <1>0, <1>4, BegunOnward

LEMMA SettleOnward ==
  ASSUME BaseInv, NEW p \in Persist, persist[p].stage \in {"encrypting", "writing"}, NEW result \in {"done", "failed"},
         NEW queue \in Seq(Entry), Moved(crypto, queue, {}), Settle(p, result, queue), latest' = latest
  PROVE  /\ Onward({p}) /\ persist'[p].stage = result
         /\ Moved(queue, crypto', Latest(persist', latest'))
<1> DEFINE ps == [persist EXCEPT ![p].stage = result]
<1>0. /\ TypeOK /\ values = latest /\ persist \in [Persist -> PersistRecord]
  BY BaseFacts DEF Current
<1>1. PICK Q \in SUBSET {q \in Persist : persist[q].stage = "waiting"} : Begun(ps, persist', queue, crypto', Q, values)
  BY <1>0, SettleBegins
<1>2. /\ ps[p].stage = result /\ ps[p].snap = persist[p].snap
      /\ \A q \in Persist : q # p => ps[q] = persist[q]
  BY <1>0 DEF PersistRecord
<1> HIDE DEF ps
<1>3. /\ Moved(queue, crypto', Latest(persist', values))
      /\ \A q \in Persist : ps[q].stage \notin Fresh => persist'[q] = ps[q]
  BY <1>1, BegunLatest
<1>4. persist'[p] = ps[p]
  BY <1>2, <1>3 DEF Fresh
<1>5. Moved(crypto, crypto', Latest(persist', latest')) /\ Moved(queue, crypto', Latest(persist', latest'))
  BY <1>0, <1>3 DEF Moved
<1>6. result \notin Fresh
  BY DEF Fresh
<1> QED BY <1>2, <1>3, <1>4, <1>5, <1>6 DEF Onward

LEMMA OnwardSetValues == ASSUME BaseInv, NEW n \in 1 .. 2, SetValues(n) PROVE Onward({})
<1> DEFINE P == NewPersists(n)
           version == latest + 1
<1>0. TypeOK /\ FirstUsed(persist) /\ FirstUsed(save) /\ latest \in Nat /\ crypto \in Seq(Entry) /\ n \in Nat
  BY BaseFacts
<1>1. latest' = version /\ PersistValues(P, version) /\ version \in Nat
  BY <1>0 DEF SetValues
<1>2. P \in SUBSET Persist /\ \A p \in P : persist[p].stage = "none"
  BY <1>0, NewPersistsOf
<1> HIDE DEF P, version
<1>3. \E Q \in SUBSET P : Begun(persist, persist', crypto, crypto', Q, version)
  BY <1>0, <1>1, <1>2, PersistValuesBegins
<1> QED BY <1>0, <1>1, <1>3, BegunOnward

LEMMA OnwardSame ==
  ASSUME UNCHANGED <<persist, crypto>> PROVE Onward({})
<1>1. Moved(crypto, crypto', Latest(persist', latest'))
  BY MovedSame
<1> QED BY <1>1 DEF Onward

LEMMA OnwardLaunched == ASSUME BaseInv, Launched PROVE Onward({})
<1> DEFINE P == NewPersists(1)
<1>0. TypeOK /\ FirstUsed(persist) /\ FirstUsed(save) /\ latest \in Nat /\ Current
  BY BaseFacts
<1>1. P \in SUBSET Persist /\ \A p \in P : persist[p].stage = "none"
  BY <1>0, NewPersistsOf
<1>2. CASE needsPersist /\ ~ephemeral
  <2>1. /\ persist' = Started(persist, P, values) /\ crypto' = crypto \o InOrder(P) /\ latest' = values
        /\ values \in Nat
    BY <1>0, <1>2 DEF Launched, Current
  <2>2. \A p \in P : persist[p].stage \in Fresh
    BY <1>1 DEF Fresh
  <2> HIDE DEF P
  <2> QED BY <1>1, <2>1, <2>2, StartedOnward
<1>3. CASE ~(needsPersist /\ ~ephemeral)
  <2>1. UNCHANGED <<persist, crypto>>
    BY <1>3 DEF Launched
  <2> QED BY <2>1, OnwardSame
<1> QED BY <1>2, <1>3

LEMMA ClearBegins ==
  ASSUME BaseInv, ClearAllData
  PROVE  /\ Onward({}) /\ clearing.at = "no"
         /\ clearing' = [at |-> "values", by |-> clearing'.by, saves |-> SavesUsed]
         /\ clearing'.by \in Persist /\ persist[clearing'.by].stage = "none"
         /\ persist'[clearing'.by].stage = "encrypting" /\ persist'[clearing'.by].snap = latest'
         /\ crypto' = Append(crypto, Enc(clearing'.by))
         /\ spared' = [spared EXCEPT !["clear"] = Unwritten]
         /\ UNCHANGED <<needsPersist, statusVars, save, switching, device, diskVars, passed, abandoned>>
<1>0. /\ TypeOK /\ FirstUsed(persist) /\ FirstUsed(save) /\ latest \in Nat /\ crypto \in Seq(Entry)
      /\ persist \in [Persist -> PersistRecord]
  BY BaseFacts
<1> DEFINE version == latest + 1
<1>1. PICK p \in NewPersists(1) :
        /\ spared' = [spared EXCEPT !["clear"] = Unwritten]
        /\ clearing.at = "no"
        /\ latest' = version
        /\ persist' = Started(persist, {p}, version)
        /\ crypto' = Append(crypto, p)
        /\ clearing' = [at |-> "values", by |-> p, saves |-> SavesUsed]
        /\ UNCHANGED <<needsPersist, statusVars, save, switching, device, diskVars, passed, abandoned>>
  BY DEF ClearAllData
<1>2. p \in Persist /\ persist[p].stage = "none"
  BY <1>0, NewPersistsOf
<1> DEFINE Q == {p}
<1>3. /\ crypto' = crypto \o InOrder(Q) /\ persist' = Started(persist, Q, version)
      /\ version \in Nat /\ Q \in SUBSET Persist /\ \A q \in Q : persist[q].stage \in Fresh
  <2>1. crypto' = crypto \o InOrder(Q)
    BY <1>0, <1>1, <1>2, OneEncryption
  <2>2. persist' = Started(persist, Q, version)
    BY <1>1, Zenon
  <2>3. version \in Nat /\ Q \in SUBSET Persist /\ \A q \in Q : persist[q].stage \in Fresh
    BY <1>0, <1>2 DEF Fresh
  <2> QED BY <2>1, <2>2, <2>3
<1>4. Started(persist, Q, version)[p] = Encrypting(version)
  BY <1>2, StartedIs
<1>5. clearing'.by = p
  BY <1>1
<1>6. Encrypting(version).stage = "encrypting" /\ Encrypting(version).snap = version
  BY DEF Encrypting
<1> HIDE DEF Q, version
<1>7. Onward({})
  BY <1>1, <1>3, StartedOnward
<1>8. persist'[p] = Encrypting(version)
  BY <1>3, <1>4, Zenon
<1> QED BY <1>1, <1>2, <1>5, <1>6, <1>7, <1>8 DEF Enc

(* What the head of each queue stands for.                                 *)
LEMMA PersistHead ==
  ASSUME BaseInv, crypto # <<>>
  PROVE  /\ Head(crypto) \in Persist /\ Head(crypto) = Enc(Head(crypto)) /\ Head(crypto) \in Range(crypto)
         /\ persist[Head(crypto)].stage = "encrypting"
         /\ Tail(crypto) \in Seq(Entry) /\ Moved(crypto, Tail(crypto), {})
         /\ \A e \in Range(Tail(crypto)) : <<Enc(Head(crypto)), e>> \in Before(crypto)
<1>0. crypto \in Seq(Entry) /\ PersistQueues(persist, crypto, device, diskValues)
  BY BaseFacts
<1> DEFINE p == Head(crypto)
<1>1. p \in Persist /\ Head(crypto) = Enc(p) /\ Tail(crypto) \in Seq(Entry) /\ Head(crypto) \in Range(crypto)
  BY <1>0, HeadOf
<1>2. Moved(crypto, Tail(crypto), {}) /\ \A e \in Range(Tail(crypto)) : <<Head(crypto), e>> \in Before(crypto)
  BY <1>0, MovedTail
<1> HIDE DEF p
<1>3. persist[p].stage = "encrypting"
  BY <1>0, <1>1 DEF PersistQueues
<1> QED BY <1>1, <1>2, <1>3 DEF p

LEMMA DeviceHead ==
  ASSUME BaseInv, device # <<>>
  PROVE  /\ Head(device) = Call /\ Call \in Range(device) /\ Call \in DeviceCall
         /\ Tail(device) \in Seq(DeviceCall) /\ Moved(device, Tail(device), {})
         /\ \A x \in Range(Tail(device)) : <<Call, x>> \in Before(device)
         /\ Call.op = "setValues" => Call.id \in Persist /\ persist[Call.id].stage = "writing"
<1>0. device \in Seq(DeviceCall) /\ PersistQueues(persist, crypto, device, diskValues)
  BY BaseFacts
<1>1. Head(device) \in Range(device) /\ Tail(device) \in Seq(DeviceCall) /\ Head(device) \in DeviceCall
  BY <1>0, MovedTail
<1>2. Moved(device, Tail(device), {}) /\ \A x \in Range(Tail(device)) : <<Head(device), x>> \in Before(device)
  BY <1>0, MovedTail
<1>3. Head(device) = Call
  BY DEF Call
<1> DEFINE p == Call.id
<1>4. Call.op = "setValues" => p \in Persist /\ Call = SetCall(p)
  BY <1>0, CallOf
<1> HIDE DEF p
<1>5. Call.op = "setValues" => p \in Persist /\ persist[p].stage = "writing"
  BY <1>0, <1>1, <1>3, <1>4 DEF PersistQueues
<1> QED BY <1>1, <1>2, <1>3, <1>5 DEF p

LEMMA OnwardPersistEncrypted ==
  ASSUME BaseInv, PersistEncrypted
  PROVE  /\ Onward({Head(crypto)}) /\ Moved(Tail(crypto), crypto', Latest(persist', latest'))
         /\ \/ /\ persist'[Head(crypto)].stage = "done" /\ (ephemeral \/ dealloced)
               /\ clearing' = ClearAfter(Head(crypto), "payloads")
               /\ device' = CallsAfter(Head(crypto), device)
            \/ /\ persist'[Head(crypto)].stage = "writing" /\ ~ephemeral /\ clearing' = clearing
               /\ device' = Append(device, SetCall(Head(crypto)))
<1> DEFINE p == Head(crypto)
           queue == Tail(crypto)
<1>1. /\ p \in Persist /\ persist[p].stage = "encrypting" /\ queue \in Seq(Entry) /\ Moved(crypto, queue, {})
      /\ persist \in [Persist -> PersistRecord] /\ latest' = latest
  BY PersistHead, BaseFacts DEF PersistEncrypted
<1>2. CASE ephemeral \/ dealloced
  <2>1. /\ Settle(p, "done", queue) /\ clearing' = ClearAfter(p, "payloads") /\ device' = CallsAfter(p, device)
    BY <1>2 DEF PersistEncrypted, PolicySuddenlyChanged
  <2> HIDE DEF p, queue
  <2>2. persist[p].stage \in {"encrypting", "writing"}
    BY <1>1
  <2>3. Onward({p}) /\ persist'[p].stage = "done" /\ Moved(queue, crypto', Latest(persist', latest'))
    BY <1>1, <2>1, <2>2, SettleOnward
  <2> QED BY <1>2, <2>1, <2>3 DEF p, queue
<1>3. CASE ~(ephemeral \/ dealloced)
  <2>1. /\ persist' = [persist EXCEPT ![p].stage = "writing"] /\ device' = Append(device, SetCall(p))
        /\ crypto' = queue /\ clearing' = clearing
    BY <1>3 DEF PersistEncrypted, PolicySuddenlyChanged, SetCall
  <2> HIDE DEF p, queue
  <2>2. /\ persist'[p].stage = "writing" /\ persist'[p].snap = persist[p].snap
        /\ \A q \in Persist : q # p => persist'[q] = persist[q]
    BY <1>1, <2>1 DEF PersistRecord
  <2>3. Moved(queue, crypto', Latest(persist', latest')) /\ Moved(crypto, crypto', Latest(persist', latest'))
    BY <1>1, <2>1 DEF Moved
  <2>4. Onward({p})
    BY <2>2, <2>3 DEF Onward, Fresh
  <2> QED BY <1>3, <2>1, <2>2, <2>3, <2>4 DEF p, queue
<1> QED BY <1>2, <1>3

LEMMA OnwardValuesWritten ==
  ASSUME BaseInv, ValuesWritten
  PROVE  Onward({Call.id}) /\ persist'[Call.id].stage = "done"
<1> DEFINE p == Call.id
<1>1. Settle(p, "done", crypto) /\ device # <<>> /\ Call.op = "setValues" /\ latest' = latest
  BY DEF ValuesWritten
<1>2. p \in Persist /\ persist[p].stage = "writing" /\ crypto \in Seq(Entry) /\ Moved(crypto, crypto, {})
  BY <1>1, DeviceHead, BaseFacts, MovedSame
<1> HIDE DEF p
<1> QED BY <1>1, <1>2, SettleOnward DEF p

LEMMA OnwardEncryptionFails ==
  ASSUME BaseInv, EncryptionFails
  PROVE  \/ /\ crypto # <<>> /\ Onward({Head(crypto)}) /\ persist'[Head(crypto)].stage = "failed"
            /\ clearing' = ClearAfter(Head(crypto), "failed") /\ save' = save
         \/ /\ Onward({}) /\ UNCHANGED <<clearing, persist>>
            /\ \E s \in SaveId : save[s].stage = "encrypting" /\ save' = [save EXCEPT ![s].stage = "failed"]
<1>1. latest' = latest
  BY DEF EncryptionFails
<1>2. CASE /\ crypto # <<>> /\ Settle(Head(crypto), "failed", Tail(crypto))
           /\ clearing' = ClearAfter(Head(crypto), "failed") /\ save' = save
  <2> DEFINE p == Head(crypto)
             queue == Tail(crypto)
  <2>1. Settle(p, "failed", queue)
    BY <1>2
  <2>2. p \in Persist /\ persist[p].stage = "encrypting" /\ queue \in Seq(Entry) /\ Moved(crypto, queue, {})
    BY <1>2, PersistHead
  <2> HIDE DEF p, queue
  <2>3. Onward({p}) /\ persist'[p].stage = "failed"
    BY <1>1, <2>1, <2>2, SettleOnward
  <2> QED BY <1>2, <2>3 DEF p
<1>3. CASE \E s \in SaveId :
             /\ save[s].stage = "encrypting" /\ save' = [save EXCEPT ![s].stage = "failed"]
             /\ UNCHANGED <<persist, currentPersist, needsPersist, crypto, clearing>>
  BY <1>3, OnwardSame
<1> QED BY <1>2, <1>3 DEF EncryptionFails

LEMMA OnwardWriteFails ==
  ASSUME BaseInv, WriteFails
  PROVE  \/ /\ Call.op = "setValues" /\ Onward({Call.id}) /\ persist'[Call.id].stage = "failed"
            /\ clearing' = ClearAfter(Call.id, "failed") /\ save' = save
         \/ /\ Call.op = "savePayloads" /\ Onward({}) /\ UNCHANGED <<clearing, persist>>
            /\ save' = [save EXCEPT ![Call.id].stage = "rejected"]
<1>1. latest' = latest /\ device # <<>>
  BY DEF WriteFails
<1>2. CASE /\ Call.op = "setValues" /\ Settle(Call.id, "failed", crypto)
           /\ clearing' = ClearAfter(Call.id, "failed") /\ save' = save
  <2> DEFINE p == Call.id
  <2>1. Settle(p, "failed", crypto)
    BY <1>2
  <2>2. p \in Persist /\ persist[p].stage = "writing" /\ crypto \in Seq(Entry) /\ Moved(crypto, crypto, {})
    BY <1>1, <1>2, DeviceHead, BaseFacts, MovedSame
  <2> HIDE DEF p
  <2>3. Onward({p}) /\ persist'[p].stage = "failed"
    BY <1>1, <2>1, <2>2, SettleOnward
  <2> QED BY <1>2, <2>3 DEF p
<1>3. CASE /\ Call.op = "savePayloads" /\ save' = [save EXCEPT ![Call.id].stage = "rejected"]
           /\ UNCHANGED <<persist, currentPersist, needsPersist, crypto, clearing>>
  BY <1>3, OnwardSame
<1> QED BY <1>2, <1>3 DEF WriteFails

(* How a step moves the saves: none goes back, and what was written stays  *)
(* so.                                                                     *)
Begins == {"none", "deleting", "encrypting"}

SavesOnward ==
  \A s \in SaveId :
    /\ save[s].stage \in {"writing", "rejected"} => save'[s].stage \in {"writing", "rejected", "done"}
    /\ save[s].stage = "done" => save'[s].stage = "done"
    /\ save'[s].stage \in Begins => save[s].stage \in Begins
    /\ save'[s].stage \in {"deleting", "encrypting"} /\ save[s].stage = "none" => ~ephemeral

LEMMA OneSaveOnward ==
  ASSUME NEW s \in SaveId, \A t \in SaveId : t # s => save'[t] = save[t],
         \/ save[s].stage = "none" /\ (ephemeral => save'[s].stage = "done")
         \/ save[s].stage \in {"deleting", "encrypting"}
         \/ save[s].stage = "writing" /\ save'[s].stage \in {"done", "rejected"}
  PROVE  SavesOnward
BY DEF SavesOnward, Begins

LEMMA SaveHead ==
  ASSUME BaseInv, device # <<>>
  PROVE  /\ Call.op = "savePayloads"
              => Call.id \in SaveId /\ Call = SaveCall(Call.id) /\ save[Call.id].stage = "writing"
         /\ Call.op = "removePayload"
              => Call.id \in SaveId /\ Call.item \in Item /\ save[Call.id].stage = "deleting"
<1>0. device \in Seq(DeviceCall) /\ SaveQueues(save, device)
  BY BaseFacts
<1>2. ASSUME Call.op = "savePayloads"
      PROVE  Call.id \in SaveId /\ Call = SaveCall(Call.id) /\ save[Call.id].stage = "writing"
  <2> DEFINE s == Call.id
  <2>1. s \in SaveId /\ Call = SaveCall(s) /\ Call \in Range(device)
    BY <1>0, <1>2, CallOf, DeviceHead
  <2> HIDE DEF s
  <2>2. save[s].stage = "writing"
    BY <1>0, <2>1 DEF SaveQueues
  <2> QED BY <2>1, <2>2 DEF s
<1>3. ASSUME Call.op = "removePayload"
      PROVE  Call.id \in SaveId /\ Call.item \in Item /\ save[Call.id].stage = "deleting"
  <2> DEFINE s == Call.id
             u == Call.item
  <2>1. s \in SaveId /\ u \in Item /\ Call = RemoveCall(s, u) /\ Call \in Range(device)
    BY <1>0, <1>3, CallOf, DeviceHead
  <2> HIDE DEF s, u
  <2>2. save[s].stage = "deleting"
    BY <1>0, <2>1 DEF SaveQueues
  <2> QED BY <2>1, <2>2 DEF s, u
<1> QED BY <1>2, <1>3

LEMMA SaveChanged ==
  ASSUME BaseInv, NEW s \in SaveId, NEW stage, save' = [save EXCEPT ![s].stage = stage]
  PROVE  /\ save'[s].stage = stage /\ save'[s].items = save[s].items
         /\ \A t \in SaveId : t # s => save'[t] = save[t]
<1>1. save \in [SaveId -> SaveRecord]
  BY BaseFacts
<1> QED BY <1>1 DEF SaveRecord

LEMMA SavesOnwardOf ==
  ASSUME BaseInv,
         \/ UNCHANGED save
         \/ \E s \in SaveId : SaveEncrypted(s)
         \/ EncryptionFails \/ PayloadsWritten \/ PayloadRemoved \/ WriteFails
         \/ \E s \in SaveId, items \in SUBSET Item, discardable \in SUBSET Item : SavePayloads(s, items, discardable)
  PROVE  SavesOnward
<1>0. /\ save \in [SaveId -> SaveRecord] /\ TypeOK /\ FirstUsed(persist) /\ FirstUsed(save)
  BY BaseFacts
<1>2. ASSUME UNCHANGED save PROVE SavesOnward
  BY <1>2 DEF SavesOnward
<1>3. ASSUME NEW s \in SaveId, save[s].stage = "encrypting", NEW stage, save' = [save EXCEPT ![s].stage = stage]
      PROVE  SavesOnward
  <2>1. \A t \in SaveId : t # s => save'[t] = save[t]
    BY <1>3, SaveChanged
  <2> QED BY <1>3, <2>1, OneSaveOnward
<1>3a. ASSUME NEW s \in SaveId, SaveEncrypted(s) PROVE SavesOnward
  <2>1. save[s].stage = "encrypting" /\ \E stage \in {"dropped", "writing"} : save' = [save EXCEPT ![s].stage = stage]
    BY <1>3a DEF SaveEncrypted
  <2> QED BY <1>3, <2>1
<1>3b. CASE EncryptionFails
  BY <1>2, <1>3, <1>3b, OnwardEncryptionFails
<1>4. ASSUME device # <<>>, Call.op = "savePayloads", NEW stage \in {"done", "rejected"},
             save' = [save EXCEPT ![Call.id].stage = stage]
      PROVE  SavesOnward
  <2> DEFINE s == Call.id
  <2>1. s \in SaveId /\ save[s].stage = "writing" /\ save' = [save EXCEPT ![s].stage = stage]
    BY <1>4, SaveHead
  <2> HIDE DEF s
  <2>2. save'[s].stage \in {"done", "rejected"} /\ \A t \in SaveId : t # s => save'[t] = save[t]
    BY <2>1, SaveChanged
  <2> QED BY <2>1, <2>2, OneSaveOnward
<1>4a. CASE PayloadsWritten
  BY <1>4, <1>4a DEF PayloadsWritten
<1>4b. CASE WriteFails
  <2>1. device # <<>> /\ (UNCHANGED save \/ (Call.op = "savePayloads" /\ save' = [save EXCEPT ![Call.id].stage = "rejected"]))
    BY <1>4b DEF WriteFails
  <2> QED BY <1>2, <1>4, <2>1
<1>5. CASE PayloadRemoved
  <2> DEFINE s == Call.id
  <2>1. save' = [save EXCEPT ![s].stage = "encrypting"] /\ s \in SaveId /\ save[s].stage = "deleting"
    BY <1>5, SaveHead DEF PayloadRemoved
  <2> HIDE DEF s
  <2>2. \A t \in SaveId : t # s => save'[t] = save[t]
    BY <2>1, SaveChanged
  <2> QED BY <2>1, <2>2, OneSaveOnward
<1>6. ASSUME NEW s \in SaveId, NEW items \in SUBSET Item, NEW discardable \in SUBSET Item,
             SavePayloads(s, items, discardable)
      PROVE  SavesOnward
  <2>1. s = SavesUsed + 1
    BY <1>6 DEF SavePayloads
  <2>2. save[s].stage = "none"
    BY <1>0, <2>1, NextSave
  <2>3. \A t \in SaveId : t # s => save'[t] = save[t]
    BY <1>0, <1>6 DEF SavePayloads
  <2>4. ephemeral => save'[s].stage = "done"
    <3>1. ephemeral => save' = [save EXCEPT ![s].stage = "done"]
      BY <1>6 DEF SavePayloads
    <3> QED BY <3>1, SaveChanged
  <2> QED BY <2>2, <2>3, <2>4, OneSaveOnward
<1> QED BY <1>2, <1>3a, <1>3b, <1>4a, <1>4b, <1>5, <1>6

-----------------------------------------------------------------------------
(* clearAllData.  Its persist, clearing.by, writes the values without      *)
(* anything in them; clearing.saves is the last save made before it.  What *)
(* is encrypted after that persist is newer than it, and so are the device *)
(* calls made after that persist is written, but for the saves that were   *)
(* not yet handed to the device (spared); once the payloads are removed    *)
(* there are no others.                                                    *)
ClearPayloads  == EraseCall("removePayloads", "clear")
ClearValues    == EraseCall("removeValues", "clear")
SwitchPayloads == EraseCall("removePayloads", "switch")
SwitchValues   == EraseCall("removeValues", "switch")

NewEncs(by, ps) == {Enc(p) : p \in {q \in Persist : ps[by].snap <= ps[q].snap}}

NewCalls(by, S, ps) == {x \in DeviceCall : /\ x.op = "setValues" => ps[by].snap <= ps[x.id].snap
                                           /\ x.op = "savePayloads" => x.id \in S}

(* The saves that the clearing need not have undone.                       *)
Later == {s \in SaveId : clearing.saves < s} \cup spared["clear"]

ValuesCleared == clearing.at \in {"payloads", "remove", "done"}

Encrypted == \/ ValuesCleared
             \/ clearing.at = "values" /\ persist[clearing.by].stage # "encrypting"

ClearKnown ==
  clearing.at # "no" =>
    /\ clearing.by \in Persist /\ persist[clearing.by].stage \notin Fresh
    /\ \A s \in SaveId : save[s].stage \in Begins => s \in Later

ClearCrypto ==
  /\ clearing.at = "values" /\ persist[clearing.by].stage = "encrypting" =>
       \A e \in Range(crypto) : <<Enc(clearing.by), e>> \in Before(crypto)
                                  => e \in NewEncs(clearing.by, persist)
  /\ Encrypted => Range(crypto) \subseteq NewEncs(clearing.by, persist)

ClearCalls ==
  /\ ClearPayloads \in Range(device) => clearing.at = "payloads"
  /\ ClearValues \in Range(device) => clearing.at = "remove"
  /\ <<ClearPayloads, ClearPayloads>> \notin Before(device)
  /\ <<ClearValues, ClearValues>> \notin Before(device)
  /\ \A x \in Range(device) : <<ClearPayloads, x>> \in Before(device)
                                => x \in NewCalls(clearing.by, Later, persist)
  /\ clearing.at \in {"remove", "done"} => Range(device) \subseteq NewCalls(clearing.by, Later, persist)

ClearDisk ==
  /\ clearing.at \in {"remove", "done"} =>
       \A u \in Item : diskPayloads[u].there => diskPayloads[u].by \in Later
  /\ clearing.at = "done" => (hasValues => persist[clearing.by].snap <= diskValues)

ClearInv == ClearKnown /\ ClearCrypto /\ ClearCalls /\ ClearDisk

(* A step that starts no clearing.                                         *)
SameClearing == clearing'.saves = clearing.saves /\ spared'["clear"] = spared["clear"]

LEMMA LaterSame == ASSUME SameClearing PROVE Later' = Later
BY DEF SameClearing, Later

(* What a step adds to the encryptions is new.                             *)
Copies == \A p \in Persist : persist[p].stage \notin Fresh =>
            persist'[p].stage \notin Fresh /\ persist'[p].snap = persist[p].snap

NewEntries == Latest(persist', latest')

LEMMA OnwardCopies ==
  ASSUME NEW P, Onward(P) PROVE Copies /\ Moved(crypto, crypto', NewEntries)
BY DEF Onward, Copies, NewEntries

LEMMA CallsOf ==
  ASSUME NEW by, NEW S, NEW ps
  PROVE  /\ \A p \in Persist : SetCall(p) \in NewCalls(by, S, ps) <=> ps[by].snap <= ps[p].snap
         /\ \A s \in SaveId : SaveCall(s) \in NewCalls(by, S, ps) <=> s \in S
         /\ \A s \in SaveId, u \in Item : RemoveCall(s, u) \in NewCalls(by, S, ps)
         /\ \A o \in {"removeValues", "removePayloads"}, f \in {"clear", "switch"} :
              EraseCall(o, f) \in NewCalls(by, S, ps)
<1>1. \A p \in Persist : SetCall(p) \in NewCalls(by, S, ps) <=> ps[by].snap <= ps[p].snap
  BY CallTypes DEF NewCalls
<1>2. \A s \in SaveId : SaveCall(s) \in NewCalls(by, S, ps) <=> s \in S
  BY CallTypes DEF NewCalls
<1>3. \A s \in SaveId, u \in Item : RemoveCall(s, u) \in NewCalls(by, S, ps)
  BY CallTypes DEF NewCalls
<1>4. \A o \in {"removeValues", "removePayloads"}, f \in {"clear", "switch"} : EraseCall(o, f) \in NewCalls(by, S, ps)
  BY CallTypes DEF NewCalls
<1> QED BY <1>1, <1>2, <1>3, <1>4

LEMMA EncsOf ==
  ASSUME NEW by, NEW ps
  PROVE  \A p \in Persist : Enc(p) \in NewEncs(by, ps) <=> ps[by].snap <= ps[p].snap
BY EncIs DEF NewEncs

LEMMA StaysNew ==
  ASSUME BaseInv, Copies, NEW by \in Persist, persist[by].stage \notin Fresh, NEW S
  PROVE  /\ \A e \in Range(crypto) : e \in NewEncs(by, persist) => e \in NewEncs(by, persist')
         /\ \A x \in Range(device) : x \in NewCalls(by, S, persist) => x \in NewCalls(by, S, persist')
<1>0. /\ device \in Seq(DeviceCall) /\ PersistQueues(persist, crypto, device, diskValues)
      /\ persist'[by].snap = persist[by].snap
  BY BaseFacts DEF Copies
<1>1. ASSUME NEW e \in Range(crypto), e \in NewEncs(by, persist) PROVE e \in NewEncs(by, persist')
  <2>1. PICK p \in Persist : e = Enc(p)
    BY <1>1 DEF NewEncs
  <2>2. persist[by].snap <= persist[p].snap
    BY <1>1, <2>1, EncsOf
  <2>3. persist[p].stage \notin Fresh
    BY <1>0, <2>1 DEF PersistQueues, Fresh
  <2>4. persist'[p].snap = persist[p].snap
    BY <2>3 DEF Copies
  <2>5. persist'[by].snap <= persist'[p].snap
    BY <1>0, <2>2, <2>4
  <2> QED BY <2>1, <2>5, EncsOf
<1>2. ASSUME NEW x \in Range(device), x \in NewCalls(by, S, persist) PROVE x \in NewCalls(by, S, persist')
  <2>1. x \in DeviceCall /\ (x.op = "setValues" => persist[by].snap <= persist[x.id].snap)
        /\ (x.op = "savePayloads" => x.id \in S)
    BY <1>2 DEF NewCalls
  <2>2. ASSUME x.op = "setValues" PROVE persist'[by].snap <= persist'[x.id].snap
    <3> DEFINE p == x.id
    <3>1. p \in Persist /\ x = SetCall(p)
      BY <2>1, <2>2, CallForms
    <3>2. persist[by].snap <= persist[p].snap
      BY <2>1, <2>2
    <3> HIDE DEF p
    <3>3. persist[p].stage \notin Fresh
      BY <1>0, <1>2, <3>1 DEF PersistQueues, Fresh
    <3>4. persist'[p].snap = persist[p].snap
      BY <3>1, <3>3 DEF Copies
    <3>5. persist'[by].snap <= persist'[p].snap
      BY <1>0, <3>2, <3>4
    <3> QED BY <3>5 DEF p
  <2> QED BY <2>1, <2>2 DEF NewCalls
<1> QED BY <1>1, <1>2

(* While clearAllData is under way, what a step starts to encrypt is new.  *)
LEMMA EntriesAreNew ==
  ASSUME BaseInv', ClearKnown, clearing.at # "no"
  PROVE  NewEntries \subseteq NewEncs(clearing.by, persist')
<1> DEFINE by == clearing.by
<1>1. by \in Persist /\ persist'[by].snap <= latest'
  BY DEF ClearKnown, BaseInv, TypeInv, Snaps
<1> HIDE DEF by
<1>2. Latest(persist', latest') \subseteq NewEncs(by, persist')
  BY <1>1 DEF Latest, NewEncs
<1> QED BY <1>2 DEF NewEntries, by

LEMMA ClearCryptoStep ==
  ASSUME BaseInv, BaseInv', ClearKnown, ClearCrypto, Copies, SavesOnward, Moved(crypto, crypto', NewEntries),
         clearing.at # "no", clearing'.by = clearing.by, SameClearing,
         clearing'.at = "values" => clearing.at = "values",
         Encrypted' => \/ Encrypted
                       \/ Range(crypto') \subseteq NewEncs(clearing.by, persist')
  PROVE  ClearKnown' /\ ClearCrypto'
<1> DEFINE by == clearing.by
           old == NewEncs(by, persist)
           new == NewEncs(by, persist')
<1>1. /\ by \in Persist /\ persist[by].stage \notin Fresh
      /\ \A s \in SaveId : save[s].stage \in Begins => s \in Later
      /\ clearing'.by = by /\ Later' = Later
  BY LaterSame DEF ClearKnown
<1>2. ClearKnown'
  BY <1>1 DEF ClearKnown, Copies, SavesOnward
<1>3. NewEntries \subseteq new /\ \A e \in Range(crypto) : e \in old => e \in new
  BY <1>1, EntriesAreNew, StaysNew
<1>4. /\ clearing.at = "values" /\ persist[by].stage = "encrypting" =>
           \A e \in Range(crypto) : <<Enc(by), e>> \in Before(crypto) => e \in old
      /\ Encrypted => Range(crypto) \subseteq old
  BY DEF ClearCrypto
<1>4a. Encrypted' => Encrypted \/ Range(crypto') \subseteq new
  OBVIOUS
<1>4b. persist[by].stage = "encrypting" \/ (clearing.at = "values" => Encrypted)
  BY DEF Encrypted
<1> HIDE DEF by, old, new
<1>5. ASSUME clearing.at = "values", NEW e \in Range(crypto'), <<Enc(by), e>> \in Before(crypto')
      PROVE  e \in new
  <2>1. CASE e \in NewEntries
    BY <1>3, <2>1
  <2>2. CASE e \notin NewEntries
    <3>1. <<Enc(by), e>> \in Before(crypto) /\ e \in Range(crypto)
      BY <1>5, <2>2 DEF Moved
    <3>2. e \in old
      BY <1>4, <1>4b, <1>5, <3>1
    <3> QED BY <1>3, <3>1, <3>2
  <2> QED BY <2>1, <2>2
<1>6. ASSUME Encrypted' PROVE Range(crypto') \subseteq new
  <2>1. CASE Encrypted
    BY <1>3, <1>4, <2>1 DEF Moved
  <2> QED BY <1>4a, <1>6, <2>1
<1>7. ClearCrypto'
  BY <1>1, <1>5, <1>6 DEF ClearCrypto, by, new
<1> QED BY <1>2, <1>7

(* The steps that leave clearAllData where it is.                          *)
LEMMA ClearCallsSame ==
  ASSUME BaseInv, ClearKnown, ClearCalls, clearing' = clearing, SameClearing, Copies,
         NEW T, Moved(device, device', T), ClearPayloads \notin T, ClearValues \notin T,
         ValuesCleared => T \subseteq NewCalls(clearing.by, Later, persist')
  PROVE  ClearCalls'
<1> DEFINE by == clearing.by
           low == Later
           old == NewCalls(by, low, persist)
           new == NewCalls(by, low, persist')
<1>1. /\ ClearPayloads \in Range(device') => ClearPayloads \in Range(device) /\ clearing.at = "payloads"
      /\ ClearValues \in Range(device') => clearing.at = "remove"
      /\ <<ClearPayloads, ClearPayloads>> \notin Before(device')
      /\ <<ClearValues, ClearValues>> \notin Before(device')
  BY DEF ClearCalls, Moved
<1>2. clearing.at # "no" => \A x \in Range(device) : x \in old => x \in new
  BY StaysNew DEF ClearKnown
<1>3. ValuesCleared => T \subseteq new
  OBVIOUS
<1>4. /\ \A x \in Range(device) : <<ClearPayloads, x>> \in Before(device) => x \in old
      /\ clearing.at \in {"remove", "done"} => Range(device) \subseteq old
  BY DEF ClearCalls
<1>7. clearing' = clearing /\ Later' = Later
  BY LaterSame
<1> HIDE DEF by, low, old, new
<1>5. ASSUME NEW x \in Range(device'), <<ClearPayloads, x>> \in Before(device') PROVE x \in new
  <2>1. ClearPayloads \in Range(device')
    BY <1>5 DEF Before
  <2>2. clearing.at = "payloads" /\ ValuesCleared
    BY <1>1, <2>1 DEF ValuesCleared
  <2>3. CASE x \in T
    BY <1>3, <2>2, <2>3
  <2>4. CASE x \notin T
    <3>1. <<ClearPayloads, x>> \in Before(device) /\ x \in Range(device)
      BY <1>5, <2>4 DEF Moved
    <3> QED BY <1>2, <1>4, <2>2, <3>1
  <2> QED BY <2>3, <2>4
<1>6. ASSUME clearing.at \in {"remove", "done"} PROVE Range(device') \subseteq new
  <2>1. ValuesCleared /\ clearing.at # "no"
    BY <1>6 DEF ValuesCleared
  <2> QED BY <1>2, <1>3, <1>4, <1>6, <2>1 DEF Moved
<1> QED BY <1>1, <1>5, <1>6, <1>7 DEF ClearCalls, by, low, new

LEMMA ClearDiskSame ==
  ASSUME ClearKnown, ClearDisk, clearing' = clearing, SameClearing, Copies, UNCHANGED <<diskPayloads, hasValues, diskValues>>
  PROVE  ClearDisk'
<1>1. clearing.at # "no" => persist'[clearing.by].snap = persist[clearing.by].snap
  BY DEF ClearKnown, Copies
<1> QED BY <1>1, LaterSame DEF ClearDisk

LEMMA ClearFrame ==
  ASSUME BaseInv, BaseInv', ClearInv, clearing' = clearing, SameClearing, Copies, SavesOnward, Moved(crypto, crypto', NewEntries),
         NEW T, Moved(device, device', T), ClearPayloads \notin T, ClearValues \notin T,
         ValuesCleared => T \subseteq NewCalls(clearing.by, Later, persist'),
         Encrypted' => \/ clearing.at = "no" \/ Encrypted
                       \/ Range(crypto') \subseteq NewEncs(clearing.by, persist'),
         ClearDisk'
  PROVE  ClearInv'
<1>1. ClearKnown /\ ClearCrypto /\ ClearCalls
  BY DEF ClearInv
<1>2. ClearCalls'
  BY <1>1, ClearCallsSame
<1>3. CASE clearing.at = "no"
  BY <1>2, <1>3 DEF ClearInv, ClearKnown, ClearCrypto, Encrypted, ValuesCleared
<1>4. CASE clearing.at # "no"
  <2>1. /\ clearing'.by = clearing.by /\ SameClearing
        /\ clearing'.at = "values" => clearing.at = "values"
        /\ Encrypted' => Encrypted \/ Range(crypto') \subseteq NewEncs(clearing.by, persist')
    BY <1>4
  <2>2. ClearKnown' /\ ClearCrypto'
    BY <1>1, <1>4, <2>1, ClearCryptoStep
  <2> QED BY <1>2, <2>2 DEF ClearInv
<1> QED BY <1>3, <1>4

(* A persist that does not move does not let clearAllData go on.           *)
LEMMA EncryptedSame ==
  ASSUME ClearKnown, clearing' = clearing, NEW P, Onward(P), clearing.at = "values" => clearing.by \notin P
  PROVE  Encrypted' => clearing.at = "no" \/ Encrypted
<1>1. clearing.at = "values" => persist'[clearing.by] = persist[clearing.by]
  BY DEF ClearKnown, Onward
<1> QED BY <1>1 DEF Encrypted, ValuesCleared

LEMMA ClearOnward ==
  ASSUME BaseInv, BaseInv', ClearInv, clearing' = clearing, SameClearing, NEW P, Onward(P),
         clearing.at = "values" => clearing.by \notin P, SavesOnward,
         NEW T, Moved(device, device', T), ClearPayloads \notin T, ClearValues \notin T,
         ValuesCleared => T \subseteq NewCalls(clearing.by, Later, persist'), ClearDisk'
  PROVE  ClearInv'
<1>1. Copies /\ Moved(crypto, crypto', NewEntries)
  BY OnwardCopies
<1>2. Encrypted' => clearing.at = "no" \/ Encrypted
  BY EncryptedSame DEF ClearInv
<1> QED BY <1>1, <1>2, ClearFrame

(* Neither the device nor the disk is touched.                             *)
LEMMA ClearQuiet ==
  ASSUME BaseInv, BaseInv', ClearInv, clearing' = clearing, SameClearing, Onward({}), SavesOnward,
         UNCHANGED <<device, diskPayloads, hasValues, diskValues>>
  PROVE  ClearInv'
<1>1. Moved(device, device', {})
  BY MovedSame
<1>2. Copies
  BY OnwardCopies
<1>3. ClearDisk'
  BY <1>2, ClearDiskSame DEF ClearInv
<1>4. clearing.at = "values" => clearing.by \notin {}
  OBVIOUS
<1> QED BY <1>1, <1>3, <1>4, ClearOnward

LEMMA MarksDiffer ==
  /\ \A p : SetCall(p) # ClearPayloads /\ SetCall(p) # ClearValues
  /\ \A p : SetCall(p) # SwitchPayloads /\ SetCall(p) # SwitchValues
  /\ \A s : SaveCall(s) # ClearPayloads /\ SaveCall(s) # ClearValues
  /\ \A s : SaveCall(s) # SwitchPayloads /\ SaveCall(s) # SwitchValues
  /\ \A s, u : RemoveCall(s, u) # ClearPayloads /\ RemoveCall(s, u) # ClearValues
  /\ \A s, u : RemoveCall(s, u) # SwitchPayloads /\ RemoveCall(s, u) # SwitchValues
  /\ SwitchPayloads # ClearPayloads /\ SwitchPayloads # ClearValues
  /\ SwitchValues # ClearPayloads /\ SwitchValues # ClearValues
  /\ ClearPayloads # ClearValues /\ SwitchPayloads # SwitchValues
<1>1. \A o, f : EraseCall(o, f).op = o /\ EraseCall(o, f).for = f
  BY DEF EraseCall
<1> QED BY <1>1, EraseIsNoWrite DEF ClearPayloads, ClearValues, SwitchPayloads, SwitchValues

LEMMA MarkTypes == {ClearPayloads, ClearValues, SwitchPayloads, SwitchValues} \subseteq DeviceCall
BY CallTypes DEF ClearPayloads, ClearValues, SwitchPayloads, SwitchValues

LEMMA MarksAreNew ==
  ASSUME NEW by, NEW low, NEW ps
  PROVE  {ClearPayloads, ClearValues, SwitchPayloads, SwitchValues} \subseteq NewCalls(by, low, ps)
BY CallsOf DEF ClearPayloads, ClearValues, SwitchPayloads, SwitchValues

LEMMA NoClearing == ASSUME clearing' = clearing, spared' = spared PROVE SameClearing
BY DEF SameClearing

LEMMA ClearSetValues == ASSUME BaseInv, BaseInv', ClearInv, NEW n \in 1 .. 2, SetValues(n) PROVE ClearInv'
<1>1. Onward({})
  BY OnwardSetValues
<1>2. clearing' = clearing /\ UNCHANGED <<save, device, diskPayloads, hasValues, diskValues>>
  BY DEF SetValues, diskVars
<1>3. SameClearing
  BY NoClearing DEF SetValues, history
<1> QED BY <1>1, <1>2, <1>3, SavesOnwardOf, ClearQuiet

LEMMA ClearLaunched == ASSUME BaseInv, BaseInv', ClearInv, Launched PROVE ClearInv'
<1>1. Onward({})
  BY OnwardLaunched
<1>2. clearing' = clearing /\ UNCHANGED <<save, device, diskPayloads, hasValues, diskValues>>
  BY DEF Launched, diskVars
<1>3. SameClearing
  BY NoClearing DEF Launched, history
<1> QED BY <1>1, <1>2, <1>3, SavesOnwardOf, ClearQuiet

LEMMA ClearStatus ==
  ASSUME BaseInv, BaseInv', ClearInv, PrepareForDeinit \/ Deinit \/ UNCHANGED vars PROVE ClearInv'
<1>1. UNCHANGED <<persist, crypto, clearing, save, device, diskPayloads, hasValues, diskValues>>
  BY DEF PrepareForDeinit, Deinit, vars, valueVars, diskVars
<1>2. SameClearing
  BY <1>1, NoClearing DEF PrepareForDeinit, Deinit, vars, history
<1> QED BY <1>1, <1>2, OnwardSame, SavesOnwardOf, ClearQuiet

LEMMA ClearSwitch == ASSUME BaseInv, BaseInv', ClearInv, SwitchToEphemeral PROVE ClearInv'
<1>0. device \in Seq(DeviceCall)
  BY BaseFacts
<1>1. /\ UNCHANGED <<persist, crypto, clearing, save, diskPayloads, hasValues, diskValues>>
      /\ device' = Append(device, SwitchValues)
  BY DEF SwitchToEphemeral, valueVars, diskVars, SwitchValues, EraseCall
<1>1a. SameClearing
  <2>1. spared \in [{"clear", "switch"} -> SUBSET SaveId] /\ spared' = [spared EXCEPT !["switch"] = Unwritten]
    BY BaseFacts DEF TypeOK, SwitchToEphemeral
  <2> QED BY <1>1, <2>1 DEF SameClearing
<1> DEFINE T == {SwitchValues}
<1>2. ClearPayloads \notin T /\ ClearValues \notin T /\ T \subseteq NewCalls(clearing.by, Later, persist')
  BY MarksDiffer, MarksAreNew
<1>3. SwitchValues \in DeviceCall
  BY MarkTypes
<1>4. Moved(device, device', T)
  BY <1>0, <1>1, <1>3, DeviceAppend
<1> HIDE DEF T
<1>5. Onward({}) /\ SavesOnward /\ (clearing.at = "values" => clearing.by \notin {})
  BY <1>1, OnwardSame, SavesOnwardOf
<1>6. Copies
  BY <1>5, OnwardCopies
<1>7. ClearDisk'
  BY <1>1, <1>1a, <1>6, ClearDiskSame DEF ClearInv
<1> QED BY <1>1, <1>1a, <1>2, <1>4, <1>5, <1>7, ClearOnward

LEMMA ClearClearAllData ==
  ASSUME BaseInv, BaseInv', ClearInv, ClearAllData PROVE ClearInv'
<1> DEFINE p == clearing'.by
<1>0. /\ TypeOK /\ FirstUsed(persist) /\ FirstUsed(save) /\ crypto \in Seq(Entry)
      /\ PersistQueues(persist, crypto, device, diskValues)
  BY BaseFacts
<1>1. /\ clearing.at = "no" /\ clearing'.at = "values" /\ clearing'.saves = SavesUsed
      /\ p \in Persist /\ persist[p].stage = "none" /\ persist'[p].stage = "encrypting"
      /\ crypto' = Append(crypto, Enc(p)) /\ spared'["clear"] = Unwritten
      /\ UNCHANGED <<save, device>>
  <2>1. clearing' = [at |-> "values", by |-> clearing'.by, saves |-> SavesUsed]
    BY ClearBegins
  <2>2. clearing'.at = "values" /\ clearing'.saves = SavesUsed
    <3> DEFINE q == clearing'.by
    <3>1. clearing' = [at |-> "values", by |-> q, saves |-> SavesUsed]
      BY <2>1
    <3> HIDE DEF q
    <3> QED BY <3>1
  <2>3. spared'["clear"] = Unwritten
    <3>1. spared \in [{"clear", "switch"} -> SUBSET SaveId] /\ spared' = [spared EXCEPT !["clear"] = Unwritten]
      BY <1>0, ClearBegins DEF TypeOK
    <3> QED BY <3>1
  <2> QED BY <2>2, <2>3, ClearBegins
<1> HIDE DEF p
<1>2. ClearKnown'
  <2>1. \A s \in SaveId : save[s].stage \in Begins => s \in Later'
    <3>1. SavesUsed \in Nat /\ \A s \in SaveId : save[s].stage # "none" <=> s <= SavesUsed
      BY <1>0, NewNumbers
    <3>2. \A s \in SaveId : save[s].stage = "none" => clearing'.saves < s
      BY <1>1, <3>1
    <3>3. \A s \in SaveId : save[s].stage \in {"deleting", "encrypting"} => s \in Unwritten
      BY DEF Unwritten
    <3> QED BY <1>1, <3>2, <3>3 DEF Later, Begins
  <2>2. p = clearing'.by
    BY DEF p
  <2>3. persist'[p].stage \notin Fresh
    BY <1>1 DEF Fresh
  <2> QED BY <1>1, <2>1, <2>2, <2>3 DEF ClearKnown
<1>3. ClearCrypto'
  <2>1. Enc(p) \notin Range(crypto)
    BY <1>0, <1>1 DEF PersistQueues
  <2>2. Enc(p) \in Entry
    BY <1>1 DEF Entry, Enc
  <2>3. Before(crypto') \subseteq Before(crypto) \cup (Range(crypto) \X {Enc(p)})
    BY <1>0, <1>1, <2>2, EntryAppend
  <2>4. \A e : <<Enc(p), e>> \notin Before(crypto')
    BY <2>1, <2>3 DEF Before
  <2>5. p = clearing'.by
    BY DEF p
  <2> QED BY <1>1, <2>4, <2>5 DEF ClearCrypto, Encrypted, ValuesCleared
<1>4. ClearCalls'
  <2>1. ClearPayloads \notin Range(device) /\ ClearValues \notin Range(device)
    BY <1>1 DEF ClearInv, ClearCalls
  <2>2. \A x : <<ClearPayloads, x>> \notin Before(device) /\ <<ClearValues, x>> \notin Before(device)
    BY <2>1 DEF Before
  <2> QED BY <1>1, <2>1, <2>2 DEF ClearCalls
<1>5. ClearDisk'
  BY <1>1 DEF ClearDisk
<1> QED BY <1>2, <1>3, <1>4, <1>5 DEF ClearInv

(* The steps of a save: the persists do not move.                          *)
LEMMA ClearSaveStep ==
  ASSUME BaseInv, BaseInv', ClearInv, clearing' = clearing, SameClearing, UNCHANGED <<persist, crypto>>, SavesOnward,
         NEW T, Moved(device, device', T), ClearPayloads \notin T, ClearValues \notin T,
         ValuesCleared => T \subseteq NewCalls(clearing.by, Later, persist), ClearDisk'
  PROVE  ClearInv'
<1>1. Copies /\ Moved(crypto, crypto', NewEntries)
  BY OnwardSame, OnwardCopies
<1>2. Encrypted' => clearing.at = "no" \/ Encrypted
  BY DEF Encrypted, ValuesCleared
<1>3. ValuesCleared => T \subseteq NewCalls(clearing.by, Later, persist')
  OBVIOUS
<1> QED BY <1>1, <1>2, <1>3, ClearFrame

LEMMA ClearSavePayloads ==
  ASSUME BaseInv, BaseInv', ClearInv, NEW s \in SaveId, NEW items \in SUBSET Item, NEW discardable \in SUBSET Item,
         SavePayloads(s, items, discardable)
  PROVE  ClearInv'
<1>0. device \in Seq(DeviceCall)
  BY BaseFacts
<1>1. /\ clearing' = clearing /\ UNCHANGED <<persist, crypto>>
      /\ UNCHANGED <<diskPayloads, hasValues, diskValues, spared>>
  BY DEF SavePayloads, valueVars, diskVars
<1>2. SavesOnward /\ SameClearing
  BY <1>1, SavesOnwardOf, NoClearing
<1>4. ClearDisk'
  <2>1. Copies
    BY <1>1 DEF Copies
  <2> QED BY <1>1, <1>2, <2>1, ClearDiskSame DEF ClearInv
<1>7. CASE UNCHANGED device
  <2>1. Moved(device, device', {})
    BY <1>7, MovedSame
  <2> QED BY <1>1, <1>2, <1>4, <2>1, ClearSaveStep
<1>8. CASE ~UNCHANGED device
  <2>1. PICK u \in Item : device' = Append(device, RemoveCall(s, u))
    BY <1>8 DEF SavePayloads, RemoveCall
  <2> DEFINE e == RemoveCall(s, u)
  <2>2. e \in DeviceCall /\ e # ClearPayloads /\ e # ClearValues /\ e \in NewCalls(clearing.by, Later, persist)
    BY CallTypes, MarksDiffer, CallsOf
  <2>3. device' = Append(device, e)
    BY <2>1
  <2> HIDE DEF e
  <2>4. Moved(device, device', {e})
    BY <1>0, <2>2, <2>3, DeviceAppend
  <2>5. ClearPayloads \notin {e} /\ ClearValues \notin {e} /\ {e} \subseteq NewCalls(clearing.by, Later, persist)
    BY <2>2
  <2> QED BY <1>1, <1>2, <1>4, <2>4, <2>5, ClearSaveStep
<1> QED BY <1>7, <1>8

LEMMA ClearSaveEncrypted == ASSUME BaseInv, BaseInv', ClearInv, NEW s \in SaveId, SaveEncrypted(s) PROVE ClearInv'
<1>0. device \in Seq(DeviceCall)
  BY BaseFacts
<1>1. /\ clearing' = clearing /\ UNCHANGED <<persist, crypto, diskPayloads, hasValues, diskValues, spared>>
      /\ save[s].stage = "encrypting" /\ (device' = device \/ device' = Append(device, SaveCall(s)))
  BY DEF SaveEncrypted, valueVars, diskVars, history, SaveCall
<1>2. SavesOnward /\ SameClearing
  BY <1>1, SavesOnwardOf, NoClearing
<1>4. ClearDisk'
  <2>1. Copies
    BY <1>1 DEF Copies
  <2> QED BY <1>1, <1>2, <2>1, ClearDiskSame DEF ClearInv
<1>6. ValuesCleared => SaveCall(s) \in NewCalls(clearing.by, Later, persist)
  <2> SUFFICES ASSUME ValuesCleared PROVE SaveCall(s) \in NewCalls(clearing.by, Later, persist)
    OBVIOUS
  <2>1. s \in Later
    BY <1>1 DEF ClearInv, ClearKnown, ValuesCleared, Begins
  <2> QED BY <2>1, CallsOf
<1>7. CASE device' = device
  <2>1. Moved(device, device', {})
    BY <1>7, MovedSame
  <2> QED BY <1>1, <1>2, <1>4, <2>1, ClearSaveStep
<1>8. CASE device' = Append(device, SaveCall(s))
  <2> DEFINE e == SaveCall(s)
  <2>1. e \in DeviceCall /\ e # ClearPayloads /\ e # ClearValues
    BY CallTypes, MarksDiffer
  <2>2. device' = Append(device, e) /\ (ValuesCleared => e \in NewCalls(clearing.by, Later, persist))
    BY <1>6, <1>8
  <2> HIDE DEF e
  <2>3. Moved(device, device', {e})
    BY <1>0, <2>1, <2>2, DeviceAppend
  <2>4. /\ ClearPayloads \notin {e} /\ ClearValues \notin {e}
        /\ ValuesCleared => {e} \subseteq NewCalls(clearing.by, Later, persist)
    BY <2>1, <2>2
  <2> QED BY <1>1, <1>2, <1>4, <2>3, <2>4, ClearSaveStep
<1> QED BY <1>1, <1>7, <1>8

LEMMA ClearPayloadsWritten == ASSUME BaseInv, BaseInv', ClearInv, PayloadsWritten PROVE ClearInv'
<1> DEFINE s == Call.id
<1>1. /\ clearing' = clearing /\ UNCHANGED <<persist, crypto, hasValues, diskValues, spared>>
      /\ device # <<>> /\ device' = Tail(device) /\ Call.op = "savePayloads"
      /\ diskPayloads' = [u \in Item |-> IF u \in save[s].items THEN [by |-> s, there |-> TRUE] ELSE diskPayloads[u]]
  BY DEF PayloadsWritten, valueVars, history
<1>2. SavesOnward /\ SameClearing
  BY <1>1, SavesOnwardOf, NoClearing
<1>2a. Later' = Later
  BY <1>2, LaterSame
<1>3. s \in SaveId /\ SaveCall(s) \in Range(device) /\ Moved(device, device', {})
  <2>1. s \in SaveId /\ Call = SaveCall(s) /\ Call \in Range(device) /\ Moved(device, Tail(device), {})
    BY <1>1, SaveHead, DeviceHead
  <2> HIDE DEF s
  <2> QED BY <1>1, <2>1
<1> HIDE DEF s
<1>4. clearing.at \in {"remove", "done"} => s \in Later
  <2> SUFFICES ASSUME clearing.at \in {"remove", "done"} PROVE s \in Later
    OBVIOUS
  <2>1. SaveCall(s) \in NewCalls(clearing.by, Later, persist)
    BY <1>3 DEF ClearInv, ClearCalls
  <2> QED BY <1>3, <2>1, CallsOf
<1>5. ClearDisk'
  <2>1. \A u \in Item : diskPayloads'[u].there => diskPayloads'[u].by = s \/ diskPayloads'[u] = diskPayloads[u]
    BY <1>1
  <2>2. clearing.at \in {"remove", "done"} => \A u \in Item : diskPayloads'[u].there => diskPayloads'[u].by \in Later
    BY <1>4, <2>1 DEF ClearInv, ClearDisk
  <2>3. clearing.at = "done" => (hasValues => persist[clearing.by].snap <= diskValues)
    BY DEF ClearInv, ClearDisk
  <2> QED BY <1>1, <1>2a, <2>2, <2>3 DEF ClearDisk
<1> QED BY <1>1, <1>2, <1>3, <1>5, ClearSaveStep

LEMMA ClearPayloadRemoved == ASSUME BaseInv, BaseInv', ClearInv, PayloadRemoved PROVE ClearInv'
<1> DEFINE s == Call.id
           w == Call.item
<1>0. TypeOK
  BY BaseFacts
<1>1. /\ clearing' = clearing /\ UNCHANGED <<persist, crypto, hasValues, diskValues, spared>>
      /\ device # <<>> /\ device' = Tail(device) /\ Call.op = "removePayload"
      /\ diskPayloads' = [diskPayloads EXCEPT ![w] = [by |-> s, there |-> FALSE]]
  BY DEF PayloadRemoved, valueVars, history
<1>2. SavesOnward /\ SameClearing
  BY <1>1, SavesOnwardOf, NoClearing
<1>2a. Later' = Later
  BY <1>2, LaterSame
<1>3. s \in SaveId /\ w \in Item /\ Moved(device, device', {})
  <2>1. s \in SaveId /\ w \in Item /\ Moved(device, Tail(device), {})
    BY <1>1, SaveHead, DeviceHead
  <2> HIDE DEF s, w
  <2> QED BY <1>1, <2>1
<1> HIDE DEF s, w
<1>5. ClearDisk'
  <2>1. \A u \in Item : diskPayloads'[u].there => diskPayloads'[u] = diskPayloads[u]
    BY <1>0, <1>1, <1>3 DEF TypeOK
  <2>2. clearing.at \in {"remove", "done"} => \A u \in Item : diskPayloads'[u].there => diskPayloads'[u].by \in Later
    BY <2>1 DEF ClearInv, ClearDisk
  <2>3. clearing.at = "done" => (hasValues => persist[clearing.by].snap <= diskValues)
    BY DEF ClearInv, ClearDisk
  <2> QED BY <1>1, <1>2a, <2>2, <2>3 DEF ClearDisk
<1> QED BY <1>1, <1>2, <1>3, <1>5, ClearSaveStep

(* clearAllData goes on, or stops, when its persist settles.               *)
LEMMA ClearAfterIs ==
  ASSUME TypeOK, NEW p, NEW at, NEW calls
  PROVE  /\ ~(clearing.at = "values" /\ clearing.by = p)
              => ClearAfter(p, at) = clearing /\ CallsAfter(p, calls) = calls
         /\ clearing.at = "values" /\ clearing.by = p
              => /\ ClearAfter(p, at).at = (IF dealloced THEN "failed" ELSE at)
                 /\ ClearAfter(p, at).by = clearing.by
                 /\ ClearAfter(p, at).saves = clearing.saves
                 /\ CallsAfter(p, calls) = (IF dealloced THEN calls ELSE Append(calls, ClearPayloads))
<1>1. clearing \in [at : {"no", "values", "payloads", "remove", "done", "failed"},
                    by : Persist \cup {None}, saves : SaveId \cup {None}]
  BY DEF TypeOK
<1> QED BY <1>1 DEF ClearAfter, CallsAfter, ClearedBy, ClearPayloads, EraseCall

LEMMA ClearSettled ==
  ASSUME BaseInv, BaseInv', ClearInv, clearing.at = "values", clearing'.at = "payloads",
         clearing'.by = clearing.by, SameClearing,
         Copies, SavesOnward, Moved(crypto, crypto', NewEntries),
         Range(crypto') \subseteq NewEncs(clearing.by, persist'),
         NEW calls \in Seq(DeviceCall), Moved(device, calls, {}), device' = Append(calls, ClearPayloads)
  PROVE  ClearInv'
<1>1. ClearKnown' /\ ClearCrypto'
  BY ClearCryptoStep DEF ClearInv
<1>2. ClearPayloads \notin Range(device) /\ ClearValues \notin Range(device)
  BY DEF ClearInv, ClearCalls
<1>3. ClearPayloads \notin Range(calls) /\ ClearValues \notin Range(calls)
  BY <1>2 DEF Moved
<1>4. /\ Range(device') = Range(calls) \cup {ClearPayloads}
      /\ Before(device') \subseteq Before(calls) \cup (Range(calls) \X {ClearPayloads})
  BY DeviceAppend, MarkTypes
<1>5. \A x : <<ClearPayloads, x>> \notin Before(device') /\ <<ClearValues, x>> \notin Before(device')
  BY <1>3, <1>4 DEF Before
<1>6. ClearValues \notin Range(device')
  BY <1>3, <1>4, MarksDiffer
<1>7. ClearCalls'
  BY <1>5, <1>6 DEF ClearCalls
<1>8. ClearDisk'
  BY DEF ClearDisk
<1> QED BY <1>1, <1>7, <1>8 DEF ClearInv

LEMMA ClearStops ==
  ASSUME BaseInv, BaseInv', ClearInv, clearing.at # "no", clearing'.at = "failed",
         clearing'.by = clearing.by, SameClearing,
         Copies, SavesOnward, Moved(crypto, crypto', NewEntries),
         ClearPayloads \notin Range(device'), ClearValues \notin Range(device')
  PROVE  ClearInv'
<1>1. ~Encrypted'
  BY DEF Encrypted, ValuesCleared
<1>2. ClearKnown' /\ ClearCrypto'
  BY <1>1, ClearCryptoStep DEF ClearInv
<1>4. \A x : <<ClearPayloads, x>> \notin Before(device') /\ <<ClearValues, x>> \notin Before(device')
  BY DEF Before
<1>5. ClearCalls'
  BY <1>4 DEF ClearCalls
<1>6. ClearDisk'
  BY DEF ClearDisk
<1> QED BY <1>2, <1>5, <1>6 DEF ClearInv

LEMMA ClearPersistEncrypted == ASSUME BaseInv, BaseInv', ClearInv, PersistEncrypted PROVE ClearInv'
<1> DEFINE p == Head(crypto)
           by == clearing.by
           queue == Tail(crypto)
<1>0. TypeOK /\ device \in Seq(DeviceCall) /\ persist \in [Persist -> PersistRecord]
  BY BaseFacts
<1>1. /\ p \in Persist /\ Enc(p) \in Range(crypto)
      /\ \A e \in Range(queue) : <<Enc(p), e>> \in Before(crypto)
      /\ Moved(crypto, queue, {}) /\ persist[p].stage = "encrypting"
  <2>1. Head(crypto) = Enc(p) /\ Head(crypto) \in Range(crypto)
    BY PersistHead DEF PersistEncrypted
  <2> QED BY <2>1, PersistHead DEF PersistEncrypted
<1>2. /\ Onward({p}) /\ Moved(queue, crypto', Latest(persist', latest'))
      /\ \/ /\ persist'[p].stage = "done"
            /\ clearing' = ClearAfter(p, "payloads") /\ device' = CallsAfter(p, device)
         \/ /\ clearing' = clearing /\ device' = Append(device, SetCall(p))
  BY OnwardPersistEncrypted
<1>3. UNCHANGED <<save, diskPayloads, hasValues, diskValues, spared>>
  BY DEF PersistEncrypted, diskVars, history
<1> HIDE DEF p, queue
<1>4. SavesOnward /\ Copies /\ Moved(crypto, crypto', NewEntries)
  BY <1>2, <1>3, SavesOnwardOf, OnwardCopies
<1>5. clearing' = clearing => ClearDisk' /\ SameClearing
  BY <1>3, <1>4, ClearDiskSame, NoClearing DEF ClearInv
<1>6. ASSUME clearing.at = "values", by = p PROVE Range(crypto') \subseteq NewEncs(by, persist')
  <2>1. \A e \in Range(queue) : e \in Range(crypto) /\ e \in NewEncs(by, persist)
    BY <1>1, <1>6 DEF ClearInv, ClearCrypto, Moved
  <2>2. by \in Persist /\ persist[by].stage \notin Fresh /\ clearing.at # "no"
    BY <1>6 DEF ClearInv, ClearKnown
  <2>3. \A e \in Range(crypto) : e \in NewEncs(by, persist) => e \in NewEncs(by, persist')
    <3> HIDE DEF by
    <3> QED BY <1>4, <2>2, StaysNew
  <2>4. NewEntries \subseteq NewEncs(by, persist')
    BY <2>2, EntriesAreNew DEF ClearInv
  <2>5. Range(crypto') \subseteq Range(queue) \cup NewEntries
    BY <1>2 DEF Moved, NewEntries
  <2> QED BY <2>1, <2>3, <2>4, <2>5
<1>7. CASE clearing' = ClearAfter(p, "payloads") /\ device' = CallsAfter(p, device)
  <2>1. CASE clearing.at = "values" /\ by = p
    <3>1. /\ clearing'.at = (IF dealloced THEN "failed" ELSE "payloads") /\ clearing'.by = clearing.by
          /\ clearing'.saves = clearing.saves
          /\ device' = (IF dealloced THEN device ELSE Append(device, ClearPayloads))
      BY <1>0, <1>7, <2>1, ClearAfterIs
    <3>2. Moved(device, device, {}) /\ SameClearing
      BY <1>3, <3>1, MovedSame DEF SameClearing
    <3>3. CASE dealloced
      <4>1. ClearPayloads \notin Range(device') /\ ClearValues \notin Range(device')
        BY <2>1, <3>1, <3>3 DEF ClearInv, ClearCalls
      <4> QED BY <1>4, <2>1, <3>1, <3>2, <3>3, <4>1, ClearStops
    <3>4. CASE ~dealloced
      BY <1>0, <1>4, <1>6, <2>1, <3>1, <3>2, <3>4, ClearSettled
    <3> QED BY <3>3, <3>4
  <2>2. CASE ~(clearing.at = "values" /\ by = p)
    <3>1. clearing' = clearing /\ device' = device
      BY <1>0, <1>7, <2>2, ClearAfterIs
    <3>2. Moved(device, device', {}) /\ (clearing.at = "values" => clearing.by \notin {p})
      BY <2>2, <3>1, MovedSame
    <3>3. ValuesCleared => {} \subseteq NewCalls(clearing.by, Later, persist')
      OBVIOUS
    <3> QED BY <1>2, <1>4, <1>5, <3>1, <3>2, <3>3, ClearOnward
  <2> QED BY <2>1, <2>2
<1>8. CASE clearing' = clearing /\ device' = Append(device, SetCall(p))
  <2> DEFINE e == SetCall(p)
  <2>1. e \in DeviceCall /\ e # ClearPayloads /\ e # ClearValues
    BY <1>1, CallTypes, MarksDiffer
  <2>2. ValuesCleared => e \in NewCalls(clearing.by, Later, persist')
    <3> SUFFICES ASSUME ValuesCleared PROVE e \in NewCalls(clearing.by, Later, persist')
      OBVIOUS
    <3>1. clearing.at # "no" /\ Enc(p) \in NewEncs(clearing.by, persist)
      BY <1>1 DEF ValuesCleared, ClearInv, ClearCrypto, Encrypted
    <3>2. clearing.by \in Persist /\ persist[clearing.by].stage \notin Fresh
      BY <3>1 DEF ClearInv, ClearKnown
    <3>3. Enc(p) \in NewEncs(clearing.by, persist')
      BY <1>1, <1>4, <3>1, <3>2, StaysNew
    <3>4. persist'[clearing.by].snap <= persist'[p].snap
      BY <1>1, <3>3, EncsOf
    <3> QED BY <1>1, <3>4, CallsOf
  <2>3. device' = Append(device, e)
    BY <1>8
  <2> HIDE DEF e
  <2>4. Moved(device, device', {e})
    BY <1>0, <2>1, <2>3, DeviceAppend
  <2>5. ClearPayloads \notin {e} /\ ClearValues \notin {e}
    BY <2>1
  <2>6. ValuesCleared => {e} \subseteq NewCalls(clearing.by, Later, persist')
    BY <2>2
  <2>7. Encrypted' => \/ clearing.at = "no" \/ Encrypted
                      \/ Range(crypto') \subseteq NewEncs(clearing.by, persist')
    <3>1. CASE clearing.at = "values" /\ by = p
      BY <1>6, <3>1
    <3>2. CASE ~(clearing.at = "values" /\ by = p)
      <4>1. clearing.at = "values" => clearing.by \notin {p}
        BY <3>2
      <4> QED BY <1>2, <1>8, <4>1, EncryptedSame DEF ClearInv
    <3> QED BY <3>1, <3>2
  <2> QED BY <1>4, <1>5, <1>8, <2>4, <2>5, <2>6, <2>7, ClearFrame
<1> QED BY <1>2, <1>7, <1>8

LEMMA ClearValuesWritten == ASSUME BaseInv, BaseInv', ClearInv, ValuesWritten PROVE ClearInv'
<1> DEFINE p == Call.id
           calls == Tail(device)
<1>0. TypeOK /\ device \in Seq(DeviceCall)
  BY BaseFacts
<1>1. /\ device # <<>> /\ Call.op = "setValues" /\ diskValues' = persist[p].snap
      /\ clearing' = ClearAfter(p, "payloads") /\ device' = CallsAfter(p, calls)
      /\ UNCHANGED <<save, diskPayloads, spared>>
  BY DEF ValuesWritten, history
<1>2. /\ p \in Persist /\ persist[p].stage = "writing" /\ Call \in Range(device) /\ Call = SetCall(p)
      /\ calls \in Seq(DeviceCall) /\ Moved(device, calls, {})
  BY <1>0, <1>1, DeviceHead, CallOf
<1>3. Onward({p}) /\ SavesOnward
  BY <1>1, OnwardValuesWritten, SavesOnwardOf
<1> HIDE DEF p, calls
<1>4. Copies /\ Moved(crypto, crypto', NewEntries)
  BY <1>3, OnwardCopies
<1>5. CASE clearing.at = "values" /\ clearing.by = p
  <2>1. /\ clearing'.at = (IF dealloced THEN "failed" ELSE "payloads") /\ clearing'.by = clearing.by
        /\ clearing'.saves = clearing.saves
        /\ device' = (IF dealloced THEN calls ELSE Append(calls, ClearPayloads))
    BY <1>0, <1>1, <1>5, ClearAfterIs
  <2>1a. SameClearing
    BY <1>1, <2>1 DEF SameClearing
  <2>2. Encrypted /\ clearing.at # "no"
    BY <1>2, <1>5 DEF Encrypted
  <2>3. Range(crypto') \subseteq NewEncs(clearing.by, persist')
    <3>1. \A e \in Range(crypto) : e \in NewEncs(clearing.by, persist')
      <4>1. clearing.by \in Persist /\ persist[clearing.by].stage \notin Fresh
        BY <2>2 DEF ClearInv, ClearKnown
      <4>2. Range(crypto) \subseteq NewEncs(clearing.by, persist)
        BY <2>2 DEF ClearInv, ClearCrypto
      <4> QED BY <1>4, <4>1, <4>2, StaysNew
    <3>2. NewEntries \subseteq NewEncs(clearing.by, persist')
      BY <2>2, EntriesAreNew DEF ClearInv
    <3> QED BY <1>4, <3>1, <3>2 DEF Moved
  <2>4. CASE dealloced
    <3>1. ClearPayloads \notin Range(device') /\ ClearValues \notin Range(device')
      BY <1>2, <1>5, <2>1, <2>4 DEF ClearInv, ClearCalls, Moved
    <3> QED BY <1>3, <1>4, <1>5, <2>1, <2>1a, <2>4, <3>1, ClearStops
  <2>5. CASE ~dealloced
    BY <1>2, <1>3, <1>4, <1>5, <2>1, <2>1a, <2>3, <2>5, ClearSettled
  <2> QED BY <2>4, <2>5
<1>6. CASE ~(clearing.at = "values" /\ clearing.by = p)
  <2>1. clearing' = clearing /\ device' = calls /\ SameClearing
    BY <1>0, <1>1, <1>6, ClearAfterIs, NoClearing
  <2>1a. Later' = Later
    BY <2>1, LaterSame
  <2>2. Moved(device, device', {}) /\ (clearing.at = "values" => clearing.by \notin {p})
    BY <1>2, <1>6, <2>1
  <2>3. ClearDisk'
    <3>1. ASSUME clearing.at = "done" PROVE persist'[clearing.by].snap <= diskValues'
      <4>1. SetCall(p) \in NewCalls(clearing.by, Later, persist)
        BY <1>2, <3>1 DEF ClearInv, ClearCalls
      <4>2. persist[clearing.by].snap <= persist[p].snap
        BY <1>2, <4>1, CallsOf
      <4>3. clearing.by \in Persist /\ persist[clearing.by].stage \notin Fresh
        BY <3>1 DEF ClearInv, ClearKnown
      <4>4. persist'[clearing.by].snap = persist[clearing.by].snap
        BY <1>4, <4>3 DEF Copies
      <4> QED BY <1>1, <4>2, <4>4
    <3>2. clearing.at \in {"remove", "done"} => \A u \in Item : diskPayloads[u].there => diskPayloads[u].by \in Later
      BY DEF ClearInv, ClearDisk
    <3> QED BY <1>1, <2>1, <2>1a, <3>1, <3>2 DEF ClearDisk
  <2>4. ValuesCleared => {} \subseteq NewCalls(clearing.by, Later, persist')
    OBVIOUS
  <2> QED BY <1>3, <2>1, <2>2, <2>3, <2>4, ClearOnward
<1> QED BY <1>5, <1>6

(* A failed encryption or write, of the persist p or of a save.            *)
LEMMA ClearFailed ==
  ASSUME BaseInv, BaseInv', ClearInv, SavesOnward, NEW p, Onward({p}), clearing' = ClearAfter(p, "failed"),
         Moved(device, device', {}), UNCHANGED <<diskPayloads, hasValues, diskValues, spared>>
  PROVE  ClearInv'
<1>0. TypeOK /\ Copies /\ Moved(crypto, crypto', NewEntries)
  BY BaseFacts, OnwardCopies
<1>1. CASE clearing.at = "values" /\ clearing.by = p
  <2>1. clearing'.at = "failed" /\ clearing'.by = clearing.by /\ clearing'.saves = clearing.saves
    BY <1>0, <1>1, ClearAfterIs
  <2>2. SameClearing
    BY <2>1 DEF SameClearing
  <2>3. ClearPayloads \notin Range(device') /\ ClearValues \notin Range(device')
    BY <1>1 DEF ClearInv, ClearCalls, Moved
  <2> QED BY <1>0, <1>1, <2>1, <2>2, <2>3, ClearStops
<1>2. CASE ~(clearing.at = "values" /\ clearing.by = p)
  <2>1. clearing' = clearing /\ SameClearing
    BY <1>0, <1>2, ClearAfterIs, NoClearing
  <2>2. ClearDisk' /\ (clearing.at = "values" => clearing.by \notin {p})
    BY <1>0, <1>2, <2>1, ClearDiskSame DEF ClearInv
  <2>3. ValuesCleared => {} \subseteq NewCalls(clearing.by, Later, persist')
    OBVIOUS
  <2> QED BY <2>1, <2>2, <2>3, ClearOnward
<1> QED BY <1>1, <1>2

LEMMA ClearSaveFailed ==
  ASSUME BaseInv, BaseInv', ClearInv, SavesOnward, Onward({}), clearing' = clearing, SameClearing,
         Moved(device, device', {}), UNCHANGED <<diskPayloads, hasValues, diskValues>>
  PROVE  ClearInv'
<1>1. Copies
  BY OnwardCopies
<1>2. ClearDisk' /\ (clearing.at = "values" => clearing.by \notin {})
  BY <1>1, ClearDiskSame DEF ClearInv
<1>3. ValuesCleared => {} \subseteq NewCalls(clearing.by, Later, persist')
  OBVIOUS
<1> QED BY <1>2, <1>3, ClearOnward

LEMMA ClearFails == ASSUME BaseInv, BaseInv', ClearInv, EncryptionFails \/ WriteFails PROVE ClearInv'
<1>0. SavesOnward /\ UNCHANGED <<diskPayloads, hasValues, diskValues, spared>>
  BY SavesOnwardOf DEF EncryptionFails, WriteFails, diskVars, history
<1>0a. clearing' = clearing => SameClearing
  BY <1>0, NoClearing
<1>1. CASE EncryptionFails
  <2>1. Moved(device, device', {})
    BY <1>1, MovedSame DEF EncryptionFails
  <2>2. CASE Onward({Head(crypto)}) /\ clearing' = ClearAfter(Head(crypto), "failed")
    <3> DEFINE p == Head(crypto)
    <3>1. Onward({p}) /\ clearing' = ClearAfter(p, "failed")
      BY <2>2
    <3> HIDE DEF p
    <3> QED BY <1>0, <2>1, <3>1, ClearFailed
  <2>3. CASE Onward({}) /\ clearing' = clearing
    BY <1>0, <1>0a, <2>1, <2>3, ClearSaveFailed
  <2> QED BY <1>1, <2>2, <2>3, OnwardEncryptionFails
<1>2. CASE WriteFails
  <2>1. Moved(device, device', {})
    <3>1. device # <<>> /\ device' = Tail(device)
      BY <1>2 DEF WriteFails
    <3>2. Moved(device, Tail(device), {})
      BY <3>1, DeviceHead
    <3> QED BY <3>1, <3>2
  <2>2. CASE Onward({Call.id}) /\ clearing' = ClearAfter(Call.id, "failed")
    <3> DEFINE p == Call.id
    <3>1. Onward({p}) /\ clearing' = ClearAfter(p, "failed")
      BY <2>2
    <3> HIDE DEF p
    <3> QED BY <1>0, <2>1, <3>1, ClearFailed
  <2>3. CASE Onward({}) /\ clearing' = clearing
    BY <1>0, <1>0a, <2>1, <2>3, ClearSaveFailed
  <2> QED BY <1>2, <2>2, <2>3, OnwardWriteFails
<1> QED BY <1>1, <1>2

LEMMA ClearRestart == ASSUME Restart PROVE ClearInv'
<1>1. clearing'.at = "no" /\ device' = <<>> /\ crypto' = <<>>
  BY DEF Restart
<1>2. Range(device') = {} /\ Before(device') = {}
  BY <1>1, MovedNothing
<1> QED BY <1>1, <1>2 DEF ClearInv, ClearKnown, ClearCrypto, ClearCalls, ClearDisk, Encrypted, ValuesCleared

LEMMA EraseSteps ==
  ASSUME BaseInv, AllPayloadsRemoved \/ AllValuesRemoved
  PROVE  /\ device # <<>> /\ UNCHANGED <<persist, crypto, save, diskValues, spared, dealloced>>
         /\ Onward({}) /\ Copies /\ SavesOnward /\ Moved(crypto, crypto', NewEntries)
         /\ Call.for \in {"clear", "switch"}
         /\ AllPayloadsRemoved => Call.op = "removePayloads" /\ Call = EraseCall("removePayloads", Call.for)
         /\ AllValuesRemoved => Call.op = "removeValues" /\ Call = EraseCall("removeValues", Call.for)
<1>1. device # <<>> /\ UNCHANGED <<persist, crypto, save, diskValues, spared, dealloced>> /\ device \in Seq(DeviceCall)
  BY BaseFacts DEF AllPayloadsRemoved, AllValuesRemoved, valueVars, statusVars, history
<1>2. Onward({}) /\ SavesOnward
  BY <1>1, OnwardSame, SavesOnwardOf
<1>3. Copies /\ Moved(crypto, crypto', NewEntries)
  BY <1>2, OnwardCopies
<1>4. /\ AllPayloadsRemoved => Call.op = "removePayloads"
      /\ AllValuesRemoved => Call.op = "removeValues"
  BY DEF AllPayloadsRemoved, AllValuesRemoved
<1>5. Call.op \in {"removeValues", "removePayloads"} => Call.for \in {"clear", "switch"} /\ Call = EraseCall(Call.op, Call.for)
  BY <1>1, CallOf
<1> QED BY <1>1, <1>2, <1>3, <1>4, <1>5

LEMMA ClearPayloadsRemoved == ASSUME BaseInv, BaseInv', ClearInv, AllPayloadsRemoved PROVE ClearInv'
<1> DEFINE calls == Tail(device)
           by == clearing.by
           low == Later
<1>0. /\ TypeOK /\ device # <<>> /\ UNCHANGED <<persist, crypto, save, diskValues, hasValues, spared, dealloced>>
      /\ Onward({}) /\ Copies /\ SavesOnward /\ Moved(crypto, crypto', NewEntries)
      /\ Call.for \in {"clear", "switch"} /\ Call = EraseCall("removePayloads", Call.for)
      /\ \A u \in Item : ~diskPayloads'[u].there
  <2>1. \A u \in Item : [diskPayloads[u] EXCEPT !.there = FALSE].there = FALSE
    BY BaseFacts DEF TypeOK
  <2>2. diskPayloads' = [u \in Item |-> [diskPayloads[u] EXCEPT !.there = FALSE]] /\ UNCHANGED hasValues
    BY DEF AllPayloadsRemoved
  <2>3. \A u \in Item : ~diskPayloads'[u].there
    BY <2>1, <2>2
  <2> QED BY <2>2, <2>3, EraseSteps, BaseFacts
<1>1. /\ Call \in Range(device) /\ calls \in Seq(DeviceCall) /\ Moved(device, calls, {})
      /\ \A x \in Range(calls) : <<Call, x>> \in Before(device)
  BY <1>0, DeviceHead
<1>2. ClearCalls /\ ClearDisk /\ ClearKnown /\ ClearCrypto
  BY DEF ClearInv
<1>3. CASE Call.for = "clear" /\ dealloced
  <2>1. Call = ClearPayloads /\ clearing' = [clearing EXCEPT !.at = "failed"] /\ device' = calls
    BY <1>0, <1>3 DEF AllPayloadsRemoved, ClearPayloads, EraseCall
  <2>2. clearing.at = "payloads" /\ clearing'.at = "failed" /\ clearing'.by = by /\ clearing'.saves = clearing.saves
    BY <1>0, <1>1, <1>2, <2>1 DEF ClearCalls, TypeOK
  <2>3. ClearPayloads \notin Range(device') /\ ClearValues \notin Range(device')
    BY <1>1, <1>2, <2>1, <2>2 DEF ClearCalls, Moved
  <2>4. SameClearing
    BY <1>0, <2>2 DEF SameClearing
  <2> QED BY <1>0, <2>2, <2>3, <2>4, ClearStops
<1>3a. CASE Call.for = "clear" /\ ~dealloced
  <2>1. /\ Call = ClearPayloads /\ clearing' = [clearing EXCEPT !.at = "remove"]
        /\ device' = Append(calls, ClearValues)
    BY <1>0, <1>3a DEF AllPayloadsRemoved, ClearPayloads, ClearValues, EraseCall
  <2>2. clearing.at = "payloads" /\ clearing'.at = "remove" /\ clearing'.by = by /\ clearing'.saves = clearing.saves
    BY <1>0, <1>1, <1>2, <2>1 DEF ClearCalls, TypeOK
  <2> HIDE DEF calls
  <2>2a. SameClearing /\ Later' = Later
    BY <1>0, <2>2, LaterSame DEF SameClearing
  <2>3. ClearKnown' /\ ClearCrypto'
    <3>1. Encrypted /\ clearing.at # "no" /\ clearing'.at # "values"
      BY <2>2 DEF Encrypted, ValuesCleared
    <3> QED BY <1>0, <1>2, <2>2, <2>2a, <3>1, ClearCryptoStep
  <2>4. /\ Range(device') = Range(calls) \cup {ClearValues}
        /\ Before(device') \subseteq Before(calls) \cup (Range(calls) \X {ClearValues})
    BY <1>1, <2>1, DeviceAppend, MarkTypes
  <2>5. ClearPayloads \notin Range(calls) /\ ClearValues \notin Range(calls)
    BY <1>1, <1>2, <2>1, <2>2 DEF ClearCalls, Moved
  <2>6. ClearPayloads \notin Range(device')
    BY <2>4, <2>5, MarksDiffer
  <2>7. \A x : <<ClearPayloads, x>> \notin Before(device')
    BY <2>6 DEF Before
  <2>8. <<ClearValues, ClearValues>> \notin Before(device')
    BY <2>4, <2>5 DEF Before
  <2>9. Range(device') \subseteq NewCalls(by, low, persist)
    <3>1. \A x \in Range(calls) : x \in Range(device) /\ x \in NewCalls(by, low, persist)
      BY <1>1, <1>2, <2>1 DEF ClearCalls, Moved
    <3>2. ClearValues \in NewCalls(by, low, persist)
      BY MarksAreNew
    <3> QED BY <2>4, <3>1, <3>2
  <2>10. ClearCalls'
    BY <1>0, <2>2, <2>2a, <2>6, <2>7, <2>8, <2>9 DEF ClearCalls
  <2>11. ClearDisk'
    BY <1>0, <2>2 DEF ClearDisk
  <2> QED BY <2>3, <2>10, <2>11 DEF ClearInv
<1>4. CASE Call.for = "switch"
  <2>1. clearing' = clearing /\ device' = calls
    BY <1>4 DEF AllPayloadsRemoved
  <2>1a. SameClearing
    BY <1>0, <2>1, NoClearing
  <2>2. ClearDisk'
    BY <1>0, <1>2, <2>1, <2>1a, LaterSame DEF ClearDisk
  <2>3. Moved(device, device', {}) /\ (clearing.at = "values" => clearing.by \notin {})
    BY <1>1, <2>1
  <2>4. ValuesCleared => {} \subseteq NewCalls(clearing.by, Later, persist')
    OBVIOUS
  <2> QED BY <1>0, <2>1, <2>1a, <2>2, <2>3, <2>4, ClearOnward
<1> QED BY <1>0, <1>3, <1>3a, <1>4

LEMMA ClearValuesRemoved == ASSUME BaseInv, BaseInv', ClearInv, AllValuesRemoved PROVE ClearInv'
<1> DEFINE calls == Tail(device)
           by == clearing.by
           low == Later
<1>0. /\ TypeOK /\ device # <<>> /\ UNCHANGED <<persist, crypto, save, diskValues, diskPayloads, spared>> /\ ~hasValues'
      /\ Onward({}) /\ Copies /\ SavesOnward /\ Moved(crypto, crypto', NewEntries)
      /\ Call.for \in {"clear", "switch"} /\ Call = EraseCall("removeValues", Call.for)
  <2>1. UNCHANGED diskPayloads /\ ~hasValues'
    BY DEF AllValuesRemoved
  <2> QED BY <2>1, EraseSteps, BaseFacts
<1>1. /\ Call \in Range(device) /\ calls \in Seq(DeviceCall) /\ Moved(device, calls, {})
      /\ \A x \in Range(calls) : <<Call, x>> \in Before(device)
  BY <1>0, DeviceHead
<1>2. ClearCalls /\ ClearDisk /\ ClearKnown /\ ClearCrypto
  BY DEF ClearInv
<1>3. CASE Call.for = "clear"
  <2>1. Call = ClearValues /\ clearing' = [clearing EXCEPT !.at = "done"] /\ device' = calls
    BY <1>0, <1>3 DEF AllValuesRemoved, ClearValues, EraseCall
  <2>2. clearing.at = "remove" /\ clearing'.at = "done" /\ clearing'.by = by /\ clearing'.saves = clearing.saves
    BY <1>0, <1>1, <1>2, <2>1 DEF ClearCalls, TypeOK
  <2>2a. SameClearing /\ Later' = Later
    BY <1>0, <2>2, LaterSame DEF SameClearing
  <2>3. ClearKnown' /\ ClearCrypto'
    <3>1. Encrypted /\ clearing.at # "no" /\ clearing'.at # "values"
      BY <2>2 DEF Encrypted, ValuesCleared
    <3> QED BY <1>0, <1>2, <2>2, <2>2a, <3>1, ClearCryptoStep
  <2>4. ClearPayloads \notin Range(device') /\ ClearValues \notin Range(device')
    BY <1>1, <1>2, <2>1, <2>2 DEF ClearCalls, Moved
  <2>5. \A x : <<ClearPayloads, x>> \notin Before(device') /\ <<ClearValues, x>> \notin Before(device')
    BY <2>4 DEF Before
  <2>6. Range(device') \subseteq NewCalls(by, low, persist)
    BY <1>1, <1>2, <2>1, <2>2 DEF ClearCalls, Moved
  <2>7. ClearCalls'
    BY <1>0, <2>2, <2>2a, <2>4, <2>5, <2>6 DEF ClearCalls
  <2>8. ClearDisk'
    BY <1>0, <1>2, <2>2, <2>2a DEF ClearDisk
  <2> QED BY <2>3, <2>7, <2>8 DEF ClearInv
<1>4. CASE Call.for = "switch"
  <2>1. clearing' = clearing /\ (device' = calls \/ device' = Append(calls, SwitchPayloads))
    BY <1>4 DEF AllValuesRemoved, SwitchPayloads, EraseCall
  <2>1a. SameClearing
    BY <1>0, <2>1, NoClearing
  <2>2. ClearDisk'
    BY <1>0, <1>2, <2>1, <2>1a, LaterSame DEF ClearDisk
  <2> HIDE DEF calls
  <2> DEFINE T == {SwitchPayloads}
  <2>3. Moved(calls, device', T)
    <3>1. Moved(calls, Append(calls, SwitchPayloads), T)
      BY <1>1, DeviceAppend, MarkTypes
    <3>2. Moved(calls, calls, T)
      BY MovedSame
    <3> QED BY <2>1, <3>1, <3>2
  <2>4. ClearPayloads \notin T /\ ClearValues \notin T /\ T \subseteq NewCalls(clearing.by, Later, persist')
    BY MarksDiffer, MarksAreNew
  <2> HIDE DEF T
  <2>5. Moved(device, device', T) /\ (clearing.at = "values" => clearing.by \notin {})
    BY <1>1, <2>3 DEF Moved
  <2> QED BY <1>0, <2>1, <2>1a, <2>2, <2>4, <2>5, ClearOnward
<1> QED BY <1>0, <1>3, <1>4

LEMMA ClearNext ==
  ASSUME BaseInv, BaseInv', ClearInv, [Next]_vars PROVE ClearInv'
<1>1. ASSUME NEW n \in 1 .. 2, SetValues(n) PROVE ClearInv'
  BY <1>1, ClearSetValues
<1>2. ASSUME NEW s \in SaveId, NEW b \in Batches, SavePayloads(s, b.items, b.discardable) PROVE ClearInv'
  <2>1. b.items \in SUBSET Item /\ b.discardable \in SUBSET Item
    BY DiskStorageAssumption
  <2> QED BY <1>2, <2>1, ClearSavePayloads
<1>3. CASE Launched
  BY <1>3, ClearLaunched
<1>4. CASE SwitchToEphemeral
  BY <1>4, ClearSwitch
<1>5. CASE ClearAllData
  BY <1>5, ClearClearAllData
<1>6. CASE EncryptionEnds
  BY <1>6, ClearPersistEncrypted, ClearSaveEncrypted DEF EncryptionEnds
<1>7. CASE EncryptionFails \/ WriteFails
  BY <1>7, ClearFails
<1>8. CASE DeviceAnswers
  BY <1>8, ClearValuesWritten, ClearPayloadsWritten, ClearPayloadRemoved, ClearPayloadsRemoved, ClearValuesRemoved
  DEF DeviceAnswers
<1>9. CASE PrepareForDeinit \/ Deinit \/ UNCHANGED vars
  BY <1>9, ClearStatus
<1>10. CASE Restart
  BY <1>10, ClearRestart
<1> QED BY <1>1, <1>2, <1>3, <1>4, <1>5, <1>6, <1>7, <1>8, <1>9, <1>10 DEF Next
-----------------------------------------------------------------------------
(* setPersistencePolicy(Ephemeral).  No write is begun once the policy has *)
(* changed, but that of a save that was not yet handed to the device       *)
(* (spared), and the device carries out what was begun before it erases.   *)
Spared == spared["switch"]

NoWrites == {x \in DeviceCall : x.op # "setValues" /\ (x.op = "savePayloads" => x.id \in Spared)}

ValuesErased == switching \in {"payloads", "done", "failed"}

SwitchStage ==
  /\ ephemeral <=> switching # "no"
  /\ ephemeral => \A s \in SaveId : save[s].stage \in {"deleting", "encrypting"} => s \in Spared

SwitchCalls ==
  /\ SwitchValues \in Range(device) => switching = "values"
  /\ SwitchPayloads \in Range(device) => switching = "payloads"
  /\ <<SwitchValues, SwitchValues>> \notin Before(device)
  /\ <<SwitchPayloads, SwitchPayloads>> \notin Before(device)
  /\ \A x \in Range(device) : <<SwitchValues, x>> \in Before(device) => x \in NoWrites
  /\ ValuesErased => Range(device) \subseteq NoWrites

SwitchDisk ==
  /\ ValuesErased => ~hasValues
  /\ switching = "done" => \A u \in Item : diskPayloads[u].there => diskPayloads[u].by \in Spared

SwitchInv == SwitchStage /\ SwitchCalls /\ SwitchDisk

LEMMA NoWriteIs ==
  /\ {ClearPayloads, ClearValues, SwitchPayloads, SwitchValues} \subseteq NoWrites
  /\ \A p \in Persist : SetCall(p) \notin NoWrites
  /\ \A s \in SaveId : SaveCall(s) \in NoWrites <=> s \in Spared
  /\ \A s \in SaveId, u \in Item : RemoveCall(s, u) \in NoWrites
BY CallTypes DEF NoWrites, ClearPayloads, ClearValues, SwitchPayloads, SwitchValues

LEMMA SameSpared == ASSUME Spared' = Spared PROVE NoWrites' = NoWrites
BY DEF NoWrites

LEMMA NoSwitching == ASSUME spared' = spared PROVE Spared' = Spared
BY DEF Spared

LEMMA SwitchCallsSame ==
  ASSUME SwitchStage, SwitchCalls, switching' = switching, Spared' = Spared,
         NEW T, Moved(device, device', T), SwitchValues \notin T, SwitchPayloads \notin T,
         ephemeral => T \subseteq NoWrites
  PROVE  SwitchCalls'
<1>1. /\ SwitchValues \in Range(device') => SwitchValues \in Range(device) /\ switching = "values"
      /\ SwitchPayloads \in Range(device') => switching = "payloads"
      /\ <<SwitchValues, SwitchValues>> \notin Before(device')
      /\ <<SwitchPayloads, SwitchPayloads>> \notin Before(device')
  BY DEF SwitchCalls, Moved
<1>2. ASSUME NEW x \in Range(device'), <<SwitchValues, x>> \in Before(device') PROVE x \in NoWrites
  <2>1. SwitchValues \in Range(device')
    BY <1>2 DEF Before
  <2>2. switching = "values" /\ ephemeral
    BY <1>1, <2>1 DEF SwitchStage
  <2>3. CASE x \in T
    BY <2>2, <2>3
  <2>4. CASE x \notin T
    <3>1. <<SwitchValues, x>> \in Before(device) /\ x \in Range(device)
      BY <1>2, <2>4 DEF Moved
    <3> QED BY <3>1 DEF SwitchCalls
  <2> QED BY <2>3, <2>4
<1>3. ASSUME ValuesErased PROVE Range(device') \subseteq NoWrites
  <2>1. ephemeral
    BY <1>3 DEF SwitchStage, ValuesErased
  <2> QED BY <1>3, <2>1 DEF SwitchCalls, Moved
<1>4. (ValuesErased' <=> ValuesErased) /\ NoWrites' = NoWrites
  BY SameSpared DEF ValuesErased
<1> QED BY <1>1, <1>2, <1>3, <1>4 DEF SwitchCalls

LEMMA SwitchFrame ==
  ASSUME SwitchInv, UNCHANGED <<ephemeral, switching>>, Spared' = Spared,
         NEW T, Moved(device, device', T), SwitchValues \notin T, SwitchPayloads \notin T,
         ephemeral => T \subseteq NoWrites, SavesOnward,
         ValuesErased => /\ hasValues' => hasValues
                         /\ \A u \in Item : diskPayloads'[u].there =>
                              \/ diskPayloads'[u].by \in Spared
                              \/ diskPayloads[u].there /\ diskPayloads'[u].by = diskPayloads[u].by
  PROVE  SwitchInv'
<1>1. SwitchStage'
  <2>1. ephemeral => \A s \in SaveId : save'[s].stage \in {"deleting", "encrypting"} => save[s].stage \in {"deleting", "encrypting"}
    BY DEF SavesOnward, Begins
  <2> QED BY <2>1 DEF SwitchInv, SwitchStage
<1>2. SwitchCalls'
  BY SwitchCallsSame DEF SwitchInv
<1>3. SwitchDisk'
  BY DEF SwitchInv, SwitchDisk, ValuesErased
<1> QED BY <1>1, <1>2, <1>3 DEF SwitchInv

(* Neither the device nor the disk is touched.                             *)
LEMMA SwitchQuiet ==
  ASSUME SwitchInv, UNCHANGED <<ephemeral, switching, save, device, hasValues, diskPayloads>>, Spared' = Spared
  PROVE  SwitchInv'
<1>1. Moved(device, device', {}) /\ SavesOnward
  BY MovedSame DEF SavesOnward
<1> QED BY <1>1, SwitchFrame

LEMMA SwitchBegins ==
  ASSUME BaseInv, SwitchInv, SwitchToEphemeral PROVE SwitchInv'
<1>0. device \in Seq(DeviceCall)
  BY BaseFacts
<1>1. /\ switching = "no" /\ switching' = "values" /\ ephemeral' = TRUE
      /\ device' = Append(device, SwitchValues) /\ save' = save
      /\ Spared' = Unwritten
  <2>1. spared \in [{"clear", "switch"} -> SUBSET SaveId] /\ spared' = [spared EXCEPT !["switch"] = Unwritten]
    BY BaseFacts DEF TypeOK, SwitchToEphemeral
  <2> QED BY <2>1 DEF SwitchToEphemeral, SwitchValues, EraseCall, Spared
<1>2. SwitchValues \notin Range(device) /\ SwitchPayloads \notin Range(device)
  BY <1>1 DEF SwitchInv, SwitchCalls
<1>3. /\ Range(device') = Range(device) \cup {SwitchValues}
      /\ Before(device') \subseteq Before(device) \cup (Range(device) \X {SwitchValues})
  BY <1>0, <1>1, DeviceAppend, MarkTypes
<1>4. \A x : <<SwitchValues, x>> \notin Before(device') /\ <<SwitchPayloads, x>> \notin Before(device')
  BY <1>2, <1>3 DEF Before
<1>5. SwitchPayloads \notin Range(device')
  BY <1>2, <1>3, MarksDiffer
<1>6. SwitchCalls'
  BY <1>1, <1>4, <1>5 DEF SwitchCalls, ValuesErased
<1>7. SwitchStage' /\ SwitchDisk'
  BY <1>1 DEF SwitchStage, SwitchDisk, ValuesErased, Unwritten
<1> QED BY <1>6, <1>7 DEF SwitchInv

LEMMA SwitchSavePayloads ==
  ASSUME BaseInv, SwitchInv, NEW s \in SaveId, NEW items \in SUBSET Item, NEW discardable \in SUBSET Item,
         SavePayloads(s, items, discardable)
  PROVE  SwitchInv'
<1>0. device \in Seq(DeviceCall) /\ SavesOnward
  BY BaseFacts, SavesOnwardOf
<1>1. UNCHANGED <<ephemeral, switching, hasValues, diskPayloads>> /\ Spared' = Spared
  BY NoSwitching DEF SavePayloads, statusVars, diskVars
<1>2. CASE device' = device
  <2>1. Moved(device, device', {})
    BY <1>2, MovedSame
  <2> QED BY <1>0, <1>1, <2>1, SwitchFrame
<1>3. CASE device' # device
  <2>1. PICK u \in Item : device' = Append(device, RemoveCall(s, u))
    BY <1>3 DEF SavePayloads, RemoveCall
  <2> DEFINE e == RemoveCall(s, u)
  <2>2. e \in DeviceCall /\ e # SwitchPayloads /\ e # SwitchValues /\ device' = Append(device, e) /\ e \in NoWrites
    BY <2>1, CallTypes, MarksDiffer, NoWriteIs
  <2> HIDE DEF e
  <2>3. Moved(device, device', {e})
    BY <1>0, <2>2, DeviceAppend
  <2>4. SwitchValues \notin {e} /\ SwitchPayloads \notin {e} /\ {e} \subseteq NoWrites
    BY <2>2
  <2> QED BY <1>0, <1>1, <2>3, <2>4, SwitchFrame
<1> QED BY <1>2, <1>3

(* clearAllData goes on with the removal of the payloads at most.          *)
LEMMA AfterMoved ==
  ASSUME TypeOK, NEW p, NEW calls \in Seq(DeviceCall)
  PROVE  Moved(calls, CallsAfter(p, calls), {ClearPayloads})
<1>1. CallsAfter(p, calls) = calls \/ CallsAfter(p, calls) = Append(calls, ClearPayloads)
  BY DEF CallsAfter, ClearPayloads, EraseCall
<1>2. Moved(calls, Append(calls, ClearPayloads), {ClearPayloads})
  BY DeviceAppend, MarkTypes
<1> QED BY <1>1, <1>2, MovedSame

LEMMA SwitchPersistEncrypted == ASSUME BaseInv, SwitchInv, PersistEncrypted PROVE SwitchInv'
<1> DEFINE p == Head(crypto)
<1>0. device \in Seq(DeviceCall) /\ TypeOK
  BY BaseFacts
<1>1. UNCHANGED <<ephemeral, switching, save, hasValues, diskPayloads>> /\ Spared' = Spared /\ SavesOnward
  <2>1. UNCHANGED <<ephemeral, switching, save, hasValues, diskPayloads, spared>>
    BY DEF PersistEncrypted, statusVars, diskVars, history
  <2> QED BY <2>1, NoSwitching, SavesOnwardOf
<1>2. /\ p \in Persist
      /\ device' = CallsAfter(p, device) \/ (~ephemeral /\ device' = Append(device, SetCall(p)))
  <2>1. p \in Persist
    BY PersistHead DEF PersistEncrypted
  <2> QED BY <2>1, OnwardPersistEncrypted
<1> HIDE DEF p
<1>3. CASE device' = CallsAfter(p, device)
  <2> DEFINE T == {ClearPayloads}
  <2>1. Moved(device, device', T) /\ SwitchValues \notin T /\ SwitchPayloads \notin T /\ T \subseteq NoWrites
    BY <1>0, <1>3, AfterMoved, MarksDiffer, NoWriteIs
  <2> HIDE DEF T
  <2> QED BY <1>1, <2>1, SwitchFrame
<1>4. CASE ~ephemeral /\ device' = Append(device, SetCall(p))
  <2> DEFINE e == SetCall(p)
  <2>1. e \in DeviceCall /\ e # SwitchPayloads /\ e # SwitchValues /\ device' = Append(device, e)
    BY <1>2, <1>4, CallTypes, MarksDiffer
  <2> HIDE DEF e
  <2>2. Moved(device, device', {e})
    BY <1>0, <2>1, DeviceAppend
  <2>3. SwitchValues \notin {e} /\ SwitchPayloads \notin {e}
    BY <2>1
  <2> QED BY <1>1, <1>4, <2>2, <2>3, SwitchFrame
<1> QED BY <1>2, <1>3, <1>4

LEMMA SwitchSaveEncrypted == ASSUME BaseInv, SwitchInv, NEW s \in SaveId, SaveEncrypted(s) PROVE SwitchInv'
<1>0. device \in Seq(DeviceCall) /\ SavesOnward
  BY BaseFacts, SavesOnwardOf
<1>1. /\ UNCHANGED <<ephemeral, switching, hasValues, diskPayloads>> /\ Spared' = Spared
      /\ save[s].stage = "encrypting" /\ (device' = device \/ device' = Append(device, SaveCall(s)))
  BY NoSwitching DEF SaveEncrypted, statusVars, diskVars, history, SaveCall
<1>2. ephemeral => SaveCall(s) \in NoWrites
  BY <1>1, NoWriteIs DEF SwitchInv, SwitchStage
<1>4. CASE device' = device
  <2>1. Moved(device, device', {})
    BY <1>4, MovedSame
  <2> QED BY <1>0, <1>1, <2>1, SwitchFrame
<1>5. CASE device' = Append(device, SaveCall(s))
  <2> DEFINE e == SaveCall(s)
  <2>1. e \in DeviceCall /\ e # SwitchPayloads /\ e # SwitchValues /\ device' = Append(device, e)
    BY <1>5, CallTypes, MarksDiffer
  <2>1a. ephemeral => e \in NoWrites
    BY <1>2
  <2> HIDE DEF e
  <2>2. Moved(device, device', {e})
    BY <1>0, <2>1, DeviceAppend
  <2>3. SwitchValues \notin {e} /\ SwitchPayloads \notin {e} /\ (ephemeral => {e} \subseteq NoWrites)
    BY <2>1, <2>1a
  <2> QED BY <1>0, <1>1, <2>2, <2>3, SwitchFrame
<1> QED BY <1>1, <1>4, <1>5

LEMMA SwitchValuesWritten == ASSUME BaseInv, SwitchInv, ValuesWritten PROVE SwitchInv'
<1> DEFINE p == Call.id
           calls == Tail(device)
           T == {ClearPayloads}
<1>0. TypeOK /\ device \in Seq(DeviceCall)
  BY BaseFacts
<1>1. /\ device # <<>> /\ Call.op = "setValues" /\ device' = CallsAfter(p, calls)
      /\ UNCHANGED <<ephemeral, switching, save, diskPayloads>> /\ Spared' = Spared
  BY NoSwitching DEF ValuesWritten, statusVars, history
<1>1a. SavesOnward
  BY <1>1, SavesOnwardOf
<1>2. p \in Persist /\ SetCall(p) \in Range(device) /\ calls \in Seq(DeviceCall) /\ Moved(device, calls, {})
  <2>1. Call \in Range(device) /\ Call = SetCall(p) /\ p \in Persist
    BY <1>0, <1>1, DeviceHead, CallOf
  <2>2. calls \in Seq(DeviceCall) /\ Moved(device, calls, {})
    BY <1>1, DeviceHead
  <2> HIDE DEF p
  <2> QED BY <2>1, <2>2
<1> HIDE DEF p, calls
<1>3. Moved(calls, device', T) /\ SwitchValues \notin T /\ SwitchPayloads \notin T /\ T \subseteq NoWrites
  BY <1>0, <1>1, <1>2, AfterMoved, MarksDiffer, NoWriteIs
<1> HIDE DEF T
<1>4. Moved(device, device', T)
  BY <1>2, <1>3 DEF Moved
<1>5. ~ValuesErased
  BY <1>2, NoWriteIs DEF SwitchInv, SwitchCalls
<1> QED BY <1>1, <1>1a, <1>3, <1>4, <1>5, SwitchFrame

LEMMA SwitchPayloadsWritten == ASSUME BaseInv, SwitchInv, PayloadsWritten PROVE SwitchInv'
<1> DEFINE s == Call.id
<1>1. /\ device # <<>> /\ Call.op = "savePayloads" /\ device' = Tail(device)
      /\ diskPayloads' = [u \in Item |-> IF u \in save[s].items THEN [by |-> s, there |-> TRUE] ELSE diskPayloads[u]]
      /\ UNCHANGED <<ephemeral, switching, hasValues>> /\ Spared' = Spared
  BY NoSwitching DEF PayloadsWritten, statusVars, history
<1>2. s \in SaveId /\ SaveCall(s) \in Range(device) /\ Moved(device, device', {})
  <2>1. s \in SaveId /\ Call = SaveCall(s) /\ Call \in Range(device) /\ Moved(device, Tail(device), {})
    BY <1>1, SaveHead, DeviceHead
  <2> HIDE DEF s
  <2> QED BY <1>1, <2>1
<1> HIDE DEF s
<1>3. SavesOnward
  BY SavesOnwardOf
<1>4. ValuesErased => s \in Spared
  BY <1>2, NoWriteIs DEF SwitchInv, SwitchCalls
<1>5. \A u \in Item : diskPayloads'[u].by = s \/ diskPayloads'[u] = diskPayloads[u]
  BY <1>1
<1> QED BY <1>1, <1>2, <1>3, <1>4, <1>5, SwitchFrame

LEMMA SwitchPayloadRemoved == ASSUME BaseInv, SwitchInv, PayloadRemoved PROVE SwitchInv'
<1>1. /\ device # <<>> /\ device' = Tail(device)
      /\ diskPayloads' = [diskPayloads EXCEPT ![Call.item] = [by |-> Call.id, there |-> FALSE]]
      /\ UNCHANGED <<ephemeral, switching, hasValues>> /\ Spared' = Spared
  BY NoSwitching DEF PayloadRemoved, statusVars, history
<1>2. Moved(device, device', {}) /\ SavesOnward
  BY <1>1, DeviceHead, SavesOnwardOf
<1>3. \A u \in Item : diskPayloads'[u].there => diskPayloads'[u] = diskPayloads[u]
  <2> DEFINE gone == [by |-> Call.id, there |-> FALSE]
  <2>1. gone.there = FALSE
    OBVIOUS
  <2>2. diskPayloads \in [Item -> [by : SaveId \cup {None}, there : BOOLEAN]]
    BY BaseFacts DEF TypeOK
  <2>3. diskPayloads' = [diskPayloads EXCEPT ![Call.item] = gone]
    BY <1>1
  <2> HIDE DEF gone
  <2> QED BY <2>1, <2>2, <2>3
<1> QED BY <1>1, <1>2, <1>3, SwitchFrame

LEMMA SwitchFails == ASSUME BaseInv, SwitchInv, EncryptionFails \/ WriteFails PROVE SwitchInv'
<1>1. UNCHANGED <<ephemeral, switching, hasValues, diskPayloads>> /\ Spared' = Spared
  BY NoSwitching DEF EncryptionFails, WriteFails, statusVars, diskVars, history
<1>2. Moved(device, device', {})
  <2>1. CASE EncryptionFails
    BY <2>1, MovedSame DEF EncryptionFails
  <2>2. CASE WriteFails
    <3>1. device # <<>> /\ device' = Tail(device)
      BY <2>2 DEF WriteFails
    <3>2. Moved(device, Tail(device), {})
      BY <3>1, DeviceHead
    <3> QED BY <3>1, <3>2
  <2> QED BY <2>1, <2>2
<1>3. SavesOnward
  BY SavesOnwardOf
<1> QED BY <1>1, <1>2, <1>3, SwitchFrame

LEMMA SwitchPayloadsRemoved == ASSUME BaseInv, SwitchInv, AllPayloadsRemoved PROVE SwitchInv'
<1> DEFINE calls == Tail(device)
           T == {ClearValues}
<1>0. /\ device # <<>> /\ Call.for \in {"clear", "switch"} /\ Call = EraseCall("removePayloads", Call.for)
      /\ UNCHANGED <<ephemeral, save, hasValues>> /\ \A u \in Item : ~diskPayloads'[u].there
      /\ Spared' = Spared /\ SavesOnward
  <2>1. \A u \in Item : [diskPayloads[u] EXCEPT !.there = FALSE].there = FALSE
    BY BaseFacts DEF TypeOK
  <2>2. /\ diskPayloads' = [u \in Item |-> [diskPayloads[u] EXCEPT !.there = FALSE]]
        /\ UNCHANGED <<ephemeral, save, hasValues>> /\ Spared' = Spared
    BY NoSwitching DEF AllPayloadsRemoved, statusVars, history
  <2>3. \A u \in Item : ~diskPayloads'[u].there
    BY <2>1, <2>2
  <2> QED BY <2>2, <2>3, EraseSteps
<1>1. /\ Call \in Range(device) /\ calls \in Seq(DeviceCall) /\ Moved(device, calls, {})
      /\ \A x \in Range(calls) : <<Call, x>> \in Before(device)
  BY <1>0, DeviceHead
<1>2. SwitchCalls /\ SwitchStage /\ SwitchDisk
  BY DEF SwitchInv
<1>3. CASE Call.for = "clear"
  <2>1. switching' = switching /\ (device' = calls \/ device' = Append(calls, ClearValues))
    BY <1>3 DEF AllPayloadsRemoved, ClearValues, EraseCall
  <2> HIDE DEF calls
  <2>2. Moved(calls, device', T) /\ SwitchValues \notin T /\ SwitchPayloads \notin T /\ T \subseteq NoWrites
    <3>1. Moved(calls, Append(calls, ClearValues), T)
      BY <1>1, DeviceAppend, MarkTypes
    <3>2. Moved(calls, calls, T)
      BY MovedSame
    <3> QED BY <2>1, <3>1, <3>2, MarksDiffer, NoWriteIs
  <2> HIDE DEF T
  <2>3. Moved(device, device', T)
    BY <1>1, <2>2 DEF Moved
  <2> QED BY <1>0, <2>1, <2>2, <2>3, SwitchFrame
<1>4. CASE Call.for = "switch"
  <2>1. switching' = "done" /\ device' = calls /\ Call = SwitchPayloads
    BY <1>0, <1>4 DEF AllPayloadsRemoved, SwitchPayloads
  <2>2. switching = "payloads"
    BY <1>1, <1>2, <2>1 DEF SwitchCalls
  <2>3. SwitchPayloads \notin Range(device') /\ SwitchValues \notin Range(device')
    BY <1>1, <1>2, <2>1, <2>2 DEF SwitchCalls, Moved
  <2>4. \A x : <<SwitchPayloads, x>> \notin Before(device') /\ <<SwitchValues, x>> \notin Before(device')
    BY <2>3 DEF Before
  <2>5. Range(device') \subseteq NoWrites
    BY <1>1, <1>2, <2>1, <2>2 DEF SwitchCalls, Moved, ValuesErased
  <2>6. SwitchCalls'
    BY <1>0, <2>3, <2>4, <2>5, SameSpared DEF SwitchCalls
  <2>7. SwitchStage'
    BY <1>0, <1>2, <2>1, <2>2 DEF SwitchStage
  <2>8. SwitchDisk'
    BY <1>0, <1>2, <2>1, <2>2 DEF SwitchDisk, ValuesErased
  <2> QED BY <2>6, <2>7, <2>8 DEF SwitchInv
<1> QED BY <1>0, <1>3, <1>4

LEMMA SwitchValuesRemoved == ASSUME BaseInv, SwitchInv, AllValuesRemoved PROVE SwitchInv'
<1> DEFINE calls == Tail(device)
<1>0. /\ device # <<>> /\ Call.for \in {"clear", "switch"} /\ Call = EraseCall("removeValues", Call.for)
      /\ UNCHANGED <<ephemeral, save, diskPayloads>> /\ ~hasValues' /\ Spared' = Spared /\ SavesOnward
  <2>1. UNCHANGED <<ephemeral, save, diskPayloads>> /\ ~hasValues' /\ Spared' = Spared
    BY NoSwitching DEF AllValuesRemoved, statusVars, history
  <2> QED BY <2>1, EraseSteps
<1>1. /\ Call \in Range(device) /\ calls \in Seq(DeviceCall) /\ Moved(device, calls, {})
      /\ \A x \in Range(calls) : <<Call, x>> \in Before(device)
  BY <1>0, DeviceHead
<1>2. SwitchCalls /\ SwitchStage /\ SwitchDisk
  BY DEF SwitchInv
<1>3. CASE Call.for = "clear"
  <2>1. switching' = switching /\ device' = calls
    BY <1>3 DEF AllValuesRemoved
  <2>2. Moved(device, device', {})
    BY <1>1, <2>1
  <2> QED BY <1>0, <2>1, <2>2, SwitchFrame
<1>4. CASE Call.for = "switch"
  <2>1. /\ Call = SwitchValues
        /\ \/ switching' = "payloads" /\ device' = Append(calls, SwitchPayloads)
           \/ switching' = "failed" /\ device' = calls
    BY <1>0, <1>4 DEF AllValuesRemoved, SwitchPayloads, SwitchValues, EraseCall
  <2>2. switching = "values"
    BY <1>1, <1>2, <2>1 DEF SwitchCalls
  <2>4. SwitchValues \notin Range(calls) /\ SwitchPayloads \notin Range(calls)
    BY <1>1, <1>2, <2>1, <2>2 DEF SwitchCalls, Moved
  <2>4a. \A x \in Range(calls) : x \in Range(device) /\ x \in NoWrites
    BY <1>1, <1>2, <2>1 DEF SwitchCalls, Moved
  <2> HIDE DEF calls
  <2>3. /\ Range(device') \subseteq Range(calls) \cup {SwitchPayloads}
        /\ Before(device') \subseteq Before(calls) \cup (Range(calls) \X {SwitchPayloads})
        /\ switching' = "failed" => device' = calls
    BY <1>1, <2>1, DeviceAppend, MarkTypes
  <2>5. SwitchValues \notin Range(device')
    BY <2>3, <2>4, MarksDiffer
  <2>6. \A x : <<SwitchValues, x>> \notin Before(device')
    BY <2>5 DEF Before
  <2>7. <<SwitchPayloads, SwitchPayloads>> \notin Before(device')
    BY <2>3, <2>4 DEF Before
  <2>8. Range(device') \subseteq NoWrites
    BY <2>3, <2>4a, NoWriteIs
  <2>8a. SwitchPayloads \in Range(device') => switching' = "payloads"
    BY <2>1, <2>3, <2>4
  <2>9. SwitchCalls'
    BY <1>0, <2>5, <2>6, <2>7, <2>8, <2>8a, SameSpared DEF SwitchCalls
  <2>10. SwitchStage'
    BY <1>0, <1>2, <2>1, <2>2 DEF SwitchStage
  <2>11. SwitchDisk'
    BY <1>0, <2>1 DEF SwitchDisk, ValuesErased
  <2> QED BY <2>9, <2>10, <2>11 DEF SwitchInv
<1> QED BY <1>0, <1>3, <1>4

LEMMA SwitchRestart == ASSUME Restart PROVE SwitchInv'
<1>1. ephemeral' = FALSE /\ switching' = "no" /\ device' = <<>>
  BY DEF Restart
<1>2. Range(device') = {} /\ Before(device') = {}
  BY <1>1, MovedNothing
<1> QED BY <1>1, <1>2 DEF SwitchInv, SwitchStage, SwitchCalls, SwitchDisk, ValuesErased

LEMMA SwitchStatus ==
  ASSUME BaseInv, SwitchInv,
         \/ \E n \in 1 .. 2 : SetValues(n)
         \/ Launched \/ ClearAllData \/ PrepareForDeinit \/ Deinit \/ UNCHANGED vars
  PROVE  SwitchInv'
<1>1. UNCHANGED <<ephemeral, switching, save, device, hasValues, diskPayloads>>
  BY DEF SetValues, Launched, ClearAllData, PrepareForDeinit, Deinit, vars, statusVars, diskVars
<1>2. spared' = spared \/ spared' = [spared EXCEPT !["clear"] = Unwritten]
  BY DEF SetValues, Launched, ClearAllData, PrepareForDeinit, Deinit, vars, history
<1>3. Spared' = Spared
  <2>1. spared \in [{"clear", "switch"} -> SUBSET SaveId]
    BY BaseFacts DEF TypeOK
  <2> QED BY <1>2, <2>1 DEF Spared
<1> QED BY <1>1, <1>3, SwitchQuiet

LEMMA SwitchNext ==
  ASSUME BaseInv, SwitchInv, [Next]_vars PROVE SwitchInv'
<1>1. ASSUME NEW s \in SaveId, NEW b \in Batches, SavePayloads(s, b.items, b.discardable) PROVE SwitchInv'
  <2>1. b.items \in SUBSET Item /\ b.discardable \in SUBSET Item
    BY DiskStorageAssumption
  <2> QED BY <1>1, <2>1, SwitchSavePayloads
<1>2. CASE SwitchToEphemeral
  BY <1>2, SwitchBegins
<1>3. CASE EncryptionEnds
  BY <1>3, SwitchPersistEncrypted, SwitchSaveEncrypted DEF EncryptionEnds
<1>4. CASE EncryptionFails \/ WriteFails
  BY <1>4, SwitchFails
<1>5. CASE DeviceAnswers
  BY <1>5, SwitchValuesWritten, SwitchPayloadsWritten, SwitchPayloadRemoved, SwitchPayloadsRemoved, SwitchValuesRemoved
  DEF DeviceAnswers
<1>6. CASE Restart
  BY <1>6, SwitchRestart
<1> QED BY <1>1, <1>2, <1>3, <1>4, <1>5, <1>6, SwitchStatus DEF Next

LEMMA EraseInit == ASSUME Init PROVE ClearInv /\ SwitchInv
<1>1. /\ clearing.at = "no" /\ switching = "no" /\ ephemeral = FALSE /\ crypto = <<>> /\ device = <<>>
      /\ ~hasValues
  BY DEF Init
<1>2. Range(device) = {} /\ Before(device) = {} /\ Range(crypto) = {}
  BY <1>1, MovedNothing
<1> QED
  BY <1>1, <1>2 DEF ClearInv, ClearKnown, ClearCrypto, ClearCalls, ClearDisk, Encrypted, ValuesCleared,
                    SwitchInv, SwitchStage, SwitchCalls, SwitchDisk, ValuesErased

(* When clearAllData has returned, nothing that was there before it is     *)
(* written again by a call that was under way, and when                    *)
(* setPersistencePolicy(Ephemeral) has returned the disk is empty and      *)
(* stays so for the session, whatever is under way, fails or is called     *)
(* after it: but for the payloads of the saves that were not yet handed to *)
(* the device when the erasing began.                                      *)
THEOREM DiskStorageErasedDataStaysErased == Spec => []ErasedDataStaysErased
<1>1. Init => BaseInv /\ ClearInv /\ SwitchInv
  BY BaseInit, EraseInit
<1>2. BaseInv /\ ClearInv /\ SwitchInv /\ [Next]_vars => (BaseInv /\ ClearInv /\ SwitchInv)'
  BY BaseNext, ClearNext, SwitchNext
<1>3. BaseInv /\ ClearInv /\ SwitchInv => ErasedDataStaysErased
  <2> SUFFICES ASSUME BaseInv, ClearInv, SwitchInv PROVE ErasedDataStaysErased
    OBVIOUS
  <2>1. EphemeralLeavesNothing
    BY DEF EphemeralLeavesNothing, SwitchInv, SwitchDisk, ValuesErased, Spared
  <2>2. ASSUME clearing.at = "done", hasValues PROVE diskValues >= persist[clearing.by].snap
    <3>1. /\ clearing.by \in Persist /\ persist[clearing.by].snap <= diskValues
      BY <2>2 DEF ClearInv, ClearKnown, ClearDisk
    <3>2. persist[clearing.by].snap \in Nat /\ diskValues \in Nat
      <4>1. persist \in [Persist -> PersistRecord] /\ latest \in Nat /\ diskValues \in 0 .. latest
        BY BaseFacts
      <4>2. persist[clearing.by] \in PersistRecord
        BY <3>1, <4>1
      <4> QED BY <4>1, <4>2 DEF PersistRecord
    <3> QED BY <3>1, <3>2
  <2>3. ASSUME clearing.at = "done", NEW u \in Item, diskPayloads[u].there
        PROVE  diskPayloads[u].by > clearing.saves \/ diskPayloads[u].by \in spared["clear"]
    <3>1. diskPayloads[u].by \in Later
      BY <2>3 DEF ClearInv, ClearDisk
    <3>2. clearing.saves \in Nat /\ diskPayloads[u].by \in Nat
      BY BaseFacts DEF TypeOK, SaveId, None
    <3> QED BY <3>1, <3>2 DEF Later
  <2> QED BY <2>1, <2>2, <2>3 DEF ErasedDataStaysErased, ClearedDataStaysCleared
<1> QED BY <1>1, <1>2, <1>3, PTL DEF Spec

-----------------------------------------------------------------------------
(* Deinit.  What it awaits goes on to its end: a persist in closing is     *)
(* under way, has failed, or is over and on disk; so is a save; and an     *)
(* erasing is under way or over.  A clearing that has failed has done so   *)
(* with its persist, which keeps deinit from being reached.                *)
Awaited == closing \ abandoned

PersistEnds ==
  \A p \in Persist : <<"persist", p>> \in Awaited =>
    \/ persist[p].stage \in {"encrypting", "writing", "failed"} /\ ~dealloced
    \/ persist[p].stage = "done" /\ (ephemeral \/ persist[p].snap <= diskValues)

SaveEnds ==
  \A s \in SaveId : <<"save", s>> \in Awaited =>
    \/ save[s].stage \in {"writing", "rejected"} /\ ~dealloced
    \/ save[s].stage = "done"

ErasingEnds ==
  /\ <<"clear", None>> \in Awaited =>
       \/ clearing.at \in {"values", "payloads", "remove", "failed"} /\ ~dealloced
       \/ clearing.at = "done"
  /\ <<"switch", None>> \in Awaited => (switching = "payloads" /\ ~dealloced) \/ switching = "done"
  /\ clearing.at = "failed" /\ ~dealloced => persist[clearing.by].stage = "failed"

CloseInv == PersistEnds /\ SaveEnds /\ ErasingEnds /\ (~dealloced => abandoned = {})

(* How a step moves the erasings.                                          *)
ErasingsOnward ==
  /\ \/ clearing' = clearing
     \/ clearing.at = "no" /\ clearing'.at = "values"
     \/ /\ clearing.at \in {"values", "payloads", "remove"} /\ clearing'.by = clearing.by
        /\ \/ clearing'.at \in {"payloads", "remove", "done"}
           \/ clearing'.at = "failed" /\ (~dealloced => persist'[clearing.by].stage = "failed")
  /\ switching' = switching \/ switching \in {"no", "values"} \/ (switching = "payloads" /\ switching' = "done")

LEMMA CriticalIs ==
  /\ \A p \in Persist : <<"persist", p>> \in Critical <=> persist[p].stage \in {"encrypting", "writing"}
  /\ \A s \in SaveId : <<"save", s>> \in Critical <=> save[s].stage = "writing"
  /\ <<"clear", None>> \in Critical <=> clearing.at \in {"values", "payloads", "remove"}
  /\ <<"switch", None>> \in Critical <=> switching = "payloads"
BY DEF Critical

LEMMA CloseFrame ==
  ASSUME BaseInv, ClearKnown, CloseInv, NEW P, Onward(P), SavesOnward, ErasingsOnward,
         UNCHANGED <<closing, abandoned, dealloced>>,
         ephemeral => ephemeral', diskValues' \in Nat, diskValues <= diskValues',
         \A p \in P : \/ persist'[p].stage \in {"writing", "failed"}
                      \/ persist'[p].stage = "done" /\ (ephemeral \/ dealloced \/ persist[p].snap <= diskValues'),
         \A p \in P : persist[p].stage \in {"encrypting", "writing"}
  PROVE  CloseInv'
<1>0. /\ Awaited' = Awaited /\ (dealloced' <=> dealloced) /\ diskValues \in Nat
      /\ \A p \in Persist : persist[p].snap \in Nat
  <2>1. persist \in [Persist -> PersistRecord] /\ diskValues \in 0 .. latest /\ latest \in Nat
    BY BaseFacts
  <2>2. \A p \in Persist : persist[p].snap \in Nat
    BY <2>1 DEF PersistRecord
  <2>3. Awaited' = Awaited
    BY DEF Awaited
  <2> QED BY <2>1, <2>2, <2>3
<1>1. ASSUME NEW p \in Persist, <<"persist", p>> \in Awaited
      PROVE  \/ persist'[p].stage \in {"encrypting", "writing", "failed"} /\ ~dealloced'
             \/ persist'[p].stage = "done" /\ (ephemeral' \/ persist'[p].snap <= diskValues')
  <2>1. \/ persist[p].stage \in {"encrypting", "writing", "failed"} /\ ~dealloced
        \/ persist[p].stage = "done" /\ (ephemeral \/ persist[p].snap <= diskValues)
    BY <1>1 DEF CloseInv, PersistEnds
  <2>2. persist'[p].snap = persist[p].snap /\ (p \notin P => persist'[p] = persist[p])
    BY <2>1 DEF Onward, Fresh
  <2>3. CASE p \in P
    <3>1. persist[p].stage \in {"encrypting", "writing"} /\ ~dealloced
      BY <2>1, <2>3
    <3> QED BY <1>0, <2>2, <2>3, <3>1
  <2>4. CASE p \notin P
    <3>1. persist'[p] = persist[p]
      BY <2>2, <2>4
    <3>2. persist[p].snap <= diskValues => persist[p].snap <= diskValues'
      BY <1>0
    <3> QED BY <1>0, <2>1, <3>1, <3>2
  <2> QED BY <2>3, <2>4
<1>2. SaveEnds'
  BY <1>0 DEF CloseInv, SaveEnds, SavesOnward
<1>3. ErasingEnds'
  <2>1. clearing.at = "failed" /\ ~dealloced => persist'[clearing.by].stage = "failed"
    <3> SUFFICES ASSUME clearing.at = "failed", ~dealloced PROVE persist'[clearing.by].stage = "failed"
      OBVIOUS
    <3>1. clearing.by \in Persist /\ persist[clearing.by].stage = "failed"
      BY DEF ClearKnown, CloseInv, ErasingEnds
    <3> QED BY <3>1 DEF Onward, Fresh
  <2>2. clearing'.at = "failed" /\ ~dealloced => persist'[clearing'.by].stage = "failed"
    BY <2>1 DEF ErasingsOnward
  <2>3. <<"clear", None>> \in Awaited =>
          \/ clearing'.at \in {"values", "payloads", "remove", "failed"} /\ ~dealloced
          \/ clearing'.at = "done"
    BY DEF CloseInv, ErasingEnds, ErasingsOnward
  <2>4. <<"switch", None>> \in Awaited => (switching' = "payloads" /\ ~dealloced) \/ switching' = "done"
    BY DEF CloseInv, ErasingEnds, ErasingsOnward
  <2> QED BY <1>0, <2>2, <2>3, <2>4 DEF ErasingEnds
<1>4. PersistEnds'
  BY <1>0, <1>1 DEF PersistEnds
<1>5. ~dealloced' => abandoned' = {}
  BY DEF CloseInv
<1> QED BY <1>2, <1>3, <1>4, <1>5 DEF CloseInv

(* The steps that move no persist.                                         *)
LEMMA CloseQuiet ==
  ASSUME BaseInv, ClearKnown, CloseInv, Onward({}), SavesOnward, ErasingsOnward,
         UNCHANGED <<closing, abandoned, dealloced, diskValues>>, ephemeral => ephemeral'
  PROVE  CloseInv'
<1>1. latest \in Nat /\ diskValues \in 0 .. latest
  BY BaseFacts
<1>2. diskValues' \in Nat /\ diskValues <= diskValues'
  BY <1>1
<1> QED BY <1>2, CloseFrame

LEMMA ClearAfterOnward ==
  ASSUME BaseInv, NEW p \in Persist, NEW at \in {"payloads", "failed"}, clearing' = ClearAfter(p, at),
         at = "failed" => persist'[p].stage = "failed", switching' = switching
  PROVE  ErasingsOnward
<1>0. TypeOK
  BY BaseFacts
<1>1. CASE clearing.at = "values" /\ clearing.by = p
  <2>1. clearing'.at = (IF dealloced THEN "failed" ELSE at) /\ clearing'.by = clearing.by
    BY <1>0, <1>1, ClearAfterIs
  <2> QED BY <1>1, <2>1 DEF ErasingsOnward
<1>2. CASE ~(clearing.at = "values" /\ clearing.by = p)
  <2>1. clearing' = clearing
    BY <1>0, <1>2, ClearAfterIs
  <2> QED BY <2>1 DEF ErasingsOnward
<1> QED BY <1>1, <1>2

LEMMA ErasingsSame == ASSUME UNCHANGED <<clearing, switching>> PROVE ErasingsOnward
BY DEF ErasingsOnward

LEMMA EraseOnward ==
  ASSUME BaseInv, ClearCalls, SwitchCalls, AllPayloadsRemoved \/ AllValuesRemoved
  PROVE  ErasingsOnward
<1>0. /\ TypeOK /\ Call \in Range(device) /\ Call.for \in {"clear", "switch"}
      /\ AllPayloadsRemoved => Call = EraseCall("removePayloads", Call.for)
      /\ AllValuesRemoved => Call = EraseCall("removeValues", Call.for)
  BY EraseSteps, BaseFacts, DeviceHead
<1>1. CASE AllPayloadsRemoved /\ Call.for = "clear"
  <2>1. clearing.at = "payloads"
    BY <1>0, <1>1 DEF ClearCalls, ClearPayloads
  <2>2. clearing'.by = clearing.by /\ clearing'.at = (IF dealloced THEN "failed" ELSE "remove") /\ switching' = switching
    BY <1>0, <1>1 DEF AllPayloadsRemoved, TypeOK
  <2> QED BY <2>1, <2>2 DEF ErasingsOnward
<1>2. CASE AllPayloadsRemoved /\ Call.for # "clear"
  <2>1. switching = "payloads"
    BY <1>0, <1>2 DEF SwitchCalls, SwitchPayloads
  <2> QED BY <1>2, <2>1 DEF AllPayloadsRemoved, ErasingsOnward
<1>3. CASE AllValuesRemoved /\ Call.for = "clear"
  <2>1. clearing.at = "remove"
    BY <1>0, <1>3 DEF ClearCalls, ClearValues
  <2>2. clearing'.by = clearing.by /\ clearing'.at = "done" /\ switching' = switching
    BY <1>0, <1>3 DEF AllValuesRemoved, TypeOK
  <2> QED BY <2>1, <2>2 DEF ErasingsOnward
<1>4. CASE AllValuesRemoved /\ Call.for # "clear"
  <2>1. switching = "values"
    BY <1>0, <1>4 DEF SwitchCalls, SwitchValues
  <2> QED BY <1>4, <2>1 DEF AllValuesRemoved, ErasingsOnward
<1> QED BY <1>1, <1>2, <1>3, <1>4

LEMMA CloseWritten ==
  ASSUME BaseInv, ClearKnown, CloseInv, PersistEncrypted \/ ValuesWritten PROVE CloseInv'
<1>0. latest \in Nat /\ diskValues \in 0 .. latest
  BY BaseFacts
<1>1. CASE PersistEncrypted
  <2> DEFINE p == Head(crypto)
  <2>1. /\ p \in Persist /\ persist[p].stage = "encrypting"
    BY <1>1, PersistHead DEF PersistEncrypted
  <2>2. /\ Onward({p})
        /\ \/ persist'[p].stage = "done" /\ (ephemeral \/ dealloced) /\ clearing' = ClearAfter(p, "payloads")
           \/ persist'[p].stage = "writing" /\ clearing' = clearing
    BY <1>1, OnwardPersistEncrypted
  <2>3. UNCHANGED <<save, switching, closing, abandoned, dealloced, diskValues, ephemeral>>
    BY <1>1 DEF PersistEncrypted, statusVars, diskVars, history
  <2> HIDE DEF p
  <2>4. SavesOnward /\ ErasingsOnward
    BY <2>1, <2>2, <2>3, SavesOnwardOf, ClearAfterOnward, ErasingsSame
  <2>5. diskValues' \in Nat /\ diskValues <= diskValues'
    BY <1>0, <2>3
  <2> QED BY <2>1, <2>2, <2>3, <2>4, <2>5, CloseFrame
<1>2. CASE ValuesWritten
  <2> DEFINE p == Call.id
  <2>1. /\ p \in Persist /\ persist[p].stage = "writing" /\ diskValues' = persist[p].snap
        /\ clearing' = ClearAfter(p, "payloads")
        /\ UNCHANGED <<save, switching, closing, abandoned, dealloced, ephemeral>>
    BY <1>2, DeviceHead DEF ValuesWritten, statusVars, history
  <2>2. Onward({p}) /\ persist'[p].stage = "done"
    BY <1>2, OnwardValuesWritten
  <2>3. diskValues' \in diskValues .. latest
    BY <1>2, BaseValuesWritten
  <2> HIDE DEF p
  <2>4. SavesOnward /\ ErasingsOnward
    BY <2>1, SavesOnwardOf, ClearAfterOnward
  <2>5. diskValues' \in Nat /\ diskValues <= diskValues' /\ persist[p].snap <= diskValues'
    BY <1>0, <2>1, <2>3
  <2> QED BY <2>1, <2>2, <2>4, <2>5, CloseFrame
<1> QED BY <1>1, <1>2

LEMMA CloseFails ==
  ASSUME BaseInv, ClearKnown, CloseInv, EncryptionFails \/ WriteFails PROVE CloseInv'
<1>0. /\ UNCHANGED <<switching, closing, abandoned, dealloced, diskValues, ephemeral>> /\ SavesOnward
      /\ latest \in Nat /\ diskValues \in 0 .. latest
  BY SavesOnwardOf, BaseFacts DEF EncryptionFails, WriteFails, statusVars, diskVars, history
<1>1. ASSUME NEW p \in Persist, persist[p].stage \in {"encrypting", "writing"}, Onward({p}),
             persist'[p].stage = "failed", clearing' = ClearAfter(p, "failed")
      PROVE  CloseInv'
  <2>1. ErasingsOnward
    BY <1>0, <1>1, ClearAfterOnward
  <2>2. diskValues' \in Nat /\ diskValues <= diskValues'
    BY <1>0
  <2> QED BY <1>0, <1>1, <2>1, <2>2, CloseFrame
<1>2. ASSUME Onward({}), clearing' = clearing PROVE CloseInv'
  BY <1>0, <1>2, ErasingsSame, CloseQuiet
<1>3. CASE EncryptionFails
  <2>1. CASE /\ crypto # <<>> /\ Onward({Head(crypto)}) /\ persist'[Head(crypto)].stage = "failed"
             /\ clearing' = ClearAfter(Head(crypto), "failed")
    <3> DEFINE p == Head(crypto)
    <3>1. p \in Persist /\ persist[p].stage = "encrypting"
      BY <2>1, PersistHead
    <3>2. Onward({p}) /\ persist'[p].stage = "failed" /\ clearing' = ClearAfter(p, "failed")
      BY <2>1
    <3> HIDE DEF p
    <3> QED BY <1>1, <3>1, <3>2
  <2> QED BY <1>2, <1>3, <2>1, OnwardEncryptionFails
<1>4. CASE WriteFails
  <2>0. device # <<>>
    BY <1>4 DEF WriteFails
  <2>1. CASE /\ Call.op = "setValues" /\ Onward({Call.id}) /\ persist'[Call.id].stage = "failed"
             /\ clearing' = ClearAfter(Call.id, "failed")
    <3> DEFINE p == Call.id
    <3>1. p \in Persist /\ persist[p].stage = "writing"
      BY <2>0, <2>1, DeviceHead
    <3>2. Onward({p}) /\ persist'[p].stage = "failed" /\ clearing' = ClearAfter(p, "failed")
      BY <2>1
    <3> HIDE DEF p
    <3> QED BY <1>1, <3>1, <3>2
  <2> QED BY <1>2, <1>4, <2>1, OnwardWriteFails
<1> QED BY <1>3, <1>4

LEMMA CloseDeinit == ASSUME ClearKnown, CloseInv, Deinit PROVE CloseInv'
<1>1. /\ ~Rejected /\ ~dealloced /\ dealloced' /\ (CriticalSettled \/ limited)
      /\ abandoned' = (IF limited THEN closing \cap Critical ELSE {})
      /\ UNCHANGED <<persist, save, closing, ephemeral, diskValues, clearing, switching>>
  BY DEF Deinit, valueVars, diskVars
<1>2. Awaited = closing
  BY <1>1 DEF CloseInv, Awaited
<1>3. Awaited' \subseteq Awaited /\ \A c \in Awaited' : c \notin Critical
  BY <1>1, <1>2 DEF CriticalSettled, Awaited
<1>4. /\ \A p \in Persist : persist[p].stage # "failed"
      /\ \A s \in SaveId : save[s].stage # "rejected"
  BY <1>1 DEF Rejected
<1>5. PersistEnds'
  BY <1>1, <1>3, <1>4, CriticalIs DEF CloseInv, PersistEnds
<1>6. SaveEnds'
  BY <1>1, <1>3, <1>4, CriticalIs DEF CloseInv, SaveEnds
<1>7. ErasingEnds'
  <2>1. clearing.at # "failed"
    BY <1>1, <1>4 DEF ClearKnown, CloseInv, ErasingEnds
  <2> QED BY <1>1, <1>3, <2>1, CriticalIs DEF CloseInv, ErasingEnds
<1> QED BY <1>1, <1>5, <1>6, <1>7 DEF CloseInv

LEMMA CloseNext ==
  ASSUME BaseInv, ClearInv, SwitchInv, CloseInv, [Next]_vars PROVE CloseInv'
<1>0. ClearKnown /\ ClearCalls /\ SwitchCalls
  BY DEF ClearInv, SwitchInv
<1>1. ASSUME NEW n \in 1 .. 2, SetValues(n) PROVE CloseInv'
  <2>1. UNCHANGED <<closing, abandoned, dealloced, diskValues, ephemeral, save, clearing, switching>>
    BY <1>1 DEF SetValues, statusVars, diskVars, history
  <2> QED BY <1>0, <1>1, <2>1, OnwardSetValues, SavesOnwardOf, ErasingsSame, CloseQuiet
<1>2. CASE Launched
  <2>1. UNCHANGED <<closing, abandoned, dealloced, diskValues, ephemeral, save, clearing, switching>>
    BY <1>2 DEF Launched, diskVars, history
  <2> QED BY <1>0, <1>2, <2>1, OnwardLaunched, SavesOnwardOf, ErasingsSame, CloseQuiet
<1>3. CASE ClearAllData
  <2>1. Onward({}) /\ UNCHANGED <<statusVars, save, diskVars, switching, abandoned>> /\ clearing.at = "no"
    BY <1>3, ClearBegins
  <2>2. clearing'.at = "values"
    BY <1>3 DEF ClearAllData
  <2>3. ErasingsOnward
    BY <2>1, <2>2 DEF ErasingsOnward
  <2> QED BY <1>0, <2>1, <2>3, SavesOnwardOf, CloseQuiet DEF statusVars, diskVars
<1>4. ASSUME UNCHANGED <<persist, crypto, closing, abandoned, dealloced, diskValues, ephemeral, clearing, switching>>,
             SavesOnward
      PROVE  CloseInv'
  BY <1>0, <1>4, OnwardSame, ErasingsSame, CloseQuiet
<1>5. ASSUME NEW s \in SaveId, NEW b \in Batches, SavePayloads(s, b.items, b.discardable) PROVE CloseInv'
  <2>1. UNCHANGED <<persist, crypto, closing, abandoned, dealloced, diskValues, ephemeral, clearing, switching>>
    BY <1>5 DEF SavePayloads, valueVars, statusVars, diskVars
  <2>2. b.items \in SUBSET Item /\ b.discardable \in SUBSET Item
    BY DiskStorageAssumption
  <2> QED BY <1>4, <1>5, <2>1, <2>2, SavesOnwardOf
<1>6. ASSUME (\E s \in SaveId : SaveEncrypted(s)) \/ PayloadsWritten \/ PayloadRemoved PROVE CloseInv'
  <2>1. UNCHANGED <<persist, crypto, closing, abandoned, dealloced, diskValues, ephemeral, clearing, switching>>
    BY <1>6 DEF SaveEncrypted, PayloadsWritten, PayloadRemoved, valueVars, statusVars, diskVars, history
  <2> QED BY <1>4, <1>6, <2>1, SavesOnwardOf
<1>7. CASE SwitchToEphemeral
  <2>1. /\ UNCHANGED <<persist, crypto, save, closing, abandoned, dealloced, diskValues, clearing>> /\ ephemeral'
        /\ switching = "no"
    BY <1>7 DEF SwitchToEphemeral, valueVars, diskVars
  <2>2. ErasingsOnward
    BY <2>1 DEF ErasingsOnward
  <2> QED BY <1>0, <2>1, <2>2, OnwardSame, SavesOnwardOf, CloseQuiet
<1>8. CASE AllPayloadsRemoved \/ AllValuesRemoved
  <2>1. UNCHANGED <<persist, crypto, save, closing, abandoned, dealloced, diskValues, ephemeral>>
    BY <1>8 DEF AllPayloadsRemoved, AllValuesRemoved, valueVars, statusVars, diskVars, history
  <2> QED BY <1>0, <1>8, <2>1, OnwardSame, SavesOnwardOf, EraseOnward, CloseQuiet
<1>9. CASE PersistEncrypted \/ ValuesWritten
  BY <1>0, <1>9, CloseWritten
<1>10. CASE EncryptionFails \/ WriteFails
  BY <1>0, <1>10, CloseFails
<1>11. CASE PrepareForDeinit
  <2>1. /\ closing' = Critical /\ ~dealloced' /\ ~dealloced
        /\ UNCHANGED <<persist, save, clearing, switching, abandoned>>
    BY <1>11 DEF PrepareForDeinit, valueVars, history
  <2>2. Awaited' \subseteq Critical
    BY <2>1 DEF Awaited
  <2>3. PersistEnds' /\ SaveEnds'
    BY <2>1, <2>2, CriticalIs DEF PersistEnds, SaveEnds
  <2>4. ErasingEnds'
    BY <2>1, <2>2, CriticalIs DEF CloseInv, ErasingEnds
  <2> QED BY <2>1, <2>3, <2>4 DEF CloseInv
<1>12. CASE Deinit
  BY <1>0, <1>12, CloseDeinit
<1>13. CASE Restart
  <2>1. closing' = {} /\ abandoned' = {} /\ clearing'.at = "no"
    BY <1>13 DEF Restart
  <2> QED BY <2>1 DEF CloseInv, PersistEnds, SaveEnds, ErasingEnds, Awaited
<1>14. CASE UNCHANGED vars
  <2>1. /\ UNCHANGED <<persist, crypto, closing, abandoned, dealloced, diskValues, ephemeral, clearing, switching>>
        /\ UNCHANGED save
    BY <1>14 DEF vars, valueVars, statusVars, diskVars, history
  <2> QED BY <1>4, <2>1, SavesOnwardOf
<1> QED
  BY <1>1, <1>2, <1>3, <1>5, <1>6, <1>7, <1>8, <1>9, <1>10, <1>11, <1>12, <1>13, <1>14
  DEF Next, EncryptionEnds, DeviceAnswers

(* When deinit is over, what was under way when it was asked for is on     *)
(* disk, or something newer is, unless the session has become an ephemeral *)
(* one, and an erasing is over: but for what lock() did not wait for       *)
(* (blockDeinit, executeCriticalFunction, lock).                           *)
THEOREM DiskStorageCriticalWritesOutliveDeinit == Spec => []CriticalWritesOutliveDeinit
<1>1. Init => BaseInv /\ OrderInv /\ ClearInv /\ SwitchInv /\ CloseInv
  <2>1. Init => CloseInv
    BY DEF Init, CloseInv, PersistEnds, SaveEnds, ErasingEnds, Awaited
  <2> QED BY <2>1, BaseInit, OrderInit, EraseInit
<1>2. /\ BaseInv /\ OrderInv /\ ClearInv /\ SwitchInv /\ CloseInv /\ [Next]_vars
      => (BaseInv /\ OrderInv /\ ClearInv /\ SwitchInv /\ CloseInv)'
  BY BaseNext, OrderNext, ClearNext, SwitchNext, CloseNext
<1>3. BaseInv /\ OrderInv /\ CloseInv => CriticalWritesOutliveDeinit
  <2> SUFFICES ASSUME BaseInv, OrderInv, CloseInv, dealloced, NEW c \in closing \ abandoned
               PROVE  /\ c[1] = "persist" => ephemeral \/ persist[c[2]].snap <= diskValues
                      /\ c[1] = "save" => ephemeral \/ \A u \in save[c[2]].items :
                                            diskPayloads[u].by >= c[2] \/ diskPayloads[u].by \in passed[c[2]]
                      /\ c[1] = "clear" => clearing.at = "done"
                      /\ c[1] \notin {"persist", "save", "clear"} => switching = "done"
    BY DEF CriticalWritesOutliveDeinit
  <2>1. c \in CriticalFunction /\ c \in Awaited
    BY BaseFacts DEF TypeOK, Awaited
  <2>2. CASE c \in {"persist"} \X Persist
    <3>1. PICK p \in Persist : c = <<"persist", p>>
      BY <2>2
    <3>2. ephemeral \/ persist[p].snap <= diskValues
      BY <2>1, <3>1 DEF CloseInv, PersistEnds
    <3> QED BY <3>1, <3>2
  <2>3. CASE c \in {"save"} \X SaveId
    <3>1. PICK s \in SaveId : c = <<"save", s>>
      BY <2>3
    <3>2. save[s].stage = "done"
      BY <2>1, <3>1 DEF CloseInv, SaveEnds
    <3>3. \A u \in save[s].items : diskPayloads[u].by >= s \/ diskPayloads[u].by \in passed[s]
      BY <3>2 DEF OrderInv, OnDisk, After
    <3> QED BY <3>1, <3>3
  <2>4. CASE c \in {"clear", "switch"} \X {None}
    BY <2>1, <2>4 DEF CloseInv, ErasingEnds
  <2> QED BY <2>1, <2>2, <2>3, <2>4 DEF CriticalFunction
<1> QED BY <1>1, <1>2, <1>3, PTL DEF Spec

=============================================================================
