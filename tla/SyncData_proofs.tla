--------------------------- MODULE SyncData_proofs ---------------------------
(***************************************************************************)
(* Theorems about SyncData, for any notes, page limit, edits, failures and *)
(* crashes, as long as neither race of the environment is let in: type     *)
(* correctness, that no edit and no mark of one is lost, and that the      *)
(* stored tokens skip nothing.                                             *)
(*                                                                         *)
(* The lemmas speak of a world w: what has been written and what the       *)
(* server has.  It only grows, and everything the client has is stated     *)
(* relative to it.  Two functions, which the program does not keep, say    *)
(* where contents come from: `origin` is the first content an item had,    *)
(* and `family` holds the contents that were ever found under its uuid.    *)
(***************************************************************************)
EXTENDS SyncData, FiniteSetTheorems, TLAPS

World(o, A) ==
  [origin |-> o, family |-> A, lineage |-> lineage, server |-> server, seq |-> serverSeq,
   received |-> received]

(* Content d was edited from content c, or is c.                           *)
From(w, d, c) == d \in DOMAIN w.lineage /\ c \in w.lineage[d]

(* One of the items D began with a content edited from c, and so whatever  *)
(* it became was edited from c.                                            *)
Held(w, c, D) == \E j \in D : From(w, w.origin[j], c)

(* Where the payload of i gives way to those of C, c is not lost.          *)
Stays(w, c, i, C) == (i \in DOMAIN C /\ From(w, C[i].content, c)) \/ Held(w, c, DOMAIN C)

LineageOK(w) ==
  /\ w.lineage \in Seq(SUBSET Nat)
  /\ \A c \in DOMAIN w.lineage : From(w, c, c)
  /\ \A c, d \in DOMAIN w.lineage : From(w, c, d) => w.lineage[d] \subseteq w.lineage[c]
  /\ \A c \in DOMAIN w.lineage : w.lineage[c] \subseteq DOMAIN w.lineage

FamilyOK(w, copy) ==
  /\ w.origin \in [Items -> Nat] /\ w.family \in [Items -> SUBSET Nat]
  /\ \A i \in Items : \A c \in w.family[i] : From(w, c, w.origin[i])
  /\ \A i \in Items : w.family[i] = {} => w.origin[i] = 0
  /\ \A c \in Copies :
       /\ copy[c] = 0 => w.family[c] = {}
       /\ copy[c] # 0 => /\ copy[c] \in Items \ {c} /\ w.family[copy[c]] # {}
                         /\ w.family[c] \cap w.family[copy[c]] \subseteq {w.origin[c]}

Within(w, C) == \A i \in DOMAIN C : C[i].content \in w.family[i]

ServerOK(w) ==
  /\ IsMap(w.server, ServerItem) /\ w.seq \in Nat /\ Within(w, w.server)
  /\ \A i \in DOMAIN w.server : w.server[i].rev <= w.seq /\ w.server[i].content \in w.received
  /\ w.received \subseteq DOMAIN w.lineage
  /\ \A c \in w.received : \E i \in DOMAIN w.server : From(w, w.server[i].content, c)

(* A payload of the revision the server has was edited from it, or the     *)
(* server's content is that of a copy among D: it may be overwritten.      *)
Based(w, C, D) ==
  \A i \in DOMAIN C :
    /\ C[i].rev <= w.seq
    /\ i \in DOMAIN w.server /\ C[i].rev = w.server[i].rev =>
         From(w, C[i].content, w.server[i].content) \/ Held(w, w.server[i].content, D)

(* What is not dirty has reached the server.                               *)
Marked(w, C) ==
  \A i \in DOMAIN C : C[i].dirty \/ (C[i].content \in w.received /\ i \in DOMAIN w.server)

Place(w, C, D) == IsMap(C, Payload) /\ Within(w, C) /\ Based(w, C, D) /\ Marked(w, C)

Indexed(C, n) ==
  \A i \in DOMAIN C : /\ C[i].dirtyIndex <= n /\ C[i].globalDirtyIndexAtLastSync <= n
                      /\ ~C[i].dirty => C[i].dirtyIndex = 0

(* What is on disk, or is about to be written there.                       *)
Written(q, dk) == IF q.pc = "persist" THEN Put(dk, q.emits[1]) ELSE dk

Follows(w, W, lc) ==
  /\ DOMAIN W = DOMAIN lc
  /\ \A i \in DOMAIN lc : /\ From(w, lc[i].content, W[i].content)
                          /\ ~lc[i].dirty => W[i].content = lc[i].content

(* The client, in the collection C, or the server has what c became.       *)
Safe(w, C, c) ==
  \/ \E i \in DOMAIN C : From(w, C[i].content, c)
  \/ \E i \in DOMAIN w.server : From(w, w.server[i].content, c)

Cover(w, C, gone) == \A c \in DOMAIN w.lineage \ gone : Safe(w, C, c)

(* The content that an edited item had before was not lost.                *)
PreviousOK(w, lc, pv, sent) ==
  /\ pv \in [Items -> Nat]
  /\ \A i \in Items \ DOMAIN lc : pv[i] = 0
  /\ \A i \in DOMAIN lc : pv[i] # 0 /\ (lc[i].dirty \/ i \in sent) =>
       From(w, lc[i].content, pv[i]) \/ Held(w, pv[i], DOMAIN lc)

TokensOK(w, dk, tk, stored) ==
  /\ tk \in Token /\ stored \in Token
  /\ Since(tk) <= w.seq /\ Since(stored) <= Since(tk)
  /\ \A k \in DOMAIN w.server :
       w.server[k].rev <= Since(tk) => Stays(w, w.server[k].content, k, dk)

UploadOK(w, U, D) == IsMap(U, ServerItem) /\ Within(w, U) /\ Based(w, U, D)

OrphansOK(w, given) == \A upload \in given : UploadOK(w, upload, DOMAIN upload \cup DOMAIN w.server)

-----------------------------------------------------------------------------
(* The operation, by stage.                                                *)

SyncFields == {"pc", "captured", "frozen", "mode", "request", "sent", "reply", "snapshot",
               "history", "emits"}

SyncOK(q, lc, n) ==
  /\ DOMAIN q = SyncFields /\ q.pc \in Stages /\ q.mode \in {"Default", "DownloadFirst"}
  /\ q.frozen \in Nat /\ q.frozen <= n
  /\ IsMap(q.captured, Payload) /\ IsMap(q.snapshot, Payload)
  /\ IsMap(q.request.upload, ServerItem)
  /\ q.sent \subseteq DOMAIN lc
  /\ q.pc \in {"idle", "presave"} => q.sent = {}
  /\ q.pc # "waiting" => DOMAIN q.request.upload = {}

PresaveOK(w, q, lc, dk) ==
  /\ Place(w, q.captured, DOMAIN dk)
  /\ \A i \in DOMAIN q.captured :
       /\ i \in DOMAIN lc /\ q.captured[i].dirty /\ lc[i].dirty
       /\ From(w, q.captured[i].content, dk[i].content)
       /\ From(w, lc[i].content, q.captured[i].content)
  /\ \A j \in DOMAIN lc : j \in DOMAIN q.captured \/ j \in DOMAIN w.server

WaitingOK(w, q, lc, tk) ==
  LET U == q.request.upload IN
  /\ UploadOK(w, U, (DOMAIN U \cup DOMAIN w.server) \cap DOMAIN lc)
  /\ q.request.since = Since(tk)
  /\ DOMAIN U \subseteq q.sent
  /\ \A i \in DOMAIN U :
       /\ lc[i].globalDirtyIndexAtLastSync = q.frozen
       /\ From(w, lc[i].content, U[i].content)
       /\ U[i].content = lc[i].content \/ StillDirty(lc[i])

(* What the server sent is what it has, or it has something newer.         *)
Sent(w, M) ==
  /\ IsMap(M, ServerItem) /\ Within(w, M)
  /\ \A i \in DOMAIN M :
       /\ i \in DOMAIN w.server /\ M[i].content \in w.received
       /\ M[i].rev <= w.server[i].rev
       /\ M[i].rev = w.server[i].rev => M[i].content = w.server[i].content

SavedOK(w, R, lc, tk) ==
  \A i \in DOMAIN R.saved :
    /\ i \in DOMAIN w.server /\ R.saved[i] \in Nat
    /\ R.saved[i] <= w.server[i].rev /\ Since(tk) < R.saved[i]
    /\ R.saved[i] = w.server[i].rev => From(w, lc[i].content, w.server[i].content)
    /\ lc[i].content \in w.received \/ StillDirty(lc[i])
    /\ i \in DOMAIN R.retrieved =>
         \/ From(w, lc[i].content, R.retrieved[i].content)
         \/ Held(w, R.retrieved[i].content, DOMAIN lc)

TokenOK(w, token, tk) ==
  token \in Token /\ Since(tk) <= Since(token) /\ Since(token) <= w.seq

(* What the new token says the client has is in the answer, if the client  *)
(* did not have it before.                                                 *)
Complete(w, R, tk) ==
  \A k \in DOMAIN w.server : w.server[k].rev <= Since(R.token) =>
    \/ w.server[k].rev <= Since(tk)
    \/ k \in DOMAIN R.retrieved /\ R.retrieved[k] = w.server[k]
    \/ k \in DOMAIN R.conflicts /\ R.conflicts[k] = w.server[k]
    \/ k \in DOMAIN R.saved /\ R.saved[k] = w.server[k].rev

ReplyOK(w, q, lc, tk) ==
  LET R == q.reply IN
  /\ Sent(w, R.retrieved) /\ Sent(w, R.conflicts)
  /\ \A i \in DOMAIN R.retrieved : Since(tk) < R.retrieved[i].rev
  /\ DOMAIN R.conflicts \cup DOMAIN R.saved \subseteq q.sent
  /\ DOMAIN R.conflicts \cap (DOMAIN R.saved \cup DOMAIN R.retrieved) = {}
  /\ \A i \in DOMAIN R.saved : lc[i].globalDirtyIndexAtLastSync = q.frozen
  /\ SavedOK(w, R, lc, tk) /\ TokenOK(w, R.token, tk) /\ Complete(w, R, tk)

(* The snapshot is that of the collection, as far as it is used.           *)
ResolveOK(w, q, lc, pv) ==
  /\ DOMAIN q.snapshot = DOMAIN lc /\ Within(w, q.snapshot)
  /\ \A i \in Affected(q.reply) \cap DOMAIN lc : q.snapshot[i] = lc[i] /\ q.history[i] = pv[i]

(* Where c gives way to emit e, under i: it stays, or the server has it,   *)
(* and something newer for i.                                              *)
Replaces(w, tk, c, i, e) ==
  \/ Stays(w, c, i, e)
  \/ c \in w.received /\ (i \in DOMAIN w.server => Since(tk) < w.server[i].rev)

Follower(w, c, i, e, lc) == From(w, e[i].content, c) \/ Held(w, c, DOMAIN lc \cup DOMAIN e)

EmitOK(w, e, dk, tk, n) ==
  /\ Place(w, e, DOMAIN dk \cup DOMAIN e) /\ Indexed(e, n)
  /\ \A i \in DOMAIN e \cap DOMAIN dk : Replaces(w, tk, dk[i].content, i, e)

(* An emit that is not applied yet.                                        *)
LaterOK(w, e, lc, sent) ==
  \A i \in DOMAIN e \cap DOMAIN lc : i \in sent /\ Follower(w, lc[i].content, i, e, lc)

PairOK(w, f, e, lc, tk) ==
  \A i \in DOMAIN f \cap DOMAIN e :
    i \in DOMAIN lc /\ Replaces(w, tk, f[i].content, i, e) /\ Follower(w, f[i].content, i, e, lc)

Nth(es, k) == IF k <= Len(es) THEN es[k] ELSE NoItems
Final(dk, es) == Put(Put(Put(dk, Nth(es, 1)), Nth(es, 2)), Nth(es, 3))

FinalOK(w, es, dk, token) ==
  \A k \in DOMAIN w.server :
    w.server[k].rev <= Since(token) => Stays(w, w.server[k].content, k, Final(dk, es))

PersistOK(w, q, lc, dk, tk, n) ==
  LET es == q.emits IN
  /\ Len(es) \in 1..3 /\ es = [k \in 1..Len(es) |-> es[k]]
  /\ \A k \in 1..Len(es) : EmitOK(w, es[k], dk, tk, n)
  /\ \A k \in 2..Len(es) : LaterOK(w, es[k], lc, q.sent)
  /\ \A k \in 1..Len(es) : \A m \in 1..Len(es) : m < k => PairOK(w, es[m], es[k], lc, tk)
  /\ TokenOK(w, q.reply.token, tk) /\ FinalOK(w, es, dk, q.reply.token)

-----------------------------------------------------------------------------
(* The inductive invariant.                                                *)

Types ==
  /\ dirtyCount \in Nat /\ copyOf \in [Copies -> Nat] /\ completedDownloadFirst \in BOOLEAN
  /\ Indexed(local, dirtyCount)
  /\ \A i \in DOMAIN disk : disk[i].dirtyIndex = 0 /\ disk[i].globalDirtyIndexAtLastSync = 0
  /\ unsaved \cup forgotten \subseteq Contents

Places(w) == Place(w, local, DOMAIN local) /\ Place(w, disk, DOMAIN disk)

Rest(w) == /\ Follows(w, Written(sync, disk), local)
           /\ PreviousOK(w, local, previous, sync.sent)
           /\ TokensOK(w, disk, tokens, storedTokens)
           /\ OrphansOK(w, orphans)

Covers(w) == Cover(w, local, forgotten) /\ Cover(w, disk, forgotten \cup unsaved)

Staged(w) ==
  /\ SyncOK(sync, local, dirtyCount)
  /\ sync.pc = "presave" => PresaveOK(w, sync, local, disk)
  /\ sync.pc = "waiting" => WaitingOK(w, sync, local, tokens)
  /\ sync.pc \in {"answered", "resolve"} => ReplyOK(w, sync, local, tokens)
  /\ sync.pc = "resolve" => ResolveOK(w, sync, local, previous)
  /\ sync.pc = "persist" => PersistOK(w, sync, local, disk, tokens, dirtyCount)

WorldOK(w) == LineageOK(w) /\ FamilyOK(w, copyOf) /\ ServerOK(w)

InvOf(o, A) == LET w == World(o, A) IN
  Types /\ WorldOK(w) /\ Places(w) /\ Rest(w) /\ Covers(w) /\ Staged(w)

IInv == \E o, A : InvOf(o, A)

-----------------------------------------------------------------------------
(* What was edited from what.                                              *)

LEMMA FromTransitive ==
  ASSUME NEW w, LineageOK(w), NEW c, NEW d, NEW e, From(w, e, d), From(w, d, c)
  PROVE  From(w, e, c)
BY DEF LineageOK, From

LEMMA FromItself ==
  ASSUME NEW w, LineageOK(w), NEW copy, FamilyOK(w, copy), NEW C, IsMap(C, Payload), Within(w, C), NEW i \in DOMAIN C
  PROVE  From(w, C[i].content, C[i].content) /\ C[i].content \in DOMAIN w.lineage
         /\ From(w, C[i].content, w.origin[i])
<1>1. i \in Items /\ C[i].content \in w.family[i]
  BY DEF IsMap, Within
<1>2. From(w, C[i].content, w.origin[i])
  BY <1>1 DEF FamilyOK
<1>3. QED BY <1>2 DEF LineageOK, From

(* A content held by an item of C is not lost where C is.                  *)
LEMMA HeldIsThere ==
  ASSUME NEW w, LineageOK(w), NEW copy, FamilyOK(w, copy),
         NEW C, DOMAIN C \subseteq Items, Within(w, C), NEW c, NEW D, Held(w, c, D), D \subseteq DOMAIN C
  PROVE  \E j \in DOMAIN C : From(w, C[j].content, c)
<1>1. PICK j \in D : From(w, w.origin[j], c)
  BY DEF Held
<1>2. j \in Items /\ C[j].content \in w.family[j]
  BY DEF Within
<1>3. From(w, C[j].content, w.origin[j])
  BY <1>2 DEF FamilyOK
<1>4. QED BY <1>1, <1>3, FromTransitive

LEMMA StaysIsThere ==
  ASSUME NEW w, LineageOK(w), NEW copy, FamilyOK(w, copy),
         NEW C, DOMAIN C \subseteq Items, Within(w, C), NEW c, NEW i, Stays(w, c, i, C)
  PROVE  \E j \in DOMAIN C : From(w, C[j].content, c)
<1>1. CASE i \in DOMAIN C /\ From(w, C[i].content, c)
  BY <1>1
<1>2. CASE Held(w, c, DOMAIN C)
  BY <1>2, HeldIsThere
<1>3. QED BY <1>1, <1>2 DEF Stays

LEMMA HeldFrom ==
  ASSUME NEW w, LineageOK(w), NEW c, NEW d, NEW D, NEW E, From(w, d, c), Held(w, d, D), D \subseteq E
  PROVE  Held(w, c, E)
BY FromTransitive DEF Held

LEMMA StaysFrom ==
  ASSUME NEW w, LineageOK(w), NEW c, NEW d, NEW i, NEW C, From(w, d, c), Stays(w, d, i, C)
  PROVE  Stays(w, c, i, C)
BY FromTransitive, HeldFrom DEF Stays

-----------------------------------------------------------------------------
(* The world only grows.                                                   *)

Grows(w, v) ==
  /\ \A i \in Items : /\ w.family[i] \subseteq v.family[i]
                      /\ w.origin[i] # 0 => v.origin[i] = w.origin[i]
  /\ \A c \in DOMAIN w.lineage : c \in DOMAIN v.lineage /\ v.lineage[c] = w.lineage[c]
  /\ DOMAIN w.server \subseteq DOMAIN v.server /\ w.received \subseteq v.received
  /\ w.seq \in Nat /\ v.seq \in Nat /\ w.seq <= v.seq
  /\ IsMap(v.server, ServerItem)
  /\ \A i \in DOMAIN v.server :
       \/ i \in DOMAIN w.server /\ v.server[i] = w.server[i]
       \/ w.seq < v.server[i].rev

LEMMA FromGrows ==
  ASSUME NEW w, NEW v, Grows(w, v), NEW d, NEW c, From(w, d, c)
  PROVE  From(v, d, c)
BY DEF Grows, From

LEMMA HeldGrows ==
  ASSUME NEW w, NEW v, LineageOK(w), Grows(w, v), NEW c, NEW D, NEW E,
         D \subseteq Items, D \subseteq E, Held(w, c, D)
  PROVE  Held(v, c, E)
<1>1. PICK j \in D : From(w, w.origin[j], c)
  BY DEF Held
<1>2. w.origin[j] # 0
  BY <1>1 DEF From, LineageOK
<1>3. v.origin[j] = w.origin[j]
  BY <1>2 DEF Grows
<1>4. QED BY <1>1, <1>3, FromGrows DEF Held

LEMMA StaysGrows ==
  ASSUME NEW w, NEW v, LineageOK(w), Grows(w, v), NEW c, NEW i, NEW C,
         DOMAIN C \subseteq Items, Stays(w, c, i, C)
  PROVE  Stays(v, c, i, C)
BY FromGrows, HeldGrows DEF Stays

LEMMA WithinGrows ==
  ASSUME NEW w, NEW v, Grows(w, v), NEW C, DOMAIN C \subseteq Items, Within(w, C)
  PROVE  Within(v, C)
BY DEF Within, Grows

(* A revision that the server has and that is not new, it had before.      *)
LEMMA OldRevision ==
  ASSUME NEW w, NEW v, Grows(w, v), NEW i \in DOMAIN v.server, NEW r \in Nat, r <= w.seq, v.server[i].rev <= r
  PROVE  i \in DOMAIN w.server /\ v.server[i] = w.server[i]
<1>1. v.server[i].rev \in Nat
  BY DEF Grows, IsMap, ServerItem
<1>2. QED BY <1>1 DEF Grows

LEMMA BasedGrows ==
  ASSUME NEW w, NEW v, LineageOK(w), Grows(w, v), NEW C, NEW D, NEW E, D \subseteq Items, D \subseteq E,
         \A i \in DOMAIN C : C[i].rev \in Nat, Based(w, C, D)
  PROVE  Based(v, C, E)
<1> SUFFICES ASSUME NEW i \in DOMAIN C
             PROVE  /\ C[i].rev <= v.seq
                    /\ i \in DOMAIN v.server /\ C[i].rev = v.server[i].rev =>
                         From(v, C[i].content, v.server[i].content) \/ Held(v, v.server[i].content, E)
  BY DEF Based
<1>1. C[i].rev \in Nat /\ C[i].rev <= w.seq /\ w.seq <= v.seq /\ w.seq \in Nat /\ v.seq \in Nat
  BY DEF Based, Grows
<1>2. ASSUME i \in DOMAIN v.server, C[i].rev = v.server[i].rev
      PROVE  From(v, C[i].content, v.server[i].content) \/ Held(v, v.server[i].content, E)
  <2>1. i \in DOMAIN w.server /\ v.server[i] = w.server[i]
    BY <1>1, <1>2, OldRevision
  <2>2. From(w, C[i].content, v.server[i].content) \/ Held(w, v.server[i].content, D)
    BY <1>2, <2>1 DEF Based
  <2>3. QED BY <2>2, FromGrows, HeldGrows
<1>3. QED BY <1>1, <1>2

LEMMA PlaceGrows ==
  ASSUME NEW w, NEW v, LineageOK(w), Grows(w, v), NEW C, NEW D, NEW E, D \subseteq Items, D \subseteq E,
         Place(w, C, D)
  PROVE  Place(v, C, E)
<1>1. \A i \in DOMAIN C : C[i].rev \in Nat
  BY DEF Place, IsMap, Payload
<1>2. Based(v, C, E)
  BY <1>1, BasedGrows DEF Place
<1>3. Within(v, C)
  BY WithinGrows DEF Place, IsMap
<1>4. Marked(v, C)
  BY DEF Place, Marked, Grows
<1>5. QED BY <1>2, <1>3, <1>4 DEF Place

LEMMA FollowsGrows ==
  ASSUME NEW w, NEW v, Grows(w, v), NEW W, NEW lc, Follows(w, W, lc)
  PROVE  Follows(v, W, lc)
BY FromGrows DEF Follows

LEMMA PreviousGrows ==
  ASSUME NEW w, NEW v, LineageOK(w), Grows(w, v), NEW lc, NEW pv, NEW sent, DOMAIN lc \subseteq Items,
         PreviousOK(w, lc, pv, sent)
  PROVE  PreviousOK(v, lc, pv, sent)
BY FromGrows, HeldGrows DEF PreviousOK

LEMMA TokensGrow ==
  ASSUME NEW w, NEW v, LineageOK(w), Grows(w, v), NEW dk, NEW tk, NEW stored, DOMAIN dk \subseteq Items,
         TokensOK(w, dk, tk, stored)
  PROVE  TokensOK(v, dk, tk, stored)
<1>1. Since(tk) \in Nat /\ Since(stored) \in Nat
  BY DEF TokensOK, Since, Token
<1>2. Since(tk) <= v.seq
  BY <1>1 DEF TokensOK, Grows
<1>3. ASSUME NEW k \in DOMAIN v.server, v.server[k].rev <= Since(tk)
      PROVE  Stays(v, v.server[k].content, k, dk)
  <2>1. k \in DOMAIN w.server /\ v.server[k] = w.server[k]
    BY <1>1, <1>3, OldRevision DEF TokensOK
  <2>2. Stays(w, v.server[k].content, k, dk)
    BY <1>3, <2>1 DEF TokensOK
  <2>3. QED BY <2>2, StaysGrows
<1>4. QED BY <1>2, <1>3 DEF TokensOK

LEMMA UploadGrows ==
  ASSUME NEW w, NEW v, LineageOK(w), Grows(w, v), NEW U, NEW D, NEW E, D \subseteq Items, D \subseteq E,
         UploadOK(w, U, D)
  PROVE  UploadOK(v, U, E)
<1>1. \A i \in DOMAIN U : U[i].rev \in Nat
  BY DEF UploadOK, IsMap, ServerItem
<1>2. Based(v, U, E)
  BY <1>1, BasedGrows DEF UploadOK
<1>3. Within(v, U)
  BY WithinGrows DEF UploadOK, IsMap
<1>4. QED BY <1>2, <1>3 DEF UploadOK

LEMMA OrphansGrow ==
  ASSUME NEW w, NEW v, LineageOK(w), ServerOK(w), Grows(w, v), NEW given, OrphansOK(w, given)
  PROVE  OrphansOK(v, given)
<1> SUFFICES ASSUME NEW U \in given PROVE UploadOK(v, U, DOMAIN U \cup DOMAIN v.server)
  BY DEF OrphansOK
<1> DEFINE D == DOMAIN U \cup DOMAIN w.server
           E == DOMAIN U \cup DOMAIN v.server
<1>1. UploadOK(w, U, D)
  BY DEF OrphansOK
<1>2. D \subseteq Items /\ D \subseteq E
  BY <1>1 DEF UploadOK, IsMap, ServerOK, Grows
<1> HIDE DEF D, E
<1>3. UploadOK(v, U, E)
  BY <1>1, <1>2, UploadGrows
<1>4. QED BY <1>3 DEF E

LEMMA PresaveGrows ==
  ASSUME NEW w, NEW v, LineageOK(w), Grows(w, v), NEW q, NEW lc, NEW dk, DOMAIN dk \subseteq Items,
         PresaveOK(w, q, lc, dk)
  PROVE  PresaveOK(v, q, lc, dk)
<1>1. Place(v, q.captured, DOMAIN dk)
  BY PlaceGrows DEF PresaveOK
<1>2. QED BY <1>1, FromGrows DEF PresaveOK, Grows

LEMMA WaitingGrows ==
  ASSUME NEW w, NEW v, LineageOK(w), ServerOK(w), Grows(w, v), NEW q, NEW lc, NEW tk,
         DOMAIN lc \subseteq Items, WaitingOK(w, q, lc, tk)
  PROVE  WaitingOK(v, q, lc, tk)
<1> DEFINE U == q.request.upload
           D == (DOMAIN U \cup DOMAIN w.server) \cap DOMAIN lc
           E == (DOMAIN U \cup DOMAIN v.server) \cap DOMAIN lc
<1>1. UploadOK(w, U, D) /\ D \subseteq Items /\ D \subseteq E
  BY DEF WaitingOK, Grows
<1> HIDE DEF D, E
<1>2. UploadOK(v, U, E)
  BY <1>1, UploadGrows
<1>3. \A i \in DOMAIN U : From(w, lc[i].content, U[i].content) => From(v, lc[i].content, U[i].content)
  BY FromGrows
<1>4. QED BY <1>2, <1>3 DEF WaitingOK, E

LEMMA SentGrows ==
  ASSUME NEW w, NEW v, ServerOK(w), Grows(w, v), NEW M, Sent(w, M)
  PROVE  Sent(v, M)
<1>1. Within(v, M)
  BY WithinGrows DEF Sent, IsMap
<1>2. ASSUME NEW i \in DOMAIN M
      PROVE  /\ i \in DOMAIN v.server /\ M[i].content \in v.received /\ M[i].rev <= v.server[i].rev
             /\ M[i].rev = v.server[i].rev => M[i].content = v.server[i].content
  <2>1. /\ i \in DOMAIN w.server /\ M[i].content \in w.received /\ M[i].rev <= w.server[i].rev
        /\ M[i].rev = w.server[i].rev => M[i].content = w.server[i].content
    BY DEF Sent
  <2>2. i \in DOMAIN v.server /\ M[i].content \in v.received
    BY <2>1 DEF Grows
  <2>3. M[i].rev \in Nat /\ w.server[i].rev \in Nat /\ v.server[i].rev \in Nat /\ w.seq \in Nat
        /\ w.server[i].rev <= w.seq
    BY <2>1, <2>2 DEF Sent, IsMap, ServerItem, ServerOK, Grows
  <2>4. CASE v.server[i] = w.server[i]
    BY <2>1, <2>2, <2>4
  <2>5. CASE w.seq < v.server[i].rev
    BY <2>1, <2>2, <2>3, <2>5
  <2>6. QED BY <2>2, <2>4, <2>5 DEF Grows
<1>3. QED BY <1>1, <1>2 DEF Sent

LEMMA SavedGrows ==
  ASSUME NEW w, NEW v, LineageOK(w), ServerOK(w), Grows(w, v), NEW R, NEW lc, NEW tk,
         DOMAIN lc \subseteq Items, SavedOK(w, R, lc, tk)
  PROVE  SavedOK(v, R, lc, tk)
<1> SUFFICES ASSUME NEW i \in DOMAIN R.saved
             PROVE  /\ i \in DOMAIN v.server /\ R.saved[i] \in Nat
                    /\ R.saved[i] <= v.server[i].rev /\ Since(tk) < R.saved[i]
                    /\ R.saved[i] = v.server[i].rev => From(v, lc[i].content, v.server[i].content)
                    /\ lc[i].content \in v.received \/ StillDirty(lc[i])
                    /\ i \in DOMAIN R.retrieved =>
                         \/ From(v, lc[i].content, R.retrieved[i].content)
                         \/ Held(v, R.retrieved[i].content, DOMAIN lc)
  BY DEF SavedOK
<1>1. /\ i \in DOMAIN w.server /\ R.saved[i] \in Nat
      /\ R.saved[i] <= w.server[i].rev /\ Since(tk) < R.saved[i]
      /\ R.saved[i] = w.server[i].rev => From(w, lc[i].content, w.server[i].content)
      /\ lc[i].content \in w.received \/ StillDirty(lc[i])
  BY DEF SavedOK
<1>2. i \in DOMAIN R.retrieved => \/ From(w, lc[i].content, R.retrieved[i].content)
                                  \/ Held(w, R.retrieved[i].content, DOMAIN lc)
  BY DEF SavedOK
<1>3. i \in DOMAIN v.server /\ (lc[i].content \in v.received \/ StillDirty(lc[i]))
  BY <1>1 DEF Grows
<1>4. w.server[i].rev \in Nat /\ v.server[i].rev \in Nat /\ w.seq \in Nat /\ w.server[i].rev <= w.seq
  BY <1>1, <1>3 DEF IsMap, ServerItem, ServerOK, Grows
<1>5. /\ R.saved[i] <= v.server[i].rev
      /\ R.saved[i] = v.server[i].rev => From(v, lc[i].content, v.server[i].content)
  <2>1. CASE v.server[i] = w.server[i]
    BY <1>1, <2>1, FromGrows
  <2>2. CASE w.seq < v.server[i].rev
    BY <1>1, <1>4, <2>2
  <2>3. QED BY <1>3, <2>1, <2>2 DEF Grows
<1>6. i \in DOMAIN R.retrieved => \/ From(v, lc[i].content, R.retrieved[i].content)
                                  \/ Held(v, R.retrieved[i].content, DOMAIN lc)
  BY <1>2, FromGrows, HeldGrows
<1>7. QED BY <1>1, <1>3, <1>5, <1>6

LEMMA TokenGrows ==
  ASSUME NEW w, NEW v, Grows(w, v), NEW token, NEW tk, TokenOK(w, token, tk)
  PROVE  TokenOK(v, token, tk)
<1>1. Since(token) \in Nat
  BY DEF TokenOK, Since, Token
<1>2. QED BY <1>1 DEF TokenOK, Grows

LEMMA ReplyGrows ==
  ASSUME NEW w, NEW v, LineageOK(w), ServerOK(w), Grows(w, v), NEW q, NEW lc, NEW tk,
         DOMAIN lc \subseteq Items, ReplyOK(w, q, lc, tk)
  PROVE  ReplyOK(v, q, lc, tk)
<1> DEFINE R == q.reply
<1>1. Sent(v, R.retrieved) /\ Sent(v, R.conflicts)
  BY SentGrows DEF ReplyOK
<1>2. SavedOK(v, R, lc, tk)
  BY SavedGrows DEF ReplyOK
<1>3. TokenOK(v, R.token, tk)
  BY TokenGrows DEF ReplyOK
<1>4. Complete(v, R, tk)
  <2> SUFFICES ASSUME NEW k \in DOMAIN v.server, v.server[k].rev <= Since(R.token)
               PROVE  \/ v.server[k].rev <= Since(tk)
                      \/ k \in DOMAIN R.retrieved /\ R.retrieved[k] = v.server[k]
                      \/ k \in DOMAIN R.conflicts /\ R.conflicts[k] = v.server[k]
                      \/ k \in DOMAIN R.saved /\ R.saved[k] = v.server[k].rev
    BY DEF Complete
  <2>1. Since(R.token) \in Nat /\ Since(R.token) <= w.seq
    BY DEF ReplyOK, TokenOK, Since, Token
  <2>2. k \in DOMAIN w.server /\ v.server[k] = w.server[k]
    BY <2>1, OldRevision
  <2>3. QED BY <2>2 DEF ReplyOK, Complete
<1>5. QED BY <1>1, <1>2, <1>3, <1>4 DEF ReplyOK

LEMMA ResolveGrows ==
  ASSUME NEW w, NEW v, Grows(w, v), NEW q, NEW lc, NEW pv, DOMAIN lc \subseteq Items, ResolveOK(w, q, lc, pv)
  PROVE  ResolveOK(v, q, lc, pv)
BY WithinGrows DEF ResolveOK

LEMMA ReplacesGrows ==
  ASSUME NEW w, NEW v, LineageOK(w), ServerOK(w), Grows(w, v), NEW tk, NEW token, TokenOK(w, token, tk), tk \in Token,
         NEW c, NEW i \in Items, NEW e, DOMAIN e \subseteq Items, Replaces(w, tk, c, i, e)
  PROVE  Replaces(v, tk, c, i, e)
<1>1. CASE Stays(w, c, i, e)
  BY <1>1, StaysGrows DEF Replaces
<1>2. CASE c \in w.received /\ (i \in DOMAIN w.server => Since(tk) < w.server[i].rev)
  <2>1. Since(tk) \in Nat /\ Since(tk) <= w.seq
    BY DEF TokenOK, Since, Token, Grows
  <2>2. i \in DOMAIN v.server => Since(tk) < v.server[i].rev
    <3> SUFFICES ASSUME i \in DOMAIN v.server PROVE Since(tk) < v.server[i].rev
      OBVIOUS
    <3>1. v.server[i].rev \in Nat
      BY DEF Grows, IsMap, ServerItem
    <3>2. ~(v.server[i].rev <= Since(tk))
      BY <1>2, <2>1, <3>1, OldRevision
    <3>3. QED BY <2>1, <3>1, <3>2
  <2>3. QED BY <1>2, <2>2 DEF Replaces, Grows
<1>3. QED BY <1>1, <1>2 DEF Replaces

LEMMA FollowerGrows ==
  ASSUME NEW w, NEW v, LineageOK(w), Grows(w, v), NEW c, NEW i, NEW e, NEW lc, NEW ld,
         DOMAIN lc \cup DOMAIN e \subseteq Items, DOMAIN lc \subseteq DOMAIN ld, Follower(w, c, i, e, lc)
  PROVE  Follower(v, c, i, e, ld)
<1> DEFINE D == DOMAIN lc \cup DOMAIN e
           E == DOMAIN ld \cup DOMAIN e
<1>1. D \subseteq E /\ D \subseteq Items
  OBVIOUS
<1>2. CASE From(w, e[i].content, c)
  BY <1>2, FromGrows DEF Follower
<1>3. CASE Held(w, c, D)
  <2> HIDE DEF D, E
  <2>1. Held(v, c, E)
    BY <1>1, <1>3, HeldGrows
  <2>2. QED BY <2>1 DEF Follower, E
<1>4. QED BY <1>2, <1>3 DEF Follower

LEMMA EmitGrows ==
  ASSUME NEW w, NEW v, LineageOK(w), ServerOK(w), Grows(w, v), NEW e, NEW dk, NEW tk, NEW token, NEW n,
         tk \in Token, TokenOK(w, token, tk), DOMAIN dk \subseteq Items, EmitOK(w, e, dk, tk, n)
  PROVE  EmitOK(v, e, dk, tk, n)
<1> DEFINE D == DOMAIN dk \cup DOMAIN e
<1>1. D \subseteq Items /\ DOMAIN e \subseteq Items
  BY DEF EmitOK, Place, IsMap
<1>2. Place(w, e, D)
  BY DEF EmitOK
<1>3. Place(v, e, D)
  <2> HIDE DEF D
  <2>1. QED BY <1>1, <1>2, PlaceGrows
<1>4. \A i \in DOMAIN e \cap DOMAIN dk : Replaces(v, tk, dk[i].content, i, e)
  <2> SUFFICES ASSUME NEW i \in DOMAIN e \cap DOMAIN dk PROVE Replaces(v, tk, dk[i].content, i, e)
    OBVIOUS
  <2>1. i \in Items /\ Replaces(w, tk, dk[i].content, i, e)
    BY <1>1 DEF EmitOK
  <2>2. QED BY <1>1, <2>1, ReplacesGrows
<1>5. QED BY <1>3, <1>4 DEF EmitOK

LEMMA PairGrows ==
  ASSUME NEW w, NEW v, LineageOK(w), ServerOK(w), Grows(w, v), NEW f, NEW e, NEW lc, NEW tk, NEW token,
         tk \in Token, TokenOK(w, token, tk), DOMAIN lc \subseteq Items, DOMAIN e \subseteq Items,
         PairOK(w, f, e, lc, tk)
  PROVE  PairOK(v, f, e, lc, tk)
<1> SUFFICES ASSUME NEW i \in DOMAIN f \cap DOMAIN e
             PROVE  i \in DOMAIN lc /\ Replaces(v, tk, f[i].content, i, e) /\ Follower(v, f[i].content, i, e, lc)
  BY DEF PairOK
<1>1. i \in DOMAIN lc /\ Replaces(w, tk, f[i].content, i, e) /\ Follower(w, f[i].content, i, e, lc)
  BY DEF PairOK
<1>2. i \in Items /\ DOMAIN lc \cup DOMAIN e \subseteq Items
  OBVIOUS
<1>3. QED BY <1>1, <1>2, ReplacesGrows, FollowerGrows

LEMMA PersistGrows ==
  ASSUME NEW w, NEW v, LineageOK(w), ServerOK(w), Grows(w, v), NEW q, NEW lc, NEW dk, NEW tk, NEW n,
         tk \in Token, DOMAIN dk \subseteq Items, DOMAIN lc \subseteq Items, PersistOK(w, q, lc, dk, tk, n)
  PROVE  PersistOK(v, q, lc, dk, tk, n)
<1> DEFINE es == q.emits
           token == q.reply.token
<1>1. TokenOK(w, token, tk) /\ TokenOK(v, token, tk)
  BY TokenGrows DEF PersistOK
<1>2. \A k \in 1..Len(es) : EmitOK(w, es[k], dk, tk, n) /\ DOMAIN es[k] \subseteq Items
  BY DEF PersistOK, EmitOK, Place, IsMap
<1>3. \A k \in 1..Len(es) : EmitOK(v, es[k], dk, tk, n)
  BY <1>1, <1>2, EmitGrows
<1>4. Len(es) \in 1..3
  BY DEF PersistOK
<1>5. \A k \in 2..Len(es) : LaterOK(v, es[k], lc, q.sent)
  <2> SUFFICES ASSUME NEW k \in 2..Len(es), NEW i \in DOMAIN es[k] \cap DOMAIN lc
               PROVE  i \in q.sent /\ Follower(v, lc[i].content, i, es[k], lc)
    BY DEF LaterOK
  <2>1. i \in q.sent /\ Follower(w, lc[i].content, i, es[k], lc)
    BY DEF PersistOK, LaterOK
  <2>2. DOMAIN lc \cup DOMAIN es[k] \subseteq Items
    BY <1>2, <1>4
  <2>3. QED BY <2>1, <2>2, FollowerGrows
<1>6. \A k \in 1..Len(es) : \A m \in 1..Len(es) : m < k => PairOK(v, es[m], es[k], lc, tk)
  <2> SUFFICES ASSUME NEW k \in 1..Len(es), NEW m \in 1..Len(es), m < k PROVE PairOK(v, es[m], es[k], lc, tk)
    OBVIOUS
  <2>1. PairOK(w, es[m], es[k], lc, tk)
    BY DEF PersistOK
  <2>2. DOMAIN es[k] \subseteq Items
    BY <1>2
  <2>3. QED BY <1>1, <2>1, <2>2, PairGrows
<1>7. FinalOK(v, es, dk, token)
  <2> SUFFICES ASSUME NEW k \in DOMAIN v.server, v.server[k].rev <= Since(token)
               PROVE  Stays(v, v.server[k].content, k, Final(dk, es))
    BY DEF FinalOK
  <2>1. Since(token) \in Nat /\ Since(token) <= w.seq
    BY <1>1 DEF TokenOK, Since, Token
  <2>2. k \in DOMAIN w.server /\ v.server[k] = w.server[k]
    BY <2>1, OldRevision
  <2>3. Stays(w, v.server[k].content, k, Final(dk, es))
    BY <2>2 DEF PersistOK, FinalOK
  <2>4. DOMAIN Final(dk, es) \subseteq Items
    <3>1. \A k2 \in 1..3 : DOMAIN Nth(es, k2) \subseteq Items
      BY <1>2, <1>4 DEF Nth, NoItems
    <3>2. QED BY <3>1 DEF Final, Put
  <2>5. QED BY <2>3, <2>4, StaysGrows
<1>8. QED BY <1>1, <1>3, <1>5, <1>6, <1>7 DEF PersistOK

(* What the client has stays in order when the world grows.                 *)
LEMMA ClientGrows ==
  ASSUME NEW w, NEW v, LineageOK(w), ServerOK(w), Grows(w, v), Places(w), Rest(w), Staged(w)
  PROVE  Places(v) /\ Rest(v) /\ Staged(v)
<1>1. DOMAIN local \subseteq Items /\ DOMAIN disk \subseteq Items /\ tokens \in Token
  BY DEF Places, Place, IsMap, Rest, TokensOK
<1>2. Places(v)
  BY <1>1, PlaceGrows DEF Places
<1>3. Rest(v)
  BY <1>1, FollowsGrows, PreviousGrows, TokensGrow, OrphansGrow DEF Rest
<1>4. Staged(v)
  BY <1>1, PresaveGrows, WaitingGrows, ReplyGrows, ResolveGrows, PersistGrows DEF Staged
<1>5. QED BY <1>2, <1>3, <1>4

-----------------------------------------------------------------------------
(* Coverage.                                                               *)

LEMMA ReceivedIsSafe ==
  ASSUME NEW w, ServerOK(w), NEW C, NEW c \in w.received
  PROVE  Safe(w, C, c)
BY DEF ServerOK, Safe

LEMMA SafeFrom ==
  ASSUME NEW w, LineageOK(w), NEW C, NEW c, NEW d, From(w, d, c), Safe(w, C, d)
  PROVE  Safe(w, C, c)
BY FromTransitive DEF Safe

(* What the world had is still covered, if what was covered by C is.       *)
LEMMA CoverGrows ==
  ASSUME NEW w, NEW v, LineageOK(v), ServerOK(w), ServerOK(v), Grows(w, v), NEW C, NEW D, NEW gone, NEW lost,
         Cover(w, C, gone), \A i \in DOMAIN C : Safe(v, D, C[i].content),
         \A c \in DOMAIN v.lineage : c \in DOMAIN w.lineage \ gone \/ c \in lost \/ Safe(v, D, c)
  PROVE  Cover(v, D, lost)
<1> SUFFICES ASSUME NEW c \in DOMAIN w.lineage \ gone PROVE Safe(v, D, c)
  BY DEF Cover
<1>1. CASE \E i \in DOMAIN C : From(w, C[i].content, c)
  <2>1. PICK i \in DOMAIN C : From(w, C[i].content, c)
    BY <1>1
  <2>2. From(v, C[i].content, c)
    BY <2>1, FromGrows
  <2>3. QED BY <2>2, SafeFrom
<1>2. CASE \E i \in DOMAIN w.server : From(w, w.server[i].content, c)
  <2>1. PICK i \in DOMAIN w.server : From(w, w.server[i].content, c)
    BY <1>2
  <2>2. From(v, w.server[i].content, c) /\ w.server[i].content \in v.received
    BY <2>1, FromGrows DEF ServerOK, Grows
  <2>3. QED BY <2>2, SafeFrom, ReceivedIsSafe
<1>3. QED BY <1>1, <1>2 DEF Cover, Safe

(* In particular where only the world has grown, and was not written to.   *)
LEMMA CoverStays ==
  ASSUME NEW w, NEW v, NEW copy, LineageOK(v), FamilyOK(v, copy), ServerOK(w), ServerOK(v), Grows(w, v),
         DOMAIN v.lineage = DOMAIN w.lineage, NEW C, IsMap(C, Payload), Within(v, C), NEW gone,
         Cover(w, C, gone)
  PROVE  Cover(v, C, gone)
<1>1. \A i \in DOMAIN C : Safe(v, C, C[i].content)
  BY FromItself DEF Safe
<1>2. QED BY <1>1, CoverGrows

-----------------------------------------------------------------------------
(* The server.                                                             *)

LEMMA FiniteItems == IsFiniteSet(Items) /\ Items \subseteq Nat
<1>1. IsFiniteSet(Notes) /\ IsFiniteSet(Copies) /\ Copies \subseteq Nat /\ Notes = 1..Cardinality(Notes)
  BY SyncDataAssumption DEF SyncDataAssumption
<1>2. Cardinality(Notes) \in Nat
  BY <1>1, FS_CardinalityType
<1>3. Notes \subseteq Nat
  BY <1>1, <1>2
<1>4. QED BY <1>1, <1>3, FS_Union DEF Items

LEMMA Least ==
  ASSUME NEW T, T \subseteq Nat, T # {}
  PROVE  \E x \in T : \A y \in T : x <= y
<1> DEFINE R == OpToRel(<, Nat)
<1>1. IsWellFoundedOn(R, Nat)
  BY NatLessThanWellFounded
<1>2. ASSUME NEW x \in Nat, NEW y \in Nat, x < y PROVE <<x, y>> \in R
  BY <1>2 DEF OpToRel
<1> HIDE DEF R
<1>3. PICK x \in T : \A y \in T : ~ (<<y, x>> \in R)
  BY <1>1, WFMin
<1>4. \A y \in T : ~ (y < x)
  BY <1>2, <1>3
<1>5. x \in Nat /\ \A y \in T : y \in Nat
  OBVIOUS
<1>6. \A y \in T : x <= y
  BY <1>4, <1>5
<1>7. QED BY <1>6

LEMMA Greatest ==
  ASSUME NEW T, T \subseteq Nat, T # {}, NEW n \in Nat, \A y \in T : y <= n
  PROVE  \E x \in T : \A y \in T : y <= x
<1> DEFINE U == {n - y : y \in T}
<1>1. U \subseteq Nat /\ U # {}
  <2>1. \A y \in T : n - y \in Nat
    OBVIOUS
  <2>2. QED BY <2>1
<1>2. PICK u \in U : \A y \in U : u <= y
  <2> HIDE DEF U
  <2>1. QED BY <1>1, Least
<1>3. PICK x \in T : u = n - x
  BY <1>2
<1>4. \A y \in T : n - x <= n - y
  BY <1>2, <1>3
<1>5. \A y \in T : y <= x
  BY <1>4
<1>6. QED BY <1>5

(* The revisions that saved items get.                                     *)
LEMMA NewRevisions ==
  ASSUME NEW saved, saved \subseteq Items, serverSeq \in Nat
  PROVE  /\ Cardinality(saved) \in Nat
         /\ \A i \in saved : /\ NewRev(saved, i) \in Nat /\ serverSeq < NewRev(saved, i)
                             /\ NewRev(saved, i) <= serverSeq + Cardinality(saved)
<1>1. IsFiniteSet(saved) /\ Cardinality(saved) \in Nat
  BY FiniteItems, FS_Subset, FS_CardinalityType
<1>2. ASSUME NEW i \in saved
      PROVE  /\ NewRev(saved, i) \in Nat /\ serverSeq < NewRev(saved, i)
             /\ NewRev(saved, i) <= serverSeq + Cardinality(saved)
  <2> DEFINE T == {j \in saved : j <= i}
  <2>1. T \in SUBSET saved /\ i \in T
    BY FiniteItems
  <2>2. IsFiniteSet(T) /\ Cardinality(T) \in Nat /\ Cardinality(T) <= Cardinality(saved)
    BY <1>1, <2>1, FS_Subset, FS_CardinalityType
  <2>3. Cardinality(T) # 0
    BY <2>1, <2>2, FS_EmptySet
  <2>4. NewRev(saved, i) = serverSeq + Cardinality(T)
    BY DEF NewRev
  <2> HIDE DEF T
  <2>5. QED BY <1>1, <2>2, <2>3, <2>4
<1>3. QED BY <1>1, <1>2

(* The server takes what it may of an upload.                              *)
LEMMA ApplyGrows ==
  ASSUME NEW o, NEW A, WorldOK(World(o, A)), NEW U,
         UploadOK(World(o, A), U, DOMAIN U \cup DOMAIN server), Apply(U), UNCHANGED <<lineage, copyOf>>
  PROVE  /\ Grows(World(o, A), World(o, A)') /\ WorldOK(World(o, A))'
         /\ DOMAIN server' = DOMAIN server \cup DOMAIN U
         /\ serverSeq' = serverSeq + Cardinality(Savable(U))
         /\ \A i \in Savable(U) : /\ server'[i] = [content |-> U[i].content, rev |-> NewRev(Savable(U), i)]
                                  /\ U[i].content \in received'
         /\ \A i \in DOMAIN server \ Savable(U) : server'[i] = server[i]
<1> DEFINE w == World(o, A)
           v == World(o, A)'
           saved == Savable(U)
           D == DOMAIN U \cup DOMAIN server
<1>1. /\ v.origin = o /\ v.family = A /\ v.lineage = lineage /\ v.server = server'
      /\ v.seq = serverSeq' /\ v.received = received'
      /\ w.origin = o /\ w.family = A /\ w.lineage = lineage /\ w.server = server
      /\ w.seq = serverSeq /\ w.received = received
  BY DEF World
<1>2. saved \subseteq DOMAIN U /\ DOMAIN U \subseteq Items
  BY DEF Savable, UploadOK, IsMap
<1>3. /\ DOMAIN server' = DOMAIN server \cup saved
      /\ \A i \in saved : server'[i] = [content |-> U[i].content, rev |-> NewRev(saved, i)]
      /\ \A i \in DOMAIN server \ saved : server'[i] = server[i]
      /\ serverSeq' = serverSeq + Cardinality(saved)
      /\ received' = received \cup {U[i].content : i \in saved}
  BY DEF Apply, Put
<1>4. DOMAIN server' = D
  BY <1>2, <1>3 DEF Savable
<1>5. /\ IsMap(server, ServerItem) /\ serverSeq \in Nat /\ LineageOK(w) /\ ServerOK(w) /\ FamilyOK(w, copyOf)
  BY <1>1 DEF WorldOK, ServerOK
<1>6. /\ Cardinality(saved) \in Nat
      /\ \A i \in saved : /\ NewRev(saved, i) \in Nat /\ serverSeq < NewRev(saved, i)
                          /\ NewRev(saved, i) <= serverSeq + Cardinality(saved)
  BY <1>2, <1>5, NewRevisions
<1> HIDE DEF w, v, saved, D
<1>7. \A i \in DOMAIN U : U[i] \in ServerItem
  BY DEF UploadOK, IsMap
<1>8. IsMap(server', ServerItem)
  <2>1. DOMAIN server' \subseteq Items
    BY <1>2, <1>3, <1>5 DEF IsMap
  <2>2. ASSUME NEW i \in saved PROVE server'[i] \in ServerItem
    <3>1. U[i].content \in Nat
      BY <1>2, <1>7 DEF ServerItem
    <3>2. QED BY <1>3, <1>6, <3>1 DEF ServerItem
  <2>3. \A i \in DOMAIN server \ saved : server'[i] \in ServerItem
    BY <1>3, <1>5 DEF IsMap
  <2>4. QED BY <1>3, <2>1, <2>2, <2>3 DEF IsMap
<1>9. Grows(w, v)
  <2>1. \A i \in DOMAIN server' : (i \in DOMAIN server /\ server'[i] = server[i]) \/ serverSeq < server'[i].rev
    BY <1>3, <1>6
  <2>2. QED BY <1>1, <1>3, <1>5, <1>6, <1>8, <2>1 DEF Grows
<1>10. LineageOK(v) /\ FamilyOK(v, copyOf')
  <2>1. \A d, c : From(v, d, c) <=> From(w, d, c)
    BY <1>1 DEF From
  <2>2. LineageOK(v)
    BY <1>1, <1>5, <2>1 DEF LineageOK
  <2>3. copyOf' = copyOf
    OBVIOUS
  <2>4. FamilyOK(v, copyOf)
    BY <1>1, <1>5, <2>1 DEF FamilyOK
  <2>5. QED BY <2>2, <2>3, <2>4
<1>11. \A i \in saved : U[i].content \in v.family[i] /\ U[i].content \in DOMAIN v.lineage /\ From(v, U[i].content, U[i].content)
  <2> SUFFICES ASSUME NEW i \in saved
               PROVE  U[i].content \in v.family[i] /\ U[i].content \in DOMAIN v.lineage /\ From(v, U[i].content, U[i].content)
    OBVIOUS
  <2>1. U[i].content \in w.family[i] /\ i \in Items
    BY <1>2, UploadOK(World(o, A), U, DOMAIN U \cup DOMAIN server) DEF UploadOK, Within, w
  <2>2. U[i].content \in v.family[i]
    BY <1>1, <2>1
  <2>3. From(v, U[i].content, v.origin[i])
    BY <1>10, <2>1, <2>2 DEF FamilyOK
  <2>4. QED BY <1>10, <2>2, <2>3 DEF LineageOK, From
<1>12. Within(v, server')
  <2>1. Within(w, server)
    BY <1>1, <1>5 DEF ServerOK
  <2>2. QED BY <1>1, <1>3, <1>11, <2>1 DEF Within
<1>13. ServerOK(v)
  <2>1. \A i \in DOMAIN server' : server'[i].rev <= serverSeq' /\ server'[i].content \in received'
    <3>1. \A i \in DOMAIN server : server[i].rev <= serverSeq /\ server[i].content \in received /\ server[i].rev \in Nat
      BY <1>1, <1>5 DEF ServerOK, IsMap, ServerItem
    <3>2. QED BY <1>3, <1>5, <1>6, <3>1
  <2>2. received' \subseteq DOMAIN v.lineage
    BY <1>1, <1>3, <1>5, <1>11 DEF ServerOK
  <2>3. \A c \in received' : \E i \in DOMAIN server' : From(v, server'[i].content, c)
    <3> SUFFICES ASSUME NEW c \in received' PROVE \E i \in DOMAIN server' : From(v, server'[i].content, c)
      OBVIOUS
    <3>1. CASE c \in {U[i].content : i \in saved}
      BY <1>3, <1>11, <3>1
    <3>2. CASE c \in received
      <4>1. PICK i \in DOMAIN server : From(w, server[i].content, c)
        BY <1>1, <1>5, <3>2 DEF ServerOK
      <4>2. From(v, server[i].content, c)
        BY <1>9, <4>1, FromGrows
      <4>3. CASE i \notin saved
        BY <1>3, <4>2, <4>3
      <4>4. CASE i \in saved
        <5>1. U[i].rev = server[i].rev /\ i \in DOMAIN U
          BY <4>4 DEF saved, Savable
        <5>2. From(w, U[i].content, server[i].content) \/ Held(w, server[i].content, D)
          BY <1>1, <5>1 DEF UploadOK, Based, w, D
        <5>3. CASE From(w, U[i].content, server[i].content)
          BY <1>3, <1>9, <1>10, <4>2, <4>4, <5>3, FromGrows, FromTransitive
        <5>4. CASE Held(w, server[i].content, D)
          <6>1. D \subseteq Items /\ D \subseteq DOMAIN server' /\ DOMAIN server' \subseteq Items
            BY <1>4, <1>8 DEF IsMap
          <6>2. Held(v, server[i].content, D)
            BY <1>5, <1>9, <5>4, <6>1, HeldGrows
          <6>3. \E j \in DOMAIN server' : From(v, server'[j].content, server[i].content)
            BY <1>10, <1>12, <6>1, <6>2, HeldIsThere
          <6>4. QED BY <1>10, <4>2, <6>3, FromTransitive
        <5>5. QED BY <5>2, <5>3, <5>4
      <4>5. QED BY <4>3, <4>4
    <3>3. QED BY <1>3, <3>1, <3>2
  <2>4. QED BY <1>1, <1>3, <1>5, <1>6, <1>8, <1>12, <2>1, <2>2, <2>3 DEF ServerOK
<1>14. WorldOK(World(o, A))'
  BY <1>10, <1>13 DEF WorldOK, v
<1>15. QED BY <1>3, <1>4, <1>9, <1>14 DEF w, v, saved, D

(* A page that leaves out newer items ends before them.                    *)
LEMMA PageIsOldest ==
  ASSUME IsMap(server, ServerItem), serverSeq \in Nat, \A i \in DOMAIN server : server[i].rev <= serverSeq,
         NEW since \in Nat, Page(since) # Newer(since)
  PROVE  /\ LastRevOf(Page(since)) \in Nat /\ since < LastRevOf(Page(since))
         /\ LastRevOf(Page(since)) <= serverSeq
         /\ \A k \in Newer(since) \ Page(since) : LastRevOf(Page(since)) < server[k].rev
<1> DEFINE N == Newer(since)
           P == Page(since)
           Before(i) == {j \in N : server[j].rev < server[i].rev}
           last == LastRevOf(P)
<1>1. /\ P \subseteq N /\ N \subseteq DOMAIN server /\ N # {}
      /\ \A i \in N : i \in P <=> Cardinality(Before(i)) < PageLimit
      /\ \A i \in DOMAIN server : server[i].rev \in Nat
      /\ \A i \in N : since < server[i].rev
  BY DEF Page, Newer, IsMap, ServerItem
<1>2. \A i \in N : IsFiniteSet(Before(i)) /\ Cardinality(Before(i)) \in Nat
  <2>1. \A i \in N : Before(i) \in SUBSET Items
    BY <1>1 DEF IsMap
  <2>2. QED BY <2>1, FiniteItems, FS_Subset, FS_CardinalityType
<1>3. P # {}
  <2> DEFINE T == {server[i].rev : i \in N}
  <2>1. T \subseteq Nat /\ T # {}
    BY <1>1
  <2>2. PICK x \in T : \A y \in T : x <= y
    <3> HIDE DEF T
    <3>1. QED BY <2>1, Least
  <2>3. PICK i \in N : server[i].rev = x
    BY <2>2
  <2>4. Before(i) = {}
    <3>1. \A j \in N : server[j].rev \in Nat /\ x <= server[j].rev
      BY <1>1, <2>2
    <3>2. \A j \in N : ~(server[j].rev < server[i].rev)
      BY <2>3, <3>1
    <3>3. QED BY <3>2
  <2>5. Cardinality(Before(i)) = 0
    BY <2>4, FS_EmptySet
  <2>6. PageLimit \in Nat /\ 0 < PageLimit
    BY SyncDataAssumption DEF SyncDataAssumption
  <2>7. QED BY <1>1, <2>5, <2>6
<1>4. \E r \in {server[i].rev : i \in P} : \A i \in P : server[i].rev <= r
  <2> DEFINE T == {server[i].rev : i \in P}
  <2>1. T \subseteq Nat /\ T # {} /\ \A y \in T : y <= serverSeq
    BY <1>1, <1>3
  <2>2. PICK x \in T : \A y \in T : y <= x
    <3> HIDE DEF T
    <3>1. QED BY <2>1, Greatest
  <2>3. QED BY <2>2
<1>5. last \in {server[i].rev : i \in P} /\ \A i \in P : server[i].rev <= last
  BY <1>4 DEF LastRevOf
<1>6. PICK p \in P : last = server[p].rev
  BY <1>5
<1>7. \A k \in N \ P : last < server[k].rev
  <2> SUFFICES ASSUME NEW k \in N \ P, ~(last < server[k].rev) PROVE FALSE
    OBVIOUS
  <2>1. p \in N /\ k \in N /\ server[p].rev \in Nat /\ server[k].rev \in Nat
    BY <1>1
  <2>2. server[k].rev <= server[p].rev
    BY <1>6, <2>1
  <2>3. Before(k) \subseteq Before(p)
    BY <1>1, <2>1, <2>2
  <2>4. Cardinality(Before(k)) <= Cardinality(Before(p))
    BY <1>2, <2>1, <2>3, FS_Subset
  <2>5. Cardinality(Before(p)) < PageLimit /\ ~(Cardinality(Before(k)) < PageLimit)
    BY <1>1, <2>1
  <2>6. PageLimit \in Nat
    BY SyncDataAssumption DEF SyncDataAssumption
  <2> HIDE DEF Before
  <2>7. QED BY <1>2, <2>1, <2>4, <2>5, <2>6
<1>8. last \in Nat /\ since < last /\ last <= serverSeq
  BY <1>1, <1>6
<1>9. QED BY <1>7, <1>8

(* The answer to a request, and what it leaves to be known.                *)
LEMMA AnswerIsReply ==
  ASSUME NEW o, NEW A, WorldOK(World(o, A)), IsMap(local, Payload), Within(World(o, A), local),
         TokensOK(World(o, A), disk, tokens, storedTokens),
         sync.sent \subseteq DOMAIN local, WaitingOK(World(o, A), sync, local, tokens),
         Apply(sync.request.upload), UNCHANGED <<lineage, copyOf>>,
         NEW q, q.sent = sync.sent, q.frozen = sync.frozen, q.reply = Answer(sync.request)
  PROVE  ReplyOK(World(o, A)', q, local, tokens)
<1> DEFINE w == World(o, A)
           v == World(o, A)'
           U == sync.request.upload
           since == sync.request.since
           saved == Savable(U)
           page == Page(since)
           conflicts == DOMAIN U \ saved
           R == Answer(sync.request)
<1>1. /\ v.origin = o /\ v.family = A /\ v.lineage = lineage /\ v.server = server'
      /\ v.seq = serverSeq' /\ v.received = received'
      /\ w.origin = o /\ w.family = A /\ w.lineage = lineage /\ w.server = server
      /\ w.seq = serverSeq /\ w.received = received
  BY DEF World
<1>2. UploadOK(w, U, (DOMAIN U \cup DOMAIN server) \cap DOMAIN local) /\ LineageOK(w) /\ ServerOK(w) /\ FamilyOK(w, copyOf)
  BY <1>1 DEF WaitingOK, WorldOK
<1>3. UploadOK(w, U, DOMAIN U \cup DOMAIN server)
  BY <1>2 DEF UploadOK, Based, Held
<1>4. /\ Grows(w, v)
      /\ DOMAIN server' = DOMAIN server \cup DOMAIN U
      /\ serverSeq' = serverSeq + Cardinality(saved)
      /\ \A i \in saved : /\ server'[i].content = U[i].content /\ server'[i].rev = NewRev(saved, i)
                          /\ U[i].content \in received'
      /\ \A i \in DOMAIN server \ saved : server'[i] = server[i]
  <2>1. \A given : UploadOK(w, given, DOMAIN given \cup DOMAIN server) /\ Apply(given) =>
          /\ Grows(w, v)
          /\ DOMAIN server' = DOMAIN server \cup DOMAIN given
          /\ serverSeq' = serverSeq + Cardinality(Savable(given))
          /\ \A i \in Savable(given) :
               /\ server'[i] = [content |-> given[i].content, rev |-> NewRev(Savable(given), i)]
               /\ given[i].content \in received'
          /\ \A i \in DOMAIN server \ Savable(given) : server'[i] = server[i]
    BY ApplyGrows
  <2>2. UploadOK(w, U, DOMAIN U \cup DOMAIN server) /\ Apply(U)
    BY <1>3
  <2> HIDE DEF w, v
  <2>3. /\ Grows(w, v)
        /\ DOMAIN server' = DOMAIN server \cup DOMAIN U
        /\ serverSeq' = serverSeq + Cardinality(Savable(U))
        /\ \A i \in Savable(U) : /\ server'[i] = [content |-> U[i].content, rev |-> NewRev(Savable(U), i)]
                                  /\ U[i].content \in received'
        /\ \A i \in DOMAIN server \ Savable(U) : server'[i] = server[i]
    BY <2>1, <2>2
  <2> HIDE DEF U
  <2>4. \A i \in Savable(U) : /\ server'[i].content = U[i].content
                              /\ server'[i].rev = NewRev(Savable(U), i)
    <3> DEFINE kept == Savable(U)
    <3>1. \A i \in kept : server'[i] = [content |-> U[i].content, rev |-> NewRev(kept, i)]
      BY <2>3
    <3> HIDE DEF kept
    <3>2. ASSUME NEW i \in kept PROVE server'[i].content = U[i].content /\ server'[i].rev = NewRev(kept, i)
      <4>1. server'[i] = [content |-> U[i].content, rev |-> NewRev(kept, i)]
        BY <3>1
      <4>2. \A x, y : [content |-> x, rev |-> y].content = x /\ [content |-> x, rev |-> y].rev = y
        OBVIOUS
      <4>3. QED BY <4>1, <4>2
    <3>3. QED BY <3>2 DEF kept
  <2>5. QED BY <2>3, <2>4
<1>5. /\ saved \subseteq DOMAIN U /\ saved \cap conflicts = {} /\ DOMAIN U \subseteq Items
      /\ conflicts \subseteq DOMAIN server /\ conflicts \subseteq DOMAIN U
      /\ \A i \in DOMAIN U \ saved : i \in conflicts /\ i \in DOMAIN server
  BY <1>2 DEF Savable, UploadOK, IsMap
<1>6. /\ R.retrieved = Pick(server, page \ conflicts)
      /\ R.saved = [i \in saved |-> NewRev(saved, i)]
      /\ R.conflicts = Pick(server, conflicts)
      /\ R.token.sync = serverSeq + Cardinality(saved)
      /\ R.token.cursor = IF page = Newer(since) THEN 0 ELSE LastRevOf(page)
      /\ R.token = [sync |-> R.token.sync, cursor |-> R.token.cursor]
  BY DEF Answer
<1>7. /\ IsMap(server, ServerItem) /\ serverSeq \in Nat
      /\ \A i \in DOMAIN server : server[i].rev \in Nat /\ server[i].rev <= serverSeq
  BY <1>1, <1>2 DEF ServerOK, IsMap, ServerItem
<1>8. since = Since(tokens) /\ since \in Nat /\ since <= serverSeq
  BY <1>1 DEF WaitingOK, TokensOK, Since, Token
<1>9. /\ Cardinality(saved) \in Nat
      /\ \A i \in saved : /\ NewRev(saved, i) \in Nat /\ serverSeq < NewRev(saved, i)
                          /\ NewRev(saved, i) <= serverSeq + Cardinality(saved)
  BY <1>5, <1>7, NewRevisions
<1>10. /\ page \subseteq Newer(since) /\ Newer(since) \subseteq DOMAIN server
       /\ \A i \in Newer(since) : since < server[i].rev
       /\ \A i \in DOMAIN server \ Newer(since) : ~(since < server[i].rev)
  BY <1>7, <1>8 DEF Page, Newer
<1>11. page # Newer(since) =>
         /\ LastRevOf(page) \in Nat /\ since < LastRevOf(page) /\ LastRevOf(page) <= serverSeq
         /\ \A k \in Newer(since) \ page : LastRevOf(page) < server[k].rev
  BY <1>7, <1>8, PageIsOldest
<1>12. /\ DOMAIN U \subseteq sync.sent
       /\ \A i \in DOMAIN U : From(w, local[i].content, U[i].content)
       /\ \A i \in DOMAIN U : U[i].content = local[i].content \/ StillDirty(local[i])
       /\ \A i \in DOMAIN U : local[i].globalDirtyIndexAtLastSync = sync.frozen
  BY DEF WaitingOK
<1> HIDE DEF w, v, saved, page, R, U, since, conflicts
<1>13. Sent(v, R.retrieved) /\ Sent(v, R.conflicts)
  <2>1. ASSUME NEW S, S \subseteq DOMAIN server PROVE Sent(w, Pick(server, S))
    <3>1. \A i \in S : /\ server[i] \in ServerItem /\ i \in Items /\ server[i].content \in w.family[i]
                       /\ server[i].content \in received
      BY <1>1, <1>2, <1>7, <2>1 DEF IsMap, ServerOK, Within
    <3>2. \A i \in S : server[i].rev <= server[i].rev
      BY <1>7, <2>1
    <3>3. QED BY <1>1, <2>1, <3>1, <3>2 DEF Sent, Pick, IsMap, Within
  <2>2. Sent(w, R.retrieved) /\ Sent(w, R.conflicts)
    BY <1>5, <1>6, <1>10, <2>1
  <2>3. QED BY <1>2, <1>4, <2>2, SentGrows
<1>14. \A i \in DOMAIN R.retrieved : Since(tokens) < R.retrieved[i].rev
  BY <1>6, <1>8, <1>10 DEF Pick
<1>15. /\ DOMAIN R.conflicts \cup DOMAIN R.saved \subseteq q.sent
       /\ DOMAIN R.conflicts \cap (DOMAIN R.saved \cup DOMAIN R.retrieved) = {}
  <2>1. /\ DOMAIN R.conflicts = conflicts /\ DOMAIN R.saved = saved
        /\ DOMAIN R.retrieved = page \ conflicts
    BY <1>6 DEF Pick
  <2>2. QED BY <1>5, <1>12, <2>1 DEF U
<1>16. SavedOK(v, R, local, tokens)
  <2> SUFFICES ASSUME NEW i \in saved
               PROVE  /\ i \in DOMAIN v.server /\ R.saved[i] \in Nat
                      /\ R.saved[i] <= v.server[i].rev /\ Since(tokens) < R.saved[i]
                      /\ R.saved[i] = v.server[i].rev => From(v, local[i].content, v.server[i].content)
                      /\ local[i].content \in v.received \/ StillDirty(local[i])
                      /\ i \in DOMAIN R.retrieved =>
                           \/ From(v, local[i].content, R.retrieved[i].content)
                           \/ Held(v, R.retrieved[i].content, DOMAIN local)
    BY <1>6 DEF SavedOK
  <2>1. /\ i \in DOMAIN server' /\ server'[i].content = U[i].content /\ server'[i].rev = NewRev(saved, i)
        /\ U[i].content \in received' /\ R.saved[i] = NewRev(saved, i) /\ i \in DOMAIN U
    BY <1>4, <1>5, <1>6
  <2>2. NewRev(saved, i) \in Nat /\ since < NewRev(saved, i) /\ NewRev(saved, i) <= NewRev(saved, i)
    BY <1>7, <1>8, <1>9
  <2>3. From(w, local[i].content, U[i].content) /\ From(v, local[i].content, U[i].content)
    BY <1>4, <1>12, <2>1, FromGrows
  <2>4. local[i].content \in received' \/ StillDirty(local[i])
    BY <1>12, <2>1
  <2>5. ASSUME i \in DOMAIN R.retrieved
        PROVE  From(v, local[i].content, R.retrieved[i].content) \/ Held(v, R.retrieved[i].content, DOMAIN local)
    <3> DEFINE D == (DOMAIN U \cup DOMAIN server) \cap DOMAIN local
    <3>1. R.retrieved[i] = server[i] /\ i \in DOMAIN server
      BY <1>6, <1>10, <2>5 DEF Pick
    <3>2. U[i].rev = server[i].rev
      BY <3>1 DEF saved, Savable
    <3>3. From(w, U[i].content, server[i].content) \/ Held(w, server[i].content, D)
      BY <1>1, <1>2, <2>1, <3>1, <3>2 DEF UploadOK, Based
    <3>4. From(w, U[i].content, server[i].content) => From(w, local[i].content, server[i].content)
      BY <1>2, <2>3, FromTransitive
    <3>5. D \subseteq Items /\ D \subseteq DOMAIN local
      BY DEF IsMap
    <3> HIDE DEF D
    <3>6. Held(w, server[i].content, D) => Held(v, server[i].content, DOMAIN local)
      BY <1>2, <1>4, <3>5, HeldGrows
    <3>7. QED BY <1>4, <3>1, <3>3, <3>4, <3>6, FromGrows
  <2>6. QED BY <1>1, <1>8, <2>1, <2>2, <2>3, <2>4, <2>5
<1>17. /\ R.token \in Token /\ Since(tokens) <= Since(R.token) /\ Since(R.token) <= serverSeq'
       /\ page # Newer(since) => Since(R.token) = LastRevOf(page)
       /\ page = Newer(since) => Since(R.token) = serverSeq + Cardinality(saved)
  <2>1. R.token.sync \in Nat /\ R.token.cursor \in Nat
    BY <1>6, <1>7, <1>9, <1>11
  <2>2. R.token \in Token
    BY <1>6, <2>1 DEF Token
  <2>3. CASE page = Newer(since)
    <3>1. Since(R.token) = serverSeq + Cardinality(saved)
      BY <1>6, <2>3 DEF Since
    <3>2. QED BY <1>4, <1>7, <1>8, <1>9, <2>2, <2>3, <3>1
  <2>4. CASE page # Newer(since)
    <3>1. LastRevOf(page) \in Nat /\ since < LastRevOf(page) /\ LastRevOf(page) <= serverSeq
      BY <1>11, <2>4
    <3>2. Since(R.token) = LastRevOf(page)
      BY <1>6, <1>8, <2>4, <3>1 DEF Since
    <3>3. QED BY <1>4, <1>7, <1>8, <1>9, <2>2, <2>4, <3>1, <3>2
  <2>5. QED BY <2>3, <2>4
<1>18. TokenOK(v, R.token, tokens)
  BY <1>1, <1>17 DEF TokenOK
<1>19. Complete(v, R, tokens)
  <2> SUFFICES ASSUME NEW k \in DOMAIN server', server'[k].rev <= Since(R.token)
               PROVE  \/ server'[k].rev <= Since(tokens)
                      \/ k \in DOMAIN R.retrieved /\ R.retrieved[k] = server'[k]
                      \/ k \in DOMAIN R.conflicts /\ R.conflicts[k] = server'[k]
                      \/ k \in DOMAIN R.saved /\ R.saved[k] = server'[k].rev
    BY <1>1 DEF Complete
  <2>1. CASE k \in saved
    <3>1. k \in DOMAIN R.saved /\ R.saved[k] = NewRev(saved, k) /\ server'[k].rev = NewRev(saved, k)
      BY <1>4, <1>6, <2>1
    <3>2. QED BY <3>1
  <2>2. CASE k \notin saved
    <3>1. k \in DOMAIN server /\ server'[k] = server[k] /\ server[k].rev \in Nat
      BY <1>4, <1>5, <1>7, <2>2 DEF conflicts
    <3>2. CASE k \notin Newer(since)
      BY <1>8, <1>10, <3>1, <3>2
    <3>3. CASE k \in page
      BY <1>6, <3>1, <3>3 DEF Pick
    <3>4. CASE k \in Newer(since) \ page
      BY <1>11, <1>17, <3>1, <3>4
    <3>5. QED BY <3>2, <3>3, <3>4
  <2>3. QED BY <2>1, <2>2
<1>20. \A i \in DOMAIN R.saved : local[i].globalDirtyIndexAtLastSync = q.frozen
  BY <1>5, <1>6, <1>12
<1>21. ReplyOK(v, q, local, tokens)
  BY <1>20, <1>13, <1>14, <1>15, <1>16, <1>18, <1>19 DEF ReplyOK, R
<1>22. QED BY <1>21 DEF v

-----------------------------------------------------------------------------
(* The steps that change neither what was written nor the server.          *)

LEMMA SameWorld ==
  ASSUME NEW o, NEW A, WorldOK(World(o, A)), UNCHANGED <<lineage, server, serverSeq, received, copyOf>>
  PROVE  World(o, A)' = World(o, A) /\ WorldOK(World(o, A))'
<1>1. World(o, A)' = World(o, A)
  BY DEF World
<1>2. QED BY <1>1 DEF WorldOK

(* The parts of the invariant after a step, each in the world w it is of.  *)
LEMMA Assemble ==
  ASSUME NEW o, NEW A, NEW w, w = World(o, A)', Types', WorldOK(World(o, A))',
         Place(w, local', DOMAIN local'), Place(w, disk', DOMAIN disk'),
         Follows(w, Written(sync', disk'), local'), PreviousOK(w, local', previous', sync'.sent),
         TokensOK(w, disk', tokens', storedTokens'), OrphansOK(w, orphans'),
         Cover(w, local', forgotten'), Cover(w, disk', forgotten' \cup unsaved'),
         SyncOK(sync', local', dirtyCount'),
         sync'.pc = "presave" => PresaveOK(w, sync', local', disk'),
         sync'.pc = "waiting" => WaitingOK(w, sync', local', tokens'),
         sync'.pc \in {"answered", "resolve"} => ReplyOK(w, sync', local', tokens'),
         sync'.pc = "resolve" => ResolveOK(w, sync', local', previous'),
         sync'.pc = "persist" => PersistOK(w, sync', local', disk', tokens', dirtyCount')
  PROVE  InvOf(o, A)'
<1>1. Places(World(o, A))'
  BY DEF Places
<1>2. Rest(World(o, A))'
  BY DEF Rest
<1>3. Covers(World(o, A))'
  BY DEF Covers
<1>4. Staged(World(o, A))'
  BY DEF Staged
<1>5. QED BY <1>1, <1>2, <1>3, <1>4 DEF InvOf

LEMMA IdleFields ==
  /\ DOMAIN Idle = SyncFields /\ Idle.pc = "idle" /\ Idle.sent = {} /\ Idle.emits = <<>>
  /\ Idle.captured = NoItems /\ Idle.snapshot = NoItems /\ Idle.frozen = 0 /\ Idle.mode = "Default"
  /\ Idle.request = Request /\ Request.upload = NoItems /\ DOMAIN NoItems = {}
  /\ Idle.history = [i \in Items |-> 0]
BY DEF Idle, SyncFields, Request, NoItems

LEMMA IdleIsOK ==
  ASSUME NEW lc, NEW n \in Nat
  PROVE  SyncOK(Idle, lc, n)
BY IdleFields DEF SyncOK, Stages, IsMap

LEMMA StutterStep ==
  ASSUME NEW o, NEW A, InvOf(o, A), UNCHANGED vars
  PROVE  InvOf(o, A)'
BY DEF InvOf, vars, client, store, remote, ghosts, World, WorldOK, Types, Places, Rest, Covers, Staged,
       Contents

LEMMA BeginSyncStep ==
  ASSUME NEW o, NEW A, InvOf(o, A), BeginSync
  PROVE  InvOf(o, A)'
<1> DEFINE w == World(o, A)
           C == Pick(local, DirtyItems)
<1>1. /\ sync.pc = "idle" /\ Types /\ WorldOK(w) /\ Places(w) /\ Rest(w) /\ Covers(w) /\ Staged(w)
      /\ UNCHANGED <<local, dirtyCount, previous, copyOf, tokens, completedDownloadFirst, disk, storedTokens,
                     server, serverSeq, orphans, received, lineage, unsaved, forgotten>>
  BY DEF BeginSync, InvOf, client, store, remote, ghosts
<1>2. World(o, A)' = w /\ WorldOK(World(o, A))'
  BY <1>1, SameWorld
<1>3. /\ DOMAIN sync' = SyncFields /\ sync'.pc = "presave" /\ sync'.captured = C /\ sync'.frozen = dirtyCount
      /\ sync'.sent = {} /\ sync'.request = Request /\ sync'.snapshot = NoItems
      /\ sync'.mode \in {"Default", "DownloadFirst"}
  BY IdleFields DEF BeginSync, SyncFields
<1>4. Types'
  BY <1>1 DEF Types, Contents
<1>5. /\ DOMAIN C \subseteq DOMAIN local /\ DOMAIN local = DOMAIN disk
      /\ \A i \in DOMAIN C : C[i] = local[i] /\ local[i].dirty
      /\ \A i \in DOMAIN local : i \in DOMAIN C \/ ~local[i].dirty
  BY <1>1 DEF DirtyItems, Pick, Rest, Follows, Written
<1> HIDE DEF w, C
<1>6. IsMap(C, Payload) /\ IsMap(local, Payload)
  BY <1>1, <1>5 DEF Places, Place, IsMap
<1>7. Place(w, C, DOMAIN disk)
  BY <1>1, <1>5, <1>6 DEF Places, Place, Within, Based, Marked
<1>8. PresaveOK(w, sync', local, disk)
  <2>1. \A i \in DOMAIN C : From(w, C[i].content, disk[i].content) /\ From(w, local[i].content, C[i].content)
    BY <1>1, <1>5, <1>6, FromItself DEF WorldOK, Places, Place, Rest, Follows, Written
  <2>2. \A j \in DOMAIN local : j \in DOMAIN C \/ j \in DOMAIN w.server
    BY <1>1, <1>5 DEF Places, Place, Marked
  <2>3. QED BY <1>3, <1>5, <1>7, <2>1, <2>2 DEF PresaveOK
<1>9. SyncOK(sync', local, dirtyCount)
  BY <1>1, <1>3, <1>6, IdleFields DEF SyncOK, Types, Stages, IsMap
<1>10. Written(sync', disk) = Written(sync, disk)
  BY <1>1, <1>3 DEF Written
<1>11. PreviousOK(w, local, previous, sync'.sent)
  BY <1>1, <1>3 DEF Rest, PreviousOK
<1>12. QED BY <1>1, <1>2, <1>3, <1>4, <1>8, <1>9, <1>10, <1>11, Assemble DEF Places, Rest, Covers

LEMMA ReceiveReplyStep ==
  ASSUME NEW o, NEW A, InvOf(o, A), ReceiveReply
  PROVE  InvOf(o, A)'
<1> DEFINE w == World(o, A)
<1>1. /\ sync.pc = "answered" /\ Types /\ WorldOK(w) /\ Places(w) /\ Rest(w) /\ Covers(w) /\ Staged(w)
      /\ UNCHANGED <<local, dirtyCount, previous, copyOf, tokens, completedDownloadFirst, disk, storedTokens,
                     server, serverSeq, orphans, received, lineage, unsaved, forgotten>>
  BY DEF ReceiveReply, InvOf, client, store, remote, ghosts
<1>2. World(o, A)' = w /\ WorldOK(World(o, A))'
  BY <1>1, SameWorld
<1>3. SyncOK(sync, local, dirtyCount) /\ ReplyOK(w, sync, local, tokens) /\ IsMap(local, Payload)
  BY <1>1 DEF Staged, Places, Place
<1>4. /\ DOMAIN sync' = SyncFields /\ sync'.pc = "resolve" /\ sync'.snapshot = local /\ sync'.history = previous
      /\ sync'.captured = sync.captured /\ sync'.frozen = sync.frozen /\ sync'.mode = sync.mode
      /\ sync'.sent = sync.sent /\ sync'.request = sync.request /\ sync'.reply = sync.reply
  BY <1>3 DEF ReceiveReply, SyncOK, SyncFields
<1>5. Types'
  BY <1>1 DEF Types, Contents
<1> HIDE DEF w
<1>6. SyncOK(sync', local, dirtyCount)
  BY <1>1, <1>3, <1>4 DEF SyncOK, Stages
<1>7. ReplyOK(w, sync', local, tokens)
  BY <1>3, <1>4 DEF ReplyOK
<1>8. ResolveOK(w, sync', local, previous)
  BY <1>1, <1>4 DEF ResolveOK, Places, Place
<1>9. Written(sync', disk) = Written(sync, disk)
  BY <1>1, <1>4 DEF Written
<1>10. QED BY <1>1, <1>2, <1>4, <1>5, <1>6, <1>7, <1>8, <1>9, Assemble DEF Places, Rest, Covers

LEMMA StoreTokensStep ==
  ASSUME NEW o, NEW A, InvOf(o, A), StoreTokens
  PROVE  InvOf(o, A)'
<1> DEFINE w == World(o, A)
<1>1. /\ Types /\ WorldOK(w) /\ Places(w) /\ Rest(w) /\ Covers(w) /\ Staged(w) /\ storedTokens' = tokens
      /\ UNCHANGED <<local, dirtyCount, previous, copyOf, sync, tokens, completedDownloadFirst, disk,
                     server, serverSeq, orphans, received, lineage, unsaved, forgotten>>
  BY DEF StoreTokens, InvOf, client, remote, ghosts
<1>2. World(o, A)' = w /\ WorldOK(World(o, A))'
  BY <1>1, SameWorld
<1>3. Types'
  BY <1>1 DEF Types, Contents
<1> HIDE DEF w
<1>4. TokensOK(w, disk, tokens, tokens)
  <2>1. Since(tokens) \in Nat
    BY <1>1 DEF Rest, TokensOK, Since, Token
  <2>2. QED BY <1>1, <2>1 DEF Rest, TokensOK
<1>5. QED BY <1>1, <1>2, <1>3, <1>4, Assemble DEF Places, Rest, Covers, Staged

(* What an operation leaves behind when it ends without an answer.         *)
LEMMA Abandons ==
  ASSUME NEW w, ServerOK(w), OrphansOK(w, orphans), SyncOK(sync, local, dirtyCount),
         sync.pc = "waiting" => WaitingOK(w, sync, local, tokens)
  PROVE  OrphansOK(w, orphans \cup Abandoned)
<1> SUFFICES ASSUME NEW U, U = sync.request.upload, DOMAIN U # {}
             PROVE  UploadOK(w, U, DOMAIN U \cup DOMAIN w.server)
  BY DEF OrphansOK, Abandoned
<1>1. WaitingOK(w, sync, local, tokens)
  BY DEF SyncOK
<1>2. UploadOK(w, U, (DOMAIN U \cup DOMAIN w.server) \cap DOMAIN local)
  BY <1>1 DEF WaitingOK
<1>3. QED BY <1>2 DEF UploadOK, Based, Held

LEMMA RequestFailsStep ==
  ASSUME NEW o, NEW A, InvOf(o, A), RequestFails
  PROVE  InvOf(o, A)'
<1> DEFINE w == World(o, A)
<1>1. /\ sync.pc \in {"waiting", "answered"} /\ sync' = Idle /\ orphans' = orphans \cup Abandoned
      /\ Types /\ WorldOK(w) /\ Places(w) /\ Rest(w) /\ Covers(w) /\ Staged(w)
      /\ UNCHANGED <<local, dirtyCount, previous, copyOf, tokens, completedDownloadFirst, disk, storedTokens,
                     server, serverSeq, received, lineage, unsaved, forgotten>>
  BY DEF RequestFails, InvOf, client, store, ghosts
<1>2. World(o, A)' = w /\ WorldOK(World(o, A))'
  BY <1>1, SameWorld
<1>3. Types'
  BY <1>1 DEF Types, Contents
<1> HIDE DEF w
<1>4. SyncOK(sync', local, dirtyCount) /\ sync'.pc = "idle" /\ sync'.sent = {}
  BY <1>1, IdleIsOK, IdleFields DEF Types
<1>5. OrphansOK(w, orphans')
  BY <1>1, Abandons DEF Rest, Staged, WorldOK
<1>6. PreviousOK(w, local, previous, sync'.sent)
  BY <1>1, <1>4 DEF Rest, PreviousOK
<1>7. Written(sync', disk) = Written(sync, disk)
  BY <1>1, <1>4 DEF Written
<1>8. QED BY <1>1, <1>2, <1>3, <1>4, <1>5, <1>6, <1>7, Assemble DEF Places, Rest, Covers

LEMMA CrashStep ==
  ASSUME NEW o, NEW A, InvOf(o, A), Crash
  PROVE  InvOf(o, A)'
<1> DEFINE w == World(o, A)
<1>1. /\ local' = disk /\ dirtyCount' = 0 /\ previous' = [i \in Items |-> 0] /\ tokens' = storedTokens
      /\ completedDownloadFirst' = FALSE /\ orphans' = orphans \cup Abandoned /\ sync' = Idle
      /\ forgotten' = forgotten \cup unsaved /\ unsaved' = {}
      /\ Types /\ WorldOK(w) /\ Places(w) /\ Rest(w) /\ Covers(w) /\ Staged(w)
      /\ UNCHANGED <<copyOf, disk, storedTokens, server, serverSeq, received, lineage>>
  BY IdleFields DEF Crash, InvOf, store
<1>2. World(o, A)' = w /\ WorldOK(World(o, A))'
  BY <1>1, SameWorld
<1>3. IsMap(disk, Payload) /\ Within(w, disk)
  BY <1>1 DEF Places, Place
<1>4. Types'
  <2>1. Indexed(disk, 0)
    BY <1>1 DEF Types, Indexed
  <2>2. QED BY <1>1, <2>1 DEF Types, Contents
<1> HIDE DEF w
<1>5. SyncOK(sync', local', dirtyCount') /\ sync'.pc = "idle" /\ sync'.sent = {}
  BY <1>1, IdleIsOK, IdleFields
<1>6. OrphansOK(w, orphans')
  BY <1>1, Abandons DEF Rest, Staged, WorldOK
<1>7. PreviousOK(w, local', previous', sync'.sent)
  BY <1>1, <1>3 DEF PreviousOK, IsMap
<1>8. Follows(w, Written(sync', disk'), local')
  <2>1. Written(sync', disk') = disk
    BY <1>1, <1>5 DEF Written
  <2>2. Follows(w, disk, disk)
    BY <1>1, <1>3, FromItself DEF Follows, WorldOK
  <2>3. QED BY <1>1, <2>1, <2>2
<1>9. TokensOK(w, disk', tokens', storedTokens')
  <2>1. Since(tokens) \in Nat /\ Since(storedTokens) \in Nat /\ w.seq \in Nat
    BY <1>1 DEF Rest, TokensOK, Since, Token, WorldOK, ServerOK
  <2>2. \A k \in DOMAIN w.server : w.server[k].rev \in Nat
    BY <1>1 DEF WorldOK, ServerOK, IsMap, ServerItem
  <2>3. QED BY <1>1, <2>1, <2>2 DEF Rest, TokensOK
<1>10. Cover(w, local', forgotten') /\ Cover(w, disk', forgotten' \cup unsaved')
  BY <1>1 DEF Covers
<1>11. QED BY <1>1, <1>2, <1>4, <1>5, <1>6, <1>7, <1>8, <1>9, <1>10, Assemble DEF Places

LEMMA OnDisk ==
  ASSUME NEW p \in Payload, NEW e, e = [p EXCEPT !.dirtyIndex = 0, !.globalDirtyIndexAtLastSync = 0]
  PROVE  /\ e \in Payload /\ e.content = p.content /\ e.rev = p.rev /\ e.dirty = p.dirty
         /\ e.dirtyIndex = 0 /\ e.globalDirtyIndexAtLastSync = 0
<1>1. DOMAIN p = {"content", "rev", "dirty", "dirtyIndex", "globalDirtyIndexAtLastSync"}
      /\ p.content \in Nat /\ p.rev \in Nat /\ p.dirty \in BOOLEAN
  BY DEF Payload
<1>2. e = [content |-> p.content, rev |-> p.rev, dirty |-> p.dirty, dirtyIndex |-> 0,
           globalDirtyIndexAtLastSync |-> 0]
  BY <1>1
<1>3. QED BY <1>1, <1>2 DEF Payload

LEMMA PresavedStep ==
  ASSUME NEW o, NEW A, InvOf(o, A), Presaved
  PROVE  InvOf(o, A)'
<1> DEFINE w == World(o, A)
           C == sync.captured
           U == Upload(DOMAIN C)
<1>1. /\ sync.pc = "presave" /\ Types /\ WorldOK(w) /\ Places(w) /\ Rest(w) /\ Covers(w) /\ Staged(w)
      /\ disk' = Put(disk, DiskForm(C)) /\ local' = LastSyncBegan(DOMAIN C)
      /\ unsaved' = unsaved \ UNION {lineage[c] : c \in ContentsOf(C)}
      /\ UNCHANGED <<dirtyCount, previous, copyOf, tokens, completedDownloadFirst, storedTokens,
                     server, serverSeq, orphans, received, lineage, forgotten>>
  BY DEF Presaved, PersistCaptured, InvOf, remote
<1>2. World(o, A)' = w /\ WorldOK(World(o, A))' /\ w.lineage = lineage
  BY <1>1, SameWorld DEF World
<1>3. SyncOK(sync, local, dirtyCount) /\ PresaveOK(w, sync, local, disk)
  BY <1>1 DEF Staged
<1>4. /\ DOMAIN sync' = SyncFields /\ sync'.pc = "waiting" /\ sync'.captured = NoItems /\ sync'.sent = DOMAIN U
      /\ sync'.request.upload = U /\ sync'.request.since = Since(tokens)
      /\ sync'.frozen = sync.frozen /\ sync'.mode = sync.mode /\ sync'.snapshot = sync.snapshot
  BY <1>3 DEF Presaved, SyncOK, SyncFields
<1>5. /\ DOMAIN C \subseteq DOMAIN local /\ DOMAIN local = DOMAIN disk
      /\ IsMap(local, Payload) /\ IsMap(disk, Payload) /\ IsMap(C, Payload)
  BY <1>1, <1>3 DEF PresaveOK, Rest, Follows, Written, Places, Place
<1>6. /\ DOMAIN local' = DOMAIN local
      /\ \A i \in DOMAIN C : local'[i] = [local[i] EXCEPT !.globalDirtyIndexAtLastSync = sync.frozen]
      /\ \A i \in DOMAIN local \ DOMAIN C : local'[i] = local[i]
  BY <1>1, <1>5 DEF LastSyncBegan
<1>7. /\ DOMAIN disk' = DOMAIN disk
      /\ \A i \in DOMAIN C : disk'[i] = [C[i] EXCEPT !.dirtyIndex = 0, !.globalDirtyIndexAtLastSync = 0]
      /\ \A i \in DOMAIN disk \ DOMAIN C : disk'[i] = disk[i]
  BY <1>1, <1>5 DEF Put, DiskForm
<1>8. \/ DOMAIN U = {}
      \/ DOMAIN U = DOMAIN C
  BY DEF Upload
<1>9. \A i \in DOMAIN U : i \in DOMAIN C /\ U[i] = [content |-> local[i].content, rev |-> local[i].rev]
  BY DEF Upload
<1>10. /\ dirtyCount \in Nat /\ sync.frozen \in Nat /\ sync.frozen <= dirtyCount
       /\ sync.mode \in {"Default", "DownloadFirst"} /\ IsMap(sync.snapshot, Payload)
  BY <1>1, <1>3 DEF Types, SyncOK
<1> HIDE DEF w, C, U
<1>11. \A i \in DOMAIN local : /\ local'[i] \in Payload /\ local'[i].content = local[i].content
                               /\ local'[i].rev = local[i].rev /\ local'[i].dirty = local[i].dirty
                               /\ local'[i].dirtyIndex = local[i].dirtyIndex
                               /\ i \in DOMAIN C => local'[i].globalDirtyIndexAtLastSync = sync.frozen
                               /\ i \notin DOMAIN C =>
                                    local'[i].globalDirtyIndexAtLastSync = local[i].globalDirtyIndexAtLastSync
  <2> SUFFICES ASSUME NEW i \in DOMAIN local
               PROVE  /\ local'[i] \in Payload /\ local'[i].content = local[i].content
                      /\ local'[i].rev = local[i].rev /\ local'[i].dirty = local[i].dirty
                      /\ local'[i].dirtyIndex = local[i].dirtyIndex
                      /\ i \in DOMAIN C => local'[i].globalDirtyIndexAtLastSync = sync.frozen
                      /\ i \notin DOMAIN C =>
                           local'[i].globalDirtyIndexAtLastSync = local[i].globalDirtyIndexAtLastSync
    OBVIOUS
  <2>1. local[i] \in Payload
    BY <1>5 DEF IsMap
  <2>2. CASE i \in DOMAIN C
    BY <1>6, <1>10, <2>1, <2>2 DEF Payload
  <2>3. CASE i \notin DOMAIN C
    BY <1>6, <2>1, <2>3 DEF Payload
  <2>4. QED BY <2>2, <2>3
<1>12. \A i \in DOMAIN C : /\ disk'[i] \in Payload /\ disk'[i].content = C[i].content
                           /\ disk'[i].rev = C[i].rev /\ disk'[i].dirty = C[i].dirty
                           /\ disk'[i].dirtyIndex = 0 /\ disk'[i].globalDirtyIndexAtLastSync = 0
  <2> SUFFICES ASSUME NEW i \in DOMAIN C
               PROVE  /\ disk'[i] \in Payload /\ disk'[i].content = C[i].content
                      /\ disk'[i].rev = C[i].rev /\ disk'[i].dirty = C[i].dirty
                      /\ disk'[i].dirtyIndex = 0 /\ disk'[i].globalDirtyIndexAtLastSync = 0
    OBVIOUS
  <2>1. C[i] \in Payload
    BY <1>5 DEF IsMap
  <2>2. disk'[i] = [C[i] EXCEPT !.dirtyIndex = 0, !.globalDirtyIndexAtLastSync = 0]
    BY <1>7
  <2>3. QED BY <2>1, <2>2, OnDisk
<1>13. \A i \in DOMAIN disk \ DOMAIN C : disk'[i] \in Payload
  BY <1>5, <1>7 DEF IsMap
<1>14. Types'
  <2>1. Indexed(local', dirtyCount)
    BY <1>1, <1>6, <1>10, <1>11 DEF Types, Indexed
  <2>2. \A i \in DOMAIN disk' : disk'[i].dirtyIndex = 0 /\ disk'[i].globalDirtyIndexAtLastSync = 0
    BY <1>1, <1>7, <1>12 DEF Types
  <2>3. QED BY <1>1, <2>1, <2>2 DEF Types, Contents
<1>15. Place(w, local', DOMAIN local')
  <2>1. IsMap(local', Payload)
    BY <1>5, <1>6, <1>11 DEF IsMap
  <2>2. QED BY <1>1, <1>6, <1>11, <2>1 DEF Places, Place, Within, Based, Marked
<1>16. Place(w, disk', DOMAIN disk')
  <2>1. IsMap(disk', Payload)
    BY <1>5, <1>7, <1>12, <1>13 DEF IsMap
  <2>2. Place(w, C, DOMAIN disk) /\ Place(w, disk, DOMAIN disk)
    BY <1>1, <1>3 DEF PresaveOK, Places, C
  <2>3. QED BY <1>7, <1>12, <2>1, <2>2 DEF Place, Within, Based, Marked
<1>17. \A i \in DOMAIN C : /\ C[i].dirty /\ local[i].dirty /\ From(w, C[i].content, disk[i].content)
                           /\ From(w, local[i].content, C[i].content)
  BY <1>3 DEF PresaveOK, C
<1>18. Follows(w, Written(sync', disk'), local')
  <2>1. Written(sync', disk') = disk' /\ Follows(w, disk, local)
    BY <1>1, <1>4 DEF Written, Rest
  <2>2. Follows(w, disk', local')
    BY <1>5, <1>6, <1>7, <1>11, <1>12, <1>17, <2>1 DEF Follows
  <2>3. QED BY <2>1, <2>2
<1>19. PreviousOK(w, local', previous', sync'.sent)
  BY <1>1, <1>4, <1>6, <1>9, <1>11, <1>17 DEF Rest, PreviousOK
<1>20. \A c, k : Stays(w, c, k, disk) => Stays(w, c, k, disk')
  <2> SUFFICES ASSUME NEW c, NEW k, Stays(w, c, k, disk) PROVE Stays(w, c, k, disk')
    OBVIOUS
  <2>1. CASE k \in DOMAIN disk /\ From(w, disk[k].content, c)
    <3>1. CASE k \in DOMAIN C
      BY <1>1, <1>7, <1>12, <1>17, <2>1, <3>1, FromTransitive DEF Stays, WorldOK
    <3>2. CASE k \notin DOMAIN C
      BY <1>7, <2>1, <3>2 DEF Stays
    <3>3. QED BY <3>1, <3>2
  <2>2. CASE Held(w, c, DOMAIN disk)
    BY <1>7, <2>2 DEF Stays
  <2>3. QED BY <2>1, <2>2 DEF Stays
<1>21. TokensOK(w, disk', tokens', storedTokens')
  <2>1. \A k \in DOMAIN w.server : w.server[k].content \in Nat
    BY <1>1 DEF WorldOK, ServerOK, IsMap, ServerItem
  <2>2. QED BY <1>1, <1>20, <2>1 DEF Rest, TokensOK
<1>22. Cover(w, local', forgotten')
  BY <1>1, <1>6, <1>11 DEF Covers, Cover, Safe
<1>23. Cover(w, disk', forgotten' \cup unsaved')
  <2> SUFFICES ASSUME NEW c \in DOMAIN w.lineage, c \notin forgotten, c \notin unsaved'
               PROVE  Safe(w, disk', c)
    BY <1>1 DEF Cover
  <2>1. CASE c \in unsaved
    <3>1. PICK d \in ContentsOf(C) : c \in lineage[d]
      BY <1>1, <2>1
    <3>2. PICK i \in DOMAIN C : d = C[i].content
      BY <3>1 DEF ContentsOf
    <3>3. C[i].content \in DOMAIN w.lineage
      BY <1>17, <3>2 DEF From
    <3>4. From(w, disk'[i].content, c)
      BY <1>2, <1>12, <3>1, <3>2, <3>3 DEF From
    <3>5. QED BY <1>5, <1>7, <3>2, <3>4 DEF Safe
  <2>2. CASE c \notin unsaved
    <3>1. Safe(w, disk, c)
      BY <1>1, <2>2 DEF Covers, Cover
    <3>2. ASSUME NEW i \in DOMAIN disk, From(w, disk[i].content, c) PROVE From(w, disk'[i].content, c)
      <4>1. CASE i \in DOMAIN C
        BY <1>1, <1>12, <1>17, <3>2, <4>1, FromTransitive DEF WorldOK
      <4>2. CASE i \notin DOMAIN C
        BY <1>7, <3>2, <4>2
      <4>3. QED BY <4>1, <4>2
    <3>3. QED BY <1>7, <3>1, <3>2 DEF Safe
  <2>3. QED BY <2>1, <2>2
<1>24. SyncOK(sync', local', dirtyCount')
  <2>1. IsMap(U, ServerItem)
    <3>1. \A i \in DOMAIN U : i \in Items /\ U[i] \in ServerItem
      <4> SUFFICES ASSUME NEW i \in DOMAIN U PROVE i \in Items /\ U[i] \in ServerItem
        OBVIOUS
      <4>1. i \in DOMAIN local /\ U[i] = [content |-> local[i].content, rev |-> local[i].rev]
        BY <1>5, <1>9
      <4>2. i \in Items /\ local[i] \in Payload
        BY <1>5, <4>1 DEF IsMap
      <4>3. local[i].content \in Nat /\ local[i].rev \in Nat
        BY <4>2 DEF Payload
      <4>4. QED BY <4>1, <4>2, <4>3 DEF ServerItem
    <3>2. QED BY <3>1 DEF IsMap
  <2>2. DOMAIN U \subseteq DOMAIN local
    BY <1>5, <1>9
  <2>3. IsMap(NoItems, Payload)
    BY IdleFields DEF IsMap
  <2>4. QED BY <1>1, <1>4, <1>6, <1>10, <2>1, <2>2, <2>3 DEF SyncOK, Stages
<1>25. WaitingOK(w, sync', local', tokens')
  <2> DEFINE D == (DOMAIN U \cup DOMAIN w.server) \cap DOMAIN local
  <2>1. DOMAIN U = {} \/ DOMAIN local \subseteq D
    <3>1. \A j \in DOMAIN local : j \in DOMAIN C \/ j \in DOMAIN w.server
      BY <1>3 DEF PresaveOK, C
    <3>2. QED BY <1>8, <3>1
  <2>2. Place(w, local, DOMAIN local)
    BY <1>1 DEF Places
  <2>3. \A i \in DOMAIN U : i \in DOMAIN local /\ i \in DOMAIN C
                            /\ U[i].content = local[i].content /\ U[i].rev = local[i].rev
    BY <1>5, <1>9
  <2> HIDE DEF D
  <2>4. \A c : DOMAIN U # {} /\ Held(w, c, DOMAIN local) => Held(w, c, D)
    BY <2>1 DEF Held
  <2>5. Based(w, U, D)
    BY <2>2, <2>3, <2>4 DEF Place, Based
  <2>6. IsMap(U, ServerItem)
    BY <1>4, <1>24 DEF SyncOK
  <2>7. UploadOK(w, U, D)
    BY <2>2, <2>3, <2>5, <2>6 DEF UploadOK, Place, Within
  <2>8. \A i \in DOMAIN U : /\ local'[i].globalDirtyIndexAtLastSync = sync'.frozen
                            /\ From(w, local'[i].content, U[i].content) /\ U[i].content = local'[i].content
    BY <1>1, <1>4, <1>5, <1>11, <2>2, <2>3, FromItself DEF Place, WorldOK
  <2>9. QED BY <1>1, <1>4, <1>6, <2>7, <2>8 DEF WaitingOK, D
<1>26. OrphansOK(w, orphans')
  BY <1>1 DEF Rest
<1>27. QED BY <1>2, <1>4, <1>14, <1>15, <1>16, <1>18, <1>19, <1>21, <1>22, <1>23, <1>24, <1>25, <1>26, Assemble

-----------------------------------------------------------------------------
(* The steps of the server and of the other devices.                       *)

(* What a client that stands still has, in a world that was not written to. *)
LEMMA ClientStays ==
  ASSUME NEW o, NEW A, InvOf(o, A), NEW v, NEW copy, LineageOK(v), FamilyOK(v, copy), ServerOK(v),
         Grows(World(o, A), v), DOMAIN v.lineage = DOMAIN lineage
  PROVE  Places(v) /\ Rest(v) /\ Staged(v) /\ Covers(v)
<1> DEFINE w == World(o, A)
<1>1. /\ LineageOK(w) /\ ServerOK(w) /\ Places(w) /\ Rest(w) /\ Staged(w) /\ Covers(w)
      /\ DOMAIN v.lineage = DOMAIN w.lineage /\ Grows(w, v)
  BY DEF InvOf, WorldOK, World
<1> HIDE DEF w
<1>2. Places(v) /\ Rest(v) /\ Staged(v)
  BY <1>1, ClientGrows
<1>3. IsMap(local, Payload) /\ Within(v, local) /\ IsMap(disk, Payload) /\ Within(v, disk)
  BY <1>2 DEF Places, Place
<1>4. Cover(w, local, forgotten) /\ Cover(w, disk, forgotten \cup unsaved)
  BY <1>1 DEF Covers
<1>5. Covers(v)
  BY <1>1, <1>3, <1>4, CoverStays DEF Covers
<1>6. QED BY <1>2, <1>5

LEMMA ServerAnswersStep ==
  ASSUME NEW o, NEW A, InvOf(o, A), ServerAnswers
  PROVE  InvOf(o, A)'
<1> DEFINE w == World(o, A)
           v == World(o, A)'
           U == sync.request.upload
<1>1. /\ sync.pc = "waiting" /\ Types /\ WorldOK(World(o, A)) /\ Places(w) /\ Rest(w) /\ Covers(w) /\ Staged(w)
      /\ Apply(U)
      /\ UNCHANGED <<local, dirtyCount, previous, copyOf, tokens, completedDownloadFirst, disk, storedTokens,
                     orphans, lineage, unsaved, forgotten>>
  BY DEF ServerAnswers, InvOf, client, store, ghosts
<1>2. SyncOK(sync, local, dirtyCount) /\ WaitingOK(w, sync, local, tokens)
  BY <1>1 DEF Staged
<1>3. /\ DOMAIN sync' = SyncFields /\ sync'.pc = "answered" /\ sync'.request = Request
      /\ sync'.reply = Answer(sync.request) /\ sync'.captured = sync.captured /\ sync'.frozen = sync.frozen
      /\ sync'.mode = sync.mode /\ sync'.sent = sync.sent /\ sync'.snapshot = sync.snapshot
  BY <1>2 DEF ServerAnswers, SyncOK, SyncFields
<1>4. UploadOK(w, U, DOMAIN U \cup DOMAIN server)
  <2>1. UploadOK(w, U, (DOMAIN U \cup DOMAIN server) \cap DOMAIN local)
    BY <1>2 DEF WaitingOK, World
  <2>2. QED BY <2>1 DEF UploadOK, Based, Held
<1>5. Grows(w, v) /\ WorldOK(World(o, A))'
  BY <1>1, <1>4, ApplyGrows
<1>6. LineageOK(v) /\ FamilyOK(v, copyOf) /\ ServerOK(v) /\ DOMAIN v.lineage = DOMAIN lineage
  BY <1>1, <1>5 DEF WorldOK, World
<1>7. Places(v) /\ Rest(v) /\ Staged(v) /\ Covers(v)
  <2> HIDE DEF v
  <2>1. QED BY <1>5, <1>6, ClientStays
<1>8. ReplyOK(v, sync', local, tokens)
  <2>1. IsMap(local, Payload) /\ Within(w, local) /\ TokensOK(w, disk, tokens, storedTokens)
        /\ sync.sent \subseteq DOMAIN local
    BY <1>1, <1>2 DEF Places, Place, Rest, SyncOK
  <2>2. UNCHANGED <<lineage, copyOf>>
    BY <1>1
  <2>3. QED BY <1>1, <1>2, <1>3, <2>1, <2>2, AnswerIsReply
<1>9. Types'
  BY <1>1, <1>6 DEF Types, Contents
<1> HIDE DEF w, v
<1>10. SyncOK(sync', local, dirtyCount)
  BY <1>1, <1>2, <1>3, IdleFields DEF SyncOK, Stages, IsMap
<1>11. Written(sync', disk) = Written(sync, disk)
  BY <1>1, <1>3 DEF Written
<1>12. QED BY <1>1, <1>3, <1>5, <1>7, <1>8, <1>9, <1>10, <1>11, Assemble DEF Places, Rest, Covers, v

LEMMA ServerHandlesOrphanStep ==
  ASSUME NEW o, NEW A, InvOf(o, A), NEW U \in orphans, ServerHandlesOrphan(U)
  PROVE  InvOf(o, A)'
<1> DEFINE w == World(o, A)
           v == World(o, A)'
<1>1. /\ Types /\ WorldOK(World(o, A)) /\ Places(w) /\ Rest(w) /\ Covers(w) /\ Staged(w)
      /\ Apply(U) /\ orphans' = orphans \ {U}
      /\ UNCHANGED <<local, dirtyCount, previous, copyOf, sync, tokens, completedDownloadFirst, disk, storedTokens,
                     lineage, unsaved, forgotten>>
  BY DEF ServerHandlesOrphan, InvOf, client, store, ghosts
<1>2. UploadOK(w, U, DOMAIN U \cup DOMAIN server)
  BY <1>1 DEF Rest, OrphansOK, World
<1>3. Grows(w, v) /\ WorldOK(World(o, A))'
  BY <1>1, <1>2, ApplyGrows
<1>4. LineageOK(v) /\ FamilyOK(v, copyOf) /\ ServerOK(v) /\ DOMAIN v.lineage = DOMAIN lineage
  BY <1>1, <1>3 DEF WorldOK, World
<1>5. Places(v) /\ Rest(v) /\ Staged(v) /\ Covers(v)
  <2> HIDE DEF v
  <2>1. QED BY <1>3, <1>4, ClientStays
<1>6. Types'
  BY <1>1, <1>4 DEF Types, Contents
<1> HIDE DEF w, v
<1>7. OrphansOK(v, orphans')
  BY <1>1, <1>5 DEF Rest, OrphansOK
<1>8. QED BY <1>1, <1>3, <1>5, <1>6, <1>7, Assemble DEF Places, Rest, Covers, Staged, v

(* The world in which i has been given a new content, edited from base.    *)
LEMMA WriteGrows ==
  ASSUME NEW w, LineageOK(w), NEW copy, FamilyOK(w, copy), ServerOK(w), NEW i \in Items, NEW base \in w.family[i],
         NEW new, new = Len(w.lineage) + 1, NEW v, v.origin = w.origin,
         v.family = [w.family EXCEPT ![i] = @ \cup {new}],
         v.lineage = Append(w.lineage, w.lineage[base] \cup {new}),
         v.server = w.server, v.seq = w.seq, v.received = w.received
  PROVE  /\ LineageOK(v) /\ FamilyOK(v, copy) /\ ServerOK(v) /\ Grows(w, v)
         /\ new \notin DOMAIN w.lineage /\ DOMAIN v.lineage = DOMAIN w.lineage \cup {new}
         /\ new \in Nat /\ new \in v.family[i] /\ From(v, new, new) /\ From(v, new, base)
<1>1. /\ w.lineage \in Seq(SUBSET Nat) /\ Len(w.lineage) \in Nat /\ DOMAIN w.lineage = 1..Len(w.lineage)
      /\ \A c \in DOMAIN w.lineage : w.lineage[c] \subseteq DOMAIN w.lineage
  BY DEF LineageOK
<1>2. base \in DOMAIN w.lineage /\ From(w, base, base)
  BY DEF FamilyOK, LineageOK, From
<1>3. /\ new \in Nat /\ new \notin DOMAIN w.lineage /\ DOMAIN v.lineage = DOMAIN w.lineage \cup {new}
      /\ v.lineage[new] = w.lineage[base] \cup {new}
      /\ \A c \in DOMAIN w.lineage : v.lineage[c] = w.lineage[c]
      /\ v.lineage \in Seq(SUBSET Nat)
  <2>1. w.lineage[base] \cup {new} \in SUBSET Nat
    BY <1>1, <1>2
  <2> DEFINE x == w.lineage[base] \cup {new}
             f == w.lineage
  <2> HIDE DEF x, f
  <2>2. f \in Seq(SUBSET Nat) /\ x \in SUBSET Nat /\ v.lineage = Append(f, x) /\ new = Len(f) + 1
    BY <1>1, <2>1 DEF x, f
  <2>3. /\ new \in Nat /\ new \notin DOMAIN f /\ DOMAIN v.lineage = DOMAIN f \cup {new}
        /\ v.lineage[new] = x /\ \A c \in DOMAIN f : v.lineage[c] = f[c]
        /\ v.lineage \in Seq(SUBSET Nat)
    <3> DEFINE g == Append(f, x)
    <3>1. /\ Len(f) \in Nat /\ DOMAIN f = 1..Len(f) /\ g \in Seq(SUBSET Nat) /\ Len(g) = Len(f) + 1
          /\ DOMAIN g = 1..Len(g) /\ g[Len(f) + 1] = x /\ \A c \in 1..Len(f) : g[c] = f[c]
      BY <2>2
    <3> HIDE DEF g
    <3>2. v.lineage = g
      BY <2>2 DEF g
    <3>3. /\ new \in Nat /\ new \notin DOMAIN f /\ DOMAIN g = DOMAIN f \cup {new}
          /\ g[new] = x /\ \A c \in DOMAIN f : g[c] = f[c]
      BY <2>2, <3>1
    <3>4. QED BY <3>1, <3>2, <3>3
  <2>4. QED BY <2>3 DEF x, f
<1>4. \A d, c : d \in DOMAIN w.lineage => (From(v, d, c) <=> From(w, d, c))
  BY <1>3 DEF From
<1>5. \A c : From(v, new, c) <=> c = new \/ From(w, base, c)
  BY <1>2, <1>3 DEF From
<1>6. LineageOK(v)
  <2>1. \A c \in DOMAIN v.lineage : From(v, c, c)
    BY <1>3, <1>4, <1>5 DEF LineageOK
  <2>2. \A c \in DOMAIN v.lineage : v.lineage[c] \subseteq DOMAIN v.lineage
    BY <1>1, <1>2, <1>3
  <2>3. \A c, d \in DOMAIN v.lineage : From(v, c, d) => v.lineage[d] \subseteq v.lineage[c]
    <3> SUFFICES ASSUME NEW c \in DOMAIN v.lineage, NEW d \in DOMAIN v.lineage, From(v, c, d)
                 PROVE  v.lineage[d] \subseteq v.lineage[c]
      OBVIOUS
    <3>1. CASE c \in DOMAIN w.lineage
      <4>1. d \in DOMAIN w.lineage /\ From(w, c, d)
        BY <1>1, <1>4, <3>1 DEF From
      <4>2. QED BY <1>3, <3>1, <4>1 DEF LineageOK
    <3>2. CASE c = new /\ d # new
      <4>1. From(w, base, d) /\ d \in DOMAIN w.lineage
        BY <1>3, <1>5, <3>2
      <4>2. w.lineage[d] \subseteq w.lineage[base]
        BY <1>2, <4>1 DEF LineageOK
      <4>3. QED BY <1>3, <3>2, <4>1, <4>2
    <3>3. CASE c = new /\ d = new
      BY <3>3
    <3>4. QED BY <1>3, <3>1, <3>2, <3>3
  <2>4. QED BY <1>3, <2>1, <2>2, <2>3 DEF LineageOK
<1>7. \A j \in Items : /\ v.family[j] = IF j = i THEN w.family[i] \cup {new} ELSE w.family[j]
                       /\ w.family[j] \subseteq DOMAIN w.lineage
  BY DEF FamilyOK, From
<1>8. FamilyOK(v, copy)
  <2>1. v.family \in [Items -> SUBSET Nat] /\ v.origin \in [Items -> Nat]
    BY <1>3, <1>7 DEF FamilyOK
  <2>2. \A j \in Items : \A c \in v.family[j] : From(v, c, v.origin[j])
    <3> SUFFICES ASSUME NEW j \in Items, NEW c \in v.family[j] PROVE From(v, c, w.origin[j])
      OBVIOUS
    <3>1. CASE c \in w.family[j]
      BY <1>4, <1>7, <3>1 DEF FamilyOK
    <3>2. CASE c \notin w.family[j]
      <4>1. c = new /\ j = i
        BY <1>7, <3>2
      <4>2. From(w, base, w.origin[i])
        BY DEF FamilyOK
      <4>3. QED BY <1>5, <4>1, <4>2
    <3>3. QED BY <3>1, <3>2
  <2>3. \A j \in Items : v.family[j] = {} => v.origin[j] = 0
    BY <1>7 DEF FamilyOK
  <2>4. ASSUME NEW c \in Copies
        PROVE  /\ copy[c] = 0 => v.family[c] = {}
               /\ copy[c] # 0 => /\ copy[c] \in Items \ {c} /\ v.family[copy[c]] # {}
                                 /\ v.family[c] \cap v.family[copy[c]] \subseteq {v.origin[c]}
    <3>1. c \in Items /\ i \in Items
      BY DEF Items
    <3>2. CASE copy[c] = 0
      BY <1>7, <3>1, <3>2 DEF FamilyOK
    <3>3. CASE copy[c] # 0
      <4>1. copy[c] \in Items \ {c} /\ w.family[copy[c]] # {}
            /\ w.family[c] \cap w.family[copy[c]] \subseteq {w.origin[c]}
        BY <3>3 DEF FamilyOK
      <4>2. v.family[c] \cap v.family[copy[c]] \subseteq w.family[c] \cap w.family[copy[c]]
        BY <1>3, <1>7, <3>1, <4>1
      <4>3. QED BY <1>7, <3>3, <4>1, <4>2
    <3>4. QED BY <3>2, <3>3
  <2>5. QED BY <2>1, <2>2, <2>3, <2>4 DEF FamilyOK
<1>9. Grows(w, v)
  BY <1>3, <1>7 DEF Grows, ServerOK
<1>10. ServerOK(v)
  <2>1. Within(v, w.server)
    BY <1>9, WithinGrows DEF ServerOK, IsMap
  <2>2. \A c \in w.received : \E j \in DOMAIN w.server : From(v, w.server[j].content, c)
    BY <1>9, FromGrows DEF ServerOK
  <2>3. QED BY <1>3, <2>1, <2>2 DEF ServerOK
<1>11. From(v, new, new) /\ From(v, new, base) /\ new \in v.family[i]
  BY <1>2, <1>5, <1>7
<1>12. QED BY <1>3, <1>6, <1>8, <1>9, <1>10, <1>11

LEMMA GrowsTransitive ==
  ASSUME NEW w, NEW u, NEW v, Grows(w, u), Grows(u, v)
  PROVE  Grows(w, v)
<1>1. \A i \in DOMAIN v.server :
        (i \in DOMAIN w.server /\ v.server[i] = w.server[i]) \/ w.seq < v.server[i].rev
  <2> SUFFICES ASSUME NEW i \in DOMAIN v.server
               PROVE  (i \in DOMAIN w.server /\ v.server[i] = w.server[i]) \/ w.seq < v.server[i].rev
    OBVIOUS
  <2>1. v.server[i].rev \in Nat /\ w.seq \in Nat /\ u.seq \in Nat /\ w.seq <= u.seq
    BY DEF Grows, IsMap, ServerItem
  <2>2. CASE i \in DOMAIN u.server /\ v.server[i] = u.server[i]
    BY <2>2 DEF Grows
  <2>3. CASE u.seq < v.server[i].rev
    BY <2>1, <2>3
  <2>4. QED BY <2>2, <2>3 DEF Grows
<1>2. w.seq \in Nat /\ v.seq \in Nat /\ w.seq <= v.seq
  BY DEF Grows
<1>3. \A i \in Items : w.family[i] \subseteq v.family[i] /\ (w.origin[i] # 0 => v.origin[i] = w.origin[i])
  BY DEF Grows
<1>4. QED BY <1>1, <1>2, <1>3 DEF Grows

(* The server gets a content of item i that was edited from the one it had. *)
LEMMA ServerGrows ==
  ASSUME NEW w, LineageOK(w), NEW copy, FamilyOK(w, copy), ServerOK(w), NEW i \in DOMAIN w.server,
         NEW new \in w.family[i], new \in Nat, From(w, new, new), From(w, new, w.server[i].content),
         NEW v, v.origin = w.origin, v.family = w.family, v.lineage = w.lineage,
         v.server = [w.server EXCEPT ![i] = [content |-> new, rev |-> w.seq + 1]],
         v.seq = w.seq + 1, v.received = w.received \cup {new}
  PROVE  LineageOK(v) /\ FamilyOK(v, copy) /\ ServerOK(v) /\ Grows(w, v)
<1>1. \A d, c : From(v, d, c) <=> From(w, d, c)
  BY DEF From
<1>2. /\ DOMAIN v.server = DOMAIN w.server /\ v.server[i].content = new /\ v.server[i].rev = w.seq + 1
      /\ v.server[i] = [content |-> new, rev |-> w.seq + 1]
      /\ \A j \in DOMAIN w.server \ {i} : v.server[j] = w.server[j]
  OBVIOUS
<1>3. /\ w.seq \in Nat /\ IsMap(w.server, ServerItem)
      /\ \A j \in DOMAIN w.server : w.server[j].rev \in Nat /\ w.server[j].rev <= w.seq
  BY DEF ServerOK, IsMap, ServerItem
<1>4. IsMap(v.server, ServerItem)
  <2>1. v.server[i] \in ServerItem
    BY <1>2, <1>3 DEF ServerItem
  <2>2. QED BY <1>2, <1>3, <2>1 DEF IsMap
<1>5. LineageOK(v) /\ FamilyOK(v, copy)
  BY <1>1 DEF LineageOK, FamilyOK
<1>6. Grows(w, v)
  <2>1. \A j \in DOMAIN v.server : (j \in DOMAIN w.server /\ v.server[j] = w.server[j]) \/ w.seq < v.server[j].rev
    BY <1>2, <1>3
  <2>2. QED BY <1>2, <1>3, <1>4, <2>1 DEF Grows
<1>7. ServerOK(v)
  <2>1. Within(v, v.server)
    BY <1>2 DEF ServerOK, Within
  <2>2. \A j \in DOMAIN v.server : v.server[j].rev <= v.seq /\ v.server[j].content \in v.received
    BY <1>2, <1>3 DEF ServerOK
  <2>3. v.received \subseteq DOMAIN v.lineage
    BY DEF ServerOK, From
  <2>4. \A c \in v.received : \E j \in DOMAIN v.server : From(v, v.server[j].content, c)
    <3> SUFFICES ASSUME NEW c \in v.received PROVE \E j \in DOMAIN v.server : From(v, v.server[j].content, c)
      OBVIOUS
    <3>1. CASE c = new
      BY <1>1, <1>2, <3>1
    <3>2. CASE c \in w.received
      <4>1. PICK j \in DOMAIN w.server : From(w, w.server[j].content, c)
        BY <3>2 DEF ServerOK
      <4>2. CASE j = i
        BY <1>1, <1>2, <4>1, <4>2, FromTransitive
      <4>3. CASE j # i
        BY <1>1, <1>2, <4>1, <4>3
      <4>4. QED BY <4>2, <4>3
    <3>3. QED BY <3>1, <3>2
  <2>5. v.seq \in Nat
    BY <1>3
  <2>6. /\ IsMap(v.server, ServerItem) /\ v.seq \in Nat /\ Within(v, v.server)
        /\ \A j \in DOMAIN v.server : v.server[j].rev <= v.seq /\ v.server[j].content \in v.received
        /\ v.received \subseteq DOMAIN v.lineage
        /\ \A c \in v.received : \E j \in DOMAIN v.server : From(v, v.server[j].content, c)
    BY <1>4, <2>1, <2>2, <2>3, <2>4, <2>5, Zenon
  <2>7. QED BY <2>6, Zenon DEF ServerOK
<1>8. QED BY <1>5, <1>6, <1>7

LEMMA OtherDeviceEditStep ==
  ASSUME NEW o, NEW A, InvOf(o, A), NEW i \in Items, OtherDeviceEdit(i),
         NEW new, new = NewContent, NEW B, B = [A EXCEPT ![i] = @ \cup {new}]
  PROVE  InvOf(o, B)'
<1> DEFINE w == World(o, A)
           base == server[i].content
           u == [w EXCEPT !.family = B, !.lineage = lineage']
           v == World(o, B)'
<1>1. /\ i \in DOMAIN server /\ Types /\ WorldOK(w) /\ Places(w) /\ Rest(w) /\ Covers(w) /\ Staged(w)
      /\ lineage' = Append(lineage, lineage[base] \cup {new})
      /\ server' = [server EXCEPT ![i] = [content |-> new, rev |-> serverSeq + 1]]
      /\ serverSeq' = serverSeq + 1 /\ received' = received \cup {new}
      /\ UNCHANGED <<local, dirtyCount, previous, copyOf, sync, tokens, completedDownloadFirst, disk, storedTokens,
                     orphans, unsaved, forgotten>>
  BY DEF OtherDeviceEdit, Write, InvOf, client, store
<1>2. /\ w.origin = o /\ w.family = A /\ w.lineage = lineage /\ w.server = server
      /\ w.seq = serverSeq /\ w.received = received
      /\ v.origin = o /\ v.lineage = lineage' /\ v.server = server'
      /\ v.seq = serverSeq' /\ v.received = received' /\ v.family = B
      /\ u.origin = o /\ u.family = B /\ u.lineage = lineage' /\ u.server = server
      /\ u.seq = serverSeq /\ u.received = received
  BY DEF World
<1>3. new = Len(lineage) + 1
  BY DEF NewContent
<1> HIDE DEF w, u
<1>4. LineageOK(w) /\ FamilyOK(w, copyOf) /\ ServerOK(w) /\ i \in DOMAIN w.server
  BY <1>1, <1>2 DEF WorldOK
<1>5. base \in w.family[i]
  BY <1>2, <1>4 DEF ServerOK, Within
<1>6. /\ LineageOK(u) /\ FamilyOK(u, copyOf) /\ ServerOK(u) /\ Grows(w, u)
      /\ new \notin DOMAIN w.lineage /\ DOMAIN u.lineage = DOMAIN w.lineage \cup {new}
      /\ new \in Nat /\ new \in u.family[i] /\ From(u, new, new) /\ From(u, new, base)
  <2>1. /\ new = Len(w.lineage) + 1 /\ u.origin = w.origin /\ u.family = [w.family EXCEPT ![i] = @ \cup {new}]
        /\ u.lineage = Append(w.lineage, w.lineage[base] \cup {new})
        /\ u.server = w.server /\ u.seq = w.seq /\ u.received = w.received
    BY <1>1, <1>2, <1>3
  <2> HIDE DEF base
  <2>2. /\ LineageOK(u) /\ FamilyOK(u, copyOf) /\ ServerOK(u) /\ Grows(w, u)
        /\ new \notin DOMAIN w.lineage /\ DOMAIN u.lineage = DOMAIN w.lineage \cup {new}
        /\ new \in Nat /\ new \in u.family[i] /\ From(u, new, new) /\ From(u, new, base)
    BY <1>4, <1>5, <2>1, WriteGrows, ZenonT(30)
  <2>3. QED BY <2>2
<1> HIDE DEF v
<1>7. LineageOK(v) /\ FamilyOK(v, copyOf) /\ ServerOK(v) /\ Grows(u, v)
  <2>1. /\ v.origin = u.origin /\ v.family = u.family /\ v.lineage = u.lineage
        /\ v.server = [u.server EXCEPT ![i] = [content |-> new, rev |-> u.seq + 1]]
        /\ v.seq = u.seq + 1 /\ v.received = u.received \cup {new}
        /\ i \in DOMAIN u.server /\ u.server[i].content = base
    BY <1>1, <1>2
  <2>2. QED BY <1>6, <2>1, ServerGrows
<1>8. Grows(w, v)
  BY <1>6, <1>7, GrowsTransitive
<1>9. Places(v) /\ Rest(v) /\ Staged(v)
  BY <1>1, <1>4, <1>8, ClientGrows
<1>10. Covers(v)
  <2>1. \A C : Safe(v, C, new)
    <3>1. new \in v.received
      BY <1>1, <1>2
    <3>2. QED BY <1>7, <3>1, ReceivedIsSafe
  <2>2. \A C : IsMap(C, Payload) /\ Within(v, C) => \A j \in DOMAIN C : Safe(v, C, C[j].content)
    BY <1>7, FromItself DEF Safe
  <2>3. \A C, gone : IsMap(C, Payload) /\ Within(v, C) /\ Cover(w, C, gone) => Cover(v, C, gone)
    <3> SUFFICES ASSUME NEW C, NEW gone, IsMap(C, Payload), Within(v, C), Cover(w, C, gone) PROVE Cover(v, C, gone)
      OBVIOUS
    <3>1. \A c \in DOMAIN v.lineage : c \in DOMAIN w.lineage \ gone \/ c \in gone \/ Safe(v, C, c)
      BY <1>2, <1>6, <2>1
    <3>2. \A j \in DOMAIN C : Safe(v, C, C[j].content)
      BY <2>2
    <3>3. QED BY <1>4, <1>7, <1>8, <3>1, <3>2, CoverGrows
  <2>4. QED BY <1>1, <1>9, <2>3 DEF Covers, Places, Place
<1>11. WorldOK(World(o, B))'
  BY <1>1, <1>7 DEF WorldOK, v
<1>12. Types'
  BY <1>1, <1>2, <1>6 DEF Types, Contents
<1>13. QED BY <1>1, <1>9, <1>10, <1>11, <1>12, Assemble DEF Places, Rest, Covers, Staged, v

LEMMA InitHolds ==
  ASSUME Init
  PROVE  IInv
<1> DEFINE o == [i \in Items |-> IF i \in Notes THEN i ELSE 0]
           A == [i \in Items |-> IF i \in Notes THEN {i} ELSE {}]
           w == World(o, A)
<1>1. /\ Notes = 1..Cardinality(Notes) /\ Cardinality(Notes) \in Nat /\ Notes \subseteq Items /\ Notes \subseteq Nat
      /\ Copies \subseteq Items /\ 0 \notin Items /\ Notes \cap Copies = {} /\ Items = Notes \cup Copies
      /\ \A n \in Notes : n <= Cardinality(Notes)
  BY SyncDataAssumption, FS_CardinalityType DEF SyncDataAssumption, Items
<1>2. /\ w.origin = o /\ w.family = A /\ w.lineage = [i \in Notes |-> {i}]
      /\ w.server = [i \in Notes |-> [content |-> i, rev |-> i]]
      /\ w.seq = Cardinality(Notes) /\ w.received = Notes
  BY DEF World, Init
<1>3. /\ local \in {NoItems, Synced} /\ disk = local /\ storedTokens = tokens
      /\ tokens = [sync |-> IF local = NoItems THEN 0 ELSE Cardinality(Notes), cursor |-> 0]
      /\ dirtyCount = 0 /\ previous = [i \in Items |-> 0] /\ copyOf = [c \in Copies |-> 0]
      /\ sync = Idle /\ completedDownloadFirst = FALSE /\ orphans = {} /\ unsaved = {} /\ forgotten = {}
      /\ Contents = Notes
  BY DEF Init, Contents
<1>4. /\ DOMAIN local \subseteq Notes
      /\ \A i \in DOMAIN local : local[i] = Clean(i, i)
      /\ local = NoItems \/ DOMAIN local = Notes
  BY <1>3, IdleFields DEF Synced
<1>5. \A i \in DOMAIN local : /\ local[i] \in Payload /\ local[i].content = i /\ local[i].rev = i
                              /\ ~local[i].dirty /\ local[i].dirtyIndex = 0
                              /\ local[i].globalDirtyIndexAtLastSync = 0
  <2>1. ASSUME NEW i \in Nat
        PROVE  /\ Clean(i, i) \in Payload /\ Clean(i, i).content = i /\ Clean(i, i).rev = i
               /\ ~Clean(i, i).dirty /\ Clean(i, i).dirtyIndex = 0
               /\ Clean(i, i).globalDirtyIndexAtLastSync = 0
    BY DEF Clean, Payload
  <2>2. QED BY <1>1, <1>4, <2>1
<1>6. \A d, c : From(w, d, c) <=> d \in Notes /\ c = d
  BY <1>2 DEF From
<1>7. \A i \in Notes : o[i] = i /\ A[i] = {i} /\ w.server[i].content = i /\ w.server[i].rev = i
  BY <1>1, <1>2
<1>8. \A i \in Items \ Notes : o[i] = 0 /\ A[i] = {}
  BY <1>1
<1>9. o \in [Items -> Nat] /\ A \in [Items -> SUBSET Nat]
  BY <1>1
<1> HIDE DEF o, A, w
<1>10. LineageOK(w)
  <2>1. w.lineage \in [1..Cardinality(Notes) -> SUBSET Nat]
    BY <1>1, <1>2
  <2>2. w.lineage \in Seq(SUBSET Nat)
    BY <1>1, <2>1
  <2>3. DOMAIN w.lineage = Notes /\ \A c \in Notes : w.lineage[c] = {c}
    BY <1>2
  <2>4. QED BY <1>6, <2>2, <2>3 DEF LineageOK
<1>11. FamilyOK(w, copyOf)
  <2>1. \A i \in Items : \A c \in A[i] : From(w, c, o[i])
    BY <1>6, <1>7, <1>8
  <2>2. \A i \in Items : A[i] = {} => o[i] = 0
    BY <1>7, <1>8
  <2>3. \A c \in Copies : copyOf[c] = 0 /\ A[c] = {}
    BY <1>1, <1>3, <1>8
  <2>4. QED BY <1>2, <1>9, <2>1, <2>2, <2>3 DEF FamilyOK
<1>12. ServerOK(w)
  <2>1. IsMap(w.server, ServerItem)
    BY <1>1, <1>2 DEF IsMap, ServerItem
  <2>7. DOMAIN w.server = Notes /\ DOMAIN w.lineage = Notes
    BY <1>2
  <2>2. Within(w, w.server)
    BY <1>2, <1>7, <2>7 DEF Within
  <2>3. w.received \subseteq DOMAIN w.lineage /\ \A c \in w.received : \E i \in DOMAIN w.server : From(w, w.server[i].content, c)
    BY <1>2, <1>6, <1>7, <2>7
  <2>4. \A i \in DOMAIN w.server : w.server[i].rev <= w.seq /\ w.server[i].content \in w.received
    <3>1. \A n \in Notes : n <= Cardinality(Notes)
      BY <1>1
    <3>2. w.seq = Cardinality(Notes) /\ w.received = Notes
      BY <1>2
    <3>3. QED BY <1>7, <2>7, <3>1, <3>2
  <2>5. w.seq \in Nat
    BY <1>1, <1>2
  <2>6. QED BY <2>1, <2>2, <2>3, <2>4, <2>5 DEF ServerOK
<1>13. DOMAIN w.server = Notes /\ w.received = Notes /\ w.seq = Cardinality(Notes)
  BY <1>2
<1>14. Place(w, local, DOMAIN local)
  <2>1. IsMap(local, Payload)
    BY <1>1, <1>4, <1>5 DEF IsMap
  <2>2. Within(w, local)
    BY <1>2, <1>4, <1>5, <1>7 DEF Within
  <2>3. Marked(w, local)
    BY <1>4, <1>5, <1>13 DEF Marked
  <2>4. Based(w, local, DOMAIN local)
    BY <1>1, <1>4, <1>5, <1>6, <1>7, <1>13 DEF Based
  <2>5. QED BY <2>1, <2>2, <2>3, <2>4 DEF Place
<1>15. Types
  <2>1. Indexed(local, 0)
    BY <1>5 DEF Indexed
  <2>2. QED BY <1>3, <1>5, <2>1 DEF Types
<1>16. Follows(w, local, local)
  BY <1>4, <1>5, <1>6 DEF Follows
<1>17. PreviousOK(w, local, previous, {})
  BY <1>1, <1>3, <1>4 DEF PreviousOK
<1>18. TokensOK(w, disk, tokens, storedTokens)
  <2>1. tokens \in Token /\ Since(tokens) = IF local = NoItems THEN 0 ELSE Cardinality(Notes)
    BY <1>1, <1>3 DEF Token, Since
  <2>2. CASE local = NoItems
    BY <1>1, <1>3, <1>7, <1>13, <2>1, <2>2 DEF TokensOK
  <2>3. CASE local # NoItems
    <3>1. DOMAIN local = Notes
      BY <1>4, <2>3
    <3>2. \A k \in Notes : From(w, local[k].content, w.server[k].content)
      BY <1>5, <1>6, <1>7, <3>1
    <3>3. \A k \in Notes : Stays(w, w.server[k].content, k, local)
      BY <3>1, <3>2 DEF Stays
    <3>4. QED BY <1>1, <1>3, <1>13, <2>1, <2>3, <3>3 DEF TokensOK
  <2>4. QED BY <2>2, <2>3
<1>19. \A C, gone : Cover(w, C, gone)
  <2>1. \A C, c : c \in DOMAIN w.lineage => Safe(w, C, c)
    BY <1>2, <1>12, ReceivedIsSafe
  <2>2. QED BY <2>1 DEF Cover
<1>20. InvOf(o, A)
  <2>1. SyncOK(sync, local, dirtyCount) /\ sync.pc = "idle" /\ sync.sent = {}
    BY <1>3, IdleIsOK, IdleFields
  <2>2. Staged(w)
    BY <2>1 DEF Staged
  <2>3. Rest(w)
    BY <1>3, <1>16, <1>17, <1>18, <2>1 DEF Rest, Written, OrphansOK
  <2>4. Places(w) /\ Covers(w) /\ WorldOK(w)
    BY <1>3, <1>10, <1>11, <1>12, <1>14, <1>19 DEF Places, Covers, WorldOK
  <2>5. QED BY <1>15, <2>2, <2>3, <2>4 DEF InvOf, w
<1>21. QED BY <1>20 DEF IInv

-----------------------------------------------------------------------------
(* An edit, when no race is let in.                                        *)

LEMMA EditStep ==
  ASSUME Environment = {}, NEW o, NEW A, InvOf(o, A), NEW i \in Items, Edit(i),
         NEW new, new = NewContent, NEW B, B = [A EXCEPT ![i] = @ \cup {new}]
  PROVE  InvOf(o, B)'
<1> DEFINE w == World(o, A)
           v == World(o, B)'
           base == local[i].content
           edited == Redirtied([local[i] EXCEPT !.content = new])
<1>1. /\ i \in DOMAIN local /\ Types /\ WorldOK(w) /\ Places(w) /\ Rest(w) /\ Covers(w) /\ Staged(w)
      /\ lineage' = Append(lineage, lineage[base] \cup {new})
      /\ dirtyCount' = dirtyCount + 1 /\ unsaved' = unsaved \cup {new}
      /\ UNCHANGED <<copyOf, sync, tokens, completedDownloadFirst, disk, storedTokens,
                     server, serverSeq, orphans, received, forgotten>>
  BY DEF Edit, Write, InvOf, store, remote
<1>2. ~BeingApplied(i) /\ ~(InFlight(i) /\ sync.frozen = 0)
  BY DEF Edit
<1>3. /\ w.origin = o /\ w.family = A /\ w.lineage = lineage /\ w.server = server
      /\ w.seq = serverSeq /\ w.received = received
      /\ v.origin = o /\ v.lineage = lineage' /\ v.server = server'
      /\ v.seq = serverSeq' /\ v.received = received' /\ v.family = B
  BY DEF World
<1>4. new = Len(lineage) + 1
  BY DEF NewContent
<1>5. /\ DOMAIN local' = DOMAIN local /\ local'[i] = edited
      /\ \A j \in DOMAIN local \ {i} : local'[j] = local[j]
  BY <1>1 DEF Edit, Emit, Put
<1>6. previous' = [j \in Items |-> IF j = i /\ local[i].content # edited.content THEN local[i].content ELSE previous[j]]
  BY <1>1 DEF Edit, Emit
<1> HIDE DEF w, v
<1>7. LineageOK(w) /\ FamilyOK(w, copyOf) /\ ServerOK(w) /\ IsMap(local, Payload) /\ Within(w, local)
  BY <1>1 DEF WorldOK, Places, Place
<1>8. base \in w.family[i]
  BY <1>1, <1>7 DEF Within
<1>9. /\ LineageOK(v) /\ FamilyOK(v, copyOf) /\ ServerOK(v) /\ Grows(w, v)
      /\ new \notin DOMAIN w.lineage /\ DOMAIN v.lineage = DOMAIN w.lineage \cup {new}
      /\ new \in Nat /\ new \in v.family[i] /\ From(v, new, new) /\ From(v, new, base)
  <2>1. /\ new = Len(w.lineage) + 1 /\ v.origin = w.origin /\ v.family = [w.family EXCEPT ![i] = @ \cup {new}]
        /\ v.lineage = Append(w.lineage, w.lineage[base] \cup {new})
        /\ v.server = w.server /\ v.seq = w.seq /\ v.received = w.received
    BY <1>1, <1>3, <1>4
  <2> HIDE DEF base
  <2>2. QED BY <1>7, <1>8, <2>1, WriteGrows, ZenonT(30)
<1>10. Places(v) /\ Rest(v) /\ Staged(v)
  BY <1>1, <1>7, <1>9, ClientGrows
<1>11. base # new /\ base \in DOMAIN w.lineage
  BY <1>1, <1>7, <1>9, FromItself
<1>12. /\ edited \in Payload /\ edited.content = new /\ edited.rev = local[i].rev /\ edited.dirty
       /\ edited.dirtyIndex = dirtyCount + 1
       /\ edited.globalDirtyIndexAtLastSync = local[i].globalDirtyIndexAtLastSync
  <2> DEFINE p == local[i]
  <2>1. p \in Payload /\ dirtyCount \in Nat
    BY <1>1, <1>7 DEF IsMap, Types
  <2> HIDE DEF p
  <2>2. ASSUME NEW e, e = Redirtied([p EXCEPT !.content = new])
        PROVE  /\ e \in Payload /\ e.content = new /\ e.rev = p.rev /\ e.dirty
               /\ e.dirtyIndex = dirtyCount + 1 /\ e.globalDirtyIndexAtLastSync = p.globalDirtyIndexAtLastSync
    <3>1. DOMAIN p = {"content", "rev", "dirty", "dirtyIndex", "globalDirtyIndexAtLastSync"}
          /\ p.rev \in Nat /\ p.globalDirtyIndexAtLastSync \in Nat
      BY <2>1 DEF Payload
    <3>2. e = [content |-> new, rev |-> p.rev, dirty |-> TRUE, dirtyIndex |-> dirtyCount + 1,
               globalDirtyIndexAtLastSync |-> p.globalDirtyIndexAtLastSync]
      BY <2>2, <3>1 DEF Redirtied
    <3>3. QED BY <1>9, <2>1, <3>1, <3>2 DEF Payload
  <2>3. QED BY <2>2 DEF p
<1> HIDE DEF edited
<1>13. /\ local'[i] \in Payload /\ local'[i].content = new /\ local'[i].rev = local[i].rev /\ local'[i].dirty
       /\ local'[i].dirtyIndex = dirtyCount + 1
       /\ local'[i].globalDirtyIndexAtLastSync = local[i].globalDirtyIndexAtLastSync
  BY <1>5, <1>12
<1>14. previous' = [j \in Items |-> IF j = i THEN base ELSE previous[j]]
  BY <1>6, <1>11, <1>12
<1> HIDE DEF base
<1>15. \A j \in DOMAIN local : From(v, local'[j].content, local[j].content)
  <2>1. IsMap(local, Payload) /\ Within(v, local)
    BY <1>10 DEF Places, Place
  <2>2. QED BY <1>5, <1>9, <1>13, <2>1, FromItself DEF base
<1>16. \A j \in DOMAIN local : \A c : From(v, local[j].content, c) => From(v, local'[j].content, c)
  BY <1>9, <1>15, FromTransitive
<1>17. Types'
  <2>1. Indexed(local', dirtyCount')
    <3> SUFFICES ASSUME NEW j \in DOMAIN local
                 PROVE  /\ local'[j].dirtyIndex <= dirtyCount' /\ local'[j].globalDirtyIndexAtLastSync <= dirtyCount'
                        /\ ~local'[j].dirty => local'[j].dirtyIndex = 0
      BY <1>5 DEF Indexed
    <3>1. /\ local[j].dirtyIndex <= dirtyCount /\ local[j].globalDirtyIndexAtLastSync <= dirtyCount
          /\ ~local[j].dirty => local[j].dirtyIndex = 0
          /\ local[j].dirtyIndex \in Nat /\ local[j].globalDirtyIndexAtLastSync \in Nat /\ dirtyCount \in Nat
      BY <1>1, <1>7 DEF Types, Indexed, IsMap, Payload
    <3>2. CASE j = i
      BY <1>1, <1>13, <3>1, <3>2
    <3>3. CASE j # i
      BY <1>1, <1>5, <3>1, <3>3
    <3>4. QED BY <3>2, <3>3
  <2>2. dirtyCount' \in Nat
    BY <1>1 DEF Types
  <2>3. unsaved' \cup forgotten' \subseteq Contents'
    BY <1>1, <1>3, <1>9 DEF Types, Contents
  <2>4. QED BY <1>1, <2>1, <2>2, <2>3 DEF Types
<1>18. Place(v, local', DOMAIN local')
  <2>1. Place(v, local, DOMAIN local)
    BY <1>10 DEF Places
  <2>2. IsMap(local', Payload)
    BY <1>5, <1>7, <1>13 DEF IsMap
  <2>3. Within(v, local') /\ Marked(v, local')
    BY <1>5, <1>9, <1>13, <2>1 DEF Place, Within, Marked
  <2>4. \A j \in DOMAIN local : local'[j].rev = local[j].rev
    BY <1>5, <1>13
  <2>5. Based(v, local', DOMAIN local')
    BY <1>5, <1>16, <2>1, <2>4 DEF Place, Based
  <2>6. QED BY <2>2, <2>3, <2>5 DEF Place
<1>19. Follows(v, Written(sync', disk'), local')
  <2>1. Follows(v, Written(sync, disk), local) /\ Written(sync', disk') = Written(sync, disk)
    BY <1>1, <1>10 DEF Rest, Written
  <2> DEFINE W == Written(sync, disk)
  <2> HIDE DEF W
  <2>2. Follows(v, W, local) => Follows(v, W, local')
    BY <1>5, <1>13, <1>16 DEF Follows
  <2>3. QED BY <2>1, <2>2 DEF W
<1>20. PreviousOK(v, local', previous', sync'.sent)
  <2>1. PreviousOK(v, local, previous, sync.sent) /\ sync' = sync
    BY <1>1, <1>10 DEF Rest
  <2>2. base \in Nat /\ i \in DOMAIN local
    BY <1>1, <1>7 DEF IsMap, Payload, base
  <2>3. \A j \in Items : previous'[j] = IF j = i THEN base ELSE previous[j]
    BY <1>14
  <2>4. previous' \in [Items -> Nat]
    BY <1>14, <2>1, <2>2 DEF PreviousOK
  <2>5. \A j \in Items \ DOMAIN local' : previous'[j] = 0
    BY <1>5, <2>1, <2>2, <2>3 DEF PreviousOK
  <2>6. ASSUME NEW j \in DOMAIN local', previous'[j] # 0, local'[j].dirty \/ j \in sync'.sent
        PROVE  From(v, local'[j].content, previous'[j]) \/ Held(v, previous'[j], DOMAIN local')
    <3>1. j \in DOMAIN local /\ j \in Items
      BY <1>5, <1>7 DEF IsMap
    <3>2. CASE j = i
      BY <1>9, <1>13, <2>3, <3>1, <3>2
    <3>3. CASE j # i
      BY <1>5, <2>1, <2>3, <2>6, <3>1, <3>3 DEF PreviousOK
    <3>4. QED BY <3>2, <3>3
  <2>7. QED BY <2>4, <2>5, <2>6 DEF PreviousOK
<1>21. Cover(v, local', forgotten')
  <2>1. \A j \in DOMAIN local : Safe(v, local', local[j].content)
    BY <1>5, <1>15 DEF Safe
  <2>2. Safe(v, local', new)
    BY <1>1, <1>5, <1>9, <1>13 DEF Safe
  <2>3. \A c \in DOMAIN v.lineage : c \in DOMAIN w.lineage \ forgotten \/ c \in forgotten \/ Safe(v, local', c)
    BY <1>9, <2>2
  <2>4. Cover(w, local, forgotten)
    BY <1>1 DEF Covers
  <2>5. QED BY <1>1, <1>7, <1>9, <2>1, <2>3, <2>4, CoverGrows
<1>22. Cover(v, disk', forgotten' \cup unsaved')
  <2> DEFINE gone == forgotten \cup unsaved
             lost == forgotten' \cup unsaved'
  <2>1. IsMap(disk, Payload) /\ Within(v, disk) /\ Cover(w, disk, gone)
    BY <1>1, <1>10 DEF Places, Place, Covers
  <2>2. \A j \in DOMAIN disk : Safe(v, disk, disk[j].content)
    BY <1>9, <2>1, FromItself DEF Safe
  <2>3. \A c \in DOMAIN v.lineage : c \in DOMAIN w.lineage \ gone \/ c \in lost \/ Safe(v, disk, c)
    BY <1>1, <1>9
  <2> HIDE DEF gone, lost
  <2>4. Cover(v, disk, lost)
    BY <1>7, <1>9, <2>1, <2>2, <2>3, CoverGrows
  <2>5. QED BY <1>1, <2>4 DEF lost
<1>23. SyncOK(sync', local', dirtyCount')
  BY <1>1, <1>5, <1>10 DEF Staged, SyncOK, Types
<1>24. ASSUME sync'.pc = "presave" PROVE PresaveOK(v, sync', local', disk')
  <2>1. PresaveOK(v, sync, local, disk)
    BY <1>1, <1>10, <1>24 DEF Staged
  <2>2. \A j \in DOMAIN local : local[j].dirty => local'[j].dirty
    BY <1>5, <1>13
  <2>3. \A j \in DOMAIN sync.captured : From(v, local'[j].content, sync.captured[j].content)
    BY <1>16, <2>1 DEF PresaveOK
  <2>4. QED BY <1>1, <1>5, <2>1, <2>2, <2>3 DEF PresaveOK
<1>25. ASSUME i \in sync.sent, sync.pc \in {"waiting", "answered"},
              local[i].globalDirtyIndexAtLastSync = sync.frozen
       PROVE  StillDirty(local'[i])
  <2>1. sync.frozen # 0 /\ sync.frozen \in Nat /\ sync.frozen <= dirtyCount /\ dirtyCount \in Nat
    BY <1>1, <1>2, <1>25 DEF InFlight, Staged, SyncOK, Types
  <2>2. QED BY <1>13, <1>25, <2>1 DEF StillDirty
<1>26. ASSUME sync'.pc = "waiting" PROVE WaitingOK(v, sync', local', tokens')
  <2> DEFINE U == sync.request.upload
  <2>1. WaitingOK(v, sync, local, tokens) /\ sync.sent \subseteq DOMAIN local
    BY <1>1, <1>10, <1>26 DEF Staged, SyncOK
  <2>2. ASSUME NEW j \in DOMAIN U
        PROVE  /\ local'[j].globalDirtyIndexAtLastSync = sync.frozen
               /\ From(v, local'[j].content, U[j].content)
               /\ U[j].content = local'[j].content \/ StillDirty(local'[j])
    <3>1. /\ j \in sync.sent /\ j \in DOMAIN local /\ local[j].globalDirtyIndexAtLastSync = sync.frozen
          /\ From(v, local[j].content, U[j].content)
          /\ U[j].content = local[j].content \/ StillDirty(local[j])
      BY <2>1 DEF WaitingOK
    <3>2. From(v, local'[j].content, U[j].content)
      BY <1>16, <3>1
    <3>3. CASE j = i
      BY <1>1, <1>13, <1>25, <1>26, <3>1, <3>2, <3>3
    <3>4. CASE j # i
      BY <1>5, <3>1, <3>2, <3>4
    <3>5. QED BY <3>3, <3>4
  <2>3. QED BY <1>1, <1>5, <2>1, <2>2 DEF WaitingOK
<1>27. ASSUME sync'.pc \in {"answered", "resolve"} PROVE ReplyOK(v, sync', local', tokens')
  <2> DEFINE R == sync.reply
  <2>1. ReplyOK(v, sync, local, tokens) /\ sync.sent \subseteq DOMAIN local
    BY <1>1, <1>10, <1>27 DEF Staged, SyncOK
  <2>2. ASSUME NEW j \in DOMAIN R.saved
        PROVE  /\ local'[j].globalDirtyIndexAtLastSync = sync.frozen
               /\ R.saved[j] = v.server[j].rev => From(v, local'[j].content, v.server[j].content)
               /\ local'[j].content \in v.received \/ StillDirty(local'[j])
               /\ j \in DOMAIN R.retrieved =>
                    \/ From(v, local'[j].content, R.retrieved[j].content)
                    \/ Held(v, R.retrieved[j].content, DOMAIN local)
    <3>1. /\ j \in sync.sent /\ j \in DOMAIN local /\ local[j].globalDirtyIndexAtLastSync = sync.frozen
          /\ R.saved[j] = v.server[j].rev => From(v, local[j].content, v.server[j].content)
          /\ local[j].content \in v.received \/ StillDirty(local[j])
          /\ j \in DOMAIN R.retrieved =>
               \/ From(v, local[j].content, R.retrieved[j].content)
               \/ Held(v, R.retrieved[j].content, DOMAIN local)
      BY <2>1 DEF ReplyOK, SavedOK
    <3>2. CASE j = i
      <4>1. sync.pc = "answered"
        BY <1>1, <1>2, <1>27, <3>2 DEF BeingApplied, Affected
      <4>2. StillDirty(local'[j])
        BY <1>25, <3>1, <3>2, <4>1
      <4>3. QED BY <1>13, <1>16, <3>1, <3>2, <4>2
    <3>3. CASE j # i
      BY <1>5, <3>1, <3>3
    <3>4. QED BY <3>2, <3>3
  <2>3. SavedOK(v, R, local', tokens)
    BY <1>5, <2>1, <2>2 DEF ReplyOK, SavedOK
  <2>4. QED BY <1>1, <2>1, <2>2, <2>3 DEF ReplyOK
<1>28. ASSUME sync'.pc = "resolve" PROVE ResolveOK(v, sync', local', previous')
  <2>1. ResolveOK(v, sync, local, previous) /\ i \notin Affected(sync.reply)
    BY <1>1, <1>2, <1>10, <1>28 DEF Staged, BeingApplied
  <2>2. \A j \in Items \ {i} : previous'[j] = previous[j]
    BY <1>14
  <2>3. \A j \in Affected(sync.reply) \cap DOMAIN local : j \in Items \ {i} /\ local'[j] = local[j]
    BY <1>5, <1>7, <2>1 DEF IsMap
  <2>4. QED BY <1>1, <1>5, <2>1, <2>2, <2>3 DEF ResolveOK
<1>29. ASSUME sync'.pc = "persist" PROVE PersistOK(v, sync', local', disk', tokens', dirtyCount')
  <2> DEFINE es == sync.emits
  <2>1. PersistOK(v, sync, local, disk, tokens, dirtyCount) /\ \A n \in 2..Len(es) : i \notin DOMAIN es[n]
    BY <1>1, <1>2, <1>10, <1>29 DEF Staged, BeingApplied
  <2>2. Len(es) \in 1..3 /\ dirtyCount \in Nat
    BY <1>1, <2>1 DEF PersistOK, Types
  <2>3. ASSUME NEW k \in 1..Len(es) PROVE EmitOK(v, es[k], disk, tokens, dirtyCount')
    <3>1. EmitOK(v, es[k], disk, tokens, dirtyCount)
      BY <2>1 DEF PersistOK
    <3>2. \A j \in DOMAIN es[k] : es[k][j].dirtyIndex \in Nat /\ es[k][j].globalDirtyIndexAtLastSync \in Nat
      BY <3>1 DEF EmitOK, Place, IsMap, Payload
    <3>3. Indexed(es[k], dirtyCount')
      BY <1>1, <2>2, <3>1, <3>2 DEF EmitOK, Indexed
    <3>4. QED BY <3>1, <3>3 DEF EmitOK
  <2>4. ASSUME NEW k \in 2..Len(es) PROVE LaterOK(v, es[k], local', sync.sent)
    <3>1. LaterOK(v, es[k], local, sync.sent) /\ i \notin DOMAIN es[k]
      BY <2>1 DEF PersistOK
    <3>2. QED BY <1>5, <3>1 DEF LaterOK, Follower
  <2>5. \A k \in 1..Len(es) : \A m \in 1..Len(es) : m < k => PairOK(v, es[m], es[k], local', tokens)
    BY <1>5, <2>1 DEF PersistOK, PairOK, Follower
  <2>6. QED BY <1>1, <2>1, <2>3, <2>4, <2>5 DEF PersistOK
<1>30. WorldOK(World(o, B))'
  BY <1>1, <1>9 DEF WorldOK, v
<1>31. TokensOK(v, disk', tokens', storedTokens') /\ OrphansOK(v, orphans') /\ Place(v, disk', DOMAIN disk')
  BY <1>1, <1>10 DEF Rest, Places
<1>32. QED BY <1>17, <1>18, <1>19, <1>20, <1>21, <1>22, <1>23, <1>24, <1>26, <1>27, <1>28, <1>29, <1>30, <1>31, Assemble DEF v

-----------------------------------------------------------------------------
(* Emits that are applied, and written to disk.                            *)

LEMMA PlaceMore ==
  ASSUME NEW w, NEW C, NEW D, NEW E, D \subseteq E, Place(w, C, D)
  PROVE  Place(w, C, E)
BY DEF Place, Based, Held

(* What an emit may do to the collection it is applied to next.            *)
FirstOK(w, e, lc, sent) ==
  \A i \in DOMAIN e \cap DOMAIN lc :
    \/ (i \in sent \/ lc[i].dirty) /\ Follower(w, lc[i].content, i, e, lc)
    \/ i \notin sent /\ ~e[i].dirty /\ lc[i].content \in w.received

(* The revisions once e has been applied to lc.                            *)
PreviousAfter(lc, e, pv) ==
  [i \in Items |-> IF i \in DOMAIN e \cap DOMAIN lc /\ lc[i].content # e[i].content
                     THEN lc[i].content ELSE pv[i]]

(* X has the contents of e, and those of W for the other items.            *)
ContentsAfter(X, W, e) ==
  /\ DOMAIN X = DOMAIN W \cup DOMAIN e
  /\ \A i \in DOMAIN X : X[i].content = IF i \in DOMAIN e THEN e[i].content ELSE W[i].content

LEMMA ApplyEmit ==
  ASSUME NEW w, LineageOK(w), NEW copy, FamilyOK(w, copy), ServerOK(w), NEW lc, NEW W, NEW e, NEW pv, NEW sent,
         NEW n, NEW gone, Place(w, lc, DOMAIN lc), Follows(w, W, lc), PreviousOK(w, lc, pv, sent),
         Cover(w, lc, gone), Indexed(lc, n), Place(w, e, DOMAIN lc \cup DOMAIN e), Indexed(e, n),
         FirstOK(w, e, lc, sent), NEW ld, ld = Put(lc, e),
         NEW pd, pd = PreviousAfter(lc, e, pv), NEW X, ContentsAfter(X, W, e)
  PROVE  /\ Place(w, ld, DOMAIN ld) /\ Indexed(ld, n) /\ Follows(w, X, ld) /\ PreviousOK(w, ld, pd, sent)
         /\ Cover(w, ld, gone)
<1> DEFINE D == DOMAIN lc \cup DOMAIN e
<1>1. /\ DOMAIN ld = D /\ \A i \in DOMAIN e : ld[i] = e[i]
      /\ \A i \in DOMAIN lc \ DOMAIN e : ld[i] = lc[i]
  BY DEF Put
<1>2. Place(w, lc, D)
  BY PlaceMore
<1>3. IsMap(lc, Payload) /\ IsMap(e, Payload) /\ Within(w, lc) /\ Within(w, e)
  BY DEF Place
<1> HIDE DEF D
<1>4. Place(w, ld, DOMAIN ld)
  <2>1. IsMap(ld, Payload)
    BY <1>1, <1>3 DEF IsMap, D
  <2>2. Place(w, e, D)
    BY DEF D
  <2>3. QED BY <1>1, <1>2, <2>1, <2>2 DEF Place, Within, Based, Marked, D
<1>5. Indexed(ld, n)
  BY <1>1 DEF Indexed, D
<1>6. Follows(w, X, ld)
  <2>1. DOMAIN X = DOMAIN ld /\ \A i \in DOMAIN X : X[i].content = IF i \in DOMAIN e THEN e[i].content ELSE W[i].content
    BY <1>1 DEF Follows, ContentsAfter, D
  <2>2. \A i \in DOMAIN e : From(w, ld[i].content, X[i].content) /\ X[i].content = ld[i].content
    BY <1>1, <1>3, <2>1, FromItself DEF D
  <2>3. \A i \in DOMAIN lc \ DOMAIN e : From(w, ld[i].content, X[i].content)
                                        /\ (~ld[i].dirty => X[i].content = ld[i].content)
    BY <1>1, <2>1 DEF Follows, D
  <2>4. QED BY <1>1, <2>1, <2>2, <2>3 DEF Follows, D
<1>7. PreviousOK(w, ld, pd, sent)
  <2>1. \A i \in Items : pd[i] = IF i \in DOMAIN e \cap DOMAIN lc /\ lc[i].content # e[i].content
                                   THEN lc[i].content ELSE pv[i]
    BY DEF PreviousAfter
  <2>2. pd \in [Items -> Nat]
    <3>1. \A i \in DOMAIN lc : lc[i].content \in Nat
      BY <1>3 DEF IsMap, Payload
    <3>2. QED BY <3>1 DEF PreviousOK, PreviousAfter
  <2>3. \A i \in Items \ DOMAIN ld : pd[i] = 0
    BY <1>1, <2>1 DEF PreviousOK, D
  <2>4. ASSUME NEW i \in DOMAIN ld, pd[i] # 0, ld[i].dirty \/ i \in sent
        PROVE  From(w, ld[i].content, pd[i]) \/ Held(w, pd[i], DOMAIN ld)
    <3>1. i \in Items /\ i \in D
      BY <1>1, <1>3 DEF IsMap, D
    <3>2. CASE i \notin DOMAIN e
      <4>1. i \in DOMAIN lc /\ ld[i] = lc[i] /\ pd[i] = pv[i]
        BY <1>1, <2>1, <3>1, <3>2 DEF D
      <4>2. From(w, lc[i].content, pv[i]) \/ Held(w, pv[i], DOMAIN lc)
        BY <2>4, <4>1 DEF PreviousOK
      <4>3. QED BY <1>1, <4>1, <4>2 DEF Held, D
    <3>3. CASE i \in DOMAIN e /\ i \notin DOMAIN lc
      BY <2>1, <2>4, <3>1, <3>3 DEF PreviousOK
    <3>4. CASE i \in DOMAIN e /\ i \in DOMAIN lc
      <4>1. ld[i] = e[i]
        BY <1>1, <3>4
      <4>2. (i \in sent \/ lc[i].dirty) /\ Follower(w, lc[i].content, i, e, lc)
        BY <2>4, <3>4, <4>1 DEF FirstOK
      <4>3. CASE lc[i].content # e[i].content
        <5>1. pd[i] = lc[i].content
          BY <2>1, <3>1, <3>4, <4>3
        <5>2. QED BY <1>1, <4>1, <4>2, <5>1 DEF Follower, D
      <4>4. CASE lc[i].content = e[i].content
        <5>1. pd[i] = pv[i]
          BY <2>1, <3>1, <3>4, <4>4
        <5>2. From(w, lc[i].content, pv[i]) \/ Held(w, pv[i], DOMAIN lc)
          BY <2>4, <3>4, <4>2, <5>1 DEF PreviousOK
        <5>3. QED BY <1>1, <4>1, <4>4, <5>1, <5>2 DEF Held, D
      <4>5. QED BY <4>3, <4>4
    <3>5. QED BY <3>2, <3>3, <3>4
  <2>5. QED BY <2>2, <2>3, <2>4 DEF PreviousOK
<1>8. Cover(w, ld, gone)
  <2> SUFFICES ASSUME NEW c \in DOMAIN w.lineage \ gone PROVE Safe(w, ld, c)
    BY DEF Cover
  <2>1. Safe(w, lc, c)
    BY DEF Cover
  <2>2. ASSUME NEW i \in DOMAIN lc, From(w, lc[i].content, c) PROVE Safe(w, ld, c)
    <3>1. CASE i \notin DOMAIN e
      BY <1>1, <2>2, <3>1 DEF Safe, D
    <3>2. CASE i \in DOMAIN e /\ Follower(w, lc[i].content, i, e, lc)
      <4>1. CASE From(w, e[i].content, lc[i].content)
        BY <1>1, <2>2, <3>2, <4>1, FromTransitive DEF Safe, D
      <4>2. CASE Held(w, lc[i].content, D)
        <5>1. \E j \in DOMAIN ld : From(w, ld[j].content, lc[i].content)
          <6>1. DOMAIN ld \subseteq Items /\ Within(w, ld) /\ D \subseteq DOMAIN ld
            BY <1>1, <1>4 DEF Place, IsMap
          <6>2. QED BY <4>2, <6>1, HeldIsThere
        <5>2. QED BY <2>2, <5>1, FromTransitive DEF Safe
      <4>3. QED BY <3>2, <4>1, <4>2 DEF Follower, D
    <3>3. CASE lc[i].content \in w.received
      BY <2>2, <3>3, ReceivedIsSafe, SafeFrom
    <3>4. QED BY <3>1, <3>2, <3>3 DEF FirstOK
  <2>3. QED BY <2>1, <2>2 DEF Safe
<1>9. QED BY <1>4, <1>5, <1>6, <1>7, <1>8

(* The database dd in which e has replaced what dk has of its items.       *)
Stored(dk, e, dd) ==
  /\ DOMAIN dd = DOMAIN dk \cup DOMAIN e
  /\ \A i \in DOMAIN e : /\ dd[i] \in Payload /\ dd[i].content = e[i].content /\ dd[i].rev = e[i].rev
                         /\ dd[i].dirty = e[i].dirty
                         /\ dd[i].dirtyIndex = 0 /\ dd[i].globalDirtyIndexAtLastSync = 0
  /\ \A i \in DOMAIN dk \ DOMAIN e : dd[i] = dk[i]

LEMMA PutIsStored ==
  ASSUME NEW dk, NEW e, IsMap(e, Payload)
  PROVE  Stored(dk, e, Put(dk, DiskForm(e)))
<1> DEFINE dd == Put(dk, DiskForm(e))
<1>1. /\ DOMAIN dd = DOMAIN dk \cup DOMAIN e
      /\ \A i \in DOMAIN e : dd[i] = [e[i] EXCEPT !.dirtyIndex = 0, !.globalDirtyIndexAtLastSync = 0]
      /\ \A i \in DOMAIN dk \ DOMAIN e : dd[i] = dk[i]
  BY DEF Put, DiskForm
<1> HIDE DEF dd
<1>2. \A i \in DOMAIN e : e[i] \in Payload
  BY DEF IsMap
<1>3. \A i \in DOMAIN e : /\ dd[i] \in Payload /\ dd[i].content = e[i].content /\ dd[i].rev = e[i].rev
                          /\ dd[i].dirty = e[i].dirty
                          /\ dd[i].dirtyIndex = 0 /\ dd[i].globalDirtyIndexAtLastSync = 0
  <2> SUFFICES ASSUME NEW i \in DOMAIN e, NEW p, p = e[i], NEW d, d = dd[i]
               PROVE  /\ d \in Payload /\ d.content = p.content /\ d.rev = p.rev /\ d.dirty = p.dirty
                      /\ d.dirtyIndex = 0 /\ d.globalDirtyIndexAtLastSync = 0
    OBVIOUS
  <2>1. p \in Payload /\ d = [p EXCEPT !.dirtyIndex = 0, !.globalDirtyIndexAtLastSync = 0]
    BY <1>1, <1>2
  <2>2. QED BY <2>1, OnDisk
<1>4. QED BY <1>1, <1>3 DEF Stored, dd

(* An item of the emit that the server has as new as the token says, keeps *)
(* what it had.                                                            *)
LEMMA EmitKeeps ==
  ASSUME NEW w, LineageOK(w), ServerOK(w), NEW e, NEW dk, NEW tk \in Token, NEW c, NEW d, NEW k \in DOMAIN w.server,
         w.server[k].rev <= Since(tk), From(w, d, c), Replaces(w, tk, d, k, e)
  PROVE  Stays(w, c, k, e)
<1>1. w.server[k].rev \in Nat /\ Since(tk) \in Nat
  BY DEF ServerOK, IsMap, ServerItem, Since, Token
<1>2. Stays(w, d, k, e)
  BY <1>1 DEF Replaces
<1>3. QED BY <1>2, StaysFrom

LEMMA StoreEmit ==
  ASSUME NEW w, LineageOK(w), NEW copy, FamilyOK(w, copy), ServerOK(w), NEW dk, NEW e, NEW dd, NEW tk, NEW stored,
         NEW n, NEW gone, Place(w, dk, DOMAIN dk), EmitOK(w, e, dk, tk, n), TokensOK(w, dk, tk, stored),
         Cover(w, dk, gone), Stored(dk, e, dd)
  PROVE  Place(w, dd, DOMAIN dd) /\ TokensOK(w, dd, tk, stored) /\ Cover(w, dd, gone)
<1> DEFINE D == DOMAIN dk \cup DOMAIN e
<1>1. Place(w, e, D) /\ Place(w, dk, D)
  BY PlaceMore DEF EmitOK
<1> HIDE DEF D
<1>2. DOMAIN dd = D /\ DOMAIN e \subseteq D /\ DOMAIN dk \subseteq D /\ D \subseteq DOMAIN dk \cup DOMAIN e
  BY DEF Stored, D
<1>3. /\ \A i \in DOMAIN e : /\ dd[i] \in Payload /\ dd[i].content = e[i].content /\ dd[i].rev = e[i].rev
                             /\ dd[i].dirty = e[i].dirty
      /\ \A i \in DOMAIN dk \ DOMAIN e : dd[i] = dk[i]
  BY DEF Stored
<1>4. Place(w, dd, DOMAIN dd)
  <2>1. IsMap(dd, Payload)
    BY <1>1, <1>2, <1>3 DEF Place, IsMap
  <2>2. QED BY <1>1, <1>2, <1>3, <2>1 DEF Place, Within, Based, Marked
<1>5. \A c, k : k \in DOMAIN e /\ Stays(w, c, k, e) => Stays(w, c, k, dd)
  BY <1>2, <1>3 DEF Stays, Held
<1>6. TokensOK(w, dd, tk, stored)
  <2>1. ASSUME NEW k \in DOMAIN w.server, w.server[k].rev <= Since(tk), NEW c, c = w.server[k].content
        PROVE  Stays(w, c, k, dd)
    <3>1. Stays(w, c, k, dk)
      BY <2>1 DEF TokensOK
    <3>2. CASE Held(w, c, DOMAIN dk)
      BY <1>2, <3>2 DEF Stays, Held
    <3>3. CASE k \in DOMAIN dk /\ From(w, dk[k].content, c)
      <4>1. CASE k \in DOMAIN e
        <5>1. Replaces(w, tk, dk[k].content, k, e) /\ tk \in Token
          BY <3>3, <4>1 DEF EmitOK, TokensOK
        <5>2. Stays(w, c, k, e)
          BY <2>1, <3>3, <5>1, EmitKeeps
        <5>3. QED BY <1>5, <4>1, <5>2
      <4>2. CASE k \notin DOMAIN e
        BY <1>2, <1>3, <3>3, <4>2 DEF Stays
      <4>3. QED BY <4>1, <4>2
    <3>4. QED BY <3>1, <3>2, <3>3 DEF Stays
  <2>2. QED BY <2>1 DEF TokensOK
<1>7. Cover(w, dd, gone)
  <2> SUFFICES ASSUME NEW c \in DOMAIN w.lineage \ gone PROVE Safe(w, dd, c)
    BY DEF Cover
  <2>1. Safe(w, dk, c)
    BY DEF Cover
  <2>2. ASSUME NEW i \in DOMAIN dk, From(w, dk[i].content, c) PROVE Safe(w, dd, c)
    <3>1. CASE i \notin DOMAIN e
      BY <1>2, <1>3, <2>2, <3>1 DEF Safe
    <3>2. CASE Stays(w, dk[i].content, i, e) /\ i \in DOMAIN e
      <4>1. Stays(w, dk[i].content, i, dd) /\ DOMAIN dd \subseteq Items /\ Within(w, dd)
        BY <1>4, <1>5, <3>2 DEF Place, IsMap
      <4>2. \E j \in DOMAIN dd : From(w, dd[j].content, dk[i].content)
        BY <4>1, StaysIsThere
      <4>3. QED BY <2>2, <4>2, FromTransitive DEF Safe
    <3>3. CASE dk[i].content \in w.received
      BY <2>2, <3>3, ReceivedIsSafe, SafeFrom
    <3>4. QED BY <3>1, <3>2, <3>3 DEF EmitOK, Replaces
  <2>3. QED BY <2>1, <2>2 DEF Safe
<1>8. QED BY <1>4, <1>6, <1>7

(* The emits that are left.                                                *)
LEMMA EmitRemains ==
  ASSUME NEW w, NEW dk, NEW dd, NEW e, NEW f, NEW tk, NEW n, NEW lc, EmitOK(w, f, dk, tk, n),
         PairOK(w, e, f, lc, tk), Stored(dk, e, dd)
  PROVE  EmitOK(w, f, dd, tk, n)
<1> DEFINE D == DOMAIN dk \cup DOMAIN f
           E == DOMAIN dd \cup DOMAIN f
<1>1. D \subseteq E /\ Place(w, f, D)
  BY DEF EmitOK, Stored
<1>2. Place(w, f, E)
  <2> HIDE DEF D, E
  <2>1. QED BY <1>1, PlaceMore
<1>3. ASSUME NEW i \in DOMAIN f \cap DOMAIN dd PROVE Replaces(w, tk, dd[i].content, i, f)
  <2>1. CASE i \in DOMAIN e
    BY <2>1 DEF PairOK, Stored
  <2>2. CASE i \notin DOMAIN e
    <3>1. i \in DOMAIN dk /\ dd[i] = dk[i]
      BY <2>2 DEF Stored
    <3>2. QED BY <3>1 DEF EmitOK
  <2>3. QED BY <2>1, <2>2
<1>4. QED BY <1>2, <1>3 DEF EmitOK

LEMMA LaterRemains ==
  ASSUME NEW w, NEW e, NEW f, NEW lc, NEW ld, NEW tk, NEW sent, LaterOK(w, f, lc, sent), PairOK(w, e, f, lc, tk),
         ld = Put(lc, e)
  PROVE  LaterOK(w, f, ld, sent)
<1>1. /\ DOMAIN ld = DOMAIN lc \cup DOMAIN e /\ \A i \in DOMAIN e : ld[i] = e[i]
      /\ \A i \in DOMAIN lc \ DOMAIN e : ld[i] = lc[i]
  BY DEF Put
<1>2. \A c, i : Follower(w, c, i, f, lc) => Follower(w, c, i, f, ld)
  BY <1>1 DEF Follower, Held
<1>3. ASSUME NEW i \in DOMAIN f \cap DOMAIN ld PROVE i \in sent /\ Follower(w, ld[i].content, i, f, ld)
  <2>1. CASE i \in DOMAIN e
    <3>1. i \in DOMAIN lc /\ Follower(w, e[i].content, i, f, lc) /\ ld[i] = e[i]
      BY <1>1, <2>1 DEF PairOK
    <3>2. QED BY <1>2, <3>1 DEF LaterOK
  <2>2. CASE i \notin DOMAIN e
    <3>1. i \in DOMAIN lc /\ ld[i] = lc[i]
      BY <1>1, <2>2
    <3>2. QED BY <1>2, <3>1 DEF LaterOK
  <2>3. QED BY <2>1, <2>2
<1>4. QED BY <1>3 DEF LaterOK

LEMMA PairRemains ==
  ASSUME NEW w, NEW e, NEW f, NEW lc, NEW ld, NEW tk, PairOK(w, e, f, lc, tk), DOMAIN lc \subseteq DOMAIN ld
  PROVE  PairOK(w, e, f, ld, tk)
BY DEF PairOK, Follower, Held

LEMMA LaterIsFirst ==
  ASSUME NEW w, NEW e, NEW lc, NEW sent, LaterOK(w, e, lc, sent)
  PROVE  FirstOK(w, e, lc, sent)
BY DEF LaterOK, FirstOK

(* The end of a page.                                                      *)
LEMMA FinishedPage ==
  ASSUME NEW w, FinishPage, SyncOK(sync, local, dirtyCount), sync.reply.token \in Token, w.seq \in Nat,
         NEW lc, NEW n, sync.sent \subseteq DOMAIN lc, sync.frozen <= n, n \in Nat,
         completedDownloadFirst \in BOOLEAN
  PROVE  /\ tokens' = sync.reply.token /\ sync'.pc \in {"idle", "waiting"} /\ sync'.sent \subseteq sync.sent
         /\ SyncOK(sync', lc, n) /\ completedDownloadFirst' \in BOOLEAN
         /\ sync'.pc = "waiting" => WaitingOK(w, sync', lc, tokens')
<1>1. tokens' = sync.reply.token
  BY DEF FinishPage
<1>2. CASE tokens'.cursor > 0
  <2>1. /\ DOMAIN sync' = SyncFields /\ sync'.pc = "waiting" /\ sync'.frozen = sync.frozen /\ sync'.mode = sync.mode
        /\ sync'.sent = sync.sent /\ sync'.captured = NoItems /\ sync'.snapshot = NoItems
        /\ sync'.request.since = Since(tokens') /\ sync'.request.upload = NoItems
    <3> DEFINE r == [Request EXCEPT !.since = Since(tokens')]
    <3>1. r.since = Since(tokens') /\ r.upload = NoItems
      BY DEF Request
    <3>2. sync' = [Idle EXCEPT !.pc = "waiting", !.frozen = sync.frozen, !.mode = sync.mode,
                               !.sent = sync.sent, !.request = r]
      BY <1>2 DEF FinishPage
    <3> HIDE DEF r
    <3>3. QED BY <3>1, <3>2, IdleFields DEF SyncFields
  <2>2. SyncOK(sync', lc, n)
    BY <2>1, IdleFields DEF SyncOK, Stages, IsMap
  <2>3. WaitingOK(w, sync', lc, tokens')
    BY <2>1, IdleFields DEF WaitingOK, UploadOK, IsMap, Within, Based
  <2>4. completedDownloadFirst' \in BOOLEAN
    BY <1>2 DEF FinishPage
  <2>5. QED BY <1>1, <2>1, <2>2, <2>3, <2>4
<1>3. CASE ~(tokens'.cursor > 0)
  <2>1. sync' = Idle /\ completedDownloadFirst' \in BOOLEAN
    BY <1>3 DEF FinishPage
  <2>2. QED BY <1>1, <2>1, IdleFields, IdleIsOK
<1>4. QED BY <1>2, <1>3

LEMMA FinishedTokens ==
  ASSUME NEW w, NEW dk, NEW dd, NEW tk, NEW stored, NEW token, NEW es, TokensOK(w, dk, tk, stored), TokenOK(w, token, tk),
         FinalOK(w, es, dk, token), w.seq \in Nat,
         NEW F, F = Final(dk, es), DOMAIN dd = DOMAIN F, \A i \in DOMAIN F : dd[i].content = F[i].content
  PROVE  TokensOK(w, dd, token, stored)
<1>1. Since(stored) \in Nat /\ Since(tk) \in Nat /\ Since(token) \in Nat
  BY DEF TokensOK, TokenOK, Since, Token
<1>2. Since(stored) <= Since(token)
  BY <1>1 DEF TokensOK, TokenOK
<1>3. \A c, k : Stays(w, c, k, F) => Stays(w, c, k, dd)
  BY DEF Stays
<1>4. QED BY <1>2, <1>3 DEF TokensOK, TokenOK, FinalOK

(* The database after all emits, and once the first of them is there.      *)
LEMMA FinalAfterFirst ==
  ASSUME NEW dk, NEW dd, NEW es, NEW ts, Stored(dk, es[1], dd), Nth(es, 1) = es[1],
         Nth(ts, 1) = Nth(es, 2), Nth(ts, 2) = Nth(es, 3), Nth(ts, 3) = NoItems
  PROVE  /\ DOMAIN Final(dd, ts) = DOMAIN Final(dk, es)
         /\ \A i \in DOMAIN Final(dk, es) : Final(dd, ts)[i].content = Final(dk, es)[i].content
<1> DEFINE e == es[1]
           f == Nth(es, 2)
           g == Nth(es, 3)
<1>1. Final(dk, es) = Put(Put(Put(dk, e), f), g) /\ Final(dd, ts) = Put(Put(Put(dd, f), g), NoItems)
  BY DEF Final
<1> HIDE DEF e, f, g
<1>2. /\ DOMAIN dd = DOMAIN dk \cup DOMAIN e
      /\ \A i \in DOMAIN dd : dd[i].content = IF i \in DOMAIN e THEN e[i].content ELSE dk[i].content
  BY DEF Stored, e
<1> DEFINE X == Put(Put(Put(dk, e), f), g)
           Y == Put(Put(Put(dd, f), g), NoItems)
<1>3. /\ DOMAIN X = DOMAIN dk \cup DOMAIN e \cup DOMAIN f \cup DOMAIN g
      /\ \A i \in DOMAIN X : X[i] = IF i \in DOMAIN g THEN g[i] ELSE IF i \in DOMAIN f THEN f[i]
                                    ELSE IF i \in DOMAIN e THEN e[i] ELSE dk[i]
  BY DEF Put
<1>4. /\ DOMAIN Y = DOMAIN dd \cup DOMAIN f \cup DOMAIN g
      /\ \A i \in DOMAIN Y : Y[i] = IF i \in DOMAIN g THEN g[i] ELSE IF i \in DOMAIN f THEN f[i] ELSE dd[i]
  BY IdleFields DEF Put
<1> HIDE DEF X, Y
<1>5. DOMAIN Y = DOMAIN X
  BY <1>2, <1>3, <1>4
<1>6. \A i \in DOMAIN X : Y[i].content = X[i].content
  BY <1>2, <1>3, <1>4, <1>5
<1>7. QED BY <1>1, <1>5, <1>6 DEF X, Y

LEMMA EmitSequence ==
  ASSUME NEW s, Len(s) \in 1..3, s = [k \in 1..Len(s) |-> s[k]]
  PROVE  /\ DOMAIN s = 1..Len(s) /\ Head(s) = s[1]
         /\ Len(Tail(s)) = Len(s) - 1 /\ DOMAIN Tail(s) = 1..(Len(s) - 1)
         /\ Tail(s) = [k \in 1..Len(Tail(s)) |-> Tail(s)[k]]
         /\ \A k \in 1..(Len(s) - 1) : Tail(s)[k] = s[k + 1]
<1> DEFINE S == {s[k] : k \in 1..Len(s)}
           n == Len(s)
           t == Tail(s)
<1>1. DOMAIN s = 1..n /\ n \in Nat /\ n > 0 /\ \A k \in 1..n : s[k] \in S
  OBVIOUS
<1>2. s \in [1..n -> S]
  BY <1>1
<1> HIDE DEF S, n
<1>3. s \in Seq(S)
  BY <1>1, <1>2
<1>4. n = Len(s)
  BY DEF n
<1>5. s # <<>>
  BY <1>1, <1>3, <1>4
<1>6. t \in Seq(S) /\ Len(t) = Len(s) - 1 /\ \A k \in 1..Len(t) : t[k] = s[k + 1]
  BY <1>1, <1>3, <1>4, <1>5
<1> HIDE DEF t
<1>7. DOMAIN t = 1..Len(t) /\ t = [k \in 1..Len(t) |-> t[k]]
  BY <1>6
<1>8. Head(s) = s[1]
  BY <1>3, <1>5
<1>9. QED BY <1>1, <1>4, <1>6, <1>7, <1>8 DEF t

LEMMA PersistEmitStep ==
  ASSUME NEW o, NEW A, InvOf(o, A), PersistEmit
  PROVE  InvOf(o, A)'
<1> DEFINE w == World(o, A)
           es == sync.emits
           e == es[1]
           gone == forgotten \cup unsaved
<1>1. /\ sync.pc = "persist" /\ Types /\ WorldOK(w) /\ Places(w) /\ Rest(w) /\ Covers(w) /\ Staged(w)
      /\ disk' = Put(disk, DiskForm(Head(es)))
      /\ UNCHANGED <<dirtyCount, copyOf, storedTokens, server, serverSeq, orphans, received, lineage, unsaved, forgotten>>
  BY DEF PersistEmit, InvOf, remote, ghosts
<1>2. World(o, A)' = w /\ WorldOK(World(o, A))'
  BY <1>1, SameWorld
<1>3. PersistOK(w, sync, local, disk, tokens, dirtyCount) /\ SyncOK(sync, local, dirtyCount)
  BY <1>1 DEF Staged
<1>4. Len(es) \in 1..3 /\ es = [k \in 1..Len(es) |-> es[k]]
  BY <1>3 DEF PersistOK
<1>5. /\ DOMAIN es = 1..Len(es) /\ Head(es) = e
      /\ Len(Tail(es)) = Len(es) - 1 /\ DOMAIN Tail(es) = 1..(Len(es) - 1)
      /\ Tail(es) = [k \in 1..Len(Tail(es)) |-> Tail(es)[k]]
      /\ \A k \in 1..(Len(es) - 1) : Tail(es)[k] = es[k + 1]
  <2>1. QED BY <1>4, EmitSequence
<1>6. /\ \A k \in 1..Len(es) : EmitOK(w, es[k], disk, tokens, dirtyCount)
      /\ \A k \in 2..Len(es) : LaterOK(w, es[k], local, sync.sent)
      /\ \A k \in 1..Len(es) : \A m \in 1..Len(es) : m < k => PairOK(w, es[m], es[k], local, tokens)
      /\ TokenOK(w, sync.reply.token, tokens) /\ FinalOK(w, es, disk, sync.reply.token)
  BY <1>3 DEF PersistOK
<1> HIDE DEF w, es, e
<1>7. /\ LineageOK(w) /\ FamilyOK(w, copyOf) /\ ServerOK(w) /\ w.seq \in Nat /\ dirtyCount \in Nat
      /\ Place(w, local, DOMAIN local) /\ Place(w, disk, DOMAIN disk) /\ Follows(w, Written(sync, disk), local)
      /\ PreviousOK(w, local, previous, sync.sent) /\ TokensOK(w, disk, tokens, storedTokens)
      /\ Cover(w, local, forgotten) /\ Cover(w, disk, gone) /\ Indexed(local, dirtyCount) /\ OrphansOK(w, orphans)
  BY <1>1 DEF WorldOK, ServerOK, Places, Rest, Covers, Types
<1>8. EmitOK(w, e, disk, tokens, dirtyCount) /\ IsMap(e, Payload)
  <2>1. EmitOK(w, e, disk, tokens, dirtyCount)
    BY <1>4, <1>6 DEF e
  <2>2. QED BY <2>1 DEF EmitOK, Place
<1>9. Stored(disk, e, disk')
  BY <1>1, <1>5, <1>8, PutIsStored
<1> HIDE DEF gone
<1>10. Place(w, disk', DOMAIN disk') /\ TokensOK(w, disk', tokens, storedTokens) /\ Cover(w, disk', gone)
  BY <1>7, <1>8, <1>9, StoreEmit
<1>11. Written(sync, disk) = Put(disk, e)
  BY <1>1 DEF Written, e, es
<1> DEFINE W == Put(disk, e)
<1>12. /\ DOMAIN W = DOMAIN disk \cup DOMAIN e /\ DOMAIN W = DOMAIN local /\ Follows(w, W, local)
       /\ \A i \in DOMAIN W : W[i] = IF i \in DOMAIN e THEN e[i] ELSE disk[i]
  BY <1>7, <1>11 DEF Put, Follows
<1> HIDE DEF W
<1>13. DOMAIN disk' = DOMAIN W /\ \A i \in DOMAIN W : disk'[i].content = W[i].content
  BY <1>9, <1>12 DEF Stored
<1>14. \A i \in DOMAIN disk' : disk'[i].dirtyIndex = 0 /\ disk'[i].globalDirtyIndexAtLastSync = 0
  BY <1>1, <1>9 DEF Stored, Types
<1>15. CASE Len(es) > 1
  <2> DEFINE f == es[2]
             ts == Tail(es)
             X == Put(disk', f)
  <2>1. /\ local' = Put(local, f) /\ sync' = [sync EXCEPT !.emits = ts]
        /\ previous' = PreviousAfter(local, f, previous)
        /\ UNCHANGED <<tokens, completedDownloadFirst>>
    BY <1>15 DEF PersistEmit, Emit, PreviousAfter, es
  <2>2. /\ DOMAIN sync' = SyncFields /\ sync'.pc = "persist" /\ sync'.emits = ts /\ sync'.sent = sync.sent
        /\ sync'.reply = sync.reply /\ sync'.frozen = sync.frozen /\ sync'.mode = sync.mode
        /\ sync'.captured = sync.captured /\ sync'.snapshot = sync.snapshot /\ sync'.request = sync.request
    BY <1>1, <1>3, <2>1 DEF SyncOK, SyncFields
  <2>3. /\ Len(ts) = Len(es) - 1 /\ Len(ts) \in 1..2 /\ ts = [k \in 1..Len(ts) |-> ts[k]]
        /\ \A k \in 1..Len(ts) : ts[k] = es[k + 1] /\ k + 1 \in 1..Len(es) /\ k + 1 > 1
    BY <1>4, <1>5, <1>15
  <2>4. EmitOK(w, f, disk, tokens, dirtyCount) /\ LaterOK(w, f, local, sync.sent) /\ ts[1] = f
    BY <1>4, <1>6, <1>15, <2>3
  <2> HIDE DEF f, ts, X
  <2>5. Place(w, f, DOMAIN local \cup DOMAIN f) /\ Indexed(f, dirtyCount)
    <3> DEFINE D == DOMAIN disk \cup DOMAIN f
               E == DOMAIN local \cup DOMAIN f
    <3>1. D \subseteq E /\ Place(w, f, D)
      BY <1>12, <2>4 DEF EmitOK
    <3>2. Place(w, f, E)
      <4> HIDE DEF D, E
      <4>1. QED BY <3>1, PlaceMore
    <3>3. QED BY <2>4, <3>2 DEF EmitOK
  <2>6. ContentsAfter(X, W, f)
    BY <1>13 DEF Put, ContentsAfter, X
  <2>7. FirstOK(w, f, local, sync.sent)
    BY <2>4, LaterIsFirst
  <2>8. /\ Place(w, local', DOMAIN local') /\ Indexed(local', dirtyCount) /\ Follows(w, X, local')
        /\ PreviousOK(w, local', previous', sync.sent) /\ Cover(w, local', forgotten)
    <3> DEFINE ld == local'
               pd == previous'
    <3> HIDE DEF ld, pd
    <3>1. ld = Put(local, f) /\ pd = PreviousAfter(local, f, previous)
      BY <2>1 DEF ld, pd
    <3>2. /\ Place(w, ld, DOMAIN ld) /\ Indexed(ld, dirtyCount) /\ Follows(w, X, ld)
          /\ PreviousOK(w, ld, pd, sync.sent) /\ Cover(w, ld, forgotten)
      BY <1>7, <1>12, <2>5, <2>6, <2>7, <3>1, ApplyEmit
    <3>3. QED BY <3>2 DEF ld, pd
  <2>9. Written(sync', disk') = X
    BY <2>2, <2>4 DEF Written, X
  <2>10. DOMAIN local \subseteq DOMAIN local'
    BY <2>1 DEF Put
  <2>11. SyncOK(sync', local', dirtyCount)
    BY <1>1, <1>3, <2>2, <2>10 DEF SyncOK
  <2>12. \A k \in 1..Len(ts) : EmitOK(w, ts[k], disk', tokens, dirtyCount)
    <3> SUFFICES ASSUME NEW k \in 1..Len(ts), NEW g, g = ts[k] PROVE EmitOK(w, g, disk', tokens, dirtyCount)
      OBVIOUS
    <3>1. EmitOK(w, g, disk, tokens, dirtyCount) /\ PairOK(w, e, g, local, tokens)
      BY <1>4, <1>6, <2>3 DEF e
    <3>2. QED BY <1>9, <3>1, EmitRemains
  <2>13. \A k \in 2..Len(ts) : LaterOK(w, ts[k], local', sync.sent)
    <3> SUFFICES ASSUME NEW k \in 2..Len(ts), NEW g, g = ts[k] PROVE LaterOK(w, g, local', sync.sent)
      OBVIOUS
    <3>1. k = 2 /\ g = es[3] /\ 3 \in 2..Len(es) /\ 2 \in 1..Len(es) /\ 3 \in 1..Len(es)
      BY <1>4, <2>3
    <3>2. LaterOK(w, g, local, sync.sent) /\ PairOK(w, f, g, local, tokens)
      BY <1>6, <3>1 DEF f
    <3>3. QED BY <2>1, <3>2, LaterRemains
  <2>14. \A k \in 1..Len(ts) : \A m \in 1..Len(ts) : m < k => PairOK(w, ts[m], ts[k], local', tokens)
    <3> SUFFICES ASSUME NEW k \in 1..Len(ts), NEW m \in 1..Len(ts), m < k, NEW g, g = ts[k], NEW h, h = ts[m]
                 PROVE  PairOK(w, h, g, local', tokens)
      OBVIOUS
    <3>1. g = es[k + 1] /\ h = es[m + 1] /\ k + 1 \in 1..Len(es) /\ m + 1 \in 1..Len(es) /\ m + 1 < k + 1
      BY <1>4, <2>3
    <3>2. PairOK(w, h, g, local, tokens)
      BY <1>6, <3>1
    <3>3. QED BY <2>10, <3>2, PairRemains
  <2>15. FinalOK(w, ts, disk', sync.reply.token)
    <3>1. /\ Nth(es, 1) = es[1] /\ Nth(ts, 1) = Nth(es, 2) /\ Nth(ts, 2) = Nth(es, 3) /\ Nth(ts, 3) = NoItems
      BY <1>4, <1>15, <2>3 DEF Nth
    <3> DEFINE F == Final(disk, es)
               G == Final(disk', ts)
    <3>2. DOMAIN G = DOMAIN F /\ \A i \in DOMAIN F : G[i].content = F[i].content
      BY <1>9, <3>1, FinalAfterFirst DEF e
    <3> HIDE DEF F, G
    <3>3. \A c, k : Stays(w, c, k, F) => Stays(w, c, k, G)
      BY <3>2 DEF Stays
    <3>4. QED BY <1>6, <3>3 DEF FinalOK, F, G
  <2>16. PersistOK(w, sync', local', disk', tokens, dirtyCount)
    BY <1>6, <2>2, <2>3, <2>12, <2>13, <2>14, <2>15 DEF PersistOK
  <2>17. Types'
    BY <1>1, <1>14, <2>1, <2>8 DEF Types, Contents
  <2>18. QED BY <1>1, <1>2, <1>7, <1>10, <2>1, <2>2, <2>8, <2>9, <2>11, <2>16, <2>17, Assemble DEF gone
<1>16. CASE ~(Len(es) > 1)
  <2> DEFINE F == Final(disk, es)
  <2>1. FinishPage /\ UNCHANGED <<local, previous>>
    BY <1>16 DEF PersistEmit, es
  <2>2. sync.reply.token \in Token /\ sync.sent \subseteq DOMAIN local /\ sync.frozen <= dirtyCount
        /\ completedDownloadFirst \in BOOLEAN
    BY <1>1, <1>3, <1>6 DEF TokenOK, SyncOK, Types
  <2>3. /\ tokens' = sync.reply.token /\ sync'.pc \in {"idle", "waiting"} /\ sync'.sent \subseteq sync.sent
        /\ SyncOK(sync', local, dirtyCount) /\ completedDownloadFirst' \in BOOLEAN
        /\ sync'.pc = "waiting" => WaitingOK(w, sync', local, tokens')
    BY <1>3, <1>7, <2>1, <2>2, FinishedPage
  <2>4. F = Put(Put(W, NoItems), NoItems)
    <3>1. Nth(es, 1) = e /\ Nth(es, 2) = NoItems /\ Nth(es, 3) = NoItems
      BY <1>4, <1>16 DEF Nth, e
    <3>2. QED BY <3>1 DEF Final, W
  <2>5. F = W
    <3> DEFINE G == Put(W, NoItems)
    <3>1. \A C : DOMAIN Put(C, NoItems) = DOMAIN C /\ \A i \in DOMAIN C : Put(C, NoItems)[i] = C[i]
      BY IdleFields DEF Put
    <3>2. DOMAIN F = DOMAIN W /\ \A i \in DOMAIN W : F[i] = W[i]
      BY <2>4, <3>1
    <3>3. F = [i \in DOMAIN F |-> F[i]] /\ W = [i \in DOMAIN W |-> W[i]]
      BY <2>4 DEF Put, W
    <3>4. QED BY <3>2, <3>3
  <2>6. TokensOK(w, disk', sync.reply.token, storedTokens)
    <3> HIDE DEF F
    <3>1. F = Final(disk, es) /\ DOMAIN disk' = DOMAIN F /\ \A i \in DOMAIN F : disk'[i].content = F[i].content
      BY <1>13, <2>5 DEF F
    <3>2. QED BY <1>6, <1>7, <3>1, FinishedTokens
  <2>7. Written(sync', disk') = disk' /\ Follows(w, disk', local)
    <3>1. Follows(w, disk', local)
      BY <1>12, <1>13 DEF Follows
    <3>2. QED BY <2>3, <3>1 DEF Written
  <2>8. PreviousOK(w, local, previous, sync'.sent)
    BY <1>7, <2>3 DEF PreviousOK
  <2>9. Types'
    BY <1>1, <1>14, <2>1, <2>3 DEF Types, Contents
  <2>10. QED BY <1>1, <1>2, <1>7, <1>10, <2>1, <2>3, <2>6, <2>7, <2>8, <2>9, Assemble DEF gone
<1>17. QED BY <1>15, <1>16

-----------------------------------------------------------------------------
(* The copies that a resolution makes.                                     *)

(* The unused uuids K can become those of copies of src, holding val.       *)
Copyable(w, copy, K, src, val) ==
  K \subseteq Copies /\ \A c \in K : copy[c] = 0 /\ src[c] \in Items /\ val[c] \in w.family[src[c]]

CopiesNoted(then, copy, K, src) == \A c \in Copies : then[c] = IF c \in K THEN src[c] ELSE copy[c]

WithCopies(w, K, val, v) ==
  /\ v.lineage = w.lineage /\ v.server = w.server /\ v.seq = w.seq /\ v.received = w.received
  /\ v.origin = [i \in Items |-> IF i \in K THEN val[i] ELSE w.origin[i]]
  /\ v.family = [i \in Items |-> IF i \in K THEN {val[i]} ELSE w.family[i]]

(* The world in which each c of K is a copy of src[c], with val[c].        *)
LEMMA CopiesGrow ==
  ASSUME NEW w, LineageOK(w), NEW copy, FamilyOK(w, copy), ServerOK(w), NEW K, NEW src, NEW val,
         Copyable(w, copy, K, src, val), NEW then, CopiesNoted(then, copy, K, src), NEW v, WithCopies(w, K, val, v)
  PROVE  LineageOK(v) /\ FamilyOK(v, then) /\ ServerOK(v) /\ Grows(w, v)
<1> USE DEF Copyable, CopiesNoted, WithCopies
<1>1. /\ \A i \in Items : v.origin[i] = IF i \in K THEN val[i] ELSE w.origin[i]
      /\ \A i \in Items : v.family[i] = IF i \in K THEN {val[i]} ELSE w.family[i]
  OBVIOUS
<1>2. \A d, c : From(v, d, c) <=> From(w, d, c)
  BY DEF From
<1>3. Copies \subseteq Items /\ 0 \notin Items
  BY SyncDataAssumption DEF SyncDataAssumption, Items
<1>4. \A c \in K : /\ c \in Items /\ w.family[c] = {} /\ w.origin[c] = 0 /\ src[c] \notin K /\ src[c] # 0
                   /\ src[c] # c /\ val[c] \in Nat /\ From(w, val[c], val[c])
  <2> SUFFICES ASSUME NEW c \in K
               PROVE  /\ c \in Items /\ w.family[c] = {} /\ w.origin[c] = 0 /\ src[c] \notin K /\ src[c] # 0
                      /\ src[c] # c /\ val[c] \in Nat /\ From(w, val[c], val[c])
    OBVIOUS
  <2>1. \A d \in K : w.family[d] = {}
    BY DEF FamilyOK
  <2>2. c \in Items /\ w.family[c] = {} /\ w.origin[c] = 0
    BY <1>3, <2>1 DEF FamilyOK
  <2>3. src[c] \notin K /\ src[c] # 0 /\ src[c] # c
    BY <1>3, <2>1
  <2>4. val[c] \in Nat /\ From(w, val[c], w.origin[src[c]])
    BY DEF FamilyOK
  <2>5. QED BY <2>2, <2>3, <2>4 DEF LineageOK, From
<1>5. LineageOK(v)
  BY <1>2 DEF LineageOK
<1>6. Grows(w, v)
  BY <1>1, <1>4 DEF Grows, ServerOK
<1>7. ServerOK(v)
  <2>1. Within(v, v.server)
    BY <1>6, WithinGrows DEF ServerOK, IsMap
  <2>2. QED BY <1>2, <2>1 DEF ServerOK
<1>8. FamilyOK(v, then)
  <2>1. v.origin \in [Items -> Nat]
    BY <1>4 DEF FamilyOK
  <2>2. v.family \in [Items -> SUBSET Nat]
    BY <1>4 DEF FamilyOK
  <2>3. \A i \in Items : \A c \in v.family[i] : From(v, c, v.origin[i])
    BY <1>1, <1>2, <1>4 DEF FamilyOK
  <2>4. ASSUME NEW i \in Items, v.family[i] = {} PROVE v.origin[i] = 0
    <3>1. i \notin K
      BY <1>1, <2>4
    <3>2. v.origin[i] = w.origin[i] /\ w.family[i] = {}
      BY <1>1, <2>4, <3>1
    <3>3. QED BY <3>2 DEF FamilyOK
  <2>5. ASSUME NEW c \in Copies
        PROVE  /\ then[c] = 0 => v.family[c] = {}
               /\ then[c] # 0 => /\ then[c] \in Items \ {c} /\ v.family[then[c]] # {}
                                 /\ v.family[c] \cap v.family[then[c]] \subseteq {v.origin[c]}
    <3>1. c \in Items
      BY <1>3
    <3>2. CASE c \in K
      <4>1. then[c] = src[c] /\ v.family[c] = {val[c]} /\ v.origin[c] = val[c]
        BY <1>1, <3>1, <3>2
      <4>2. src[c] \in Items \ {c} /\ src[c] # 0 /\ v.family[src[c]] = w.family[src[c]] /\ w.family[src[c]] # {}
        BY <1>1, <1>4, <3>2
      <4>3. QED BY <4>1, <4>2
    <3>3. CASE c \notin K
      <4>1. then[c] = copy[c] /\ v.family[c] = w.family[c] /\ v.origin[c] = w.origin[c]
        BY <1>1, <3>1, <3>3
      <4>2. CASE copy[c] = 0
        BY <4>1, <4>2 DEF FamilyOK
      <4>3. CASE copy[c] # 0
        <5>1. /\ copy[c] \in Items \ {c} /\ w.family[copy[c]] # {}
              /\ w.family[c] \cap w.family[copy[c]] \subseteq {w.origin[c]}
          BY <4>3 DEF FamilyOK
        <5>2. v.family[copy[c]] = w.family[copy[c]]
          BY <1>1, <1>4, <5>1
        <5>3. QED BY <4>1, <4>3, <5>1, <5>2
      <4>4. QED BY <4>2, <4>3
    <3>4. QED BY <3>2, <3>3
  <2>6. QED BY <2>1, <2>2, <2>3, <2>4, <2>5 DEF FamilyOK
<1>9. QED BY <1>5, <1>6, <1>7, <1>8

(* What the strategies have in common: an item that keeps its side was     *)
(* edited from the other side, or that is kept elsewhere.                  *)
LEMMA StrategyIsSound ==
  ASSUME NEW w, LineageOK(w), FamilyOK(w, copyOf), ServerOK(w), NEW lc, NEW S, DOMAIN S = DOMAIN lc, DOMAIN lc \subseteq Items,
         Within(w, S), NEW pv, NEW H, NEW sent, PreviousOK(w, lc, pv, sent), NEW M, Sent(w, M), NEW i \in DOMAIN M,
         i \in DOMAIN lc, S[i] = lc[i], H[i] = pv[i], lc[i].dirty \/ i \in sent,
         NEW s \in StrategiesFor(i, S, H, M[i])
  PROVE  /\ s \in ConflictStrategies
         /\ s = "KeepApply" => lc[i].content = M[i].content
         /\ s = "KeepBase" => From(w, lc[i].content, M[i].content) \/ Held(w, M[i].content, DOMAIN lc)
<1> DEFINE copies == {c \in Copies \cap DOMAIN S : copyOf[c] = i}
           first == CHOOSE c \in copies : \A d \in copies : c <= d
           a == M[i].content
<1>1. /\ i \in Items /\ i # 0 /\ a \in w.family[i] /\ a \in w.received
  BY SyncDataAssumption DEF SyncDataAssumption, Sent, IsMap, Within
<1>2. From(w, a, a) /\ a # 0
  BY <1>1 DEF ServerOK, LineageOK, From
<1> HIDE DEF a
<1>3. CASE copies # {} /\ S[first].content = a
  <2>1. s = "KeepBase"
    BY <1>3 DEF StrategiesFor, a
  <2>2. first \in copies
    <3>1. copies \subseteq Nat
      BY SyncDataAssumption DEF SyncDataAssumption
    <3>2. \E c \in copies : \A d \in copies : c <= d
      <4> HIDE DEF copies
      <4>1. QED BY <1>3, <3>1, Least
    <3>3. QED BY <3>2
  <2>3. first \in Copies /\ first \in DOMAIN S /\ copyOf[first] = i
    BY <2>2
  <2> HIDE DEF first, copies
  <2>4. a \in w.family[first] /\ first \in Items
    BY <1>3, <2>3 DEF Within
  <2>5. w.origin[first] = a
    BY <1>1, <2>3, <2>4 DEF FamilyOK
  <2>6. Held(w, a, DOMAIN lc)
    BY <1>2, <2>3, <2>5 DEF Held
  <2>7. QED BY <2>1, <2>6 DEF ConflictStrategies, a
<1>4. CASE ~(copies # {} /\ S[first].content = a)
  <2>1. s \in IF S[i].content = a THEN {"KeepApply"} ELSE IF H[i] = a THEN {"KeepBase"} ELSE Duplicating
    BY <1>4 DEF StrategiesFor, a
  <2> HIDE DEF first, copies
  <2>2. CASE S[i].content = a
    BY <2>1, <2>2 DEF ConflictStrategies, a
  <2>3. CASE S[i].content # a /\ H[i] = a
    <3>1. s = "KeepBase" /\ pv[i] = a
      BY <2>1, <2>3
    <3>2. From(w, lc[i].content, a) \/ Held(w, a, DOMAIN lc)
      BY <1>2, <3>1 DEF PreviousOK
    <3>3. QED BY <3>1, <3>2 DEF ConflictStrategies, a
  <2>4. CASE S[i].content # a /\ H[i] # a
    BY <2>1, <2>4 DEF ConflictStrategies, Duplicating
  <2>5. QED BY <2>2, <2>3, <2>4
<1>5. QED BY <1>3, <1>4

-----------------------------------------------------------------------------
(* The payloads that a resolution makes.                                   *)

LEMMA RedirtiedIs ==
  ASSUME dirtyCount \in Nat, NEW p \in Payload, NEW e, e = Redirtied(p)
  PROVE  /\ e \in Payload /\ e.content = p.content /\ e.rev = p.rev /\ e.dirty
         /\ e.dirtyIndex = dirtyCount + 1 /\ e.globalDirtyIndexAtLastSync = p.globalDirtyIndexAtLastSync
<1>1. DOMAIN p = {"content", "rev", "dirty", "dirtyIndex", "globalDirtyIndexAtLastSync"}
      /\ p.content \in Nat /\ p.rev \in Nat /\ p.globalDirtyIndexAtLastSync \in Nat
  BY DEF Payload
<1>2. e = [content |-> p.content, rev |-> p.rev, dirty |-> TRUE, dirtyIndex |-> dirtyCount + 1,
           globalDirtyIndexAtLastSync |-> p.globalDirtyIndexAtLastSync]
  BY <1>1 DEF Redirtied
<1>3. QED BY <1>1, <1>2 DEF Payload

LEMMA CleanIs ==
  ASSUME NEW c \in Nat, NEW r \in Nat, NEW e, e = Clean(c, r)
  PROVE  /\ e \in Payload /\ e.content = c /\ e.rev = r /\ ~e.dirty
         /\ e.dirtyIndex = 0 /\ e.globalDirtyIndexAtLastSync = 0
<1>1. e = [content |-> c, rev |-> r, dirty |-> FALSE, dirtyIndex |-> 0, globalDirtyIndexAtLastSync |-> 0]
  BY DEF Clean
<1>2. e \in Payload
  BY <1>1 DEF Payload
<1>3. e.content = c /\ e.rev = r /\ ~e.dirty /\ e.dirtyIndex = 0 /\ e.globalDirtyIndexAtLastSync = 0
  BY <1>1
<1>4. QED BY <1>2, <1>3

LEMMA RevisedIs ==
  ASSUME NEW p \in Payload, NEW r \in Nat, NEW e, e = [p EXCEPT !.rev = r]
  PROVE  /\ e \in Payload /\ e.content = p.content /\ e.rev = r /\ e.dirty = p.dirty
         /\ e.dirtyIndex = p.dirtyIndex /\ e.globalDirtyIndexAtLastSync = p.globalDirtyIndexAtLastSync
<1>1. DOMAIN p = {"content", "rev", "dirty", "dirtyIndex", "globalDirtyIndexAtLastSync"}
      /\ p.content \in Nat /\ p.dirty \in BOOLEAN /\ p.dirtyIndex \in Nat /\ p.globalDirtyIndexAtLastSync \in Nat
  BY DEF Payload
<1>2. e = [content |-> p.content, rev |-> r, dirty |-> p.dirty, dirtyIndex |-> p.dirtyIndex,
           globalDirtyIndexAtLastSync |-> p.globalDirtyIndexAtLastSync]
  BY <1>1
<1>3. QED BY <1>1, <1>2 DEF Payload

LEMMA CleanedIs ==
  ASSUME NEW p \in Payload, NEW e, e = [p EXCEPT !.dirty = FALSE, !.dirtyIndex = 0]
  PROVE  /\ e \in Payload /\ e.content = p.content /\ e.rev = p.rev /\ ~e.dirty
         /\ e.dirtyIndex = 0 /\ e.globalDirtyIndexAtLastSync = p.globalDirtyIndexAtLastSync
<1>1. DOMAIN p = {"content", "rev", "dirty", "dirtyIndex", "globalDirtyIndexAtLastSync"}
      /\ p.content \in Nat /\ p.rev \in Nat /\ p.globalDirtyIndexAtLastSync \in Nat
  BY DEF Payload
<1>2. e = [content |-> p.content, rev |-> p.rev, dirty |-> FALSE, dirtyIndex |-> 0,
           globalDirtyIndexAtLastSync |-> p.globalDirtyIndexAtLastSync]
  BY <1>1
<1>3. e \in Payload
  <2>1. \A c, r, g \in Nat : [content |-> c, rev |-> r, dirty |-> FALSE, dirtyIndex |-> 0,
                              globalDirtyIndexAtLastSync |-> g] \in Payload
    BY DEF Payload
  <2>2. e = [content |-> p.content, rev |-> p.rev, dirty |-> FALSE, dirtyIndex |-> 0,
             globalDirtyIndexAtLastSync |-> p.globalDirtyIndexAtLastSync]
    BY <1>2
  <2>3. [content |-> p.content, rev |-> p.rev, dirty |-> FALSE, dirtyIndex |-> 0,
         globalDirtyIndexAtLastSync |-> p.globalDirtyIndexAtLastSync] \in Payload
    BY <1>1, <2>1
  <2>4. QED BY <2>2, <2>3, Zenon
<1>4. ~e.dirty /\ e.dirtyIndex = 0
  BY <1>2
<1>5. e.content = p.content /\ e.rev = p.rev /\ e.globalDirtyIndexAtLastSync = p.globalDirtyIndexAtLastSync
  BY <1>2
<1>6. QED BY <1>3, <1>4, <1>5

LEMMA LeftIs ==
  ASSUME dirtyCount \in Nat, NEW base \in Payload, NEW apply \in ServerItem, NEW s, NEW e, e = Left(base, apply, s)
  PROVE  /\ e \in Payload
         /\ s \in {"KeepApply", "DuplicateBaseKeepApply"} =>
              /\ e.content = apply.content /\ e.rev = apply.rev /\ ~e.dirty
              /\ e.dirtyIndex = 0 /\ e.globalDirtyIndexAtLastSync = 0
         /\ s \notin {"KeepApply", "DuplicateBaseKeepApply"} =>
              /\ e.content = base.content /\ e.rev \in {apply.rev, base.rev} /\ e.dirty
              /\ e.dirtyIndex = dirtyCount + 1
              /\ e.globalDirtyIndexAtLastSync = base.globalDirtyIndexAtLastSync
<1>1. apply.content \in Nat /\ apply.rev \in Nat /\ base.rev \in Nat
  BY DEF ServerItem, Payload
<1>2. CASE s \in {"KeepApply", "DuplicateBaseKeepApply"}
  <2>1. e = Clean(apply.content, apply.rev)
    BY <1>2 DEF Left
  <2>2. /\ e \in Payload /\ e.content = apply.content /\ e.rev = apply.rev /\ ~e.dirty
        /\ e.dirtyIndex = 0 /\ e.globalDirtyIndexAtLastSync = 0
    <3> SUFFICES ASSUME NEW c \in Nat, NEW r \in Nat, c = apply.content, r = apply.rev
                 PROVE  /\ e \in Payload /\ e.content = c /\ e.rev = r /\ ~e.dirty
                        /\ e.dirtyIndex = 0 /\ e.globalDirtyIndexAtLastSync = 0
      BY <1>1
    <3>1. e = Clean(c, r)
      BY <2>1
    <3>2. QED BY <3>1, CleanIs
  <2>3. QED BY <1>2, <2>2
<1>3. CASE s \notin {"KeepApply", "DuplicateBaseKeepApply"}
  <2> DEFINE r == IF apply.rev > base.rev THEN apply.rev ELSE base.rev
             p == [base EXCEPT !.rev = r]
  <2>1. e = Redirtied(p) /\ r \in Nat /\ r \in {apply.rev, base.rev}
    BY <1>1, <1>3 DEF Left
  <2>2. /\ p \in Payload /\ p.content = base.content /\ p.rev = r
        /\ p.globalDirtyIndexAtLastSync = base.globalDirtyIndexAtLastSync
    <3> HIDE DEF r
    <3>1. QED BY <2>1, RevisedIs
  <2> HIDE DEF p, r
  <2>3. /\ e \in Payload /\ e.content = p.content /\ e.rev = p.rev /\ e.dirty
        /\ e.dirtyIndex = dirtyCount + 1 /\ e.globalDirtyIndexAtLastSync = p.globalDirtyIndexAtLastSync
    BY <2>1, <2>2, RedirtiedIs
  <2>4. QED BY <1>3, <2>1, <2>2, <2>3
<1>4. QED BY <1>2, <1>3

(* The content a copy is made with.                                        *)
CopyContent(base, apply, s) == IF s = "KeepBaseDuplicateApply" THEN apply.content ELSE base.content

LEMMA RightIs ==
  ASSUME dirtyCount \in Nat, NEW base \in Payload, NEW apply \in ServerItem, NEW s, NEW e, e = Right(base, apply, s)
  PROVE  /\ e \in Payload /\ e.content = CopyContent(base, apply, s) /\ e.rev \in {apply.rev, base.rev} /\ e.dirty
         /\ e.dirtyIndex = dirtyCount + 1
         /\ e.globalDirtyIndexAtLastSync \in {0, base.globalDirtyIndexAtLastSync}
<1>1. apply.content \in Nat /\ apply.rev \in Nat
  BY DEF ServerItem
<1>2. CASE s = "KeepBaseDuplicateApply"
  <2> DEFINE p == Clean(apply.content, apply.rev)
  <2>1. e = Redirtied(p)
    BY <1>2 DEF Right
  <2>2. p \in Payload /\ p.content = apply.content /\ p.rev = apply.rev /\ p.globalDirtyIndexAtLastSync = 0
    <3> SUFFICES ASSUME NEW c \in Nat, NEW r \in Nat, c = apply.content, r = apply.rev
                 PROVE  p \in Payload /\ p.content = c /\ p.rev = r /\ p.globalDirtyIndexAtLastSync = 0
      BY <1>1
    <3>1. p = Clean(c, r)
      OBVIOUS
    <3> HIDE DEF p
    <3>2. QED BY <3>1, CleanIs
  <2> HIDE DEF p
  <2>3. QED BY <1>2, <2>1, <2>2, RedirtiedIs DEF CopyContent
<1>3. CASE s # "KeepBaseDuplicateApply"
  <2>1. e = Redirtied(base)
    BY <1>3 DEF Right
  <2>2. QED BY <1>3, <2>1, RedirtiedIs DEF CopyContent
<1>4. QED BY <1>2, <1>3

-----------------------------------------------------------------------------
(* The deltas of a resolution.                                             *)

Duplicated(M, strategy) == {i \in DOMAIN M : strategy[i] \in Duplicating}

Fresh(M, strategy, uuid) == {uuid[i] : i \in Duplicated(M, strategy)}

(* Different items have different copies.                                  *)
Apart(D, uuid) == \A i, j \in D : uuid[i] = uuid[j] => i = j

(* The items themselves and, with a new uuid each, the copies.             *)
Sides(S, M, strategy, uuid, E) ==
  /\ DOMAIN E = DOMAIN M \cup Fresh(M, strategy, uuid)
  /\ \A i \in DOMAIN M : E[i] = Left(S[i], M[i], strategy[i])
  /\ \A i \in Duplicated(M, strategy) : E[uuid[i]] = Right(S[i], M[i], strategy[i])

LEMMA ConflictsAre ==
  ASSUME NEW S, NEW M, NEW strategy, NEW uuid, Apart(Duplicated(M, strategy), uuid),
         Fresh(M, strategy, uuid) \cap DOMAIN M = {},
         NEW E, E = ConflictDelta(S, M, strategy, uuid)
  PROVE  Sides(S, M, strategy, uuid, E)
<1> DEFINE D == Duplicated(M, strategy)
           F == Fresh(M, strategy, uuid)
           source == [c \in F |-> CHOOSE i \in D : uuid[i] = c]
           L == [i \in DOMAIN M |-> Left(S[i], M[i], strategy[i])]
           K == [c \in F |-> Right(S[source[c]], M[source[c]], strategy[source[c]])]
<1>1. E = Put(L, K)
  BY DEF ConflictDelta, Duplicated, Fresh
<1>2. \A i \in D : uuid[i] \in F /\ source[uuid[i]] = i
  <2> SUFFICES ASSUME NEW i \in D PROVE uuid[i] \in F /\ source[uuid[i]] = i
    OBVIOUS
  <2>1. uuid[i] \in F
    BY DEF Fresh
  <2>2. source[uuid[i]] = CHOOSE j \in D : uuid[j] = uuid[i]
    BY <2>1
  <2>3. source[uuid[i]] \in D /\ uuid[source[uuid[i]]] = uuid[i]
    <3> HIDE DEF D
    <3>1. \E j \in D : uuid[j] = uuid[i]
      OBVIOUS
    <3>2. QED BY <2>2, <3>1
  <2>4. QED BY <2>1, <2>3 DEF Apart
<1>3. DOMAIN L = DOMAIN M /\ DOMAIN K = F
  OBVIOUS
<1>4. \A i \in DOMAIN M : L[i] = Left(S[i], M[i], strategy[i])
  OBVIOUS
<1>5. \A i \in D : K[uuid[i]] = Right(S[i], M[i], strategy[i])
  <2> SUFFICES ASSUME NEW i \in D, NEW c, c = uuid[i] PROVE K[c] = Right(S[i], M[i], strategy[i])
    OBVIOUS
  <2>1. c \in F /\ source[c] = i
    BY <1>2
  <2> HIDE DEF F, source, D
  <2>2. QED BY <2>1
<1> HIDE DEF L, K, source, D, F
<1>6. DOMAIN E = DOMAIN M \cup F
  BY <1>1, <1>3 DEF Put
<1>7. \A i \in DOMAIN M : E[i] = L[i]
  BY <1>1, <1>3 DEF Put, F
<1>8. \A i \in D : E[uuid[i]] = K[uuid[i]]
  BY <1>1, <1>2, <1>3 DEF Put
<1>9. QED BY <1>4, <1>5, <1>6, <1>7, <1>8 DEF Sides, D, F

(* The indices of a delta: a resolution draws the next one.                *)
Drawn(E, n) ==
  \A i \in DOMAIN E : /\ E[i].globalDirtyIndexAtLastSync <= n
                      /\ E[i].dirty => E[i].dirtyIndex = n + 1
                      /\ ~E[i].dirty => E[i].dirtyIndex = 0

(* What is known of the strategies and of the copies they make.            *)
Merging(w, lc, M, strategy, uuid) ==
  /\ \A i \in DOMAIN M :
       /\ i \in DOMAIN lc /\ strategy[i] \in ConflictStrategies
       /\ strategy[i] = "KeepApply" => lc[i].content = M[i].content
       /\ strategy[i] = "KeepBase" =>
            From(w, lc[i].content, M[i].content) \/ Held(w, M[i].content, DOMAIN lc)
  /\ \A i \in Duplicated(M, strategy) :
       /\ uuid[i] \in Copies /\ uuid[i] \notin DOMAIN lc /\ uuid[i] \notin DOMAIN w.server
       /\ w.origin[uuid[i]] = CopyContent(lc[i], M[i], strategy[i])
       /\ w.origin[uuid[i]] \in w.family[uuid[i]]
  /\ Apart(Duplicated(M, strategy), uuid)

(* What a delta makes of the conflicts: neither side is lost.              *)
Merged(w, lc, M, E) ==
  /\ Place(w, E, DOMAIN lc \cup DOMAIN E) /\ DOMAIN M \subseteq DOMAIN E
  /\ \A j \in DOMAIN E \ DOMAIN M : j \notin DOMAIN lc /\ j \notin DOMAIN w.server
  /\ \A i \in DOMAIN M :
       /\ i \in DOMAIN lc /\ E[i].content \in {lc[i].content, M[i].content}
       /\ Stays(w, lc[i].content, i, E) /\ Follower(w, M[i].content, i, E, lc)

Same(S, lc, D) == \A i \in D : S[i] = lc[i]

ConflictEmit(w, lc, M, strategy, uuid, E) ==
  /\ Merged(w, lc, M, E) /\ Drawn(E, dirtyCount)
  /\ DOMAIN E = DOMAIN M \cup Fresh(M, strategy, uuid)

LEMMA ConflictsMerge ==
  ASSUME dirtyCount \in Nat, NEW w, LineageOK(w), NEW copy, FamilyOK(w, copy), ServerOK(w),
         NEW lc, Place(w, lc, DOMAIN lc), Indexed(lc, dirtyCount), NEW M, Sent(w, M),
         NEW strategy, NEW uuid, Merging(w, lc, M, strategy, uuid),
         NEW S, Same(S, lc, DOMAIN M),
         NEW E, E = ConflictDelta(S, M, strategy, uuid)
  PROVE  ConflictEmit(w, lc, M, strategy, uuid, E)
<1> DEFINE D == Duplicated(M, strategy)
           F == Fresh(M, strategy, uuid)
<1>1. F \cap DOMAIN M = {} /\ \A c \in F : c \in Copies /\ c \notin DOMAIN lc /\ c \notin DOMAIN w.server
  BY DEF Merging, Fresh
<1>2. /\ DOMAIN E = DOMAIN M \cup F
      /\ \A i \in DOMAIN M : E[i] = Left(S[i], M[i], strategy[i])
      /\ \A i \in D : E[uuid[i]] = Right(S[i], M[i], strategy[i])
  <2>1. Apart(Duplicated(M, strategy), uuid) /\ Fresh(M, strategy, uuid) \cap DOMAIN M = {}
    BY <1>1 DEF Merging
  <2>2. Sides(S, M, strategy, uuid, E)
    BY <2>1, ConflictsAre
  <2>3. QED BY <2>2 DEF Sides
<1>3. \A i \in D : i \in DOMAIN M /\ uuid[i] \in F /\ strategy[i] \in Duplicating
  BY DEF Duplicated, Fresh
<1>4. \A c \in F : \E i \in D : c = uuid[i]
  BY DEF Fresh
<1> HIDE DEF D, F
<1>5. ASSUME NEW i \in DOMAIN M
      PROVE  /\ i \in Items /\ i \in DOMAIN lc /\ lc[i] \in Payload /\ M[i] \in ServerItem /\ i \in DOMAIN w.server
             /\ lc[i].content \in w.family[i] /\ M[i].content \in w.family[i] /\ M[i].content \in w.received
             /\ lc[i].rev <= w.seq /\ M[i].rev <= w.seq
             /\ lc[i].rev = w.server[i].rev =>
                  From(w, lc[i].content, w.server[i].content) \/ Held(w, w.server[i].content, DOMAIN lc)
             /\ M[i].rev = w.server[i].rev => M[i].content = w.server[i].content
             /\ From(w, M[i].content, M[i].content) /\ From(w, lc[i].content, lc[i].content)
             /\ lc[i].globalDirtyIndexAtLastSync <= dirtyCount
  <2>1. i \in DOMAIN lc /\ i \in DOMAIN w.server
    BY DEF Merging, Sent
  <2>2. i \in Items /\ lc[i] \in Payload /\ lc[i].content \in w.family[i]
    BY <2>1 DEF Place, IsMap, Within
  <2>3. M[i] \in ServerItem /\ M[i].content \in w.family[i] /\ M[i].content \in w.received
    BY DEF Sent, IsMap, Within
  <2>4. /\ lc[i].rev <= w.seq
        /\ lc[i].rev = w.server[i].rev =>
             From(w, lc[i].content, w.server[i].content) \/ Held(w, w.server[i].content, DOMAIN lc)
    BY <2>1 DEF Place, Based
  <2>5. M[i].rev <= w.server[i].rev /\ w.server[i].rev <= w.seq
    BY <2>1 DEF Sent, ServerOK
  <2>6. M[i].rev <= w.seq
    BY <2>1, <2>3, <2>5 DEF ServerOK, IsMap, ServerItem
  <2>7. From(w, M[i].content, M[i].content)
    BY <2>3 DEF ServerOK, LineageOK
  <2>8. From(w, lc[i].content, lc[i].content)
    BY <2>1, FromItself DEF Place
  <2>9. M[i].rev = w.server[i].rev => M[i].content = w.server[i].content
    BY DEF Sent
  <2>10. lc[i].globalDirtyIndexAtLastSync <= dirtyCount
    BY <2>1 DEF Indexed
  <2>11. QED BY <2>1, <2>2, <2>3, <2>4, <2>6, <2>7, <2>8, <2>9, <2>10
<1>6. ASSUME NEW i \in DOMAIN M
      PROVE  /\ E[i] \in Payload
             /\ strategy[i] \in {"KeepApply", "DuplicateBaseKeepApply"} =>
                  /\ E[i].content = M[i].content /\ E[i].rev = M[i].rev /\ ~E[i].dirty
                  /\ E[i].dirtyIndex = 0 /\ E[i].globalDirtyIndexAtLastSync = 0
             /\ strategy[i] \notin {"KeepApply", "DuplicateBaseKeepApply"} =>
                  /\ E[i].content = lc[i].content /\ E[i].rev \in {M[i].rev, lc[i].rev} /\ E[i].dirty
                  /\ E[i].dirtyIndex = dirtyCount + 1
                  /\ E[i].globalDirtyIndexAtLastSync = lc[i].globalDirtyIndexAtLastSync
  <2>1. lc[i] \in Payload /\ M[i] \in ServerItem /\ E[i] = Left(lc[i], M[i], strategy[i])
    BY <1>2, <1>5 DEF Same
  <2>2. QED BY <2>1, LeftIs
<1>7. ASSUME NEW i \in D, NEW c, c = uuid[i]
      PROVE  /\ E[c] \in Payload /\ E[c].content = w.origin[c] /\ E[c].rev \in {M[i].rev, lc[i].rev} /\ E[c].dirty
             /\ E[c].dirtyIndex = dirtyCount + 1
             /\ E[c].globalDirtyIndexAtLastSync \in {0, lc[i].globalDirtyIndexAtLastSync}
             /\ w.origin[c] \in w.family[c] /\ w.origin[c] = CopyContent(lc[i], M[i], strategy[i])
  <2>1. lc[i] \in Payload /\ M[i] \in ServerItem /\ E[c] = Right(lc[i], M[i], strategy[i])
    BY <1>2, <1>3, <1>5, <1>7 DEF Same
  <2>2. w.origin[c] = CopyContent(lc[i], M[i], strategy[i]) /\ w.origin[c] \in w.family[c]
    BY <1>7 DEF Merging, D
  <2>3. QED BY <2>1, <2>2, RightIs
<1>8. ASSUME NEW i \in D
      PROVE  /\ strategy[i] = "KeepBaseDuplicateApply" => Held(w, M[i].content, DOMAIN E)
             /\ strategy[i] = "DuplicateBaseKeepApply" => Held(w, lc[i].content, DOMAIN E)
  <2>1. uuid[i] \in DOMAIN E /\ w.origin[uuid[i]] = CopyContent(lc[i], M[i], strategy[i])
    BY <1>2, <1>3, <1>7
  <2>2. QED BY <1>3, <1>5, <2>1 DEF CopyContent, Held
<1>9. \A i \in DOMAIN M : /\ strategy[i] \in ConflictStrategies
                          /\ strategy[i] = "KeepApply" => lc[i].content = M[i].content
                          /\ strategy[i] = "KeepBase" =>
                               From(w, lc[i].content, M[i].content) \/ Held(w, M[i].content, DOMAIN lc)
                          /\ strategy[i] \in Duplicating => i \in D
  BY DEF Merging, D, Duplicated
<1>10. IsMap(E, Payload)
  <2>1. Copies \subseteq Items
    BY DEF Items
  <2>2. \A c \in F : c \in Items /\ E[c] \in Payload
    BY <1>1, <1>4, <1>7, <2>1
  <2>3. \A i \in DOMAIN M : i \in Items /\ E[i] \in Payload
    BY <1>5, <1>6
  <2>4. QED BY <1>2, <2>2, <2>3 DEF IsMap
<1>11. Within(w, E)
  <2>1. \A c \in F : E[c].content \in w.family[c]
    BY <1>4, <1>7
  <2>2. \A i \in DOMAIN M : E[i].content \in w.family[i]
    BY <1>5, <1>6
  <2>3. QED BY <1>2, <2>1, <2>2 DEF Within
<1>12. \A i \in DOMAIN M : /\ E[i].content \in {lc[i].content, M[i].content}
                           /\ Stays(w, lc[i].content, i, E) /\ Follower(w, M[i].content, i, E, lc)
  <2> SUFFICES ASSUME NEW i \in DOMAIN M
               PROVE  /\ E[i].content \in {lc[i].content, M[i].content}
                      /\ Stays(w, lc[i].content, i, E) /\ Follower(w, M[i].content, i, E, lc)
    OBVIOUS
  <2>1. i \in DOMAIN E /\ From(w, M[i].content, M[i].content) /\ From(w, lc[i].content, lc[i].content)
    BY <1>2, <1>5
  <2>2. \A c, X, Y : X \subseteq Y /\ Held(w, c, X) => Held(w, c, Y)
    BY DEF Held
  <2>3. CASE strategy[i] = "KeepApply"
    BY <1>6, <1>9, <2>1, <2>3 DEF Stays, Follower
  <2>4. CASE strategy[i] = "KeepBase"
    BY <1>6, <1>9, <2>1, <2>2, <2>4 DEF Stays, Follower
  <2>5. CASE strategy[i] = "KeepBaseDuplicateApply"
    <3>1. i \in D
      BY <1>9, <2>5 DEF Duplicating
    <3>2. Held(w, M[i].content, DOMAIN E) /\ E[i].content = lc[i].content
      BY <1>6, <1>8, <2>5, <3>1
    <3>3. QED BY <2>1, <2>2, <3>2 DEF Stays, Follower
  <2>6. CASE strategy[i] = "DuplicateBaseKeepApply"
    <3>1. i \in D
      BY <1>9, <2>6 DEF Duplicating
    <3>2. Held(w, lc[i].content, DOMAIN E) /\ E[i].content = M[i].content
      BY <1>6, <1>8, <2>6, <3>1
    <3>3. QED BY <2>1, <2>2, <3>2 DEF Stays, Follower
  <2>7. QED BY <1>9, <2>3, <2>4, <2>5, <2>6 DEF ConflictStrategies, Duplicating
<1>13. Based(w, E, DOMAIN lc \cup DOMAIN E)
  <2>1. ASSUME NEW c \in F PROVE E[c].rev <= w.seq /\ c \notin DOMAIN w.server
    BY <1>1, <1>3, <1>4, <1>5, <1>7
  <2>2. ASSUME NEW i \in DOMAIN M, E[i].rev = w.server[i].rev
        PROVE  \/ From(w, E[i].content, w.server[i].content)
               \/ Held(w, w.server[i].content, DOMAIN lc \cup DOMAIN E)
    <3>1. CASE E[i].content = M[i].content /\ E[i].rev = M[i].rev
      BY <1>5, <2>2, <3>1
    <3>2. CASE E[i].content = lc[i].content /\ E[i].rev = lc[i].rev
      <4>1. From(w, lc[i].content, w.server[i].content) \/ Held(w, w.server[i].content, DOMAIN lc)
        BY <1>5, <2>2, <3>2
      <4>2. QED BY <3>2, <4>1 DEF Held
    <3>3. CASE E[i].content = lc[i].content /\ E[i].rev = M[i].rev
      <4>1. M[i].content = w.server[i].content
        BY <1>5, <2>2, <3>3
      <4>2. Follower(w, M[i].content, i, E, lc)
        BY <1>12
      <4>3. QED BY <4>1, <4>2 DEF Follower
    <3>4. QED BY <1>6, <3>1, <3>2, <3>3
  <2>3. ASSUME NEW i \in DOMAIN M PROVE E[i].rev <= w.seq
    BY <1>5, <1>6
  <2>4. QED BY <1>2, <2>1, <2>2, <2>3 DEF Based
<1>14. Marked(w, E)
  <2>1. \A c \in F : E[c].dirty
    BY <1>4, <1>7
  <2>2. \A i \in DOMAIN M : E[i].dirty \/ (E[i].content \in w.received /\ i \in DOMAIN w.server)
    BY <1>5, <1>6
  <2>3. QED BY <1>2, <2>1, <2>2 DEF Marked
<1>15. Drawn(E, dirtyCount)
  <2>1. \A c \in F : E[c].dirty /\ E[c].dirtyIndex = dirtyCount + 1 /\ E[c].globalDirtyIndexAtLastSync <= dirtyCount
    BY <1>3, <1>4, <1>5, <1>7
  <2>2. \A i \in DOMAIN M : /\ E[i].globalDirtyIndexAtLastSync <= dirtyCount
                            /\ E[i].dirty => E[i].dirtyIndex = dirtyCount + 1
                            /\ ~E[i].dirty => E[i].dirtyIndex = 0
    BY <1>5, <1>6
  <2>3. QED BY <1>2, <2>1, <2>2 DEF Drawn
<1>16. \A j \in DOMAIN E \ DOMAIN M : j \notin DOMAIN lc /\ j \notin DOMAIN w.server
  BY <1>1, <1>2
<1>17. Merged(w, lc, M, E)
  BY <1>2, <1>5, <1>10, <1>11, <1>12, <1>13, <1>14, <1>16 DEF Merged, Place
<1>18. QED BY <1>2, <1>15, <1>17 DEF F, ConflictEmit

(* Q holds the payloads of the server's items N, which are not dirty.      *)
Received(N, Q) ==
  /\ DOMAIN Q = DOMAIN N /\ \A i \in DOMAIN N : Q[i] \in Payload
  /\ \A i \in DOMAIN N : Q[i].content = N[i].content
  /\ \A i \in DOMAIN N : Q[i].rev = N[i].rev
  /\ \A i \in DOMAIN N : ~Q[i].dirty
  /\ \A i \in DOMAIN N : Q[i].dirtyIndex = 0 /\ Q[i].globalDirtyIndexAtLastSync = 0

LEMMA RetrievedAre ==
  ASSUME NEW S, NEW N, IsMap(N, ServerItem), \A i \in DOMAIN N \cap DOMAIN S : S[i].dirtyIndex = 0,
         NEW Q, Q = RetrievedDelta(S, N)
  PROVE  Received(N, Q)
<1>1. DOMAIN Q = DOMAIN N
  BY DEF RetrievedDelta
<1>2. ASSUME NEW i \in DOMAIN N
      PROVE  /\ Q[i] \in Payload /\ Q[i].content = N[i].content /\ Q[i].rev = N[i].rev
             /\ ~Q[i].dirty /\ Q[i].dirtyIndex = 0 /\ Q[i].globalDirtyIndexAtLastSync = 0
  <2>1. N[i].content \in Nat /\ N[i].rev \in Nat
    BY DEF IsMap, ServerItem
  <2> SUFFICES ASSUME NEW c \in Nat, NEW r \in Nat, c = N[i].content, r = N[i].rev, NEW e, e = Q[i],
                      NEW p, p = Clean(c, r)
               PROVE  /\ e \in Payload /\ e.content = c /\ e.rev = r
                      /\ ~e.dirty /\ e.dirtyIndex = 0 /\ e.globalDirtyIndexAtLastSync = 0
    BY <2>1
  <2>2. /\ p \in Payload /\ p.content = c /\ p.rev = r /\ ~p.dirty
        /\ p.dirtyIndex = 0 /\ p.globalDirtyIndexAtLastSync = 0
    BY CleanIs
  <2>3. e = p \/ e = [p EXCEPT !.dirty = FALSE, !.dirtyIndex = 0]
    <3>1. e = IF i \in DOMAIN S THEN FinalizeSyncState(p, S[i]) ELSE p
      BY DEF RetrievedDelta
    <3>2. i \in DOMAIN S => ~StillDirty(S[i])
      BY DEF StillDirty
    <3>3. QED BY <3>1, <3>2 DEF FinalizeSyncState
  <2>4. CASE e = p
    BY <2>2, <2>4
  <2>5. CASE e = [p EXCEPT !.dirty = FALSE, !.dirtyIndex = 0]
    BY <2>2, <2>5, CleanedIs
  <2>6. QED BY <2>3, <2>4, <2>5
<1>3. QED BY <1>1, <1>2 DEF Received

(* The items that were saved, with the client's contents.                  *)
SavedEmit(w, lc, saved, E) ==
  /\ DOMAIN E = DOMAIN saved /\ Place(w, E, DOMAIN lc \cup DOMAIN E) /\ Drawn(E, dirtyCount)
  /\ \A i \in DOMAIN saved : E[i].content = lc[i].content

LEMMA SavedAre ==
  ASSUME dirtyCount \in Nat, NEW w, ServerOK(w), NEW lc, Place(w, lc, DOMAIN lc), Indexed(lc, dirtyCount),
         NEW R, NEW tk, SavedOK(w, R, lc, tk), DOMAIN R.saved \subseteq DOMAIN lc,
         NEW S, Same(S, lc, DOMAIN R.saved), NEW E, E = SavedDelta(S, R.saved)
  PROVE  SavedEmit(w, lc, R.saved, E)
<1>1. DOMAIN E = DOMAIN R.saved
  BY DEF SavedDelta
<1>2. ASSUME NEW i \in DOMAIN R.saved
      PROVE  /\ E[i] \in Payload /\ E[i].content = lc[i].content /\ E[i].rev = R.saved[i]
             /\ E[i].globalDirtyIndexAtLastSync = lc[i].globalDirtyIndexAtLastSync
             /\ E[i].dirty <=> StillDirty(lc[i])
             /\ E[i].dirtyIndex = IF E[i].dirty THEN dirtyCount + 1 ELSE 0
  <2>1. lc[i] \in Payload /\ R.saved[i] \in Nat
    BY DEF SavedOK, Place, IsMap
  <2> SUFFICES ASSUME NEW b \in Payload, b = lc[i], NEW r \in Nat, r = R.saved[i], NEW e, e = E[i],
                      NEW p, p = [b EXCEPT !.rev = r]
               PROVE  /\ e \in Payload /\ e.content = b.content /\ e.rev = r
                      /\ e.globalDirtyIndexAtLastSync = b.globalDirtyIndexAtLastSync
                      /\ e.dirty <=> StillDirty(b)
                      /\ e.dirtyIndex = IF e.dirty THEN dirtyCount + 1 ELSE 0
    BY <2>1
  <2>2. /\ p \in Payload /\ p.content = b.content /\ p.rev = r
        /\ p.globalDirtyIndexAtLastSync = b.globalDirtyIndexAtLastSync
    BY RevisedIs
  <2>3. e = FinalizeSyncState(p, b)
    BY DEF SavedDelta, Same
  <2>4. CASE StillDirty(b)
    <3>1. e = Redirtied(p)
      BY <2>3, <2>4 DEF FinalizeSyncState
    <3>2. QED BY <2>2, <2>4, <3>1, RedirtiedIs
  <2>5. CASE ~StillDirty(b)
    <3>1. e = [p EXCEPT !.dirty = FALSE, !.dirtyIndex = 0]
      BY <2>3, <2>5 DEF FinalizeSyncState
    <3>2. QED BY <2>2, <2>5, <3>1, CleanedIs
  <2>6. QED BY <2>4, <2>5
<1>3. ASSUME NEW i \in DOMAIN R.saved
      PROVE  /\ i \in Items /\ lc[i].content \in w.family[i] /\ lc[i].globalDirtyIndexAtLastSync <= dirtyCount
             /\ i \in DOMAIN w.server /\ R.saved[i] <= w.seq
             /\ R.saved[i] = w.server[i].rev => From(w, lc[i].content, w.server[i].content)
             /\ lc[i].content \in w.received \/ StillDirty(lc[i])
  <2>1. i \in Items /\ lc[i].content \in w.family[i] /\ lc[i].globalDirtyIndexAtLastSync <= dirtyCount
    BY DEF Place, IsMap, Within, Indexed
  <2>2. /\ i \in DOMAIN w.server /\ R.saved[i] <= w.server[i].rev /\ R.saved[i] \in Nat
        /\ R.saved[i] = w.server[i].rev => From(w, lc[i].content, w.server[i].content)
        /\ lc[i].content \in w.received \/ StillDirty(lc[i])
    BY DEF SavedOK
  <2>3. R.saved[i] <= w.seq
    BY <2>2 DEF ServerOK, IsMap, ServerItem
  <2>4. QED BY <2>1, <2>2, <2>3
<1>4. Place(w, E, DOMAIN lc \cup DOMAIN E)
  <2>1. IsMap(E, Payload) /\ Within(w, E)
    BY <1>1, <1>2, <1>3 DEF IsMap, Within
  <2>2. Based(w, E, DOMAIN lc \cup DOMAIN E)
    BY <1>1, <1>2, <1>3 DEF Based
  <2>3. Marked(w, E)
    BY <1>1, <1>2, <1>3 DEF Marked
  <2>4. QED BY <2>1, <2>2, <2>3 DEF Place
<1>5. Drawn(E, dirtyCount)
  BY <1>1, <1>2, <1>3 DEF Drawn
<1>6. QED BY <1>1, <1>2, <1>4, <1>5 DEF SavedEmit

LEMMA StaysMore ==
  ASSUME NEW w, NEW c, NEW i, NEW C, NEW E, DOMAIN C \subseteq DOMAIN E, i \in DOMAIN C => E[i] = C[i],
         Stays(w, c, i, C)
  PROVE  Stays(w, c, i, E)
BY DEF Stays, Held

After(tk, M) == \A i \in DOMAIN M : Since(tk) < M[i].rev

(* E holds the items retrieved, of which those of T have been merged to K. *)
FirstEmit(w, lc, sent, tk, retrieved, T, K, E) ==
  /\ DOMAIN E = DOMAIN retrieved \cup DOMAIN K /\ DOMAIN K \subseteq DOMAIN E
  /\ Place(w, E, DOMAIN lc \cup DOMAIN E) /\ Drawn(E, dirtyCount)
  /\ Same(E, K, DOMAIN K)
  /\ \A i \in DOMAIN retrieved \ T : E[i].content = retrieved[i].content /\ ~E[i].dirty
  /\ \A i \in (DOMAIN retrieved \ T) \cap DOMAIN lc :
       i \notin sent /\ ~lc[i].dirty /\ lc[i].content \in w.received /\ Since(tk) < w.server[i].rev

LEMMA RetrievedAreFirst ==
  ASSUME dirtyCount \in Nat, NEW w, LineageOK(w), ServerOK(w), NEW lc, Place(w, lc, DOMAIN lc), Indexed(lc, dirtyCount),
         NEW sent, NEW tk \in Token, NEW retrieved, Sent(w, retrieved), After(tk, retrieved),
         NEW S, DOMAIN S = DOMAIN lc, Same(S, lc, DOMAIN retrieved \cap DOMAIN lc),
         NEW T, T = Conflicting(S, retrieved, sent), NEW M, M = Pick(retrieved, T),
         NEW N, N = Pick(retrieved, DOMAIN retrieved \ T),
         NEW K, Merged(w, lc, M, K), Drawn(K, dirtyCount), NEW Q, Q = RetrievedDelta(S, N), NEW E, E = Put(Q, K)
  PROVE  FirstEmit(w, lc, sent, tk, retrieved, T, K, E)
<1>1. T \subseteq DOMAIN retrieved /\ DOMAIN M = T /\ DOMAIN N = DOMAIN retrieved \ T
  BY DEF Conflicting, Pick
<1>2. \A i \in DOMAIN N : N[i] = retrieved[i]
  BY DEF Pick
<1>3. \A i \in DOMAIN N \cap DOMAIN lc : i \notin sent /\ S[i] = lc[i] /\ ~lc[i].dirty
  BY <1>1 DEF Conflicting, Same
<1>4. \A i \in DOMAIN N \cap DOMAIN S : S[i].dirtyIndex = 0
  BY <1>3 DEF Indexed
<1>5. IsMap(N, ServerItem)
  BY <1>1, <1>2 DEF Sent, IsMap
<1>6. Received(N, Q)
  BY <1>4, <1>5, RetrievedAre
<1>7. DOMAIN K \cap DOMAIN N = {}
  BY <1>1 DEF Merged, Sent
<1>8. DOMAIN M \subseteq DOMAIN K
  BY DEF Merged
<1>9. /\ DOMAIN E = DOMAIN retrieved \cup DOMAIN K
      /\ \A i \in DOMAIN K : E[i] = K[i]
      /\ \A i \in DOMAIN N : E[i] = Q[i]
  BY <1>1, <1>6, <1>7, <1>8 DEF Put, Received
<1>10. ASSUME NEW i \in DOMAIN N
       PROVE  /\ i \in Items /\ i \in DOMAIN w.server /\ retrieved[i].content \in w.family[i]
              /\ retrieved[i].content \in w.received /\ retrieved[i].rev <= w.seq /\ Since(tk) < w.server[i].rev
              /\ retrieved[i].rev = w.server[i].rev => From(w, retrieved[i].content, w.server[i].content)
  <2>1. i \in DOMAIN retrieved
    BY <1>1
  <2>2. /\ i \in Items /\ i \in DOMAIN w.server /\ retrieved[i].content \in w.family[i]
        /\ retrieved[i].content \in w.received /\ retrieved[i].rev \in Nat
    BY <2>1 DEF Sent, IsMap, Within, ServerItem
  <2>3. /\ retrieved[i].rev <= w.server[i].rev /\ w.server[i].rev <= w.seq /\ w.server[i].rev \in Nat /\ w.seq \in Nat
        /\ Since(tk) < retrieved[i].rev /\ Since(tk) \in Nat
    BY <2>1, <2>2 DEF After, Since, Token, Sent, ServerOK, IsMap, ServerItem
  <2>4. retrieved[i].rev <= w.seq
    BY <2>2, <2>3
  <2>5. Since(tk) < w.server[i].rev
    BY <2>2, <2>3
  <2>6. retrieved[i].rev = w.server[i].rev => From(w, retrieved[i].content, w.server[i].content)
    <3>1. retrieved[i].rev = w.server[i].rev => retrieved[i].content = w.server[i].content
      BY <2>1 DEF Sent
    <3>2. From(w, retrieved[i].content, retrieved[i].content)
      BY <2>2 DEF ServerOK, LineageOK
    <3>3. QED BY <3>1, <3>2
  <2>7. QED BY <2>2, <2>4, <2>5, <2>6
<1>11. /\ \A i \in DOMAIN N : E[i] \in Payload
       /\ \A i \in DOMAIN N : E[i].content = retrieved[i].content
       /\ \A i \in DOMAIN N : E[i].rev = retrieved[i].rev
       /\ \A i \in DOMAIN N : ~E[i].dirty
       /\ \A i \in DOMAIN N : E[i].dirtyIndex = 0 /\ E[i].globalDirtyIndexAtLastSync = 0
       /\ \A i \in DOMAIN E : i \in DOMAIN K \/ i \in DOMAIN N
       /\ DOMAIN N \subseteq DOMAIN retrieved
  <2>1. \A i \in DOMAIN N : E[i] = Q[i] /\ N[i] = retrieved[i]
    BY <1>2, <1>9
  <2>2. ASSUME NEW i \in DOMAIN N
        PROVE  /\ E[i] \in Payload /\ E[i].content = retrieved[i].content /\ E[i].rev = retrieved[i].rev
               /\ ~E[i].dirty /\ E[i].dirtyIndex = 0 /\ E[i].globalDirtyIndexAtLastSync = 0
    <3>1. Q[i] \in Payload /\ Q[i].content = N[i].content /\ Q[i].rev = N[i].rev
      BY <1>6 DEF Received
    <3>2. ~Q[i].dirty
      BY <1>6 DEF Received
    <3>3. Q[i].dirtyIndex = 0 /\ Q[i].globalDirtyIndexAtLastSync = 0
      BY <1>6 DEF Received
    <3>4. E[i] = Q[i] /\ N[i] = retrieved[i]
      BY <2>1
    <3>5. QED BY <3>1, <3>2, <3>3, <3>4, Zenon
  <2>3. (\A i \in DOMAIN E : i \in DOMAIN K \/ i \in DOMAIN N) /\ DOMAIN N \subseteq DOMAIN retrieved
    BY <1>1, <1>8, <1>9
  <2>4. QED BY <2>2, <2>3
<1>12. Place(w, E, DOMAIN lc \cup DOMAIN E)
  <2>1. Place(w, K, DOMAIN lc \cup DOMAIN E)
    <3>1. Place(w, K, DOMAIN lc \cup DOMAIN K)
      BY DEF Merged
    <3>2. DOMAIN lc \cup DOMAIN K \subseteq DOMAIN lc \cup DOMAIN E
      BY <1>9
    <3>3. QED BY <3>1, <3>2, PlaceMore
  <2>2. IsMap(E, Payload)
    <3>1. DOMAIN E \subseteq Items
      BY <1>10, <1>11, <2>1 DEF Place, IsMap
    <3>2. \A i \in DOMAIN K : K[i] \in Payload
      BY <2>1 DEF Place, IsMap
    <3>3. QED BY <1>9, <1>11, <3>1, <3>2 DEF IsMap
  <2>3. Within(w, E)
    <3>1. \A i \in DOMAIN K : K[i].content \in w.family[i]
      BY <2>1 DEF Place, Within
    <3>2. \A i \in DOMAIN K : E[i].content \in w.family[i]
      BY <1>9, <3>1
    <3>3. \A i \in DOMAIN N : E[i].content \in w.family[i]
      BY <1>10, <1>11
    <3>4. QED BY <1>11, <3>2, <3>3 DEF Within
  <2>4. Based(w, E, DOMAIN lc \cup DOMAIN E)
    <3> SUFFICES ASSUME NEW i \in DOMAIN E
                 PROVE  /\ E[i].rev <= w.seq
                        /\ i \in DOMAIN w.server /\ E[i].rev = w.server[i].rev =>
                             \/ From(w, E[i].content, w.server[i].content)
                             \/ Held(w, w.server[i].content, DOMAIN lc \cup DOMAIN E)
      BY DEF Based
    <3>1. CASE i \in DOMAIN K
      BY <1>9, <2>1, <3>1 DEF Place, Based
    <3>2. CASE i \in DOMAIN N
      BY <1>10, <1>11, <3>2
    <3>3. QED BY <1>11, <3>1, <3>2
  <2>5. Marked(w, E)
    <3>1. \A i \in DOMAIN K : K[i].dirty \/ (K[i].content \in w.received /\ i \in DOMAIN w.server)
      BY <2>1 DEF Place, Marked
    <3>2. \A i \in DOMAIN K : E[i].dirty \/ (E[i].content \in w.received /\ i \in DOMAIN w.server)
      BY <1>9, <3>1
    <3>3. \A i \in DOMAIN N : E[i].content \in w.received /\ i \in DOMAIN w.server
      BY <1>10, <1>11
    <3>4. QED BY <1>11, <3>2, <3>3 DEF Marked
  <2>6. QED BY <2>2, <2>3, <2>4, <2>5 DEF Place
<1>13. Drawn(E, dirtyCount)
  <2>1. \A i \in DOMAIN K : /\ E[i].globalDirtyIndexAtLastSync <= dirtyCount
                            /\ E[i].dirty => E[i].dirtyIndex = dirtyCount + 1
                            /\ ~E[i].dirty => E[i].dirtyIndex = 0
    BY <1>9 DEF Drawn
  <2>2. \A i \in DOMAIN N : /\ E[i].globalDirtyIndexAtLastSync <= dirtyCount
                            /\ E[i].dirty => E[i].dirtyIndex = dirtyCount + 1
                            /\ ~E[i].dirty => E[i].dirtyIndex = 0
    <3> SUFFICES ASSUME NEW i \in DOMAIN N
                 PROVE  /\ E[i].globalDirtyIndexAtLastSync <= dirtyCount
                        /\ E[i].dirty => E[i].dirtyIndex = dirtyCount + 1
                        /\ ~E[i].dirty => E[i].dirtyIndex = 0
      OBVIOUS
    <3>1. E[i].globalDirtyIndexAtLastSync = 0 /\ ~E[i].dirty /\ E[i].dirtyIndex = 0
      BY <1>11
    <3>2. QED BY <3>1
  <2>3. QED BY <1>11, <2>1, <2>2 DEF Drawn
<1>14. \A i \in DOMAIN N \cap DOMAIN lc : lc[i].content \in w.received
  BY <1>3 DEF Place, Marked
<1>15. /\ \A i \in DOMAIN retrieved \ T : E[i].content = retrieved[i].content /\ ~E[i].dirty
       /\ \A i \in (DOMAIN retrieved \ T) \cap DOMAIN lc :
            i \notin sent /\ ~lc[i].dirty /\ lc[i].content \in w.received /\ Since(tk) < w.server[i].rev
  <2>1. DOMAIN N = DOMAIN retrieved \ T
    BY <1>1
  <2>2. QED BY <1>3, <1>10, <1>11, <1>14, <2>1
<1>16. QED BY <1>9, <1>12, <1>13, <1>15 DEF FirstEmit, Same

(* A delta, in an emit that may hold more, keeps what it replaces.         *)
LEMMA MergedKeeps ==
  ASSUME NEW w, LineageOK(w), NEW lc, NEW dk, Follows(w, dk, lc), NEW tk, NEW M, NEW K, Merged(w, lc, M, K),
         NEW E, DOMAIN K \subseteq DOMAIN E, Same(E, K, DOMAIN K), NEW i \in DOMAIN M
  PROVE  /\ i \in DOMAIN lc /\ E[i].content \in {lc[i].content, M[i].content}
         /\ Replaces(w, tk, dk[i].content, i, E) /\ Follower(w, lc[i].content, i, E, lc)
         /\ Follower(w, M[i].content, i, E, lc)
<1>1. /\ i \in DOMAIN lc /\ i \in DOMAIN K /\ K[i].content \in {lc[i].content, M[i].content}
      /\ Stays(w, lc[i].content, i, K) /\ Follower(w, M[i].content, i, K, lc)
  BY DEF Merged
<1>2. E[i] = K[i] /\ i \in DOMAIN E
  BY <1>1 DEF Same
<1>3. Stays(w, lc[i].content, i, E)
  BY <1>1, <1>2, StaysMore
<1>4. Stays(w, dk[i].content, i, E)
  BY <1>1, <1>3, StaysFrom DEF Follows
<1>5. Follower(w, lc[i].content, i, E, lc)
  BY <1>3 DEF Stays, Follower, Held
<1>6. Follower(w, M[i].content, i, E, lc)
  BY <1>1, <1>2 DEF Follower, Held
<1>7. QED BY <1>1, <1>2, <1>4, <1>5, <1>6 DEF Replaces

(* The emits e, f and g, any of which may be empty, follow in this order.  *)
Ordered(w, e, f, g, lc, dk, tk, sent, n, token) ==
  /\ EmitOK(w, e, dk, tk, n) /\ EmitOK(w, f, dk, tk, n) /\ EmitOK(w, g, dk, tk, n)
  /\ FirstOK(w, e, lc, sent) /\ LaterOK(w, f, lc, sent) /\ LaterOK(w, g, lc, sent)
  /\ PairOK(w, e, f, lc, tk) /\ PairOK(w, e, g, lc, tk) /\ PairOK(w, f, g, lc, tk)
  /\ \A k \in DOMAIN w.server :
       w.server[k].rev <= Since(token) => Stays(w, w.server[k].content, k, Put(Put(Put(dk, e), f), g))

ReplacesAll(w, tk, dk, e) == \A i \in DOMAIN e \cap DOMAIN dk : Replaces(w, tk, dk[i].content, i, e)

FollowersAll(w, M, e, lc) == \A i \in DOMAIN M : Follower(w, M[i].content, i, e, lc)

(* After e, f and g, what the server has up to the token is on disk.       *)
LEMMA DeltasComplete ==
  ASSUME NEW w, LineageOK(w), ServerOK(w), NEW lc, NEW dk, DOMAIN dk = DOMAIN lc, NEW tk, NEW stored,
         TokensOK(w, dk, tk, stored), NEW R, SavedOK(w, R, lc, tk), Complete(w, R, tk),
         NEW e, NEW f, NEW g, DOMAIN R.retrieved \subseteq DOMAIN e, DOMAIN R.conflicts \subseteq DOMAIN g,
         DOMAIN R.saved \subseteq DOMAIN lc,
         ReplacesAll(w, tk, dk, e), ReplacesAll(w, tk, dk, f), ReplacesAll(w, tk, dk, g),
         FollowersAll(w, R.retrieved, e, lc), FollowersAll(w, R.conflicts, g, lc),
         SavedEmit(w, lc, R.saved, f), DOMAIN g \cap (DOMAIN e \cup DOMAIN f) = {},
         NEW k \in DOMAIN w.server, w.server[k].rev <= Since(R.token),
         NEW G, G = Put(Put(Put(dk, e), f), g)
  PROVE  Stays(w, w.server[k].content, k, G)
<1> DEFINE c == w.server[k].content
<1>0. /\ \A i \in DOMAIN f : f[i].content = lc[i].content
      /\ DOMAIN f = DOMAIN R.saved /\ \A i \in DOMAIN g : i \notin DOMAIN f /\ i \notin DOMAIN e
  BY DEF SavedEmit
<1>1. /\ DOMAIN G = DOMAIN dk \cup DOMAIN e \cup DOMAIN f \cup DOMAIN g
      /\ k \in DOMAIN g => G[k] = g[k]
      /\ k \in DOMAIN f /\ k \notin DOMAIN g => G[k] = f[k]
      /\ k \in DOMAIN e /\ k \notin DOMAIN f /\ k \notin DOMAIN g => G[k] = e[k]
      /\ k \in DOMAIN dk /\ k \notin DOMAIN e /\ k \notin DOMAIN f /\ k \notin DOMAIN g => G[k] = dk[k]
  BY DEF Put
<1>2. \A D : D \subseteq DOMAIN G /\ Held(w, c, D) => Stays(w, c, k, G)
  BY DEF Held, Stays
<1> HIDE DEF c
<1>3. \/ w.server[k].rev <= Since(tk)
      \/ k \in DOMAIN R.retrieved /\ R.retrieved[k] = w.server[k]
      \/ k \in DOMAIN R.conflicts /\ R.conflicts[k] = w.server[k]
      \/ k \in DOMAIN R.saved /\ R.saved[k] = w.server[k].rev
  BY DEF Complete
<1>4. CASE w.server[k].rev <= Since(tk)
  <2>1. Stays(w, c, k, dk) /\ tk \in Token
    BY <1>4 DEF TokensOK, c
  <2>2. CASE Held(w, c, DOMAIN dk)
    BY <1>1, <1>2, <2>2 DEF c
  <2>3. CASE k \in DOMAIN dk /\ From(w, dk[k].content, c)
    <3>1. ASSUME NEW E, k \in DOMAIN E, ReplacesAll(w, tk, dk, E), DOMAIN E \subseteq DOMAIN G, G[k] = E[k]
          PROVE  Stays(w, c, k, G)
      <4>1. Replaces(w, tk, dk[k].content, k, E)
        BY <2>3, <3>1 DEF ReplacesAll
      <4> SUFFICES ASSUME NEW d, d = dk[k].content PROVE Stays(w, c, k, G)
        OBVIOUS
      <4>2. Stays(w, c, k, E)
        BY <1>4, <2>1, <2>3, <4>1, EmitKeeps
      <4>3. QED BY <3>1, <4>2, StaysMore
    <3>2. CASE k \in DOMAIN g
      BY <1>1, <3>1, <3>2 DEF c
    <3>3. CASE k \in DOMAIN f /\ k \notin DOMAIN g
      BY <1>1, <3>1, <3>3 DEF c
    <3>4. CASE k \in DOMAIN e /\ k \notin DOMAIN f /\ k \notin DOMAIN g
      BY <1>1, <3>1, <3>4 DEF c
    <3>5. CASE k \notin DOMAIN e /\ k \notin DOMAIN f /\ k \notin DOMAIN g
      BY <1>1, <2>3, <3>5 DEF Stays, c
    <3>6. QED BY <3>2, <3>3, <3>4, <3>5
  <2>4. QED BY <2>1, <2>2, <2>3 DEF Stays, c
<1>5. CASE k \in DOMAIN R.retrieved /\ R.retrieved[k] = w.server[k]
  <2>1. k \in DOMAIN e /\ k \notin DOMAIN g /\ (From(w, e[k].content, c) \/ Held(w, c, DOMAIN lc \cup DOMAIN e))
    BY <1>0, <1>5 DEF FollowersAll, Follower, c
  <2>2. CASE Held(w, c, DOMAIN lc \cup DOMAIN e)
    BY <1>1, <1>2, <2>2 DEF c
  <2>3. CASE k \in DOMAIN f
    <3>1. From(w, lc[k].content, c) \/ Held(w, c, DOMAIN lc)
      BY <1>0, <1>5, <2>3 DEF SavedOK, c
    <3>2. G[k].content = lc[k].content /\ k \in DOMAIN G
      BY <1>0, <1>1, <2>1, <2>3
    <3>3. CASE Held(w, c, DOMAIN lc)
      BY <1>1, <1>2, <3>3 DEF c
    <3>4. CASE From(w, lc[k].content, c)
      BY <3>2, <3>4 DEF Stays, c
    <3>5. QED BY <3>1, <3>3, <3>4
  <2>4. CASE From(w, e[k].content, c) /\ k \notin DOMAIN f
    BY <1>1, <2>1, <2>4 DEF Stays, c
  <2>5. QED BY <2>1, <2>2, <2>3, <2>4
<1>6. CASE k \in DOMAIN R.conflicts /\ R.conflicts[k] = w.server[k]
  <2>1. k \in DOMAIN g /\ (From(w, g[k].content, c) \/ Held(w, c, DOMAIN lc \cup DOMAIN g))
    BY <1>0, <1>6 DEF FollowersAll, Follower, c
  <2>2. CASE Held(w, c, DOMAIN lc \cup DOMAIN g)
    BY <1>1, <1>2, <2>2 DEF c
  <2>3. CASE From(w, g[k].content, c)
    BY <1>1, <2>1, <2>3 DEF Stays, c
  <2>4. QED BY <2>1, <2>2, <2>3
<1>7. CASE k \in DOMAIN R.saved /\ R.saved[k] = w.server[k].rev
  <2>1. From(w, lc[k].content, c) /\ k \in DOMAIN f /\ k \notin DOMAIN g
    BY <1>0, <1>7 DEF SavedOK, c
  <2>2. G[k].content = lc[k].content /\ k \in DOMAIN G
    BY <1>0, <1>1, <2>1
  <2>3. QED BY <2>1, <2>2 DEF Stays, c
<1>8. QED BY <1>3, <1>4, <1>5, <1>6, <1>7

LEMMA DrawnIsIndexed ==
  ASSUME NEW m \in Nat, NEW E, Drawn(E, m), IsMap(E, Payload), NEW n \in {m, m + 1},
         n = m => \A i \in DOMAIN E : ~E[i].dirty
  PROVE  Indexed(E, n)
<1> SUFFICES ASSUME NEW i \in DOMAIN E
             PROVE  /\ E[i].dirtyIndex <= n /\ E[i].globalDirtyIndexAtLastSync <= n
                    /\ ~E[i].dirty => E[i].dirtyIndex = 0
  BY DEF Indexed
<1>1. E[i].globalDirtyIndexAtLastSync \in Nat
  BY DEF IsMap, Payload
<1>2. /\ E[i].globalDirtyIndexAtLastSync <= m
      /\ E[i].dirty => E[i].dirtyIndex = m + 1
      /\ ~E[i].dirty => E[i].dirtyIndex = 0
  BY DEF Drawn
<1>3. CASE E[i].dirty
  BY <1>1, <1>2, <1>3
<1>4. CASE ~E[i].dirty
  BY <1>1, <1>2, <1>4
<1>5. QED BY <1>3, <1>4

(* What a reply says of the items it is about.                             *)
Replied(w, R, sent, lc, tk) ==
  /\ Sent(w, R.retrieved) /\ Sent(w, R.conflicts)
  /\ DOMAIN R.conflicts \cup DOMAIN R.saved \subseteq sent
  /\ DOMAIN R.conflicts \cap (DOMAIN R.saved \cup DOMAIN R.retrieved) = {}
  /\ SavedOK(w, R, lc, tk) /\ Complete(w, R, tk)

(* Some index n is drawn, unless nothing in the emits is dirty.            *)
Draws(n, e, f, g) ==
  /\ n \in {dirtyCount, dirtyCount + 1}
  /\ n = dirtyCount => \A E \in {e, f, g} : \A i \in DOMAIN E : ~E[i].dirty

(* K merges M, and makes the copies F; E merges C, and makes the copies H. *)
Copying(w, lc, M, K, F, C, E, H) ==
  /\ DOMAIN K = DOMAIN M \cup F /\ DOMAIN E = DOMAIN C \cup H /\ F \cap H = {}
  /\ DOMAIN M \cup DOMAIN C \subseteq DOMAIN lc
  /\ \A j \in F \cup H : j \notin DOMAIN lc /\ j \notin DOMAIN w.server

(* The deltas, put together, are emits in order.                           *)
LEMMA DeltasFollow ==
  ASSUME dirtyCount \in Nat, NEW w, LineageOK(w), NEW copy, FamilyOK(w, copy), ServerOK(w),
         NEW lc, Place(w, lc, DOMAIN lc), NEW dk, Follows(w, dk, lc),
         NEW tk, NEW stored, TokensOK(w, dk, tk, stored), NEW R, NEW sent, Replied(w, R, sent, lc, tk), NEW S,
         NEW T, T = Conflicting(S, R.retrieved, sent), NEW M, M = Pick(R.retrieved, T), DOMAIN S = DOMAIN lc,
         Same(S, lc, DOMAIN M), DOMAIN R.saved \subseteq DOMAIN lc,
         NEW K, Merged(w, lc, M, K),
         NEW e, FirstEmit(w, lc, sent, tk, R.retrieved, T, K, e), NEW f, SavedEmit(w, lc, R.saved, f),
         NEW g, Merged(w, lc, R.conflicts, g), Drawn(g, dirtyCount),
         NEW F, NEW H, Copying(w, lc, M, K, F, R.conflicts, g, H), NEW n, Draws(n, e, f, g)
  PROVE  Ordered(w, e, f, g, lc, dk, tk, sent, n, R.token)
<1>1. /\ Sent(w, R.retrieved) /\ Sent(w, R.conflicts)
      /\ DOMAIN R.conflicts \cup DOMAIN R.saved \subseteq sent
      /\ DOMAIN R.conflicts \cap (DOMAIN R.saved \cup DOMAIN R.retrieved) = {}
      /\ SavedOK(w, R, lc, tk) /\ Complete(w, R, tk)
  BY DEF Replied
<1>3. /\ T \subseteq DOMAIN R.retrieved /\ DOMAIN M = T
      /\ \A i \in T : M[i] = R.retrieved[i]
      /\ \A i \in DOMAIN R.retrieved \cap sent : i \in T
  BY DEF Conflicting, Pick
<1>8. /\ DOMAIN f = DOMAIN R.saved /\ Place(w, f, DOMAIN lc \cup DOMAIN f) /\ Drawn(f, dirtyCount)
      /\ \A i \in DOMAIN R.saved : f[i].content = lc[i].content
  BY DEF SavedEmit
<1>9. tk \in Token
  BY DEF TokensOK
<1>10. /\ DOMAIN e = DOMAIN R.retrieved \cup DOMAIN K /\ DOMAIN K \subseteq DOMAIN e
       /\ Place(w, e, DOMAIN lc \cup DOMAIN e) /\ Drawn(e, dirtyCount)
       /\ Same(e, K, DOMAIN K)
       /\ \A i \in DOMAIN R.retrieved \ T : e[i].content = R.retrieved[i].content /\ ~e[i].dirty
       /\ \A i \in (DOMAIN R.retrieved \ T) \cap DOMAIN lc :
            i \notin sent /\ ~lc[i].dirty /\ lc[i].content \in w.received /\ Since(tk) < w.server[i].rev
  BY DEF FirstEmit
<1>11. DOMAIN dk = DOMAIN lc /\ \A i \in DOMAIN lc : From(w, lc[i].content, dk[i].content)
                                                     /\ (~lc[i].dirty => dk[i].content = lc[i].content)
  BY DEF Follows
<1>12. /\ \A j \in F : j \notin DOMAIN lc /\ j \notin DOMAIN w.server
       /\ \A j \in H : j \notin DOMAIN lc /\ j \notin DOMAIN w.server
       /\ DOMAIN K = DOMAIN M \cup F /\ DOMAIN g = DOMAIN R.conflicts \cup H /\ F \cap H = {}
       /\ \A i \in DOMAIN M : i \in DOMAIN lc /\ S[i] = lc[i]
  BY DEF Same, Copying
<1>13. DOMAIN R.retrieved \subseteq DOMAIN w.server /\ DOMAIN R.saved \subseteq DOMAIN lc
       /\ DOMAIN R.conflicts \subseteq DOMAIN lc /\ \A i \in DOMAIN R.retrieved : R.retrieved[i].content \in w.received
  BY <1>1 DEF Sent, Copying
<1>14. DOMAIN g \cap (DOMAIN e \cup DOMAIN f) = {}
  BY ONLY <1>1, <1>3, <1>8, <1>10, <1>12, <1>13
<1>15. \A i \in DOMAIN M : /\ e[i].content \in {lc[i].content, M[i].content} /\ Replaces(w, tk, dk[i].content, i, e)
                           /\ Follower(w, lc[i].content, i, e, lc) /\ Follower(w, M[i].content, i, e, lc)
  BY ONLY <1>10, MergedKeeps, LineageOK(w), Follows(w, dk, lc), Merged(w, lc, M, K)
<1>16. \A i \in DOMAIN R.conflicts : /\ Replaces(w, tk, dk[i].content, i, g)
                                     /\ Follower(w, lc[i].content, i, g, lc)
                                     /\ Follower(w, R.conflicts[i].content, i, g, lc)
  <2>1. Same(g, g, DOMAIN g)
    BY DEF Same
  <2> SUFFICES ASSUME NEW C, C = R.conflicts, NEW i \in DOMAIN C
               PROVE  /\ Replaces(w, tk, dk[i].content, i, g)
                      /\ Follower(w, lc[i].content, i, g, lc) /\ Follower(w, C[i].content, i, g, lc)
    OBVIOUS
  <2>2. QED BY ONLY <2>1, MergedKeeps, LineageOK(w), Follows(w, dk, lc), Merged(w, lc, R.conflicts, g), C = R.conflicts,
                    i \in DOMAIN C
<1>17. \A i \in DOMAIN f : /\ Replaces(w, tk, dk[i].content, i, f) /\ Follower(w, lc[i].content, i, f, lc)
                           /\ Stays(w, lc[i].content, i, f)
  <2> SUFFICES ASSUME NEW i \in DOMAIN f
               PROVE  /\ Replaces(w, tk, dk[i].content, i, f) /\ Follower(w, lc[i].content, i, f, lc)
                      /\ Stays(w, lc[i].content, i, f)
    OBVIOUS
  <2>1. i \in DOMAIN lc /\ f[i].content = lc[i].content
    BY <1>8, <1>13
  <2>2. From(w, lc[i].content, lc[i].content)
    BY <2>1, FromItself DEF Place
  <2>3. QED BY <1>11, <2>1, <2>2 DEF Replaces, Stays, Follower
<1>18. \A i \in DOMAIN R.retrieved \ T : Follower(w, R.retrieved[i].content, i, e, lc)
  BY <1>10, <1>13 DEF Follower, ServerOK, LineageOK
<1>19. ReplacesAll(w, tk, dk, e)
  <2> SUFFICES ASSUME NEW i \in DOMAIN e, i \in DOMAIN lc PROVE Replaces(w, tk, dk[i].content, i, e)
    BY <1>11 DEF ReplacesAll
  <2>1. i \in DOMAIN M \/ i \in DOMAIN R.retrieved \ T
    BY ONLY <1>3, <1>10, <1>12, i \in DOMAIN e, i \in DOMAIN lc
  <2>2. CASE i \in DOMAIN R.retrieved \ T
    BY <1>10, <1>11, <2>2 DEF Replaces
  <2>3. QED BY <1>15, <2>1, <2>2
<1>20. ReplacesAll(w, tk, dk, g) /\ ReplacesAll(w, tk, dk, f)
  BY <1>11, <1>12, <1>16, <1>17 DEF ReplacesAll
<1>21. EmitOK(w, e, dk, tk, n) /\ EmitOK(w, f, dk, tk, n) /\ EmitOK(w, g, dk, tk, n)
  <2>1. ASSUME NEW E \in {e, f, g}, Drawn(E, dirtyCount), Place(w, E, DOMAIN lc \cup DOMAIN E),
               ReplacesAll(w, tk, dk, E)
        PROVE  EmitOK(w, E, dk, tk, n)
    <3>1. IsMap(E, Payload) /\ (n = dirtyCount => \A i \in DOMAIN E : ~E[i].dirty)
      BY <2>1 DEF Place, Draws
    <3>2. Indexed(E, n)
      BY <2>1, <3>1, DrawnIsIndexed DEF Draws
    <3>3. QED BY <1>11, <2>1, <3>2 DEF EmitOK, ReplacesAll
  <2>2. Place(w, g, DOMAIN lc \cup DOMAIN g)
    BY DEF Merged
  <2>3. QED BY <1>8, <1>10, <1>19, <1>20, <2>1, <2>2
<1>22. FirstOK(w, e, lc, sent)
  <2> SUFFICES ASSUME NEW i \in DOMAIN e, i \in DOMAIN lc
               PROVE  \/ (i \in sent \/ lc[i].dirty) /\ Follower(w, lc[i].content, i, e, lc)
                      \/ i \notin sent /\ ~e[i].dirty /\ lc[i].content \in w.received
    BY DEF FirstOK
  <2>1. i \in DOMAIN M \/ i \in DOMAIN R.retrieved \ T
    BY ONLY <1>3, <1>10, <1>12, i \in DOMAIN e, i \in DOMAIN lc
  <2>2. CASE i \in DOMAIN M
    <3>1. i \in sent \/ lc[i].dirty
      BY <1>3, <1>12, <2>2 DEF Conflicting
    <3>2. QED BY <1>15, <2>2, <3>1
  <2>3. CASE i \in DOMAIN R.retrieved \ T
    BY ONLY <1>10, <2>3, i \in DOMAIN lc
  <2>4. QED BY <2>1, <2>2, <2>3
<1>23. LaterOK(w, f, lc, sent) /\ LaterOK(w, g, lc, sent)
  BY <1>1, <1>8, <1>12, <1>16, <1>17 DEF LaterOK
<1>24. PairOK(w, e, f, lc, tk)
  <2> SUFFICES ASSUME NEW i \in DOMAIN e, i \in DOMAIN f
               PROVE  /\ i \in DOMAIN lc /\ Replaces(w, tk, e[i].content, i, f)
                      /\ Follower(w, e[i].content, i, f, lc)
    BY DEF PairOK
  <2>1. i \in DOMAIN R.saved /\ i \in DOMAIN lc /\ i \in sent
    BY <1>1, <1>8, <1>13
  <2>2. i \in DOMAIN M /\ i \in DOMAIN R.retrieved /\ M[i] = R.retrieved[i]
    BY ONLY <1>3, <1>10, <1>12, <2>1, i \in DOMAIN e
  <2>3. e[i].content = lc[i].content \/ e[i].content = R.retrieved[i].content
    BY ONLY <1>15, <2>2
  <2>4. CASE e[i].content = lc[i].content
    BY <1>17, <2>1, <2>4 DEF Replaces
  <2>5. CASE e[i].content = R.retrieved[i].content
    <3>1. R.retrieved[i].content \in w.received /\ Since(tk) < R.saved[i] /\ R.saved[i] <= w.server[i].rev
          /\ R.saved[i] \in Nat /\ i \in DOMAIN w.server
      BY <1>1, <1>13, <2>1, <2>2 DEF SavedOK
    <3>2. w.server[i].rev \in Nat /\ Since(tk) \in Nat
      BY <1>9, <3>1 DEF ServerOK, IsMap, ServerItem, Since, Token
    <3>3. Since(tk) < w.server[i].rev
      BY <3>1, <3>2
    <3>4. From(w, lc[i].content, R.retrieved[i].content) \/ Held(w, R.retrieved[i].content, DOMAIN lc)
      BY <1>1, <2>1, <2>2 DEF SavedOK
    <3>5. Follower(w, e[i].content, i, f, lc)
      <4>1. f[i].content = lc[i].content
        BY <1>8, <2>1
      <4>2. QED BY <2>5, <3>4, <4>1 DEF Follower, Held
    <3>6. QED BY <2>1, <2>5, <3>1, <3>3, <3>5 DEF Replaces
  <2>6. QED BY <2>3, <2>4, <2>5
<1>25. PairOK(w, e, g, lc, tk) /\ PairOK(w, f, g, lc, tk)
  BY <1>14 DEF PairOK
<1>26. FollowersAll(w, R.retrieved, e, lc) /\ FollowersAll(w, R.conflicts, g, lc)
  BY <1>3, <1>15, <1>16, <1>18 DEF FollowersAll
<1>27. ASSUME NEW k \in DOMAIN w.server, w.server[k].rev <= Since(R.token)
       PROVE  Stays(w, w.server[k].content, k, Put(Put(Put(dk, e), f), g))
  <2>1. /\ DOMAIN R.retrieved \subseteq DOMAIN e /\ DOMAIN R.conflicts \subseteq DOMAIN g
        /\ DOMAIN dk = DOMAIN lc
    BY <1>10, <1>11, <1>12
  <2> SUFFICES ASSUME NEW G, G = Put(Put(Put(dk, e), f), g) PROVE Stays(w, w.server[k].content, k, G)
    OBVIOUS
  <2>2. QED
    BY ONLY <1>1, <1>13, <1>14, <1>19, <1>20, <1>26, <1>27, <2>1, DeltasComplete, LineageOK(w), ServerOK(w),
            TokensOK(w, dk, tk, stored), SavedEmit(w, lc, R.saved, f), G = Put(Put(Put(dk, e), f), g),
            k \in DOMAIN w.server
<1>28. QED BY <1>21, <1>22, <1>23, <1>24, <1>25, <1>27 DEF Ordered

LEMMA DeltasAreOrdered ==
  ASSUME dirtyCount \in Nat, NEW w, LineageOK(w), NEW copy, FamilyOK(w, copy), ServerOK(w),
         NEW lc, Place(w, lc, DOMAIN lc), Indexed(lc, dirtyCount), NEW dk, Follows(w, dk, lc),
         NEW tk, NEW stored, TokensOK(w, dk, tk, stored), NEW q, ReplyOK(w, q, lc, tk), NEW R, R = q.reply,
         q.sent \subseteq DOMAIN lc, NEW S, DOMAIN S = DOMAIN lc, Same(S, lc, Affected(R) \cap DOMAIN lc),
         NEW T, T = Conflicting(S, R.retrieved, q.sent), NEW M, M = Pick(R.retrieved, T),
         NEW N, N = Pick(R.retrieved, DOMAIN R.retrieved \ T), NEW strategy, NEW uuid,
         Merging(w, lc, M, strategy, uuid), Merging(w, lc, R.conflicts, strategy, uuid),
         Fresh(M, strategy, uuid) \cap Fresh(R.conflicts, strategy, uuid) = {},
         NEW K, K = ConflictDelta(S, M, strategy, uuid), NEW e, e = Put(RetrievedDelta(S, N), K),
         NEW f, f = SavedDelta(S, R.saved), NEW g, g = ConflictDelta(S, R.conflicts, strategy, uuid),
         NEW n, Draws(n, e, f, g)
  PROVE  Ordered(w, e, f, g, lc, dk, tk, q.sent, n, R.token)
<1>1. /\ Sent(w, R.retrieved) /\ Sent(w, R.conflicts) /\ After(tk, R.retrieved)
      /\ DOMAIN R.conflicts \cup DOMAIN R.saved \subseteq q.sent
      /\ DOMAIN R.conflicts \cap (DOMAIN R.saved \cup DOMAIN R.retrieved) = {}
      /\ SavedOK(w, R, lc, tk) /\ TokenOK(w, R.token, tk) /\ Complete(w, R, tk)
  BY DEF ReplyOK, After
<1>2. /\ Same(S, lc, DOMAIN R.retrieved \cap DOMAIN lc) /\ Same(S, lc, DOMAIN R.saved)
      /\ Same(S, lc, DOMAIN R.conflicts) /\ DOMAIN R.saved \subseteq DOMAIN lc
  BY <1>1 DEF Affected, Same
<1>3. /\ T \subseteq DOMAIN R.retrieved /\ DOMAIN M = T
      /\ \A i \in T : M[i] = R.retrieved[i]
      /\ \A i \in DOMAIN R.retrieved \cap q.sent : i \in T
  BY DEF Conflicting, Pick
<1>4. Same(S, lc, DOMAIN M) /\ DOMAIN M \subseteq DOMAIN lc
  BY <1>2, <1>3 DEF Merging, Same
<1>5. Sent(w, M)
  BY <1>1, <1>3 DEF Sent, IsMap, Within
<1>6. ConflictEmit(w, lc, M, strategy, uuid, K)
  BY ONLY <1>4, <1>5, ConflictsMerge, dirtyCount \in Nat, LineageOK(w), FamilyOK(w, copy), ServerOK(w),
          Place(w, lc, DOMAIN lc), Indexed(lc, dirtyCount), Merging(w, lc, M, strategy, uuid),
          K = ConflictDelta(S, M, strategy, uuid)
<1>7. ConflictEmit(w, lc, R.conflicts, strategy, uuid, g)
  BY ONLY <1>1, <1>2, ConflictsMerge, dirtyCount \in Nat, LineageOK(w), FamilyOK(w, copy), ServerOK(w),
          Place(w, lc, DOMAIN lc), Indexed(lc, dirtyCount), Merging(w, lc, R.conflicts, strategy, uuid),
          g = ConflictDelta(S, R.conflicts, strategy, uuid)
<1>8. SavedEmit(w, lc, R.saved, f)
  BY ONLY <1>1, <1>2, SavedAre, dirtyCount \in Nat, ServerOK(w), Place(w, lc, DOMAIN lc), Indexed(lc, dirtyCount),
          f = SavedDelta(S, R.saved)
<1>9. tk \in Token
  BY DEF TokensOK
<1>10. FirstEmit(w, lc, q.sent, tk, R.retrieved, T, K, e)
  <2> SUFFICES ASSUME NEW Q, Q = RetrievedDelta(S, N), NEW r, r = R.retrieved, NEW s, s = q.sent
               PROVE  FirstEmit(w, lc, s, tk, r, T, K, e)
    OBVIOUS
  <2>1. /\ Sent(w, r) /\ After(tk, r) /\ Same(S, lc, DOMAIN r \cap DOMAIN lc) /\ Merged(w, lc, M, K)
        /\ Drawn(K, dirtyCount)
        /\ T = Conflicting(S, r, s) /\ M = Pick(r, T) /\ N = Pick(r, DOMAIN r \ T) /\ e = Put(Q, K)
    BY <1>1, <1>2, <1>6 DEF ConflictEmit
  <2>2. QED
    BY ONLY <1>9, <2>1, RetrievedAreFirst, dirtyCount \in Nat, LineageOK(w), ServerOK(w), Place(w, lc, DOMAIN lc),
            Indexed(lc, dirtyCount), DOMAIN S = DOMAIN lc, Q = RetrievedDelta(S, N)
<1>11. Replied(w, R, q.sent, lc, tk)
  BY <1>1 DEF Replied
<1>12. \A j \in Fresh(M, strategy, uuid) \cup Fresh(R.conflicts, strategy, uuid) :
         j \notin DOMAIN lc /\ j \notin DOMAIN w.server
  BY DEF Merging, Fresh
<1>13. DOMAIN R.conflicts \subseteq DOMAIN lc
  BY <1>1
<1>14. QED
  <2> SUFFICES ASSUME NEW s, s = q.sent PROVE Ordered(w, e, f, g, lc, dk, tk, s, n, R.token)
    OBVIOUS
  <2> DEFINE F == Fresh(M, strategy, uuid)
             H == Fresh(R.conflicts, strategy, uuid)
  <2>1. /\ Replied(w, R, s, lc, tk) /\ T = Conflicting(S, R.retrieved, s) /\ Same(S, lc, DOMAIN M)
        /\ FirstEmit(w, lc, s, tk, R.retrieved, T, K, e)
    BY <1>4, <1>10, <1>11
  <2>2. Copying(w, lc, M, K, F, R.conflicts, g, H)
    BY <1>4, <1>6, <1>7, <1>12, <1>13 DEF Copying, ConflictEmit
  <2>3. Merged(w, lc, M, K) /\ Merged(w, lc, R.conflicts, g) /\ Drawn(g, dirtyCount)
    BY <1>6, <1>7 DEF ConflictEmit
  <2> HIDE DEF F, H
  <2>4. QED
    BY ONLY <1>2, <1>8, <2>1, <2>2, <2>3, DeltasFollow, dirtyCount \in Nat, LineageOK(w), FamilyOK(w, copy),
            ServerOK(w), Place(w, lc, DOMAIN lc), Follows(w, dk, lc), TokensOK(w, dk, tk, stored),
            M = Pick(R.retrieved, T), DOMAIN S = DOMAIN lc, Draws(n, e, f, g)

-----------------------------------------------------------------------------
(* The emits of a resolution, in a sequence without the empty ones.        *)

LEMMA Concatenations ==
  ASSUME NEW a, NEW b, NEW c
  PROVE  /\ <<>> \o <<>> = <<>> /\ <<a>> \o <<>> = <<a>> /\ <<>> \o <<a>> = <<a>>
         /\ <<a>> \o <<b>> = <<a, b>> /\ <<a, b>> \o <<>> = <<a, b>> /\ <<a, b>> \o <<c>> = <<a, b, c>>
<1>1. \A S : \A s \in Seq(S) : s \o <<>> = s /\ <<>> \o s = s
  OBVIOUS
<1>2. <<>> \in Seq({a, b}) /\ <<a>> \in Seq({a, b}) /\ <<a, b>> \in Seq({a, b})
  OBVIOUS
<1>3. <<a>> \o <<b>> = <<a, b>>
  <2> SUFFICES ASSUME NEW s, s = <<a>> \o <<b>> PROVE s = <<a, b>>
    OBVIOUS
  <2>1. <<a>> \in Seq({a, b}) /\ <<b>> \in Seq({a, b})
    OBVIOUS
  <2>2. s \in Seq({a, b}) /\ Len(s) = 2
    BY <2>1
  <2>3. s[1] = a /\ s[2] = b
    BY <2>1
  <2>4. QED BY ONLY <2>2, <2>3
<1>4. <<a, b>> \o <<c>> = <<a, b, c>>
  <2> SUFFICES ASSUME NEW s, s = <<a, b>> \o <<c>> PROVE s = <<a, b, c>>
    OBVIOUS
  <2>1. <<a, b>> \in Seq({a, b, c}) /\ <<c>> \in Seq({a, b, c})
    OBVIOUS
  <2>2. s \in Seq({a, b, c}) /\ Len(s) = 3
    BY <2>1
  <2>3. s[1] = a /\ s[2] = b /\ s[3] = c
    BY <2>1
  <2>4. QED BY ONLY <2>2, <2>3
<1>5. QED BY <1>1, <1>2, <1>3, <1>4

Queued(w, es, lc, dk, tk, sent, n) ==
  /\ Len(es) \in 1..3 /\ es = [k \in 1..Len(es) |-> es[k]]
  /\ \A k \in 1..Len(es) : EmitOK(w, es[k], dk, tk, n)
  /\ \A k \in 2..Len(es) : LaterOK(w, es[k], lc, sent)
  /\ \A k \in 1..Len(es) : \A m \in 1..Len(es) : m < k => PairOK(w, es[m], es[k], lc, tk)
  /\ FirstOK(w, es[1], lc, sent)

LEMMA QueueOfOne ==
  ASSUME NEW w, NEW lc, NEW dk, NEW tk, NEW sent, NEW n, NEW a, EmitOK(w, a, dk, tk, n), FirstOK(w, a, lc, sent),
         NEW es, es = <<a>>
  PROVE  Queued(w, es, lc, dk, tk, sent, n) /\ Nth(es, 1) = a /\ Nth(es, 2) = NoItems /\ Nth(es, 3) = NoItems
<1>1. Len(es) = 1 /\ es[1] = a /\ es = [k \in 1..1 |-> es[k]] /\ \A k \in 1..1 : k = 1
  OBVIOUS
<1>2. \A k \in 2..1 : FALSE
  OBVIOUS
<1>3. QED BY <1>1, <1>2 DEF Queued, Nth

LEMMA QueueOfTwo ==
  ASSUME NEW w, NEW lc, NEW dk, NEW tk, NEW sent, NEW n, NEW a, NEW b, EmitOK(w, a, dk, tk, n),
         EmitOK(w, b, dk, tk, n), FirstOK(w, a, lc, sent), LaterOK(w, b, lc, sent), PairOK(w, a, b, lc, tk),
         NEW es, es = <<a, b>>
  PROVE  Queued(w, es, lc, dk, tk, sent, n) /\ Nth(es, 1) = a /\ Nth(es, 2) = b /\ Nth(es, 3) = NoItems
<1>1. Len(es) = 2 /\ es[1] = a /\ es[2] = b /\ es = [k \in 1..2 |-> es[k]] /\ \A k \in 1..2 : k = 1 \/ k = 2
  OBVIOUS
<1>2. \A k \in 2..2 : k = 2
  OBVIOUS
<1>3. \A k \in 1..2 : \A m \in 1..2 : m < k => m = 1 /\ k = 2
  OBVIOUS
<1>4. QED BY <1>1, <1>2, <1>3 DEF Queued, Nth

LEMMA QueueOfThree ==
  ASSUME NEW w, NEW lc, NEW dk, NEW tk, NEW sent, NEW n, NEW a, NEW b, NEW c, EmitOK(w, a, dk, tk, n),
         EmitOK(w, b, dk, tk, n), EmitOK(w, c, dk, tk, n), FirstOK(w, a, lc, sent), LaterOK(w, b, lc, sent),
         LaterOK(w, c, lc, sent), PairOK(w, a, b, lc, tk), PairOK(w, a, c, lc, tk), PairOK(w, b, c, lc, tk),
         NEW es, es = <<a, b, c>>
  PROVE  Queued(w, es, lc, dk, tk, sent, n) /\ Nth(es, 1) = a /\ Nth(es, 2) = b /\ Nth(es, 3) = c
<1>1. /\ Len(es) = 3 /\ es[1] = a /\ es[2] = b /\ es[3] = c /\ es = [k \in 1..3 |-> es[k]]
      /\ \A k \in 1..3 : k = 1 \/ k = 2 \/ k = 3
  OBVIOUS
<1>2. \A k \in 2..3 : k = 2 \/ k = 3
  OBVIOUS
<1>3. \A k \in 1..3 : \A m \in 1..3 : m < k => (m = 1 /\ k = 2) \/ (m = 1 /\ k = 3) \/ (m = 2 /\ k = 3)
  OBVIOUS
<1>4. QED BY <1>1, <1>2, <1>3 DEF Queued, Nth

(* F and G hold the same.                                                  *)
Alike(F, G) == DOMAIN F = DOMAIN G /\ \A i \in DOMAIN F : F[i] = G[i]

Layered(P, dk, a, b, c) ==
  /\ DOMAIN P = DOMAIN dk \cup DOMAIN a \cup DOMAIN b \cup DOMAIN c
  /\ \A i : i \in DOMAIN c => P[i] = c[i]
  /\ \A i : i \in DOMAIN b /\ i \notin DOMAIN c => P[i] = b[i]
  /\ \A i : i \in DOMAIN a /\ i \notin DOMAIN b /\ i \notin DOMAIN c => P[i] = a[i]
  /\ \A i : i \in DOMAIN dk /\ i \notin DOMAIN a /\ i \notin DOMAIN b /\ i \notin DOMAIN c => P[i] = dk[i]

LEMMA Layers ==
  ASSUME NEW dk, NEW a, NEW b, NEW c, NEW P, P = Put(Put(Put(dk, a), b), c)
  PROVE  Layered(P, dk, a, b, c)
BY DEF Put, Layered

(* Empty emits make no difference, wherever they are.                      *)
LEMMA AlikeLayers ==
  ASSUME NEW dk, NEW e, NEW f, NEW g, NEW a, NEW b, NEW c,
         NEW F, F = Put(Put(Put(dk, a), b), c), NEW G, G = Put(Put(Put(dk, e), f), g),
         \/ a = e /\ DOMAIN f = {} /\ DOMAIN b = {} /\ c = g
         \/ DOMAIN e = {} /\ a = f /\ b = g /\ DOMAIN c = {}
         \/ DOMAIN f = {} /\ a = e /\ b = g /\ DOMAIN c = {}
         \/ DOMAIN e = {} /\ a = f /\ DOMAIN b = {} /\ c = g
         \/ DOMAIN e = {} /\ DOMAIN f = {} /\ a = g /\ DOMAIN b = {} /\ DOMAIN c = {}
         \/ DOMAIN g = {} /\ DOMAIN c = {} /\ a = e /\ b = f
         \/ DOMAIN e = {} /\ DOMAIN a = {} /\ DOMAIN f = {} /\ DOMAIN b = {} /\ DOMAIN g = {} /\ DOMAIN c = {}
         \/ a = e /\ DOMAIN f = {} /\ DOMAIN b = {} /\ DOMAIN g = {} /\ DOMAIN c = {}
         \/ DOMAIN e = {} /\ a = f /\ DOMAIN b = {} /\ DOMAIN g = {} /\ DOMAIN c = {}
  PROVE  Alike(F, G)
<1>1. Layered(F, dk, a, b, c) /\ Layered(G, dk, e, f, g)
  BY Layers
<1>2. DOMAIN F = DOMAIN G
  BY <1>1 DEF Layered
<1>3. ASSUME NEW i \in DOMAIN F PROVE F[i] = G[i]
  BY <1>1, <1>2 DEF Layered
<1>4. QED BY <1>2, <1>3 DEF Alike

LEMMA EmitsAreQueued ==
  ASSUME NEW w, NEW e, NEW f, NEW g, NEW lc, NEW dk, NEW tk, NEW sent, NEW n, NEW token,
         Ordered(w, e, f, g, lc, dk, tk, sent, n, token),
         NEW es, es = UnlessEmpty(e) \o UnlessEmpty(f) \o UnlessEmpty(g)
  PROVE  /\ es = <<>> \/ Queued(w, es, lc, dk, tk, sent, n)
         /\ FinalOK(w, es, dk, token)
<1>1. /\ UnlessEmpty(e) = IF DOMAIN e = {} THEN <<>> ELSE <<e>>
      /\ UnlessEmpty(f) = IF DOMAIN f = {} THEN <<>> ELSE <<f>>
      /\ UnlessEmpty(g) = IF DOMAIN g = {} THEN <<>> ELSE <<g>>
  BY DEF UnlessEmpty
<1>2. /\ EmitOK(w, e, dk, tk, n) /\ EmitOK(w, f, dk, tk, n) /\ EmitOK(w, g, dk, tk, n)
      /\ FirstOK(w, e, lc, sent) /\ LaterOK(w, f, lc, sent) /\ LaterOK(w, g, lc, sent)
      /\ PairOK(w, e, f, lc, tk) /\ PairOK(w, e, g, lc, tk) /\ PairOK(w, f, g, lc, tk)
  BY DEF Ordered
<1>3. FirstOK(w, f, lc, sent) /\ FirstOK(w, g, lc, sent)
  BY <1>2, LaterIsFirst
<1> DEFINE G == Put(Put(Put(dk, e), f), g)
           F == Final(dk, es)
<1>4. DOMAIN NoItems = {}
  BY DEF NoItems
<1>5. (es = <<>> \/ Queued(w, es, lc, dk, tk, sent, n)) /\ Alike(F, G)
  <2>1. F = Put(Put(Put(dk, Nth(es, 1)), Nth(es, 2)), Nth(es, 3))
    BY DEF Final
  <2>2. CASE DOMAIN e = {} /\ DOMAIN f = {} /\ DOMAIN g = {}
    <3>1. es = <<>>
      BY <1>1, <2>2, Concatenations
    <3>2. Nth(es, 1) = NoItems /\ Nth(es, 2) = NoItems /\ Nth(es, 3) = NoItems
      BY <3>1 DEF Nth
    <3>3. Alike(F, G)
      BY <1>4, <2>1, <2>2, <3>2, AlikeLayers
    <3>4. QED BY <3>1, <3>3
  <2>3. CASE DOMAIN e # {} /\ DOMAIN f = {} /\ DOMAIN g = {}
    <3>1. es = <<e>>
      BY <1>1, <2>3, Concatenations
    <3>2. Queued(w, es, lc, dk, tk, sent, n) /\ Nth(es, 1) = e /\ Nth(es, 2) = NoItems /\ Nth(es, 3) = NoItems
      BY <1>2, <3>1, QueueOfOne
    <3>3. Alike(F, G)
      BY <1>4, <2>1, <2>3, <3>2, AlikeLayers
    <3>4. QED BY <3>2, <3>3
  <2>4. CASE DOMAIN e = {} /\ DOMAIN f # {} /\ DOMAIN g = {}
    <3>1. es = <<f>>
      BY <1>1, <2>4, Concatenations
    <3>2. Queued(w, es, lc, dk, tk, sent, n) /\ Nth(es, 1) = f /\ Nth(es, 2) = NoItems /\ Nth(es, 3) = NoItems
      BY <1>2, <1>3, <3>1, QueueOfOne
    <3>3. Alike(F, G)
      BY <1>4, <2>1, <2>4, <3>2, AlikeLayers
    <3>4. QED BY <3>2, <3>3
  <2>5. CASE DOMAIN e = {} /\ DOMAIN f = {} /\ DOMAIN g # {}
    <3>1. es = <<g>>
      BY <1>1, <2>5, Concatenations
    <3>2. Queued(w, es, lc, dk, tk, sent, n) /\ Nth(es, 1) = g /\ Nth(es, 2) = NoItems /\ Nth(es, 3) = NoItems
      BY <1>2, <1>3, <3>1, QueueOfOne
    <3>3. Alike(F, G)
      BY <1>4, <2>1, <2>5, <3>2, AlikeLayers
    <3>4. QED BY <3>2, <3>3
  <2>6. CASE DOMAIN e # {} /\ DOMAIN f # {} /\ DOMAIN g = {}
    <3>1. es = <<e, f>>
      BY <1>1, <2>6, Concatenations
    <3>2. Queued(w, es, lc, dk, tk, sent, n) /\ Nth(es, 1) = e /\ Nth(es, 2) = f /\ Nth(es, 3) = NoItems
      BY <1>2, <3>1, QueueOfTwo
    <3>3. Alike(F, G)
      BY <1>4, <2>1, <2>6, <3>2, AlikeLayers
    <3>4. QED BY <3>2, <3>3
  <2>7. CASE DOMAIN e # {} /\ DOMAIN f = {} /\ DOMAIN g # {}
    <3>1. es = <<e, g>>
      BY <1>1, <2>7, Concatenations
    <3>2. Queued(w, es, lc, dk, tk, sent, n) /\ Nth(es, 1) = e /\ Nth(es, 2) = g /\ Nth(es, 3) = NoItems
      BY <1>2, <3>1, QueueOfTwo
    <3>3. Alike(F, G)
      BY <1>4, <2>1, <2>7, <3>2, AlikeLayers
    <3>4. QED BY <3>2, <3>3
  <2>8. CASE DOMAIN e = {} /\ DOMAIN f # {} /\ DOMAIN g # {}
    <3>1. es = <<f, g>>
      BY <1>1, <2>8, Concatenations
    <3>2. Queued(w, es, lc, dk, tk, sent, n) /\ Nth(es, 1) = f /\ Nth(es, 2) = g /\ Nth(es, 3) = NoItems
      BY <1>2, <1>3, <3>1, QueueOfTwo
    <3>3. Alike(F, G)
      BY <1>4, <2>1, <2>8, <3>2, AlikeLayers
    <3>4. QED BY <3>2, <3>3
  <2>9. CASE DOMAIN e # {} /\ DOMAIN f # {} /\ DOMAIN g # {}
    <3>1. es = <<e, f, g>>
      BY <1>1, <2>9, Concatenations
    <3>2. Queued(w, es, lc, dk, tk, sent, n) /\ Nth(es, 1) = e /\ Nth(es, 2) = f /\ Nth(es, 3) = g
      BY <1>2, <3>1, QueueOfThree
    <3>3. Alike(F, G)
      BY <2>1, <3>2 DEF Alike
    <3>4. QED BY <3>2, <3>3
  <2>10. QED BY <2>2, <2>3, <2>4, <2>5, <2>6, <2>7, <2>8, <2>9
<1>6. \A k \in DOMAIN w.server : w.server[k].rev <= Since(token) => Stays(w, w.server[k].content, k, G)
  BY DEF Ordered
<1> HIDE DEF F, G
<1>7. \A c, k : Stays(w, c, k, G) => Stays(w, c, k, F)
  BY <1>5 DEF Alike, Stays
<1>8. FinalOK(w, es, dk, token)
  BY <1>6, <1>7 DEF FinalOK, F
<1>9. QED BY <1>5, <1>8

Holds(es, E) == DOMAIN E = {} \/ \E k \in DOMAIN es : es[k] = E

(* No emit with anything in it is left out.                                *)
LEMMA EmitsHold ==
  ASSUME NEW e, NEW f, NEW g, NEW es, es = UnlessEmpty(e) \o UnlessEmpty(f) \o UnlessEmpty(g)
  PROVE  Holds(es, e) /\ Holds(es, f) /\ Holds(es, g)
<1>1. /\ UnlessEmpty(e) = IF DOMAIN e = {} THEN <<>> ELSE <<e>>
      /\ UnlessEmpty(f) = IF DOMAIN f = {} THEN <<>> ELSE <<f>>
      /\ UnlessEmpty(g) = IF DOMAIN g = {} THEN <<>> ELSE <<g>>
  BY DEF UnlessEmpty
<1>2. \/ DOMAIN e = {} /\ DOMAIN f = {} /\ DOMAIN g = {}
      \/ DOMAIN e = {} /\ DOMAIN f = {} /\ es = <<g>>
      \/ DOMAIN e = {} /\ DOMAIN g = {} /\ es = <<f>>
      \/ DOMAIN f = {} /\ DOMAIN g = {} /\ es = <<e>>
      \/ DOMAIN g = {} /\ es = <<e, f>>
      \/ DOMAIN f = {} /\ es = <<e, g>>
      \/ DOMAIN e = {} /\ es = <<f, g>>
      \/ es = <<e, f, g>>
  BY <1>1, Concatenations
<1>3. \A a : 1 \in DOMAIN <<a>> /\ <<a>>[1] = a
  OBVIOUS
<1>4. \A a, b : /\ 1 \in DOMAIN <<a, b>> /\ <<a, b>>[1] = a
                /\ 2 \in DOMAIN <<a, b>> /\ <<a, b>>[2] = b
  OBVIOUS
<1>5. /\ 1 \in DOMAIN <<e, f, g>> /\ <<e, f, g>>[1] = e
      /\ 2 \in DOMAIN <<e, f, g>> /\ <<e, f, g>>[2] = f
      /\ 3 \in DOMAIN <<e, f, g>> /\ <<e, f, g>>[3] = g
  OBVIOUS
<1>6. QED BY ONLY <1>2, <1>3, <1>4, <1>5 DEF Holds

(* Once the first emit has been applied to the collection.                 *)
LEMMA QueueIsPersisted ==
  ASSUME NEW w, NEW lc, NEW dk, NEW tk, NEW sent, NEW n, NEW es, Queued(w, es, lc, dk, tk, sent, n),
         NEW a, a = es[1], NEW ld, ld = Put(lc, a), NEW q, q.emits = es, q.sent = sent,
         TokenOK(w, q.reply.token, tk), FinalOK(w, es, dk, q.reply.token)
  PROVE  PersistOK(w, q, ld, dk, tk, n)
<1>1. DOMAIN lc \subseteq DOMAIN ld
  BY DEF Put
<1>2. /\ Len(es) \in 1..3 /\ es = [k \in 1..Len(es) |-> es[k]]
      /\ \A k \in 1..Len(es) : EmitOK(w, es[k], dk, tk, n)
      /\ \A k \in 2..Len(es) : LaterOK(w, es[k], lc, sent)
      /\ \A k \in 1..Len(es) : \A m \in 1..Len(es) : m < k => PairOK(w, es[m], es[k], lc, tk)
  BY DEF Queued
<1>3. ASSUME NEW k \in 2..Len(es), NEW g, g = es[k] PROVE LaterOK(w, g, ld, sent)
  <2>1. LaterOK(w, g, lc, sent)
    BY <1>2, <1>3
  <2>2. 1 \in 1..Len(es) /\ k \in 1..Len(es) /\ 1 < k
    BY <1>2
  <2>3. PairOK(w, a, g, lc, tk)
    BY <1>2, <1>3, <2>2
  <2>4. QED BY <2>1, <2>3, LaterRemains
<1>4. ASSUME NEW k \in 1..Len(es), NEW m \in 1..Len(es), m < k, NEW g, g = es[k], NEW f, f = es[m]
      PROVE  PairOK(w, f, g, ld, tk)
  <2>1. PairOK(w, f, g, lc, tk)
    BY <1>2, <1>4
  <2>2. QED BY <1>1, <2>1, PairRemains
<1>5. QED BY <1>2, <1>3, <1>4 DEF PersistOK

LEMMA ResolveApplies ==
  ASSUME Types, NEW p, NEW B, NEW v, v = World(p, B)', WorldOK(World(p, B))', LineageOK(v), FamilyOK(v, copyOf'), ServerOK(v),
         Places(v), Rest(v), Staged(v), Covers(v), sync.pc = "resolve",
         dirtyCount' \in {dirtyCount, dirtyCount + 1}, copyOf' \in [Copies -> Nat], UNCHANGED <<store, remote, ghosts>>,
         NEW es, Queued(v, es, local, disk, tokens, sync.sent, dirtyCount'), FinalOK(v, es, disk, sync.reply.token),
         Emit(Head(es)),
         sync' = [sync EXCEPT !.pc = "persist", !.emits = es, !.reply = [Reply EXCEPT !.token = sync.reply.token],
                              !.snapshot = NoItems, !.history = Idle.history],
         UNCHANGED <<tokens, completedDownloadFirst>>
  PROVE  InvOf(p, B)'
<1> DEFINE a == es[1]
           X == Put(disk, a)
           n == dirtyCount'
<1>1. /\ SyncOK(sync, local, dirtyCount) /\ ReplyOK(v, sync, local, tokens)
  BY DEF Staged
<1>2. TokenOK(v, sync.reply.token, tokens)
  BY <1>1 DEF ReplyOK
<1>3. Head(es) = a /\ 1 \in 1..Len(es)
  <2>1. Len(es) \in 1..3 /\ es = [k \in 1..Len(es) |-> es[k]]
    BY DEF Queued
  <2>2. QED BY <2>1, EmitSequence
<1>4. EmitOK(v, a, disk, tokens, n) /\ FirstOK(v, a, local, sync.sent)
  BY <1>3 DEF Queued
<1>5. /\ DOMAIN sync' = SyncFields /\ sync'.pc = "persist" /\ sync'.emits = es /\ sync'.sent = sync.sent
      /\ sync'.reply.token = sync.reply.token /\ sync'.frozen = sync.frozen /\ sync'.mode = sync.mode
      /\ sync'.captured = sync.captured /\ sync'.snapshot = NoItems /\ sync'.request = sync.request
  <2>1. DOMAIN sync = SyncFields
    BY <1>1 DEF SyncOK
  <2>2. [Reply EXCEPT !.token = sync.reply.token].token = sync.reply.token
    BY DEF Reply
  <2>3. QED BY <2>1, <2>2 DEF SyncFields
<1>6. /\ local' = Put(local, a) /\ previous' = PreviousAfter(local, a, previous)
  BY <1>3 DEF Emit, PreviousAfter
<1>7. /\ LineageOK(v) /\ v.seq \in Nat /\ dirtyCount \in Nat /\ n \in Nat /\ dirtyCount <= n
      /\ Place(v, local, DOMAIN local) /\ Place(v, disk, DOMAIN disk) /\ Follows(v, disk, local)
      /\ PreviousOK(v, local, previous, sync.sent) /\ TokensOK(v, disk, tokens, storedTokens)
      /\ Cover(v, local, forgotten) /\ Cover(v, disk, forgotten \cup unsaved) /\ OrphansOK(v, orphans)
      /\ Indexed(local, dirtyCount)
  BY DEF WorldOK, ServerOK, Places, Rest, Covers, Types, Written
<1>8. Indexed(local, n)
  <2>1. \A i \in DOMAIN local : local[i].dirtyIndex \in Nat /\ local[i].globalDirtyIndexAtLastSync \in Nat
    BY <1>7 DEF Place, IsMap, Payload
  <2> HIDE DEF n
  <2>2. QED BY <1>7, <2>1 DEF Indexed
<1> HIDE DEF a, X, n
<1>9. DOMAIN disk = DOMAIN local
  BY <1>7 DEF Follows
<1>10. Place(v, a, DOMAIN local \cup DOMAIN a) /\ Indexed(a, n)
  BY <1>4, <1>9 DEF EmitOK
<1>11. ContentsAfter(X, disk, a)
  BY DEF Put, ContentsAfter, X
<1>12. /\ Place(v, local', DOMAIN local') /\ Indexed(local', n) /\ Follows(v, X, local')
       /\ PreviousOK(v, local', previous', sync.sent) /\ Cover(v, local', forgotten)
  <2> SUFFICES ASSUME NEW ld, ld = Put(local, a), NEW pd, pd = PreviousAfter(local, a, previous)
               PROVE  /\ Place(v, ld, DOMAIN ld) /\ Indexed(ld, n) /\ Follows(v, X, ld)
                      /\ PreviousOK(v, ld, pd, sync.sent) /\ Cover(v, ld, forgotten)
    BY <1>6
  <2>1. QED BY <1>4, <1>7, <1>8, <1>10, <1>11, ApplyEmit
<1>13. Written(sync', disk') = X
  BY <1>5 DEF Written, X, a, store
<1>14. SyncOK(sync', local', n)
  <2>1. IsMap(NoItems, Payload) /\ sync.frozen <= n /\ sync.sent \subseteq DOMAIN local'
    BY <1>1, <1>6, <1>7, IdleFields DEF SyncOK, IsMap, Put
  <2>2. QED BY <1>1, <1>5, <2>1 DEF SyncOK, Stages
<1>15. PersistOK(v, sync', local', disk, tokens, n)
  <2> SUFFICES ASSUME NEW ld, ld = Put(local, a), NEW q, q.emits = es, q.sent = sync.sent, q.reply.token = sync.reply.token
               PROVE  PersistOK(v, q, ld, disk, tokens, n)
    BY <1>5, <1>6
  <2>1. a = es[1] /\ Queued(v, es, local, disk, tokens, sync.sent, n) /\ TokenOK(v, q.reply.token, tokens)
        /\ FinalOK(v, es, disk, q.reply.token)
    BY <1>2 DEF a, n
  <2>2. QED BY ONLY <2>1, QueueIsPersisted, ld = Put(local, a), q.emits = es, q.sent = sync.sent
<1>16. Types'
  BY <1>7, <1>12 DEF Types, Contents, store, ghosts, n
<1>17. UNCHANGED <<disk, storedTokens, orphans, unsaved, forgotten, tokens>>
  BY DEF store, remote, ghosts
<1>18. QED BY <1>5, <1>7, <1>12, <1>13, <1>14, <1>15, <1>16, <1>17, Assemble DEF n

LEMMA ResolveFinishes ==
  ASSUME Types, NEW p, NEW B, NEW v, v = World(p, B)', WorldOK(World(p, B))', LineageOK(v), FamilyOK(v, copyOf'), ServerOK(v),
         Places(v), Rest(v), Staged(v), Covers(v), sync.pc = "resolve",
         dirtyCount' \in {dirtyCount, dirtyCount + 1}, copyOf' \in [Copies -> Nat], UNCHANGED <<store, remote, ghosts>>,
         FinalOK(v, <<>>, disk, sync.reply.token), FinishPage, UNCHANGED <<local, previous>>
  PROVE  InvOf(p, B)'
<1> DEFINE n == dirtyCount'
           F == Final(disk, <<>>)
<1>1. SyncOK(sync, local, dirtyCount) /\ ReplyOK(v, sync, local, tokens)
  BY DEF Staged
<1>2. TokenOK(v, sync.reply.token, tokens)
  BY <1>1 DEF ReplyOK
<1>3. /\ v.seq \in Nat /\ dirtyCount \in Nat /\ n \in Nat /\ dirtyCount <= n
      /\ Place(v, local, DOMAIN local) /\ Place(v, disk, DOMAIN disk) /\ Follows(v, disk, local)
      /\ PreviousOK(v, local, previous, sync.sent) /\ TokensOK(v, disk, tokens, storedTokens)
      /\ Cover(v, local, forgotten) /\ Cover(v, disk, forgotten \cup unsaved) /\ OrphansOK(v, orphans)
      /\ Indexed(local, dirtyCount)
  BY DEF WorldOK, ServerOK, Places, Rest, Covers, Types, Written
<1>4. Indexed(local, n)
  <2>1. \A i \in DOMAIN local : local[i].dirtyIndex \in Nat /\ local[i].globalDirtyIndexAtLastSync \in Nat
    BY <1>3 DEF Place, IsMap, Payload
  <2> HIDE DEF n
  <2>2. QED BY <1>3, <2>1 DEF Indexed
<1> HIDE DEF n
<1>5. sync.reply.token \in Token /\ sync.sent \subseteq DOMAIN local /\ sync.frozen <= n
      /\ completedDownloadFirst \in BOOLEAN
  BY <1>1, <1>2, <1>3 DEF TokenOK, SyncOK, Types
<1>6. /\ tokens' = sync.reply.token /\ sync'.pc \in {"idle", "waiting"} /\ sync'.sent \subseteq sync.sent
      /\ SyncOK(sync', local, n) /\ completedDownloadFirst' \in BOOLEAN
      /\ sync'.pc = "waiting" => WaitingOK(v, sync', local, tokens')
  BY <1>1, <1>3, <1>5, FinishedPage
<1>7. DOMAIN disk = DOMAIN F /\ \A i \in DOMAIN F : disk[i].content = F[i].content
  <2>1. \A C : DOMAIN Put(C, NoItems) = DOMAIN C /\ \A i \in DOMAIN C : Put(C, NoItems)[i] = C[i]
    BY IdleFields DEF Put
  <2>2. Nth(<<>>, 1) = NoItems /\ Nth(<<>>, 2) = NoItems /\ Nth(<<>>, 3) = NoItems
    BY DEF Nth
  <2>3. F = Put(Put(Put(disk, NoItems), NoItems), NoItems)
    BY <2>2 DEF Final
  <2>4. QED BY <2>1, <2>3
<1>8. TokensOK(v, disk, sync.reply.token, storedTokens)
  <2> SUFFICES ASSUME NEW G, G = F PROVE TokensOK(v, disk, sync.reply.token, storedTokens)
    OBVIOUS
  <2>1. QED BY <1>2, <1>3, <1>7, FinishedTokens
<1>9. PreviousOK(v, local, previous, sync'.sent)
  BY <1>3, <1>6 DEF PreviousOK
<1>10. Written(sync', disk) = disk
  BY <1>6 DEF Written
<1>11. UNCHANGED <<disk, storedTokens, orphans, unsaved, forgotten, local, previous>>
  BY DEF store, remote, ghosts
<1>12. Types'
  BY <1>3, <1>4, <1>6, <1>11 DEF Types, Contents, ghosts, n
<1>13. sync'.pc \notin {"presave", "answered", "resolve", "persist"}
  BY <1>6
<1>14. QED BY <1>3, <1>6, <1>8, <1>9, <1>10, <1>11, <1>12, <1>13, Assemble DEF n

(* An item in conflict, of those X that a reply has: the resolver finds it *)
(* in the snapshot and in the history as it is.                            *)
Conflicted(X, S, H, sent) ==
  \A i \in DOMAIN X : /\ i \in DOMAIN local /\ S[i] = local[i] /\ H[i] = previous[i]
                      /\ local[i].dirty \/ i \in sent

Chosen(X, S, H, strategy) == \A i \in DOMAIN X : strategy[i] \in StrategiesFor(i, S, H, X[i])

(* The uuids of the copies were not in use, and hold what is copied in v.  *)
CopiesOf(v, X, strategy, uuid) ==
  \A i \in Duplicated(X, strategy) :
    /\ uuid[i] \in Copies /\ copyOf[uuid[i]] = 0
    /\ v.origin[uuid[i]] = CopyContent(local[i], X[i], strategy[i])
    /\ v.origin[uuid[i]] \in v.family[uuid[i]]

LEMMA MergingHolds ==
  ASSUME NEW w, LineageOK(w), FamilyOK(w, copyOf), ServerOK(w), Place(w, local, DOMAIN local),
         NEW S, DOMAIN S = DOMAIN local, Within(w, S), NEW H, NEW sent, PreviousOK(w, local, previous, sent),
         NEW X, Sent(w, X), Conflicted(X, S, H, sent), NEW strategy, Chosen(X, S, H, strategy),
         NEW v, Grows(w, v), v.server = w.server, NEW uuid, CopiesOf(v, X, strategy, uuid),
         Apart(Duplicated(X, strategy), uuid)
  PROVE  Merging(v, local, X, strategy, uuid)
<1>1. DOMAIN local \subseteq Items /\ Within(w, local)
  BY DEF Place, IsMap
<1>2. ASSUME NEW i \in DOMAIN X
      PROVE  /\ i \in DOMAIN local /\ strategy[i] \in ConflictStrategies
             /\ strategy[i] = "KeepApply" => local[i].content = X[i].content
             /\ strategy[i] = "KeepBase" =>
                  From(v, local[i].content, X[i].content) \/ Held(v, X[i].content, DOMAIN local)
  <2>1. /\ i \in DOMAIN local /\ S[i] = local[i] /\ H[i] = previous[i] /\ (local[i].dirty \/ i \in sent)
        /\ strategy[i] \in StrategiesFor(i, S, H, X[i])
    BY DEF Conflicted, Chosen
  <2>2. /\ strategy[i] \in ConflictStrategies
        /\ strategy[i] = "KeepApply" => local[i].content = X[i].content
        /\ strategy[i] = "KeepBase" =>
             From(w, local[i].content, X[i].content) \/ Held(w, X[i].content, DOMAIN local)
    <3> SUFFICES ASSUME NEW s, s = strategy[i]
                 PROVE  /\ s \in ConflictStrategies
                        /\ s = "KeepApply" => local[i].content = X[i].content
                        /\ s = "KeepBase" =>
                             From(w, local[i].content, X[i].content) \/ Held(w, X[i].content, DOMAIN local)
      OBVIOUS
    <3>1. QED BY <1>1, <2>1, StrategyIsSound
  <2>3. From(w, local[i].content, X[i].content) => From(v, local[i].content, X[i].content)
    BY FromGrows
  <2>4. Held(w, X[i].content, DOMAIN local) => Held(v, X[i].content, DOMAIN local)
    BY <1>1, HeldGrows
  <2>5. QED BY <2>1, <2>2, <2>3, <2>4
<1>3. ASSUME NEW i \in Duplicated(X, strategy)
      PROVE  /\ uuid[i] \in Copies /\ uuid[i] \notin DOMAIN local /\ uuid[i] \notin DOMAIN v.server
             /\ v.origin[uuid[i]] = CopyContent(local[i], X[i], strategy[i])
             /\ v.origin[uuid[i]] \in v.family[uuid[i]]
  <2>1. /\ uuid[i] \in Copies /\ copyOf[uuid[i]] = 0
        /\ v.origin[uuid[i]] = CopyContent(local[i], X[i], strategy[i])
        /\ v.origin[uuid[i]] \in v.family[uuid[i]]
    BY DEF CopiesOf
  <2>2. w.family[uuid[i]] = {}
    BY <2>1 DEF FamilyOK
  <2>3. uuid[i] \notin DOMAIN local /\ uuid[i] \notin DOMAIN w.server
    BY <1>1, <2>2 DEF Within, ServerOK
  <2>4. QED BY <2>1, <2>3
<1>4. QED BY <1>2, <1>3 DEF Merging

(* The items in conflict, of both kinds.                                   *)
LEMMA ConflictsOfReply ==
  ASSUME NEW w, NEW q, NEW lc, NEW pv, NEW tk, ReplyOK(w, q, lc, tk), ResolveOK(w, q, lc, pv), q.sent \subseteq DOMAIN lc,
         NEW R, R = q.reply, NEW S, S = q.snapshot, NEW M, M = Pick(R.retrieved, Conflicting(S, R.retrieved, q.sent)),
         NEW applies, applies = Put(R.conflicts, M)
  PROVE  /\ DOMAIN applies = DOMAIN R.conflicts \cup DOMAIN M
         /\ DOMAIN R.conflicts \cap DOMAIN M = {} /\ DOMAIN M \subseteq DOMAIN R.retrieved
         /\ \A i \in DOMAIN M : applies[i] = M[i] /\ M[i] = R.retrieved[i]
         /\ \A i \in DOMAIN R.conflicts : applies[i] = R.conflicts[i]
         /\ \A i \in DOMAIN applies : /\ i \in DOMAIN lc /\ S[i] = lc[i] /\ q.history[i] = pv[i]
                                      /\ lc[i].dirty \/ i \in q.sent
         /\ Sent(w, M) /\ Sent(w, R.conflicts)
<1> DEFINE T == Conflicting(S, R.retrieved, q.sent)
<1>1. /\ Sent(w, R.retrieved) /\ Sent(w, R.conflicts) /\ DOMAIN R.conflicts \subseteq q.sent
      /\ DOMAIN R.conflicts \cap DOMAIN R.retrieved = {}
  BY DEF ReplyOK
<1>2. /\ DOMAIN S = DOMAIN lc
      /\ \A i \in DOMAIN lc : i \in DOMAIN R.conflicts \/ i \in DOMAIN R.retrieved => S[i] = lc[i] /\ q.history[i] = pv[i]
  BY DEF ResolveOK, Affected
<1>3. /\ DOMAIN M = T /\ T \subseteq DOMAIN R.retrieved /\ \A i \in T : M[i] = R.retrieved[i]
      /\ \A i \in T : i \in q.sent \/ (i \in DOMAIN S /\ S[i].dirty)
  BY DEF Pick, Conflicting
<1>4. /\ DOMAIN applies = DOMAIN R.conflicts \cup DOMAIN M
      /\ \A i \in DOMAIN applies : applies[i] = IF i \in DOMAIN M THEN M[i] ELSE R.conflicts[i]
  BY DEF Put
<1> HIDE DEF T
<1>5. Sent(w, M)
  BY <1>1, <1>3 DEF Sent, IsMap, Within
<1>6. ASSUME NEW i \in DOMAIN applies
      PROVE  i \in DOMAIN lc /\ S[i] = lc[i] /\ q.history[i] = pv[i] /\ (lc[i].dirty \/ i \in q.sent)
  <2>1. CASE i \in DOMAIN R.conflicts
    BY <1>1, <1>2, <2>1
  <2>2. CASE i \in T
    BY <1>2, <1>3, <2>2
  <2>3. QED BY <1>3, <1>4, <2>1, <2>2
<1>7. QED BY <1>1, <1>3, <1>4, <1>5, <1>6

(* The item of D that c is a copy of.                                      *)
Source(D, uuid, c) == CHOOSE i \in D : uuid[i] = c

(* What a copy begins with.                                                *)
Copied(applies, strategy, i) == CopyContent(local[i], applies[i], strategy[i])

LEMMA SourceIs ==
  ASSUME NEW D, NEW T, NEW uuid, uuid \in Injections(D, T)
  PROVE  /\ Apart(D, uuid) /\ \A i \in D : uuid[i] \in T /\ Source(D, uuid, uuid[i]) = i
         /\ \A c \in {uuid[i] : i \in D} : Source(D, uuid, c) \in D /\ uuid[Source(D, uuid, c)] = c
<1>1. uuid \in [D -> T] /\ \A i, j \in D : uuid[i] = uuid[j] => i = j
  BY DEF Injections
<1>2. ASSUME NEW c \in {uuid[i] : i \in D} PROVE Source(D, uuid, c) \in D /\ uuid[Source(D, uuid, c)] = c
  <2>1. \E i \in D : uuid[i] = c
    OBVIOUS
  <2>2. QED BY <2>1 DEF Source
<1>3. ASSUME NEW i \in D PROVE uuid[i] \in T /\ Source(D, uuid, uuid[i]) = i
  <2>1. uuid[i] \in T /\ uuid[i] \in {uuid[j] : j \in D}
    BY <1>1
  <2>2. Source(D, uuid, uuid[i]) \in D /\ uuid[Source(D, uuid, uuid[i])] = uuid[i]
    BY <1>2, <2>1
  <2>3. QED BY <1>1, <2>1, <2>2
<1>4. QED BY <1>1, <1>2, <1>3 DEF Apart

CopyIds(D, uuid) == {uuid[i] : i \in D}

CopiesMap(then, D, uuid) ==
  then = [c \in Copies |-> IF \E i \in D : uuid[i] = c THEN CHOOSE i \in D : uuid[i] = c ELSE copyOf[c]]

MadeIn(w, v, applies, strategy, D, uuid) ==
  LET made(i) == Copied(applies, strategy, Source(D, uuid, i)) IN
  /\ v.origin = [i \in Items |-> IF i \in CopyIds(D, uuid) THEN made(i) ELSE w.origin[i]]
  /\ v.family = [i \in Items |-> IF i \in CopyIds(D, uuid) THEN {made(i)} ELSE w.family[i]]

(* Each item of D is copied to a uuid of its own, in the world v.          *)
CopiedTo(v, applies, strategy, D, uuid) ==
  /\ Apart(D, uuid)
  /\ \A i \in D : /\ uuid[i] \in Copies /\ copyOf[uuid[i]] = 0
                  /\ v.origin[uuid[i]] = Copied(applies, strategy, i)
                  /\ v.origin[uuid[i]] \in v.family[uuid[i]]

LEMMA CopiesAreMade ==
  ASSUME NEW w, LineageOK(w), FamilyOK(w, copyOf), ServerOK(w), copyOf \in [Copies -> Nat], Place(w, local, DOMAIN local),
         NEW applies, Sent(w, applies), NEW strategy, NEW D, D = Duplicated(applies, strategy), D \subseteq DOMAIN local,
         NEW uuid, uuid \in Injections(D, Unused), NEW then, CopiesMap(then, D, uuid),
         NEW v, v.lineage = w.lineage, v.server = w.server, v.seq = w.seq, v.received = w.received,
         MadeIn(w, v, applies, strategy, D, uuid)
  PROVE  /\ LineageOK(v) /\ FamilyOK(v, then) /\ ServerOK(v) /\ Grows(w, v) /\ then \in [Copies -> Nat]
         /\ CopiedTo(v, applies, strategy, D, uuid)
<1> DEFINE K == CopyIds(D, uuid)
<1>0. /\ v.origin = [i \in Items |-> IF i \in K THEN Copied(applies, strategy, Source(D, uuid, i)) ELSE w.origin[i]]
      /\ v.family = [i \in Items |-> IF i \in K THEN {Copied(applies, strategy, Source(D, uuid, i))} ELSE w.family[i]]
      /\ then = [c \in Copies |-> IF \E i \in D : uuid[i] = c THEN CHOOSE i \in D : uuid[i] = c ELSE copyOf[c]]
  BY DEF MadeIn, CopiesMap
<1> USE DEF CopyIds
<1>1. /\ Apart(D, uuid)
      /\ \A i \in D : uuid[i] \in Unused /\ Source(D, uuid, uuid[i]) = i /\ uuid[i] \in K
      /\ \A c \in K : Source(D, uuid, c) \in D /\ uuid[Source(D, uuid, c)] = c
  BY SourceIs
<1>2. K \subseteq Copies /\ \A c \in K : copyOf[c] = 0
  BY <1>1 DEF Unused
<1>3. /\ Copies \subseteq Items /\ IsMap(local, Payload) /\ Within(w, local)
      /\ IsMap(applies, ServerItem) /\ Within(w, applies) /\ D \subseteq DOMAIN applies
  BY DEF Items, Place, Sent, Duplicated
<1>4. \A i \in D : i \in Items /\ Copied(applies, strategy, i) \in w.family[i]
  BY <1>3 DEF IsMap, Within, Copied, CopyContent
<1> DEFINE src == [c \in K |-> Source(D, uuid, c)]
           val == [c \in K |-> Copied(applies, strategy, Source(D, uuid, c))]
<1>5. \A c \in K : copyOf[c] = 0 /\ src[c] \in Items /\ val[c] \in w.family[src[c]]
  BY <1>1, <1>2, <1>4
<1>6. \A c \in Copies : then[c] = IF c \in K THEN src[c] ELSE copyOf[c]
  BY <1>0 DEF Source
<1>7. /\ v.origin = [i \in Items |-> IF i \in K THEN val[i] ELSE w.origin[i]]
      /\ v.family = [i \in Items |-> IF i \in K THEN {val[i]} ELSE w.family[i]]
  <2> DEFINE x(i) == Copied(applies, strategy, Source(D, uuid, i))
  <2>1. \A i \in K : val[i] = x(i)
    OBVIOUS
  <2> HIDE DEF val, x
  <2>2. [i \in Items |-> IF i \in K THEN x(i) ELSE w.origin[i]] = [i \in Items |-> IF i \in K THEN val[i] ELSE w.origin[i]]
    BY <2>1
  <2>3. [i \in Items |-> IF i \in K THEN {x(i)} ELSE w.family[i]] = [i \in Items |-> IF i \in K THEN {val[i]} ELSE w.family[i]]
    BY <2>1
  <2>4. QED BY <1>0, <2>2, <2>3 DEF x
<1>8. \A i \in D : v.origin[uuid[i]] = Copied(applies, strategy, i) /\ v.family[uuid[i]] = {Copied(applies, strategy, i)}
  BY <1>0, <1>1, <1>2, <1>3
<1>9. then \in [Copies -> Nat]
  <2>1. \A c \in K : src[c] \in Nat
    BY <1>5, FiniteItems
  <2> HIDE DEF src
  <2>2. \A c \in Copies : then[c] \in Nat
    BY <1>6, <2>1
  <2>3. QED BY <1>0, <2>2
<1> HIDE DEF src, val
<1>10. Copyable(w, copyOf, K, src, val) /\ CopiesNoted(then, copyOf, K, src) /\ WithCopies(w, K, val, v)
  BY <1>2, <1>5, <1>6, <1>7 DEF Copyable, CopiesNoted, WithCopies
<1>11. LineageOK(v) /\ FamilyOK(v, then) /\ ServerOK(v) /\ Grows(w, v)
  BY ONLY <1>10, CopiesGrow, LineageOK(w), FamilyOK(w, copyOf), ServerOK(w)
<1>12. \A i \in D : uuid[i] \in Copies /\ copyOf[uuid[i]] = 0
  BY <1>1, <1>2
<1>13. QED BY ONLY <1>1, <1>8, <1>9, <1>11, <1>12 DEF CopiedTo

-----------------------------------------------------------------------------
(* A resolution, step by step.                                             *)

Resolution(applies, strategy, D, uuid, es) ==
  /\ D = Duplicated(applies, strategy) /\ uuid \in Injections(D, Unused) /\ es = Emits(strategy, uuid)
  /\ Chosen(applies, sync.snapshot, sync.history, strategy)
  /\ CopiesMap(copyOf', D, uuid)
  /\ dirtyCount' = IF \E n \in DOMAIN es : \E i \in DOMAIN es[n] : es[n][i].dirty
                     THEN dirtyCount + 1 ELSE dirtyCount
  /\ \/ es = <<>> /\ FinishPage /\ UNCHANGED <<local, previous>>
     \/ /\ es # <<>> /\ Emit(Head(es))
        /\ sync' = [sync EXCEPT !.pc = "persist", !.emits = es, !.reply = [Reply EXCEPT !.token = sync.reply.token],
                                !.snapshot = NoItems, !.history = Idle.history]
        /\ UNCHANGED <<tokens, completedDownloadFirst>>

LEMMA ResolveChooses ==
  ASSUME Resolve
  PROVE  \E applies, strategy, D, uuid, es :
           /\ applies = Put(sync.reply.conflicts,
                            Pick(sync.reply.retrieved, Conflicting(sync.snapshot, sync.reply.retrieved, sync.sent)))
           /\ Resolution(applies, strategy, D, uuid, es)
<1> DEFINE applies == Put(sync.reply.conflicts,
                          Pick(sync.reply.retrieved, Conflicting(sync.snapshot, sync.reply.retrieved, sync.sent)))
<1>1. PICK strategy :
        LET duplicated == {i \in DOMAIN applies : strategy[i] \in Duplicating}
            uuid == CHOOSE f \in Injections(duplicated, Unused) : TRUE
            emits == Emits(strategy, uuid)
        IN /\ \A i \in DOMAIN applies :
                strategy[i] \in StrategiesFor(i, sync.snapshot, sync.history, applies[i])
           /\ Injections(duplicated, Unused) # {}
           /\ copyOf' = [c \in Copies |->
                           IF \E i \in duplicated : uuid[i] = c
                             THEN CHOOSE i \in duplicated : uuid[i] = c ELSE copyOf[c]]
           /\ dirtyCount' =
                IF \E n \in DOMAIN emits : \E i \in DOMAIN emits[n] : emits[n][i].dirty
                  THEN dirtyCount + 1 ELSE dirtyCount
           /\ IF emits = <<>>
                THEN FinishPage /\ UNCHANGED <<local, previous>>
                ELSE /\ Emit(Head(emits))
                     /\ sync' = [sync EXCEPT !.pc = "persist", !.emits = emits,
                                             !.reply = [Reply EXCEPT !.token = sync.reply.token],
                                             !.snapshot = NoItems,
                                             !.history = Idle.history]
                     /\ UNCHANGED <<tokens, completedDownloadFirst>>
  BY Zenon DEF Resolve
<1> HIDE DEF applies
<1> DEFINE D == Duplicated(applies, strategy)
           uuid == CHOOSE f \in Injections(D, Unused) : TRUE
           es == Emits(strategy, uuid)
<1>2. uuid \in Injections(D, Unused)
  BY <1>1 DEF Duplicated
<1>3. Resolution(applies, strategy, D, uuid, es)
  BY <1>1, <1>2, Zenon DEF Resolution, Duplicated, Chosen, CopiesMap
<1>4. QED BY <1>3 DEF applies

(* The conflicts of a reply of either kind, as parts X of all of them.     *)
PartOf(X, applies) == DOMAIN X \subseteq DOMAIN applies /\ \A i \in DOMAIN X : X[i] = applies[i]

LEMMA PartIsDuplicated ==
  ASSUME NEW X, NEW applies, PartOf(X, applies), NEW strategy, NEW D, D = Duplicated(applies, strategy), NEW uuid,
         NEW v, CopiedTo(v, applies, strategy, D, uuid)
  PROVE  /\ Duplicated(X, strategy) = D \cap DOMAIN X
         /\ CopiesOf(v, X, strategy, uuid) /\ Apart(Duplicated(X, strategy), uuid)
<1>1. Duplicated(X, strategy) = D \cap DOMAIN X
  BY DEF Duplicated, PartOf
<1>2. \A i \in DOMAIN X : Copied(applies, strategy, i) = CopyContent(local[i], X[i], strategy[i])
  BY DEF Copied, PartOf
<1>3. CopiesOf(v, X, strategy, uuid)
  BY <1>1, <1>2 DEF CopiesOf, CopiedTo
<1>4. QED BY <1>1, <1>3 DEF Apart, CopiedTo

(* Of two parts with nothing in common the copies are different ones.      *)
LEMMA PartsAreFresh ==
  ASSUME NEW X, NEW Y, NEW strategy, NEW D, NEW uuid, Apart(D, uuid), DOMAIN X \cap DOMAIN Y = {},
         Duplicated(X, strategy) = D \cap DOMAIN X, Duplicated(Y, strategy) = D \cap DOMAIN Y
  PROVE  Fresh(X, strategy, uuid) \cap Fresh(Y, strategy, uuid) = {}
BY DEF Fresh, Apart

(* An index is drawn when something in the emits is dirty.                 *)
LEMMA EmitsDraw ==
  ASSUME dirtyCount \in Nat, NEW e, NEW f, NEW g, NEW es, es = UnlessEmpty(e) \o UnlessEmpty(f) \o UnlessEmpty(g),
         NEW n, n = IF \E k \in DOMAIN es : \E i \in DOMAIN es[k] : es[k][i].dirty THEN dirtyCount + 1 ELSE dirtyCount
  PROVE  Draws(n, e, f, g)
<1>1. Holds(es, e) /\ Holds(es, f) /\ Holds(es, g)
  BY ONLY EmitsHold, es = UnlessEmpty(e) \o UnlessEmpty(f) \o UnlessEmpty(g)
<1>2. ASSUME n = dirtyCount, NEW E \in {e, f, g}, NEW i \in DOMAIN E, E[i].dirty PROVE FALSE
  <2>1. PICK k \in DOMAIN es : es[k] = E
    BY <1>1, <1>2 DEF Holds
  <2>2. \E m \in DOMAIN es : \E j \in DOMAIN es[m] : es[m][j].dirty
    BY ONLY <1>2, <2>1, Zenon
  <2>3. n = dirtyCount + 1
    BY <2>2
  <2>4. QED BY <1>2, <2>3
<1>3. n \in {dirtyCount, dirtyCount + 1}
  OBVIOUS
<1>4. QED BY <1>2, <1>3, Zenon DEF Draws

LEMMA ResolveWith ==
  ASSUME NEW o, NEW A, InvOf(o, A), sync.pc = "resolve", UNCHANGED <<store, remote, ghosts>>, NEW applies,
         applies = Put(sync.reply.conflicts,
                       Pick(sync.reply.retrieved, Conflicting(sync.snapshot, sync.reply.retrieved, sync.sent))),
         NEW strategy, NEW D, NEW uuid, NEW es, Resolution(applies, strategy, D, uuid, es),
         NEW p, p = [i \in Items |-> IF i \in CopyIds(D, uuid) THEN Copied(applies, strategy, Source(D, uuid, i))
                                                               ELSE o[i]],
         NEW B, B = [i \in Items |-> IF i \in CopyIds(D, uuid) THEN {Copied(applies, strategy, Source(D, uuid, i))}
                                                               ELSE A[i]]
  PROVE  InvOf(p, B)'
<1> DEFINE w == World(o, A)
           v == World(p, B)'
           R == sync.reply
           S == sync.snapshot
           T == Conflicting(S, R.retrieved, sync.sent)
           M == Pick(R.retrieved, T)
           N == Pick(R.retrieved, DOMAIN R.retrieved \ T)
           L == ConflictDelta(S, M, strategy, uuid)
           e == Put(RetrievedDelta(S, N), L)
           f == SavedDelta(S, R.saved)
           g == ConflictDelta(S, R.conflicts, strategy, uuid)
           n == dirtyCount'
<1>1. /\ Types /\ LineageOK(w) /\ FamilyOK(w, copyOf) /\ ServerOK(w)
      /\ Places(w) /\ Rest(w) /\ Staged(w)
  BY DEF InvOf, WorldOK
<1>2. /\ SyncOK(sync, local, dirtyCount) /\ ReplyOK(w, sync, local, tokens) /\ ResolveOK(w, sync, local, previous)
      /\ Place(w, local, DOMAIN local) /\ PreviousOK(w, local, previous, sync.sent)
  BY <1>1 DEF Staged, Places, Rest
<1>3. sync.sent \subseteq DOMAIN local /\ DOMAIN S = DOMAIN local /\ Within(w, S)
  BY <1>2 DEF SyncOK, ResolveOK
<1>4. /\ D = Duplicated(applies, strategy) /\ uuid \in Injections(D, Unused) /\ es = Emits(strategy, uuid)
      /\ Chosen(applies, S, sync.history, strategy)
  BY DEF Resolution
<1>5. n = IF \E k \in DOMAIN es : \E i \in DOMAIN es[k] : es[k][i].dirty THEN dirtyCount + 1 ELSE dirtyCount
  BY DEF Resolution
<1>6. es = UnlessEmpty(e) \o UnlessEmpty(f) \o UnlessEmpty(g)
  BY <1>4 DEF Emits
<1>7. /\ v.lineage = w.lineage /\ v.server = w.server /\ v.seq = w.seq /\ v.received = w.received
      /\ v.origin = p /\ v.family = B /\ w.origin = o /\ w.family = A /\ DOMAIN v.lineage = DOMAIN lineage
  BY DEF World, remote, ghosts
<1> HIDE DEF w, v, R, S, T, M, N, L, e, f, g, n
<1>8. /\ DOMAIN applies = DOMAIN R.conflicts \cup DOMAIN M
      /\ DOMAIN R.conflicts \cap DOMAIN M = {} /\ DOMAIN M \subseteq DOMAIN R.retrieved
      /\ \A i \in DOMAIN M : applies[i] = M[i] /\ M[i] = R.retrieved[i]
      /\ \A i \in DOMAIN R.conflicts : applies[i] = R.conflicts[i]
      /\ \A i \in DOMAIN applies : /\ i \in DOMAIN local /\ S[i] = local[i] /\ sync.history[i] = previous[i]
                                   /\ local[i].dirty \/ i \in sync.sent
      /\ Sent(w, M) /\ Sent(w, R.conflicts)
  <2>1. R = sync.reply /\ S = sync.snapshot /\ M = Pick(R.retrieved, Conflicting(S, R.retrieved, sync.sent))
        /\ applies = Put(R.conflicts, M)
    BY DEF R, S, T, M
  <2>2. QED BY ONLY <1>2, <1>3, <2>1, ConflictsOfReply
<1>9. PartOf(M, applies) /\ PartOf(R.conflicts, applies)
  BY <1>8 DEF PartOf
<1>10. Sent(w, applies)
  BY <1>8 DEF Sent, IsMap, Within
<1>11. D \subseteq DOMAIN local /\ copyOf \in [Copies -> Nat] /\ dirtyCount \in Nat
  BY <1>1, <1>4, <1>8 DEF Duplicated, Types
<1>12. /\ LineageOK(v) /\ FamilyOK(v, copyOf') /\ ServerOK(v) /\ Grows(w, v) /\ copyOf' \in [Copies -> Nat]
       /\ CopiedTo(v, applies, strategy, D, uuid)
  <2> SUFFICES ASSUME NEW then, CopiesMap(then, D, uuid)
               PROVE  /\ LineageOK(v) /\ FamilyOK(v, then) /\ ServerOK(v) /\ Grows(w, v) /\ then \in [Copies -> Nat]
                      /\ CopiedTo(v, applies, strategy, D, uuid)
    BY DEF Resolution
  <2>1. MadeIn(w, v, applies, strategy, D, uuid)
    BY <1>7, Zenon DEF MadeIn
  <2>2. QED
    BY ONLY <1>1, <1>2, <1>4, <1>7, <1>10, <1>11, <2>1, CopiesAreMade, CopiesMap(then, D, uuid)
<1>13. /\ Duplicated(M, strategy) = D \cap DOMAIN M /\ Duplicated(R.conflicts, strategy) = D \cap DOMAIN R.conflicts
       /\ CopiesOf(v, M, strategy, uuid) /\ CopiesOf(v, R.conflicts, strategy, uuid)
       /\ Apart(Duplicated(M, strategy), uuid) /\ Apart(Duplicated(R.conflicts, strategy), uuid)
  <2>1. ASSUME NEW X, PartOf(X, applies)
        PROVE  /\ Duplicated(X, strategy) = D \cap DOMAIN X
               /\ CopiesOf(v, X, strategy, uuid) /\ Apart(Duplicated(X, strategy), uuid)
    BY ONLY <1>4, <1>12, <2>1, PartIsDuplicated
  <2>2. QED BY <1>9, <2>1
<1>14. Fresh(M, strategy, uuid) \cap Fresh(R.conflicts, strategy, uuid) = {}
  <2> SUFFICES ASSUME NEW Y, Y = R.conflicts PROVE Fresh(M, strategy, uuid) \cap Fresh(Y, strategy, uuid) = {}
    OBVIOUS
  <2>1. DOMAIN M \cap DOMAIN Y = {} /\ Apart(D, uuid)
        /\ Duplicated(M, strategy) = D \cap DOMAIN M /\ Duplicated(Y, strategy) = D \cap DOMAIN Y
    BY <1>8, <1>12, <1>13 DEF CopiedTo
  <2>2. QED BY ONLY <2>1, PartsAreFresh
<1>15. Merging(v, local, M, strategy, uuid) /\ Merging(v, local, R.conflicts, strategy, uuid)
  <2>1. ASSUME NEW X, PartOf(X, applies), Sent(w, X), CopiesOf(v, X, strategy, uuid), Apart(Duplicated(X, strategy), uuid)
        PROVE  Merging(v, local, X, strategy, uuid)
    <3>1. Conflicted(X, S, sync.history, sync.sent) /\ Chosen(X, S, sync.history, strategy)
      BY <1>4, <1>8, <2>1 DEF PartOf, Conflicted, Chosen
    <3>2. QED BY ONLY <1>1, <1>2, <1>3, <1>7, <1>12, <2>1, <3>1, MergingHolds
  <2>2. QED BY <1>8, <1>9, <1>13, <2>1
<1>16. Places(v) /\ Rest(v) /\ Staged(v) /\ Covers(v)
  <2>1. LineageOK(v) /\ FamilyOK(v, copyOf') /\ ServerOK(v) /\ Grows(World(o, A), v) /\ DOMAIN v.lineage = DOMAIN lineage
    BY <1>7, <1>12 DEF w
  <2>2. QED BY ONLY InvOf(o, A), <2>1, ClientStays
<1>17. /\ ReplyOK(v, sync, local, tokens) /\ ResolveOK(v, sync, local, previous) /\ Place(v, local, DOMAIN local)
       /\ Follows(v, disk, local) /\ TokensOK(v, disk, tokens, storedTokens) /\ Indexed(local, dirtyCount)
  BY <1>1, <1>16 DEF Staged, Places, Rest, Written, Types
<1>18. Draws(n, e, f, g)
  BY ONLY <1>5, <1>6, <1>11, EmitsDraw
<1>19. Same(S, local, Affected(R) \cap DOMAIN local)
  BY <1>17 DEF ResolveOK, Same, R, S
<1>20. Ordered(v, e, f, g, local, disk, tokens, sync.sent, n, R.token)
  <2>1. /\ R = sync.reply /\ T = Conflicting(S, R.retrieved, sync.sent) /\ M = Pick(R.retrieved, T)
        /\ N = Pick(R.retrieved, DOMAIN R.retrieved \ T) /\ L = ConflictDelta(S, M, strategy, uuid)
        /\ e = Put(RetrievedDelta(S, N), L) /\ f = SavedDelta(S, R.saved)
        /\ g = ConflictDelta(S, R.conflicts, strategy, uuid)
    BY DEF R, T, M, N, L, e, f, g
  <2>2. QED
    BY ONLY <1>3, <1>11, <1>12, <1>14, <1>15, <1>17, <1>18, <1>19, <2>1, DeltasAreOrdered
<1>21. (es = <<>> \/ Queued(v, es, local, disk, tokens, sync.sent, n)) /\ FinalOK(v, es, disk, R.token)
  BY ONLY <1>6, <1>20, EmitsAreQueued
<1>22. /\ v = World(p, B)' /\ WorldOK(World(p, B))' /\ n = dirtyCount' /\ n \in {dirtyCount, dirtyCount + 1}
  BY <1>12, <1>18 DEF WorldOK, v, n, Draws
<1>23. CASE es = <<>>
  <2>1. FinishPage /\ UNCHANGED <<local, previous>>
    BY <1>23 DEF Resolution
  <2>2. FinalOK(v, <<>>, disk, sync.reply.token) /\ dirtyCount' \in {dirtyCount, dirtyCount + 1}
    BY <1>21, <1>22, <1>23 DEF R
  <2>3. QED
    BY ONLY <1>1, <1>12, <1>16, <1>22, <2>1, <2>2, ResolveFinishes, sync.pc = "resolve",
            UNCHANGED <<store, remote, ghosts>>
<1>24. CASE es # <<>>
  <2>1. /\ Emit(Head(es))
        /\ sync' = [sync EXCEPT !.pc = "persist", !.emits = es, !.reply = [Reply EXCEPT !.token = sync.reply.token],
                                !.snapshot = NoItems, !.history = Idle.history]
        /\ UNCHANGED <<tokens, completedDownloadFirst>>
    BY <1>24, Zenon DEF Resolution
  <2>2. /\ Queued(v, es, local, disk, tokens, sync.sent, dirtyCount') /\ FinalOK(v, es, disk, sync.reply.token)
        /\ dirtyCount' \in {dirtyCount, dirtyCount + 1}
    BY <1>21, <1>22, <1>24 DEF R
  <2>3. QED
    BY ONLY <1>1, <1>12, <1>16, <1>22, <2>1, <2>2, ResolveApplies, sync.pc = "resolve",
            UNCHANGED <<store, remote, ghosts>>
<1>25. QED BY <1>23, <1>24

LEMMA ResolveStep ==
  ASSUME NEW o, NEW A, InvOf(o, A), Resolve
  PROVE  IInv'
<1>1. PICK applies, strategy, D, uuid, es :
        /\ applies = Put(sync.reply.conflicts,
                         Pick(sync.reply.retrieved, Conflicting(sync.snapshot, sync.reply.retrieved, sync.sent)))
        /\ Resolution(applies, strategy, D, uuid, es)
  BY ResolveChooses
<1>2. sync.pc = "resolve" /\ UNCHANGED <<store, remote, ghosts>>
  BY DEF Resolve
<1>3. PICK p : p = [i \in Items |-> IF i \in CopyIds(D, uuid) THEN Copied(applies, strategy, Source(D, uuid, i))
                                                              ELSE o[i]]
  OBVIOUS
<1>4. PICK B : B = [i \in Items |-> IF i \in CopyIds(D, uuid) THEN {Copied(applies, strategy, Source(D, uuid, i))}
                                                              ELSE A[i]]
  OBVIOUS
<1>5. InvOf(p, B)'
  BY ONLY <1>1, <1>2, <1>3, <1>4, InvOf(o, A), ResolveWith
<1>6. QED BY <1>5 DEF IInv

-----------------------------------------------------------------------------
(* The invariant and the theorems.                                         *)

LEMMA NextStep ==
  ASSUME Environment = {}, IInv, [Next]_vars
  PROVE  IInv'
<1>1. PICK o, A : InvOf(o, A)
  BY DEF IInv
<1>2. ASSUME InvOf(o, A)' PROVE IInv'
  BY <1>2 DEF IInv
<1>3. CASE BeginSync
  BY <1>1, <1>2, <1>3, BeginSyncStep
<1>4. CASE Presaved
  BY <1>1, <1>2, <1>4, PresavedStep
<1>5. CASE ServerAnswers
  BY <1>1, <1>2, <1>5, ServerAnswersStep
<1>6. CASE ReceiveReply
  BY <1>1, <1>2, <1>6, ReceiveReplyStep
<1>7. CASE Resolve
  BY <1>1, <1>7, ResolveStep
<1>8. CASE PersistEmit
  BY <1>1, <1>2, <1>8, PersistEmitStep
<1>9. CASE StoreTokens
  BY <1>1, <1>2, <1>9, StoreTokensStep
<1>10. CASE RequestFails
  BY <1>1, <1>2, <1>10, RequestFailsStep
<1>11. CASE Crash
  BY <1>1, <1>2, <1>11, CrashStep
<1>12. ASSUME NEW i \in Items, Edit(i) PROVE IInv'
  <2>1. PICK new : new = NewContent
    OBVIOUS
  <2>2. PICK B : B = [A EXCEPT ![i] = @ \cup {new}]
    OBVIOUS
  <2>3. InvOf(o, B)'
    BY <1>1, <1>12, <2>1, <2>2, EditStep
  <2>4. QED BY <2>3 DEF IInv
<1>13. ASSUME NEW i \in Items, OtherDeviceEdit(i) PROVE IInv'
  <2>1. PICK new : new = NewContent
    OBVIOUS
  <2>2. PICK B : B = [A EXCEPT ![i] = @ \cup {new}]
    OBVIOUS
  <2>3. InvOf(o, B)'
    BY <1>1, <1>13, <2>1, <2>2, OtherDeviceEditStep
  <2>4. QED BY <2>3 DEF IInv
<1>14. ASSUME NEW U \in orphans, ServerHandlesOrphan(U) PROVE IInv'
  BY <1>1, <1>2, <1>14, ServerHandlesOrphanStep
<1>15. CASE UNCHANGED vars
  BY <1>1, <1>2, <1>15, StutterStep
<1>16. QED
  BY <1>3, <1>4, <1>5, <1>6, <1>7, <1>8, <1>9, <1>10, <1>11, <1>12, <1>13, <1>14, <1>15 DEF Next, Operate

LEMMA InvariantHolds ==
  ASSUME Environment = {}
  PROVE  Spec => []IInv
<1>1. Init => IInv
  BY InitHolds
<1>2. IInv /\ [Next]_vars => IInv'
  BY NextStep
<1>3. QED BY <1>1, <1>2, PTL DEF Spec

LEMMA TypesHold ==
  ASSUME IInv
  PROVE  TypeOK
<1>1. PICK o, A : InvOf(o, A)
  BY DEF IInv
<1> DEFINE w == World(o, A)
<1>2. /\ Types /\ LineageOK(w) /\ ServerOK(w) /\ Places(w) /\ Rest(w) /\ Staged(w)
  BY <1>1 DEF InvOf, WorldOK
<1>3. w.server = server /\ w.seq = serverSeq /\ w.received = received /\ DOMAIN w.lineage = Contents
  BY DEF World, Contents
<1> HIDE DEF w
<1>4. IsMap(local, Payload) /\ IsMap(disk, Payload)
  BY <1>2 DEF Places, Place
<1>5. \A i \in DOMAIN local : /\ local[i].dirtyIndex <= dirtyCount /\ local[i].globalDirtyIndexAtLastSync <= dirtyCount
                              /\ ~local[i].dirty => local[i].dirtyIndex = 0
  BY <1>2 DEF Types, Indexed
<1>6. IsMap(server, ServerItem) /\ serverSeq \in Nat /\ received \subseteq Contents
  BY <1>2, <1>3 DEF ServerOK
<1>7. dirtyCount \in Nat /\ copyOf \in [Copies -> Nat] /\ completedDownloadFirst \in BOOLEAN
      /\ unsaved \cup forgotten \subseteq Contents
  BY <1>2 DEF Types
<1>8. previous \in [Items -> Nat] /\ tokens \in Token /\ storedTokens \in Token
  BY <1>2 DEF Rest, PreviousOK, TokensOK
<1>9. /\ sync.pc \in Stages /\ sync.mode \in {"Default", "DownloadFirst"}
      /\ IsMap(sync.captured, Payload) /\ IsMap(sync.snapshot, Payload)
      /\ IsMap(sync.request.upload, ServerItem) /\ sync.sent \subseteq DOMAIN local
  BY <1>2 DEF Staged, SyncOK
<1>10. sync.sent \subseteq Items
  BY <1>4, <1>9 DEF IsMap
<1>11. QED BY <1>4, <1>5, <1>6, <1>7, <1>8, <1>9, <1>10 DEF TypeOK

LEMMA EditsHold ==
  ASSUME IInv
  PROVE  EditsAreSafe
<1>1. PICK o, A : InvOf(o, A)
  BY DEF IInv
<1> DEFINE w == World(o, A)
<1>2. /\ LineageOK(w) /\ FamilyOK(w, copyOf) /\ ServerOK(w) /\ Places(w) /\ Covers(w)
  BY <1>1 DEF InvOf, WorldOK
<1>3. w.server = server /\ w.received = received /\ w.lineage = lineage
  BY DEF World
<1> HIDE DEF w
<1>4. NoEditLost
  <2> SUFFICES ASSUME NEW c \in Contents \ forgotten
               PROVE  \E d \in ContentsOf(local) \cup ContentsOf(server) : c \in lineage[d]
    BY DEF NoEditLost
  <2>1. Safe(w, local, c)
    BY <1>2, <1>3 DEF Covers, Cover, Contents
  <2>2. QED BY <1>3, <2>1 DEF Safe, From, ContentsOf
<1>5. UnsentIsDirty
  BY <1>2, <1>3 DEF UnsentIsDirty, Places, Place, Marked
<1>6. QED BY <1>4, <1>5 DEF EditsAreSafe

LEMMA TokensHold ==
  ASSUME IInv
  PROVE  StoredTokensAreCovered
<1>1. PICK o, A : InvOf(o, A)
  BY DEF IInv
<1> DEFINE w == World(o, A)
<1>2. /\ LineageOK(w) /\ FamilyOK(w, copyOf) /\ ServerOK(w) /\ Place(w, disk, DOMAIN disk)
      /\ TokensOK(w, disk, tokens, storedTokens)
  BY <1>1 DEF InvOf, WorldOK, Places, Rest
<1>3. w.server = server /\ w.lineage = lineage
  BY DEF World
<1> HIDE DEF w
<1> SUFFICES ASSUME NEW k \in DOMAIN server, server[k].rev <= Since(storedTokens)
             PROVE  \E d \in ContentsOf(disk) : server[k].content \in lineage[d]
  BY DEF StoredTokensAreCovered
<1>4. server[k].rev \in Nat /\ Since(storedTokens) \in Nat /\ Since(tokens) \in Nat
  BY <1>2, <1>3 DEF ServerOK, IsMap, ServerItem, TokensOK, Since, Token
<1>5. Stays(w, server[k].content, k, disk)
  BY <1>2, <1>3, <1>4 DEF TokensOK
<1>6. \E j \in DOMAIN disk : From(w, disk[j].content, server[k].content)
  <2>1. DOMAIN disk \subseteq Items /\ Within(w, disk)
    BY <1>2 DEF Place, IsMap
  <2>2. QED BY <1>2, <1>5, <2>1, StaysIsThere
<1>7. QED BY <1>3, <1>6 DEF From, ContentsOf

(* Without either race every state is of its type: no index exceeds the    *)
(* counter it was drawn from, and a clean item has none                    *)
(* (getIncrementedDirtyIndex, payloadByFinalizingSyncState).               *)
THEOREM SyncDataTypeCorrect ==
  ASSUME Environment = {}
  PROVE  Spec => []TypeOK
<1>1. IInv => TypeOK
  BY TypesHold
<1>2. Spec => []IInv
  BY InvariantHolds
<1>3. QED BY <1>1, <1>2, PTL

(* Without either race no edit is lost but to a crash before its presave,  *)
(* and what the server never had stays marked as dirty, through conflicts, *)
(* lost answers, late requests and restarts (prepareForSync,               *)
(* ServerSyncResponseResolver, the deltas).                                *)
THEOREM SyncDataEditsAreSafe ==
  ASSUME Environment = {}
  PROVE  Spec => []EditsAreSafe
<1>1. IInv => EditsAreSafe
  BY EditsHold
<1>2. Spec => []IInv
  BY InvariantHolds
<1>3. QED BY <1>1, <1>2, PTL

(* Without either race the tokens on disk claim no item of the server that *)
(* is not on disk as well, or something edited from it                     *)
(* (handleSuccessServerResponse, setLastSyncToken, setPaginationToken).    *)
THEOREM SyncDataStoredTokensAreCovered ==
  ASSUME Environment = {}
  PROVE  Spec => []StoredTokensAreCovered
<1>1. IInv => StoredTokensAreCovered
  BY TokensHold
<1>2. Spec => []IInv
  BY InvariantHolds
<1>3. QED BY <1>1, <1>2, PTL
====
