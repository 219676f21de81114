--------------------------- MODULE Sessions_proofs ---------------------------
(***************************************************************************)
(* Theorems about Sessions, for any requests, attempts to sign in,         *)
(* expiries, failures and crashes: type correctness, that no request is    *)
(* carried out twice, that no token is refreshed twice, and that the       *)
(* client keeps up with the server.                                        *)
(***************************************************************************)
EXTENDS Sessions, FiniteSetTheorems, TLAPS

(* A request as it is, and how often it was executed.                       *)
CallRecord == [at : CallAt, pair : 0 .. MaxPairs, answer : Answer, new : 0 .. MaxPairs]

Sound(at, answer, times) ==
  /\ times \in 0 .. 1
  /\ at \in {"new", "refresh"} => times = 0
  /\ at \in {"sent", "retry"} /\ answer \notin {"ok", "error"} => times = 0
  /\ at \in {"sent", "retry"} /\ answer = "ok" => times = 1
  /\ at \in {"populating", "ok"} => times = 1

(* The flags are up for one request each.                                   *)
Busy == {"sent", "refresh", "retry"}

RefreshFlag ==
  /\ refreshing \in BOOLEAN
  /\ refreshing <=> \E r \in Request : call[r].at = "refresh"
  /\ \A r, q \in Request : call[r].at = "refresh" /\ call[q].at = "refresh" => r = q

ChangeFlag ==
  /\ changing \in BOOLEAN
  /\ changing <=> \E r \in Change : call[r].at \in Busy
  /\ \A r, q \in Change : call[r].at \in Busy /\ call[q].at \in Busy => r = q

CallInv ==
  /\ call \in [Request -> CallRecord]
  /\ executed = [r \in Request |-> executed[r]]
  /\ \A r \in Request : Sound(call[r].at, call[r].answer, executed[r])
  /\ RefreshFlag /\ ChangeFlag

(* At most one challenge is open, and each was asked for by another request. *)
Past == {"retry", "populating", "ok", "failed"}

Over == {r \in Request : call[r].at \in Past}

PromptInv ==
  /\ asked \in Nat /\ asked <= Cardinality(Over)
  /\ prompts \subseteq 1 .. asked /\ \A p, q \in prompts : p = q
  /\ presented \in BOOLEAN /\ (presented <=> prompts # {})

Away == {"sent", "answered"}

AttemptInv ==
  /\ attempt \in [Attempt -> [at : AttemptAt, prompt : 0 .. MaxPrompts, verifies : BOOLEAN,
                              new : 0 .. MaxPairs]]
  /\ verifier \in BOOLEAN /\ authenticating \in BOOLEAN
  /\ authenticating <=> \E a \in Attempt : attempt[a].at \in Away
  /\ \A a, b \in Attempt : attempt[a].at \in Away /\ attempt[b].at \in Away => a = b

OtherInv ==
  /\ server \in [Pair -> {"unused", "valid", "expired", "lapsed", "rotated", "replaced",
                          "dead", "revoked"}]
  /\ session \in 0 .. MaxPairs /\ stored \in 0 .. MaxPairs /\ saving \in 0 .. MaxPairs
  /\ signOut \in [Source -> [at : {"no", "network", "keys", "cleared"}, pair : 0 .. MaxPairs]]
  /\ alive \in BOOLEAN /\ missed \in BOOLEAN /\ late \in BOOLEAN
  /\ expiries \in 0 .. MaxExpiries /\ failures \in 0 .. MaxFailures /\ crashes \in 0 .. MaxCrashes

TypeInv == CallInv /\ PromptInv /\ AttemptInv /\ OtherInv

LEMMA Bounds == MaxPairs \in Nat \ {0} /\ MaxPrompts \in Nat
<1>1. IsFiniteSet(Change)
  BY FS_Subset, SessionsAssumption DEF SessionsAssumption
<1>2. Cardinality(Request) \in Nat /\ Cardinality(Change) \in Nat /\ Cardinality(Attempt) \in Nat
  BY <1>1, FS_CardinalityType, SessionsAssumption DEF SessionsAssumption
<1>3. QED BY <1>2 DEF MaxPairs, MaxPrompts

LEMMA TypeInvOK == TypeInv => TypeOK
<1> SUFFICES ASSUME TypeInv PROVE TypeOK
  OBVIOUS
<1>1. Cardinality(Over) <= MaxPrompts
  BY FS_Subset, SessionsAssumption DEF SessionsAssumption, Over, MaxPrompts
<1>2. Cardinality(Over) \in Nat
  BY FS_Subset, FS_CardinalityType, SessionsAssumption DEF SessionsAssumption, Over
<1>3. asked \in 0 .. MaxPrompts
  BY <1>1, <1>2, Bounds DEF TypeInv, PromptInv
<1>4. executed \in [Request -> 0 .. 2]
  BY DEF TypeInv, CallInv, Sound
<1>5. FlagsOK
  BY DEF FlagsOK, TypeInv, CallInv, RefreshFlag, ChangeFlag, Busy, AttemptInv, Away, PromptInv
<1>6. QED
  BY <1>3, <1>4, <1>5 DEF TypeOK, TypeInv, CallInv, CallRecord, RefreshFlag, ChangeFlag, PromptInv, AttemptInv, OtherInv

-----------------------------------------------------------------------------
(* How the record of a request changes.                                     *)
CallTo(r, at, pair, answer, new) ==
  call' = [call EXCEPT ![r] = [at |-> at, pair |-> pair, answer |-> answer, new |-> new]]

(* A flag goes up with the request that is busy, and down with it.          *)
FlagMoves(flag, was, is) ==
  /\ flag' \in BOOLEAN
  /\ \/ is /\ flag' /\ (was \/ ~flag)
     \/ ~is /\ was /\ ~flag'
     \/ ~is /\ ~was /\ (flag' <=> flag)

LEMMA CallKept ==
  ASSUME CallInv, NEW r \in Request, NEW at \in CallAt, NEW pair \in 0 .. MaxPairs,
         NEW answer \in Answer, NEW new \in 0 .. MaxPairs, NEW times,
         CallTo(r, at, pair, answer, new),
         executed' = [executed EXCEPT ![r] = times], Sound(at, answer, times),
         FlagMoves(refreshing, call[r].at = "refresh", at = "refresh"),
         FlagMoves(changing, r \in Change /\ call[r].at \in Busy, r \in Change /\ at \in Busy)
  PROVE  /\ CallInv'
         /\ call'[r] = [at |-> at, pair |-> pair, answer |-> answer, new |-> new]
         /\ \A q \in Request \ {r} : call'[q] = call[q]
<1> DEFINE n == [at |-> at, pair |-> pair, answer |-> answer, new |-> new]
<1>1. n \in CallRecord /\ n.at = at /\ n.answer = answer
  BY DEF CallRecord
<1>2. call' \in [Request -> CallRecord] /\ call'[r] = n /\ \A q \in Request \ {r} : call'[q] = call[q]
  BY <1>1 DEF CallInv, CallTo
<1>3. /\ executed' = [q \in Request |-> executed'[q]]
      /\ executed'[r] = times /\ \A q \in Request \ {r} : executed'[q] = executed[q]
  BY DEF CallInv
<1>4. \A q \in Request : Sound(call'[q].at, call'[q].answer, executed'[q])
  BY <1>1, <1>2, <1>3 DEF CallInv
<1>5. RefreshFlag'
  <2>1. CASE at = "refresh"
    BY <1>1, <1>2, <2>1 DEF CallInv, RefreshFlag, FlagMoves
  <2>2. CASE at # "refresh" /\ call[r].at = "refresh"
    BY <1>1, <1>2, <2>2 DEF CallInv, RefreshFlag, FlagMoves
  <2>3. CASE at # "refresh" /\ call[r].at # "refresh"
    BY <1>1, <1>2, <2>3 DEF CallInv, RefreshFlag, FlagMoves
  <2>4. QED BY <2>1, <2>2, <2>3
<1>6. ChangeFlag'
  BY <1>1, <1>2, SessionsAssumption DEF SessionsAssumption, CallInv, ChangeFlag, FlagMoves
<1>7. QED BY <1>2, <1>3, <1>4, <1>5, <1>6 DEF CallInv

LEMMA CallParts ==
  ASSUME call \in [Request -> CallRecord], NEW r \in Request, NEW x, NEW y
  PROVE  /\ call' = [call EXCEPT ![r].at = x] =>
              CallTo(r, x, call[r].pair, call[r].answer, call[r].new)
         /\ call' = [call EXCEPT ![r].answer = x] =>
              CallTo(r, call[r].at, call[r].pair, x, call[r].new)
         /\ call' = [call EXCEPT ![r].answer = x, ![r].new = y] =>
              CallTo(r, call[r].at, call[r].pair, x, y)
<1> DEFINE c == call[r]
<1>1. c \in CallRecord
  OBVIOUS
<1>2. [c EXCEPT !.at = x] = [at |-> x, pair |-> c.pair, answer |-> c.answer, new |-> c.new]
  BY <1>1 DEF CallRecord
<1>3. [c EXCEPT !.answer = x] = [at |-> c.at, pair |-> c.pair, answer |-> x, new |-> c.new]
  BY <1>1 DEF CallRecord
<1>4. [[c EXCEPT !.answer = x] EXCEPT !.new = y] = [at |-> c.at, pair |-> c.pair, answer |-> x, new |-> y]
  <2> DEFINE d == [at |-> c.at, pair |-> c.pair, answer |-> x, new |-> c.new]
  <2>1. [d EXCEPT !.new = y] = [at |-> c.at, pair |-> c.pair, answer |-> x, new |-> y]
    OBVIOUS
  <2>2. [[c EXCEPT !.answer = x] EXCEPT !.new = y] = [d EXCEPT !.new = y]
    BY <1>3
  <2>3. QED BY <2>1, <2>2
<1>5. /\ [call EXCEPT ![r].at = x] = [call EXCEPT ![r] = [c EXCEPT !.at = x]]
      /\ [call EXCEPT ![r].answer = x] = [call EXCEPT ![r] = [c EXCEPT !.answer = x]]
      /\ [call EXCEPT ![r].answer = x, ![r].new = y]
           = [call EXCEPT ![r] = [[c EXCEPT !.answer = x] EXCEPT !.new = y]]
  OBVIOUS
<1>6. QED BY <1>2, <1>3, <1>4, <1>5 DEF CallTo

LEMMA OverCounts ==
  ASSUME Over \subseteq Over'
  PROVE  /\ Cardinality(Over) \in Nat /\ Cardinality(Over)' \in Nat
         /\ Cardinality(Over) <= Cardinality(Over)'
         /\ \A r \in Over' \ Over : Cardinality(Over) + 1 <= Cardinality(Over)'
<1>1. IsFiniteSet(Over) /\ IsFiniteSet(Over')
  BY FS_Subset, SessionsAssumption DEF SessionsAssumption, Over
<1>2. Cardinality(Over) \in Nat /\ Cardinality(Over') \in Nat /\ Cardinality(Over) <= Cardinality(Over')
  BY <1>1, FS_CardinalityType, FS_Subset
<1>3. ASSUME NEW r \in Over' \ Over PROVE Cardinality(Over) + 1 <= Cardinality(Over')
  <2>1. IsFiniteSet(Over \cup {r}) /\ Cardinality(Over \cup {r}) = Cardinality(Over) + 1
    BY <1>1, <1>3, FS_AddElement
  <2>2. Over \cup {r} \subseteq Over'
    BY <1>3
  <2>3. QED BY <1>1, <2>1, <2>2, FS_Subset
<1>4. QED BY <1>2, <1>3

LEMMA PromptKept ==
  ASSUME PromptInv, Over \subseteq Over', UNCHANGED prompt
  PROVE  PromptInv'
BY OverCounts DEF PromptInv, prompt

LEMMA PromptAsked ==
  ASSUME PromptInv, Over \subseteq Over', NEW r \in Over' \ Over, Reauthenticate
  PROVE  PromptInv'
<1>1. CASE presented
  BY <1>1, PromptKept DEF Reauthenticate
<1>2. CASE ~presented
  <2>1. prompts = {} /\ asked \in Nat /\ prompts' = {asked + 1} /\ asked' = asked + 1 /\ presented'
    BY <1>2 DEF PromptInv, Reauthenticate
  <2>2. asked' \in Nat /\ asked' <= Cardinality(Over)'
    BY <2>1, OverCounts DEF PromptInv
  <2>3. prompts' \subseteq 1 .. asked' /\ \A p, q \in prompts' : p = q
    BY <2>1
  <2>4. presented' = TRUE
    BY <1>2 DEF Reauthenticate
  <2>5. QED BY <2>1, <2>2, <2>3, <2>4 DEF PromptInv
<1>3. QED BY <1>1, <1>2

LEMMA PromptClosed ==
  ASSUME PromptInv, Over \subseteq Over', NEW p, Closed(p)
  PROVE  PromptInv'
<1>1. asked' \in Nat /\ asked' <= Cardinality(Over)'
  BY OverCounts DEF PromptInv, Closed
<1>2. prompts' \subseteq 1 .. asked' /\ \A q, o \in prompts' : q = o
  BY DEF PromptInv, Closed
<1>3. presented' \in BOOLEAN /\ (presented' <=> presented /\ p \notin prompts)
  BY DEF PromptInv, Closed
<1>4. prompts' # {} <=> prompts # {} /\ p \notin prompts
  BY DEF PromptInv, Closed
<1>5. QED BY <1>1, <1>2, <1>3, <1>4 DEF PromptInv

-----------------------------------------------------------------------------
(* How the record of an attempt changes.                                    *)
AttemptTo(a, at, p, verifies, new) ==
  attempt' = [attempt EXCEPT ![a] = [at |-> at, prompt |-> p, verifies |-> verifies, new |-> new]]

LEMMA AttemptKept ==
  ASSUME AttemptInv, NEW a \in Attempt, NEW at \in AttemptAt, NEW p \in 0 .. MaxPrompts,
         NEW verifies \in BOOLEAN, NEW new \in 0 .. MaxPairs, AttemptTo(a, at, p, verifies, new),
         verifier' \in BOOLEAN, FlagMoves(authenticating, attempt[a].at \in Away, at \in Away)
  PROVE  AttemptInv'
<1> DEFINE n == [at |-> at, prompt |-> p, verifies |-> verifies, new |-> new]
<1>1. /\ attempt' \in [Attempt -> [at : AttemptAt, prompt : 0 .. MaxPrompts, verifies : BOOLEAN,
                                    new : 0 .. MaxPairs]]
      /\ attempt'[a] = n /\ \A b \in Attempt \ {a} : attempt'[b] = attempt[b]
      /\ n.at = at
  BY DEF AttemptInv, AttemptTo
<1> HIDE DEF n
<1>2. CASE at \in Away
  BY <1>1, <1>2 DEF AttemptInv, FlagMoves
<1>3. CASE at \notin Away /\ attempt[a].at \in Away
  BY <1>1, <1>3 DEF AttemptInv, FlagMoves
<1>4. CASE at \notin Away /\ attempt[a].at \notin Away
  BY <1>1, <1>4 DEF AttemptInv, FlagMoves
<1>5. QED BY <1>2, <1>3, <1>4

LEMMA AttemptParts ==
  ASSUME AttemptInv, NEW a \in Attempt, NEW x, NEW y
  PROVE  /\ attempt' = [attempt EXCEPT ![a].at = x] =>
              AttemptTo(a, x, attempt[a].prompt, attempt[a].verifies, attempt[a].new)
         /\ attempt' = [attempt EXCEPT ![a].at = x, ![a].verifies = y] =>
              AttemptTo(a, x, attempt[a].prompt, y, attempt[a].new)
         /\ attempt' = [attempt EXCEPT ![a].at = x, ![a].new = y] =>
              AttemptTo(a, x, attempt[a].prompt, attempt[a].verifies, y)
<1> DEFINE c == attempt[a]
           d == [at |-> x, prompt |-> c.prompt, verifies |-> c.verifies, new |-> c.new]
<1>1. c \in [at : AttemptAt, prompt : 0 .. MaxPrompts, verifies : BOOLEAN, new : 0 .. MaxPairs]
  BY DEF AttemptInv
<1>2. [c EXCEPT !.at = x] = d
  BY <1>1
<1>3. /\ [d EXCEPT !.verifies = y] = [at |-> x, prompt |-> c.prompt, verifies |-> y, new |-> c.new]
      /\ [d EXCEPT !.new = y] = [at |-> x, prompt |-> c.prompt, verifies |-> c.verifies, new |-> y]
  OBVIOUS
<1>4. /\ [attempt EXCEPT ![a].at = x] = [attempt EXCEPT ![a] = [c EXCEPT !.at = x]]
      /\ [attempt EXCEPT ![a].at = x, ![a].verifies = y]
           = [attempt EXCEPT ![a] = [[c EXCEPT !.at = x] EXCEPT !.verifies = y]]
      /\ [attempt EXCEPT ![a].at = x, ![a].new = y]
           = [attempt EXCEPT ![a] = [[c EXCEPT !.at = x] EXCEPT !.new = y]]
  BY DEF AttemptInv
<1>5. QED BY <1>2, <1>3, <1>4 DEF AttemptTo

-----------------------------------------------------------------------------
(* One request moves on.                                                    *)
LEMMA CallMoves ==
  ASSUME CallInv, NEW r \in Request, NEW at \in CallAt, NEW pair \in 0 .. MaxPairs,
         NEW answer \in Answer, NEW new \in 0 .. MaxPairs,
         CallTo(r, at, pair, answer, new), UNCHANGED executed, Sound(at, answer, executed[r]),
         call[r].at \in Past => at \in Past,
         FlagMoves(refreshing, call[r].at = "refresh", at = "refresh"),
         FlagMoves(changing, r \in Change /\ call[r].at \in Busy, r \in Change /\ at \in Busy)
  PROVE  /\ CallInv' /\ Over \subseteq Over'
         /\ call[r].at \notin Past /\ at \in Past => r \in Over' \ Over
<1>1. executed' = [executed EXCEPT ![r] = executed[r]]
  BY DEF CallInv
<1>2. /\ CallInv'
      /\ call'[r] = [at |-> at, pair |-> pair, answer |-> answer, new |-> new]
      /\ \A q \in Request \ {r} : call'[q] = call[q]
  BY <1>1, CallKept
<1>3. call'[r].at = at
  BY <1>2
<1>4. Over \subseteq Over'
  BY <1>2, <1>3 DEF Over
<1>5. call[r].at \notin Past /\ at \in Past => r \in Over' \ Over
  BY <1>3 DEF Over
<1>6. QED BY <1>2, <1>4, <1>5

LEMMA EndMoves ==
  ASSUME CallInv, NEW r \in Request, NEW at \in {"ok", "failed"}, End(r, at), UNCHANGED executed,
         at = "ok" => executed[r] = 1,
         FlagMoves(refreshing, call[r].at = "refresh", FALSE),
         FlagMoves(changing, r \in Change /\ call[r].at \in Busy, FALSE)
  PROVE  /\ CallInv' /\ Over \subseteq Over'
         /\ call[r].at \notin Past => r \in Over' \ Over
<1>1. CallTo(r, at, 0, "none", 0)
  BY DEF End, CallTo
<1>2. at \in CallAt /\ at \in Past /\ at \notin Busy /\ at # "refresh" /\ "none" \in Answer
  BY DEF CallAt, Past, Busy, Answer
<1>3. 0 \in 0 .. MaxPairs
  BY Bounds
<1>4. Sound(at, "none", executed[r])
  BY DEF CallInv, Sound
<1>5. FlagMoves(refreshing, call[r].at = "refresh", at = "refresh")
  BY <1>2 DEF FlagMoves
<1>6. FlagMoves(changing, r \in Change /\ call[r].at \in Busy, r \in Change /\ at \in Busy)
  BY <1>2 DEF FlagMoves
<1>7. QED BY <1>1, <1>2, <1>3, <1>4, <1>5, <1>6, CallMoves

LEMMA ChangeEnds ==
  ASSUME CallInv, NEW r \in Request, call[r].at \in Busy, changing' = (changing /\ r \notin Change)
  PROVE  FlagMoves(changing, r \in Change /\ call[r].at \in Busy, FALSE)
<1>1. changing' \in BOOLEAN /\ (changing' <=> changing /\ r \notin Change)
  BY DEF CallInv, ChangeFlag
<1>2. CASE r \in Change
  BY <1>1, <1>2 DEF FlagMoves, CallInv, ChangeFlag
<1>3. CASE r \notin Change
  BY <1>1, <1>3 DEF FlagMoves
<1>4. QED BY <1>2, <1>3

LEMMA FinishMoves ==
  ASSUME CallInv, NEW r \in Request, call[r].at \in {"sent", "retry"}, call[r].answer # "none",
         Finish(r), UNCHANGED <<refreshing, executed>>
  PROVE  /\ CallInv' /\ Over \subseteq Over'
         /\ call[r].at = "sent" => r \in Over' \ Over
<1>1. /\ call[r].at \in Busy /\ call[r].at # "refresh"
      /\ call[r].at = "sent" => call[r].at \notin Past
  BY DEF Busy, Past
<1>2. FlagMoves(refreshing, call[r].at = "refresh", FALSE)
  BY <1>1 DEF FlagMoves, CallInv, RefreshFlag
<1>3. FlagMoves(changing, r \in Change /\ call[r].at \in Busy, FALSE)
  BY <1>1, ChangeEnds DEF Finish
<1>4. call[r].answer = "ok" => executed[r] = 1
  BY DEF CallInv, Sound
<1>5. CASE End(r, "failed") \/ (call[r].answer = "ok" /\ End(r, "ok"))
  BY <1>1, <1>2, <1>3, <1>4, <1>5, EndMoves
<1>6. CASE call[r].answer = "ok" /\ call' = [call EXCEPT ![r].at = "populating"]
  <2>1. CallTo(r, "populating", call[r].pair, call[r].answer, call[r].new)
    BY <1>6, CallParts DEF CallInv
  <2>2. /\ call[r].pair \in 0 .. MaxPairs /\ call[r].answer \in Answer /\ call[r].new \in 0 .. MaxPairs
        /\ "populating" \in CallAt /\ "populating" \in Past /\ "populating" \notin Busy
    BY DEF CallInv, CallRecord, CallAt, Past, Busy
  <2>3. Sound("populating", call[r].answer, executed[r])
    BY <1>4, <1>6 DEF Sound, CallInv
  <2>4. FlagMoves(refreshing, call[r].at = "refresh", "populating" = "refresh")
    BY <1>2 DEF FlagMoves
  <2>5. FlagMoves(changing, r \in Change /\ call[r].at \in Busy, r \in Change /\ "populating" \in Busy)
    BY <1>3, <2>2 DEF FlagMoves
  <2>6. QED BY <1>1, <2>1, <2>2, <2>3, <2>4, <2>5, CallMoves
<1>7. QED BY <1>5, <1>6 DEF Finish

-----------------------------------------------------------------------------
(* The steps.                                                               *)
LEMMA FlagsStay ==
  ASSUME CallInv, NEW r \in Request, NEW at, UNCHANGED <<refreshing, changing>>,
         at = call[r].at \/ (at \notin Busy /\ call[r].at \notin Busy)
           \/ (at \in Busy /\ call[r].at \in Busy /\ at # "refresh" /\ call[r].at # "refresh")
  PROVE  /\ FlagMoves(refreshing, call[r].at = "refresh", at = "refresh")
         /\ FlagMoves(changing, r \in Change /\ call[r].at \in Busy, r \in Change /\ at \in Busy)
<1>1. /\ refreshing \in BOOLEAN /\ refreshing' = refreshing
      /\ call[r].at = "refresh" => refreshing
      /\ at = "refresh" <=> call[r].at = "refresh"
  BY DEF CallInv, RefreshFlag, Busy
<1>2. /\ changing \in BOOLEAN /\ changing' = changing
      /\ r \in Change /\ call[r].at \in Busy => changing
      /\ at \in Busy <=> call[r].at \in Busy
  BY DEF CallInv, ChangeFlag
<1>3. FlagMoves(refreshing, call[r].at = "refresh", at = "refresh")
  BY <1>1 DEF FlagMoves
<1>4. FlagMoves(changing, r \in Change /\ call[r].at \in Busy, r \in Change /\ at \in Busy)
  BY <1>2 DEF FlagMoves
<1>5. QED BY <1>3, <1>4

(* An answer is on its way, and nothing else of the client changes.         *)
LEMMA AnswerMoves ==
  ASSUME CallInv, NEW r \in Request, NEW answer \in Answer, NEW new \in 0 .. MaxPairs,
         CallTo(r, call[r].at, call[r].pair, answer, new), NEW times,
         executed' = [executed EXCEPT ![r] = times], Sound(call[r].at, answer, times),
         UNCHANGED <<refreshing, changing>>
  PROVE  CallInv' /\ Over \subseteq Over'
<1>1. call[r].at \in CallAt /\ call[r].pair \in 0 .. MaxPairs
  BY DEF CallInv, CallRecord
<1>2. /\ FlagMoves(refreshing, call[r].at = "refresh", call[r].at = "refresh")
      /\ FlagMoves(changing, r \in Change /\ call[r].at \in Busy, r \in Change /\ call[r].at \in Busy)
  BY FlagsStay
<1>3. /\ CallInv'
      /\ call'[r] = [at |-> call[r].at, pair |-> call[r].pair, answer |-> answer, new |-> new]
      /\ \A q \in Request \ {r} : call'[q] = call[q]
  BY <1>1, <1>2, CallKept
<1>4. call'[r].at = call[r].at
  BY <1>3
<1>5. QED BY <1>3, <1>4 DEF Over

LEMMA AttemptSame ==
  ASSUME AttemptInv, UNCHANGED <<attempt, verifier, authenticating>>
  PROVE  AttemptInv'
BY DEF AttemptInv

LEMMA OtherSame ==
  ASSUME OtherInv, UNCHANGED <<server, tokens, signOut, alive, missed, late, limits>>
  PROVE  OtherInv'
BY DEF OtherInv, tokens, limits

LEMMA ServeKept ==
  ASSUME TypeInv, NEW r \in Request, Serve(r)
  PROVE  TypeInv'
<1>1. CallInv /\ call \in [Request -> CallRecord] /\ call[r] \in CallRecord
  BY DEF TypeInv, CallInv
<1>2. executed[r] = 0 /\ executed = [executed EXCEPT ![r] = 0]
  BY DEF TypeInv, CallInv, Sound, Serve
<1>3. PICK answer \in AnswersTo(call[r].pair) :
        IF answer = "ok"
        THEN Execute(r, call[r].pair) /\ executed' = [executed EXCEPT ![r] = @ + 1]
        ELSE call' = [call EXCEPT ![r].answer = answer] /\ UNCHANGED <<server, executed>>
  BY DEF Serve
<1>4. answer \in Answer /\ answer # "none" /\ answer # "error"
  <2>1. OtherInv /\ call[r].pair \in 0 .. MaxPairs
    BY <1>1 DEF TypeInv, CallRecord
  <2>2. CASE call[r].pair = 0
    BY <1>3, <2>2 DEF AnswersTo, Answer
  <2>3. CASE call[r].pair # 0
    <3>1. call[r].pair \in Pair
      BY <2>1, <2>3, Bounds DEF Pair
    <3>2. server[call[r].pair] \in {"unused", "valid", "expired", "lapsed", "rotated", "replaced",
                                    "dead", "revoked"}
      BY <2>1, <3>1 DEF OtherInv
    <3>3. QED BY <1>3, <2>3, <3>2 DEF AnswersTo, Answer
  <2>4. QED BY <2>2, <2>3
<1>5. UNCHANGED <<refreshing, changing>> /\ call[r].at \in {"sent", "retry"}
  BY DEF Serve
<1>6. CallInv' /\ Over \subseteq Over'
  <2>1. CASE answer # "ok"
    <3>1. CallTo(r, call[r].at, call[r].pair, answer, call[r].new) /\ executed' = [executed EXCEPT ![r] = 0]
      BY <1>1, <1>2, <1>3, <2>1, CallParts
    <3>2. Sound(call[r].at, answer, 0)
      BY <1>4, <1>5, <2>1 DEF Sound
    <3>3. QED BY <1>1, <1>4, <1>5, <3>1, <3>2, AnswerMoves DEF CallRecord
  <2>2. CASE answer = "ok"
    <3>1. \E n \in 0 .. MaxPairs : CallTo(r, call[r].at, call[r].pair, "ok", n)
      <4>1. CASE r \in Change
        <5>1. PICK n \in Fresh : call' = [call EXCEPT ![r].answer = "ok", ![r].new = n]
          BY <1>3, <2>2, <4>1 DEF Execute
        <5>2. n \in 0 .. MaxPairs
          BY Bounds DEF Fresh, Pair
        <5>3. CallTo(r, call[r].at, call[r].pair, "ok", n)
          BY <1>1, <5>1, CallParts
        <5>4. QED BY <5>2, <5>3
      <4>2. CASE r \notin Change
        <5>1. CallTo(r, call[r].at, call[r].pair, "ok", call[r].new)
          BY <1>1, <1>3, <2>2, <4>2, CallParts DEF Execute
        <5>2. QED BY <1>1, <5>1 DEF CallRecord
      <4>3. QED BY <4>1, <4>2
    <3>2. executed' = [executed EXCEPT ![r] = 1]
      BY <1>2, <1>3, <2>2
    <3>3. Sound(call[r].at, "ok", 1) /\ "ok" \in Answer
      BY <1>5 DEF Sound, Answer
    <3>4. QED BY <1>1, <1>5, <3>1, <3>2, <3>3, AnswerMoves
  <2>3. QED BY <2>1, <2>2
<1>7. PromptInv' /\ AttemptInv'
  BY <1>6, PromptKept, AttemptSame DEF TypeInv, Serve
<1>8. OtherInv'
  <2>1. server' \in [Pair -> {"unused", "valid", "expired", "lapsed", "rotated", "replaced",
                              "dead", "revoked"}]
    BY <1>3 DEF TypeInv, OtherInv, Execute
  <2>2. QED BY <2>1 DEF TypeInv, OtherInv, Serve, tokens, limits
<1>9. QED BY <1>6, <1>7, <1>8 DEF TypeInv

LEMMA ServeRefreshKept ==
  ASSUME TypeInv, NEW r \in Request, ServeRefresh(r)
  PROVE  TypeInv'
<1>1. CallInv /\ call \in [Request -> CallRecord] /\ call[r] \in CallRecord
  BY DEF TypeInv, CallInv
<1>2. /\ call[r].at = "refresh" /\ executed[r] = 0 /\ executed' = [executed EXCEPT ![r] = 0]
      /\ UNCHANGED <<refreshing, changing>>
  BY DEF TypeInv, CallInv, Sound, ServeRefresh, history
<1>3. \A answer \in Answer : Sound(call[r].at, answer, 0)
  BY <1>2 DEF Sound
<1>4. \E answer \in Answer, n \in 0 .. MaxPairs : CallTo(r, call[r].at, call[r].pair, answer, n)
  <2>1. CASE \E n \in Fresh : call' = [call EXCEPT ![r].answer = "ok", ![r].new = n]
    <3>1. PICK n \in Fresh : call' = [call EXCEPT ![r].answer = "ok", ![r].new = n]
      BY <2>1
    <3>2. n \in 0 .. MaxPairs /\ "ok" \in Answer
      BY Bounds DEF Fresh, Pair, Answer
    <3>3. CallTo(r, call[r].at, call[r].pair, "ok", n)
      BY <1>1, <3>1, CallParts
    <3>4. QED BY <3>2, <3>3
  <2>2. CASE \E answer \in {"revoked", "invalid", "error"} : call' = [call EXCEPT ![r].answer = answer]
    <3>1. PICK answer \in {"revoked", "invalid", "error"} : call' = [call EXCEPT ![r].answer = answer]
      BY <2>2
    <3>2. CallTo(r, call[r].at, call[r].pair, answer, call[r].new)
      BY <1>1, <3>1, CallParts
    <3>3. QED BY <1>1, <3>2 DEF CallRecord, Answer
  <2>3. QED BY <2>1, <2>2 DEF ServeRefresh
<1>5. CallInv' /\ Over \subseteq Over'
  BY <1>1, <1>2, <1>3, <1>4, AnswerMoves
<1>6. PromptInv' /\ AttemptInv'
  BY <1>5, PromptKept, AttemptSame DEF TypeInv, ServeRefresh
<1>7. OtherInv'
  <2>1. server' \in [Pair -> {"unused", "valid", "expired", "lapsed", "rotated", "replaced",
                              "dead", "revoked"}]
    BY DEF TypeInv, OtherInv, ServeRefresh
  <2>2. QED BY <2>1 DEF TypeInv, OtherInv, ServeRefresh, tokens, history, limits
<1>8. QED BY <1>5, <1>6, <1>7 DEF TypeInv

LEMMA LoseAnswerKept ==
  ASSUME TypeInv, NEW r \in Request, LoseAnswer(r)
  PROVE  TypeInv'
<1>1. CallInv /\ call \in [Request -> CallRecord] /\ executed' = [executed EXCEPT ![r] = executed[r]]
  BY DEF TypeInv, CallInv, LoseAnswer
<1>2. Sound(call[r].at, "error", executed[r]) /\ "error" \in Answer /\ 0 \in 0 .. MaxPairs
  BY Bounds DEF TypeInv, CallInv, Sound, LoseAnswer, Answer
<1>3. CallTo(r, call[r].at, call[r].pair, "error", 0)
  BY <1>1, CallParts DEF LoseAnswer
<1>4. UNCHANGED <<refreshing, changing>>
  BY DEF LoseAnswer
<1>5. CallInv' /\ Over \subseteq Over'
  BY <1>1, <1>2, <1>3, <1>4, AnswerMoves
<1>6. PromptInv' /\ AttemptInv'
  BY <1>5, PromptKept, AttemptSame DEF TypeInv, LoseAnswer
<1>7. OtherInv'
  <2>1. failures' \in 0 .. MaxFailures /\ missed' \in BOOLEAN
    BY SessionsAssumption DEF SessionsAssumption, TypeInv, OtherInv, LoseAnswer
  <2>2. QED BY <2>1 DEF TypeInv, OtherInv, LoseAnswer, tokens
<1>8. QED BY <1>5, <1>6, <1>7 DEF TypeInv

LEMMA MakeKept ==
  ASSUME TypeInv, NEW r \in Request, Make(r)
  PROVE  TypeInv'
<1>1. CallInv /\ call \in [Request -> CallRecord] /\ UNCHANGED <<refreshing, executed>>
  BY DEF TypeInv, CallInv, Make, history
<1>2. /\ call[r].at = "new" /\ executed[r] = 0
      /\ "new" \notin Busy /\ "new" \notin Past /\ "none" \in Answer
      /\ call[r].pair \in 0 .. MaxPairs /\ call[r].answer \in Answer /\ call[r].new \in 0 .. MaxPairs
  BY DEF TypeInv, CallInv, CallRecord, Sound, Make, Busy, Past, Answer
<1>3. CallInv' /\ Over \subseteq Over'
  <2>1. CASE MayRequest /\ ~(r \in Change /\ changing)
    <3>1. CallTo(r, "sent", session, "none", 0) /\ changing' = (changing \/ r \in Change)
      BY <2>1 DEF Make, CallTo
    <3>2. /\ "sent" \in CallAt /\ "sent" \in Busy /\ session \in 0 .. MaxPairs /\ 0 \in 0 .. MaxPairs
          /\ Sound("sent", "none", executed[r])
      BY <1>2, Bounds DEF TypeInv, OtherInv, CallAt, Busy, Sound
    <3>3. FlagMoves(refreshing, call[r].at = "refresh", "sent" = "refresh")
      BY <1>1, <1>2 DEF FlagMoves, CallInv, RefreshFlag
    <3>4. FlagMoves(changing, r \in Change /\ call[r].at \in Busy, r \in Change /\ "sent" \in Busy)
      <4>1. changing' \in BOOLEAN /\ (changing' <=> changing \/ r \in Change)
        BY <1>1, <3>1 DEF CallInv, ChangeFlag
      <4>2. QED BY <1>2, <2>1, <3>2, <4>1 DEF FlagMoves
    <3>5. QED BY <1>1, <1>2, <3>1, <3>2, <3>3, <3>4, CallMoves
  <2>2. CASE ~(MayRequest /\ ~(r \in Change /\ changing))
    <3>1. CallTo(r, "failed", call[r].pair, call[r].answer, call[r].new) /\ UNCHANGED changing
      BY <1>1, <2>2, CallParts DEF Make
    <3>2. /\ "failed" \in CallAt /\ "failed" \notin Busy /\ "failed" \in Past
          /\ Sound("failed", call[r].answer, executed[r])
      BY <1>2 DEF CallAt, Busy, Past, Sound
    <3>3. /\ FlagMoves(refreshing, call[r].at = "refresh", "failed" = "refresh")
          /\ FlagMoves(changing, r \in Change /\ call[r].at \in Busy, r \in Change /\ "failed" \in Busy)
      BY <1>1, <1>2, <3>1, <3>2, FlagsStay
    <3>4. QED BY <1>1, <1>2, <3>1, <3>2, <3>3, CallMoves
  <2>3. QED BY <2>1, <2>2
<1>4. PromptInv' /\ AttemptInv'
  BY <1>3, PromptKept, AttemptSame DEF TypeInv, Make
<1>5. OtherInv'
  BY OtherSame DEF TypeInv, Make, history
<1>6. QED BY <1>3, <1>4, <1>5 DEF TypeInv

SignOutType == [Source -> [at : {"no", "network", "keys", "cleared"}, pair : 0 .. MaxPairs]]

LEMMA BeginSignOutKept ==
  ASSUME OtherInv, NEW s \in Source, BeginSignOut(s)
  PROVE  signOut' \in SignOutType
<1>1. [at |-> IF session = 0 THEN "keys" ELSE "network", pair |-> session]
        \in [at : {"no", "network", "keys", "cleared"}, pair : 0 .. MaxPairs]
  BY DEF OtherInv
<1>2. QED BY <1>1 DEF OtherInv, BeginSignOut, SignOutType

LEMMA Observed ==
  ASSUME TypeInv, NEW answer, ObserveError(answer), Over \subseteq Over', NEW r \in Over' \ Over
  PROVE  PromptInv' /\ signOut' \in SignOutType
<1>1. CASE answer = "invalid" /\ session # 0
  <2>1. Reauthenticate /\ UNCHANGED signOut
    BY <1>1 DEF ObserveError
  <2>2. QED BY <2>1, PromptAsked DEF TypeInv, OtherInv, SignOutType
<1>2. CASE answer = "revoked" /\ session # 0
  <2>1. BeginSignOut("revoked") /\ UNCHANGED prompt
    BY <1>2 DEF ObserveError
  <2>2. QED BY <2>1, PromptKept, BeginSignOutKept DEF TypeInv, Source
<1>3. CASE ~(answer = "invalid" /\ session # 0) /\ ~(answer = "revoked" /\ session # 0)
  <2>1. UNCHANGED <<prompt, signOut>>
    BY <1>3 DEF ObserveError
  <2>2. QED BY <2>1, PromptKept DEF TypeInv, OtherInv, SignOutType
<1>4. QED BY <1>1, <1>2, <1>3

LEMMA SetKept ==
  ASSUME OtherInv, NEW n \in 0 .. MaxPairs, SetSession(n)
  PROVE  /\ session' \in 0 .. MaxPairs /\ stored' \in 0 .. MaxPairs /\ saving' \in 0 .. MaxPairs
         /\ late' \in BOOLEAN
BY DEF OtherInv, SetSession

LEMMA GetAnswerKept ==
  ASSUME TypeInv, NEW r \in Request, GetAnswer(r)
  PROVE  TypeInv'
<1>1. /\ CallInv /\ call \in [Request -> CallRecord] /\ UNCHANGED executed
      /\ call[r].at = "sent" /\ call[r].answer # "none"
  BY DEF TypeInv, CallInv, GetAnswer, Replied, history
<1>2. "sent" \in Busy /\ "sent" \notin Past
  BY DEF Busy, Past
<1>3. CallInv' /\ Over \subseteq Over' /\ ((PromptInv' /\ signOut' \in SignOutType) \/ r \in Over' \ Over)
  <2>1. CASE call[r].answer = "expired" /\ MayRequest
    <3>1. /\ refreshing' = TRUE /\ UNCHANGED changing
          /\ CallTo(r, "refresh", session, "none", 0)
      BY <2>1 DEF GetAnswer, Refresh, CallTo
    <3>2. /\ "refresh" \in CallAt /\ session \in 0 .. MaxPairs /\ "none" \in Answer /\ 0 \in 0 .. MaxPairs
          /\ "refresh" \in Busy
      BY Bounds DEF TypeInv, OtherInv, CallAt, Answer, Busy
    <3>3. Sound("refresh", "none", executed[r])
      BY <1>1, <2>1 DEF CallInv, Sound
    <3>4. FlagMoves(refreshing, call[r].at = "refresh", "refresh" = "refresh")
      BY <2>1, <3>1 DEF FlagMoves, MayRequest
    <3>5. FlagMoves(changing, r \in Change /\ call[r].at \in Busy, r \in Change /\ "refresh" \in Busy)
      <4>1. changing \in BOOLEAN /\ (r \in Change => changing)
        BY <1>1, <1>2 DEF CallInv, ChangeFlag
      <4>2. QED BY <1>1, <1>2, <3>1, <3>2, <4>1 DEF FlagMoves
    <3>6. CallInv' /\ Over \subseteq Over'
      BY <1>1, <1>2, <3>1, <3>2, <3>3, <3>4, <3>5, CallMoves
    <3>7. UNCHANGED <<prompt, signOut>>
      BY <2>1 DEF GetAnswer, ObserveError
    <3>8. QED BY <3>6, <3>7, PromptKept DEF TypeInv, OtherInv, SignOutType
  <2>2. CASE call[r].answer = "expired" /\ ~MayRequest
    <3>1. End(r, "failed") /\ changing' = (changing /\ r \notin Change) /\ UNCHANGED refreshing
      BY <2>2 DEF GetAnswer, Refresh
    <3>2. FlagMoves(changing, r \in Change /\ call[r].at \in Busy, FALSE)
      BY <1>1, <1>2, <3>1, ChangeEnds
    <3>3. FlagMoves(refreshing, call[r].at = "refresh", FALSE)
      BY <1>1, <3>1 DEF FlagMoves, CallInv, RefreshFlag
    <3>4. QED BY <1>1, <1>2, <3>1, <3>2, <3>3, EndMoves
  <2>3. CASE call[r].answer # "expired"
    <3>1. Finish(r) /\ UNCHANGED refreshing
      BY <2>3 DEF GetAnswer
    <3>2. QED BY <1>1, <3>1, FinishMoves
  <2>4. QED BY <2>1, <2>2, <2>3
<1>4. PromptInv' /\ signOut' \in SignOutType
  <2>1. CASE r \in Change
    BY <1>3, <2>1, PromptKept DEF GetAnswer, TypeInv, OtherInv, SignOutType
  <2>2. CASE r \notin Change
    BY <1>3, <2>2, Observed DEF GetAnswer
  <2>3. QED BY <2>1, <2>2
<1>5. AttemptInv' /\ OtherInv'
  <2>1. AttemptInv'
    BY AttemptSame DEF TypeInv, GetAnswer
  <2>2. OtherInv'
    BY <1>4 DEF TypeInv, OtherInv, GetAnswer, tokens, history, limits, SignOutType
  <2>3. QED BY <2>1, <2>2
<1>6. QED BY <1>3, <1>4, <1>5 DEF TypeInv

LEMMA GetPairKept ==
  ASSUME TypeInv, NEW r \in Request, GetPair(r)
  PROVE  TypeInv'
<1>1. /\ CallInv /\ call \in [Request -> CallRecord] /\ UNCHANGED executed
      /\ call[r].at = "refresh" /\ call[r].answer # "none" /\ executed[r] = 0
      /\ refreshing /\ refreshing' = FALSE /\ call[r].new \in 0 .. MaxPairs
  BY DEF TypeInv, CallInv, CallRecord, GetPair, Replied, RefreshFlag, Sound
<1>2. "refresh" \in Busy /\ "refresh" \notin Past
  BY DEF Busy, Past
<1>3. FlagMoves(refreshing, call[r].at = "refresh", FALSE)
  BY <1>1 DEF FlagMoves
<1>4. CASE call[r].answer = "ok"
  <2>1. /\ SetSession(call[r].new) /\ CallTo(r, "retry", call[r].new, "none", 0)
        /\ UNCHANGED <<changing, prompt, signOut>>
    BY <1>4 DEF GetPair, CallTo
  <2>2. /\ "retry" \in CallAt /\ "none" \in Answer /\ 0 \in 0 .. MaxPairs /\ "retry" \in Busy /\ "retry" \in Past
        /\ Sound("retry", "none", executed[r])
    BY <1>1, Bounds DEF CallAt, Answer, Busy, Past, Sound
  <2>3. FlagMoves(refreshing, call[r].at = "refresh", "retry" = "refresh")
    BY <1>3 DEF FlagMoves
  <2>4. FlagMoves(changing, r \in Change /\ call[r].at \in Busy, r \in Change /\ "retry" \in Busy)
    <3>1. changing \in BOOLEAN /\ (r \in Change => changing)
      BY <1>1, <1>2 DEF CallInv, ChangeFlag
    <3>2. QED BY <1>1, <1>2, <2>1, <2>2, <3>1 DEF FlagMoves
  <2>5. CallInv' /\ Over \subseteq Over'
    BY <1>1, <1>2, <2>1, <2>2, <2>3, <2>4, CallMoves
  <2>6. PromptInv' /\ AttemptInv'
    BY <2>1, <2>5, PromptKept, AttemptSame DEF TypeInv, GetPair
  <2>7. OtherInv'
    BY <1>1, <2>1, SetKept DEF TypeInv, OtherInv, GetPair, limits
  <2>8. QED BY <2>5, <2>6, <2>7 DEF TypeInv
<1>5. CASE call[r].answer # "ok"
  <2>1. /\ ObserveError(call[r].answer) /\ End(r, "failed")
        /\ changing' = (changing /\ r \notin Change) /\ UNCHANGED <<tokens, late>>
    BY <1>5 DEF GetPair
  <2>2. FlagMoves(changing, r \in Change /\ call[r].at \in Busy, FALSE)
    BY <1>1, <1>2, <2>1, ChangeEnds
  <2>3. CallInv' /\ Over \subseteq Over' /\ r \in Over' \ Over
    BY <1>1, <1>2, <1>3, <2>1, <2>2, EndMoves
  <2>4. PromptInv' /\ signOut' \in SignOutType
    BY <2>1, <2>3, Observed
  <2>5. AttemptInv'
    BY AttemptSame DEF TypeInv, GetPair
  <2>6. OtherInv'
    BY <2>1, <2>4 DEF TypeInv, OtherInv, GetPair, tokens, limits, SignOutType
  <2>7. QED BY <2>3, <2>4, <2>5, <2>6 DEF TypeInv
<1>6. QED BY <1>4, <1>5

LEMMA GetSecondAnswerKept ==
  ASSUME TypeInv, NEW r \in Request, GetSecondAnswer(r)
  PROVE  TypeInv'
<1>1. /\ CallInv /\ UNCHANGED <<refreshing, executed>>
      /\ call[r].at = "retry" /\ call[r].answer # "none" /\ Finish(r)
  BY DEF TypeInv, GetSecondAnswer, Replied, history
<1>2. CallInv' /\ Over \subseteq Over'
  BY <1>1, FinishMoves
<1>3. PromptInv' /\ AttemptInv'
  BY <1>2, PromptKept, AttemptSame DEF TypeInv, GetSecondAnswer
<1>4. OtherInv'
  BY OtherSame DEF TypeInv, GetSecondAnswer, history
<1>5. QED BY <1>2, <1>3, <1>4 DEF TypeInv

LEMMA PopulateFromChangeKept ==
  ASSUME TypeInv, NEW r \in Request, PopulateFromChange(r)
  PROVE  TypeInv'
<1>1. /\ CallInv /\ UNCHANGED <<refreshing, changing, executed>> /\ End(r, "ok")
      /\ call[r].at = "populating" /\ executed[r] = 1
      /\ call[r].new \in 0 .. MaxPairs /\ SetSession(call[r].new)
  BY DEF TypeInv, CallInv, CallRecord, Sound, PopulateFromChange
<1>2. /\ FlagMoves(refreshing, call[r].at = "refresh", FALSE)
      /\ FlagMoves(changing, r \in Change /\ call[r].at \in Busy, FALSE)
  BY <1>1 DEF CallInv, RefreshFlag, ChangeFlag, FlagMoves, Busy
<1>3. CallInv' /\ Over \subseteq Over'
  BY <1>1, <1>2, EndMoves
<1>4. PromptInv' /\ AttemptInv'
  BY <1>3, PromptKept, AttemptSame DEF TypeInv, PopulateFromChange
<1>5. OtherInv'
  BY <1>1, SetKept DEF TypeInv, OtherInv, PopulateFromChange, limits
<1>6. QED BY <1>3, <1>4, <1>5 DEF TypeInv

LEMMA CallSame ==
  ASSUME CallInv, UNCHANGED <<call, executed, refreshing, changing>>
  PROVE  CallInv' /\ Over \subseteq Over'
BY DEF CallInv, RefreshFlag, ChangeFlag, Over

LEMMA ExpireKept ==
  ASSUME TypeInv, NEW p \in Pair, Expire(p)
  PROVE  TypeInv'
<1>1. CallInv' /\ PromptInv' /\ AttemptInv'
  BY CallSame, PromptKept, AttemptSame DEF TypeInv, Expire, history
<1>2. OtherInv'
  <2>1. server' \in [Pair -> {"unused", "valid", "expired", "lapsed", "rotated", "replaced",
                              "dead", "revoked"}]
    BY DEF TypeInv, OtherInv, Expire
  <2>2. expiries' \in 0 .. MaxExpiries
    BY SessionsAssumption DEF SessionsAssumption, TypeInv, OtherInv, Expire
  <2>3. QED BY <2>1, <2>2 DEF TypeInv, OtherInv, Expire, tokens, history
<1>3. QED BY <1>1, <1>2 DEF TypeInv

LEMMA EndSessionKept ==
  ASSUME TypeInv, EndSession
  PROVE  TypeInv'
<1>1. CallInv' /\ PromptInv' /\ AttemptInv'
  BY CallSame, PromptKept, AttemptSame DEF TypeInv, EndSession, history
<1>2. OtherInv'
  BY DEF TypeInv, OtherInv, EndSession, tokens, history, limits
<1>3. QED BY <1>1, <1>2 DEF TypeInv

LEMMA SubmitKept ==
  ASSUME TypeInv, NEW a \in Attempt, Submit(a)
  PROVE  TypeInv'
<1>1. CallInv' /\ PromptInv' /\ OtherInv'
  BY CallSame, PromptKept, OtherSame DEF TypeInv, Submit, history
<1>2. PICK p \in prompts : AttemptTo(a, "params", p, FALSE, 0)
  BY DEF Submit, AttemptTo
<1>3. p \in 0 .. MaxPrompts
  <2>1. TypeOK
    BY TypeInvOK
  <2>2. QED BY <1>2, <2>1, Bounds DEF TypeOK
<1>4. "params" \in AttemptAt /\ 0 \in 0 .. MaxPairs /\ "params" \notin Away /\ "none" \notin Away
  BY Bounds DEF AttemptAt, Away
<1>5. FlagMoves(authenticating, attempt[a].at \in Away, "params" \in Away)
  BY <1>4 DEF TypeInv, AttemptInv, Submit, FlagMoves
<1>6. verifier' \in BOOLEAN
  BY DEF Submit
<1>7. AttemptInv'
  BY <1>2, <1>3, <1>4, <1>5, <1>6, AttemptKept DEF TypeInv
<1>8. QED BY <1>1, <1>7 DEF TypeInv

(* What an attempt is made of.                                              *)
LEMMA AttemptFields ==
  ASSUME TypeInv, NEW a \in Attempt
  PROVE  /\ AttemptInv /\ attempt[a].at \in AttemptAt /\ attempt[a].prompt \in 0 .. MaxPrompts
         /\ attempt[a].verifies \in BOOLEAN /\ attempt[a].new \in 0 .. MaxPairs
         /\ verifier \in BOOLEAN /\ authenticating \in BOOLEAN
         /\ attempt[a].at \in Away => authenticating
BY DEF TypeInv, AttemptInv

LEMMA SignInKept ==
  ASSUME TypeInv, NEW a \in Attempt, SignIn(a)
  PROVE  TypeInv'
<1>1. CallInv' /\ PromptInv'
  BY CallSame, PromptKept DEF TypeInv, SignIn, history
<1>2. OtherInv'
  <2>1. failures' \in 0 .. MaxFailures
    BY SessionsAssumption DEF SessionsAssumption, TypeInv, OtherInv, SignIn
  <2>2. QED BY <2>1 DEF TypeInv, OtherInv, SignIn, tokens, history
<1>3. /\ attempt[a].at = "params" /\ "params" \notin Away /\ "sent" \in Away /\ "done" \notin Away
      /\ "sent" \in AttemptAt /\ "done" \in AttemptAt /\ verifier' = verifier
  BY DEF SignIn, Away, AttemptAt
<1>4. AttemptInv'
  <2>1. CASE /\ ~authenticating /\ authenticating' = TRUE
             /\ attempt' = [attempt EXCEPT ![a].at = "sent", ![a].verifies = verifier]
    <3>1. AttemptTo(a, "sent", attempt[a].prompt, verifier, attempt[a].new)
      BY <2>1, AttemptParts, AttemptFields
    <3>2. FlagMoves(authenticating, attempt[a].at \in Away, "sent" \in Away)
      BY <1>3, <2>1 DEF FlagMoves
    <3>3. QED BY <1>3, <3>1, <3>2, AttemptFields, AttemptKept
  <2>2. CASE attempt' = [attempt EXCEPT ![a].at = "done"] /\ UNCHANGED authenticating
    <3>1. AttemptTo(a, "done", attempt[a].prompt, attempt[a].verifies, attempt[a].new)
      BY <2>2, AttemptParts, AttemptFields
    <3>2. FlagMoves(authenticating, attempt[a].at \in Away, "done" \in Away)
      BY <1>3, <2>2, AttemptFields DEF FlagMoves
    <3>3. QED BY <1>3, <3>1, <3>2, AttemptFields, AttemptKept
  <2>3. QED BY <2>1, <2>2 DEF SignIn
<1>5. QED BY <1>1, <1>2, <1>4 DEF TypeInv

LEMMA ServeSignInKept ==
  ASSUME TypeInv, NEW a \in Attempt, ServeSignIn(a)
  PROVE  TypeInv'
<1>1. CallInv' /\ PromptInv'
  BY CallSame, PromptKept DEF TypeInv, ServeSignIn, history
<1>2. OtherInv'
  <2>1. server' \in [Pair -> {"unused", "valid", "expired", "lapsed", "rotated", "replaced",
                              "dead", "revoked"}]
    BY DEF TypeInv, OtherInv, ServeSignIn
  <2>2. QED BY <2>1 DEF TypeInv, OtherInv, ServeSignIn, tokens, history, limits
<1>3. /\ attempt[a].at = "sent" /\ "sent" \in Away /\ "answered" \in Away /\ "answered" \in AttemptAt
      /\ UNCHANGED <<authenticating, verifier>>
  BY DEF ServeSignIn, Away, AttemptAt
<1>4. \E n \in 0 .. MaxPairs : AttemptTo(a, "answered", attempt[a].prompt, attempt[a].verifies, n)
  <2>1. CASE \E n \in Fresh : attempt' = [attempt EXCEPT ![a].at = "answered", ![a].new = n]
    <3>1. PICK n \in Fresh : attempt' = [attempt EXCEPT ![a].at = "answered", ![a].new = n]
      BY <2>1
    <3>2. n \in 0 .. MaxPairs
      BY Bounds DEF Fresh, Pair
    <3>3. AttemptTo(a, "answered", attempt[a].prompt, attempt[a].verifies, n)
      BY <3>1, AttemptParts, AttemptFields
    <3>4. QED BY <3>2, <3>3
  <2>2. CASE attempt' = [attempt EXCEPT ![a].at = "answered"]
    <3>1. AttemptTo(a, "answered", attempt[a].prompt, attempt[a].verifies, attempt[a].new)
      BY <2>2, AttemptParts, AttemptFields
    <3>2. QED BY <3>1, AttemptFields
  <2>3. QED BY <2>1, <2>2 DEF ServeSignIn
<1>5. FlagMoves(authenticating, attempt[a].at \in Away, "answered" \in Away)
  BY <1>3, AttemptFields DEF FlagMoves
<1>6. AttemptInv'
  BY <1>3, <1>4, <1>5, AttemptFields, AttemptKept
<1>7. QED BY <1>1, <1>2, <1>6 DEF TypeInv

LEMMA GetSignInKept ==
  ASSUME TypeInv, NEW a \in Attempt, GetSignIn(a)
  PROVE  TypeInv'
<1>1. CallInv' /\ PromptInv' /\ OtherInv'
  BY CallSame, PromptKept, OtherSame DEF TypeInv, GetSignIn, history
<1>2. PICK at \in {"done", "populating"} : attempt' = [attempt EXCEPT ![a].at = at]
  BY DEF GetSignIn
<1>3. AttemptTo(a, at, attempt[a].prompt, attempt[a].verifies, attempt[a].new)
  BY <1>2, AttemptParts, AttemptFields
<1>4. at \in AttemptAt /\ at \notin Away /\ attempt[a].at \in Away /\ verifier' \in BOOLEAN
  BY <1>2 DEF AttemptAt, Away, GetSignIn
<1>5. FlagMoves(authenticating, attempt[a].at \in Away, at \in Away)
  BY <1>4, AttemptFields DEF FlagMoves, GetSignIn
<1>6. AttemptInv'
  BY <1>3, <1>4, <1>5, AttemptFields, AttemptKept
<1>7. QED BY <1>1, <1>6 DEF TypeInv

LEMMA RestoreKept ==
  ASSUME TypeInv, NEW a \in Attempt, Restore(a)
  PROVE  TypeInv'
<1>1. CallInv' /\ PromptInv'
  BY CallSame, PromptClosed DEF TypeInv, Restore
<1>2. OtherInv'
  BY AttemptFields, SetKept DEF TypeInv, OtherInv, Restore, limits
<1>3. AttemptTo(a, "done", attempt[a].prompt, attempt[a].verifies, attempt[a].new)
  BY AttemptParts, AttemptFields DEF Restore
<1>4. /\ "done" \in AttemptAt /\ "done" \notin Away /\ attempt[a].at \notin Away
      /\ UNCHANGED <<authenticating, verifier>>
  BY DEF AttemptAt, Away, Restore
<1>5. FlagMoves(authenticating, attempt[a].at \in Away, "done" \in Away)
  BY <1>4, AttemptFields DEF FlagMoves
<1>6. AttemptInv'
  BY <1>3, <1>4, <1>5, AttemptFields, AttemptKept
<1>7. QED BY <1>1, <1>2, <1>6 DEF TypeInv

LEMMA CancelKept ==
  ASSUME TypeInv, Cancel
  PROVE  TypeInv'
<1>1. CallInv' /\ PromptInv'
  BY CallSame, PromptClosed DEF TypeInv, Cancel, history
<1>2. AttemptInv' /\ OtherInv'
  BY AttemptSame, OtherSame DEF TypeInv, Cancel, history
<1>3. QED BY <1>1, <1>2 DEF TypeInv

LEMMA UserSignsOutKept ==
  ASSUME TypeInv, UserSignsOut
  PROVE  TypeInv'
<1>1. CallInv' /\ PromptInv' /\ AttemptInv'
  BY CallSame, PromptKept, AttemptSame DEF TypeInv, UserSignsOut, history
<1>2. signOut' \in SignOutType
  BY BeginSignOutKept DEF TypeInv, UserSignsOut, Source
<1>3. OtherInv'
  BY <1>2 DEF TypeInv, OtherInv, UserSignsOut, tokens, history, limits, SignOutType
<1>4. QED BY <1>1, <1>3 DEF TypeInv

LEMMA SignOutStepsKept ==
  ASSUME TypeInv, NEW s \in Source, SignOutOnServer(s) \/ ClearData(s) \/ Deinit(s)
  PROVE  TypeInv'
<1>1. CallInv' /\ PromptInv' /\ AttemptInv'
  BY CallSame, PromptKept, AttemptSame DEF TypeInv, SignOutOnServer, ClearData, Deinit, history
<1>2. CASE SignOutOnServer(s)
  <2>1. server' \in [Pair -> {"unused", "valid", "expired", "lapsed", "rotated", "replaced",
                              "dead", "revoked"}]
    BY <1>2 DEF TypeInv, OtherInv, SignOutOnServer
  <2>2. signOut' \in SignOutType
    BY <1>2 DEF TypeInv, OtherInv, SignOutOnServer, SignOutType
  <2>3. OtherInv'
    BY <1>2, <2>1, <2>2 DEF TypeInv, OtherInv, SignOutOnServer, tokens, history, limits, SignOutType
  <2>4. QED BY <1>1, <2>3 DEF TypeInv
<1>3. CASE ClearData(s)
  <2>1. signOut' \in SignOutType
    BY <1>3 DEF TypeInv, OtherInv, ClearData, SignOutType
  <2>2. OtherInv'
    BY <1>3, <2>1, Bounds DEF TypeInv, OtherInv, ClearData, history, limits, SignOutType
  <2>3. QED BY <1>1, <2>2 DEF TypeInv
<1>4. CASE Deinit(s)
  <2>1. alive' \in BOOLEAN /\ session' = 0
    BY <1>4, Zenon DEF Deinit
  <2>2. session' \in 0 .. MaxPairs
    BY <2>1, Bounds
  <2>3. OtherInv'
    BY <1>4, <2>1, <2>2 DEF TypeInv, OtherInv, Deinit, history, limits
  <2>4. QED BY <1>1, <2>3 DEF TypeInv
<1>5. QED BY <1>2, <1>3, <1>4

LEMMA PersistedKept ==
  ASSUME TypeInv, Persisted
  PROVE  TypeInv'
<1>1. CallInv' /\ PromptInv' /\ AttemptInv'
  BY CallSame, PromptKept, AttemptSame DEF TypeInv, Persisted, history
<1>2. OtherInv'
  BY Bounds DEF TypeInv, OtherInv, Persisted, history, limits
<1>3. QED BY <1>1, <1>2 DEF TypeInv

LEMMA CrashKept ==
  ASSUME TypeInv, Crash
  PROVE  TypeInv'
<1>1. /\ call' \in [Request -> CallRecord]
      /\ \A r \in Request : call'[r] = IF call[r].at \in {"new", "ok", "failed"} THEN call[r]
                                       ELSE [at |-> "failed", pair |-> 0, answer |-> "none", new |-> 0]
  BY Bounds DEF TypeInv, CallInv, Crash, CallRecord, CallAt, Answer
<1>2. \A r \in Request : call'[r].at \in {"new", "ok", "failed"}
  BY <1>1
<1>3. Over \subseteq Over'
  BY <1>1, <1>2 DEF Over, Past
<1>4. CallInv'
  <2>1. \A r \in Request : Sound(call'[r].at, call'[r].answer, executed'[r])
    <3> TAKE r \in Request
    <3>1. executed'[r] = executed[r] /\ Sound(call[r].at, call[r].answer, executed[r])
      BY DEF TypeInv, CallInv, Crash
    <3>2. CASE call[r].at \in {"new", "ok", "failed"}
      BY <1>1, <3>1, <3>2
    <3>3. CASE call[r].at \notin {"new", "ok", "failed"}
      BY <1>1, <3>1, <3>3 DEF Sound
    <3>4. QED BY <3>2, <3>3
  <2>2. RefreshFlag' /\ ChangeFlag'
    BY <1>2, SessionsAssumption DEF SessionsAssumption, Crash, RefreshFlag, ChangeFlag, Busy
  <2>3. QED BY <1>1, <2>1, <2>2 DEF TypeInv, CallInv, Crash
<1>5. PromptInv'
  <2>1. asked' = asked /\ prompts' = {} /\ presented' \in BOOLEAN /\ ~presented'
    BY DEF Crash
  <2>2. asked \in Nat /\ asked <= Cardinality(Over)
    BY DEF TypeInv, PromptInv
  <2>3. asked <= Cardinality(Over)'
    BY <1>3, <2>2, OverCounts
  <2>4. QED BY <2>1, <2>2, <2>3 DEF PromptInv
<1>6. AttemptInv'
  <2>1. /\ attempt' \in [Attempt -> [at : AttemptAt, prompt : 0 .. MaxPrompts, verifies : BOOLEAN,
                                      new : 0 .. MaxPairs]]
        /\ \A a \in Attempt : attempt'[a].at \in {"none", "done"}
    BY DEF TypeInv, AttemptInv, AttemptAt, Crash
  <2>2. QED BY <2>1 DEF AttemptInv, Away, Crash
<1>7. OtherInv'
  <2>1. signOut' \in SignOutType
    BY Bounds DEF Crash, NoSignOut, SignOutType
  <2>2. crashes' \in 0 .. MaxCrashes /\ missed' \in BOOLEAN /\ saving' \in 0 .. MaxPairs
    BY Bounds, SessionsAssumption DEF SessionsAssumption, TypeInv, OtherInv, Crash
  <2>3. QED BY <2>1, <2>2 DEF TypeInv, OtherInv, Crash, SignOutType
<1>8. QED BY <1>4, <1>5, <1>6, <1>7 DEF TypeInv

LEMMA InitTypeInv == Init => TypeInv
<1> SUFFICES ASSUME Init PROVE TypeInv
  OBVIOUS
<1>1. CallInv
  <2>1. /\ call = [r \in Request |-> NoCall] /\ executed = [r \in Request |-> 0]
        /\ refreshing \in BOOLEAN /\ changing \in BOOLEAN /\ ~refreshing /\ ~changing
    BY DEF Init
  <2>2. NoCall \in CallRecord /\ NoCall.at = "new" /\ NoCall.answer = "none"
    BY Bounds DEF NoCall, CallRecord, CallAt, Answer
  <2>3. call \in [Request -> CallRecord] /\ \A r \in Request : call[r] = NoCall /\ executed[r] = 0
    BY <2>1, <2>2
  <2>4. \A r \in Request : Sound(call[r].at, call[r].answer, executed[r])
    BY <2>2, <2>3 DEF Sound
  <2>5. RefreshFlag /\ ChangeFlag
    BY <2>1, <2>2, <2>3, SessionsAssumption DEF SessionsAssumption, RefreshFlag, ChangeFlag, Busy
  <2>6. executed = [r \in Request |-> executed[r]]
    BY <2>1
  <2>7. QED BY <2>3, <2>4, <2>5, <2>6 DEF CallInv
<1>2. PromptInv
  <2>1. Cardinality(Over) \in Nat
    BY FS_Subset, FS_CardinalityType, SessionsAssumption DEF SessionsAssumption, Over
  <2>2. prompts = {} /\ presented \in BOOLEAN /\ ~presented /\ asked = 0
    BY DEF Init
  <2>3. QED BY <2>1, <2>2 DEF PromptInv
<1>3. AttemptInv
  <2>1. /\ attempt = [a \in Attempt |-> NoAttempt]
        /\ verifier \in BOOLEAN /\ authenticating \in BOOLEAN /\ ~authenticating
    BY DEF Init
  <2>2. /\ NoAttempt \in [at : AttemptAt, prompt : 0 .. MaxPrompts, verifies : BOOLEAN, new : 0 .. MaxPairs]
        /\ NoAttempt.at \notin Away
    BY Bounds DEF NoAttempt, AttemptAt, Away
  <2>3. QED BY <2>1, <2>2 DEF AttemptInv
<1>4. OtherInv
  <2>1. /\ server \in [Pair -> {"unused", "valid", "expired", "lapsed", "rotated", "replaced",
                                "dead", "revoked"}]
        /\ session = 1 /\ stored = 1 /\ saving = 0 /\ expiries = 0 /\ failures = 0 /\ crashes = 0
    BY DEF Init
  <2>2. alive \in BOOLEAN /\ missed \in BOOLEAN /\ late \in BOOLEAN
    BY DEF Init
  <2>3. signOut \in [Source -> [at : {"no", "network", "keys", "cleared"}, pair : 0 .. MaxPairs]]
    BY Bounds DEF Init, NoSignOut
  <2>4. QED BY <2>1, <2>2, <2>3, Bounds, SessionsAssumption DEF SessionsAssumption, OtherInv
<1>5. QED BY <1>1, <1>2, <1>3, <1>4 DEF TypeInv

LEMMA TypeInvKept == TypeInv /\ [Next]_vars => TypeInv'
<1> SUFFICES ASSUME TypeInv, [Next]_vars PROVE TypeInv'
  OBVIOUS
<1>1. CASE Server
  BY <1>1, ServeKept, ServeRefreshKept, ServeSignInKept DEF Server
<1>2. CASE Client
  BY <1>2, GetAnswerKept, GetPairKept, GetSecondAnswerKept, PopulateFromChangeKept,
     SignInKept, GetSignInKept, RestoreKept, SignOutStepsKept, PersistedKept DEF Client
<1>3. CASE User
  BY <1>3, MakeKept, SubmitKept, CancelKept, UserSignsOutKept DEF User
<1>4. CASE Misfortune
  BY <1>4, LoseAnswerKept, ExpireKept, EndSessionKept, CrashKept DEF Misfortune
<1>5. CASE UNCHANGED vars
  BY <1>5, CallSame, PromptKept, AttemptSame, OtherSame DEF TypeInv, vars, history
<1>6. QED BY <1>1, <1>2, <1>3, <1>4, <1>5 DEF Next

LEMMA TypeInvAlways == Spec => []TypeInv
BY InitTypeInv, TypeInvKept, PTL DEF Spec

(* Every variable of the session has its type: the flags of the API service *)
(* are up exactly while a request refreshes the session, changes the        *)
(* credentials or signs in, and no more challenges were presented than      *)
(* requests ended without an answer.                                        *)
THEOREM SessionsTypeCorrect == Spec => []TypeOK
BY TypeInvAlways, TypeInvOK, PTL

(* No request is carried out twice, and one that succeeds was carried out,  *)
(* however many answers are lost and tokens expire                          *)
(* (refreshSessionThenRetryRequest).                                        *)
THEOREM SessionsExecutedOnce == Spec => []ExecutedOnce
<1>1. TypeInv => ExecutedOnce
  BY DEF TypeInv, CallInv, Sound, ExecutedOnce
<1>2. QED BY <1>1, TypeInvAlways, PTL

-----------------------------------------------------------------------------
(* The pairs the client has, has had, or has sent with a request.           *)
Known == {session, stored, saving} \cup {call[r].pair : r \in Request}

(* A pair on its way to the client is new to it, and not yet used up.       *)
Live == {"valid", "expired", "lapsed", "dead", "revoked"}

OnItsWay(p) == server[p] \in Live /\ p \notin Known

Offers(a) == attempt[a].at \in {"answered", "populating"} /\ attempt[a].new # 0

BroughtInv ==
  /\ \A r \in Request : Brings(r) =>
       /\ call[r].answer = "ok" /\ call[r].at \in Busy \cup {"populating"}
       /\ OnItsWay(call[r].new)
  /\ \A a \in Attempt :
       /\ attempt[a].at \in {"params", "sent"} => attempt[a].new = 0
       /\ attempt[a].at = "populating" => attempt[a].new # 0
  /\ \A a \in Attempt : Offers(a) => OnItsWay(attempt[a].new)

ApartInv ==
  /\ \A r, q \in Request : Brings(r) /\ call[q].new = call[r].new => r = q
  /\ \A a, b \in Attempt : Offers(a) /\ Offers(b) /\ attempt[b].new = attempt[a].new => a = b
  /\ \A r \in Request, a \in Attempt : Brings(r) /\ Offers(a) => call[r].new # attempt[a].new

StoredInv ==
  /\ alive => saving \in {0, session}
  /\ alive /\ saving = 0 => stored \in {0, session}
  /\ ~alive \/ (\E s \in Source : signOut[s].at = "cleared") => (stored = 0 /\ saving = 0) \/ late

(* A pair that was used up has its successor on the way.                    *)
SuccessorInv ==
  alive /\ ~missed /\ session # 0 =>
    /\ server[session] = "rotated" => \E r \in Request : call[r].at = "refresh" /\ Brings(r)
    /\ server[session] = "replaced" => \E r \in Request : Brings(r)

(* A refresh has a pair to send, and its success a pair to bring; so has a   *)
(* change of the credentials.                                               *)
RefreshInv ==
  \A r \in Request :
    /\ call[r].at = "refresh" => call[r].pair # 0 /\ (call[r].answer = "ok" => call[r].new # 0)
    /\ call[r].at = "populating" => call[r].new # 0

PairInv ==
  /\ \A p \in Known : p # 0 => server[p] # "unused"
  /\ RefreshInv
  /\ BroughtInv /\ ApartInv /\ StoredInv /\ SuccessorInv /\ NoTokenRefreshedTwice

(* Steps that bring the client no pair and use none up.                     *)
CallQuiet(q) ==
  /\ Brings(q)' =>
       /\ Brings(q) /\ call'[q].new = call[q].new
       /\ call'[q].answer = "ok" /\ call'[q].at \in Busy \cup {"populating"}
  /\ call'[q].pair \in Known \cup {0}
  /\ call'[q].at = "refresh" =>
       call'[q].pair # 0 /\ (call'[q].answer = "ok" => call'[q].new # 0)
  /\ call'[q].at = "populating" => call'[q].new # 0
  /\ call'[q].at = "refresh" /\ call'[q].answer = "none" =>
       \/ call[q].at = "refresh" /\ call[q].answer = "none" /\ call'[q].pair = call[q].pair
       \/ missed \/ server[call'[q].pair] # "rotated"

StillBrings(q) == Brings(q) => Brings(q)' /\ (call[q].at = "refresh" => call'[q].at = "refresh")

AttemptQuiet(a) ==
  /\ Offers(a)' => Offers(a) /\ attempt'[a].new = attempt[a].new
  /\ attempt'[a].at \in {"params", "sent"} => attempt'[a].new = 0
  /\ attempt'[a].at = "populating" => attempt'[a].new # 0

LEMMA QuietKept ==
  ASSUME PairInv, UNCHANGED server, alive' => alive, missed => missed', StoredInv',
         session' \in Known \cup {0}, stored' \in Known \cup {0}, saving' \in Known \cup {0},
         ~alive' \/ missed' \/ session' \in {0, session},
         \A q \in Request : CallQuiet(q), missed' \/ \A q \in Request : StillBrings(q),
         \A a \in Attempt : AttemptQuiet(a)
  PROVE  PairInv'
<1>1. Known' \subseteq Known \cup {0}
  BY DEF Known, CallQuiet
<1>2. \A p \in Known' : p # 0 => server'[p] # "unused"
  BY <1>1 DEF PairInv
<1>3. \A p : OnItsWay(p) /\ p # 0 => OnItsWay(p)'
  BY <1>1 DEF OnItsWay
<1>4. BroughtInv'
  <2>1. ASSUME NEW q \in Request, Brings(q)'
        PROVE  call'[q].answer = "ok" /\ call'[q].at \in Busy \cup {"populating"} /\ OnItsWay(call[q].new)'
               /\ call'[q].new = call[q].new
    BY <1>3, <2>1 DEF PairInv, BroughtInv, CallQuiet, Brings
  <2>2. ASSUME NEW a \in Attempt, Offers(a)'
        PROVE  OnItsWay(attempt[a].new)' /\ attempt'[a].new = attempt[a].new
    BY <1>3, <2>2 DEF PairInv, BroughtInv, AttemptQuiet, Offers
  <2>3. \A a \in Attempt :
         /\ attempt'[a].at \in {"params", "sent"} => attempt'[a].new = 0
         /\ attempt'[a].at = "populating" => attempt'[a].new # 0
    BY DEF AttemptQuiet
  <2>4. \A q \in Request : Brings(q)' => OnItsWay(call[q].new)' /\ call'[q].new = call[q].new
    BY <2>1
  <2>5. QED BY <2>1, <2>2, <2>3, <2>4 DEF BroughtInv, OnItsWay
<1>5. ApartInv'
  BY DEF PairInv, ApartInv, CallQuiet, AttemptQuiet, Brings, Offers
<1>6. SuccessorInv'
  BY DEF PairInv, SuccessorInv, StillBrings
<1>7. NoTokenRefreshedTwice'
  BY DEF PairInv, NoTokenRefreshedTwice, CallQuiet
<1>8. RefreshInv'
  BY DEF CallQuiet, RefreshInv
<1>9. QED BY <1>2, <1>4, <1>5, <1>6, <1>7, <1>8 DEF PairInv

LEMMA CallStays ==
  ASSUME PairInv, NEW q \in Request, call'[q] = call[q]
  PROVE  CallQuiet(q) /\ StillBrings(q)
BY DEF PairInv, RefreshInv, BroughtInv, CallQuiet, StillBrings, Brings, Known

LEMMA AttemptStays ==
  ASSUME PairInv, NEW a \in Attempt, attempt'[a] = attempt[a]
  PROVE  AttemptQuiet(a)
BY DEF PairInv, BroughtInv, AttemptQuiet, Offers

LEMMA StoredStays ==
  ASSUME StoredInv, UNCHANGED <<session, stored, saving, alive, late>>,
         \A s \in Source : signOut'[s].at = "cleared" => signOut[s].at = "cleared"
  PROVE  StoredInv'
BY DEF StoredInv

(* A pair loses its value for the server, or all of them do.                *)
LEMMA ServerAges ==
  ASSUME PairInv, UNCHANGED <<session, stored, saving, call, attempt, alive, missed>>, StoredInv',
         \A p \in Pair : server'[p] = server[p] \/ (server[p] # "unused" /\ server'[p] \in Live),
         TypeInv
  PROVE  PairInv'
<1>1. Known \subseteq 0 .. MaxPairs
  BY DEF Known, TypeInv, OtherInv, CallInv, CallRecord
<1>2. \A p \in Known : p # 0 => p \in Pair
  BY <1>1, Bounds DEF Pair
<1>3. Known' = Known
  BY DEF Known
<1>4. \A p \in Known' : p # 0 => server'[p] # "unused"
  BY <1>2, <1>3 DEF PairInv, Live
<1>5. \A p \in 0 .. MaxPairs : p # 0 /\ OnItsWay(p) => OnItsWay(p)'
  BY <1>3, Bounds DEF OnItsWay, Pair
<1>6. \A r \in Request : call[r].new \in 0 .. MaxPairs
  BY DEF TypeInv, CallInv, CallRecord
<1>7. BroughtInv'
  <2>1. \A r \in Request : Brings(r) => OnItsWay(call[r].new)'
    BY <1>5, <1>6 DEF PairInv, BroughtInv, Brings
  <2>2. \A a \in Attempt : Offers(a) => OnItsWay(attempt[a].new)'
    BY <1>5, AttemptFields DEF PairInv, BroughtInv, Offers
  <2>3. QED BY <2>1, <2>2 DEF PairInv, BroughtInv, Brings, Offers
<1>8. ApartInv'
  BY DEF PairInv, ApartInv, Brings, Offers
<1>9. SuccessorInv'
  <2>1. session # 0 /\ session \in Pair /\ server'[session] \in {"rotated", "replaced"} => server'[session] = server[session]
    BY <1>2 DEF Known, Live
  <2>2. QED BY <2>1, <1>2 DEF PairInv, SuccessorInv, Known, Brings, Live
<1>10. NoTokenRefreshedTwice'
  <2>1. \A r \in Request : call[r].pair # 0 /\ server'[call[r].pair] = "rotated" => server[call[r].pair] = "rotated"
    BY <1>2 DEF Known, Live
  <2>2. \A r \in Request : call[r].at = "refresh" /\ call[r].answer = "none" => call[r].pair # 0
    BY DEF PairInv, RefreshInv
  <2>3. QED BY <2>1, <2>2 DEF PairInv, NoTokenRefreshedTwice
<1>11. QED BY <1>4, <1>7, <1>8, <1>9, <1>10, StoredStays DEF PairInv, RefreshInv

(* The pairs the client has, and those it is brought.                       *)
LEMMA PairsInRange ==
  ASSUME TypeInv
  PROVE  /\ \A p \in Known : p # 0 => p \in Pair
         /\ \A r \in Request : Brings(r) => call[r].new \in Pair
         /\ \A a \in Attempt : Offers(a) => attempt[a].new \in Pair
<1>1. Known \subseteq 0 .. MaxPairs /\ \A r \in Request : call[r].new \in 0 .. MaxPairs
  BY DEF Known, TypeInv, OtherInv, CallInv, CallRecord
<1>2. QED BY <1>1, Bounds, AttemptFields DEF Pair, Brings, Offers

(* The server issues a pair to a request.                                   *)
LEMMA IssueKept ==
  ASSUME TypeInv, PairInv, NEW r \in Request, NEW n \in Fresh, NEW was \in {"valid", "replaced", "rotated"},
         call[r].at \in Busy, call[r].answer = "none", call[r].pair \in Pair,
         was = "rotated" <=> call[r].at = "refresh",
         server' = [server EXCEPT ![n] = "valid", ![call[r].pair] = was],
         CallTo(r, call[r].at, call[r].pair, "ok", n),
         UNCHANGED <<session, stored, saving, attempt, signOut, alive, late, missed>>
  PROVE  PairInv'
<1> DEFINE p == call[r].pair
<1>1. n \in Pair /\ n # 0 /\ server[n] = "unused" /\ n \notin Known /\ p \in Known /\ p # n
  <2>1. n \in Pair /\ n # 0 /\ server[n] = "unused"
    BY Bounds DEF Fresh, Pair
  <2>2. p \in Known
    BY DEF Known
  <2>3. QED BY <2>1, <2>2 DEF PairInv
<1> USE PairsInRange
<1>2. /\ \A q \in Request \ {r} : call'[q] = call[q]
      /\ call'[r] = [at |-> call[r].at, pair |-> call[r].pair, answer |-> "ok", new |-> n]
  BY DEF TypeInv, CallInv, CallTo
<1>3. call'[r].at = call[r].at /\ call'[r].pair = p /\ call'[r].answer = "ok" /\ call'[r].new = n
  BY <1>2
<1>4. Known' = Known
  BY <1>2, <1>3 DEF Known
<1>5. /\ server'[n] = "valid" /\ server'[p] = was
      /\ \A o \in Pair \ {n, p} : server'[o] = server[o]
  <2> DEFINE s == [server EXCEPT ![n] = "valid"]
  <2>1. DOMAIN server = Pair /\ p \in Pair
    BY DEF TypeInv, OtherInv
  <2>2. s[n] = "valid" /\ DOMAIN s = Pair /\ \A o \in Pair \ {n} : s[o] = server[o]
    BY <1>1, <2>1
  <2>3. server' = [s EXCEPT ![p] = was]
    OBVIOUS
  <2> HIDE DEF s
  <2>4. server'[p] = was /\ \A o \in Pair \ {p} : server'[o] = s[o]
    BY <2>1, <2>2, <2>3
  <2>5. QED BY <1>1, <2>2, <2>4
<1>6. \A o \in Known' : o # 0 => server'[o] # "unused"
  BY <1>1, <1>4, <1>5 DEF PairInv
<1>7. RefreshInv'
  BY <1>1, <1>2, <1>3 DEF PairInv, RefreshInv
<1>8. OnItsWay(n)' /\ \A o \in Pair : OnItsWay(o) => OnItsWay(o)' /\ o # n
  BY <1>1, <1>4, <1>5 DEF OnItsWay, Live
<1>9. ~Brings(r) /\ n # 0
  BY <1>1 DEF PairInv, BroughtInv
<1>10. /\ \A q \in Request \ {r} : Brings(q)' <=> Brings(q)
       /\ Brings(r)'
       /\ \A a \in Attempt : Offers(a)' <=> Offers(a)
  BY <1>2, <1>3, <1>9 DEF Brings, Offers
<1>11. BroughtInv'
  <2>1. \A q \in Request : Brings(q)' => OnItsWay(call[q].new)'
    <3> SUFFICES ASSUME NEW q \in Request, Brings(q)' PROVE OnItsWay(call[q].new)'
      OBVIOUS
    <3>1. CASE q = r
      BY <1>3, <1>8, <3>1 DEF OnItsWay
    <3>2. CASE q # r
      <4>1. OnItsWay(call[q].new) /\ call'[q].new = call[q].new /\ call[q].new \in Pair
        BY <1>2, <1>10, <3>2, PairsInRange DEF PairInv, BroughtInv
      <4>2. QED BY <1>8, <4>1 DEF OnItsWay
    <3>3. QED BY <3>1, <3>2
  <2>2. \A q \in Request : Brings(q)' => call'[q].answer = "ok" /\ call'[q].at \in Busy \cup {"populating"}
    BY <1>2, <1>3, <1>10 DEF PairInv, BroughtInv
  <2>3. \A a \in Attempt : Offers(a)' => OnItsWay(attempt[a].new)'
    BY <1>8, <1>10 DEF PairInv, BroughtInv, OnItsWay
  <2>4. \A a \in Attempt :
         /\ attempt'[a].at \in {"params", "sent"} => attempt'[a].new = 0
         /\ attempt'[a].at = "populating" => attempt'[a].new # 0
    BY DEF PairInv, BroughtInv
  <2>5. QED BY <2>1, <2>2, <2>3, <2>4 DEF BroughtInv
<1>12. ApartInv'
  <2>1. \A q \in Request : Brings(q) => call[q].new # n
    BY <1>8 DEF PairInv, BroughtInv
  <2>2. \A a \in Attempt : Offers(a) => attempt[a].new # n
    BY <1>8 DEF PairInv, BroughtInv
  <2>3. \A q \in Request \ {r} : call'[q].new = call[q].new /\ call[q].new # n
    BY <1>2, <1>9, <2>1 DEF Brings
  <2>4. QED BY <1>3, <1>10, <2>2, <2>3 DEF PairInv, ApartInv, Brings
<1>13. SuccessorInv'
  <2>1. session # 0 => session \in Known /\ session # n
    BY <1>1 DEF Known
  <2>2. CASE session = p
    BY <1>3, <1>5, <1>10, <2>2 DEF SuccessorInv
  <2>3. CASE session # p
    <3>1. session # 0 => server'[session] = server[session]
      BY <1>5, <2>1, <2>3
    <3>2. \A q \in Request : Brings(q) => Brings(q)' /\ call'[q].at = call[q].at
      BY <1>2, <1>3, <1>10
    <3>3. QED BY <3>1, <3>2 DEF PairInv, SuccessorInv
  <2>4. QED BY <2>2, <2>3
<1>14. NoTokenRefreshedTwice'
  <2> SUFFICES ASSUME NEW q \in Request, call'[q].at = "refresh", call'[q].answer = "none",
                      server'[call'[q].pair] = "rotated"
               PROVE  missed \/ ~alive
    BY DEF NoTokenRefreshedTwice
  <2>1. q # r /\ call'[q] = call[q] /\ call[q].pair \in Known /\ call[q].pair \in Pair
    BY <1>2, <1>3, PairsInRange DEF Known, PairInv, RefreshInv
  <2>2. call[r].at # "refresh"
    BY <2>1 DEF TypeInv, CallInv, RefreshFlag
  <2>3. server[call[q].pair] = "rotated"
    BY <1>1, <1>5, <2>1, <2>2
  <2>4. QED BY <2>1, <2>3 DEF PairInv, NoTokenRefreshedTwice
<1>15. StoredInv'
  BY StoredStays DEF PairInv
<1>16. QED BY <1>6, <1>7, <1>11, <1>12, <1>13, <1>14, <1>15 DEF PairInv

(* The server issues a pair to an attempt to sign in.                       *)
LEMMA OfferKept ==
  ASSUME TypeInv, PairInv, NEW a \in Attempt, NEW n \in Fresh,
         attempt[a].at = "sent", server' = [server EXCEPT ![n] = "valid"],
         AttemptTo(a, "answered", attempt[a].prompt, attempt[a].verifies, n),
         UNCHANGED <<session, stored, saving, call, signOut, alive, late, missed>>
  PROVE  PairInv'
<1>1. n \in Pair /\ n # 0 /\ server[n] = "unused" /\ n \notin Known
  <2>1. n \in Pair /\ n # 0 /\ server[n] = "unused"
    BY Bounds DEF Fresh, Pair
  <2>2. QED BY <2>1 DEF PairInv
<1> USE PairsInRange
<1>2. /\ \A b \in Attempt \ {a} : attempt'[b] = attempt[b]
      /\ attempt'[a].at = "answered" /\ attempt'[a].new = n
  BY DEF TypeInv, AttemptInv, AttemptTo
<1>3. Known' = Known
  BY DEF Known
<1>4. server'[n] = "valid" /\ \A o \in Pair \ {n} : server'[o] = server[o]
  BY <1>1 DEF TypeInv, OtherInv
<1>5. \A o \in Known' : o # 0 => server'[o] # "unused"
  BY <1>1, <1>3, <1>4 DEF PairInv
<1>6. OnItsWay(n)' /\ \A o \in Pair : OnItsWay(o) => OnItsWay(o)' /\ o # n
  BY <1>1, <1>3, <1>4 DEF OnItsWay, Live
<1>7. /\ \A q \in Request : Brings(q)' <=> Brings(q)
      /\ Offers(a)' /\ ~Offers(a)
      /\ \A b \in Attempt \ {a} : Offers(b)' <=> Offers(b)
  BY <1>1, <1>2 DEF Brings, Offers
<1>8. BroughtInv'
  <2>1. \A q \in Request : Brings(q)' => OnItsWay(call[q].new)'
    BY <1>6, <1>7 DEF PairInv, BroughtInv, OnItsWay
  <2>2. \A b \in Attempt : Offers(b)' => OnItsWay(attempt[b].new)'
    <3> SUFFICES ASSUME NEW b \in Attempt, Offers(b)' PROVE OnItsWay(attempt[b].new)'
      OBVIOUS
    <3>1. CASE b = a
      BY <1>2, <1>6, <3>1 DEF OnItsWay
    <3>2. CASE b # a
      <4>1. OnItsWay(attempt[b].new) /\ attempt'[b].new = attempt[b].new /\ attempt[b].new \in Pair
        BY <1>2, <1>7, <3>2, PairsInRange DEF PairInv, BroughtInv
      <4>2. QED BY <1>6, <4>1 DEF OnItsWay
    <3>3. QED BY <3>1, <3>2
  <2>3. \A b \in Attempt :
         /\ attempt'[b].at \in {"params", "sent"} => attempt'[b].new = 0
         /\ attempt'[b].at = "populating" => attempt'[b].new # 0
    BY <1>2 DEF PairInv, BroughtInv
  <2>4. QED BY <1>7, <2>1, <2>2, <2>3 DEF PairInv, BroughtInv
<1>9. ApartInv'
  <2>1. \A q \in Request : Brings(q) => call[q].new # n
    BY <1>6 DEF PairInv, BroughtInv
  <2>2. \A b \in Attempt : Offers(b) => attempt[b].new # n
    BY <1>6 DEF PairInv, BroughtInv
  <2>3. QED BY <1>2, <1>7, <2>1, <2>2 DEF PairInv, ApartInv
<1>10. SuccessorInv'
  <2>1. session # 0 => server'[session] = server[session]
    BY <1>1, <1>4 DEF Known
  <2>2. QED BY <1>7, <2>1 DEF PairInv, SuccessorInv
<1>11. NoTokenRefreshedTwice'
  <2>1. \A q \in Request : call[q].at = "refresh" => server'[call[q].pair] = server[call[q].pair]
    BY <1>1, <1>4, PairsInRange DEF Known, PairInv, RefreshInv
  <2>2. QED BY <2>1 DEF PairInv, NoTokenRefreshedTwice
<1>12. StoredInv'
  BY StoredStays DEF PairInv
<1>13. QED BY <1>5, <1>8, <1>9, <1>10, <1>11, <1>12 DEF PairInv, RefreshInv

(* The client takes a pair that it is brought.                              *)
CallWithout(q, n) ==
  /\ Brings(q)' => Brings(q) /\ call'[q] = call[q] /\ call[q].new # n
  /\ call'[q].pair \in Known \cup {0, n}
  /\ call'[q].at \in {"refresh", "populating"} => call'[q] = call[q]

AttemptWithout(a, n) ==
  /\ Offers(a)' => Offers(a) /\ attempt'[a] = attempt[a] /\ attempt[a].new # n
  /\ attempt'[a].at \in {"params", "sent", "populating"} => attempt'[a] = attempt[a]

LEMMA TakeKept ==
  ASSUME PairInv, NEW n \in Pair, OnItsWay(n), SetSession(n), alive,
         UNCHANGED <<server, signOut, alive, missed>>,
         \A q \in Request : CallWithout(q, n), \A a \in Attempt : AttemptWithout(a, n)
  PROVE  PairInv'
<1>1. Known' \subseteq Known \cup {0, n}
  BY DEF Known, SetSession, CallWithout
<1>2. \A p \in Known' : p # 0 => server'[p] # "unused"
  BY <1>1 DEF PairInv, OnItsWay, Live
<1>3. RefreshInv'
  BY DEF PairInv, RefreshInv, CallWithout
<1>4. \A p : OnItsWay(p) /\ p \notin {0, n} => OnItsWay(p)'
  BY <1>1 DEF OnItsWay
<1>5. BroughtInv'
  <2>1. \A q \in Request : Brings(q)' =>
          /\ call'[q].answer = "ok" /\ call'[q].at \in Busy \cup {"populating"}
          /\ OnItsWay(call[q].new)'
    <3> SUFFICES ASSUME NEW q \in Request, Brings(q)'
                 PROVE  /\ call'[q].answer = "ok" /\ call'[q].at \in Busy \cup {"populating"}
                        /\ OnItsWay(call[q].new)'
      OBVIOUS
    <3>1. Brings(q) /\ call'[q] = call[q] /\ call[q].new \notin {0, n}
      BY DEF CallWithout, Brings
    <3>2. /\ call[q].answer = "ok" /\ call[q].at \in Busy \cup {"populating"}
          /\ OnItsWay(call[q].new)
      BY <3>1 DEF PairInv, BroughtInv
    <3>3. QED BY <1>4, <3>1, <3>2 DEF OnItsWay
  <2>2. \A a \in Attempt : Offers(a)' => OnItsWay(attempt[a].new)'
    <3> SUFFICES ASSUME NEW a \in Attempt, Offers(a)' PROVE OnItsWay(attempt[a].new)'
      OBVIOUS
    <3>1. Offers(a) /\ attempt'[a] = attempt[a] /\ attempt[a].new \notin {0, n}
      BY DEF AttemptWithout, Offers
    <3>2. OnItsWay(attempt[a].new)
      BY <3>1 DEF PairInv, BroughtInv
    <3>3. QED BY <1>4, <3>1, <3>2 DEF OnItsWay
  <2>3. \A a \in Attempt :
         /\ attempt'[a].at \in {"params", "sent"} => attempt'[a].new = 0
         /\ attempt'[a].at = "populating" => attempt'[a].new # 0
    BY DEF PairInv, BroughtInv, AttemptWithout
  <2>4. QED BY <2>1, <2>2, <2>3 DEF BroughtInv
<1>6. ApartInv'
  <2>1. ASSUME NEW r \in Request, NEW q \in Request, Brings(r)', call'[q].new = call'[r].new PROVE r = q
    <3>1. Brings(q)'
      BY <2>1 DEF Brings
    <3>2. QED BY <2>1, <3>1 DEF PairInv, ApartInv, CallWithout
  <2>2. ASSUME NEW a \in Attempt, NEW b \in Attempt, Offers(a)', Offers(b)', attempt'[b].new = attempt'[a].new
        PROVE  a = b
    BY <2>2 DEF PairInv, ApartInv, AttemptWithout
  <2>3. ASSUME NEW r \in Request, NEW a \in Attempt, Brings(r)', Offers(a)' PROVE call'[r].new # attempt'[a].new
    BY <2>3 DEF PairInv, ApartInv, CallWithout, AttemptWithout
  <2>4. QED BY <2>1, <2>2, <2>3 DEF ApartInv
<1>7. StoredInv'
  <2>1. session' = n /\ saving' = n /\ n # 0 /\ alive
    BY Bounds DEF SetSession, Pair
  <2>2. ASSUME NEW s \in Source, signOut[s].at = "cleared" PROVE late'
    BY <2>2 DEF SetSession
  <2>3. QED BY <2>1, <2>2 DEF StoredInv
<1>8. SuccessorInv'
  BY DEF SuccessorInv, SetSession, OnItsWay, Live
<1>9. NoTokenRefreshedTwice'
  BY DEF PairInv, NoTokenRefreshedTwice, CallWithout
<1>10. QED BY <1>2, <1>3, <1>5, <1>6, <1>7, <1>8, <1>9 DEF PairInv

(* One request moves on, and the pairs stay.                                *)
LEMMA RequestQuiet ==
  ASSUME TypeInv, PairInv, NEW r \in Request, NEW at, NEW pair, NEW answer, NEW new,
         CallTo(r, at, pair, answer, new),
         UNCHANGED <<server, session, stored, saving, attempt, alive, late>>, missed => missed',
         \A s \in Source : signOut'[s].at = "cleared" => signOut[s].at = "cleared",
         new # 0 => new = call[r].new /\ answer = "ok" /\ at \in Busy \cup {"populating"},
         pair \in Known \cup {0}, at = "refresh" => pair # 0 /\ (answer = "ok" => new # 0),
         at = "populating" => new # 0,
         at = "refresh" /\ answer = "none" =>
           \/ call[r].at = "refresh" /\ call[r].answer = "none" /\ pair = call[r].pair
           \/ missed \/ server[pair] # "rotated",
         missed' \/ (call[r].new # 0 => new # 0 /\ (call[r].at = "refresh" => at = "refresh"))
  PROVE  PairInv'
<1>1. /\ \A q \in Request \ {r} : call'[q] = call[q]
      /\ call'[r] = [at |-> at, pair |-> pair, answer |-> answer, new |-> new]
  BY DEF TypeInv, CallInv, CallTo
<1>2. call'[r].at = at /\ call'[r].pair = pair /\ call'[r].answer = answer /\ call'[r].new = new
  BY <1>1
<1>3. \A q \in Request : CallQuiet(q)
  <2>1. CallQuiet(r)
    BY <1>2 DEF CallQuiet, Brings
  <2>2. QED BY <1>1, <2>1, CallStays
<1>4. missed' \/ \A q \in Request : StillBrings(q)
  <2>1. missed' \/ StillBrings(r)
    BY <1>2 DEF StillBrings, Brings
  <2>2. QED BY <1>1, <2>1, CallStays
<1>5. \A a \in Attempt : AttemptQuiet(a)
  BY AttemptStays
<1>6. StoredInv'
  BY StoredStays DEF PairInv
<1>7. /\ session' \in Known \cup {0} /\ stored' \in Known \cup {0} /\ saving' \in Known \cup {0}
      /\ session' = session
  BY DEF Known
<1>8. (alive' => alive) /\ UNCHANGED server /\ (~alive' \/ missed' \/ session' \in {0, session})
  BY <1>7
<1>9. QED BY <1>3, <1>4, <1>5, <1>6, <1>7, <1>8, QuietKept

LEMMA NothingNew ==
  ASSUME PairInv, NEW r \in Request, call[r].answer # "ok" \/ call[r].at \notin Busy \cup {"populating"}
  PROVE  call[r].new = 0
BY DEF PairInv, BroughtInv, Brings

LEMMA PairKnown ==
  ASSUME NEW r \in Request
  PROVE  call[r].pair \in Known /\ session \in Known /\ stored \in Known /\ saving \in Known
BY DEF Known

LEMMA ServePairs ==
  ASSUME TypeInv, PairInv, NEW r \in Request, Serve(r)
  PROVE  PairInv'
<1>1. /\ call[r].at \in {"sent", "retry"} /\ call[r].answer = "none"
      /\ UNCHANGED <<session, stored, saving, attempt, signOut, alive, missed, late>>
  BY DEF Serve, tokens
<1>2. call[r].new = 0 /\ call \in [Request -> CallRecord] /\ call[r].pair \in Known \cup {0}
  BY <1>1, NothingNew, PairKnown DEF TypeInv, CallInv
<1>3. PICK answer \in AnswersTo(call[r].pair) :
        IF answer = "ok"
        THEN Execute(r, call[r].pair)
        ELSE call' = [call EXCEPT ![r].answer = answer] /\ UNCHANGED server
  BY DEF Serve
<1>4. CASE /\ call' = [call EXCEPT ![r].answer = answer]
           /\ UNCHANGED server
  <2>1. CallTo(r, call[r].at, call[r].pair, answer, call[r].new)
    BY <1>2, <1>4, CallParts
  <2>2. call[r].at # "refresh"
    BY <1>1
  <2>3. QED BY <1>1, <1>2, <1>4, <2>1, <2>2, RequestQuiet
<1>5. CASE answer = "ok" /\ r \in Change
  <2>1. PICK n \in Fresh, was \in {"valid", "replaced"} :
          /\ server' = [server EXCEPT ![n] = "valid", ![call[r].pair] = was]
          /\ call' = [call EXCEPT ![r].answer = "ok", ![r].new = n]
    BY <1>3, <1>5 DEF Execute
  <2>2. CallTo(r, call[r].at, call[r].pair, "ok", n)
    BY <1>2, <2>1, CallParts
  <2>3. call[r].pair \in Pair
    <3>1. call[r].pair # 0
      BY <1>3, <1>5 DEF AnswersTo
    <3>2. QED BY <3>1, PairsInRange, PairKnown
  <2>4. call[r].at \in Busy /\ call[r].at # "refresh" /\ was # "rotated"
    BY <1>1 DEF Busy
  <2>5. QED BY <1>1, <2>1, <2>2, <2>3, <2>4, IssueKept
<1>6. QED BY <1>3, <1>4, <1>5 DEF Execute

LEMMA ServeRefreshPairs ==
  ASSUME TypeInv, PairInv, NEW r \in Request, ServeRefresh(r)
  PROVE  PairInv'
<1>1. /\ call[r].at = "refresh" /\ call[r].answer = "none"
      /\ UNCHANGED <<session, stored, saving, attempt, signOut, alive, missed, late>>
  BY DEF ServeRefresh, tokens, history
<1>2. /\ call[r].new = 0 /\ call \in [Request -> CallRecord] /\ call[r].pair \in Known \cup {0}
      /\ call[r].pair # 0
  BY <1>1, NothingNew, PairKnown DEF TypeInv, CallInv, PairInv, RefreshInv
<1>3. CASE \E n \in Fresh :
             /\ server' = [server EXCEPT ![n] = "valid", ![call[r].pair] = "rotated"]
             /\ call' = [call EXCEPT ![r].answer = "ok", ![r].new = n]
  <2>1. PICK n \in Fresh :
          /\ server' = [server EXCEPT ![n] = "valid", ![call[r].pair] = "rotated"]
          /\ call' = [call EXCEPT ![r].answer = "ok", ![r].new = n]
    BY <1>3
  <2>2. CallTo(r, call[r].at, call[r].pair, "ok", n)
    BY <1>2, <2>1, CallParts
  <2>3. call[r].pair \in Pair /\ call[r].at \in Busy
    BY <1>1, <1>2, PairsInRange, PairKnown DEF Busy
  <2>4. QED BY <1>1, <2>1, <2>2, <2>3, IssueKept
<1>4. CASE \E answer \in {"revoked", "invalid", "error"} :
             call' = [call EXCEPT ![r].answer = answer] /\ UNCHANGED server
  <2>1. PICK answer \in {"revoked", "invalid", "error"} :
          call' = [call EXCEPT ![r].answer = answer] /\ UNCHANGED server
    BY <1>4
  <2>2. CallTo(r, call[r].at, call[r].pair, answer, call[r].new) /\ answer # "none"
    BY <1>2, <2>1, CallParts
  <2>3. QED BY <1>1, <1>2, <2>1, <2>2, RequestQuiet
<1>5. QED BY <1>3, <1>4 DEF ServeRefresh

LEMMA LoseAnswerPairs ==
  ASSUME TypeInv, PairInv, NEW r \in Request, LoseAnswer(r)
  PROVE  PairInv'
<1>1. /\ UNCHANGED <<server, session, stored, saving, attempt, signOut, alive, late>>
      /\ missed => missed'
      /\ call[r].new # 0 => missed'
      /\ call' = [call EXCEPT ![r].answer = "error", ![r].new = 0]
  BY DEF LoseAnswer, tokens, TypeInv, OtherInv
<1>2. CallTo(r, call[r].at, call[r].pair, "error", 0)
  BY <1>1, CallParts DEF TypeInv, CallInv
<1>3. call[r].at # "populating" /\ (call[r].at = "refresh" => call[r].pair # 0)
  BY DEF LoseAnswer, PairInv, RefreshInv
<1>4. QED BY <1>1, <1>2, <1>3, RequestQuiet, PairKnown

LEMMA MakePairs ==
  ASSUME TypeInv, PairInv, NEW r \in Request, Make(r)
  PROVE  PairInv'
<1>1. /\ UNCHANGED <<server, session, stored, saving, attempt, signOut, alive, late, missed>>
      /\ call[r].at = "new"
  BY DEF Make, tokens, history
<1>2. call[r].new = 0 /\ call \in [Request -> CallRecord]
  BY <1>1, NothingNew DEF TypeInv, CallInv, Busy
<1>3. CASE call' = [call EXCEPT ![r] = [at |-> "sent", pair |-> session, answer |-> "none", new |-> 0]]
  <2>1. CallTo(r, "sent", session, "none", 0)
    BY <1>3 DEF CallTo
  <2>2. QED BY <1>1, <1>2, <2>1, RequestQuiet, PairKnown
<1>4. CASE call' = [call EXCEPT ![r].at = "failed"]
  <2>1. CallTo(r, "failed", call[r].pair, call[r].answer, call[r].new)
    BY <1>2, <1>4, CallParts
  <2>2. QED BY <1>1, <1>2, <2>1, RequestQuiet, PairKnown
<1>5. QED BY <1>3, <1>4 DEF Make

LEMMA SignOutQuiet ==
  ASSUME \/ \E s \in Source : BeginSignOut(s)
         \/ \E answer \in Answer : ObserveError(answer)
         \/ UNCHANGED signOut,
         TypeInv
  PROVE  \A s \in Source : signOut'[s].at = "cleared" => signOut[s].at = "cleared"
<1>1. ASSUME NEW t \in Source, BeginSignOut(t)
      PROVE  \A s \in Source : signOut'[s].at = "cleared" => signOut[s].at = "cleared"
  <2> DEFINE c == IF session = 0 THEN "keys" ELSE "network"
  <2>1. signOut' = [signOut EXCEPT ![t] = IF @.at # "no" THEN @ ELSE [at |-> c, pair |-> session]]
    BY <1>1 DEF BeginSignOut
  <2>2. c # "cleared"
    OBVIOUS
  <2> HIDE DEF c
  <2>3. QED BY <2>1, <2>2 DEF TypeInv, OtherInv
<1>2. ASSUME NEW answer, ObserveError(answer)
      PROVE  UNCHANGED signOut \/ BeginSignOut("revoked")
  <2>1. CASE answer = "invalid" /\ session # 0
    BY <1>2, <2>1 DEF ObserveError
  <2>2. CASE answer = "revoked" /\ session # 0
    BY <1>2, <2>2 DEF ObserveError
  <2>3. CASE ~(answer = "invalid" /\ session # 0) /\ ~(answer = "revoked" /\ session # 0)
    BY <1>2, <2>3 DEF ObserveError
  <2>4. QED BY <2>1, <2>2, <2>3
<1>3. "revoked" \in Source
  BY DEF Source
<1>4. QED BY <1>1, <1>2, <1>3

(* A request that fails had nothing to bring.                               *)
LEMMA FailPairs ==
  ASSUME TypeInv, PairInv, NEW r \in Request, NEW at \in {"ok", "failed"}, End(r, at), call[r].new = 0,
         UNCHANGED <<server, session, stored, saving, attempt, alive, late, missed>>,
         \A s \in Source : signOut'[s].at = "cleared" => signOut[s].at = "cleared"
  PROVE  PairInv'
<1>1. CallTo(r, at, 0, "none", 0) /\ at # "refresh"
  BY DEF End, CallTo
<1>2. QED BY <1>1, RequestQuiet

LEMMA FinishPairs ==
  ASSUME TypeInv, PairInv, NEW r \in Request, call[r].at \in {"sent", "retry"}, Finish(r),
         UNCHANGED <<server, session, stored, saving, attempt, alive, late, missed>>,
         \A s \in Source : signOut'[s].at = "cleared" => signOut[s].at = "cleared"
  PROVE  PairInv'
<1>1. CASE End(r, "failed") /\ call[r].answer # "ok"
  BY <1>1, NothingNew, FailPairs
<1>2. CASE End(r, "ok") /\ call[r].new = 0
  BY <1>2, FailPairs
<1>3. CASE /\ call' = [call EXCEPT ![r].at = "populating"]
           /\ call[r].answer = "ok" /\ call[r].new # 0
  <2>1. CallTo(r, "populating", call[r].pair, call[r].answer, call[r].new)
    BY <1>3, CallParts DEF TypeInv, CallInv
  <2>2. QED BY <1>3, <2>1, RequestQuiet, PairKnown
<1>4. QED BY <1>1, <1>2, <1>3 DEF Finish

LEMMA GetAnswerPairs ==
  ASSUME TypeInv, PairInv, NEW r \in Request, GetAnswer(r)
  PROVE  PairInv'
<1>1. /\ UNCHANGED <<server, session, stored, saving, attempt, alive, late, missed>>
      /\ call[r].at = "sent" /\ alive
  BY DEF GetAnswer, Replied, tokens, history
<1>2. \A s \in Source : signOut'[s].at = "cleared" => signOut[s].at = "cleared"
  <2>1. call[r].answer \in Answer
    BY DEF TypeInv, CallInv, CallRecord
  <2>2. QED BY <2>1, SignOutQuiet DEF GetAnswer
<1>3. CASE call[r].answer = "expired" /\ MayRequest
  <2>1. CallTo(r, "refresh", session, "none", 0) /\ session # 0 /\ ~refreshing
    BY <1>3 DEF GetAnswer, Refresh, CallTo, MayRequest
  <2>2. call[r].new = 0
    BY <1>3, NothingNew
  <2>3. missed \/ server[session] # "rotated"
    BY <1>1, <2>1 DEF PairInv, SuccessorInv, TypeInv, CallInv, RefreshFlag
  <2>4. QED BY <1>1, <1>2, <2>1, <2>2, <2>3, RequestQuiet, PairKnown
<1>4. CASE call[r].answer = "expired" /\ ~MayRequest
  <2>1. End(r, "failed") /\ call[r].new = 0
    BY <1>4, NothingNew DEF GetAnswer, Refresh
  <2>2. QED BY <1>1, <1>2, <2>1, FailPairs
<1>5. CASE call[r].answer # "expired"
  BY <1>1, <1>2, <1>5, FinishPairs DEF GetAnswer
<1>6. QED BY <1>3, <1>4, <1>5

LEMMA GetPairPairs ==
  ASSUME TypeInv, PairInv, NEW r \in Request, GetPair(r)
  PROVE  PairInv'
<1>1. /\ UNCHANGED <<server, attempt, alive, missed>>
      /\ call[r].at = "refresh" /\ alive
  BY DEF GetPair, Replied
<1>2. CASE call[r].answer = "ok"
  <2> DEFINE n == call[r].new
  <2>1. n # 0 /\ Brings(r) /\ n \in Pair /\ OnItsWay(n)
    BY <1>1, <1>2, PairsInRange DEF PairInv, RefreshInv, BroughtInv, Brings
  <2>2. SetSession(n) /\ CallTo(r, "retry", n, "none", 0) /\ UNCHANGED signOut
    BY <1>2 DEF GetPair, CallTo
  <2>3. /\ \A q \in Request \ {r} : call'[q] = call[q]
        /\ call'[r] = [at |-> "retry", pair |-> n, answer |-> "none", new |-> 0]
    BY <2>2 DEF TypeInv, CallInv, CallTo
  <2>4. \A q \in Request : CallWithout(q, n)
    <3>1. call'[r].at = "retry" /\ call'[r].pair = n /\ call'[r].new = 0
      BY <2>3
    <3>2. CallWithout(r, n)
      BY <3>1 DEF CallWithout, Brings
    <3>3. ASSUME NEW q \in Request \ {r} PROVE CallWithout(q, n)
      <4>1. call'[q] = call[q] /\ call[q].pair \in Known
        BY <2>3, PairKnown
      <4>2. call[q].new # n
        BY <2>1 DEF PairInv, ApartInv
      <4>3. QED BY <4>1, <4>2 DEF CallWithout, Brings
    <3>4. QED BY <3>2, <3>3
  <2>5. \A a \in Attempt : AttemptWithout(a, n)
    BY <1>1, <2>1 DEF AttemptWithout, Offers, PairInv, ApartInv
  <2>6. QED BY <1>1, <2>1, <2>2, <2>4, <2>5, TakeKept
<1>3. CASE call[r].answer # "ok"
  <2>1. ObserveError(call[r].answer) /\ End(r, "failed") /\ UNCHANGED <<session, stored, saving, late>>
    BY <1>3 DEF GetPair, tokens
  <2>2. \A s \in Source : signOut'[s].at = "cleared" => signOut[s].at = "cleared"
    <3>1. call[r].answer \in Answer
      BY DEF TypeInv, CallInv, CallRecord
    <3>2. QED BY <2>1, <3>1, SignOutQuiet
  <2>3. QED BY <1>1, <1>3, <2>1, <2>2, NothingNew, FailPairs
<1>4. QED BY <1>2, <1>3

LEMMA GetSecondAnswerPairs ==
  ASSUME TypeInv, PairInv, NEW r \in Request, GetSecondAnswer(r)
  PROVE  PairInv'
<1>1. /\ UNCHANGED <<server, session, stored, saving, attempt, signOut, alive, late, missed>>
      /\ call[r].at = "retry" /\ Finish(r)
  BY DEF GetSecondAnswer, Replied, tokens, history
<1>2. QED BY <1>1, FinishPairs

LEMMA PopulateFromChangePairs ==
  ASSUME TypeInv, PairInv, NEW r \in Request, PopulateFromChange(r)
  PROVE  PairInv'
<1> DEFINE n == call[r].new
<1>1. /\ UNCHANGED <<server, attempt, signOut, alive, missed>>
      /\ call[r].at = "populating" /\ alive /\ SetSession(n) /\ CallTo(r, "ok", 0, "none", 0)
  BY DEF PopulateFromChange, End, CallTo
<1>2. n # 0 /\ Brings(r) /\ n \in Pair /\ OnItsWay(n)
  BY <1>1, PairsInRange DEF PairInv, RefreshInv, BroughtInv, Brings
<1>3. /\ \A q \in Request \ {r} : call'[q] = call[q]
      /\ call'[r] = [at |-> "ok", pair |-> 0, answer |-> "none", new |-> 0]
  BY <1>1 DEF TypeInv, CallInv, CallTo
<1>4. \A q \in Request : CallWithout(q, n)
  <2>1. call'[r].at = "ok" /\ call'[r].pair = 0 /\ call'[r].new = 0
    BY <1>3
  <2>2. CallWithout(r, n)
    BY <2>1 DEF CallWithout, Brings
  <2>3. ASSUME NEW q \in Request \ {r} PROVE CallWithout(q, n)
    <3>1. call'[q] = call[q] /\ call[q].pair \in Known
      BY <1>3, PairKnown
    <3>2. call[q].new # n
      BY <1>2 DEF PairInv, ApartInv
    <3>3. QED BY <3>1, <3>2 DEF CallWithout, Brings
  <2>4. QED BY <2>2, <2>3
<1>5. \A a \in Attempt : AttemptWithout(a, n)
  BY <1>1, <1>2 DEF AttemptWithout, Offers, PairInv, ApartInv
<1>6. QED BY <1>1, <1>2, <1>4, <1>5, TakeKept

LEMMA RequestsStay ==
  ASSUME TypeInv, PairInv, UNCHANGED <<server, session, stored, saving, call, alive, late, missed>>,
         \A s \in Source : signOut'[s].at = "cleared" => signOut[s].at = "cleared",
         \A a \in Attempt : AttemptQuiet(a)
  PROVE  PairInv'
<1>1. (\A q \in Request : CallQuiet(q)) /\ (\A q \in Request : StillBrings(q))
  BY CallStays
<1>2. StoredInv'
  BY StoredStays DEF PairInv
<1>3. /\ session' \in Known \cup {0} /\ stored' \in Known \cup {0} /\ saving' \in Known \cup {0}
      /\ session' \in {0, session}
  BY DEF Known
<1>4. (alive' => alive) /\ (missed => missed') /\ UNCHANGED server
  OBVIOUS
<1>5. QED BY <1>1, <1>2, <1>3, <1>4, QuietKept

(* An attempt moves on, without a pair or with the one it had.              *)
LEMMA AttemptMoves ==
  ASSUME TypeInv, PairInv, NEW a \in Attempt, NEW at, NEW p, NEW verifies, NEW new,
         AttemptTo(a, at, p, verifies, new),
         at \in {"params", "sent"} => new = 0, at = "populating" => new # 0,
         at \in {"answered", "populating"} /\ new # 0 => Offers(a) /\ new = attempt[a].new
  PROVE  \A b \in Attempt : AttemptQuiet(b)
<1>1. /\ \A b \in Attempt \ {a} : attempt'[b] = attempt[b]
      /\ attempt'[a] = [at |-> at, prompt |-> p, verifies |-> verifies, new |-> new]
  BY DEF TypeInv, AttemptInv, AttemptTo
<1>2. attempt'[a].at = at /\ attempt'[a].new = new
  BY <1>1
<1>3. AttemptQuiet(a)
  BY <1>2 DEF AttemptQuiet, Offers
<1>4. QED BY <1>1, <1>3, AttemptStays

LEMMA SubmitPairs ==
  ASSUME TypeInv, PairInv, NEW a \in Attempt, Submit(a)
  PROVE  PairInv'
<1>1. UNCHANGED <<server, session, stored, saving, call, signOut, alive, late, missed>>
  BY DEF Submit, tokens, history
<1>2. \E p \in prompts : AttemptTo(a, "params", p, FALSE, 0)
  BY DEF Submit, AttemptTo
<1>3. \A b \in Attempt : AttemptQuiet(b)
  BY <1>2, AttemptMoves
<1>4. QED BY <1>1, <1>3, RequestsStay

LEMMA SignInPairs ==
  ASSUME TypeInv, PairInv, NEW a \in Attempt, SignIn(a)
  PROVE  PairInv'
<1>1. UNCHANGED <<server, session, stored, saving, call, signOut, alive, late, missed>>
  BY DEF SignIn, tokens, history
<1>2. attempt[a].new = 0
  BY DEF SignIn, PairInv, BroughtInv
<1>3. \A b \in Attempt : AttemptQuiet(b)
  <2>1. CASE attempt' = [attempt EXCEPT ![a].at = "sent", ![a].verifies = verifier]
    <3>1. AttemptTo(a, "sent", attempt[a].prompt, verifier, attempt[a].new)
      BY <2>1, AttemptParts, AttemptFields
    <3>2. QED BY <1>2, <3>1, AttemptMoves
  <2>2. CASE attempt' = [attempt EXCEPT ![a].at = "done"]
    <3>1. AttemptTo(a, "done", attempt[a].prompt, attempt[a].verifies, attempt[a].new)
      BY <2>2, AttemptParts, AttemptFields
    <3>2. QED BY <1>2, <3>1, AttemptMoves
  <2>3. QED BY <2>1, <2>2 DEF SignIn
<1>4. QED BY <1>1, <1>3, RequestsStay

LEMMA ServeSignInPairs ==
  ASSUME TypeInv, PairInv, NEW a \in Attempt, ServeSignIn(a)
  PROVE  PairInv'
<1>1. /\ UNCHANGED <<session, stored, saving, call, signOut, alive, late, missed>>
      /\ attempt[a].at = "sent"
  BY DEF ServeSignIn, tokens, history
<1>2. CASE \E n \in Fresh :
             /\ server' = [server EXCEPT ![n] = "valid"]
             /\ attempt' = [attempt EXCEPT ![a].at = "answered", ![a].new = n]
  <2>1. PICK n \in Fresh :
          /\ server' = [server EXCEPT ![n] = "valid"]
          /\ attempt' = [attempt EXCEPT ![a].at = "answered", ![a].new = n]
    BY <1>2
  <2>2. AttemptTo(a, "answered", attempt[a].prompt, attempt[a].verifies, n)
    BY <2>1, AttemptParts, AttemptFields
  <2>3. QED BY <1>1, <2>1, <2>2, OfferKept
<1>3. CASE attempt' = [attempt EXCEPT ![a].at = "answered"] /\ UNCHANGED server
  <2>1. AttemptTo(a, "answered", attempt[a].prompt, attempt[a].verifies, attempt[a].new)
    BY <1>3, AttemptParts, AttemptFields
  <2>2. attempt[a].new = 0
    BY <1>1 DEF PairInv, BroughtInv
  <2>3. \A b \in Attempt : AttemptQuiet(b)
    BY <2>1, <2>2, AttemptMoves
  <2>4. QED BY <1>1, <1>3, <2>3, RequestsStay
<1>4. QED BY <1>2, <1>3 DEF ServeSignIn

LEMMA GetSignInPairs ==
  ASSUME TypeInv, PairInv, NEW a \in Attempt, GetSignIn(a)
  PROVE  PairInv'
<1>1. /\ UNCHANGED <<server, session, stored, saving, call, signOut, alive, late, missed>>
      /\ attempt[a].at = "answered"
  BY DEF GetSignIn, tokens, history
<1>2. PICK at \in {"done", "populating"} :
        attempt' = [attempt EXCEPT ![a].at = at] /\ (at = "populating" => attempt[a].new # 0)
  BY DEF GetSignIn
<1>3. AttemptTo(a, at, attempt[a].prompt, attempt[a].verifies, attempt[a].new)
  BY <1>2, AttemptParts, AttemptFields
<1>4. attempt[a].new # 0 => Offers(a)
  BY <1>1 DEF Offers
<1>5. at \notin {"params", "sent"}
  BY <1>2
<1>6. \A b \in Attempt : AttemptQuiet(b)
  BY <1>2, <1>3, <1>4, <1>5, AttemptMoves
<1>7. QED BY <1>1, <1>6, RequestsStay

LEMMA RestorePairs ==
  ASSUME TypeInv, PairInv, NEW a \in Attempt, Restore(a)
  PROVE  PairInv'
<1> DEFINE n == attempt[a].new
<1>1. /\ UNCHANGED <<server, call, signOut, alive, missed>>
      /\ attempt[a].at = "populating" /\ alive /\ SetSession(n)
  BY DEF Restore
<1>2. Offers(a) /\ n \in Pair /\ OnItsWay(n)
  BY <1>1, PairsInRange DEF PairInv, BroughtInv, Offers
<1>3. AttemptTo(a, "done", attempt[a].prompt, attempt[a].verifies, n)
  BY AttemptParts, AttemptFields DEF Restore
<1>4. /\ \A b \in Attempt \ {a} : attempt'[b] = attempt[b]
      /\ attempt'[a] = [at |-> "done", prompt |-> attempt[a].prompt, verifies |-> attempt[a].verifies, new |-> n]
  BY <1>3 DEF TypeInv, AttemptInv, AttemptTo
<1>5. \A b \in Attempt : AttemptWithout(b, n)
  <2>1. attempt'[a].at = "done"
    BY <1>4
  <2>2. AttemptWithout(a, n)
    BY <2>1 DEF AttemptWithout, Offers
  <2>3. ASSUME NEW b \in Attempt \ {a} PROVE AttemptWithout(b, n)
    BY <1>2, <1>4 DEF AttemptWithout, Offers, PairInv, ApartInv
  <2>4. QED BY <2>2, <2>3
<1>6. \A q \in Request : CallWithout(q, n)
  BY <1>1, <1>2, PairKnown DEF CallWithout, Brings, PairInv, ApartInv
<1>7. QED BY <1>1, <1>2, <1>5, <1>6, TakeKept

LEMMA CancelPairs ==
  ASSUME TypeInv, PairInv, Cancel
  PROVE  PairInv'
<1>1. UNCHANGED <<server, session, stored, saving, call, attempt, signOut, alive, late, missed>>
  BY DEF Cancel, tokens, history
<1>2. \A a \in Attempt : AttemptQuiet(a)
  BY <1>1, AttemptStays
<1>3. QED BY <1>1, <1>2, RequestsStay

LEMMA UserSignsOutPairs ==
  ASSUME TypeInv, PairInv, UserSignsOut
  PROVE  PairInv'
<1>1. UNCHANGED <<server, session, stored, saving, call, attempt, alive, late, missed>>
  BY DEF UserSignsOut, tokens, history
<1>2. \A s \in Source : signOut'[s].at = "cleared" => signOut[s].at = "cleared"
  BY SignOutQuiet DEF UserSignsOut, Source
<1>3. \A a \in Attempt : AttemptQuiet(a)
  BY <1>1, AttemptStays
<1>4. QED BY <1>1, <1>2, <1>3, RequestsStay

LEMMA ExpirePairs ==
  ASSUME TypeInv, PairInv, NEW p \in Pair, Expire(p)
  PROVE  PairInv'
<1>1. UNCHANGED <<session, stored, saving, call, attempt, signOut, alive, late, missed>>
  BY DEF Expire, tokens, history
<1>2. \A q \in Pair : server'[q] = server[q] \/ (server[q] # "unused" /\ server'[q] \in Live)
  BY DEF Expire, TypeInv, OtherInv, Live
<1>3. StoredInv'
  BY <1>1, StoredStays DEF PairInv
<1>4. QED BY <1>1, <1>2, <1>3, ServerAges

LEMMA EndSessionPairs ==
  ASSUME TypeInv, PairInv, EndSession
  PROVE  PairInv'
<1>1. UNCHANGED <<session, stored, saving, call, attempt, signOut, alive, late, missed>>
  BY DEF EndSession, tokens, history
<1>2. \A q \in Pair : server'[q] = server[q] \/ (server[q] # "unused" /\ server'[q] \in Live)
  BY DEF EndSession, Issued, Live
<1>3. StoredInv'
  BY <1>1, StoredStays DEF PairInv
<1>4. QED BY <1>1, <1>2, <1>3, ServerAges

LEMMA SignOutOnServerPairs ==
  ASSUME TypeInv, PairInv, NEW s \in Source, SignOutOnServer(s)
  PROVE  PairInv'
<1>1. UNCHANGED <<session, stored, saving, call, attempt, alive, late, missed>>
  BY DEF SignOutOnServer, tokens, history
<1>2. \A q \in Pair : server'[q] = server[q] \/ (server[q] # "unused" /\ server'[q] \in Live)
  BY DEF SignOutOnServer, TypeInv, OtherInv, Live
<1>3. \A t \in Source : signOut'[t].at = "cleared" => signOut[t].at = "cleared"
  BY DEF SignOutOnServer, TypeInv, OtherInv
<1>4. StoredInv'
  BY <1>1, <1>3, StoredStays DEF PairInv
<1>5. QED BY <1>1, <1>2, <1>4, ServerAges

LEMMA ClearDataPairs ==
  ASSUME TypeInv, PairInv, NEW s \in Source, ClearData(s)
  PROVE  PairInv'
<1>1. /\ UNCHANGED <<server, session, call, attempt, alive, late, missed>>
      /\ stored' = 0 /\ saving' = 0
  BY DEF ClearData, history
<1>2. /\ \A q \in Request : CallQuiet(q) /\ StillBrings(q)
      /\ \A a \in Attempt : AttemptQuiet(a)
  BY <1>1, CallStays, AttemptStays
<1>3. StoredInv'
  BY <1>1 DEF StoredInv, PairInv
<1>4. /\ session' \in Known \cup {0} /\ session' \in {0, session}
      /\ stored' \in Known \cup {0} /\ saving' \in Known \cup {0}
  BY <1>1 DEF Known
<1>5. (alive' => alive) /\ (missed => missed')
  BY <1>1
<1>6. QED BY <1>1, <1>2, <1>3, <1>4, <1>5, QuietKept

LEMMA DeinitPairs ==
  ASSUME TypeInv, PairInv, NEW s \in Source, Deinit(s)
  PROVE  PairInv'
<1>1. /\ UNCHANGED <<server, stored, saving, call, attempt, signOut, late, missed>>
      /\ session' = 0 /\ signOut[s].at = "cleared"
  BY DEF Deinit, history
<1>2. alive' = FALSE
  BY DEF Deinit
<1>3. ~alive'
  BY <1>2
<1>4. /\ \A q \in Request : CallQuiet(q) /\ StillBrings(q)
      /\ \A a \in Attempt : AttemptQuiet(a)
  BY <1>1, CallStays, AttemptStays
<1>5. StoredInv'
  BY <1>1, <1>3 DEF StoredInv, PairInv
<1>6. session' \in Known \cup {0} /\ stored' \in Known \cup {0} /\ saving' \in Known \cup {0}
  BY <1>1 DEF Known
<1>7. missed => missed'
  BY <1>1
<1>8. QED BY <1>1, <1>3, <1>4, <1>5, <1>6, <1>7, QuietKept

LEMMA CrashPairs ==
  ASSUME TypeInv, PairInv, Crash
  PROVE  PairInv'
<1>1. UNCHANGED <<server, stored, late>> /\ session' = stored /\ saving' = 0 /\ (alive' <=> alive) /\ alive
  BY DEF Crash
<1>2. missed' <=> missed \/ saving # 0 \/ \E r \in Request : Brings(r)
  BY DEF Crash, TypeInv, OtherInv
<1>3. \A r \in Request :
        \/ call'[r] = call[r] /\ call[r].at \in {"new", "ok", "failed"}
        \/ call'[r] = [at |-> "failed", pair |-> 0, answer |-> "none", new |-> 0]
  BY DEF Crash
<1>4. \A r \in Request : CallQuiet(r)
  <2> SUFFICES ASSUME NEW r \in Request PROVE CallQuiet(r)
    OBVIOUS
  <2>1. CASE call'[r] = call[r]
    BY <2>1, CallStays
  <2>2. CASE call'[r] = [at |-> "failed", pair |-> 0, answer |-> "none", new |-> 0]
    <3>1. call'[r].at = "failed" /\ call'[r].pair = 0 /\ call'[r].new = 0
      BY <2>2
    <3>2. QED BY <3>1 DEF CallQuiet, Brings
  <2>3. QED BY <1>3, <2>1, <2>2
<1>5. missed' \/ \A r \in Request : StillBrings(r)
  BY <1>2 DEF StillBrings
<1>6. \A a \in Attempt : AttemptQuiet(a)
  <2>1. \A a \in Attempt : attempt'[a].at \in {"none", "done"}
    BY DEF Crash, TypeInv, AttemptInv, AttemptAt
  <2>2. QED BY <2>1 DEF AttemptQuiet, Offers
<1>7. StoredInv'
  <2>1. \A s \in Source : signOut'[s].at # "cleared"
    BY DEF Crash, NoSignOut
  <2>2. QED BY <1>1, <2>1 DEF StoredInv
<1>8. /\ session' \in Known \cup {0} /\ stored' \in Known \cup {0} /\ saving' \in Known \cup {0}
      /\ missed' \/ session' \in {0, session}
  BY <1>1, <1>2 DEF Known, PairInv, StoredInv
<1>9. (alive' => alive) /\ (missed => missed') /\ UNCHANGED server
  BY <1>1, <1>2
<1>10. QED BY <1>4, <1>5, <1>6, <1>7, <1>8, <1>9, QuietKept

LEMMA PersistedPairs ==
  ASSUME TypeInv, PairInv, Persisted
  PROVE  PairInv'
<1>1. /\ UNCHANGED <<server, session, call, attempt, signOut, alive, late, missed>>
      /\ alive /\ saving # 0 /\ stored' = saving /\ saving' = 0
  BY DEF Persisted, history
<1>2. /\ \A q \in Request : CallQuiet(q) /\ StillBrings(q)
      /\ \A a \in Attempt : AttemptQuiet(a)
  BY <1>1, CallStays, AttemptStays
<1>3. StoredInv'
  BY <1>1 DEF StoredInv, PairInv
<1>4. /\ session' \in Known \cup {0} /\ session' \in {0, session}
      /\ stored' \in Known \cup {0} /\ saving' \in Known \cup {0}
  BY <1>1 DEF Known
<1>5. (alive' => alive) /\ (missed => missed')
  BY <1>1
<1>6. QED BY <1>1, <1>2, <1>3, <1>4, <1>5, QuietKept

LEMMA InitPairInv == Init => PairInv
<1> SUFFICES ASSUME Init PROVE PairInv
  OBVIOUS
<1>1. /\ session = 1 /\ stored = 1 /\ saving = 0 /\ 1 \in Pair /\ server[1] = "valid"
      /\ call = [r \in Request |-> NoCall] /\ attempt = [a \in Attempt |-> NoAttempt]
  BY Bounds DEF Init, Pair
<1>2. \A r \in Request : call[r].at = "new" /\ call[r].pair = 0 /\ call[r].new = 0
  BY <1>1 DEF NoCall
<1>3. \A a \in Attempt : attempt[a].at = "none"
  BY <1>1 DEF NoAttempt
<1>4. Known \subseteq {0, 1}
  BY <1>1, <1>2 DEF Known
<1>5. \A p \in Known : p # 0 => server[p] # "unused"
  BY <1>1, <1>4
<1>6. RefreshInv /\ BroughtInv /\ ApartInv /\ NoTokenRefreshedTwice
  BY <1>2, <1>3 DEF RefreshInv, BroughtInv, ApartInv, NoTokenRefreshedTwice, Brings, Offers
<1>7. StoredInv
  <2>1. \A s \in Source : signOut[s].at # "cleared"
    BY DEF Init, NoSignOut
  <2>2. alive
    BY DEF Init
  <2>3. QED BY <1>1, <2>1, <2>2 DEF StoredInv
<1>8. SuccessorInv
  BY <1>1 DEF SuccessorInv
<1>9. QED BY <1>5, <1>6, <1>7, <1>8 DEF PairInv

LEMMA PairInvKept == TypeInv /\ PairInv /\ [Next]_vars => PairInv'
<1> SUFFICES ASSUME TypeInv, PairInv, [Next]_vars PROVE PairInv'
  OBVIOUS
<1>1. CASE Server
  BY <1>1, ServePairs, ServeRefreshPairs, ServeSignInPairs DEF Server
<1>2. CASE Client
  BY <1>2, GetAnswerPairs, GetPairPairs, GetSecondAnswerPairs, PopulateFromChangePairs,
     SignInPairs, GetSignInPairs, RestorePairs, SignOutOnServerPairs, ClearDataPairs, DeinitPairs,
     PersistedPairs
  DEF Client
<1>3. CASE User
  BY <1>3, MakePairs, SubmitPairs, CancelPairs, UserSignsOutPairs DEF User
<1>4. CASE Misfortune
  BY <1>4, LoseAnswerPairs, ExpirePairs, EndSessionPairs, CrashPairs DEF Misfortune
<1>5. CASE UNCHANGED vars
  <2>1. UNCHANGED <<server, session, stored, saving, call, attempt, signOut, alive, late, missed>>
    BY <1>5 DEF vars, tokens, history
  <2>2. \A a \in Attempt : AttemptQuiet(a)
    BY <2>1, AttemptStays
  <2>3. \A s \in Source : signOut'[s].at = "cleared" => signOut[s].at = "cleared"
    BY <2>1
  <2>4. QED BY <2>1, <2>2, <2>3, RequestsStay
<1>6. QED BY <1>1, <1>2, <1>3, <1>4, <1>5 DEF Next

LEMMA PairInvAlways == Spec => []PairInv
BY InitPairInv, PairInvKept, TypeInvAlways, PTL DEF Spec

(* A refresh token is not used again once its use has brought a new pair,   *)
(* unless an answer was lost, or the process died before a new pair was on  *)
(* disk (preprocessingError, refreshSession, setSession).                   *)
THEOREM SessionsNoTokenRefreshedTwice == Spec => []NoTokenRefreshedTwice
BY PairInvAlways, PTL DEF PairInv

(* The pair of the client, in memory and on disk once it is saved, is the   *)
(* newest, or the answer with its successor is on the way or was lost, or   *)
(* the process died before the successor was on disk; and a client that     *)
(* signed out leaves no session on disk but one that came late.             *)
THEOREM SessionsKeepUp == Spec => []SessionKeepsUp
<1>1. TypeInv /\ PairInv => SessionKeepsUp
  <2> SUFFICES ASSUME TypeInv, PairInv PROVE SessionKeepsUp
    OBVIOUS
  <2>1. PairKeepsUp
    <3> SUFFICES ASSUME alive, ~missed, \A r \in Request : ~Brings(r)
                 PROVE  /\ session # 0 => server[session] \notin {"rotated", "replaced"}
                        /\ stored # 0 /\ saving = 0 => stored = session
      BY DEF PairKeepsUp
    <3>1. session # 0 => server[session] \notin {"rotated", "replaced"}
      BY DEF PairInv, SuccessorInv
    <3>2. stored # 0 /\ saving = 0 => stored = session
      BY DEF PairInv, StoredInv
    <3>3. QED BY <3>1, <3>2
  <2>2. SignedOutLeavesNoSession
    BY DEF SignedOutLeavesNoSession, PairInv, StoredInv
  <2>3. QED BY <2>1, <2>2 DEF SessionKeepsUp
<1>2. QED BY <1>1, TypeInvAlways, PairInvAlways, PTL
=============================================================================
