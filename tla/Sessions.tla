------------------------------ MODULE Sessions ------------------------------
(***************************************************************************)
(* The session of one client: SessionManager and SNApiService.  Requests   *)
(* to the server carry the access token of the session; when the server    *)
(* answers that it has expired (498), the request that got the answer      *)
(* refreshes the session and is sent again; when it answers that the       *)
(* session is invalid (401), the user is asked to sign in again, or is     *)
(* signed out if the session was revoked.  Meanwhile the user may change   *)
(* the credentials, sign in, sign out, cancel, and the process may die.    *)
(*                                                                         *)
(* A pair of an access and a refresh token is a number, in the order the   *)
(* server issues them.  The server, the network and the user are external. *)
(***************************************************************************)
EXTENDS Naturals, FiniteSets

CONSTANTS
  Request,        \* requests, each made once (sync, getSessionsList, updateSetting, ...)
  Change,         \* those of them that change the credentials
  Attempt,        \* attempts to sign in again
  MaxExpiries,    \* bound: access tokens that expire
  MaxFailures,    \* bound: answers lost, before or after the server acted
  MaxCrashes      \* bound: deaths of the process

ASSUME SessionsAssumption ==
  /\ Change \subseteq Request
  /\ IsFiniteSet(Request) /\ IsFiniteSet(Attempt)
  /\ MaxExpiries \in Nat /\ MaxFailures \in Nat /\ MaxCrashes \in Nat

(* As many pairs and prompts as the requests and the attempts can call for.  *)
MaxPairs   == 1 + Cardinality(Request) + Cardinality(Change) + Cardinality(Attempt)
MaxPrompts == Cardinality(Request)

Pair == 1 .. MaxPairs
Source == {"user", "revoked"}

VARIABLES
  server,         \* what the server takes each pair for
  session, stored,                    \* the pair in memory and the one on disk, 0 for none
  saving,         \* the pair that a persist under way is to put there, 0 for none
  refreshing, changing, authenticating,   \* flags of the API service
  call,           \* requests
  prompts,        \* challenges to sign in again that are open
  presented,      \* isSessionRenewChallengePresented
  asked,          \* number of those challenges so far
  attempt,        \* attempts to sign in
  verifier,       \* whether the code verifier is in memory
  signOut,        \* sign-outs, by what started them
  alive,          \* the application is not deinitialised
  executed,       \* how often the server executed each request
  missed,         \* a new pair never reached the client, or was lost before it was on disk
  late,           \* such an answer was handled after the storage was cleared
  expiries, failures, crashes

tokens  == <<session, stored, saving>>
prompt  == <<prompts, presented, asked>>
history == <<executed, missed, late>>
limits  == <<expiries, failures, crashes>>
vars == <<server, tokens, refreshing, changing, authenticating, call, prompt,
          attempt, verifier, signOut, alive, history, limits>>

Answer == {"none", "ok", "expired", "invalid", "revoked", "error"}

(* A request is on its way to the server until it has an answer, which is   *)
(* then on its way back.                                                    *)
CallAt == {"new", "sent", "refresh", "retry", "populating", "ok", "failed"}

AttemptAt == {"none", "params", "sent", "answered", "populating", "done"}

(* The flags tell what is going on.                                         *)
FlagsOK ==
  /\ refreshing <=> \E r \in Request : call[r].at = "refresh"
  /\ changing <=> \E r \in Change : call[r].at \in {"sent", "refresh", "retry"}
  /\ authenticating <=> \E a \in Attempt : attempt[a].at \in {"sent", "answered"}
  /\ presented <=> prompts # {}

TypeOK ==
  /\ server \in [Pair -> {"unused", "valid", "expired", "lapsed", "rotated", "replaced",
                          "dead", "revoked"}]
  /\ session \in 0 .. MaxPairs /\ stored \in 0 .. MaxPairs /\ saving \in 0 .. MaxPairs
  /\ refreshing \in BOOLEAN /\ changing \in BOOLEAN /\ authenticating \in BOOLEAN
  /\ call \in [Request -> [at : CallAt, pair : 0 .. MaxPairs, answer : Answer, new : 0 .. MaxPairs]]
  /\ asked \in 0 .. MaxPrompts /\ prompts \subseteq 1 .. asked /\ presented \in BOOLEAN
  /\ attempt \in [Attempt -> [at : AttemptAt, prompt : 0 .. MaxPrompts, verifies : BOOLEAN,
                              new : 0 .. MaxPairs]]
  /\ verifier \in BOOLEAN
  /\ signOut \in [Source -> [at : {"no", "network", "keys", "cleared"}, pair : 0 .. MaxPairs]]
  /\ alive \in BOOLEAN
  /\ executed \in [Request -> 0 .. 2] /\ missed \in BOOLEAN /\ late \in BOOLEAN
  /\ FlagsOK
  /\ expiries \in 0 .. MaxExpiries /\ failures \in 0 .. MaxFailures /\ crashes \in 0 .. MaxCrashes

NoCall    == [at |-> "new", pair |-> 0, answer |-> "none", new |-> 0]
NoAttempt == [at |-> "none", prompt |-> 0, verifies |-> FALSE, new |-> 0]
NoSignOut == [at |-> "no", pair |-> 0]

Init ==
  /\ server = [p \in Pair |-> IF p = 1 THEN "valid" ELSE "unused"]
  /\ session = 1 /\ stored = 1 /\ saving = 0
  /\ refreshing = FALSE /\ changing = FALSE /\ authenticating = FALSE
  /\ call = [r \in Request |-> NoCall]
  /\ prompts = {} /\ presented = FALSE /\ asked = 0
  /\ attempt = [a \in Attempt |-> NoAttempt] /\ verifier = FALSE
  /\ signOut = [s \in Source |-> NoSignOut] /\ alive = TRUE
  /\ executed = [r \in Request |-> 0] /\ missed = FALSE /\ late = FALSE
  /\ expiries = 0 /\ failures = 0 /\ crashes = 0

-----------------------------------------------------------------------------
(* The server.                                                              *)
Fresh == {p \in Pair : server[p] = "unused" /\ \A q \in 1 .. p - 1 : server[q] # "unused"}

(* What it answers to an access token.  The token of a pair that has been   *)
(* replaced is unknown to it, or one that has expired.                      *)
AnswersTo(p) ==
  IF p = 0 THEN {"invalid"}
  ELSE CASE server[p] = "valid" -> {"ok"}
         [] server[p] \in {"expired", "lapsed"} -> {"expired"}
         [] server[p] \in {"rotated", "replaced"} -> {"expired", "invalid"}
         [] server[p] = "dead" -> {"invalid"}
         [] server[p] = "revoked" -> {"revoked"}
         [] server[p] = "unused" -> {}

(* A request that changes the credentials is answered with a new session;   *)
(* the one it was made with may go on.                                      *)
Execute(r, p) ==
  IF r \in Change
  THEN \E n \in Fresh, was \in {"valid", "replaced"} :
         /\ server' = [server EXCEPT ![n] = "valid", ![p] = was]
         /\ call' = [call EXCEPT ![r].answer = "ok", ![r].new = n]
  ELSE /\ call' = [call EXCEPT ![r].answer = "ok"]
       /\ UNCHANGED server

Serve(r) ==
  /\ call[r].at \in {"sent", "retry"} /\ call[r].answer = "none"
  /\ \E answer \in AnswersTo(call[r].pair) :
       IF answer = "ok"
       THEN /\ Execute(r, call[r].pair)
            /\ executed' = [executed EXCEPT ![r] = @ + 1]
       ELSE /\ call' = [call EXCEPT ![r].answer = answer]
            /\ UNCHANGED <<server, executed>>
  /\ UNCHANGED <<tokens, refreshing, changing, authenticating, prompt, attempt, verifier,
                 signOut, alive, missed, late, limits>>

(* refresh_token: a new pair for one that can be refreshed.                 *)
ServeRefresh(r) ==
  /\ call[r].at = "refresh" /\ call[r].answer = "none"
  /\ LET p == call[r].pair IN
     \/ /\ server[p] \in {"valid", "expired"}
        /\ \E n \in Fresh :
             /\ server' = [server EXCEPT ![n] = "valid", ![p] = "rotated"]
             /\ call' = [call EXCEPT ![r].answer = "ok", ![r].new = n]
     \/ /\ server[p] \notin {"valid", "expired"}
        /\ \E answer \in IF server[p] = "revoked" THEN {"revoked"} ELSE {"invalid", "error"} :
             call' = [call EXCEPT ![r].answer = answer]
        /\ UNCHANGED server
  /\ UNCHANGED <<tokens, refreshing, changing, authenticating, prompt, attempt, verifier,
                 signOut, alive, history, limits>>

(* A request does not reach the server, or its answer does not come back.   *)
LoseAnswer(r) ==
  /\ failures < MaxFailures /\ failures' = failures + 1
  /\ call[r].at \in {"sent", "retry", "refresh"} /\ call[r].answer # "error"
  /\ call' = [call EXCEPT ![r].answer = "error", ![r].new = 0]
  /\ missed' = (missed \/ call[r].new # 0)
  /\ UNCHANGED <<server, tokens, refreshing, changing, authenticating, prompt, attempt,
                 verifier, signOut, alive, executed, late, expiries, crashes>>

Expire(p) ==
  /\ expiries < MaxExpiries /\ expiries' = expiries + 1
  /\ server[p] = "valid"
  /\ \E state \in {"expired", "lapsed"} : server' = [server EXCEPT ![p] = state]
  /\ UNCHANGED <<tokens, refreshing, changing, authenticating, call, prompt, attempt,
                 verifier, signOut, alive, history, failures, crashes>>

Issued == {p \in Pair : server[p] # "unused"}

(* Another client ends the sessions of this one.                            *)
EndSession ==
  /\ \A p \in Issued : server[p] \notin {"dead", "revoked"}
  /\ \E state \in {"dead", "revoked"} :
       server' = [p \in Pair |-> IF p \in Issued THEN state ELSE server[p]]
  /\ UNCHANGED <<tokens, refreshing, changing, authenticating, call, prompt, attempt,
                 verifier, signOut, alive, history, limits>>

-----------------------------------------------------------------------------
(* A variant that keeps the new pair in memory only.                        *)
SetSessionUnsaved(n) ==
  /\ session' = n
  /\ late' = (late \/ \E s \in Source : signOut[s].at = "cleared")
  /\ UNCHANGED <<stored, saving>>

(* setSession: in memory; a persist that nobody waits for begins.           *)
SetSession(n) ==
  /\ session' = n
  /\ saving' = n
  /\ late' = (late \/ \E s \in Source : signOut[s].at = "cleared")
  /\ UNCHANGED stored

Persisted ==
  /\ alive /\ saving # 0
  /\ stored' = saving /\ saving' = 0
  /\ UNCHANGED <<server, session, refreshing, changing, authenticating, call, prompt, attempt,
                 verifier, signOut, alive, history, limits>>

(* reauthenticateInvalidSession: one challenge at a time.                   *)
Reauthenticate ==
  IF presented
  THEN UNCHANGED prompt
  ELSE /\ presented' = TRUE
       /\ asked' = asked + 1
       /\ prompts' = prompts \cup {asked + 1}

(* signOut up to its request, which the user (or handleRevokedSession, once) *)
(* begins.                                                                  *)
BeginSignOut(s) ==
  signOut' = [signOut EXCEPT ![s] =
                IF @.at # "no" THEN @
                ELSE [at |-> IF session = 0 THEN "keys" ELSE "network", pair |-> session]]

(* preprocessAuthenticatedErrorResponse: what an answer has for consequence *)
(* besides the failure of the request.                                      *)
ObserveError(answer) ==
  CASE answer = "invalid" /\ session # 0 -> Reauthenticate /\ UNCHANGED signOut
    [] answer = "revoked" /\ session # 0 -> BeginSignOut("revoked") /\ UNCHANGED prompt
    [] OTHER -> UNCHANGED <<prompt, signOut>>

(* A variant that does not look whether the session is being refreshed.     *)
MayAlwaysRequest == session # 0

(* preprocessingError.                                                      *)
MayRequest == ~refreshing /\ session # 0

(* A request is made, with the token of the moment.                         *)
Make(r) ==
  /\ alive /\ call[r].at = "new"
  /\ IF MayRequest /\ ~(r \in Change /\ changing)
     THEN /\ call' = [call EXCEPT ![r] = [at |-> "sent", pair |-> session, answer |-> "none", new |-> 0]]
          /\ changing' = (changing \/ r \in Change)
     ELSE /\ call' = [call EXCEPT ![r].at = "failed"]
          /\ UNCHANGED changing
  /\ UNCHANGED <<server, tokens, refreshing, authenticating, prompt, attempt, verifier,
                 signOut, alive, history, limits>>

Replied(r, at) == alive /\ call[r].at = at /\ call[r].answer # "none"

End(r, at) == call' = [call EXCEPT ![r] = [at |-> at, pair |-> 0, answer |-> "none", new |-> 0]]

(* A variant that leaves the flag of a change up when it fails.             *)
FinishChanging(r) ==
  IF call[r].answer # "ok"
  THEN End(r, "failed") /\ UNCHANGED changing
  ELSE /\ IF call[r].new # 0
          THEN call' = [call EXCEPT ![r].at = "populating"]
          ELSE End(r, "ok")
       /\ changing' = (changing /\ r \notin Change)

(* The end of a request: an answer to a change of the credentials brings a  *)
(* session, which is set once the new root key is.                          *)
Finish(r) ==
  /\ IF call[r].answer # "ok"
     THEN End(r, "failed")
     ELSE IF call[r].new # 0
          THEN call' = [call EXCEPT ![r].at = "populating"]
          ELSE End(r, "ok")
  /\ changing' = (changing /\ r \notin Change)

(* refreshSession: the flag is up while the request for a new pair is out.  *)
Refresh(r) ==
  IF MayRequest
  THEN /\ refreshing' = TRUE
       /\ call' = [call EXCEPT ![r] = [at |-> "refresh", pair |-> session, answer |-> "none", new |-> 0]]
       /\ UNCHANGED changing
  ELSE /\ End(r, "failed")
       /\ changing' = (changing /\ r \notin Change)
       /\ UNCHANGED refreshing

(* A variant that sends any request that failed again.                      *)
GetAnswerRetried(r) ==
  /\ Replied(r, "sent")
  /\ IF r \in Change THEN UNCHANGED <<prompt, signOut>> ELSE ObserveError(call[r].answer)
  /\ IF call[r].answer \in {"expired", "error"}
     THEN Refresh(r)
     ELSE Finish(r) /\ UNCHANGED refreshing
  /\ UNCHANGED <<server, tokens, authenticating, attempt, verifier, alive, history, limits>>

(* The answer to a request.  Those that change the credentials do not       *)
(* report an invalid session.                                               *)
GetAnswer(r) ==
  /\ Replied(r, "sent")
  /\ IF r \in Change THEN UNCHANGED <<prompt, signOut>> ELSE ObserveError(call[r].answer)
  /\ IF call[r].answer = "expired"
     THEN Refresh(r)
     ELSE Finish(r) /\ UNCHANGED refreshing
  /\ UNCHANGED <<server, tokens, authenticating, attempt, verifier, alive, history, limits>>

(* The answer to a refresh: the new pair is set and the request sent again, *)
(* or the request fails.                                                    *)
GetPair(r) ==
  /\ Replied(r, "refresh")
  /\ refreshing' = FALSE
  /\ IF call[r].answer = "ok"
     THEN /\ SetSession(call[r].new)
          /\ call' = [call EXCEPT ![r] = [at |-> "retry", pair |-> call[r].new,
                                          answer |-> "none", new |-> 0]]
          /\ UNCHANGED <<changing, prompt, signOut>>
     ELSE /\ ObserveError(call[r].answer)
          /\ End(r, "failed")
          /\ changing' = (changing /\ r \notin Change)
          /\ UNCHANGED <<tokens, late>>
  /\ UNCHANGED <<server, authenticating, attempt, verifier, alive, executed, missed, limits>>

(* The answer to a request sent again is what the caller gets.              *)
GetSecondAnswer(r) ==
  /\ Replied(r, "retry")
  /\ Finish(r)
  /\ UNCHANGED <<server, tokens, refreshing, authenticating, prompt, attempt, verifier,
                 signOut, alive, history, limits>>

PopulateFromChange(r) ==
  /\ alive /\ call[r].at = "populating"
  /\ SetSession(call[r].new)
  /\ End(r, "ok")
  /\ UNCHANGED <<server, refreshing, changing, authenticating, prompt, attempt, verifier,
                 signOut, alive, executed, missed, limits>>
-----------------------------------------------------------------------------
(* The user answers the challenge: the key parameters are asked for, with a *)
(* new code verifier.                                                       *)
Submit(a) ==
  /\ alive /\ attempt[a].at = "none"
  /\ \E p \in prompts :
       /\ \A b \in Attempt : attempt[b].prompt = p => attempt[b].at \in {"none", "done"}
       /\ attempt' = [attempt EXCEPT ![a] = [at |-> "params", prompt |-> p, verifies |-> FALSE, new |-> 0]]
  /\ verifier' = TRUE
  /\ UNCHANGED <<server, tokens, refreshing, changing, authenticating, call, prompt,
                 signOut, alive, history, limits>>

(* They come and the root key is computed; signIn sends the verifier that   *)
(* is in memory by now.  Or they do not come.                               *)
SignIn(a) ==
  /\ alive /\ attempt[a].at = "params"
  /\ \/ /\ ~authenticating
        /\ authenticating' = TRUE
        /\ attempt' = [attempt EXCEPT ![a].at = "sent", ![a].verifies = verifier]
        /\ UNCHANGED failures
     \/ /\ IF authenticating
           THEN UNCHANGED failures
           ELSE failures < MaxFailures /\ failures' = failures + 1
        /\ attempt' = [attempt EXCEPT ![a].at = "done"]
        /\ UNCHANGED authenticating
  /\ UNCHANGED <<server, tokens, refreshing, changing, call, prompt, verifier,
                 signOut, alive, history, expiries, crashes>>

(* The server takes a password that is right and comes with a verifier.     *)
ServeSignIn(a) ==
  /\ attempt[a].at = "sent"
  /\ \/ /\ attempt[a].verifies
        /\ \E n \in Fresh :
             /\ server' = [server EXCEPT ![n] = "valid"]
             /\ attempt' = [attempt EXCEPT ![a].at = "answered", ![a].new = n]
     \/ /\ attempt' = [attempt EXCEPT ![a].at = "answered"]
        /\ UNCHANGED server
  /\ UNCHANGED <<tokens, refreshing, changing, authenticating, call, prompt, verifier,
                 signOut, alive, history, limits>>

GetSignIn(a) ==
  /\ alive /\ attempt[a].at = "answered"
  /\ authenticating' = FALSE
  /\ verifier' = FALSE
  /\ attempt' = [attempt EXCEPT ![a].at = IF attempt[a].new = 0 THEN "done" ELSE "populating"]
  /\ UNCHANGED <<server, tokens, refreshing, changing, call, prompt, signOut, alive, history, limits>>

Closed(p) ==
  /\ prompts' = prompts \ {p}
  /\ presented' = (presented /\ p \notin prompts)
  /\ UNCHANGED asked

(* populateSession, and the challenge is completed; when it was cancelled   *)
(* meanwhile, completeChallenge throws, and nothing comes after.            *)
Restore(a) ==
  /\ alive /\ attempt[a].at = "populating"
  /\ SetSession(attempt[a].new)
  /\ Closed(attempt[a].prompt)
  /\ attempt' = [attempt EXCEPT ![a].at = "done"]
  /\ UNCHANGED <<server, refreshing, changing, authenticating, call, verifier,
                 signOut, alive, executed, missed, limits>>

(* The user cancels the challenge, whatever attempt of it is going on.      *)
Cancel ==
  /\ alive
  /\ \E p \in prompts : Closed(p)
  /\ UNCHANGED <<server, tokens, refreshing, changing, authenticating, call, attempt, verifier,
                 signOut, alive, history, limits>>

-----------------------------------------------------------------------------
UserSignsOut ==
  /\ alive /\ signOut["user"].at = "no"
  /\ BeginSignOut("user")
  /\ UNCHANGED <<server, tokens, refreshing, changing, authenticating, call, prompt, attempt,
                 verifier, alive, history, limits>>

(* The request to sign out is answered, or not.                             *)
SignOutOnServer(s) ==
  /\ alive /\ signOut[s].at = "network"
  /\ signOut' = [signOut EXCEPT ![s].at = "keys"]
  /\ LET p == signOut[s].pair IN
     \/ /\ server[p] \in {"valid", "expired", "lapsed"}
        /\ server' = [server EXCEPT ![p] = "dead"]
     \/ UNCHANGED server
  /\ UNCHANGED <<tokens, refreshing, changing, authenticating, call, prompt, attempt,
                 verifier, alive, history, limits>>

(* deleteWorkspaceSpecificKeyStateFromDevice and clearAllData, whose own    *)
(* persist comes after the one under way.                                   *)
ClearData(s) ==
  /\ alive /\ signOut[s].at = "keys"
  /\ signOut' = [signOut EXCEPT ![s].at = "cleared"]
  /\ stored' = 0 /\ saving' = 0
  /\ UNCHANGED <<server, session, refreshing, changing, authenticating, call, prompt, attempt,
                 verifier, alive, history, limits>>

(* SignedOut: the application is deinitialised.                             *)
Deinit(s) ==
  /\ alive /\ signOut[s].at = "cleared"
  /\ alive' = FALSE
  /\ session' = 0
  /\ UNCHANGED <<server, stored, saving, refreshing, changing, authenticating, call, prompt, attempt,
                 verifier, signOut, history, limits>>

Brings(r) == call[r].new # 0

(* The process dies and starts again from what is on disk                   *)
(* (initializeFromDisk).                                                    *)
Crash ==
  /\ alive /\ crashes < MaxCrashes /\ crashes' = crashes + 1
  /\ session' = stored /\ saving' = 0
  /\ refreshing' = FALSE /\ changing' = FALSE /\ authenticating' = FALSE
  /\ call' = [r \in Request |->
                IF call[r].at \in {"new", "ok", "failed"} THEN call[r]
                ELSE [at |-> "failed", pair |-> 0, answer |-> "none", new |-> 0]]
  /\ prompts' = {} /\ presented' = FALSE
  /\ attempt' = [a \in Attempt |->
                   IF attempt[a].at = "none" THEN attempt[a] ELSE [attempt[a] EXCEPT !.at = "done"]]
  /\ verifier' = FALSE
  /\ signOut' = [s \in Source |-> NoSignOut]
  /\ missed' = (missed \/ saving # 0 \/ \E r \in Request : Brings(r))
  /\ UNCHANGED <<server, stored, asked, alive, executed, late, expiries, failures>>

-----------------------------------------------------------------------------
Server ==
  \/ \E r \in Request : Serve(r) \/ ServeRefresh(r)
  \/ \E a \in Attempt : ServeSignIn(a)

Client ==
  \/ \E r \in Request : GetAnswer(r) \/ GetPair(r) \/ GetSecondAnswer(r) \/ PopulateFromChange(r)
  \/ \E a \in Attempt : SignIn(a) \/ GetSignIn(a) \/ Restore(a)
  \/ \E s \in Source : SignOutOnServer(s) \/ ClearData(s) \/ Deinit(s)
  \/ Persisted

User ==
  \/ \E r \in Request : Make(r)
  \/ \E a \in Attempt : Submit(a)
  \/ Cancel
  \/ UserSignsOut

Misfortune ==
  \/ \E r \in Request : LoseAnswer(r)
  \/ \E p \in Pair : Expire(p)
  \/ EndSession
  \/ Crash

Next == Server \/ Client \/ User \/ Misfortune

Spec == Init /\ [][Next]_vars

-----------------------------------------------------------------------------
(* A refresh token is not used again once its use has brought a new pair:   *)
(* two requests that meet an expired access token do not both refresh the   *)
(* session, and each refresh takes the newest pair, unless an answer was    *)
(* lost, the process died before a new pair was on disk, or the credentials *)
(* changed in between (preprocessingError, refreshSession; "should fail if  *)
(* syncing while a session refresh is in progress", session.test.js).       *)
NoTokenRefreshedTwice ==
  \A r \in Request :
    call[r].at = "refresh" /\ call[r].answer = "none" =>
      missed \/ ~alive \/ server[call[r].pair] # "rotated"

(* The client keeps up with the server: the pair it has, in memory and,     *)
(* once no persist is under way, on disk, is not one that was replaced,     *)
(* unless the answer that brings its successor is still to be handled, or   *)
(* the successor was lost on the way or with the process ("should be        *)
(* consistent between storage and apiService", session.test.js).            *)
PairKeepsUp ==
  alive /\ ~missed /\ (\A r \in Request : ~Brings(r)) =>
    /\ session # 0 => server[session] \notin {"rotated", "replaced"}
    /\ stored # 0 /\ saving = 0 => server[stored] \notin {"rotated", "replaced"}

(* Nothing of the session is on disk once the user is signed out, unless an *)
(* answer with a new pair was handled between the storage being cleared and *)
(* the application being deinitialised (UserService.signOut).               *)
SignedOutLeavesNoSession == ~alive => stored = 0 \/ late

SessionKeepsUp == PairKeepsUp /\ SignedOutLeavesNoSession

(* No request is carried out twice, whatever it is that failed, and one     *)
(* that succeeds was carried out (refreshSessionThenRetryRequest).          *)
ExecutedOnce ==
  \A r \in Request :
    /\ executed[r] <= 1
    /\ call[r].at = "ok" => executed[r] = 1
=============================================================================
