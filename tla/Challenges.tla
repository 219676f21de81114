----------------------------- MODULE Challenges -----------------------------
(***************************************************************************)
(* ChallengeService and ChallengeOperation: questions to the user.  A      *)
(* challenge has prompts, for each of which the client submits values.     *)
(* Three kinds of challenges are created in the code:                      *)
(*  - those whose values are validated by the service, one after another   *)
(*    (launch, protected actions, passcode, protocol upgrade);             *)
(*  - forms, whose values are the answer as they are (authentication code, *)
(*    key recovery, import, legacy password);                              *)
(*  - those whose caller checks each submission until one is right         *)
(*    (session renewal, migration, keychain repair).                       *)
(* Values are validated and checked asynchronously, and the client may     *)
(* submit again, of its own accord or as it is told of a wrong value, or   *)
(* cancel meanwhile.  What a value is made of, and which wrong values an   *)
(* operation keeps, is left out: nothing reads them.                       *)
(***************************************************************************)
EXTENDS Naturals, FiniteSets

CONSTANTS
  Challenge,
  Form,           \* challenges that are forms,
  Check,          \* and those whose caller checks the values
  Left,           \* forms whose caller never completes them (promptForLegacyPassword)
  Cancelable,
  Prompt,         \* prompts of a challenge, numbered in their order
  MaxSubmissions  \* bound: calls of submitValuesForChallenge

ASSUME ChallengesAssumption ==
  /\ Form \subseteq Challenge /\ Check \subseteq Challenge \ Form /\ Left \subseteq Form
  /\ Challenge # {} /\ Cancelable \subseteq Challenge
  /\ Prompt \subseteq Nat /\ IsFiniteSet(Prompt) /\ Prompt # {}
  /\ MaxSubmissions \in Nat

VARIABLES
  operation,    \* challengeOperations: the values each has collected
  promise,      \* what the caller waits for
  observed,     \* challenges for which the client has added an observer
  told,         \* what the observers were told last, and how often of an end
  submission,   \* calls of submitValuesForChallenge
  checks,       \* values a caller is checking
  alive         \* the service is not deinitialised

vars == <<operation, promise, observed, told, submission, checks, alive>>

Validated == Challenge \ (Form \cup Check)

Submission == 1 .. MaxSubmissions   \* in the order they are made

Gone == [at |-> "gone", valid |-> {}, nonvalidated |-> {}]

(* A value is known by its prompt and the submission it came with.          *)
Value == Prompt \X Submission

PromptOf(v) == v[1]

Of(values, p) == {v \in values : PromptOf(v) = p}

(* The values the user has given that are right.                            *)
Right == {v \in Value : v[1] \in submission[v[2]].right}

TypeOK ==
  /\ operation \in [Challenge -> [at : {"none", "open", "gone"}, valid : SUBSET Value,
                                  nonvalidated : SUBSET Value]]
  /\ promise \in [Challenge -> [at : {"none", "pending", "cancelled", "answered"},
                                values : SUBSET Value]]
  /\ observed \subseteq Challenge
  /\ told \in [Challenge -> [last : {"nothing", "valid", "invalid", "submit", "complete", "cancel"},
                             ends : Nat]]
  /\ submission \in [Submission -> [at : {"new", "validating", "done", "thrown"},
                                    to : Challenge, left : SUBSET Prompt, right : SUBSET Prompt]]
  /\ checks \in [Challenge -> SUBSET SUBSET Value]
  /\ alive \in BOOLEAN
  /\ \A c \in Challenge : operation[c].at = "gone" => operation[c] = Gone
  /\ \A s \in Submission : submission[s].at = "validating" <=> submission[s].left # {}

NoSubmission == [at |-> "new", to |-> CHOOSE c \in Challenge : TRUE, left |-> {}, right |-> {}]
NoValues == [at |-> "none", valid |-> {}, nonvalidated |-> {}]

Init ==
  /\ operation = [c \in Challenge |-> NoValues]
  /\ promise = [c \in Challenge |-> [at |-> "none", values |-> {}]]
  /\ observed = {}
  /\ told = [c \in Challenge |-> [last |-> "nothing", ends |-> 0]]
  /\ submission = [s \in Submission |-> NoSubmission]
  /\ checks = [c \in Challenge |-> {}]
  /\ alive = TRUE

Open(c) == alive /\ operation[c].at = "open"

-----------------------------------------------------------------------------
(* performOnObservers, of the end of a challenge or of something before it. *)
Told(c, what) == [told EXCEPT ![c].last = what]
ToldEnd(c, what) == [told EXCEPT ![c] = [last |-> what, ends |-> @.ends + 1]]

(* deleteChallengeOperation: what is submitted or decided later finds none. *)
Deleted(c) == [operation EXCEPT ![c] = Gone]

(* A promise is resolved once.                                              *)
Resolved(c, values) ==
  IF promise[c].at = "pending"
  THEN [promise EXCEPT ![c] = [at |-> "answered", values |-> values]]
  ELSE promise

(* promptForChallengeResponse.  Who checks values observes the challenge;   *)
(* the client may, before it is sent or as it receives it.                  *)
Ask(c) ==
  /\ alive /\ operation[c].at = "none"
  /\ operation' = [operation EXCEPT ![c].at = "open"]
  /\ promise' = [promise EXCEPT ![c].at = "pending"]
  /\ \E client \in BOOLEAN : observed' = observed \cup IF client \/ c \in Check THEN {c} ELSE {}
  /\ UNCHANGED <<told, submission, checks, alive>>

-----------------------------------------------------------------------------
(* submitValuesForChallenge, with values for some prompts, some right ones. *)
Submit(s, c, left, right) ==
  submission' = [submission EXCEPT ![s] = [at |-> IF left = {} THEN "done" ELSE "validating",
                                           to |-> c, left |-> left, right |-> right]]

SubmitToValidate(s, c, prompts, right) ==
  /\ c \in Validated
  /\ Submit(s, c, prompts, right)
  /\ UNCHANGED <<operation, promise, observed, told, checks, alive>>

(* The values of a form, added in the order of the prompts, each in place   *)
(* of the one the prompt had: with the last prompt to have one, what is     *)
(* there is submitted, and the values after it begin anew.                  *)
MissingPrompts(c) == {p \in Prompt : Of(operation[c].nonvalidated, p) = {}}

Added(old, s, prompts) == {v \in old : PromptOf(v) \notin prompts} \cup (prompts \X {s})

AddNonvalidated(s, c, prompts, right) ==
  /\ c \in Form \cup Check
  /\ ~ MissingPrompts(c) \subseteq prompts
  /\ operation' = [operation EXCEPT ![c].nonvalidated = Added(@, s, prompts)]
  /\ Submit(s, c, {}, right)
  /\ UNCHANGED <<promise, observed, told, checks, alive>>

(* What is submitted with the last missing value, and what begins anew.     *)
InTime(c, prompts) == {p \in prompts : \E q \in MissingPrompts(c) : p <= q}

Submitted(s, c, prompts) == Added(operation[c].nonvalidated, s, InTime(c, prompts))
Anew(s, c, prompts) == (prompts \ InTime(c, prompts)) \X {s}

(* nonvalidatedSubmit, to the caller of a form.  The caller goes on before  *)
(* anything else happens, and completes the challenge.                      *)
SubmitForm(s, c, prompts, right) ==
  /\ c \in Form /\ MissingPrompts(c) \subseteq prompts
  /\ Submit(s, c, {}, right)
  /\ promise' = Resolved(c, Submitted(s, c, prompts))
  /\ IF c \in Left
     THEN /\ operation' = [operation EXCEPT ![c].nonvalidated = Anew(s, c, prompts)]
          /\ told' = Told(c, "submit")
     ELSE /\ operation' = Deleted(c)
          /\ told' = ToldEnd(c, "complete")
  /\ UNCHANGED <<observed, checks, alive>>

(* nonvalidatedSubmit, to a caller that begins to check the values.         *)
SubmitToCheck(s, c, prompts, right) ==
  /\ c \in Check /\ MissingPrompts(c) \subseteq prompts
  /\ Submit(s, c, {}, right)
  /\ operation' = [operation EXCEPT ![c].nonvalidated = Anew(s, c, prompts)]
  /\ checks' = [checks EXCEPT ![c] = @ \cup {Submitted(s, c, prompts)}]
  /\ told' = Told(c, "submit")
  /\ UNCHANGED <<promise, observed, alive>>

SubmitValues(s) ==
  /\ submission[s].at = "new" /\ \A r \in 1 .. s - 1 : submission[r].at # "new"
  /\ \E c \in Challenge, prompts \in SUBSET Prompt \ {{}} : \E right \in SUBSET prompts :
       /\ Open(c)
       /\ \/ SubmitToValidate(s, c, prompts, right) \/ AddNonvalidated(s, c, prompts, right)
          \/ SubmitForm(s, c, prompts, right) \/ SubmitToCheck(s, c, prompts, right)

-----------------------------------------------------------------------------
(* The result of validateChallengeValue for the next value of a submission. *)
NextPrompt(s) == CHOOSE p \in submission[s].left : \A q \in submission[s].left : p <= q

Advanced(s) ==
  LET left == submission[s].left \ {NextPrompt(s)}
  IN  [submission EXCEPT ![s].left = left, ![s].at = IF left = {} THEN "done" ELSE @]

Thrown(s) == [submission EXCEPT ![s].left = {}, ![s].at = "thrown"]

(* The operation may be gone by now: setValidationStatusForChallenge throws. *)
ValidatedTooLate(s) ==
  /\ ~Open(submission[s].to)
  /\ submission' = Thrown(s)
  /\ UNCHANGED <<operation, promise, observed, told, checks, alive>>

(* Mutant: the earlier value of a prompt is not removed.                    *)
ValuesWithAll(c, v) == operation[c].valid \cup {v}

ValuesWith(c, v) == {w \in operation[c].valid : PromptOf(w) # PromptOf(v)} \cup {v}

IsFinished(values) == Cardinality(values) = Cardinality(Prompt)

(* setValueStatus: the value takes the place of an earlier one of its kind. *)
ValidatedRight(s, c, v) ==
  /\ Open(c) /\ PromptOf(v) \in submission[s].right
  /\ ~IsFinished(ValuesWith(c, v))
  /\ operation' = [operation EXCEPT ![c].valid = ValuesWith(c, v)]
  /\ told' = Told(c, "valid")
  /\ submission' = Advanced(s)
  /\ UNCHANGED <<promise, observed, checks, alive>>

(* With a right value for every prompt the challenge is complete.  If it    *)
(* has no observers, clearing them throws.                                  *)
ValidatedLast(s, c, v) ==
  /\ Open(c) /\ PromptOf(v) \in submission[s].right
  /\ IsFinished(ValuesWith(c, v))
  /\ operation' = Deleted(c)
  /\ promise' = Resolved(c, ValuesWith(c, v))
  /\ told' = ToldEnd(c, "complete")
  /\ observed' = observed \ {c}
  /\ submission' = IF c \in observed THEN Advanced(s) ELSE Thrown(s)
  /\ UNCHANGED <<checks, alive>>

(* Mutant: a wrong value also removes the right one of its prompt.          *)
ValidatedWrongForgets(s, c, v) ==
  /\ Open(c) /\ PromptOf(v) \notin submission[s].right
  /\ operation' = [operation EXCEPT ![c].valid = {w \in @ : PromptOf(w) # PromptOf(v)}]
  /\ told' = Told(c, "invalid")
  /\ submission' = Advanced(s)
  /\ UNCHANGED <<promise, observed, checks, alive>>

ValidatedWrong(s, c, v) ==
  /\ Open(c) /\ PromptOf(v) \notin submission[s].right
  /\ told' = Told(c, "invalid")
  /\ submission' = Advanced(s)
  /\ UNCHANGED <<operation, promise, observed, checks, alive>>

Validate(s) ==
  /\ submission[s].at = "validating"
  /\ LET c == submission[s].to  v == <<NextPrompt(s), s>>
     IN \/ ValidatedTooLate(s)
        \/ ValidatedRight(s, c, v) \/ ValidatedLast(s, c, v) \/ ValidatedWrong(s, c, v)

-----------------------------------------------------------------------------
(* What a caller that checks values does with the result, which may be an   *)
(* error also if they are right: it completes the challenge or tells it of  *)
(* the wrong value, and throws if the operation is gone by then.  A renewed *)
(* session resolves its promise first, and is the one that can be           *)
(* cancelled.                                                               *)
CheckedRight(c, values) ==
  /\ values \subseteq Right
  /\ promise' = IF Open(c) \/ c \in Cancelable THEN Resolved(c, values) ELSE promise
  /\ IF Open(c)
     THEN /\ operation' = Deleted(c)
          /\ told' = ToldEnd(c, "complete")
     ELSE UNCHANGED <<operation, told>>

(* Mutant: the challenge is told although it may have ended.                *)
CheckedWrongLate(c) ==
  /\ told' = Told(c, "invalid")
  /\ UNCHANGED <<operation, promise>>

CheckedWrong(c) ==
  /\ told' = IF Open(c) THEN Told(c, "invalid") ELSE told
  /\ UNCHANGED <<operation, promise>>

Checked(c) ==
  \E values \in checks[c] :
    /\ CheckedRight(c, values) \/ CheckedWrong(c)
    /\ checks' = [checks EXCEPT ![c] = @ \ {values}]
    /\ UNCHANGED <<observed, submission, alive>>

(* cancelChallenge.  Who checks values has its promise wait on.             *)
Cancel(c) ==
  /\ c \in Cancelable /\ Open(c)
  /\ operation' = Deleted(c)
  /\ promise' = IF promise[c].at = "pending" /\ c \notin Check
                THEN [promise EXCEPT ![c].at = "cancelled"] ELSE promise
  /\ told' = ToldEnd(c, "cancel")
  /\ UNCHANGED <<observed, submission, checks, alive>>

Deinit ==
  /\ alive /\ alive' = FALSE
  /\ UNCHANGED <<operation, promise, observed, told, submission, checks>>

-----------------------------------------------------------------------------
Next == \/ \E c \in Challenge : Ask(c) \/ Checked(c) \/ Cancel(c)
        \/ \E s \in Submission : SubmitValues(s) \/ Validate(s)
        \/ Deinit

Spec == Init /\ [][Next]_vars

(* Validations end.  The user need not answer.                              *)
FairSpec == Spec /\ \A s \in Submission : WF_vars(Validate(s))

-----------------------------------------------------------------------------
(* A caller gets at most one answer: none, or one value for each prompt,    *)
(* all of them right if they are validated or checked, whatever submissions *)
(* overlap (promptForChallengeResponse, reauthenticateInvalidSession).      *)
Prompted == INSTANCE Prompts WITH right <- Right, outcome <- promise
AnswersAreRight == Prompted!Spec

(* The observers are told of the end of a challenge once, and of nothing    *)
(* after it; and what they are told agrees with what the caller gets        *)
(* (onChallengeComplete, onChallengeCancel).                                *)
ObserversKnowTheEnd ==
  \A c \in Challenge :
    /\ told[c].ends = IF operation[c].at = "gone" THEN 1 ELSE 0
    /\ told[c].ends = 1 <=> told[c].last \in {"complete", "cancel"}
    /\ told[c].last = "complete" => promise[c].at = "answered"
    /\ promise[c].at = "cancelled" => told[c].last = "cancel"
    /\ c \in Validated /\ promise[c].at = "answered" => told[c].last = "complete"

(* A submission of right values for every prompt brings a challenge to its  *)
(* end, whatever wrong values are submitted beside it                       *)
(* (setValidationStatusForChallenge).                                       *)
AllRight(s) == submission[s].at = "validating" /\ submission[s].left = Prompt
               /\ submission[s].right = Prompt
RightValuesPass ==
  \A s \in Submission : AllRight(s) ~> (alive => operation[submission[s].to].at = "gone")

=============================================================================
