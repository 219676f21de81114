---------------------------- MODULE Access_proofs ---------------------------
(***************************************************************************)
(* Theorems about the access to an account, for every bound on what may    *)
(* happen: the challenges that ask for its secrets (Challenges), the       *)
(* launch with its migrations, which reaches the root key with what it     *)
(* stored (Launch), and the change of password or address, which replaces  *)
(* that key (Credentials).  The three models share no constant and no      *)
(* variable; each theorem is about the behaviours of one of them.          *)
(***************************************************************************)
EXTENDS Challenges, Launch, Credentials, FiniteSetTheorems, WellFoundedInduction, TLAPS

-----------------------------------------------------------------------------
(* Challenges.                                                              *)

(* The types of the variables, each with a name.                            *)
Operations == [Challenge -> [at : {"none", "open", "gone"}, valid : SUBSET Value,
                             nonvalidated : SUBSET Value]]
Promises == [Challenge -> [at : {"none", "pending", "cancelled", "answered"},
                           values : SUBSET Value]]
Tellings == [Challenge -> [last : {"nothing", "valid", "invalid", "submit", "complete", "cancel"},
                           ends : Nat]]
Submissions == [Submission -> [at : {"new", "validating", "done", "thrown"},
                               to : Challenge, left : SUBSET Prompt, right : SUBSET Prompt]]
GoneIsEmpty(o) == \A c \in Challenge : o[c].at = "gone" => o[c] = Gone
LeftIsValidated(t) == \A s \in Submission : t[s].at = "validating" <=> t[s].left # {}

ChallengesTypes == /\ operation \in Operations /\ GoneIsEmpty(operation)
         /\ promise \in Promises /\ told \in Tellings
         /\ submission \in Submissions /\ LeftIsValidated(submission)
         /\ observed \subseteq Challenge
         /\ checks \in [Challenge -> SUBSET SUBSET Value]
         /\ alive \in BOOLEAN

LEMMA TypesAreTypeOK == ChallengesTypes <=> TypeOK
  BY DEF ChallengesTypes, TypeOK, Operations, Promises, Tellings, Submissions, GoneIsEmpty, LeftIsValidated

-----------------------------------------------------------------------------
(* A set of prompts that is not empty has a first one.                      *)
LEMMA FirstPrompt ==
  ASSUME NEW P \in SUBSET Nat, P # {}
  PROVE  LET p == CHOOSE p \in P : \A q \in P : p <= q
         IN  p \in P /\ \A q \in P : p <= q
<1>1. PICK p \in P : \A q \in P : ~ (<<q, p>> \in OpToRel(<, Nat))
  <2>1. P \subseteq Nat /\ P # {}
    OBVIOUS
  <2>2. QED BY <2>1, NatLessThanWellFounded, WFMin
<1>2. \A q \in P : p <= q
  <2>1. SUFFICES ASSUME NEW q \in P PROVE p <= q
    OBVIOUS
  <2>2. p \in Nat /\ q \in Nat
    OBVIOUS
  <2>3. ~ (<<q, p>> \in {ss \in Nat \X Nat : ss[1] < ss[2]})
    BY <1>1 DEF OpToRel
  <2>4. ~ (q < p)
    BY <2>2, <2>3
  <2>5. QED BY <2>2, <2>4
<1>3. QED BY <1>2

(* The next value of a submission is one of those left.                     *)
LEMMA NextPromptIsLeft ==
  ASSUME ChallengesTypes, NEW s \in Submission, submission[s].at = "validating"
  PROVE  /\ NextPrompt(s) \in submission[s].left
         /\ NextPrompt(s) \in Prompt
         /\ <<NextPrompt(s), s>> \in Value
<1>1. submission[s].left \in SUBSET Prompt /\ submission[s].left # {}
  BY DEF ChallengesTypes, Submissions, LeftIsValidated
<1>2. submission[s].left \in SUBSET Nat
  BY <1>1, ChallengesAssumption
<1>3. NextPrompt(s) \in submission[s].left
  BY <1>1, <1>2, FirstPrompt DEF NextPrompt
<1>4. QED BY <1>1, <1>3 DEF Value

(* Advancing and throwing change no more than what is left to validate.     *)
SameSubmission(s) == /\ submission'[s].right = submission[s].right
                     /\ submission'[s].to = submission[s].to
                     /\ submission'[s].at = "new" <=> submission[s].at = "new"
                     /\ submission'[s].at = "validating" => submission[s].at = "validating"

LEMMA AdvancedType ==
  ASSUME ChallengesTypes, NEW s \in Submission, submission[s].at = "validating",
         \/ submission' = Advanced(s) \/ submission' = Thrown(s)
  PROVE  /\ submission' \in Submissions /\ LeftIsValidated(submission')
         /\ \A r \in Submission : SameSubmission(r)
<1>1. CASE submission' = Advanced(s)
  <2>0. PICK left \in SUBSET Prompt, at \in {"done", "validating"} :
          submission' = [submission EXCEPT ![s].left = left, ![s].at = at]
    BY <1>1 DEF ChallengesTypes, Submissions, Advanced
  <2>1. submission' \in Submissions
    <3> DEFINE t == [submission EXCEPT ![s].left = left]
    <3>1. t \in Submissions
      BY DEF ChallengesTypes, Submissions
    <3>2. submission' = [t EXCEPT ![s].at = at]
      BY <2>0 DEF ChallengesTypes, Submissions
    <3> HIDE DEF t
    <3>3. CASE at = "done"
      BY <3>1, <3>2, <3>3 DEF Submissions
    <3>4. CASE at = "validating"
      BY <3>1, <3>2, <3>4 DEF Submissions
    <3>5. QED BY <3>3, <3>4
  <2>2. \A r \in Submission \ {s} : submission'[r] = submission[r]
    BY <1>1 DEF ChallengesTypes, Submissions, Advanced
  <2>3. /\ submission'[s].right = submission[s].right /\ submission'[s].to = submission[s].to
        /\ submission'[s].left = submission[s].left \ {NextPrompt(s)}
        /\ submission'[s].at = IF submission'[s].left = {} THEN "done" ELSE "validating"
    BY <1>1 DEF ChallengesTypes, Submissions, Advanced
  <2>4. LeftIsValidated(submission')
    BY <2>2, <2>3 DEF ChallengesTypes, LeftIsValidated
  <2>5. SameSubmission(s)
    BY <2>3 DEF SameSubmission
  <2>6. QED BY <2>1, <2>2, <2>4, <2>5 DEF SameSubmission
<1>2. CASE submission' = Thrown(s)
  <2>1. submission' \in Submissions
    BY <1>2 DEF ChallengesTypes, Submissions, Thrown
  <2>2. \A r \in Submission \ {s} : submission'[r] = submission[r]
    BY <1>2 DEF ChallengesTypes, Submissions, Thrown
  <2>3. /\ submission'[s].right = submission[s].right /\ submission'[s].to = submission[s].to
        /\ submission'[s].left = {} /\ submission'[s].at = "thrown"
    BY <1>2 DEF ChallengesTypes, Submissions, Thrown
  <2>4. QED BY <2>1, <2>2, <2>3 DEF ChallengesTypes, LeftIsValidated, SameSubmission
<1>3. QED BY <1>1, <1>2

(* Submitting begins one submission.                                        *)
LEMMA SubmitType ==
  ASSUME ChallengesTypes, NEW s \in Submission, NEW c \in Challenge, NEW left \in SUBSET Prompt,
         NEW right \in SUBSET Prompt, Submit(s, c, left, right)
  PROVE  /\ submission' \in Submissions /\ LeftIsValidated(submission')
         /\ submission'[s].to = c /\ submission'[s].right = right /\ submission'[s].at # "new"
         /\ submission'[s].at = "validating" => left # {}
         /\ \A r \in Submission \ {s} : submission'[r] = submission[r]
<1>1. submission' \in Submissions
  BY DEF ChallengesTypes, Submissions, Submit
<1>2. \A r \in Submission \ {s} : submission'[r] = submission[r]
  BY DEF ChallengesTypes, Submissions, Submit
<1>3. submission'[s] = [at |-> IF left = {} THEN "done" ELSE "validating",
                        to |-> c, left |-> left, right |-> right]
  BY DEF ChallengesTypes, Submissions, Submit
<1>4. QED BY <1>1, <1>2, <1>3 DEF ChallengesTypes, LeftIsValidated

(* What is collected is a set of values.                                    *)
LEMMA AddedType ==
  ASSUME ChallengesTypes, NEW s \in Submission, NEW c \in Challenge, NEW prompts \in SUBSET Prompt
  PROVE  /\ Added(operation[c].nonvalidated, s, prompts) \in SUBSET Value
         /\ Submitted(s, c, prompts) \in SUBSET Value
         /\ Anew(s, c, prompts) \in SUBSET Value
         /\ InTime(c, prompts) \in SUBSET prompts
<1>1. operation[c].nonvalidated \in SUBSET Value
  BY DEF ChallengesTypes, Operations
<1>2. \A P \in SUBSET Prompt : Added(operation[c].nonvalidated, s, P) \in SUBSET Value
  BY <1>1 DEF Added, Value
<1>3. InTime(c, prompts) \in SUBSET prompts
  BY DEF InTime
<1>4. QED BY <1>2, <1>3 DEF Submitted, Anew, Value

(* Collecting values for a challenge keeps the type of operation.           *)
LEMMA CollectingType ==
  ASSUME NEW o \in Operations, GoneIsEmpty(o), NEW c \in Challenge, o[c].at = "open",
         NEW V \in SUBSET Value
  PROVE  /\ [o EXCEPT ![c].valid = V] \in Operations
         /\ [o EXCEPT ![c].nonvalidated = V] \in Operations
         /\ GoneIsEmpty([o EXCEPT ![c].valid = V])
         /\ GoneIsEmpty([o EXCEPT ![c].nonvalidated = V])
<1> DEFINE m == [o EXCEPT ![c].valid = V]
           n == [o EXCEPT ![c].nonvalidated = V]
<1>1. m \in Operations /\ n \in Operations
  BY DEF Operations
<1>2. \A d \in Challenge : m[d].at = o[d].at /\ n[d].at = o[d].at
  BY DEF Operations
<1>3. \A d \in Challenge \ {c} : m[d] = o[d] /\ n[d] = o[d]
  BY DEF Operations
<1> HIDE DEF m, n
<1>4. GoneIsEmpty(m) /\ GoneIsEmpty(n)
  BY <1>2, <1>3 DEF GoneIsEmpty
<1>5. QED BY <1>1, <1>4 DEF m, n

(* The updates of operation, promise and told keep their types.             *)
LEMMA UpdateTypes ==
  ASSUME ChallengesTypes, NEW c \in Challenge
  PROVE  /\ Deleted(c) \in Operations /\ GoneIsEmpty(Deleted(c))
         /\ \A V \in SUBSET Value : Resolved(c, V) \in Promises
         /\ \A w \in {"valid", "invalid", "submit"} : Told(c, w) \in Tellings
         /\ \A w \in {"complete", "cancel"} : ToldEnd(c, w) \in Tellings
<1>1. Deleted(c) \in Operations /\ GoneIsEmpty(Deleted(c))
  BY DEF ChallengesTypes, Deleted, Operations, GoneIsEmpty, Gone
<1>2. \A V \in SUBSET Value : Resolved(c, V) \in Promises
  BY DEF ChallengesTypes, Resolved, Promises
<1>3. \A w \in {"valid", "invalid", "submit"} : Told(c, w) \in Tellings
  BY DEF ChallengesTypes, Told, Tellings
<1>4. \A w \in {"complete", "cancel"} : ToldEnd(c, w) \in Tellings
  BY DEF ChallengesTypes, ToldEnd, Tellings
<1>5. QED BY <1>1, <1>2, <1>3, <1>4

LEMMA ChallengesInitTypes == Init => ChallengesTypes
<1>1. SUFFICES ASSUME Init PROVE ChallengesTypes
  OBVIOUS
<1>2. submission \in Submissions /\ LeftIsValidated(submission)
  BY <1>1, ChallengesAssumption DEF Init, NoSubmission, Submissions, LeftIsValidated
<1>3. operation \in Operations /\ GoneIsEmpty(operation)
  BY <1>1 DEF Init, Operations, GoneIsEmpty, NoValues
<1>4. promise \in Promises /\ told \in Tellings
  BY <1>1 DEF Init, Promises, Tellings
<1>5. QED BY <1>1, <1>2, <1>3, <1>4 DEF Init, ChallengesTypes

-----------------------------------------------------------------------------
(* Each action keeps the types.                                             *)
LEMMA AskTypes == ASSUME ChallengesTypes, NEW c \in Challenge, Ask(c) PROVE ChallengesTypes'
<1>0. operation' \in Operations
  BY DEF ChallengesTypes, Ask, Operations
<1>1. promise' \in Promises
  BY DEF ChallengesTypes, Ask, Promises
<1>2. \A d \in Challenge : /\ d # c => operation'[d] = operation[d]
                           /\ d = c => operation'[d].at = "open"
  BY DEF ChallengesTypes, Ask, Operations
<1>3. GoneIsEmpty(operation')
  BY <1>2 DEF ChallengesTypes, GoneIsEmpty
<1>4. QED BY <1>0, <1>1, <1>3 DEF ChallengesTypes, Ask

LEMMA SubmitValuesTypes ==
  ASSUME ChallengesTypes, NEW s \in Submission, SubmitValues(s) PROVE ChallengesTypes'
<1>1. PICK c \in Challenge, prompts \in SUBSET Prompt \ {{}} : \E right \in SUBSET prompts :
         /\ Open(c)
         /\ \/ SubmitToValidate(s, c, prompts, right) \/ AddNonvalidated(s, c, prompts, right)
            \/ SubmitForm(s, c, prompts, right) \/ SubmitToCheck(s, c, prompts, right)
  BY DEF SubmitValues
<1>2. PICK right \in SUBSET prompts :
         /\ Open(c)
         /\ \/ SubmitToValidate(s, c, prompts, right) \/ AddNonvalidated(s, c, prompts, right)
            \/ SubmitForm(s, c, prompts, right) \/ SubmitToCheck(s, c, prompts, right)
  BY <1>1
<1>3. prompts \in SUBSET Prompt /\ right \in SUBSET Prompt /\ operation[c].at = "open"
  BY <1>2 DEF Open
<1>4. CASE SubmitToValidate(s, c, prompts, right)
  <2>1. submission' \in Submissions /\ LeftIsValidated(submission')
    BY <1>3, <1>4, SubmitType DEF SubmitToValidate
  <2>2. QED BY <1>4, <2>1 DEF ChallengesTypes, SubmitToValidate
<1>5. CASE AddNonvalidated(s, c, prompts, right)
  <2>1. operation' \in Operations /\ GoneIsEmpty(operation')
    BY <1>3, <1>5, AddedType, CollectingType DEF ChallengesTypes, AddNonvalidated
  <2>2. QED BY <1>3, <1>5, <2>1, SubmitType DEF ChallengesTypes, AddNonvalidated
<1>6. CASE SubmitForm(s, c, prompts, right)
  <2>1. operation' \in Operations /\ GoneIsEmpty(operation')
    <3>1. CASE c \in Left
      <4>1. operation' = [operation EXCEPT ![c].nonvalidated = Anew(s, c, prompts)]
        BY <1>6, <3>1 DEF SubmitForm
      <4>2. Anew(s, c, prompts) \in SUBSET Value
        BY <1>3, AddedType
      <4>3. QED BY <1>3, <4>1, <4>2, CollectingType DEF ChallengesTypes
    <3>2. CASE c \notin Left
      BY <1>6, <3>2, UpdateTypes DEF SubmitForm
    <3>3. QED BY <3>1, <3>2
  <2>2. promise' \in Promises /\ told' \in Tellings
    BY <1>3, <1>6, AddedType, UpdateTypes DEF SubmitForm
  <2>3. QED BY <1>3, <1>6, <2>1, <2>2, SubmitType DEF ChallengesTypes, SubmitForm
<1>7. CASE SubmitToCheck(s, c, prompts, right)
  <2>1. operation' \in Operations /\ GoneIsEmpty(operation')
    BY <1>3, <1>7, AddedType, CollectingType DEF ChallengesTypes, SubmitToCheck
  <2>2. told' \in Tellings /\ checks' \in [Challenge -> SUBSET SUBSET Value]
    BY <1>3, <1>7, AddedType, UpdateTypes DEF SubmitToCheck, ChallengesTypes
  <2>3. QED BY <1>3, <1>7, <2>1, <2>2, SubmitType DEF ChallengesTypes, SubmitToCheck
<1>8. QED BY <1>2, <1>4, <1>5, <1>6, <1>7

LEMMA ValidateTypes ==
  ASSUME ChallengesTypes, NEW s \in Submission, Validate(s) PROVE ChallengesTypes'
<1> DEFINE c == submission[s].to
           v == <<NextPrompt(s), s>>
<1>1. submission[s].at = "validating" /\ c \in Challenge /\ v \in Value
  BY NextPromptIsLeft DEF Validate, ChallengesTypes, Submissions
<1>2. \/ ValidatedTooLate(s)
      \/ ValidatedRight(s, c, v) \/ ValidatedLast(s, c, v) \/ ValidatedWrong(s, c, v)
  BY DEF Validate
<1> HIDE DEF c, v
<1>3. ValuesWith(c, v) \in SUBSET Value
  BY <1>1 DEF ChallengesTypes, Operations, ValuesWith
<1>4. CASE ValidatedTooLate(s)
  BY <1>1, <1>4, AdvancedType DEF ChallengesTypes, ValidatedTooLate
<1>5. CASE ValidatedRight(s, c, v)
  <2>1. operation' \in Operations /\ GoneIsEmpty(operation')
    BY <1>1, <1>3, <1>5, CollectingType DEF ChallengesTypes, ValidatedRight, Open
  <2>2. told' \in Tellings
    BY <1>1, <1>5, UpdateTypes DEF ValidatedRight
  <2>3. QED BY <1>1, <1>5, <2>1, <2>2, AdvancedType DEF ChallengesTypes, ValidatedRight
<1>6. CASE ValidatedLast(s, c, v)
  <2>1. operation' \in Operations /\ GoneIsEmpty(operation') /\ promise' \in Promises
        /\ told' \in Tellings
    BY <1>1, <1>3, <1>6, UpdateTypes DEF ValidatedLast
  <2>2. observed' \subseteq Challenge
    BY <1>6 DEF ValidatedLast, ChallengesTypes
  <2>3. submission' = Advanced(s) \/ submission' = Thrown(s)
    BY <1>6 DEF ValidatedLast
  <2>4. QED BY <1>1, <1>6, <2>1, <2>2, <2>3, AdvancedType DEF ChallengesTypes, ValidatedLast
<1>7. CASE ValidatedWrong(s, c, v)
  <2>1. told' \in Tellings
    BY <1>1, <1>7, UpdateTypes DEF ValidatedWrong
  <2>2. QED BY <1>1, <1>7, <2>1, AdvancedType DEF ChallengesTypes, ValidatedWrong
<1>8. QED BY <1>2, <1>4, <1>5, <1>6, <1>7

LEMMA CheckedTypes ==
  ASSUME ChallengesTypes, NEW c \in Challenge, Checked(c) PROVE ChallengesTypes'
<1>1. PICK values \in checks[c] :
        /\ CheckedRight(c, values) \/ CheckedWrong(c)
        /\ checks' = [checks EXCEPT ![c] = @ \ {values}]
        /\ UNCHANGED <<observed, submission, alive>>
  BY DEF Checked
<1>2. values \in SUBSET Value /\ checks' \in [Challenge -> SUBSET SUBSET Value]
  BY <1>1 DEF ChallengesTypes
<1>3. CASE CheckedRight(c, values)
  <2>1. operation' \in Operations /\ GoneIsEmpty(operation')
    BY <1>2, <1>3, UpdateTypes DEF ChallengesTypes, CheckedRight
  <2>2. promise' \in Promises /\ told' \in Tellings
    BY <1>2, <1>3, UpdateTypes DEF ChallengesTypes, CheckedRight
  <2>3. QED BY <1>1, <1>2, <2>1, <2>2 DEF ChallengesTypes
<1>4. CASE CheckedWrong(c)
  <2>1. told' \in Tellings
    BY <1>4, UpdateTypes DEF ChallengesTypes, CheckedWrong
  <2>2. QED BY <1>1, <1>2, <1>4, <2>1 DEF ChallengesTypes, CheckedWrong
<1>5. QED BY <1>1, <1>3, <1>4

LEMMA CancelTypes ==
  ASSUME ChallengesTypes, NEW c \in Challenge, Cancel(c) PROVE ChallengesTypes'
<1>1. operation' \in Operations /\ GoneIsEmpty(operation') /\ told' \in Tellings
  BY UpdateTypes DEF Cancel
<1>2. promise' \in Promises
  BY DEF Cancel, ChallengesTypes, Promises
<1>3. QED BY <1>1, <1>2 DEF ChallengesTypes, Cancel

LEMMA ChallengesNextTypes == ChallengesTypes /\ [Next]_vars => ChallengesTypes'
<1>1. SUFFICES ASSUME ChallengesTypes, [Next]_vars PROVE ChallengesTypes'
  OBVIOUS
<1>2. CASE \E c \in Challenge : Ask(c) \/ Checked(c) \/ Cancel(c)
  BY <1>1, <1>2, AskTypes, CheckedTypes, CancelTypes
<1>3. CASE \E s \in Submission : SubmitValues(s) \/ Validate(s)
  BY <1>1, <1>3, SubmitValuesTypes, ValidateTypes
<1>4. CASE Deinit
  BY <1>1, <1>4 DEF ChallengesTypes, Deinit
<1>5. CASE UNCHANGED vars
  BY <1>1, <1>5 DEF ChallengesTypes, vars
<1>6. QED BY <1>1, <1>2, <1>3, <1>4, <1>5 DEF Next

(* The types of the challenge service (ChallengeService, ChallengeOperation): *)
(* in particular nothing is collected for a challenge that has ended.       *)
THEOREM ChallengesTypeCorrect == Spec => []TypeOK
<1>1. Spec => []ChallengesTypes
  BY ChallengesInitTypes, ChallengesNextTypes, PTL DEF Spec
<1>2. QED BY <1>1, TypesAreTypeOK, PTL

-----------------------------------------------------------------------------
(* What an update gives for the challenge, and for the others.              *)
LEMMA ResolvedAnswers ==
  ASSUME ChallengesTypes, NEW c \in Challenge, NEW V \in SUBSET Value
  PROVE  /\ promise[c].at = "pending" => Resolved(c, V)[c] = [at |-> "answered", values |-> V]
         /\ promise[c].at # "pending" => Resolved(c, V)[c] = promise[c]
         /\ promise[c].at \in {"pending", "answered"} => Resolved(c, V)[c].at = "answered"
<1>1. promise[c].at = "pending" => Resolved(c, V)[c] = [at |-> "answered", values |-> V]
  BY DEF ChallengesTypes, Promises, Resolved
<1>2. promise[c].at # "pending" => Resolved(c, V)[c] = promise[c]
  BY DEF ChallengesTypes, Promises, Resolved
<1>3. QED BY <1>1, <1>2

LEMMA ToldFirst ==
  ASSUME ChallengesTypes, NEW c \in Challenge, told[c].ends = 0
  PROVE  /\ Told(c, "valid")[c].last = "valid" /\ Told(c, "valid")[c].ends = 0
         /\ Told(c, "invalid")[c].last = "invalid" /\ Told(c, "invalid")[c].ends = 0
         /\ Told(c, "submit")[c].last = "submit" /\ Told(c, "submit")[c].ends = 0
         /\ ToldEnd(c, "complete")[c].last = "complete" /\ ToldEnd(c, "complete")[c].ends = 1
         /\ ToldEnd(c, "cancel")[c].last = "cancel" /\ ToldEnd(c, "cancel")[c].ends = 1
  BY DEF ChallengesTypes, Tellings, Told, ToldEnd

LEMMA DeletedIsGone ==
  ASSUME ChallengesTypes, NEW c \in Challenge
  PROVE  Deleted(c)[c] = Gone
  BY DEF ChallengesTypes, Operations, Deleted

LEMMA UpdatedOthers ==
  ASSUME ChallengesTypes, NEW c \in Challenge, NEW d \in Challenge, d # c
  PROVE  /\ Deleted(c)[d] = operation[d]
         /\ \A V : Resolved(c, V)[d] = promise[d]
         /\ \A w : Told(c, w)[d] = told[d] /\ ToldEnd(c, w)[d] = told[d]
<1>1. Deleted(c)[d] = operation[d]
  BY DEF ChallengesTypes, Operations, Deleted
<1>2. \A V : Resolved(c, V)[d] = promise[d]
  BY DEF ChallengesTypes, Promises, Resolved
<1>3. \A w : Told(c, w)[d] = told[d] /\ ToldEnd(c, w)[d] = told[d]
  BY DEF ChallengesTypes, Tellings, Told, ToldEnd
<1>4. QED BY <1>1, <1>2, <1>3

-----------------------------------------------------------------------------
(* Each challenge has its caller waiting while it is open, unless it is a   *)
(* form that is left open with its answer; what is validated or checked     *)
(* belongs to a challenge of that kind.                                     *)
Asked(c) ==
  /\ operation[c].at = "none" => promise[c].at = "none"
  /\ Open(c) => promise[c].at = "pending" \/ (c \in Left /\ promise[c].at = "answered")
  /\ checks[c] # {} => c \in Check

Knows(c) ==
  /\ told[c].ends = IF operation[c].at = "gone" THEN 1 ELSE 0
  /\ told[c].ends = 1 <=> told[c].last \in {"complete", "cancel"}
  /\ told[c].last = "complete" => promise[c].at = "answered"
  /\ promise[c].at = "cancelled" => told[c].last = "cancel"
  /\ c \in Validated /\ promise[c].at = "answered" => told[c].last = "complete"

Made(s) ==
  /\ submission[s].at = "validating" => submission[s].to \in Validated
  /\ submission[s].at = "new" => submission[s].right = {}

EndInv == /\ \A c \in Challenge : Asked(c) /\ Knows(c)
          /\ \A s \in Submission : Made(s)

Untouched(c) == /\ operation'[c] = operation[c] /\ promise'[c] = promise[c]
                /\ told'[c] = told[c] /\ checks'[c] = checks[c]

LEMMA UntouchedKnows ==
  ASSUME NEW c \in Challenge, Untouched(c), alive' => alive, Asked(c), Knows(c)
  PROVE  Asked(c)' /\ Knows(c)'
  BY DEF Untouched, Asked, Knows, Open

(* An action on one challenge keeps EndInv if it keeps it for that one.     *)
LEMMA OneChallenge ==
  ASSUME EndInv, NEW c \in Challenge, \A d \in Challenge \ {c} : Untouched(d),
         Asked(c)' /\ Knows(c)', alive' = alive, \A s \in Submission : Made(s)'
  PROVE  EndInv'
<1>1. \A d \in Challenge \ {c} : Asked(d)' /\ Knows(d)'
  BY UntouchedKnows DEF EndInv
<1>2. QED BY <1>1 DEF EndInv

LEMMA InitEndInv == Init => EndInv
<1>1. SUFFICES ASSUME Init PROVE EndInv
  OBVIOUS
<1>2. \A c \in Challenge : /\ operation[c].at = "none" /\ promise[c].at = "none"
                           /\ told[c].last = "nothing" /\ told[c].ends = 0 /\ checks[c] = {}
  BY <1>1 DEF Init, NoValues
<1>3. \A s \in Submission : submission[s].at = "new" /\ submission[s].right = {}
  BY <1>1 DEF Init, NoSubmission
<1>4. QED BY <1>2, <1>3 DEF EndInv, Asked, Knows, Made, Open

LEMMA AskEndInv ==
  ASSUME ChallengesTypes, EndInv, NEW c \in Challenge, Ask(c) PROVE EndInv'
<1>1. \A d \in Challenge \ {c} : Untouched(d)
  BY DEF ChallengesTypes, Operations, Promises, Ask, Untouched
<1>2. /\ operation'[c].at = "open" /\ promise'[c].at = "pending"
      /\ told'[c] = told[c] /\ checks'[c] = checks[c] /\ alive' = alive
  BY DEF ChallengesTypes, Operations, Promises, Ask
<1>3. operation[c].at = "none" /\ promise[c].at = "none" /\ Asked(c) /\ Knows(c)
  BY DEF EndInv, Ask, Asked
<1>4. Asked(c)' /\ Knows(c)'
  BY <1>2, <1>3 DEF Asked, Knows, Open
<1>5. \A s \in Submission : Made(s)'
  BY DEF EndInv, Made, Ask
<1>6. QED BY <1>1, <1>2, <1>4, <1>5, OneChallenge

(* Submissions that are made or go on are still of their kind.              *)
LEMMA SubmitMade ==
  ASSUME ChallengesTypes, EndInv, NEW s \in Submission, NEW c \in Challenge, NEW left \in SUBSET Prompt,
         NEW right \in SUBSET Prompt, Submit(s, c, left, right), left = {} \/ c \in Validated
  PROVE  \A r \in Submission : Made(r)'
<1>1. \A r \in Submission \ {s} : Made(r)'
  BY SubmitType DEF EndInv, Made
<1>2. submission'[s].to = c /\ submission'[s].at # "new"
      /\ (submission'[s].at = "validating" => left # {})
  BY SubmitType
<1>3. Made(s)'
  BY <1>2 DEF Made
<1>4. QED BY <1>1, <1>3

LEMMA AdvancedMade ==
  ASSUME ChallengesTypes, EndInv, NEW s \in Submission, submission[s].at = "validating",
         submission' = Advanced(s) \/ submission' = Thrown(s)
  PROVE  \A r \in Submission : Made(r)'
<1>1. \A r \in Submission : SameSubmission(r)
  BY AdvancedType
<1>2. QED BY <1>1 DEF EndInv, Made, SameSubmission

LEMMA SubmitValuesEndInv ==
  ASSUME ChallengesTypes, EndInv, NEW s \in Submission, SubmitValues(s) PROVE EndInv'
<1>1. PICK c \in Challenge, prompts \in SUBSET Prompt \ {{}} : \E right \in SUBSET prompts :
         /\ Open(c)
         /\ \/ SubmitToValidate(s, c, prompts, right) \/ AddNonvalidated(s, c, prompts, right)
            \/ SubmitForm(s, c, prompts, right) \/ SubmitToCheck(s, c, prompts, right)
  BY DEF SubmitValues
<1>2. PICK right \in SUBSET prompts :
         /\ Open(c)
         /\ \/ SubmitToValidate(s, c, prompts, right) \/ AddNonvalidated(s, c, prompts, right)
            \/ SubmitForm(s, c, prompts, right) \/ SubmitToCheck(s, c, prompts, right)
  BY <1>1
<1>3. prompts \in SUBSET Prompt /\ right \in SUBSET Prompt /\ operation[c].at = "open"
      /\ Asked(c) /\ Knows(c)
      /\ (promise[c].at = "pending" \/ (c \in Left /\ promise[c].at = "answered"))
  BY <1>2 DEF Open, EndInv, Asked
<1>4. CASE SubmitToValidate(s, c, prompts, right)
  <2>1. \A r \in Submission : Made(r)'
    BY <1>3, <1>4, SubmitMade DEF SubmitToValidate
  <2>2. \A d \in Challenge : Untouched(d) /\ Asked(d) /\ Knows(d)
    BY <1>4 DEF Untouched, SubmitToValidate, EndInv
  <2>3. alive' => alive
    BY <1>4 DEF SubmitToValidate
  <2>4. QED BY <2>1, <2>2, <2>3, UntouchedKnows DEF EndInv
<1>5. CASE AddNonvalidated(s, c, prompts, right)
  <2>1. \A r \in Submission : Made(r)'
    BY <1>3, <1>5, SubmitMade DEF AddNonvalidated
  <2>2. \A d \in Challenge \ {c} : Untouched(d)
    BY <1>5 DEF Untouched, AddNonvalidated, ChallengesTypes, Operations
  <2>3. operation'[c].at = operation[c].at /\ promise'[c] = promise[c] /\ told'[c] = told[c]
        /\ checks'[c] = checks[c] /\ alive' = alive
    BY <1>5 DEF AddNonvalidated, ChallengesTypes, Operations
  <2>4. Asked(c)' /\ Knows(c)'
    BY <1>3, <2>3 DEF Asked, Knows, Open
  <2>5. QED BY <2>1, <2>2, <2>3, <2>4, OneChallenge
<1>6. CASE SubmitForm(s, c, prompts, right)
  <2>1. \A r \in Submission : Made(r)'
    BY <1>3, <1>6, SubmitMade DEF SubmitForm
  <2>2. promise'[c].at = "answered" /\ checks'[c] = checks[c] /\ alive' = alive /\ c \notin Validated
    BY <1>3, <1>6, AddedType, ResolvedAnswers DEF SubmitForm, Validated
  <2>3. \A d \in Challenge \ {c} : promise'[d] = promise[d] /\ checks'[d] = checks[d]
    BY <1>6, UpdatedOthers DEF SubmitForm
  <2>4. CASE c \in Left
    <3>1. operation' = [operation EXCEPT ![c].nonvalidated = Anew(s, c, prompts)]
          /\ told' = Told(c, "submit")
      BY <1>6, <2>4 DEF SubmitForm
    <3>2. \A d \in Challenge \ {c} : Untouched(d)
      BY <2>3, <3>1, UpdatedOthers DEF Untouched, ChallengesTypes, Operations
    <3>3. operation'[c].at = "open"
      BY <1>3, <3>1 DEF ChallengesTypes, Operations
    <3>4. told'[c].last = "submit" /\ told'[c].ends = 0
      BY <1>3, <3>1, ToldFirst DEF Knows
    <3>5. Asked(c)' /\ Knows(c)'
      BY <1>3, <2>2, <2>4, <3>3, <3>4 DEF Asked, Knows, Open
    <3>6. QED BY <2>1, <2>2, <3>2, <3>5, OneChallenge
  <2>5. CASE c \notin Left
    <3>1. operation' = Deleted(c) /\ told' = ToldEnd(c, "complete")
      BY <1>6, <2>5 DEF SubmitForm
    <3>2. \A d \in Challenge \ {c} : Untouched(d)
      BY <2>3, <3>1, UpdatedOthers DEF Untouched
    <3>3. operation'[c] = Gone
      BY <3>1, DeletedIsGone
    <3>4. told'[c].last = "complete" /\ told'[c].ends = 1
      BY <1>3, <3>1, ToldFirst DEF Knows
    <3>5. Asked(c)' /\ Knows(c)'
      BY <1>3, <2>2, <3>3, <3>4 DEF Asked, Knows, Open, Gone
    <3>6. QED BY <2>1, <2>2, <3>2, <3>5, OneChallenge
  <2>6. QED BY <2>4, <2>5
<1>7. CASE SubmitToCheck(s, c, prompts, right)
  <2>1. \A r \in Submission : Made(r)'
    BY <1>3, <1>7, SubmitMade DEF SubmitToCheck
  <2>2. \A d \in Challenge \ {c} : Untouched(d)
    BY <1>7, UpdatedOthers DEF Untouched, SubmitToCheck, ChallengesTypes, Operations
  <2>3. operation'[c].at = "open" /\ promise'[c] = promise[c] /\ alive' = alive /\ c \in Check
    BY <1>3, <1>7 DEF SubmitToCheck, ChallengesTypes, Operations
  <2>4. told'[c].last = "submit" /\ told'[c].ends = 0
    BY <1>3, <1>7, ToldFirst DEF SubmitToCheck, Knows
  <2>5. c \notin Validated
    BY <2>3, ChallengesAssumption DEF Validated
  <2>6. Asked(c)' /\ Knows(c)'
    BY <1>3, <2>3, <2>4, <2>5 DEF Asked, Knows, Open
  <2>7. QED BY <2>1, <2>2, <2>3, <2>6, OneChallenge
<1>8. QED BY <1>2, <1>4, <1>5, <1>6, <1>7

LEMMA ValidateEndInv ==
  ASSUME ChallengesTypes, EndInv, NEW s \in Submission, Validate(s) PROVE EndInv'
<1>0. PICK c \in Challenge, v \in {<<NextPrompt(s), s>>} :
            c = submission[s].to /\ v = <<NextPrompt(s), s>>
  BY DEF ChallengesTypes, Submissions
<1>1. submission[s].at = "validating" /\ c \in Challenge /\ c \in Validated /\ v \in Value
  BY <1>0, NextPromptIsLeft DEF Validate, EndInv, Made
<1>2. \/ ValidatedTooLate(s)
      \/ ValidatedRight(s, c, v) \/ ValidatedLast(s, c, v) \/ ValidatedWrong(s, c, v)
  BY <1>0 DEF Validate
<1>9. ValuesWith(c, v) \in SUBSET Value
  BY <1>1 DEF ChallengesTypes, Operations, ValuesWith
<1>3. Asked(c) /\ Knows(c) /\ c \notin Left
  BY <1>1, ChallengesAssumption DEF EndInv, Validated
<1>4. CASE ValidatedTooLate(s)
  <2>1. \A r \in Submission : Made(r)'
    BY <1>1, <1>4, AdvancedMade DEF ValidatedTooLate
  <2>2. \A d \in Challenge : Untouched(d) /\ Asked(d) /\ Knows(d)
    BY <1>4 DEF Untouched, ValidatedTooLate, EndInv
  <2>3. alive' => alive
    BY <1>4 DEF ValidatedTooLate
  <2>4. QED BY <2>1, <2>2, <2>3, UntouchedKnows DEF EndInv
<1>5. CASE ValidatedRight(s, c, v)
  <2>1. \A r \in Submission : Made(r)'
    BY <1>1, <1>5, AdvancedMade DEF ValidatedRight
  <2>2. \A d \in Challenge \ {c} : Untouched(d)
    BY <1>1, <1>5, UpdatedOthers DEF Untouched, ValidatedRight, ChallengesTypes, Operations
  <2>3. operation[c].at = "open" /\ promise[c].at = "pending"
    BY <1>3, <1>5 DEF ValidatedRight, Open, Asked
  <2>4. operation'[c].at = "open" /\ promise'[c] = promise[c] /\ alive' = alive
        /\ checks'[c] = checks[c]
    BY <1>1, <1>5, <2>3 DEF ValidatedRight, ChallengesTypes, Operations
  <2>5. told'[c].last = "valid" /\ told'[c].ends = 0
    BY <1>1, <1>3, <1>5, <2>3, ToldFirst DEF ValidatedRight, Knows
  <2>6. Asked(c)' /\ Knows(c)'
    BY <1>3, <2>3, <2>4, <2>5 DEF Asked, Knows, Open
  <2>7. QED BY <1>1, <2>1, <2>2, <2>4, <2>6, OneChallenge
<1>6. CASE ValidatedLast(s, c, v)
  <2>1. \A r \in Submission : Made(r)'
    BY <1>1, <1>6, AdvancedMade DEF ValidatedLast
  <2>2. \A d \in Challenge \ {c} : Untouched(d)
    BY <1>1, <1>6, UpdatedOthers DEF Untouched, ValidatedLast
  <2>3. operation[c].at = "open" /\ promise[c].at = "pending"
    BY <1>3, <1>6 DEF ValidatedLast, Open, Asked
  <2>4. operation'[c] = Gone /\ promise'[c].at = "answered" /\ alive' = alive
        /\ checks'[c] = checks[c]
    BY <1>1, <1>6, <1>9, <2>3, ResolvedAnswers, DeletedIsGone DEF ValidatedLast
  <2>5. told'[c].last = "complete" /\ told'[c].ends = 1
    BY <1>1, <1>3, <1>6, <2>3, ToldFirst DEF ValidatedLast, Knows
  <2>6. Asked(c)' /\ Knows(c)'
    BY <1>3, <2>4, <2>5 DEF Asked, Knows, Open, Gone
  <2>7. QED BY <1>1, <2>1, <2>2, <2>4, <2>6, OneChallenge
<1>7. CASE ValidatedWrong(s, c, v)
  <2>1. \A r \in Submission : Made(r)'
    BY <1>1, <1>7, AdvancedMade DEF ValidatedWrong
  <2>2. \A d \in Challenge \ {c} : Untouched(d)
    BY <1>1, <1>7, UpdatedOthers DEF Untouched, ValidatedWrong
  <2>3. operation[c].at = "open" /\ promise[c].at = "pending"
    BY <1>3, <1>7 DEF ValidatedWrong, Open, Asked
  <2>4. operation' = operation /\ promise' = promise /\ alive' = alive /\ checks' = checks
    BY <1>7 DEF ValidatedWrong
  <2>5. told'[c].last = "invalid" /\ told'[c].ends = 0
    BY <1>1, <1>3, <1>7, <2>3, ToldFirst DEF ValidatedWrong, Knows
  <2>6. Asked(c)' /\ Knows(c)'
    BY <1>3, <2>3, <2>4, <2>5 DEF Asked, Knows, Open
  <2>7. QED BY <1>1, <2>1, <2>2, <2>4, <2>6, OneChallenge
<1>8. QED BY <1>2, <1>4, <1>5, <1>6, <1>7

LEMMA CheckedEndInv ==
  ASSUME ChallengesTypes, EndInv, NEW c \in Challenge, Checked(c) PROVE EndInv'
<1>1. PICK values \in checks[c] :
        /\ CheckedRight(c, values) \/ CheckedWrong(c)
        /\ checks' = [checks EXCEPT ![c] = @ \ {values}]
        /\ UNCHANGED <<observed, submission, alive>>
  BY DEF Checked
<1>0. values \in SUBSET Value
  BY <1>1 DEF ChallengesTypes
<1>2. Asked(c) /\ Knows(c) /\ c \in Check /\ c \notin Validated /\ c \notin Left
  BY <1>1, ChallengesAssumption DEF EndInv, Asked, Validated
<1>3. (checks'[c] # {} => c \in Check) /\ alive' = alive
      /\ \A d \in Challenge \ {c} : checks'[d] = checks[d]
  BY <1>1, <1>2 DEF ChallengesTypes
<1>4. \A s \in Submission : Made(s)'
  BY <1>1 DEF EndInv, Made
<1>5. CASE CheckedRight(c, values)
  <2>1. \A d \in Challenge \ {c} : Untouched(d)
    BY <1>3, <1>5, UpdatedOthers DEF Untouched, CheckedRight
  <2>2. CASE Open(c)
    <3>1. operation[c].at = "open" /\ promise[c].at = "pending"
      BY <1>2, <2>2 DEF Open, Asked
    <3>2. operation'[c] = Gone /\ promise'[c].at = "answered"
      <4>1. operation' = Deleted(c) /\ promise' = Resolved(c, values)
        BY <1>5, <2>2 DEF CheckedRight
      <4>2. QED BY <1>0, <3>1, <4>1, ResolvedAnswers, DeletedIsGone
    <3>3. told'[c].last = "complete" /\ told'[c].ends = 1
      BY <1>2, <1>5, <2>2, <3>1, ToldFirst DEF CheckedRight, Knows
    <3>4. Asked(c)' /\ Knows(c)'
      BY <1>2, <1>3, <3>2, <3>3 DEF Asked, Knows, Open, Gone
    <3>5. QED BY <1>3, <1>4, <2>1, <3>4, OneChallenge
  <2>3. CASE ~Open(c)
    <3>1. operation' = operation /\ told' = told
      BY <1>5, <2>3 DEF CheckedRight
    <3>2. \/ promise'[c] = promise[c]
          \/ promise[c].at = "pending" /\ promise'[c].at = "answered"
      BY <1>0, <1>5, <2>3, ResolvedAnswers DEF CheckedRight
    <3>3. Asked(c)' /\ Knows(c)'
      BY <1>2, <1>3, <2>3, <3>1, <3>2 DEF Asked, Knows, Open
    <3>4. QED BY <1>3, <1>4, <2>1, <3>3, OneChallenge
  <2>4. QED BY <2>2, <2>3
<1>6. CASE CheckedWrong(c)
  <2>1. \A d \in Challenge \ {c} : Untouched(d)
    BY <1>3, <1>6, UpdatedOthers DEF Untouched, CheckedWrong
  <2>2. operation' = operation /\ promise' = promise
    BY <1>6 DEF CheckedWrong
  <2>3. CASE Open(c)
    <3>1. operation[c].at = "open" /\ promise[c].at = "pending"
      BY <1>2, <2>3 DEF Open, Asked
    <3>2. told'[c].last = "invalid" /\ told'[c].ends = 0
      BY <1>2, <1>6, <2>3, <3>1, ToldFirst DEF CheckedWrong, Knows
    <3>3. Asked(c)' /\ Knows(c)'
      BY <1>2, <1>3, <2>2, <3>1, <3>2 DEF Asked, Knows, Open
    <3>4. QED BY <1>3, <1>4, <2>1, <3>3, OneChallenge
  <2>4. CASE ~Open(c)
    <3>1. told' = told
      BY <1>6, <2>4 DEF CheckedWrong
    <3>2. Asked(c)' /\ Knows(c)'
      BY <1>2, <1>3, <2>2, <3>1 DEF Asked, Knows, Open
    <3>3. QED BY <1>3, <1>4, <2>1, <3>2, OneChallenge
  <2>5. QED BY <2>3, <2>4
<1>7. QED BY <1>1, <1>5, <1>6

LEMMA CancelEndInv ==
  ASSUME ChallengesTypes, EndInv, NEW c \in Challenge, Cancel(c) PROVE EndInv'
<1>1. Asked(c) /\ Knows(c) /\ operation[c].at = "open"
      /\ (promise[c].at = "pending" \/ (c \in Left /\ promise[c].at = "answered"))
  BY DEF EndInv, Cancel, Asked, Open
<1>2. \A d \in Challenge \ {c} : Untouched(d)
  BY UpdatedOthers DEF Untouched, Cancel, ChallengesTypes, Promises
<1>3. operation'[c] = Gone /\ checks' = checks /\ alive' = alive
  BY DeletedIsGone DEF Cancel
<1>4. told'[c].last = "cancel" /\ told'[c].ends = 1
  BY <1>1, ToldFirst DEF Cancel, Knows
<1>5. /\ promise[c].at = "pending" => promise'[c].at \in {"pending", "cancelled"}
      /\ promise[c].at = "answered" => promise'[c].at = "answered" /\ c \in Left
  BY <1>1 DEF Cancel, ChallengesTypes, Promises
<1>6. c \in Left => c \notin Validated
  BY ChallengesAssumption DEF Validated
<1>7. Asked(c)' /\ Knows(c)'
  BY <1>1, <1>3, <1>4, <1>5, <1>6 DEF Asked, Knows, Open, Gone
<1>8. \A s \in Submission : Made(s)'
  BY DEF EndInv, Made, Cancel
<1>9. QED BY <1>2, <1>3, <1>7, <1>8, OneChallenge

LEMMA NextEndInv == ChallengesTypes /\ EndInv /\ [Next]_vars => EndInv'
<1>1. SUFFICES ASSUME ChallengesTypes, EndInv, [Next]_vars PROVE EndInv'
  OBVIOUS
<1>2. CASE \E c \in Challenge : Ask(c) \/ Checked(c) \/ Cancel(c)
  BY <1>1, <1>2, AskEndInv, CheckedEndInv, CancelEndInv
<1>3. CASE \E s \in Submission : SubmitValues(s) \/ Validate(s)
  BY <1>1, <1>3, SubmitValuesEndInv, ValidateEndInv
<1>4. CASE Deinit
  BY <1>1, <1>4 DEF EndInv, Deinit, Asked, Knows, Made, Open
<1>5. CASE UNCHANGED vars
  BY <1>1, <1>5 DEF EndInv, vars, Asked, Knows, Made, Open
<1>6. QED BY <1>1, <1>2, <1>3, <1>4, <1>5 DEF Next

(* Observers are told of the end of a challenge once and last, and what they *)
(* are told agrees with the answer of the caller (onChallengeComplete,      *)
(* onChallengeCancel), whatever results come late.                          *)
THEOREM ChallengesObserversKnowTheEnd == Spec => []ObserversKnowTheEnd
<1>1. Spec => [](ChallengesTypes /\ EndInv)
  BY ChallengesInitTypes, InitEndInv, ChallengesNextTypes, NextEndInv, PTL DEF Spec
<1>2. ChallengesTypes /\ EndInv => ObserversKnowTheEnd
  BY DEF EndInv, Knows, ObserversKnowTheEnd
<1>3. QED BY <1>1, <1>2, PTL

-----------------------------------------------------------------------------
(* What is collected has one value at most for each prompt, and what is     *)
(* validated is right; what a caller checks has one value for each prompt.  *)
OnePerPrompt(V) == \A v \in V, w \in V : PromptOf(v) = PromptOf(w) => v = w

Collected(c) ==
  /\ OnePerPrompt(operation[c].valid) /\ OnePerPrompt(operation[c].nonvalidated)
  /\ operation[c].valid \subseteq Right
  /\ \A values \in checks[c] : Prompted!Complete(values)

ValuesInv == \A c \in Challenge : Collected(c)

LEMMA ValuesFinite == IsFiniteSet(Value) /\ Cardinality(Prompt) \in Nat
<1>1. IsFiniteSet(Submission)
  BY ChallengesAssumption, FS_Interval DEF Submission
<1>2. QED BY <1>1, ChallengesAssumption, FS_Product, FS_CardinalityType DEF Value

(* As many values as prompts, no two of one prompt: one for each prompt.    *)
LEMMA FinishedIsComplete ==
  ASSUME NEW V \in SUBSET Value, OnePerPrompt(V), IsFinished(V)
  PROVE  Prompted!Complete(V)
<1> DEFINE f == [v \in V |-> PromptOf(v)]
<1>1. \A v \in V : PromptOf(v) \in Prompt
  BY DEF Value, PromptOf
<1>2. f \in Injection(V, Prompt)
  BY <1>1 DEF OnePerPrompt, Injection, IsInjective
<1>3. Cardinality(V) = Cardinality(Prompt)
  BY DEF IsFinished
<1>4. f \in Surjection(V, Prompt)
  BY <1>2, <1>3, FS_Injection, ChallengesAssumption
<1>5. \A p \in Prompt : \E v \in V : PromptOf(v) = p
  BY <1>4 DEF Surjection
<1>6. QED BY <1>5 DEF OnePerPrompt, Prompted!Complete

LEMMA AddedOnePerPrompt ==
  ASSUME NEW V \in SUBSET Value, OnePerPrompt(V), NEW s, NEW P \in SUBSET Prompt
  PROVE  OnePerPrompt(Added(V, s, P)) /\ OnePerPrompt(P \X {s})
  BY DEF OnePerPrompt, Added, PromptOf

LEMMA ValuesWithOnePerPrompt ==
  ASSUME NEW c \in Challenge, OnePerPrompt(operation[c].valid), NEW v
  PROVE  OnePerPrompt(ValuesWith(c, v))
  BY DEF OnePerPrompt, ValuesWith

(* What is submitted of a form has one value for each prompt.               *)
LEMMA SubmittedIsComplete ==
  ASSUME ChallengesTypes, NEW s \in Submission, NEW c \in Challenge, NEW prompts \in SUBSET Prompt,
         MissingPrompts(c) \subseteq prompts, OnePerPrompt(operation[c].nonvalidated)
  PROVE  Prompted!Complete(Submitted(s, c, prompts))
<1> DEFINE V == operation[c].nonvalidated
           P == InTime(c, prompts)
<1>1. V \in SUBSET Value
  BY DEF ChallengesTypes, Operations
<1>2. P \in SUBSET Prompt
  BY DEF InTime
<1>3. OnePerPrompt(Submitted(s, c, prompts))
  BY <1>1, <1>2, AddedOnePerPrompt DEF Submitted
<1>4. ASSUME NEW p \in Prompt PROVE \E v \in Submitted(s, c, prompts) : PromptOf(v) = p
  <2>1. CASE p \in P
    <3>1. <<p, s>> \in Submitted(s, c, prompts) /\ PromptOf(<<p, s>>) = p
      BY <2>1 DEF Submitted, Added, PromptOf
    <3>2. QED BY <3>1
  <2>2. CASE p \notin P
    <3>1. p \in Nat
      BY ChallengesAssumption
    <3>2. p \notin MissingPrompts(c)
      <4>1. SUFFICES ASSUME p \in MissingPrompts(c) PROVE FALSE
        OBVIOUS
      <4>2. p \in prompts /\ p <= p
        BY <3>1, <4>1
      <4>3. QED BY <2>2, <4>1, <4>2 DEF InTime
    <3>3. PICK v \in V : PromptOf(v) = p
      BY <3>2 DEF MissingPrompts, Of
    <3>4. v \in Submitted(s, c, prompts)
      BY <2>2, <3>3 DEF Submitted, Added
    <3>5. QED BY <3>3, <3>4
  <2>3. QED BY <2>1, <2>2
<1>5. QED BY <1>3, <1>4 DEF OnePerPrompt, Prompted!Complete

-----------------------------------------------------------------------------
(* The values that are right only become more.                              *)
LEMMA RightGrows ==
  ASSUME ChallengesTypes, EndInv, [Next]_vars
  PROVE  Right \subseteq Right' /\ Right' \subseteq Value
<1>1. SUFFICES \A s \in Submission : submission[s].right \subseteq submission'[s].right
  BY DEF Right, Value
<1>2. ASSUME submission' = submission
      PROVE  \A s \in Submission : submission[s].right \subseteq submission'[s].right
  BY <1>2
<1>3. ASSUME NEW s \in Submission, SubmitValues(s)
      PROVE  \A r \in Submission : submission[r].right \subseteq submission'[r].right
  <2>1. submission[s].right = {}
    BY <1>3 DEF SubmitValues, EndInv, Made
  <2>2. \A r \in Submission \ {s} : submission'[r] = submission[r]
    BY <1>3 DEF SubmitValues, SubmitToValidate, AddNonvalidated, SubmitForm, SubmitToCheck,
                Submit, ChallengesTypes, Submissions
  <2>3. QED BY <2>1, <2>2
<1>4. ASSUME NEW s \in Submission, Validate(s)
      PROVE  \A r \in Submission : submission[r].right \subseteq submission'[r].right
  <2>1. submission[s].at = "validating" /\ (submission' = Advanced(s) \/ submission' = Thrown(s))
    BY <1>4 DEF Validate, ValidatedTooLate, ValidatedRight, ValidatedLast, ValidatedWrong
  <2>2. \A r \in Submission : SameSubmission(r)
    BY <2>1, AdvancedType
  <2>3. QED BY <2>2 DEF SameSubmission
<1>5. CASE \E c \in Challenge : Ask(c) \/ Checked(c) \/ Cancel(c)
  BY <1>2, <1>5 DEF Ask, Checked, Cancel
<1>6. CASE Deinit \/ UNCHANGED vars
  BY <1>2, <1>6 DEF Deinit, vars
<1>7. QED BY <1>3, <1>4, <1>5, <1>6 DEF Next

LEMMA InitValuesInv == Init => ValuesInv
  BY DEF Init, ValuesInv, Collected, NoValues, OnePerPrompt

(* What is collected for the other challenges stays as it is.               *)
LEMMA CollectedStays ==
  ASSUME NEW c \in Challenge, Collected(c), Right \subseteq Right',
         operation'[c] = operation[c] \/ operation'[c] = Gone, checks'[c] \subseteq checks[c]
  PROVE  Collected(c)'
  BY DEF Collected, Gone, OnePerPrompt, Prompted!Complete

LEMMA NextValuesInv ==
  ASSUME ChallengesTypes, EndInv, ValuesInv, [Next]_vars PROVE ValuesInv'
<1>1. Right \subseteq Right'
  BY RightGrows
<1>2. ASSUME \A c \in Challenge : operation'[c] = operation[c] \/ operation'[c] = Gone,
             \A c \in Challenge : checks'[c] \subseteq checks[c]
      PROVE  ValuesInv'
  BY <1>1, <1>2, CollectedStays DEF ValuesInv
<1>3. ASSUME NEW c \in Challenge, Ask(c) PROVE ValuesInv'
  <2>1. \A d \in Challenge : /\ operation'[d].valid = operation[d].valid
                             /\ operation'[d].nonvalidated = operation[d].nonvalidated
                             /\ checks'[d] = checks[d]
    BY <1>3 DEF Ask, ChallengesTypes, Operations
  <2>2. QED BY <1>1, <2>1 DEF ValuesInv, Collected, OnePerPrompt, Prompted!Complete
<1>4. ASSUME NEW s \in Submission, SubmitValues(s) PROVE ValuesInv'
  <2>1. PICK c \in Challenge, prompts \in SUBSET Prompt \ {{}} : \E right \in SUBSET prompts :
         /\ Open(c)
         /\ \/ SubmitToValidate(s, c, prompts, right) \/ AddNonvalidated(s, c, prompts, right)
            \/ SubmitForm(s, c, prompts, right) \/ SubmitToCheck(s, c, prompts, right)
    BY <1>4 DEF SubmitValues
  <2>2. PICK right \in SUBSET prompts :
         /\ Open(c)
         /\ \/ SubmitToValidate(s, c, prompts, right) \/ AddNonvalidated(s, c, prompts, right)
            \/ SubmitForm(s, c, prompts, right) \/ SubmitToCheck(s, c, prompts, right)
    BY <2>1
  <2>3. Collected(c) /\ operation[c].nonvalidated \in SUBSET Value /\ prompts \in SUBSET Prompt
    BY DEF ValuesInv, ChallengesTypes, Operations
  <2>4. CASE SubmitToValidate(s, c, prompts, right)
    BY <1>2, <2>4 DEF SubmitToValidate
  <2>5. CASE AddNonvalidated(s, c, prompts, right)
    <3>1. \A d \in Challenge \ {c} : operation'[d] = operation[d] /\ checks'[d] = checks[d]
      BY <2>5 DEF AddNonvalidated, ChallengesTypes, Operations
    <3>2. /\ operation'[c].valid = operation[c].valid /\ checks'[c] = checks[c]
          /\ operation'[c].nonvalidated = Added(operation[c].nonvalidated, s, prompts)
      BY <2>5 DEF AddNonvalidated, ChallengesTypes, Operations
    <3>3. OnePerPrompt(operation'[c].nonvalidated)
      <4>1. OnePerPrompt(operation[c].nonvalidated)
        BY <2>3 DEF Collected
      <4>2. OnePerPrompt(Added(operation[c].nonvalidated, s, prompts))
        BY <2>3, <4>1, AddedOnePerPrompt
      <4>3. QED BY <3>2, <4>2
    <3>4. Collected(c)'
      BY <1>1, <2>3, <3>2, <3>3 DEF Collected, OnePerPrompt, Prompted!Complete
    <3>5. QED BY <1>1, <3>1, <3>4, CollectedStays DEF ValuesInv
  <2>6. CASE SubmitForm(s, c, prompts, right)
    <3>1. CASE c \in Left
      <4>1. \A d \in Challenge \ {c} : operation'[d] = operation[d] /\ checks'[d] = checks[d]
        BY <2>6, <3>1 DEF SubmitForm, ChallengesTypes, Operations
      <4>2. /\ operation'[c].valid = operation[c].valid /\ checks'[c] = checks[c]
            /\ operation'[c].nonvalidated = Anew(s, c, prompts)
        BY <2>6, <3>1 DEF SubmitForm, ChallengesTypes, Operations
      <4>3. OnePerPrompt(operation'[c].nonvalidated)
        BY <2>3, <4>2 DEF Anew, OnePerPrompt, PromptOf
      <4>4. Collected(c)'
        BY <1>1, <2>3, <4>2, <4>3 DEF Collected, OnePerPrompt, Prompted!Complete
      <4>5. QED BY <1>1, <4>1, <4>4, CollectedStays DEF ValuesInv
    <3>2. CASE c \notin Left
      <4>1. operation' = Deleted(c) /\ checks' = checks
        BY <2>6, <3>2 DEF SubmitForm
      <4>2. QED BY <1>2, <4>1, DeletedIsGone, UpdatedOthers
    <3>3. QED BY <3>1, <3>2
  <2>7. CASE SubmitToCheck(s, c, prompts, right)
    <3>1. \A d \in Challenge \ {c} : operation'[d] = operation[d] /\ checks'[d] = checks[d]
      BY <2>7 DEF SubmitToCheck, ChallengesTypes, Operations
    <3>2. /\ operation'[c].valid = operation[c].valid
          /\ checks'[c] = checks[c] \cup {Submitted(s, c, prompts)}
          /\ operation'[c].nonvalidated = Anew(s, c, prompts)
      BY <2>7 DEF SubmitToCheck, ChallengesTypes, Operations
    <3>3. OnePerPrompt(operation'[c].nonvalidated)
      BY <2>3, <3>2 DEF Anew, OnePerPrompt, PromptOf
    <3>4. Prompted!Complete(Submitted(s, c, prompts))
      BY <2>3, <2>7, SubmittedIsComplete DEF SubmitToCheck, Collected
    <3>5. Collected(c)'
      BY <1>1, <2>3, <3>2, <3>3, <3>4 DEF Collected, OnePerPrompt, Prompted!Complete
    <3>6. QED BY <1>1, <3>1, <3>5, CollectedStays DEF ValuesInv
  <2>8. QED BY <2>2, <2>4, <2>5, <2>6, <2>7
<1>5. ASSUME NEW s \in Submission, Validate(s) PROVE ValuesInv'
  <2>1. PICK c \in Challenge, v \in {<<NextPrompt(s), s>>} :
            c = submission[s].to /\ v = <<NextPrompt(s), s>>
    BY DEF ChallengesTypes, Submissions
  <2>2. \/ ValidatedTooLate(s)
        \/ ValidatedRight(s, c, v) \/ ValidatedLast(s, c, v) \/ ValidatedWrong(s, c, v)
    BY <1>5, <2>1 DEF Validate
  <2>3. CASE ValidatedTooLate(s) \/ ValidatedWrong(s, c, v)
    BY <1>2, <2>3 DEF ValidatedTooLate, ValidatedWrong
  <2>4. CASE ValidatedRight(s, c, v)
    <3>1. \A d \in Challenge \ {c} : operation'[d] = operation[d] /\ checks'[d] = checks[d]
      BY <2>4 DEF ValidatedRight, ChallengesTypes, Operations
    <3>2. /\ operation'[c].valid = ValuesWith(c, v) /\ checks'[c] = checks[c]
          /\ operation'[c].nonvalidated = operation[c].nonvalidated
      BY <2>4 DEF ValidatedRight, ChallengesTypes, Operations
    <3>3. Collected(c) /\ OnePerPrompt(ValuesWith(c, v))
      BY ValuesWithOnePerPrompt DEF ValuesInv, Collected
    <3>4. v \in Right
      BY <1>5, <2>1, <2>4, NextPromptIsLeft DEF Validate, ValidatedRight, Right, PromptOf
    <3>5. ValuesWith(c, v) \subseteq Right'
      BY <1>1, <3>3, <3>4 DEF Collected, ValuesWith
    <3>6. Collected(c)'
      BY <3>2, <3>3, <3>5 DEF Collected, OnePerPrompt, Prompted!Complete
    <3>7. QED BY <1>1, <3>1, <3>6, CollectedStays DEF ValuesInv
  <2>5. CASE ValidatedLast(s, c, v)
    <3>1. operation' = Deleted(c) /\ checks' = checks
      BY <2>5 DEF ValidatedLast
    <3>2. QED BY <1>2, <3>1, DeletedIsGone, UpdatedOthers
  <2>6. QED BY <2>2, <2>3, <2>4, <2>5
<1>6. ASSUME NEW c \in Challenge, Checked(c) PROVE ValuesInv'
  <2>1. \A d \in Challenge : checks'[d] \subseteq checks[d]
    BY <1>6 DEF Checked, ChallengesTypes
  <2>2. operation' = operation \/ operation' = Deleted(c)
    BY <1>6 DEF Checked, CheckedRight, CheckedWrong
  <2>3. QED BY <1>2, <2>1, <2>2, DeletedIsGone, UpdatedOthers
<1>7. ASSUME NEW c \in Challenge, Cancel(c) PROVE ValuesInv'
  <2>1. operation' = Deleted(c) /\ checks' = checks
    BY <1>7 DEF Cancel
  <2>2. QED BY <1>2, <2>1, DeletedIsGone, UpdatedOthers
<1>8. CASE Deinit \/ UNCHANGED vars
  BY <1>2, <1>8 DEF Deinit, vars
<1>9. QED BY <1>3, <1>4, <1>5, <1>6, <1>7, <1>8 DEF Next

-----------------------------------------------------------------------------
(* Every step is one of Prompts.                                            *)
IInv == ChallengesTypes /\ EndInv /\ ValuesInv

LEMMA InitPrompted == Init => Prompted!Init
<1>1. ASSUME Init PROVE Right = {}
  <2>1. \A v \in Value : v[2] \in Submission
    BY DEF Value
  <2>2. \A t \in Submission : submission[t].right = {}
    BY <1>1 DEF Init, NoSubmission
  <2>3. QED BY <2>1, <2>2 DEF Right
<1>2. QED BY <1>1 DEF Init, Prompted!Init

(* The caller is answered, if it waits.                                     *)
LEMMA ResolvedPrompted ==
  ASSUME ChallengesTypes, NEW c \in Challenge, NEW V \in SUBSET Value, promise' = Resolved(c, V),
         Prompted!Complete(V), c \in Form \/ V \subseteq Right', Prompted!Give
  PROVE  Prompted!Next
<1>1. CASE promise[c].at = "pending"
  <2>1. promise' = [promise EXCEPT ![c] = [at |-> "answered", values |-> V]]
    BY <1>1 DEF Resolved
  <2>2. promise'[c].values = V
    BY <2>1 DEF ChallengesTypes, Promises
  <2>3. Prompted!Answer(c, promise'[c].values)
    BY <1>1, <2>1, <2>2 DEF Prompted!Answer
  <2>4. QED BY <2>3 DEF Prompted!Next
<1>2. CASE promise[c].at # "pending"
  BY <1>2 DEF Resolved, Prompted!Next
<1>3. QED BY <1>1, <1>2

LEMMA NextPrompted ==
  ASSUME IInv, [Next]_vars PROVE [Prompted!Next]_Prompted!vars
<1> USE DEF IInv
<1>1. Prompted!Give
  BY RightGrows DEF Prompted!Give
<1>2. ASSUME UNCHANGED promise PROVE Prompted!Next
  BY <1>1, <1>2 DEF Prompted!Next
<1>3. ASSUME NEW c \in Challenge, Ask(c) PROVE Prompted!Next
  <2>1. promise[c].at = "none" /\ promise' = [promise EXCEPT ![c].at = "pending"]
    BY <1>3 DEF Ask, EndInv, Asked
  <2>2. Prompted!Ask(c)
    BY <2>1 DEF Prompted!Ask
  <2>3. QED BY <1>1, <2>2 DEF Prompted!Next
<1>4. ASSUME NEW s \in Submission, SubmitValues(s) PROVE Prompted!Next
  <2>1. PICK c \in Challenge, prompts \in SUBSET Prompt \ {{}} : \E right \in SUBSET prompts :
         \/ SubmitToValidate(s, c, prompts, right) \/ AddNonvalidated(s, c, prompts, right)
         \/ SubmitForm(s, c, prompts, right) \/ SubmitToCheck(s, c, prompts, right)
    BY <1>4 DEF SubmitValues
  <2>2. PICK right \in SUBSET prompts :
         \/ SubmitToValidate(s, c, prompts, right) \/ AddNonvalidated(s, c, prompts, right)
         \/ SubmitForm(s, c, prompts, right) \/ SubmitToCheck(s, c, prompts, right)
    BY <2>1
  <2>3. CASE SubmitToValidate(s, c, prompts, right) \/ AddNonvalidated(s, c, prompts, right)
             \/ SubmitToCheck(s, c, prompts, right)
    BY <1>2, <2>3 DEF SubmitToValidate, AddNonvalidated, SubmitToCheck
  <2>4. CASE SubmitForm(s, c, prompts, right)
    <3>1. c \in Form /\ MissingPrompts(c) \subseteq prompts
          /\ promise' = Resolved(c, Submitted(s, c, prompts))
      BY <2>4 DEF SubmitForm
    <3>2. Submitted(s, c, prompts) \in SUBSET Value
      BY AddedType
    <3>3. Prompted!Complete(Submitted(s, c, prompts))
      BY <3>1, SubmittedIsComplete DEF ValuesInv, Collected
    <3>4. QED BY <1>1, <3>1, <3>2, <3>3, ResolvedPrompted
  <2>5. QED BY <2>2, <2>3, <2>4
<1>5. ASSUME NEW s \in Submission, Validate(s) PROVE Prompted!Next
  <2>1. PICK c \in Challenge, v \in {<<NextPrompt(s), s>>} :
            c = submission[s].to /\ v = <<NextPrompt(s), s>>
    BY DEF ChallengesTypes, Submissions
  <2>2. \/ ValidatedTooLate(s)
        \/ ValidatedRight(s, c, v) \/ ValidatedLast(s, c, v) \/ ValidatedWrong(s, c, v)
    BY <1>5, <2>1 DEF Validate
  <2>3. CASE ValidatedTooLate(s) \/ ValidatedWrong(s, c, v) \/ ValidatedRight(s, c, v)
    BY <1>2, <2>3 DEF ValidatedTooLate, ValidatedWrong, ValidatedRight
  <2>4. CASE ValidatedLast(s, c, v)
    <3>1. promise' = Resolved(c, ValuesWith(c, v)) /\ IsFinished(ValuesWith(c, v))
      BY <2>4 DEF ValidatedLast
    <3>2. v \in Value /\ v \in Right
      BY <1>5, <2>1, <2>4, NextPromptIsLeft DEF Validate, ValidatedLast, Right, PromptOf
    <3>3. ValuesWith(c, v) \in SUBSET Value /\ ValuesWith(c, v) \subseteq Right
      BY <3>2 DEF ValuesWith, ChallengesTypes, Operations, ValuesInv, Collected
    <3>4. OnePerPrompt(ValuesWith(c, v))
      BY ValuesWithOnePerPrompt DEF ValuesInv, Collected
    <3>5. Prompted!Complete(ValuesWith(c, v))
      BY <3>1, <3>3, <3>4, FinishedIsComplete
    <3>6. ValuesWith(c, v) \subseteq Right'
      BY <3>3, RightGrows
    <3>7. QED BY <1>1, <3>1, <3>3, <3>5, <3>6, ResolvedPrompted
  <2>5. QED BY <2>2, <2>3, <2>4
<1>6. ASSUME NEW c \in Challenge, Checked(c) PROVE Prompted!Next
  <2>1. PICK values \in checks[c] : CheckedRight(c, values) \/ CheckedWrong(c)
    BY <1>6 DEF Checked
  <2>2. values \in SUBSET Value /\ Prompted!Complete(values)
    BY DEF ChallengesTypes, ValuesInv, Collected
  <2>3. CASE promise' = promise
    BY <1>2, <2>3
  <2>4. CASE promise' # promise
    <3>1. promise' = Resolved(c, values) /\ values \subseteq Right
      BY <2>1, <2>4 DEF CheckedRight, CheckedWrong
    <3>2. values \subseteq Right'
      BY <3>1, RightGrows
    <3>3. QED BY <1>1, <2>2, <3>1, <3>2, ResolvedPrompted
  <2>5. QED BY <2>3, <2>4
<1>7. ASSUME NEW c \in Challenge, Cancel(c) PROVE Prompted!Next
  <2>1. CASE promise[c].at = "pending" /\ c \notin Check
    <3>1. Prompted!Cancel(c)
      BY <1>7, <2>1 DEF Cancel, Prompted!Cancel
    <3>2. QED BY <1>1, <3>1 DEF Prompted!Next
  <2>2. CASE ~(promise[c].at = "pending" /\ c \notin Check)
    BY <1>2, <1>7, <2>2 DEF Cancel
  <2>3. QED BY <2>1, <2>2
<1>8. CASE Deinit
  BY <1>2, <1>8 DEF Deinit
<1>9. CASE UNCHANGED vars
  BY <1>9 DEF vars, Prompted!vars, Right
<1>10. QED BY <1>3, <1>4, <1>5, <1>6, <1>7, <1>8, <1>9 DEF Next

(* The challenge service keeps what Prompts promises: a caller is answered  *)
(* at most once, with one value for each prompt, and with right ones if     *)
(* they are validated or checked (promptForChallengeResponse).              *)
THEOREM ChallengesAnswersAreRight == Spec => AnswersAreRight
<1>1. Spec => []IInv
  <2>1. Init => IInv
    BY ChallengesInitTypes, InitEndInv, InitValuesInv DEF IInv
  <2>2. IInv /\ [Next]_vars => IInv'
    BY ChallengesNextTypes, NextEndInv, NextValuesInv DEF IInv
  <2>3. QED BY <2>1, <2>2, PTL DEF Spec
<1>2. IInv /\ [Next]_vars => [Prompted!Next]_Prompted!vars
  BY NextPrompted
<1>3. Spec => Prompted!Spec
  BY <1>1, <1>2, InitPrompted, PTL DEF Spec, Prompted!Spec
<1>4. QED BY <1>3 DEF AnswersAreRight

-----------------------------------------------------------------------------
(* Launch.                                                                  *)

(* The legacy values an installation begins with.                           *)
FirstRaw(u) == IF ~u.legacy THEN {}
               ELSE IF u.passcode THEN {"encrypted"} ELSE InStorage(u) \cup {"marker"}

(* A set of managed values from which the account's root key comes, with    *)
(* the keychain if there is no passcode.                                    *)
Holds(S) == /\ "params" \in S
            /\ IF user.passcode THEN {"wrapperParams", "wrappedKey"} \subseteq S
                                ELSE S \cap {"wrapperParams", "wrappedKey"} = {}

BeforeDeletion == {"off", "failed", "version", "migrations", "keychain", "structure", "passcode",
                   "object", "storage", "challenge", "decrypted", "deleteManaged"}
AfterStructure == {"storage", "challenge", "decrypted", "deleteManaged", "deleteMisc", "launched",
                   "database", "loaded", "synced", "ready"}
AfterLoading   == AfterStructure \ {"storage"}
AfterChallenge == AfterLoading \ {"challenge"}

LaunchTypes ==
  /\ user \in [account : BOOLEAN, passcode : BOOLEAN, legacy : BOOLEAN]
  /\ raw \in SUBSET Legacy
  /\ version \in {"none", "1.0.0", "current"}
  /\ object \in Values /\ keychain \in BOOLEAN /\ itemsKey \in BOOLEAN
  /\ app \in [at : LaunchStage, values : Values, unsaved : BOOLEAN, rootKey : BOOLEAN, itemsKey : BOOLEAN,
              active : BOOLEAN, new : Values]
  /\ restarts \in 0 .. MaxRestarts

(* Until the migration is done the legacy values stay, up to the deletion.  *)
RawInv == version # "current" /\ app.at \in BeforeDeletion => raw = FirstRaw(user)

(* The migration runs exactly while the version is not the current one.     *)
ActiveInv ==
  /\ At("keychain") => (app.active <=> version # "current")
  /\ app.at \in {"structure", "passcode", "object"} => version # "current"
  /\ At("ready") => version = "current"

(* Where the new structure is computed, in memory, and on disk.             *)
ObjectInv ==
  /\ At("passcode") => user.passcode
  /\ At("object") => Holds(app.new) /\ (user.passcode \/ keychain)
  /\ version = "current" => Holds(object)
  /\ app.at \in AfterStructure => Holds(object) /\ (user.passcode \/ keychain)
  /\ app.at \in AfterLoading => Holds(app.values)

(* The root key, which the launch challenge gives if the keychain does not. *)
RootKeyInv ==
  /\ At("challenge") => app.rootKey \/ user.passcode
  /\ app.at \in AfterChallenge => app.rootKey

AccountInv == user.account => user.legacy /\ RawInv /\ ActiveInv /\ ObjectInv /\ RootKeyInv

LaunchInv == LaunchTypes /\ AccountInv

-----------------------------------------------------------------------------
LEMMA LaunchInvInit == ASSUME LaunchInit PROVE LaunchInv
<1> SUFFICES LaunchInv
  OBVIOUS
<1>1. LaunchTypes
  <2>1. user \in [account : BOOLEAN, passcode : BOOLEAN, legacy : BOOLEAN]
    BY DEF LaunchInit
  <2>2. raw \in SUBSET Legacy
    BY DEF LaunchInit, Legacy, InStorage
  <2>3. app \in [at : LaunchStage, values : Values, unsaved : BOOLEAN, rootKey : BOOLEAN,
                itemsKey : BOOLEAN, active : BOOLEAN, new : Values]
    BY DEF LaunchInit, Off, LaunchStage, Values
  <2>4. version \in {"none", "1.0.0", "current"} /\ object \in Values /\ keychain \in BOOLEAN
        /\ itemsKey \in BOOLEAN
    BY DEF LaunchInit, Values
  <2>5. restarts \in 0 .. MaxRestarts
    BY LaunchAssumption DEF LaunchInit
  <2> QED
    BY <2>1, <2>2, <2>3, <2>4, <2>5 DEF LaunchTypes
<1>2. AccountInv
  BY DEF LaunchInit, AccountInv, RawInv, ActiveInv, ObjectInv, RootKeyInv, At, Off, FirstRaw,
         BeforeDeletion, AfterStructure, AfterLoading, AfterChallenge
<1> QED
  BY <1>1, <1>2 DEF LaunchInv

(* The invariant says enough: TypeOK, and the account is in one place or    *)
(* the other.                                                               *)
LEMMA LaunchInvImplies == LaunchInv => LaunchTypeOK /\ AccountIsKept
<1> SUFFICES ASSUME LaunchInv PROVE LaunchTypeOK /\ AccountIsKept
  OBVIOUS
<1>1. LaunchTypeOK
  BY DEF LaunchInv, LaunchTypes, LaunchTypeOK, AccountInv, RootKeyInv, AfterStructure, AfterLoading, AfterChallenge
<1>2. ASSUME user.account PROVE LegacyAccount \/ ManagedAccount
  <2> USE <1>2 DEF LaunchInv, AccountInv
  <2>1. CASE version = "current"
    BY <2>1 DEF ObjectInv, Holds, ManagedAccount
  <2>2. CASE version # "current" /\ app.at \in BeforeDeletion
    BY <2>2 DEF RawInv, FirstRaw, InStorage, LegacyAccount
  <2>3. CASE app.at \notin BeforeDeletion
    <3>1. app.at \in AfterStructure
      BY <2>3 DEF LaunchTypes, LaunchStage, BeforeDeletion, AfterStructure
    <3> QED
      BY <3>1 DEF ObjectInv, Holds, ManagedAccount
  <2> QED
    BY <2>1, <2>2, <2>3
<1> QED
  BY <1>1, <1>2 DEF AccountIsKept

-----------------------------------------------------------------------------
(* Every step keeps the types.                                              *)
LEMMA LaunchNextTypes ==
  ASSUME LaunchTypes, [LaunchNext]_launchVars PROVE LaunchTypes'
<1> SUFFICES LaunchTypes'
  OBVIOUS
<1> USE DEF LaunchTypes, At, GoTo, device
<1>1. CASE Start
  BY <1>1 DEF Start, LaunchStage
<1>2. CASE StoreVersionNumber
  BY <1>2 DEF StoreVersionNumber, LaunchStage
<1>3. CASE RequireMigrations
  BY <1>3 DEF RequireMigrations, LaunchStage
<1>4. CASE RepairMissingKeychain
  BY <1>4 DEF RepairMissingKeychain, NeedsKeychainRepair, LaunchStage
<1>5. CASE ReadLegacyStructure
  <2>1. raw \cap {"params"} \in Values
    BY DEF Values
  <2>2. CASE "encrypted" \in raw
    BY <1>5, <2>2 DEF ReadLegacyStructure, LaunchStage
  <2>3. CASE "encrypted" \notin raw /\ "keys" \in raw /\ "params" \notin raw
    BY <1>5, <2>3 DEF ReadLegacyStructure, LaunchStage
  <2>4. CASE "encrypted" \notin raw /\ ~("keys" \in raw /\ "params" \notin raw)
    <3>1. /\ app' = [app EXCEPT !.at = "object", !.new = raw \cap {"params"}]
          /\ keychain' = (keychain \/ "keys" \in raw)
          /\ UNCHANGED <<user, raw, version, object, itemsKey, restarts>>
      BY <1>5, <2>4 DEF ReadLegacyStructure
    <3> QED
      BY <3>1, <2>1 DEF LaunchStage
  <2> QED
    BY <2>2, <2>3, <2>4
<1>6. CASE EnterMigrationPasscode
  <2>1. {"wrapperParams"} \cup (IF user.account THEN {"params", "wrappedKey", "session"} ELSE {}) \in Values
    BY DEF Values
  <2> QED
    BY <1>6, <2>1 DEF EnterMigrationPasscode, LaunchStage
<1>7. CASE SetStorageStructure
  BY <1>7 DEF SetStorageStructure, LaunchStage
<1>8. CASE InitializeFromDisk
  BY <1>8 DEF InitializeFromDisk, LaunchStage
<1>9. CASE PassLaunchChallenge
  BY <1>9 DEF PassLaunchChallenge, LaunchStage
<1>10. CASE MigrateRawStorage
  <2>1. app.values \cup (raw \cap {"session"}) \in Values
    BY DEF Values
  <2> QED
    BY <1>10, <2>1 DEF MigrateRawStorage, LaunchStage
<1>11. CASE DeleteManagedKeys
  BY <1>11 DEF DeleteManagedKeys, LaunchStage
<1>12. CASE DeleteMiscKeys
  BY <1>12 DEF DeleteMiscKeys, LaunchStage
<1>13. CASE LoadDatabase
  BY <1>13 DEF LoadDatabase, LaunchStage
<1>14. CASE LoadedDatabase
  BY <1>14 DEF LoadedDatabase, LaunchStage
<1>15. CASE CompleteFullSync
  BY <1>15 DEF CompleteFullSync, LaunchStage
<1>16. CASE MarkMigrationsAsDone
  BY <1>16 DEF MarkMigrationsAsDone, LaunchStage
<1>17. CASE PersistValues
  BY <1>17 DEF PersistValues
<1>18. CASE CancelLaunchChallenge
  BY <1>18 DEF CancelLaunchChallenge, LaunchStage
<1>19. CASE End
  <2>1. Off \in [at : LaunchStage, values : Values, unsaved : BOOLEAN, rootKey : BOOLEAN,
                itemsKey : BOOLEAN, active : BOOLEAN, new : Values]
    BY DEF Off, LaunchStage, Values
  <2> QED
    BY <1>19, <2>1, LaunchAssumption DEF End
<1>20. CASE LoseKeychain
  <2>1. restarts' \in 0 .. MaxRestarts
    BY <1>20, LaunchAssumption DEF LoseKeychain
  <2> QED
    BY <1>20, <2>1 DEF LoseKeychain
<1>21. CASE UNCHANGED launchVars
  BY <1>21 DEF launchVars
<1> QED
  BY <1>1, <1>2, <1>3, <1>4, <1>5, <1>6, <1>7, <1>8, <1>9, <1>10, <1>11, <1>12, <1>13, <1>14,
     <1>15, <1>16, <1>17, <1>18, <1>19, <1>20, <1>21 DEF LaunchNext, Prepare, GoOn

(* Every step keeps the account, if no launch ends in the gap.              *)
LEMMA LaunchNextAccount ==
  ASSUME "unfinishedMigration" \notin LaunchEnvironment, LaunchInv, LaunchTypes', [LaunchNext]_launchVars
  PROVE  AccountInv'
<1> SUFFICES ASSUME user.account PROVE AccountInv'
  <2>1. user' = user
    BY DEF LaunchNext, Prepare, GoOn, launchVars, device, Start,
           StoreVersionNumber, RequireMigrations, RepairMissingKeychain,
           ReadLegacyStructure, EnterMigrationPasscode, SetStorageStructure, InitializeFromDisk, PassLaunchChallenge,
           MigrateRawStorage,
           DeleteManagedKeys, DeleteMiscKeys, LoadDatabase, LoadedDatabase, CompleteFullSync,
           MarkMigrationsAsDone, PersistValues, CancelLaunchChallenge, End, LoseKeychain
  <2> QED
    BY <2>1 DEF AccountInv
<1> USE DEF LaunchInv, LaunchTypes, AccountInv, At, GoTo, device, BeforeDeletion, AfterStructure,
            AfterLoading, AfterChallenge
<1> USE DEF RawInv, ActiveInv, ObjectInv, RootKeyInv, Holds
<1>1. CASE Start
  BY <1>1 DEF Start
<1>2. CASE StoreVersionNumber
  BY <1>2 DEF StoreVersionNumber, FirstRaw, InStorage
<1>3. CASE RequireMigrations
  BY <1>3 DEF RequireMigrations
<1>4. CASE RepairMissingKeychain
  BY <1>4 DEF RepairMissingKeychain, NeedsKeychainRepair
<1>5. CASE ReadLegacyStructure
  <2>1. raw = FirstRaw(user) /\ user.legacy /\ version # "current" /\ app.at = "structure"
    BY <1>5 DEF ReadLegacyStructure
  <2>2. UNCHANGED <<user, raw, version, object, itemsKey, restarts>>
    BY <1>5 DEF ReadLegacyStructure
  <2>3. CASE user.passcode
    <3>1. "encrypted" \in raw
      BY <2>1, <2>3 DEF FirstRaw
    <3>2. app' = [app EXCEPT !.at = "passcode"] /\ UNCHANGED keychain
      BY <1>5, <3>1 DEF ReadLegacyStructure
    <3> QED
      BY <2>1, <2>2, <2>3, <3>2
  <2>4. CASE ~user.passcode
    <3>1. "encrypted" \notin raw /\ "keys" \in raw /\ "params" \in raw
      BY <2>1, <2>4 DEF FirstRaw, InStorage
    <3>2. app' = [app EXCEPT !.at = "object", !.new = raw \cap {"params"}] /\ keychain' = TRUE
      BY <1>5, <3>1 DEF ReadLegacyStructure
    <3>3. app'.at = "object" /\ app'.new = {"params"}
      BY <3>1, <3>2
    <3> QED
      BY <2>1, <2>2, <2>4, <3>2, <3>3
  <2> QED
    BY <2>3, <2>4
<1>6. CASE EnterMigrationPasscode
  BY <1>6 DEF EnterMigrationPasscode
<1>7. CASE SetStorageStructure
  BY <1>7 DEF SetStorageStructure
<1>8. CASE InitializeFromDisk
  BY <1>8 DEF InitializeFromDisk
<1>9. CASE PassLaunchChallenge
  BY <1>9 DEF PassLaunchChallenge
<1>10. CASE MigrateRawStorage
  BY <1>10 DEF MigrateRawStorage
<1>11. CASE DeleteManagedKeys
  BY <1>11 DEF DeleteManagedKeys
<1>12. CASE DeleteMiscKeys
  BY <1>12 DEF DeleteMiscKeys
<1>13. CASE LoadDatabase
  BY <1>13 DEF LoadDatabase
<1>14. CASE LoadedDatabase
  BY <1>14 DEF LoadedDatabase
<1>15. CASE CompleteFullSync
  BY <1>15 DEF CompleteFullSync
<1>16. CASE MarkMigrationsAsDone
  BY <1>16 DEF MarkMigrationsAsDone
<1>17. CASE PersistValues
  BY <1>17 DEF PersistValues
<1>18. CASE CancelLaunchChallenge
  BY <1>18 DEF CancelLaunchChallenge
<1>19. CASE End
  <2>1. app'.at = "off" /\ UNCHANGED <<user, device>>
    BY <1>19 DEF End, Off
  <2>2. version = "current" \/ app.at \in BeforeDeletion
    BY <1>19 DEF End, Unfinished, LaunchStage
  <2> QED
    BY <2>1, <2>2
<1>20. CASE LoseKeychain
  BY <1>20 DEF LoseKeychain
<1>21. CASE UNCHANGED launchVars
  BY <1>21 DEF launchVars, FirstRaw
<1> QED
  BY <1>1, <1>2, <1>3, <1>4, <1>5, <1>6, <1>7, <1>8, <1>9, <1>10, <1>11, <1>12, <1>13, <1>14,
     <1>15, <1>16, <1>17, <1>18, <1>19, <1>20, <1>21 DEF LaunchNext, Prepare, GoOn

LEMMA LaunchInvHolds ==
  ASSUME "unfinishedMigration" \notin LaunchEnvironment
  PROVE  LaunchSpec => []LaunchInv
<1>1. LaunchInv /\ [LaunchNext]_launchVars => LaunchInv'
  BY LaunchNextTypes, LaunchNextAccount DEF LaunchInv
<1>2. LaunchInit => LaunchInv
  BY LaunchInvInit
<1> QED
  BY <1>1, <1>2, PTL DEF LaunchSpec

(* Every variable has its type, whatever ends a launch outside the gap; and *)
(* an account that is opened has its root key (prepareForLaunch, launch).   *)
THEOREM LaunchTypeCorrect ==
  ASSUME "unfinishedMigration" \notin LaunchEnvironment
  PROVE  LaunchSpec => []LaunchTypeOK
BY LaunchInvHolds, LaunchInvImplies, PTL

(* However often the application ends outside the gap, the account of a 1.x *)
(* installation is in the legacy values or in the managed storage           *)
(* (Migration2_0_0).                                                        *)
THEOREM LaunchKeepsAccount ==
  ASSUME "unfinishedMigration" \notin LaunchEnvironment
  PROVE  LaunchSpec => []AccountIsKept
BY LaunchInvHolds, LaunchInvImplies, PTL

-----------------------------------------------------------------------------
(* Credentials.                                                             *)

(* Before there is a new items key, while there is one, and when it is to   *)
(* be rolled back;  and the items keys that are not deleted.                *)
Secret     == {"request", "answered", "populating", "changed"}
NewDefault == {"upload", "uploading", "uploaded", "back", "backAnswered", "backPopulating", "undone"}
Undoing    == {"back", "backAnswered", "backPopulating", "undone"}
Kept       == keys.there \ keys.deleted

(* While a change waits for the server it keeps the lock; and a sync is     *)
(* under way when nothing changes the default items key, or the change      *)
(* waits for it.                                                            *)
StageInv ==
  /\ locked <=> change.at \in {"request", "answered", "populating"}
  /\ sync.at # "idle" => change.at \in {"idle", "uploading", "reuploading"}
  /\ change.at \in {"uploading", "reuploading"} => sync.at # "idle"
  /\ rewriting => change.at = "idle"

(* Which root key the client has, and which one the server.                 *)
RootInv ==
  /\ change.at \in {"request", "answered"} => root = change.old
  /\ change.at \in {"populating", "changed", "upload", "uploading", "uploaded", "back", "backAnswered"} =>
       root = change.new
  /\ change.ok => change.at \in {"answered", "backAnswered"}
  /\ ~mismatch /\ ~change.ok => server.root = root
  /\ ~mismatch /\ change.ok => server.root = IF change.at = "answered" THEN change.new ELSE change.old

(* The items key of a change is new until it is made, and then the default; *)
(* the key it goes back to stays.                                           *)
KeysInv ==
  /\ change.at # "idle" => change.new = changes
  /\ \A k \in keys.there \cup {server.note, disk.note} : k <= changes
  /\ change.at \in Secret =>
       change.oldDefault = default /\ change.new \notin keys.there \cup {server.note, disk.note}
  /\ change.at \in NewDefault => default = change.new /\ change.oldDefault \in Kept \ {change.new}
  /\ change.at \in {"upload", "reupload"} => Kept \subseteq keys.dirty

(* What a sync has sent is what the client has, and what the server took.   *)
SyncInv == sync.at # "idle" =>
  /\ sync.root = root /\ sync.frozen \cap keys.deleted = {}
  /\ sync.dropped \cup sync.removed \subseteq keys.deleted
  /\ sync.note # None => sync.note = default /\ edited
  /\ change.at = "uploading" => default \in sync.frozen
  /\ sync.at = "served" => /\ \A k \in sync.frozen : server.keys[k] = root
                           /\ sync.note # None => server.note = sync.note

(* An items key that is kept is still to be uploaded, or on the server      *)
(* under the root key; and the server has the note with a key that is kept. *)
ServerInv ==
  /\ change.at \notin {"populating", "changed", "backPopulating", "undone"} =>
       \A k \in Kept : k \in keys.dirty \/ server.keys[k] = root
  /\ server.note \in Kept \/ edited

(* The same of the disk, outside of the stages that rewrite the items keys. *)
DiskInv ==
  /\ change.at \notin {"populating", "backPopulating"} => disk.root = root
  /\ change.at \notin Between /\ ~rewriting => \A k \in Kept : disk.keys[k] = root
  /\ disk.note \in Kept \/ (change.at = "reupload" /\ edited)

(* A note that the new items key has encrypted, when that is rolled back,   *)
(* was edited and so will be encrypted once more.                           *)
UndoInv ==
  /\ change.at = "upload" => change.new \notin {server.note, disk.note}
  /\ change.at = "uploading" /\ change.new \in {server.note, disk.note} => sync.note = change.new
  /\ change.at \in Undoing \/ (change.at = "uploaded" /\ default \notin keys.synced) =>
       (change.new \in {server.note, disk.note} => edited)

CredentialsInv ==
  CredentialsTypeOK /\ StageInv /\ RootInv /\ KeysInv /\ SyncInv /\ ServerInv /\ DiskInv /\ UndoInv

-----------------------------------------------------------------------------
(* Every action keeps the invariant.                                        *)

LEMMA StartSyncKeeps ==
  ASSUME CredentialsInv, "overlappingSync" \notin Environment, StartSync
  PROVE  CredentialsInv'
<1> USE CredentialsAssumption DEF CredentialsInv, client, limits, None, Keys, RootKey, ItemsKey, Email
<1>a. /\ disk'.root = disk.root /\ disk'.note = IF edited THEN default ELSE disk.note
      /\ disk'.keys = [k \in ItemsKey |-> IF k \in keys.dirty THEN root ELSE disk.keys[k]]
  BY DEF StartSync, CredentialsTypeOK
<1>b. /\ change'.new = change.new /\ change'.old = change.old /\ change'.oldDefault = change.oldDefault
      /\ change'.ok = change.ok
      /\ change'.at = CASE change.at = "upload" -> "uploading" [] change.at = "reupload" -> "reuploading"
                        [] OTHER -> change.at
  BY DEF StartSync, CredentialsTypeOK
<1>c. change.at \in {"idle", "upload", "reupload"}
  BY DEF StartSync, Overlapping, StageInv, CredentialsTypeOK, Stage
<1>1. CredentialsTypeOK'
  BY DEF StartSync, CredentialsTypeOK, Stage
<1>2. StageInv'
  BY DEF StartSync, Overlapping, CredentialsTypeOK, Stage, StageInv
<1>3. RootInv'
  BY DEF StartSync, RootInv
<1>4. KeysInv'
  <2>1. UNCHANGED <<keys, default, changes, server>>
    BY DEF StartSync
  <2>2. disk'.note \in {disk.note, default}
    BY <1>a
  <2>3. default <= changes /\ default \in Kept
    BY DEF KeysInv, CredentialsTypeOK, Kept
  <2>4. disk'.note <= changes
    BY <2>2, <2>3 DEF KeysInv
  <2>5. change'.at \notin Secret /\ change'.at \notin {"upload", "reupload"}
    BY <1>b, <1>c DEF Secret
  <2>6. change'.at \in NewDefault => change.at = "upload" /\ change.at \in NewDefault
    BY <1>b, <1>c DEF NewDefault
  <2>7. change'.at # "idle" => change.at # "idle"
    BY <1>b, <1>c
  <2> QED
    BY <1>b, <2>1, <2>4, <2>5, <2>6, <2>7 DEF KeysInv, Kept
<1>5. SyncInv'
  <2>1. UNCHANGED <<keys, default, edited, root, server>>
    BY DEF StartSync
  <2>2. /\ sync'.at = "sent" /\ sync'.root = root /\ sync'.frozen = keys.dirty \ keys.deleted
        /\ sync'.dropped \cup sync'.removed \subseteq keys.deleted
        /\ sync'.note = IF edited THEN default ELSE None
    BY DEF StartSync
  <2>3. change'.at = "uploading" => change.at = "upload"
    BY <1>b, <1>c
  <2>4. change.at = "upload" => default \in keys.dirty \ keys.deleted
    BY DEF KeysInv, Kept, CredentialsTypeOK
  <2> QED
    BY <2>1, <2>2, <2>3, <2>4 DEF SyncInv
<1>6. ServerInv'
  BY DEF StartSync, ServerInv, Kept
<1>7. DiskInv'
  BY DEF StartSync, CredentialsTypeOK, DiskInv, KeysInv, Kept
<1>8. UndoInv'
  <2>1. change'.at \notin Undoing \cup {"upload", "uploaded"}
    BY <1>b, <1>c DEF Undoing
  <2>2. UNCHANGED server
    BY DEF StartSync
  <2>3. ASSUME change'.at = "uploading", change.new \in {server.note, disk'.note} PROVE sync'.note = change.new
    <3>1. change.at = "upload"
      BY <1>b, <1>c, <2>3
    <3>2. change.new \notin {server.note, disk.note} /\ default = change.new
      BY <3>1 DEF UndoInv, KeysInv, NewDefault
    <3>3. edited
      BY <2>3, <3>2, <1>a
    <3> QED
      BY <3>2, <3>3 DEF StartSync
  <2> QED
    BY <1>b, <2>1, <2>2, <2>3 DEF UndoInv
<1> QED
  BY <1>1, <1>2, <1>3, <1>4, <1>5, <1>6, <1>7, <1>8

LEMMA ServeSyncKeeps ==
  ASSUME CredentialsInv, "overlappingSync" \notin Environment, ServeSync
  PROVE  CredentialsInv'
<1> USE CredentialsAssumption DEF CredentialsInv, client, limits, None, Keys, RootKey, ItemsKey, Email
<1>1. CredentialsTypeOK'
  <2>1. server' \in [root : RootKey, email : Email, keys : [ItemsKey -> RootKey \cup {None}], note : ItemsKey]
    <3>1. [k \in ItemsKey |-> CASE k \in sync.removed -> None [] k \in sync.frozen -> sync.root
                               [] OTHER -> server.keys[k]] \in [ItemsKey -> RootKey \cup {None}]
      BY DEF CredentialsTypeOK
    <3>2. (IF sync.note = None THEN server.note ELSE sync.note) \in ItemsKey
      BY DEF CredentialsTypeOK
    <3> QED
      BY <3>1, <3>2 DEF ServeSync, CredentialsTypeOK
  <2>2. sync' \in [at : {"idle", "sent", "served", "lost"}, frozen : SUBSET ItemsKey, root : RootKey,
                   dropped : SUBSET ItemsKey, removed : SUBSET ItemsKey,
                   note : ItemsKey \cup {None}, touched : SUBSET ItemsKey, retyped : BOOLEAN]
    BY DEF ServeSync, CredentialsTypeOK
  <2> QED
    BY <2>1, <2>2 DEF ServeSync, CredentialsTypeOK
<1>2. StageInv'
  BY DEF ServeSync, StageInv
<1>3. RootInv'
  BY DEF ServeSync, RootInv
<1>4. KeysInv'
  <2>1. UNCHANGED <<keys, default, changes, disk, change>>
    BY DEF ServeSync
  <2>2. server'.note = IF sync.note = None THEN server.note ELSE sync.note
    BY DEF ServeSync, CredentialsTypeOK
  <2>3. server'.note \in {server.note, default} /\ default \in keys.there
    BY <2>2 DEF SyncInv, ServeSync, CredentialsTypeOK
  <2>4. server'.note <= changes
    BY <2>3 DEF KeysInv
  <2>5. change.at \notin Secret
    BY DEF StageInv, ServeSync, Secret
  <2> QED
    BY <2>1, <2>4, <2>5 DEF KeysInv, Kept
<1>5. SyncInv'
  BY DEF ServeSync, CredentialsTypeOK, SyncInv
<1>6. ServerInv'
  BY DEF ServeSync, CredentialsTypeOK, SyncInv, ServerInv, Kept
<1>7. DiskInv'
  BY DEF ServeSync, DiskInv, Kept
<1>8. UndoInv'
  BY DEF ServeSync, StageInv, UndoInv, SyncInv
<1> QED
  BY <1>1, <1>2, <1>3, <1>4, <1>5, <1>6, <1>7, <1>8

LEMMA LoseSyncKeeps ==
  ASSUME CredentialsInv, "overlappingSync" \notin Environment, LoseSync
  PROVE  CredentialsInv'
<1> USE CredentialsAssumption DEF CredentialsInv, client, limits, None, Keys, RootKey, ItemsKey, Email
<1>1. CredentialsTypeOK'
  <2>1. sync' \in [at : {"idle", "sent", "served", "lost"}, frozen : SUBSET ItemsKey, root : RootKey,
                   dropped : SUBSET ItemsKey, removed : SUBSET ItemsKey,
                   note : ItemsKey \cup {None}, touched : SUBSET ItemsKey, retyped : BOOLEAN]
    BY DEF LoseSync, CredentialsTypeOK
  <2>2. failures' \in 0 .. MaxFailures
    <3>1. failures \in 0 .. MaxFailures /\ MaxFailures \in Nat /\ MaxEdits \in Nat
      BY DEF CredentialsTypeOK, CredentialsAssumption
    <3>2. failures < MaxFailures /\ failures' = failures + 1
      BY DEF LoseSync
    <3> QED
      BY ONLY <3>1, <3>2
  <2> QED
    BY <2>1, <2>2 DEF LoseSync, CredentialsTypeOK
<1>2. StageInv'
  BY DEF LoseSync, StageInv
<1>3. RootInv'
  BY DEF LoseSync, RootInv
<1>4. KeysInv'
  BY DEF LoseSync, KeysInv, Kept
<1>5. SyncInv'
  BY DEF LoseSync, SyncInv
<1>6. ServerInv'
  BY DEF LoseSync, ServerInv, Kept
<1>7. DiskInv'
  BY DEF LoseSync, DiskInv, Kept
<1>8. UndoInv'
  BY DEF LoseSync, UndoInv
<1> QED
  BY <1>1, <1>2, <1>3, <1>4, <1>5, <1>6, <1>7, <1>8

LEMMA FinishSyncKeeps ==
  ASSUME CredentialsInv, "overlappingSync" \notin Environment, FinishSync
  PROVE  CredentialsInv'
<1> USE CredentialsAssumption DEF CredentialsInv, client, limits, None, Keys, RootKey, ItemsKey, Email
<1> DEFINE gone == sync.dropped \cup sync.removed
<1>a. /\ change'.new = change.new /\ change'.old = change.old /\ change'.oldDefault = change.oldDefault
      /\ change'.ok = change.ok /\ change'.at = SyncEnded(change.at) /\ sync' = NoSync
      /\ UNCHANGED <<server, root, default, locked, rewriting, mismatch, limits>>
  BY DEF FinishSync, CredentialsTypeOK
<1>b. ASSUME sync.at = "served"
      PROVE  /\ keys' = [there |-> keys.there \ gone, deleted |-> keys.deleted \ gone,
                         dirty |-> keys.dirty \ ((sync.frozen \ sync.touched) \cup gone),
                         synced |-> (keys.synced \cup sync.frozen) \ gone]
             /\ edited' = (edited /\ (sync.note = None \/ sync.retyped))
             /\ disk'.root = disk.root /\ disk'.note = IF sync.note = None THEN disk.note ELSE default
             /\ disk'.keys = [k \in ItemsKey |-> IF k \in gone THEN None
                                                  ELSE IF k \in sync.frozen THEN root ELSE disk.keys[k]]
             /\ disk' \in [root : RootKey, keys : [ItemsKey -> RootKey \cup {None}], note : ItemsKey]
  <2>1. disk' = [disk EXCEPT !.keys = [k \in ItemsKey |-> CASE k \in gone -> None
                                                         [] k \in sync.frozen \ gone -> root
                                                         [] OTHER -> disk.keys[k]],
                             !.note = IF sync.note = None THEN disk.note ELSE default]
    BY <1>b DEF FinishSync, Uploaded
  <2>2. disk'.root = disk.root /\ disk'.note = IF sync.note = None THEN disk.note ELSE default
    BY <2>1 DEF CredentialsTypeOK
  <2>3. disk'.keys = [k \in ItemsKey |-> IF k \in gone THEN None
                                          ELSE IF k \in sync.frozen THEN root ELSE disk.keys[k]]
    BY <2>1 DEF CredentialsTypeOK
  <2>4. [k \in ItemsKey |-> CASE k \in gone -> None [] k \in sync.frozen \ gone -> root
                             [] OTHER -> disk.keys[k]] \in [ItemsKey -> RootKey \cup {None}]
    BY DEF CredentialsTypeOK
  <2>5. disk' \in [root : RootKey, keys : [ItemsKey -> RootKey \cup {None}], note : ItemsKey]
    BY <2>1, <2>4 DEF CredentialsTypeOK
  <2> QED
    BY <1>b, <2>2, <2>3, <2>5 DEF FinishSync, Uploaded
<1>c. ASSUME sync.at # "served" PROVE UNCHANGED <<keys, edited, disk>>
  BY <1>c DEF FinishSync, Uploaded
<1>d. change.at \in {"idle", "uploading", "reuploading"}
  BY DEF FinishSync, StageInv
<1>e. change'.at = (IF change.at = "uploading" THEN "uploaded" ELSE "idle")
  BY <1>a, <1>d DEF SyncEnded
<1>f. gone \subseteq keys.deleted /\ gone \cap Kept = {}
  BY DEF SyncInv, FinishSync, Kept
<1>g. Kept' = Kept
  BY <1>b, <1>c, <1>f DEF Kept
<1>h. default \in Kept /\ default \in ItemsKey
  BY DEF CredentialsTypeOK, Kept
<1>i. disk'.note \in {disk.note, default}
  BY <1>b, <1>c
<1>1. CredentialsTypeOK'
  <2>1. sync' \in [at : {"idle", "sent", "served", "lost"}, frozen : SUBSET ItemsKey, root : RootKey,
                   dropped : SUBSET ItemsKey, removed : SUBSET ItemsKey,
                   note : ItemsKey \cup {None}, touched : SUBSET ItemsKey, retyped : BOOLEAN]
    BY <1>a DEF NoSync
  <2>2. disk' \in [root : RootKey, keys : [ItemsKey -> RootKey \cup {None}], note : ItemsKey]
    BY <1>b, <1>c DEF CredentialsTypeOK
  <2>3. edited' \in BOOLEAN
    BY <1>b, <1>c DEF CredentialsTypeOK
  <2>4. change' \in [at : Stage, new : RootKey, old : RootKey, oldDefault : ItemsKey,
                     ok : BOOLEAN, result : {"none", "ok", "failed"}]
    <3>1. SyncEnded(change.at) \in Stage
      BY <1>d DEF SyncEnded, Stage
    <3>2. (IF change.at = "reuploading" THEN "failed" ELSE change.result) \in {"none", "ok", "failed"}
      BY DEF CredentialsTypeOK
    <3>3. change' = [change EXCEPT !.at = SyncEnded(change.at),
                                   !.result = IF change.at = "reuploading" THEN "failed" ELSE change.result]
      BY DEF FinishSync
    <3> QED
      BY <3>1, <3>2, <3>3 DEF CredentialsTypeOK
  <2>5. UNCHANGED <<server, root, email, emailOf, default, locked, rewriting, mismatch, changes, edits, failures>>
    BY DEF FinishSync
  <2>6. keys' \in Keys
    <3>1. keys \in Keys /\ sync.frozen \subseteq ItemsKey
      BY DEF CredentialsTypeOK
    <3>2. CASE sync.at = "served"
      BY <1>b, <3>1, <3>2
    <3> QED
      BY <1>c, <3>1, <3>2
  <2>7. default \in keys'.there /\ default \notin keys'.deleted
    BY <1>g, <1>h DEF Kept
  <2>8. keys'.dirty \cup keys'.deleted \subseteq keys'.there
    <3>1. keys.dirty \cup keys.deleted \subseteq keys.there
      BY DEF CredentialsTypeOK
    <3>2. CASE sync.at = "served"
      <4>1. /\ keys'.dirty \subseteq keys.dirty \ gone /\ keys'.deleted = keys.deleted \ gone
            /\ keys'.there = keys.there \ gone
        BY <1>b, <3>2
      <4> QED
        BY <3>1, <4>1
    <3> QED
      BY <1>c, <3>1, <3>2
  <2> HIDE DEF Keys
  <2> QED
    BY <2>1, <2>2, <2>3, <2>4, <2>5, <2>6, <2>7, <2>8 DEF CredentialsTypeOK
<1>2. StageInv'
  BY DEF FinishSync, NoSync, SyncEnded, StageInv
<1>3. RootInv'
  BY DEF FinishSync, SyncEnded, RootInv
<1>4. KeysInv'
  <2>1. \A k \in (keys.there \cup {server.note, disk.note})' : k <= changes'
    <3>1. keys'.there \subseteq keys.there
      BY <1>b, <1>c
    <3>2. default <= changes
      BY <1>h DEF KeysInv, Kept
    <3> QED
      BY <1>a, <1>i, <3>1, <3>2 DEF KeysInv
  <2>2. change'.at \notin Secret /\ change'.at \notin {"upload", "reupload"}
    BY <1>e DEF Secret
  <2>3. change'.at # "idle" => change.at = "uploading"
    BY <1>e
  <2>4. change.at = "uploading" => change.at \in NewDefault /\ change.at # "idle"
    BY DEF NewDefault
  <2>5. "idle" \notin NewDefault
    BY DEF NewDefault
  <2> QED
    BY <1>a, <1>g, <2>1, <2>2, <2>3, <2>4, <2>5 DEF KeysInv
<1>5. SyncInv'
  BY DEF FinishSync, NoSync, SyncInv
<1>6. ServerInv'
  <2>1. change.at \notin {"populating", "changed", "backPopulating", "undone"}
    BY <1>d
  <2>2. ASSUME NEW k \in Kept, k \in keys.dirty, k \notin keys'.dirty PROVE server.keys[k] = root
    <3>1. sync.at = "served"
      BY <1>c, <2>2
    <3>2. k \in sync.frozen
      BY <1>b, <1>f, <2>2, <3>1
    <3> QED
      BY <3>1, <3>2 DEF SyncInv
  <2>3. \A k \in Kept' : k \in keys'.dirty \/ server'.keys[k] = root'
    BY <1>a, <1>g, <2>1, <2>2 DEF ServerInv
  <2>4. ASSUME server.note \notin Kept PROVE edited'
    <3>1. edited
      BY <2>4 DEF ServerInv
    <3>2. sync.at = "served" => sync.note = None
      BY <1>h, <2>4 DEF SyncInv
    <3> QED
      BY <1>b, <1>c, <3>1, <3>2 DEF FinishSync
  <2> QED
    BY <1>a, <1>g, <2>3, <2>4 DEF ServerInv
<1>7. DiskInv'
  <2>1. change.at \notin Between /\ change.at \notin {"reupload", "populating", "backPopulating"}
    BY <1>d DEF Between
  <2>2. disk'.root = disk.root
    BY <1>b, <1>c
  <2>3. ASSUME ~rewriting, NEW k \in Kept PROVE disk'.keys[k] = root
    <3>1. disk.keys[k] = root /\ k \in ItemsKey /\ k \notin gone
      BY <1>f, <2>1, <2>3 DEF DiskInv, Kept, CredentialsTypeOK
    <3> QED
      BY <1>b, <1>c, <3>1
  <2>4. disk'.note \in Kept
    BY <1>h, <1>i, <2>1 DEF DiskInv
  <2> QED
    BY <1>a, <1>g, <2>1, <2>2, <2>3, <2>4 DEF DiskInv
<1>8. UndoInv'
  <2>1. change'.at \notin Undoing \cup {"upload", "uploading"}
    BY <1>e DEF Undoing
  <2>2. ASSUME change'.at = "uploaded", default \notin keys'.synced, change.new \in {server.note, disk'.note}
        PROVE  edited'
    <3>1. change.at = "uploading" /\ default \in sync.frozen
      BY <1>e, <2>2 DEF SyncInv, FinishSync
    <3>2. sync.at # "served"
      BY <1>b, <1>f, <1>h, <2>2, <3>1
    <3>3. sync.note = change.new
      BY <1>c, <2>2, <3>1, <3>2 DEF UndoInv
    <3>4. sync.note # None
      BY <3>3 DEF CredentialsTypeOK
    <3>5. edited
      BY <3>4 DEF SyncInv, FinishSync
    <3> QED
      BY <1>c, <3>2, <3>5
  <2> QED
    BY <1>a, <2>1, <2>2 DEF UndoInv
<1> QED
  BY <1>1, <1>2, <1>3, <1>4, <1>5, <1>6, <1>7, <1>8

LEMMA BeginKeeps ==
  ASSUME CredentialsInv, "overlappingSync" \notin Environment, Begin
  PROVE  CredentialsInv'
<1> USE CredentialsAssumption DEF CredentialsInv, client, limits, None, Keys, RootKey, ItemsKey, Email
<1>1. CredentialsTypeOK'
  <2>1. changes + 1 \in 0 .. MaxChanges
    BY DEF Begin, CredentialsTypeOK
  <2>2. emailOf' \in [RootKey -> Email]
    <3>1. PICK address \in {email, changes + 1} : emailOf' = [emailOf EXCEPT ![changes + 1] = address]
      BY DEF Begin
    <3> QED
      BY <2>1, <3>1 DEF CredentialsTypeOK
  <2>3. change' \in [at : Stage, new : RootKey, old : RootKey, oldDefault : ItemsKey,
                     ok : BOOLEAN, result : {"none", "ok", "failed"}]
    BY <2>1 DEF Begin, CredentialsTypeOK, Stage
  <2> QED
    BY <2>1, <2>2, <2>3 DEF Begin, CredentialsTypeOK
<1>2. StageInv'
  BY DEF Begin, StageInv
<1>3. RootInv'
  BY DEF Begin, RootInv
<1>4. KeysInv'
  <2>1. changes \in Nat /\ changes' = changes + 1
    BY DEF Begin, CredentialsTypeOK
  <2>2. /\ change'.at = "request" /\ change'.new = changes + 1 /\ change'.oldDefault = default
        /\ UNCHANGED <<keys, default, server, disk>>
    BY DEF Begin
  <2>3. \A k \in keys.there \cup {server.note, disk.note} : k \in Nat /\ k <= changes
    <3>1. keys.there \cup {server.note, disk.note} \subseteq ItemsKey
      BY DEF CredentialsTypeOK
    <3>2. \A k \in ItemsKey : k \in Nat
      OBVIOUS
    <3> QED
      BY <3>1, <3>2 DEF KeysInv
  <2> QED
    BY <2>1, <2>2, <2>3 DEF KeysInv, NewDefault
<1>5. SyncInv'
  BY DEF Begin, SyncInv
<1>6. ServerInv'
  BY DEF Begin, ServerInv, Kept
<1>7. DiskInv'
  BY DEF Begin, DiskInv, Kept, Between
<1>8. UndoInv'
  BY DEF Begin, CredentialsTypeOK, UndoInv, KeysInv
<1> QED
  BY <1>1, <1>2, <1>3, <1>4, <1>5, <1>6, <1>7, <1>8

LEMMA ServeChangeKeeps ==
  ASSUME CredentialsInv, "overlappingSync" \notin Environment, ServeChange
  PROVE  CredentialsInv'
<1> USE CredentialsAssumption DEF CredentialsInv, client, limits, None, Keys, RootKey, ItemsKey, Email
<1>1. CredentialsTypeOK'
  BY DEF ServeChange, CredentialsTypeOK, Stage
<1>2. StageInv'
  BY DEF ServeChange, StageInv
<1>3. RootInv'
  BY DEF ServeChange, CredentialsTypeOK, RootInv
<1>4. KeysInv'
  BY DEF ServeChange, KeysInv, Secret, NewDefault
<1>5. SyncInv'
  BY DEF ServeChange, SyncInv
<1>6. ServerInv'
  BY DEF ServeChange, ServerInv, Kept
<1>7. DiskInv'
  BY DEF ServeChange, DiskInv, Kept, Between
<1>8. UndoInv'
  BY DEF ServeChange, UndoInv, KeysInv, Secret
<1> QED
  BY <1>1, <1>2, <1>3, <1>4, <1>5, <1>6, <1>7, <1>8

LEMMA LoseChangeKeeps ==
  ASSUME CredentialsInv, "overlappingSync" \notin Environment, LoseChange
  PROVE  CredentialsInv'
<1> USE CredentialsAssumption DEF CredentialsInv, client, limits, None, Keys, RootKey, ItemsKey, Email
<1>1. CredentialsTypeOK'
  <2>1. change' \in [at : Stage, new : RootKey, old : RootKey, oldDefault : ItemsKey,
                     ok : BOOLEAN, result : {"none", "ok", "failed"}]
    BY DEF LoseChange, CredentialsTypeOK, Stage
  <2>2. mismatch' \in BOOLEAN
    BY DEF LoseChange, CredentialsTypeOK
  <2>3. failures' \in 0 .. MaxFailures
    <3>1. failures \in 0 .. MaxFailures /\ MaxFailures \in Nat /\ MaxEdits \in Nat
      BY DEF CredentialsTypeOK, CredentialsAssumption
    <3>2. failures < MaxFailures /\ failures' = failures + 1
      BY DEF LoseChange
    <3> QED
      BY ONLY <3>1, <3>2
  <2> QED
    BY <2>1, <2>2, <2>3 DEF LoseChange, CredentialsTypeOK
<1>2. StageInv'
  BY DEF LoseChange, StageInv
<1>3. RootInv'
  BY DEF LoseChange, CredentialsTypeOK, RootInv
<1>4. KeysInv'
  BY DEF LoseChange, KeysInv, Secret, NewDefault, Kept
<1>5. SyncInv'
  BY DEF LoseChange, SyncInv
<1>6. ServerInv'
  BY DEF LoseChange, ServerInv, Kept
<1>7. DiskInv'
  BY DEF LoseChange, DiskInv, Kept, Between
<1>8. UndoInv'
  BY DEF LoseChange, UndoInv, Undoing
<1> QED
  BY <1>1, <1>2, <1>3, <1>4, <1>5, <1>6, <1>7, <1>8

LEMMA GetChangeAnswerKeeps ==
  ASSUME CredentialsInv, "overlappingSync" \notin Environment, GetChangeAnswer
  PROVE  CredentialsInv'
<1> USE CredentialsAssumption DEF CredentialsInv, client, limits, None, Keys, RootKey, ItemsKey, Email
<1>a. /\ change.at = "answered"
      /\ UNCHANGED <<server, disk, email, emailOf, keys, default, edited, sync, rewriting, mismatch,
                     changes, edits, failures>>
  BY DEF GetChangeAnswer
<1>b. ASSUME change.ok PROVE /\ root' = change.new /\ locked' = locked
                             /\ change' = [change EXCEPT !.at = "populating", !.ok = FALSE]
  BY <1>b DEF GetChangeAnswer
<1>c. ASSUME ~change.ok PROVE /\ root' = root /\ locked' = FALSE
                              /\ change' = [change EXCEPT !.at = "idle", !.result = "failed"]
  BY <1>c DEF GetChangeAnswer
<1>d. ASSUME change.ok PROVE root' = change.new /\ change'.at = "populating" /\ change'.ok = FALSE
  BY <1>b, <1>d DEF CredentialsTypeOK
<1>e. ASSUME ~change.ok PROVE root' = root /\ change'.at = "idle" /\ ~change'.ok
  BY <1>c, <1>e DEF CredentialsTypeOK
<1>f. change \in [at : Stage, new : RootKey, old : RootKey, oldDefault : ItemsKey,
                   ok : BOOLEAN, result : {"none", "ok", "failed"}]
  BY DEF CredentialsTypeOK
<1>g. change'.new = change.new /\ change'.old = change.old /\ change'.oldDefault = change.oldDefault
  <2>1. CASE change.ok
    BY <1>b, <1>f, <2>1
  <2>2. CASE ~change.ok
    BY <1>c, <1>f, <2>2
  <2> QED
    BY <2>1, <2>2
<1>h. sync.at = "idle"
  BY <1>a DEF StageInv, CredentialsTypeOK
<1>1. CredentialsTypeOK'
  <2>1. change' \in [at : Stage, new : RootKey, old : RootKey, oldDefault : ItemsKey,
                     ok : BOOLEAN, result : {"none", "ok", "failed"}]
    <3>1. CASE change.ok
      BY <1>b, <1>f, <3>1 DEF Stage
    <3>2. CASE ~change.ok
      BY <1>c, <1>f, <3>2 DEF Stage
    <3> QED
      BY <3>1, <3>2
  <2>2. root' \in RootKey /\ locked' \in BOOLEAN
    BY <1>b, <1>c DEF CredentialsTypeOK
  <2> QED
    BY <1>a, <2>1, <2>2 DEF CredentialsTypeOK
<1>2. StageInv'
  <2>1. CASE change.ok
    BY <1>a, <1>d, <1>h, <2>1, <1>b DEF StageInv
  <2>2. CASE ~change.ok
    BY <1>a, <1>e, <1>h, <2>2, <1>c DEF StageInv
  <2> QED
    BY <2>1, <2>2
<1>3. RootInv'
  <2>1. CASE change.ok
    BY <1>a, <1>d, <1>g, <2>1 DEF RootInv
  <2>2. CASE ~change.ok
    BY <1>a, <1>e, <1>g, <2>2 DEF RootInv
  <2> QED
    BY <2>1, <2>2
<1>4. KeysInv'
  <2>1. CASE change.ok
    BY <1>a, <1>d, <1>g, <2>1 DEF KeysInv, Secret, NewDefault
  <2>2. CASE ~change.ok
    BY <1>a, <1>e, <1>g, <2>2 DEF KeysInv, Secret, NewDefault
  <2> QED
    BY <2>1, <2>2
<1>5. SyncInv'
  BY DEF GetChangeAnswer, StageInv, SyncInv
<1>6. ServerInv'
  <2>1. CASE change.ok
    BY <1>a, <1>d, <1>g, <2>1 DEF ServerInv, Kept
  <2>2. CASE ~change.ok
    BY <1>a, <1>e, <1>g, <2>2 DEF ServerInv, Kept
  <2> QED
    BY <2>1, <2>2
<1>7. DiskInv'
  <2>1. CASE change.ok
    BY <1>a, <1>d, <1>g, <2>1 DEF DiskInv, Kept, Between
  <2>2. CASE ~change.ok
    BY <1>a, <1>e, <1>g, <2>2 DEF DiskInv, Kept, Between
  <2> QED
    BY <2>1, <2>2
<1>8. UndoInv'
  <2>1. CASE change.ok
    BY <1>a, <1>d, <1>g, <2>1 DEF UndoInv, Undoing
  <2>2. CASE ~change.ok
    BY <1>a, <1>e, <1>g, <2>2 DEF UndoInv, Undoing
  <2> QED
    BY <2>1, <2>2
<1> QED
  BY <1>1, <1>2, <1>3, <1>4, <1>5, <1>6, <1>7, <1>8

LEMMA SaveRootKeyKeeps ==
  ASSUME CredentialsInv, "overlappingSync" \notin Environment, SaveRootKey
  PROVE  CredentialsInv'
<1> USE CredentialsAssumption DEF CredentialsInv, client, limits, None, Keys, RootKey, ItemsKey, Email
<1>1. CredentialsTypeOK'
  BY DEF SaveRootKey, CredentialsTypeOK, Stage
<1>2. StageInv'
  BY DEF SaveRootKey, StageInv
<1>3. RootInv'
  BY DEF SaveRootKey, RootInv
<1>4. KeysInv'
  BY DEF SaveRootKey, KeysInv, Secret, NewDefault
<1>5. SyncInv'
  BY DEF SaveRootKey, SyncInv
<1>6. ServerInv'
  BY DEF SaveRootKey, ServerInv, Kept
<1>7. DiskInv'
  BY DEF SaveRootKey, DiskInv, Kept, Between
<1>8. UndoInv'
  BY DEF SaveRootKey, UndoInv, KeysInv, Secret
<1> QED
  BY <1>1, <1>2, <1>3, <1>4, <1>5, <1>6, <1>7, <1>8

LEMMA CreateItemsKeyAndReencryptKeeps ==
  ASSUME CredentialsInv, "overlappingSync" \notin Environment, CreateItemsKeyAndReencrypt
  PROVE  CredentialsInv'
<1> USE CredentialsAssumption DEF CredentialsInv, client, limits, None, Keys, RootKey, ItemsKey, Email
<1>1. CredentialsTypeOK'
  BY DEF CreateItemsKeyAndReencrypt, CredentialsTypeOK, Stage, KeysInv, Secret
<1>2. StageInv'
  BY DEF CreateItemsKeyAndReencrypt, StageInv
<1>3. RootInv'
  BY DEF CreateItemsKeyAndReencrypt, RootInv
<1>4. KeysInv'
  BY DEF CreateItemsKeyAndReencrypt, CredentialsTypeOK, KeysInv, Secret, Kept
<1>5. SyncInv'
  BY DEF CreateItemsKeyAndReencrypt, StageInv, SyncInv
<1>6. ServerInv'
  BY DEF CreateItemsKeyAndReencrypt, ServerInv, Kept
<1>7. DiskInv'
  BY DEF CreateItemsKeyAndReencrypt, DiskInv, Kept, Between
<1>8. UndoInv'
  BY DEF CreateItemsKeyAndReencrypt, UndoInv, KeysInv, Secret
<1> QED
  BY <1>1, <1>2, <1>3, <1>4, <1>5, <1>6, <1>7, <1>8

LEMMA DecideKeeps ==
  ASSUME CredentialsInv, "overlappingSync" \notin Environment, Decide
  PROVE  CredentialsInv'
<1> USE CredentialsAssumption DEF CredentialsInv, client, limits, None, Keys, RootKey, ItemsKey, Email
<1>1. CredentialsTypeOK'
  BY DEF Decide, CredentialsTypeOK, Stage
<1>2. StageInv'
  BY DEF Decide, StageInv
<1>3. RootInv'
  BY DEF Decide, RootInv
<1>4. KeysInv'
  BY DEF Decide, KeysInv, Secret, NewDefault, Kept
<1>5. SyncInv'
  BY DEF Decide, SyncInv
<1>6. ServerInv'
  BY DEF Decide, ServerInv, Kept
<1>7. DiskInv'
  BY DEF Decide, DiskInv, Kept, Between
<1>8. UndoInv'
  BY DEF Decide, UndoInv, Undoing
<1> QED
  BY <1>1, <1>2, <1>3, <1>4, <1>5, <1>6, <1>7, <1>8

LEMMA ServeBackKeeps ==
  ASSUME CredentialsInv, "overlappingSync" \notin Environment, ServeBack
  PROVE  CredentialsInv'
<1> USE CredentialsAssumption DEF CredentialsInv, client, limits, None, Keys, RootKey, ItemsKey, Email
<1>1. CredentialsTypeOK'
  BY DEF ServeBack, CredentialsTypeOK, Stage
<1>2. StageInv'
  BY DEF ServeBack, StageInv
<1>3. RootInv'
  BY DEF ServeBack, CredentialsTypeOK, RootInv
<1>4. KeysInv'
  BY DEF ServeBack, KeysInv, Secret, NewDefault, Kept
<1>5. SyncInv'
  BY DEF ServeBack, SyncInv
<1>6. ServerInv'
  BY DEF ServeBack, ServerInv, Kept
<1>7. DiskInv'
  BY DEF ServeBack, DiskInv, Kept, Between
<1>8. UndoInv'
  BY DEF ServeBack, UndoInv, Undoing
<1> QED
  BY <1>1, <1>2, <1>3, <1>4, <1>5, <1>6, <1>7, <1>8

LEMMA GetBackAnswerKeeps ==
  ASSUME CredentialsInv, "overlappingSync" \notin Environment, GetBackAnswer
  PROVE  CredentialsInv'
<1> USE CredentialsAssumption DEF CredentialsInv, client, limits, None, Keys, RootKey, ItemsKey, Email
<1>1. CredentialsTypeOK'
  BY DEF GetBackAnswer, CredentialsTypeOK, Stage
<1>2. StageInv'
  BY DEF GetBackAnswer, StageInv
<1>3. RootInv'
  BY DEF GetBackAnswer, RootInv
<1>4. KeysInv'
  BY DEF GetBackAnswer, KeysInv, Secret, NewDefault, Kept
<1>5. SyncInv'
  BY DEF GetBackAnswer, StageInv, SyncInv
<1>6. ServerInv'
  BY DEF GetBackAnswer, ServerInv, Kept
<1>7. DiskInv'
  BY DEF GetBackAnswer, DiskInv, Kept, Between
<1>8. UndoInv'
  BY DEF GetBackAnswer, UndoInv, Undoing
<1> QED
  BY <1>1, <1>2, <1>3, <1>4, <1>5, <1>6, <1>7, <1>8

LEMMA SaveFormerRootKeyKeeps ==
  ASSUME CredentialsInv, "overlappingSync" \notin Environment, SaveFormerRootKey
  PROVE  CredentialsInv'
<1> USE CredentialsAssumption DEF CredentialsInv, client, limits, None, Keys, RootKey, ItemsKey, Email
<1>1. CredentialsTypeOK'
  BY DEF SaveFormerRootKey, CredentialsTypeOK, Stage
<1>2. StageInv'
  BY DEF SaveFormerRootKey, StageInv
<1>3. RootInv'
  BY DEF SaveFormerRootKey, RootInv
<1>4. KeysInv'
  BY DEF SaveFormerRootKey, KeysInv, Secret, NewDefault, Kept
<1>5. SyncInv'
  BY DEF SaveFormerRootKey, SyncInv
<1>6. ServerInv'
  BY DEF SaveFormerRootKey, ServerInv, Kept
<1>7. DiskInv'
  BY DEF SaveFormerRootKey, DiskInv, Kept, Between
<1>8. UndoInv'
  BY DEF SaveFormerRootKey, UndoInv, Undoing
<1> QED
  BY <1>1, <1>2, <1>3, <1>4, <1>5, <1>6, <1>7, <1>8

LEMMA UndoItemsKeyKeeps ==
  ASSUME CredentialsInv, "overlappingSync" \notin Environment, UndoItemsKey
  PROVE  CredentialsInv'
<1> USE CredentialsAssumption DEF CredentialsInv, client, limits, None, Keys, RootKey, ItemsKey, Email
<1>1. CredentialsTypeOK'
  BY DEF UndoItemsKey, CredentialsTypeOK, Stage, KeysInv, NewDefault, Kept
<1>2. StageInv'
  BY DEF UndoItemsKey, StageInv
<1>3. RootInv'
  BY DEF UndoItemsKey, RootInv
<1>4. KeysInv'
  BY DEF UndoItemsKey, KeysInv, Secret, NewDefault, Kept
<1>5. SyncInv'
  BY DEF UndoItemsKey, StageInv, SyncInv
<1>6. ServerInv'
  BY DEF UndoItemsKey, KeysInv, ServerInv, Kept, NewDefault, UndoInv, Undoing
<1>7. DiskInv'
  BY DEF UndoItemsKey, DiskInv, KeysInv, Kept, NewDefault, Between, UndoInv, Undoing
<1>8. UndoInv'
  BY DEF UndoItemsKey, UndoInv, Undoing
<1> QED
  BY <1>1, <1>2, <1>3, <1>4, <1>5, <1>6, <1>7, <1>8

LEMMA DeleteItemsKeysKeeps ==
  ASSUME CredentialsInv, "overlappingSync" \notin Environment, DeleteItemsKeys
  PROVE  CredentialsInv'
<1> USE CredentialsAssumption DEF CredentialsInv, client, limits, None, Keys, RootKey, ItemsKey, Email
<1>1. CredentialsTypeOK'
  BY DEF DeleteItemsKeys, CredentialsTypeOK
<1>2. StageInv'
  BY DEF DeleteItemsKeys, StageInv
<1>3. RootInv'
  BY DEF DeleteItemsKeys, RootInv
<1>4. KeysInv'
  BY DEF DeleteItemsKeys, KeysInv, Kept
<1>5. SyncInv'
  BY DEF DeleteItemsKeys, SyncInv
<1>6. ServerInv'
  BY DEF DeleteItemsKeys, ServerInv, Kept
<1>7. DiskInv'
  BY DEF DeleteItemsKeys, DiskInv, Kept
<1>8. UndoInv'
  BY DEF DeleteItemsKeys, UndoInv
<1> QED
  BY <1>1, <1>2, <1>3, <1>4, <1>5, <1>6, <1>7, <1>8

LEMMA RewriteItemsKeysKeeps ==
  ASSUME CredentialsInv, "overlappingSync" \notin Environment, RewriteItemsKeys
  PROVE  CredentialsInv'
<1> USE CredentialsAssumption DEF CredentialsInv, client, limits, None, Keys, RootKey, ItemsKey, Email
<1>1. CredentialsTypeOK'
  <2>1. [k \in ItemsKey |-> IF k \in keys.there \ keys.deleted THEN root ELSE disk.keys[k]]
          \in [ItemsKey -> RootKey \cup {None}]
    BY DEF CredentialsTypeOK
  <2>2. disk' \in [root : RootKey, keys : [ItemsKey -> RootKey \cup {None}], note : ItemsKey]
    BY <2>1 DEF RewriteItemsKeys, CredentialsTypeOK
  <2> QED
    BY <2>2 DEF RewriteItemsKeys, CredentialsTypeOK
<1>2. StageInv'
  BY DEF RewriteItemsKeys, StageInv
<1>3. RootInv'
  BY DEF RewriteItemsKeys, RootInv
<1>4. KeysInv'
  BY DEF RewriteItemsKeys, KeysInv, Kept
<1>5. SyncInv'
  BY DEF RewriteItemsKeys, SyncInv
<1>6. ServerInv'
  BY DEF RewriteItemsKeys, ServerInv, Kept
<1>7. DiskInv'
  BY DEF RewriteItemsKeys, CredentialsTypeOK, DiskInv, Kept
<1>8. UndoInv'
  BY DEF RewriteItemsKeys, UndoInv
<1> QED
  BY <1>1, <1>2, <1>3, <1>4, <1>5, <1>6, <1>7, <1>8

LEMMA EditKeeps ==
  ASSUME CredentialsInv, "overlappingSync" \notin Environment, Edit
  PROVE  CredentialsInv'
<1> USE CredentialsAssumption DEF CredentialsInv, client, limits, None, Keys, RootKey, ItemsKey, Email
<1>1. CredentialsTypeOK'
  <2>1. sync' \in [at : {"idle", "sent", "served", "lost"}, frozen : SUBSET ItemsKey, root : RootKey,
                   dropped : SUBSET ItemsKey, removed : SUBSET ItemsKey,
                   note : ItemsKey \cup {None}, touched : SUBSET ItemsKey, retyped : BOOLEAN]
    BY DEF Edit, CredentialsTypeOK
  <2>2. edits' \in 0 .. MaxEdits
    <3>1. edits \in 0 .. MaxEdits /\ MaxFailures \in Nat /\ MaxEdits \in Nat
      BY DEF CredentialsTypeOK, CredentialsAssumption
    <3>2. edits < MaxEdits /\ edits' = edits + 1
      BY DEF Edit
    <3> QED
      BY ONLY <3>1, <3>2
  <2> QED
    BY <2>1, <2>2 DEF Edit, CredentialsTypeOK
<1>2. StageInv'
  BY DEF Edit, StageInv
<1>3. RootInv'
  BY DEF Edit, RootInv
<1>4. KeysInv'
  BY DEF Edit, KeysInv, Kept
<1>5. SyncInv'
  BY DEF Edit, SyncInv
<1>6. ServerInv'
  BY DEF Edit, ServerInv, Kept
<1>7. DiskInv'
  BY DEF Edit, DiskInv, Kept
<1>8. UndoInv'
  BY DEF Edit, UndoInv
<1> QED
  BY <1>1, <1>2, <1>3, <1>4, <1>5, <1>6, <1>7, <1>8

LEMMA CredentialsInvInit == CredentialsInit => CredentialsInv
<1> SUFFICES ASSUME CredentialsInit PROVE CredentialsInv
  OBVIOUS
<1> USE CredentialsAssumption DEF CredentialsInit, RootKey, ItemsKey, Email, None
<1>1. CredentialsTypeOK
  <2>1. 0 \in 0 .. MaxChanges /\ 0 \in 0 .. MaxEdits /\ 0 \in 0 .. MaxFailures
    BY DEF CredentialsAssumption
  <2>2. Only(0) \in [ItemsKey -> RootKey \cup {None}]
    BY <2>1 DEF Only
  <2>3. NoSync \in [at : {"idle", "sent", "served", "lost"}, frozen : SUBSET ItemsKey, root : RootKey,
                    dropped : SUBSET ItemsKey, removed : SUBSET ItemsKey,
                    note : ItemsKey \cup {None}, touched : SUBSET ItemsKey, retyped : BOOLEAN]
    BY <2>1 DEF NoSync
  <2>4. keys \in Keys
    BY <2>1 DEF Keys
  <2>5. [r \in RootKey |-> 0] \in [RootKey -> Email]
    BY <2>1
  <2> QED
    BY <2>1, <2>2, <2>3, <2>4, <2>5 DEF CredentialsTypeOK, Stage
<1>2. Only(0)[0] = 0
  BY DEF Only, CredentialsAssumption
<1> QED
  BY <1>1, <1>2 DEF CredentialsInv, StageInv, RootInv, KeysInv, SyncInv, ServerInv, DiskInv, UndoInv, NoSync,
                    Kept, NewDefault, Secret, Undoing, Between

LEMMA CredentialsInvNext ==
  ASSUME "overlappingSync" \notin Environment
  PROVE  CredentialsInv /\ [CredentialsNext]_credentialsVars => CredentialsInv'
<1> SUFFICES ASSUME CredentialsInv, [CredentialsNext]_credentialsVars PROVE CredentialsInv'
  OBVIOUS
<1>1. CASE Syncing
  BY <1>1, StartSyncKeeps, ServeSyncKeeps, FinishSyncKeeps DEF Syncing
<1>2. CASE Going
  BY <1>2, ServeChangeKeeps, GetChangeAnswerKeeps, SaveRootKeyKeeps, CreateItemsKeyAndReencryptKeeps, DecideKeeps,
     ServeBackKeeps, GetBackAnswerKeeps, SaveFormerRootKeyKeeps, UndoItemsKeyKeeps, RewriteItemsKeysKeeps DEF Going
<1>3. CASE Edit \/ Begin \/ DeleteItemsKeys \/ LoseSync \/ LoseChange
  BY <1>3, EditKeeps, BeginKeeps, DeleteItemsKeysKeeps, LoseSyncKeeps, LoseChangeKeeps
<1>4. CASE UNCHANGED credentialsVars
  BY <1>4 DEF credentialsVars, client, limits, CredentialsInv, CredentialsTypeOK, StageInv, RootInv, KeysInv,
              SyncInv,
              ServerInv, DiskInv, UndoInv, Kept
<1> QED
  BY <1>1, <1>2, <1>3, <1>4 DEF CredentialsNext

LEMMA CredentialsInvHolds ==
  ASSUME "overlappingSync" \notin Environment
  PROVE  CredentialsSpec => []CredentialsInv
BY CredentialsInvInit, CredentialsInvNext, PTL DEF CredentialsSpec

-----------------------------------------------------------------------------
(* Every variable has its type, if no sync overlaps a change outside of its *)
(* lock (performCredentialsChange).                                         *)
THEOREM CredentialsTypeCorrect ==
  ASSUME "overlappingSync" \notin Environment
  PROVE  CredentialsSpec => []CredentialsTypeOK
<1>1. CredentialsInv => CredentialsTypeOK
  BY DEF CredentialsInv
<1> QED
  BY <1>1, CredentialsInvHolds, PTL

(* With no change under way and nothing to upload, the server has the note  *)
(* with an items key that it has under the root key of the account: whether *)
(* changes succeeded or were rolled back, unless an answer was lost after   *)
(* the server had made the change (reencryptItemsKeys,                      *)
(* createNewItemsKeyWithRollback).                                          *)
THEOREM CredentialsAccountIsReadable ==
  ASSUME "overlappingSync" \notin Environment
  PROVE  CredentialsSpec => []AccountIsReadable
<1>1. ASSUME CredentialsInv, AtRest, ~mismatch PROVE server.keys[server.note] = server.root
  <2>1. change.at = "idle" /\ keys.dirty = {} /\ ~edited
    BY <1>1 DEF AtRest
  <2>2. server.root = root
    BY <1>1, <2>1 DEF CredentialsInv, RootInv
  <2>3. server.note \in Kept
    BY <1>1, <2>1 DEF CredentialsInv, ServerInv
  <2> QED
    BY <1>1, <2>1, <2>2, <2>3 DEF CredentialsInv, ServerInv
<1>2. CredentialsInv => AccountIsReadable
  BY <1>1 DEF AccountIsReadable
<1> QED
  BY <1>2, CredentialsInvHolds, PTL

(* Whenever the process dies outside of the stages that rewrite the items   *)
(* keys, the device has the note with an items key that it has under its    *)
(* root key (prepareForSync, rewriteItemsKeys).                             *)
THEOREM CredentialsDeviceIsReadable ==
  ASSUME "overlappingSync" \notin Environment
  PROVE  CredentialsSpec => []DeviceIsReadable
<1>1. CredentialsInv => DeviceIsReadable
  BY DEF CredentialsInv, DiskInv, DeviceIsReadable, Between
<1> QED
  BY <1>1, CredentialsInvHolds, PTL
=============================================================================
