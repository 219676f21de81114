------------------------------ MODULE Prompts ------------------------------
(***************************************************************************)
(* What the challenge service promises whoever asks the user: a question   *)
(* is settled at most once, by the user who cancels it or by one value for *)
(* each prompt; and if the values are validated, they are right ones.      *)
(***************************************************************************)
CONSTANTS Challenge, Form, Prompt, Value, PromptOf(_)

VARIABLES
  right,      \* the values the user has given that are right
  outcome     \* what has come of each question

vars == <<right, outcome>>

(* One value for each prompt.                                              *)
Complete(values) == \A p \in Prompt : \E v \in values :
                       /\ PromptOf(v) = p
                       /\ \A w \in values : PromptOf(w) = p => w = v

Init == right = {} /\ outcome = [c \in Challenge |-> [at |-> "none", values |-> {}]]

Ask(c) ==
  /\ outcome[c].at = "none"
  /\ outcome' = [outcome EXCEPT ![c].at = "pending"]

Cancel(c) ==
  /\ outcome[c].at = "pending"
  /\ outcome' = [outcome EXCEPT ![c].at = "cancelled"]

Answer(c, values) ==
  /\ outcome[c].at = "pending"
  /\ values \subseteq Value /\ Complete(values) /\ (c \in Form \/ values \subseteq right')
  /\ outcome' = [outcome EXCEPT ![c] = [at |-> "answered", values |-> values]]

Give == right \subseteq right' /\ right' \subseteq Value

Next ==
  /\ Give
  /\ \/ UNCHANGED outcome
     \/ \E c \in Challenge : \/ Ask(c) \/ Cancel(c)
                             \/ Answer(c, outcome'[c].values)

Spec == Init /\ [][Next]_vars
=============================================================================
