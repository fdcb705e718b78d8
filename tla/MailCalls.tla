----------------------------- MODULE MailCalls ------------------------------
(***************************************************************************)
(* What a mail server promises about the calls it is sent: a call acts at  *)
(* most once, an acknowledged call has acted, and a call answered as       *)
(* refused, or as having found what it was to create, has not acted and    *)
(* never will.  Only a failure leaves open whether the call acted, or will *)
(* still act.                                                              *)
(***************************************************************************)
EXTENDS Naturals

CONSTANT Callers

VARIABLES
  effects,  \* how often the call of each caller acted
  told      \* what each caller was told of its call

vars == <<effects, told>>

Answers == {"done", "existing", "refused", "failed"}

\* The answers that are true of a call that acted n times.
TrueAfter(n) == IF n = 1 THEN {"done", "failed"} ELSE {"existing", "refused", "failed"}

Init ==
  /\ effects = [c \in Callers |-> 0]
  /\ told = [c \in Callers |-> "idle"]

Begin(c) ==
  /\ told[c] # "nothing"
  /\ told' = [told EXCEPT ![c] = "nothing"]
  /\ effects' = [effects EXCEPT ![c] = 0]

Act(c) ==
  /\ told[c] \in {"nothing", "failed"}
  /\ effects[c] = 0
  /\ effects' = [effects EXCEPT ![c] = 1]
  /\ UNCHANGED told

\* The call is answered, in the step in which it acts or later.
Answer(c) ==
  /\ told[c] = "nothing"
  /\ \E n \in effects[c] .. 1 : \E answer \in TrueAfter(n) :
       /\ effects' = [effects EXCEPT ![c] = n]
       /\ told' = [told EXCEPT ![c] = answer]

Next == \E c \in Callers : Begin(c) \/ Act(c) \/ Answer(c)

Spec == Init /\ [][Next]_vars
=============================================================================
