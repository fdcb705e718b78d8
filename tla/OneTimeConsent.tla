--------------------------- MODULE OneTimeConsent ---------------------------
(***************************************************************************)
(* What a confirmation ticket promises whoever it was shown to: it is      *)
(* answered at most once and before it lapses, and the operation it shows  *)
(* is performed at most once, only after a yes.                            *)
(***************************************************************************)
EXTENDS Naturals, Sequences

VARIABLES
  consent,   \* for every ticket: "open", "confirmed", "cancelled" or "lapsed"
  acts       \* for every ticket: how often its operation was performed

vars == <<consent, acts>>

Init == consent = << >> /\ acts = << >>

Offer ==
  /\ consent' = Append(consent, "open")
  /\ acts' = Append(acts, 0)

Answer(t, answer) ==
  /\ consent[t] = "open"
  /\ consent' = [consent EXCEPT ![t] = answer]
  /\ UNCHANGED acts

\* Time passes, or a conversation ends.
Lapse(gone) ==
  /\ \A t \in gone : consent[t] = "open"
  /\ consent' = [t \in DOMAIN consent |-> IF t \in gone THEN "lapsed" ELSE consent[t]]
  /\ UNCHANGED acts

Act(t) ==
  /\ consent[t] = "confirmed"
  /\ acts[t] = 0
  /\ acts' = [acts EXCEPT ![t] = 1]
  /\ UNCHANGED consent

Next ==
  \/ Offer
  \/ \E t \in DOMAIN consent : Answer(t, "confirmed") \/ Answer(t, "cancelled") \/ Act(t)
  \/ \E gone \in SUBSET DOMAIN consent : Lapse(gone)

Spec == Init /\ [][Next]_vars
=============================================================================
