------------------------- MODULE MCGmailCredentials -------------------------
(* Instances of GmailCredentials for TLC: one server with two calls at work, *)
(* the authorise command, and enough identifiers for a grant in every place. *)
EXTENDS GmailCredentials

CONSTANTS c1, c2, authorise, g1, g2, g3, g4

TwoTasks == {c1, c2}
OneTask  == {c1}
FourGrants == {g1, g2, g3, g4}
ThreeGrants == {g1, g2, g3}
=============================================================================
