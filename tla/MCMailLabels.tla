---------------------------- MODULE MCMailLabels ----------------------------
(* Values of the constants of MailLabels for model checking. *)
EXTENDS MailLabels

\* "A b", "a b" and "A/b" all reduce to LBL_A_B, "A b 2" to the identifier that
\* tells two of them apart.
SomeNames == {"INBOX", "A b", "a b", "A/b", "A b 2"}
SomeFold  == [n \in SomeNames |-> IF n = "a b" THEN "A b" ELSE n]
SomeIds   == {"INBOX", "LBL_INBOX", "LBL_A_B", "LBL_A_B_2", "LBL_A_B_3", "LBL_A_B_2_2"}

SomeCandidates == [n \in SomeNames |->
  CASE n = "INBOX" -> <<"LBL_INBOX">>
    [] n = "A b 2" -> <<"LBL_A_B_2", "LBL_A_B_2_2">>
    [] OTHER       -> <<"LBL_A_B", "LBL_A_B_2", "LBL_A_B_3">>]

InboxNames == [id \in {"INBOX"} |-> "INBOX"]
=============================================================================
