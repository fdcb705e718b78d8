--------------------------- MODULE MCGmailMailbox ---------------------------
(* Values of the constants of GmailMailbox for model checking. *)
EXTENDS GmailMailbox

Ask(op, message, label, name) ==
  [op |-> op, message |-> message, label |-> label, name |-> name]

SpellingFold == [n \in Names |-> IF n = "Invoices" THEN "invoices" ELSE n]

NoLabel == 0

Server == [c \in Callers |-> "server"]
Hosted == [c \in Callers |-> "hosted"]
Both   == [c \in Callers |-> IF c = "a" THEN "server" ELSE "hosted"]

\* Label 3 is the first one anybody makes.
LabelRequests ==
  {Ask("create_label", "m1", NoLabel, "Invoices"),
   Ask("delete_label", "m1", 3, "invoices"), Ask("delete_label", "m1", Inbox, "invoices"),
   Ask("apply_label", "m1", 3, "invoices"), Ask("remove_label", "m1", 3, "invoices")}

ServerRequests ==
  LabelRequests \cup
  {Ask("send", "m1", NoLabel, "invoices"), Ask("mark_read", "m1", NoLabel, "invoices")}

AllRequests ==
  ServerRequests \cup
  {Ask("create_draft", "m1", NoLabel, "invoices"), Ask("archive", "m1", NoLabel, "invoices"),
   Ask("mark_unread", "m1", NoLabel, "invoices")}

FewRequests ==
  {Ask("create_label", "m1", NoLabel, "Invoices"), Ask("apply_label", "m1", 3, "invoices"),
   Ask("send", "m1", NoLabel, "invoices")}
=============================================================================
