--------------------------- MODULE MCMailApproval ---------------------------
(* Values of the constants of MailApproval for model checking. *)
EXTENDS MailApproval

Send       == [tool |-> "send_mail", object |-> "d1", argument |-> None]
SendOther  == [tool |-> "send_mail", object |-> "unknown", argument |-> None]
Read       == [tool |-> "mark_read", object |-> "m1", argument |-> "read"]
Unread     == [tool |-> "mark_read", object |-> "m1", argument |-> "unread"]
Malformed  == [tool |-> "mark_read", object |-> "m1", argument |-> None]
Attach     == [tool |-> "apply_label", object |-> "m1", argument |-> "l1"]
Detach     == [tool |-> "remove_label", object |-> "m1", argument |-> "l1"]
SaveDraft  == [tool |-> "create_draft", object |-> "d1", argument |-> None]
NewLabel   == [tool |-> "create_label", object |-> "l2", argument |-> None]

MixedCalls     == {Send, SendOther, SaveDraft}
\* One message, well and badly addressed; one draft, and one the store has not.
CollidingCalls == {Read, Malformed, Send, SendOther}
GatedCalls     == {Send, Attach}
=============================================================================
