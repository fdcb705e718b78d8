---------------------------- MODULE MCMailReading ----------------------------
(* Values of the constants of MailReading for model checking. *)
EXTENDS MailReading

Mail(thread, sender, to, cc, sent, garbled, place, unread, carried) ==
  [thread |-> thread, sender |-> sender, to |-> to, cc |-> cc, sent |-> sent,
   words |-> IF sent = 3 THEN {"invoice"} ELSE {}, attached |-> sent = 2,
   garbled |-> garbled, place |-> place, unread |-> unread, labels |-> carried]

\* A conversation of three, the last message on its way and without a date behind
\* the official server; two on the same day; one
\* the owner wrote; one that cannot be read; one of the same moment, on its
\* way, that cannot be listed.
SomeMail ==
  <<Mail("t1", "ann", <<"me", "joann">>, << >>, 2, "nothing", "here", TRUE, {"work"}),
    Mail("t1", "me", <<"ann">>, <<"joann">>, 3, "nothing", "here", FALSE, {"work", "tax"}),
    Mail("t1", "joann", <<"me">>, <<"ann">>, 5, "date", "coming", TRUE, {}),
    Mail("t2", "joann", <<"me">>, << >>, 4, "recipient", "here", TRUE, {"tax"}),
    Mail("t2", "ann", <<"me">>, << >>, 4, "sender", "coming", TRUE, {})>>

Anything == [words |-> {}, sender |-> None, recipient |-> None, labels |-> {}, from |-> NoDate,
             to |-> NoDate, unread |-> FALSE, attached |-> BOOLEAN, limit |-> 2, newestFirst |-> TRUE]

Asked(kind, user, ids, thread, all, criteria) ==
  [kind |-> kind, user |-> user, ids |-> ids, thread |-> thread, all |-> all, criteria |-> criteria]

Searched(criteria) == Asked("search", "owner", << >>, None, FALSE, criteria)

SomeRequests ==
  {Searched(Anything),
   Searched([Anything EXCEPT !.newestFirst = FALSE]),
   Searched([Anything EXCEPT !.unread = TRUE, !.limit = 1]),
   Searched([Anything EXCEPT !.labels = {"work"}]),
   Searched([Anything EXCEPT !.labels = {"work", "tax"}]),
   Searched([Anything EXCEPT !.sender = "ann"]),
   Searched([Anything EXCEPT !.from = 3, !.to = 4]),
   Searched([Anything EXCEPT !.from = 4]),
   Searched([Anything EXCEPT !.words = {"invoice"}, !.attached = {FALSE}, !.recipient = "ann"]),
   Asked("search", "stranger", << >>, None, FALSE, Anything),
   Asked("get_message", "stranger", <<1>>, None, FALSE, Anything),
   Asked("get_message", "owner", <<4>>, None, FALSE, Anything),
   Asked("get_thread", "owner", << >>, "t1", FALSE, Anything),
   Asked("classify", "owner", <<2, 1>>, None, FALSE, Anything),
   Asked("extract", "owner", <<1, 2>>, None, FALSE, Anything),
   Asked("summarise", "owner", << >>, "t1", FALSE, Anything),
   Asked("summarise", "owner", << >>, None, FALSE, Anything)}
  \cup {Asked("reply", "owner", ids, None, all, Anything) : ids \in {<<1>>, <<2>>}, all \in BOOLEAN}
  \cup {Asked("reply", "owner", << >>, "t1", TRUE, Anything)}

PartOf == {<<"ann", "joann">>}
=============================================================================
