--------------------------- MODULE MCWikiReading ----------------------------
(* Values of the constants of WikiReading for model checking. *)
EXTENDS WikiReading

Entry(restricted, parent, words, modified, dates, recorded) ==
  [there |-> TRUE, space |-> "eng", restricted |-> restricted, parent |-> parent, words |-> words,
   archived |-> FALSE, recorded |-> recorded, version |-> 1, created |-> 0, modified |-> modified, dates |-> dates]

\* A parent for everyone, dated ahead of the clock, whose history was never
\* recorded; a child only ann may
\* read, without a date of its last change; one with no date of its creation.
ThreePages ==
  <<Entry({}, 0, {"vpn", "setup"}, 2, {"created", "updated"}, FALSE),
    Entry({"ann"}, 1, {"vpn"}, 0, {"created"}, TRUE),
    Entry({}, 1, {"vpn", "mac"}, 1, {"updated"}, TRUE)>>

Asked(kind, user, page, ids, text, space) ==
  [kind |-> kind, user |-> user, page |-> page, pages |-> ids, text |-> text, space |-> space, limit |-> 2]

SomeRequests ==
  {Asked("search", u, 0, << >>, <<"vpn">>, None) : u \in {"ann", "bob"}}
  \cup {Asked("search", "bob", 0, << >>, << >>, None), Asked("search", "eve", 0, << >>, <<"vpn">>, None)}
  \cup {Asked("answer", "bob", 0, << >>, text, None) :
         text \in {<<"how", "vpn", "setup", "mac">>, <<"how">>, <<"mac", "how", "vpn">>}}
  \cup {Asked(kind, u, p, << >>, << >>, None) :
         kind \in {"get_page", "get_history", "get_children"}, u \in {"bob"}, p \in {1, 2}}
  \cup {Asked(kind, "ann", 1, << >>, << >>, None) : kind \in {"subtree", "discussion", "summarise", "get_comments"}}
  \cup {Asked("assess_pages", "ann", 0, <<2, 1, 3>>, << >>, None),
        Asked("assess_space", "ann", 0, << >>, << >>, "eng")}
=============================================================================
