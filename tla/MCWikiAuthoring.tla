--------------------------- MODULE MCWikiAuthoring --------------------------
(* Values of the constants of WikiAuthoring for model checking. *)
EXTENDS WikiAuthoring

OpenAndPrivate == [open |-> {}, private |-> {"u1"}]
OpenOnly       == [open |-> {}]

Written(version, by) == [version |-> version, by |-> by, seen |-> version - 1, started |-> version - 1]

\* A page restricted to u1 whose history the dataset does not give, and room for
\* a page in either space.
RestrictedPage ==
  [p1 |-> [space |-> "open", latest |-> Written(2, "u1"), restricted |-> {"u1"}, parent |-> None,
           comments |-> << >>, history |-> << >>],
   p2 |-> NoPage]

\* The same page, for everyone to read.
SharedPage ==
  [p1 |-> [space |-> "open", latest |-> Written(2, "u1"), restricted |-> {}, parent |-> None,
           comments |-> << >>, history |-> << >>],
   p2 |-> NoPage]
=============================================================================
