------------------------- MODULE MCWikiConversation -------------------------
EXTENDS WikiConversation, TLC

CONSTANTS one, other, page

Console(n) == [channel |-> "console", turns |-> n, commands |-> 0]
Http(n, m) == [channel |-> "http", turns |-> n, commands |-> m]

\* A console; one HTTP conversation; one beside another that can send commands.
MCDeployments ==
  {one :> Console(2), one :> Http(2, 3), one :> Http(1, 2) @@ other :> Http(0, 1)}
=============================================================================
