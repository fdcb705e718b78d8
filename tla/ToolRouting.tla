------------------------------ MODULE ToolRouting ------------------------------
(* Which MCP server the operations of a capability reach, over one runtime     *)
(* of the mail or of the wiki agent.  A deployment names a server for every     *)
(* skill it manages.  Each skill resolves its tools again at every operation,   *)
(* through the scope its own manifest declares (bootstrap/*_tools_provider.py,  *)
(* routed_*_tools.py, scoped_*_tools.py); skills a server cannot serve are      *)
(* withdrawn from the model when the runtime is assembled (composition.py).     *)
(* The runtime may be closed while its capabilities are still in use.           *)
EXTENDS Sequences, FiniteSets

CONSTANTS
  Servers,          \* delivered MCP servers (config/mcp/*.yaml)
  Offered,          \* the capabilities each binding lists
  Restrictable,     \* servers whose binding names a read_only_variable
  Deployments,      \* the configurations a runtime may be assembled from
  Callers           \* calls of capabilities under way at the same time

CONSTANTS
  Absent,           \* the server of a skill the deployment leaves out
  Nowhere           \* the place of a call that waits for no server

------------------------------------------------------------------------------
(* The delivered skills *)

WikiReads == {"search_wiki", "get_page", "get_page_children", "list_spaces",
              "get_comments", "get_page_history"}
WikiWrites == {"create_page", "update_page", "add_comment", "delete_page"}
MailOperations == {"search_mail", "get_mail", "get_thread", "list_labels",
                   "create_draft", "send_mail", "mark_read", "archive_mail",
                   "apply_label", "remove_label", "create_label", "delete_label"}
Operations == WikiReads \cup WikiWrites \cup MailOperations

WikiReasoning == {"answer_from_wiki", "summarise_page", "assess_page_freshness",
                  "draft_page_content"}
MailReasoning == {"summarise_mail", "classify_mail", "extract_mail_actions",
                  "draft_mail_reply"}

Agents == {"wiki", "mail"}

Skills(agent) == IF agent = "wiki" THEN WikiReads \cup WikiWrites \cup WikiReasoning
                                   ELSE MailOperations \cup MailReasoning

\* The aliases a skill's manifest lists (mcp_tools) besides its own name.
Borrowed(s) ==
  CASE s \in {"update_page", "delete_page", "draft_page_content"} -> {"get_page"}
    [] s \in {"answer_from_wiki", "assess_page_freshness"} -> {"search_wiki", "get_page"}
    [] s = "summarise_page" -> {"get_page", "get_page_children", "get_comments"}
    [] s = "send_mail" -> {"create_draft"}
    [] s \in {"apply_label", "remove_label", "create_label", "delete_label"} -> {"list_labels"}
    [] s = "classify_mail" -> {"get_mail"}
    [] s \in MailReasoning \ {"classify_mail"} -> {"get_mail", "get_thread"}
    [] OTHER -> {}

Declared(s) == ({s} \cap Operations) \cup Borrowed(s)

\* The operations a capability issues, in their order.  A search or a list of
\* pages may give several reads, or none; reads of one kind in a row count once.
Invocations(s) ==
  CASE s = "answer_from_wiki" ->
         {<<"search_wiki">>, <<"search_wiki", "get_page">>,
          <<"search_wiki", "search_wiki", "get_page">>}
    [] s = "assess_page_freshness" -> {<<"search_wiki">>, <<"get_page">>}
    [] s = "summarise_page" ->
         {<<"get_page">>, <<"get_page", "get_comments">>, <<"get_page", "get_page_children">>,
          <<"get_page", "get_page_children", "get_page">>}
    [] s = "draft_page_content" -> {<<"get_page">>}
    [] s = "delete_page" -> {<<"delete_page">>, <<"get_page", "delete_page">>}
    [] s = "classify_mail" -> {<<"get_mail">>}
    [] s \in MailReasoning \ {"classify_mail"} -> {<<"get_mail">>, <<"get_thread">>}
    [] OTHER -> {<<s>>}

\* The reads that word the confirmation of a call before it runs; what the
\* mail resolver already knows is not read again.
Wordings(s) ==
  CASE s = "delete_page" -> {<<"get_page">>}
    [] s \in {"mark_read", "archive_mail"} -> {<<"get_mail">>}
    [] s \in {"apply_label", "remove_label"} ->
         {<<"get_mail">>, <<"list_labels">>, <<"get_mail", "list_labels">>}
    [] s = "delete_label" -> {<<"list_labels">>}
    [] OTHER -> {}

\* mutant: every operation goes to the skill that is named like it
ByOperation(s, o) == o

\* Reasoning and wiki-writing skills keep one resolver for all their reads;
\* the grouped skills resolve every operation by its own name.
Scope(s, o) == IF s \in WikiReasoning \cup MailReasoning \cup WikiWrites THEN s ELSE o

------------------------------------------------------------------------------
(* A deployment: the agent, the server of each skill, the read-only switch *)

Managed(d) == {s \in Skills(d.agent) : d.server[s] # Absent}

ReadOnly(d, v) == d.readOnly /\ v \in Restrictable

\* mutant: the read-only switch is not looked at
Listed(d, v) == Offered[v]

Capabilities(d, v) == Offered[v] \ (IF ReadOnly(d, v) THEN WikiWrites ELSE {})

\* The skills the registry of connections binds.
Bound(d) == {s \in Managed(d) : Declared(s) \subseteq Capabilities(d, d.server[s])}

\* mutant: what any server of the agent offers
ServedSomewhere(d, s) ==
  Declared(s) \cap UNION {Capabilities(d, d.server[t]) : t \in Managed(d)}

Served(d, s) == Declared(s) \cap Capabilities(d, d.server[s])

\* The capabilities offered to the model.
Advertised(d) == {s \in Managed(d) : Declared(s) \subseteq Served(d, s)}

\* The mail capabilities and prompts are built for every skill there is.
Assembles(d) == d.agent = "mail" => Managed(d) = Skills("mail")

ASSUME NamesAssumption == Absent \notin Servers /\ Nowhere \notin Servers

ASSUME DeploymentsAssumption ==
  \A d \in Deployments :
    /\ d.agent \in Agents
    /\ d.server \in [Skills(d.agent) -> Servers \cup {Absent}]
    /\ d.readOnly \in BOOLEAN

------------------------------------------------------------------------------
VARIABLES
  deployment,   \* what the runtime was assembled from
  phase,        \* of the runtime's provider
  connected,    \* servers with an open MCP session
  calls         \* capabilities running, or wording a confirmation

vars == <<deployment, phase, connected, calls>>

\* mutant: a closed provider loads a registry again
NeverGone == FALSE

Gone == phase \in {"closing", "closed"}

Calls == [skill : Skills("wiki") \cup Skills("mail") \cup {"none"}, wording : BOOLEAN,
          todo : Seq(Operations), at : Servers \cup {Nowhere}, visited : SUBSET Servers,
          outcome : {"running", "done", "closed", "unbound", "undeclared",
                     "unsupported", "denied", "broken"}]

Idle == [skill |-> "none", wording |-> FALSE, todo |-> <<>>, at |-> Nowhere,
         visited |-> {}, outcome |-> "done"]

Init ==
  /\ deployment \in Deployments
  /\ phase = "unbuilt"
  /\ connected = {}
  /\ calls = [c \in Callers |-> Idle]

Build ==
  /\ phase = "unbuilt"
  /\ phase' = IF Assembles(deployment) THEN "live" ELSE "failed"
  /\ UNCHANGED <<deployment, connected, calls>>

Begin(c, s, wording, plan) ==
  /\ phase \in {"live", "closing", "closed"}
  /\ calls[c].outcome # "running"
  /\ calls' = [calls EXCEPT ![c] = [skill |-> s, wording |-> wording, todo |-> plan,
                                    at |-> Nowhere, visited |-> {}, outcome |-> "running"]]
  /\ UNCHANGED <<deployment, phase, connected>>

Invoke(c) == \E s \in Advertised(deployment) : \E plan \in Invocations(s) :
               Begin(c, s, FALSE, plan)

Word(c) == \E s \in Advertised(deployment) : \E plan \in Wordings(s) :
             Begin(c, s, TRUE, plan)

\* What resolving the tools of the next operation comes to.
Resolution(call) ==
  LET o == Head(call.todo)
      s == Scope(call.skill, o)
  IN CASE Gone                     -> "closed"
       [] s \notin Bound(deployment) -> "unbound"
       [] o \notin Declared(s)       -> "undeclared"
       [] OTHER                      -> "resolved"

Destination(call) == deployment.server[Scope(call.skill, Head(call.todo))]

\* An operation is over; its capability goes on with the next one.
Advance(call) ==
  [call EXCEPT !.todo = Tail(call.todo), !.at = Nowhere,
               !.outcome = IF Len(call.todo) = 1 THEN "done" ELSE "running"]

\* A failed read costs a mail confirmation its detail and nothing else; the
\* wiki's puts up with a page that is missing or may not be read.
Tolerated(call, why) ==
  \/ deployment.agent = "mail" /\ call.wording
  \/ why = "denied" /\ call.skill = "delete_page" /\ Head(call.todo) = "get_page"

Failed(call, why) ==
  IF Tolerated(call, why) THEN Advance(call)
  ELSE [call EXCEPT !.at = Nowhere, !.outcome = why]

Resolving(c) == calls[c].outcome = "running" /\ calls[c].at = Nowhere

Send(c) ==
  /\ Resolving(c)
  /\ Resolution(calls[c]) = "resolved"
  /\ LET v == Destination(calls[c])
     IN /\ connected' = connected \cup {v}
        /\ calls' = [calls EXCEPT ![c].at = v, ![c].visited = @ \cup {v}]
  /\ UNCHANGED <<deployment, phase>>

Refuse(c) ==
  /\ Resolving(c)
  /\ Resolution(calls[c]) # "resolved"
  /\ calls' = [calls EXCEPT ![c] = Failed(@, Resolution(@))]
  /\ UNCHANGED <<deployment, phase, connected>>

\* The server's answer to an operation its deployment exposes, or does not.
Answer(c) ==
  /\ calls[c].at # Nowhere
  /\ calls' = [calls EXCEPT ![c] =
                 IF Head(@.todo) \in Capabilities(deployment, @.at)
                 THEN Advance(@) ELSE Failed(@, "unsupported")]
  /\ UNCHANGED <<deployment, phase, connected>>

\* The server denies this person the operation, has not what it names, or is lost.
Fail(c) ==
  /\ calls[c].at # Nowhere
  /\ \E why \in {"denied", "broken"} :
       calls' = [calls EXCEPT ![c] = Failed(@, why)]
  /\ UNCHANGED <<deployment, phase, connected>>

\* aclose raises the flag, then waits for the sessions to end.
BeginClose ==
  /\ phase = "live"
  /\ phase' = "closing"
  /\ UNCHANGED <<deployment, connected, calls>>

FinishClose ==
  /\ phase = "closing"
  /\ phase' = "closed"
  /\ connected' = {}
  /\ calls' = [c \in Callers |-> IF calls[c].at = Nowhere THEN calls[c]
                                 ELSE Failed(calls[c], "broken")]
  /\ UNCHANGED deployment

Next ==
  \/ Build
  \/ \E c \in Callers : Invoke(c) \/ Word(c) \/ Send(c) \/ Refuse(c) \/ Answer(c) \/ Fail(c)
  \/ BeginClose
  \/ FinishClose

Spec == Init /\ [][Next]_vars

------------------------------------------------------------------------------
(* Properties *)

\* Types; a running capability always has an operation to resolve or to wait
\* for, and a request is with a server only while its session is open.
TypeOK ==
  /\ deployment \in Deployments
  /\ phase \in {"unbuilt", "failed", "live", "closing", "closed"}
  /\ connected \subseteq Servers
  /\ calls \in [Callers -> Calls]
  /\ \A c \in Callers :
       /\ calls[c].at \in connected \cup {Nowhere}
       /\ calls[c].at # Nowhere => calls[c].outcome = "running"
       /\ calls[c].outcome = "running" =>
            calls[c].skill \in Advertised(deployment) /\ calls[c].todo # <<>>

\* What composition.py _registry says of the filter: no capability offered to
\* the model is refused in the middle of a conversation because no skill binds
\* it, because it leaves its own manifest, or because its server lacks it.
AdvertisedIsServed ==
  \A c \in Callers : calls[c].outcome \notin {"unbound", "undeclared", "unsupported"}

\* No page is written through a server the deployment runs read-only
\* (capabilities_in), whichever skill names that server.
ReadOnlyIsUntouched ==
  \A c \in Callers : calls[c].at # Nowhere =>
    ~ (Head(calls[c].todo) \in WikiWrites /\ ReadOnly(deployment, calls[c].at))

\* A capability stays on the server its own manifest entry names, over all its
\* operations (skills_factory.py); only the wording of a mail confirmation is
\* read elsewhere, through the skills that own its reads.
OneServerPerCall ==
  \A c \in Callers :
    ~ (calls[c].wording /\ deployment.agent = "mail") =>
      \A v \in calls[c].visited : v = deployment.server[calls[c].skill]

\* Skills that outlive their runtime open no session a closed provider would
\* leave behind, and none of their requests is still waiting (aclose).
NothingAfterClose ==
  phase = "closed" => connected = {} /\ \A c \in Callers : calls[c].at = Nowhere

==============================================================================
