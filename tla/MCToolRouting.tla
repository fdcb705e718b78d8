---------------------------- MODULE MCToolRouting ----------------------------
(* The delivered servers, and deployments of the two agents over them. *)
EXTENDS ToolRouting, TLC

WikiServers == {"wiki-local", "mcp-atlassian"}
MailServers == {"gmail-api", "gmail"}
AllServers  == WikiServers \cup MailServers

Bindings ==
  "wiki-local"      :> WikiReads \cup WikiWrites
  @@ "mcp-atlassian" :> (WikiReads \cup WikiWrites) \ {"get_page_history"}
  @@ "gmail-api"     :> MailOperations
  @@ "gmail"         :> MailOperations \ {"send_mail", "delete_label"}

\* One server for all the skills, another one (or none) for some of them.
Split(agent, default, other, some, readOnly) ==
  [agent |-> agent, readOnly |-> readOnly,
   server |-> [s \in Skills(agent) |-> IF s \in some THEN other ELSE default]]

WikiDeployments ==
  {Split("wiki", "mcp-atlassian", "wiki-local", {}, FALSE),
   Split("wiki", "mcp-atlassian", "wiki-local", {"get_page", "delete_page"}, TRUE),
   Split("wiki", "wiki-local", "mcp-atlassian", {"get_page"} \cup WikiWrites, TRUE),
   Split("wiki", "wiki-local", "mcp-atlassian", WikiReasoning, FALSE),
   Split("wiki", "mcp-atlassian", Absent, {"get_page", "create_page"}, FALSE)}

MailDeployments ==
  {Split("mail", "gmail", "gmail-api", {}, FALSE),
   Split("mail", "gmail-api", "gmail", {"get_mail", "list_labels", "send_mail"}, FALSE),
   Split("mail", "gmail-api", Absent, {"send_mail"}, FALSE)}

AllDeployments == WikiDeployments \cup MailDeployments

AnyCaller == Permutations(Callers)
=============================================================================
