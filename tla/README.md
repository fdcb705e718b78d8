# A TLA+ model of AI Agent Lab

AI Agent Lab is a Mail agent (on the Microsoft Agent Framework) and a Wiki agent
(on LangGraph) that act for a person, ask before they change anything, and reach
their mailbox or wiki over MCP servers, some of which the repository provides.
This directory holds TLA+ modules translated from that code, TLC configurations
that check them on small instances, and TLAPS proofs for every size.

All paths are relative to `src/`. `M` is `agents/mail/src/ai_agent_lab/mail`,
`W` is `agents/wiki/src/ai_agent_lab/wiki`, `G` is
`mcp-servers/gmail/src/mail_mcp/gmail`. `PROJECT.json` maps every definition
that models code to the lines it models.

## 1. The system

| component | state | operations | interacts with |
|---|---|---|---|
| Human approval, mail console (`M/adapters/cli`, `M/adapters/maf/approval.py`, `M/application/confirmations`, `agents/maf`) | standing answers, confirmation ledger, budgets of the turn, audit trail | propose, surface, ask, decline, run, interrupt, fail | model (batches of calls), owner (answers), capabilities |
| Confirmation wording and labels (`M/application/confirmations/subjects.py`, `M/infrastructure/inmemory/mail_tools.py`, reference server) | labels, filings, the listing a conversation caches | create, delete, apply, remove, describe | other agents of the same mailbox |
| Gmail mailbox (`G/mailbox.py`, `G/api.py`, `M/infrastructure/mcp`) | Gmail's labels and messages, the request each call waits for | label lifecycle, filing, read state, send, draft | Gmail over HTTP, the owner in Gmail's own client |
| Gmail credentials (`G/credentials.py`, `G/loopback.py`, `G/authorise.py`) | grant file, cached token, consent port | refresh, consent, store | Google, a browser, the server's concurrent calls, the authorise command |
| Wiki pages, drafts, versions (`W/infrastructure`, `W/application/skills`, reference server) | pages with history, restriction and comments; drafts | draft, publish, update, delete, comment | colleagues' agents and the wiki's own editor |
| Wiki approval (`W/adapters/langchain`, `agents/langgraph`) | the batch LangGraph suspended, the decisions handed back by position, ledger, budget of rounds | propose, suspend, ask, decline, resume, interrupt | graph, owner, capabilities |
| HTTP conversations and tickets (`W/adapters/http`, `W/bootstrap/conversation.py`, `M` likewise) | a bounded cache of conversations, each with its drafts, tickets and ledger | lease, raise, confirm, cancel, expire, retire, restart | front end, caller identity |
| Mail: searching and reading (`M/application/skills`, `G/query.py`, `M/infrastructure/mcp/google`) | none beyond one call | search, read, read a conversation, classify, summarise, extract, compose a reply | four backends, language model, whoever changes the mailbox meanwhile |
| Wiki: searching and reading (`W/application/skills`, `W/infrastructure`) | none beyond one call | search, read, list children, answer, summarise, assess freshness | four backends, language model, colleagues |
| Tool providers and routing (`M/bootstrap`, `W/bootstrap`) | the registry of connections, open sessions, the closed flag | assemble, withdraw, scope, route, close | skills, confirmations, MCP servers |
| Configuration, model clients, logging; token checks and transports | read once at start | pure or request-scoped | model providers |

What is hard in this code:

- *interleaving*: the calls of a batch run as tasks that take their answers from one
  ledger; calls of a server interleave at every `await`; other agents, colleagues
  and the owner in another client change the same mailbox or wiki;
- *atomicity*: most mailbox and wiki writes are a read, a decision and a write in
  different requests;
- *unreliable delivery and retry*: requests, answers and connections get lost, and
  a lost answer may have been a write;
- *partial failure*: a batch half executed when the turn is given up, the second
  request of an operation failing after the first one acted;
- *stale state*: cached listings, cached tokens, drafts made from an old version,
  identifiers given out again;
- *crashes and evictions*: the grant file is rewritten in place; tickets, drafts and
  answers live in the memory of a conversation that may be retired;
- *order*: LangGraph matches decisions to suspended calls by position alone;
- *views that shift*: a search, an answer or a reply is several calls to a wiki or
  mailbox that other people change between them, and four backends decide in four
  ways what matches, what is cut off and who may see it;
- *legal configurations nobody tried*: every skill may name a server of its own, a
  server may offer part of the operations or be read-only, and the tools given to
  the skills outlive the runtime that gave them.

`PROJECT.json` lists each hazard at its line with the properties that cover it.

`ygo74.agent_runtime` (confirmation policy, gate, broker, ledger, approval loop,
sessions) is a library outside the repository. What the modules need of it is
modelled from how the code here uses it and from the tests that pin it, and is
marked external in the map.

## 2. The modules

| module | stands for |
|---|---|
| `MailApproval` | one console conversation: batches of proposed calls, questions, ledger, gate, audit |
| `MailLabels` | labels and filings of the in-memory and the reference mailbox, and the confirmations that name them |
| `MailCalls` | *abstract*: what a mailbox promises of every call |
| `GmailMailbox` | the Gmail mailbox request by request; implements `MailCalls` |
| `GmailCredentials` | the grant, the token and the consent of the Gmail server |
| `VersionedPages` | *abstract*: versioned registers in which a write replaces exactly what its author saw |
| `WikiAuthoring` | drafts, pages, versions and comments; implements `VersionedPages` |
| `OneTimeConsent` | *abstract*: what a confirmation ticket promises whoever it was shown to |
| `WikiConversation` | conversations with the Wiki agent, at a console and over HTTP; implements `OneTimeConsent` |
| `WikiReading` | one reading capability of the Wiki agent at a time, call by call, over five backends |
| `MailReading` | the same for the Mail agent, with replies |
| `ToolRouting` | which server the operations of a capability reach, over one runtime of either agent |
| `Ordering` | a finite set in the order of a relation, and the first n of a sequence: what the code gets from `sorted` and a slice |
| `MC*` | constants for TLC |
| `MailAgentProofs` | theorems about `MailApproval` and `MailLabels` |
| `GmailServerProofs` | theorems about `GmailMailbox` and `GmailCredentials` |
| `WikiAuthoringProofs`, `WikiConversationProofs`, `WikiReadingProofs`, `MailReadingProofs`, `ToolRoutingProofs` | theorems about the module they are named after |
| `OrderLemmas` | lemmas about naturals, about sets put in order, and about the ends and elements of sequences, which several proofs cite |

Two modules whose theorems stand in one proof module name their specifications apart:
`LabelsSpec` (with `LabelsInit`, `LabelsNext`) is the specification of `MailLabels` and
`CredentialsSpec` that of `GmailCredentials`; everywhere else it is `Spec`.

Modules meet where one component hands over to the next. `MailApproval` and
`WikiConversation` end where an operation is performed (their log), and `MailLabels`,
`GmailMailbox` and `WikiAuthoring` begin there; `GmailMailbox` stands on
`GmailCredentials`, every request needing a token; `ToolRouting` says which of these
servers a capability reaches. They are not composed into one state machine: each pair
shares only the call itself, and its failure, which every module allows at any point.

### MailApproval

A turn goes `idle -> model -> asking -> running -> model ... -> idle`. `Propose`
is the model's batch. `OpenRound` is a round of the approval loop, which surfaces
some of the waiting calls; for each of them `ConsoleApprovalResolver.resolve` is
one of `DeclineUndescribed`, `ApproveByStandingAnswer` and `Ask`. Answers are
recorded in the ledger, a queue per capability and target (`Record`). Once no call
waits, the framework runs the batch, every call a task: `RejectArguments` where
the input model refuses before any answer is taken, else `TakeAnswer` (the broker
takes the oldest answer of the key) and, a step later, `Perform` (the gate, the
mailbox, the audit). `Interrupt` is the exhausted budget: the ledger is dropped
first, then everything waiting is refused. `FailTurn` is a failing model provider;
`FailQuestion` is the input that ends at a question (`M/adapters/cli/console.py:142`): the
turn fails, nothing drops the ledger, and the answers given before in that round wait
in it for a later call of their key. That the suspended calls of a turn given up so are
forgotten is assumed of the library; Ctrl-C at the prompt ends the program and is left out.

A call keeps its tool, its target and the argument that tells two calls of one
target apart. A malformed call and one whose draft is not known are members of
`Calls`. The text of messages and confirmations is left out.

### MailLabels

A label has a name and an identifier minted from the name by folding it and adding
a number (`Mint`: the first of its candidates not in use); a free identifier is given
out again. The conversation's
resolver caches the listing it reads for its first confirmation
(`subjects.py:119`). Another agent works on the same labels.

### GmailMailbox and MailCalls

A call is a sequence of requests: `read` (list the labels), `write`, `reread`. Each
request may be lost on the way or on the way back; reads are attempted
`Attempts` times, writes once (`G/api.py:113`). `Dialect` of a caller is `"server"`, the
repository's own Gmail server, or `"hosted"`, the official one as
`M/infrastructure/mcp/google/client.py` uses it. The owner makes and deletes labels
in between. `MailCalls` promises that a call acts at most once, and that what it
answers is so. Getting a token is not part of it (`GmailCredentials`).

### GmailCredentials

Calls of the server (tasks of one event loop) and the authorise command (a process
of its own) share the grant file and the consent port. A call whose cached token
is not usable posts the stored grant (`StartRefresh`) or asks the owner
(`StartConsent`); the answer comes later (`Renew`, `Trade`, `Refuse`, `Lose`) and
is written (`BeginStore`, `FinishStore`). Writing blocks the event loop but not
the other process, hence `LoopFree`. Time is `Tick`s; an answer may be
`MaxDelay` old when it arrives while the expiry is counted from its arrival.

### WikiAuthoring and VersionedPages

Begins where the confirmation gate lets a call through. A draft carries the version
of the page it was made from and stays usable afterwards. `UpdatePage` compares and
writes in one step in the in-memory wiki and on the reference server; over the
Atlassian dialect that is `CheckVersion` and `WriteChecked`. A page whose version that
server leaves out reads as version 1 (`Unnumbered`, `VersionOf`), for a draft and for the
comparison alike, so that the comparison says nothing of it: `EarlierEditsSurvive` is about
the pages that have a version. A revision keeps, for
the properties only, the version its author had seen and the one there was when
the write began.

### WikiConversation and OneTimeConsent

A conversation has a channel, console or HTTP. `Ask` leases it from the cache, which
composes a runtime if it has none (`Lease`; `life` counts them). `Propose` is the
model's batch; `interrupt_on` suspends the gated calls of it (`Gated`: floor, then the
preferences). The resolver goes through the suspended ones in order (`Asked`): a call
nobody can describe is declined (`DeclineUndescribed`), at a console the owner is asked
and the answer queued in the ledger (`AskOwner`), over HTTP every call is declined and
a ticket with its arguments kept (`RaiseTicket`). `Resume` hands the decisions over by
position; `RunCall` is a task of the batch: it looks the draft up or reads the page of
a deletion, asks the broker, and may then be refused by the wiki (`Invoke`). `Interrupt`
is the spent budget. `Confirm` and `Cancel` are messages that are nothing but a command;
`PerformConfirmed` calls the capability again under the approval just recorded.
`Expire`, `Retire` and `Restart` are the lifetime of tickets, of cached conversations
and of the process.

`log` is what was performed, and keeps beside each operation what had been said of that
very call: the code does not keep it, the properties need it. A ticket's `fate` records
the answer it got. `OneTimeConsent` has a status and a count for each ticket; the
refinement reads the status from the fate, the store and the clock (`Consent`) and the
count from the log (`Acts`).

The ticket store, the ledger, the runner and the cache are those of the agent runtime
library; the Mail agent uses the same over HTTP, so its tickets are not modelled again.

### WikiReading and MailReading

A capability call is a sequence of port calls, one a step: search, read the next page
or message, list, reason. Between any two of them somebody edits, restricts, moves,
deletes or receives something. `backend` chooses the tools: the in-memory ones, the
reference server, and the two real ones, whose searches differ in what they match,
what they count and what they leave to be filtered afterwards (`Matching`, `Truncated`,
`MatchesQuery`).

The Atlassian tools come in three forms, as `_require_served_account`
(`W/infrastructure/mcp/atlassian/client.py:320`) tells them apart: `"per_user"` acts as
whoever asks, `"shared"` as the one account the settings name, refusing everybody else,
and `"unnamed"` is the same with the account left empty, as the settings leave it unless
told otherwise (`.env.example:195-201` says what naming it is for): it acts as the
account whose credentials it holds and refuses nobody (`Serves`, `Acting`).
`NothingHiddenIsTold` holds a call to the one who is `Entitled` to it: its user, and in
the unnamed case the account. That this is less than the documentation says is
`OnlyTheirOwnView`, below.

What never changes of a page or message is in the dataset; words are members of a small
set and dates small numbers, in `MailReading` half days, so that two instants can fall
on one date. Messages of one instant are kept in dataset order, the order of the
in-memory mailbox; the servers promise none for them. A result is a record of what its
renderer shows. `steady` (the pages or messages nobody has touched since the call began)
and `matched` are not the code's: they say what the properties may hold the call to,
which is what stood there all along. The native wire carries a failure as text that may
quote another failure's code (`Reported`, `Decoded`). The Atlassian server has no codes:
of the prose it reports a failure in, the model keeps whether it speaks of a refusal and
of an absence (`Marks`), any of the four, whatever went wrong, and `Translated` looks
for them in the order of the code: a refusal first, then an absence, else a protocol
failure. What the client raises itself is told as it is (`RaisedHere`). `FailureSaysWhy`
then says when the user may be told another failure than happened: never over the other
backends, and over Atlassian only by prose that speaks of that other failure or not of
its own. The language model is a choice: any sources it may cite, any order.

A message of the official Gmail server may have no date. It then lies within no bounds
on dates (`Unplaced`), and telling its header or reading it fails the whole call
(`HeaderFails`, `MessageFails`, from `GmailMessage.sent_at`). Children of a page come by
their titles, which stand in no relation to what the model keeps of a page: any order
(`Listings`). A page without a recorded history answers "not found" when asked for it
(`LookObstacles`).

### ToolRouting

A deployment is the agent, the server each managed skill names (`Absent` where the
manifest leaves the skill out) and the read-only switch. `Capabilities` is what a
server serves in it, `Bound` what the registry of connections will bind,
`Advertised` what is offered to the model; the code computes the last two in
different places (`_serviceable_manifest` of the provider, `_registry` of the
composition root), and the first property is that they agree whatever is called.
A call of a capability (`Invoke`) or the wording of a confirmation (`Word`) is a
sequence of operations. Before each one its tools are resolved again in the scope of
one skill (`Scope`): `Send` opens the session if there is none, `Refuse` is a closed
provider, an unbound skill or an alias its manifest does not list; then `Answer`
or `Fail`. `BeginClose` raises the flag, `FinishClose` is the end of the sessions;
between the two, requests already sent may still be answered. A skill may be
used after that.

The tables (`Borrowed`, `Invocations`, `Wordings`, `Scope`) are those of the
delivered `skill.yaml` files and skills. Which pages or messages are read is left
out, and several reads of one kind in a row count once, since they go the same way.
The registry of connections is a library; that ending it ends its sessions and
whatever waits for them is assumed from the providers' `aclose` and marked external
where a definition stands for nothing else.

The wording of a mail confirmation reads through `get_mail` and `list_labels`, the
operation runs through its own skill. When a deployment puts these on different
servers, the message described and the message changed are in different mailboxes
(`M/application/confirmations/presenter.py:116`); `OneServerPerCall` excludes those
readings and says nothing of them.

## 3. What is checked

| run | properties | what it shows, and bounds |
|---|---|---|
| `mail_approval` | `ExecutedWasApproved`, `AnswerServesOnce`, `FloorIsAlwaysAsked`, `QuestionsAreBounded`, `InterruptedRunsNothing`, `TurnEnds` | nothing gated runs without an answer of its own, and every turn ends; a call of a message, a malformed one of the same key, a send, a send whose draft is not stored; 2 turns, batches of 2, 1 question, 2 rounds, 2 audited calls |
| `gmail_credentials` | `GivenTokenIsAlive`, `ConsentIsRecoverable` | a token given out works as long as its request takes, and no crash or abandoned consent blocks the next; 2 calls and the command, 3 grants, lifetime 2, margin 1, delay 1, one revocation or crash; no symmetry, since one property is about liveness |
| `gmail_calls` | `SystemLabelsSurvive`, `CallsKeepPromises`, `EveryCallAnswers` | every call acts at most once, answers what is so, and comes to an end; 2 calls of 10 requests, one in each dialect, 4 label identifiers, 2 spellings of a name, 3 attempts |
| `mail_labels_shared` | `OneLabelPerName`, `FiledUnderTheirLabel`, `LabelsOnlyGoWhenDeleted` | identifiers given out again never mix two labels up; 2 agents, 5 names that collide after folding or numbering, 6 identifiers, 3 labels made |
| `wiki_authoring` | `NothingIsOverwritten`, `HistoryIsWhole`, `EarlierEditsSurvive`, `WritesKeepTheRest`, `VersionsAreRespected` | no draft overwrites what its author has not seen, as far as the backend can tell, and no write loses a part of the page; 2 people, a restricted page and one that may be made in an open or a private space, 4 versions, 2 drafts, 2 comments, 2 updates in flight, reference server and Atlassian, which gives one page no version |
| `wiki_conversation` | `DecisionsReachTheirCalls`, `PerformedWasConfirmed`, `NothingOutlivesItsRuntime`, `TicketsKeepTheirPromise`, `EveryTurnEnds` | only what was answered yes to is performed, each ticket once, in its own conversation and lifetime; a console with 2 turns; an HTTP conversation with 2 turns and 3 commands; one with 1 turn and 2 commands beside another that only sends a command; batches of 2, 2 tickets, 2 operations, 1 draft, 2 runtimes |
| `wiki_reading` | `SilenceIsHonest`, `UntruncatedIsComplete`, `NothingHiddenIsTold`, `NothingIsLeftOut`, `SourcesWereRead`, `FailureSaysWhy`, `ReportsAreSober` | what the agent tells of the wiki holds whoever changed it on the way; 3 pages (one restricted, two with a date missing, one dated ahead of the clock and without a history), 19 requests of every kind, 3 people, 5 backends, 2 changes while a call is under way |
| `mail_reading` | `ResultsMatch`, `UntruncatedIsComplete`, `PageIsTheTop`, `NothingIsLeftOut`, `RepliesStayInTheConversation` | the same for the mailbox; 5 messages in 2 conversations (two pairs on one day, two on their way, one with an address that cannot be read, one without a date), 22 requests, 4 backends, 3 changes |
| `tool_routing` | `AdvertisedIsServed`, `ReadOnlyIsUntouched`, `OneServerPerCall`, `NothingAfterClose` | what is offered can be served, where it may be, and nothing is left after the close; 2 symmetric calls, the four delivered servers, five deployments of the wiki agent (one server, read-only with two skills elsewhere, writes on the read-only server, reasoning on another server, skills left out) and three of the mail agent (one server, split, incomplete) |

Why the bounds are enough: two actors give every order of two operations, and the
operations here conflict in pairs. Two turns and batches of two let an answer be
left over, be taken by a call of the same batch or by one of the next turn, and
be overtaken. Two drafts of one page, four versions: a draft may be one edit or
more behind, and published twice. Three grants: the one in the file, one being asked
for, one to come. Five names: two that fold together, two that mint the same
identifier, and one that mints the identifier the numbering of the others arrives at.
Two tickets and two runtimes: a ticket answered while another waits, and one that
outlives its store. Two or three changes during a call: a page or message can go and
another become the first match, between listing and reading. The deployments have
each kind of difference between what a skill needs and what its server serves: an
operation the server lacks, one the switch removes, one only another server offers.
Every property has a mutant in `PROJECT.json`, a plausible bug in one definition under
which the same run fails, so none of the bounds is too small for its property.

`CHECK_DEADLOCK FALSE` where a bound stops the run: a conversation ends after its
turns and commands, drafts and versions run out; and in `tool_routing`, where a runtime
that cannot be assembled stops.

Four more configurations check further properties of the same instances; all of them
pass with `tlc -config <file> <MC module>`.

| configuration | properties |
|---|---|
| `MailApprovalMore.cfg` | `TypeOK`; `ExecutionsWithinApprovals`: of one key, never more calls executed than answers granted |
| `WikiAuthoringMore.cfg` | `TypeOK`; `RepliesAnswerComments`: a reply hangs under a comment of its own page; `OnlyReadersWrite`, for the reference server |
| `WikiReadingMore.cfg` | `TypeOK`; `CallEnds` |
| `MailReadingMore.cfg` | `TypeOK`; `SourcesWereAskedFor`: what an answer rests on was asked for; `CallEnds` |

### Fairness

- `MailApproval!FairSpec`: weak fairness of the loop's and the framework's own steps
  while a batch is asked about or runs (the person at the console does answer), and
  of the model, which either proposes or ends the turn. Nothing says that the model
  ever ends it: `TurnEnds` then rests on the round budget alone.
- `WikiConversation!FairSpec`: the same, for each conversation. Over HTTP nobody
  waits for an answer, and only the total of rounds limits the model. Nothing is said
  of commands, retirement or restarts: a ticket may never be answered.
- `GmailMailbox!FairSpec`: weak fairness of a call's own progress, which includes its
  timeouts. Gmail need not ever answer.
- `GmailCredentials!CredentialsFairSpec`: time passes, calls keep coming, answers that do not come
  time out, writes finish (weak). The owner, asked again and again, approves some
  time, and Google, asked again and again, answers and lets the answer arrive some
  time (strong): assumptions on the environment, without which nobody gets a grant.
- `WikiReading!FairSpec`, `MailReading!FairSpec`: an awaited call of a port returns or
  fails, which its transport's timeout guarantees.

### Where text and code disagree

Three runs are expected to find a violation; each is a finding in `PROJECT.json`.

- `mail_approval_nothing_changed`, `NothingChangedIsTrue`: the console reports a
  failed turn with "Nothing was changed." (`M/adapters/cli/entrypoint.py:99`) and an
  interrupted one with "nothing was changed" (`M/adapters/maf/session.py:37`), also
  when an earlier batch of the turn was executed.
- `gmail_credentials_latest`, `LatestGrantIsKept`: a refresh under way while a consent
  is stored writes its old grant back over the new one (`G/credentials.py:148`).
- `gmail_delivery`, `AcknowledgedDidRun`: `send` reads the message back after Gmail
  accepted it; when that read fails, the model is told that the message was not
  sent (`G/mailbox.py:161`, `agents/maf/.../tool_adapter.py:93`).

The following configurations find a violation of the same kind. They are kept
for whoever works on those lines; run them with
`tlc -config <file> <MC module>`.

| configuration | property | disagreement |
|---|---|---|
| `MailApprovalShownRequest.cfg` | `AuditedRequestWasShown` | `doc/users/mail-agent-reference.md:216-218` says the request the user reads is the one audited; a declined call's record stays queued and a later call of the same key takes it |
| `MailApprovalRejection.cfg` | `ApprovedIsNotRejected` | `M/application/skills/send_skill.py:125` raises "the user declined the delivery"; the call refused may be one the user approved, the refusal being an older one's |
| `MailApprovalConfirmable.cfg` | `GatedIsConfirmable` | `M/application/operations.py:65` says of `create_draft` "It stays configurable"; the presenter has no case for it, so gating it declines every draft unasked |
| `GmailCredentialsAsked.cfg` | `ConsentOnlyWhenNeeded` | `G/authorise.py:5-6` says the server refreshes the grant on its own; any status but 200, an overload too, opens a consent page in the server |
| `GmailMailboxApply.cfg` | `AppliedLabelIsCarried` | `_require_label` (`G/mailbox.py:197`) is there so that a label that is not there is never reported as applied; it can be deleted between the check and the change |
| `GmailMailboxExisting.cfg` | `ExistingIsNoError` | `M/application/ports/mail_tools.py:125`: "Asking for a label that already exists is not an error"; over the official server it is when the name is taken after the listing |
| `MailLabelsConfirmed.cfg` | `ConfirmedNameIsTrue` | `M/application/confirmations/subjects.py:13-15`: a confirmation never misdescribes; the listing is cached per conversation while identifiers are given out again |
| `MailReadingCriteria.cfg` | `CriteriaAreKept` | `M/adapters/capabilities/tool_inputs.py:33`: "Restrict to messages carrying all of these labels", which the official dialect checks with `any` (`M/infrastructure/mcp/google/client.py:420`); `:35`, an inclusive lower bound, of which Gmail's `after:` keeps the day only |
| `MailReadingBound.cfg` | `UpperBoundIsInclusive` | `M/adapters/capabilities/tool_inputs.py:36`: the upper bound of the sent date is inclusive; Gmail's `before:` leaves out its whole day, and the search does not say it is truncated |
| `WikiReadingSpace.cfg` | `SpaceIsAssessed` | `W/adapters/capabilities/tool_inputs.py:137`: "Assess every readable page of this space"; the pages are those of one search, and what it cut off is not mentioned |
| `WikiReadingUnnamed.cfg` | `OnlyTheirOwnView` | `W/infrastructure/mcp/atlassian/client.py:312-316`: serving a second user through the connection "would return that first person's view of the wiki under somebody else's name - including pages the second user may not read - so it is refused here", and `doc/users/wiki-mcp-servers.md:100`; the check (`:320`) returns at once when the account is empty, which is the default (`W/infrastructure/configuration/settings.py:86`, `.env.example:201`), and whoever asks is told what the account may read |
| `WikiAuthoringMemory.cfg` | `OnlyReadersWrite` | `W/infrastructure/inmemory/wiki_tools.py:8-9`: the same restrictions as a wiki; `create_page` does not ask who may read the space |

## 4. What is proved

TLAPS proves, for every value of the constants that satisfies the assumptions of
the module:

**`MailAgentProofs`, approvals** (any set of calls, any policy, any budgets).
`TypeCorrect`, `ExecutionsAreApproved`, `AnswersServeOnce`,
`InterruptedTurnsRunNothing`, `FloorWasAsked`, `OwnerIsAskedWithinBudget`,
`ExecutionsAreWithinApprovals`. None of these is inductive: that an executed call has an
approved request depends on where the answer was a step earlier. `AnswersInvariant` adds
that an answer is in exactly one place: in the ledger, held by one slot, or named by one
audit record (`HeldAnswers`, `HeldOnce`, `AuditedAnswers`), that slots hold answers only
while the batch runs (`RunningOnlyThen`), that an interrupted turn has an empty ledger
(`InterruptedEmpty`), and that a gated call executes under a recorded approval of its
own key (`ExecutedUnderRecord`). `RequestsInv` is about the requests alone: each
standing answer was given by the user, a recorded approval was granted (by a standing
answer only outside the floor), and the floor never has a standing answer.
`ExecutionsAreApproved` and `FloorWasAsked` follow from the two together.
`OwnerIsAskedWithinBudget` counts: the questions a turn has put (`Asked`) and the calls
of the open round that are still to be put to the owner (`Open`) are together no more
than the question rounds begun times the size of a batch (`QuestionsInv`). A round pays
for all its calls when it opens; an "approve all" given within it only takes calls out
of `Open`, since no standing answer is ever withdrawn. `ExecutionsAreWithinApprovals`
counts too, for each gated capability and target: what ran in a turn (`Ran`) and the
calls that were told yes and have yet to run (`Ready`) are together no more than the
requests of that turn that were not declined (`Allowed`). A request is added exactly
where a call becomes ready, and a call stops being ready where it runs (`ApprovalsInv`).
Answers of earlier turns do not enter into it, although the ledger may hand one to a
call: no gated call is ready without a request of its own turn, since the batch is empty
between turns and a gated call never starts `clear` (`Batched`).

**`GmailServerProofs`, credentials** (any number of calls and grants).
`CredentialsTypeCorrect`, which includes that one process listens at a time and one task
of the server writes at a time; `GivenTokensAreAlive`, which needs `MaxDelay <= Margin`:
the timeout of the token endpoint, 30 s, is below the margin of 60 s. The invariant
relates what we believe of the token to what Google does through the age of the answer.

**`GmailServerProofs`, mailbox** (any callers, requests, attempts; both dialects).
`PromisesKept`: `GmailMailbox` implements `MailCalls`, every step being a step of
the abstract specification or a stutter. `SystemLabelsAreKept`: although the kind
of a label is checked in one request and the label deleted in another.
`TypeCorrect`: a message never carries a label the mailbox has not, and no request is
attempted more often than the client allows.

**`ToolRoutingProofs`** (any servers, bindings and deployments, any number of
calls; the delivered skills). `AdvertisedCapabilitiesAreServed`,
`ReadOnlyServersAreUntouched`, `CallsStayOnTheirServer`, `ClosedIsClosed`, from
`NamesAssumption` (the markers are no servers) and `DeploymentsAssumption` (a
deployment gives every skill of its agent a server or none). The properties look at
the operation under way; the invariant `CallInv` adds what is still to come: all
that a call has left is declared by its own skill and resolved in its scope
(`OwnScope`), except in the wording of a mail confirmation, and what waits for a
server was sent there through a bound scope. The lemmas `InvocationsStayInScope`,
`WordingsStayInScope`, `AdvertisedAreBound` and `BoundAreServed` are the facts about
the tables and the two filters it starts from.

**`WikiConversationProofs`** (any conversations on either channel, pages, preferences
and bounds). `DecisionsAreTheirOwn`, `TicketsAreNeeded`, `RuntimesTakeTheirStores`, and
`ImplementsOneTimeConsent`: the whole of the module refines `OneTimeConsent`. The
invariant is in two halves. `RequestInv` is about one request: after n decisions, the
n-th suspended call has said what the n-th decision says (`Decided`, with the rank of a
call among the suspended ones as the link, `Rank`), and whatever is approved was said yes
to. `StoreInv` is about what lasts: what a runtime keeps is of this life of its
conversation, and what waits in a store is open (`Stores`); a ticket being performed was
confirmed here and not performed before (`Performing`); what was performed for a ticket
was performed once, with its arguments (`Logged`). The refinement needs the latter for
"at most once": `PerformConfirmed` may append only because no entry of the log names its
ticket yet.

**`WikiAuthoringProofs`** (any people, spaces, pages, dataset and bounds; every
backend). `NoLostUpdates`, `FinishedEditsSurvive`, `HistoriesAreWhole`,
`NothingElseIsLost`, `RepliesHaveTheirComment`, `WritersAreReaders`,
`ImplementsVersionedPages`. `FinishedEditsSurvive` is about the pages whose version the
server gives, whatever pages those are. That nothing is overwritten says something of
every revision in a history, so the invariant carries it for all of them (`Later`,
`Exact`), with the shape of the history (`Whole`: consecutive versions down to the
first, the head being the latest) and with what an Atlassian update in flight has been
compared with (`CallsInv`). The dataset is assumed to be consistent with itself
(`PagesAssumption`). `RepliesHaveTheirComment` holds because comments are numbered as they
come (`Threaded`) and are never dropped. `WritersAreReaders` rests on the reads that precede
each write and on a page keeping its space and its restriction; it is about the servers
(`backend # "memory"`: in memory `create_page` does not ask, one of the disagreements above)
and a dataset whose own authors may read it (`DatasetIsReadable`).

**`MailAgentProofs`, labels** (any names, folding, identifiers and messages).
`NamesAreUnique`, `FilingsAreTrue`, `LabelsAreKept`. The lemma `Minted` says that an
identifier minted for a name is free and not the system's, from `CandidatesAssumption`
(a name has candidates of its own, none of them a system label, and the system's names
differ after folding) and `LeastNatural` of `OrderLemmas`.

**`WikiReadingProofs`** (any pages, requests, people and backends, any number of terms,
attempts, pages and changes). `CallsAreOnCourse` is the inductive invariant `CallInv`:
what a call has read, followed by what is still to be read, is what it is meant to read
(`OnCourse`), everything read was one that whoever it is held to (`Entitled`) may see
(`ReadsAreAllowed`), and the last query of an answer is the question's subject
(`Asking`). The properties are about what is told, so each theorem first shows that
nothing changes a told answer while its call is over, then looks at the steps that tell
(`StepsThatTell`). `NothingHidden`, `SourcesAreWhatWasRead` and `NothingIsDropped`
follow from what was read; `UntruncatedTellsAll` and `SilenceIsTrue` from the lemmas
about selection: `SelectionBeginsAnOrder` (a result is the first part of an arrangement
of all matches), `UntruncatedTakesAll`, and `LadderEndsWithSubject` (the queries an
answer tries get weaker and end with one every page about the subject matches).
`ReportsAreSoberAlways` needs in addition that what was read of the dates of an
untouched page still stands (`DatesStand`), and `AgesAreRight`: what is assessed has the
age and the verdict of its date, at every threshold and ahead of the clock.
`FailuresSayWhy` covers both conversions: the first code of a text is the failure's own,
and prose misleads only by what it speaks of. That `"shared"` serves nobody but its
account is what `NothingHidden` needs of `Serves`; where the connection names no
account, the theorem says what is left, that nobody is told of a page the account may
not read.

**`MailReadingProofs`** (any mailbox, requests and backends). `MailCallsAreOnCourse` is
the inductive invariant: as above, and, of a Gmail listing whose headers are being
fetched, that every listed message nobody has touched matches the query, and every
other untouched match has an excuse (`ListingStands`): it is of the last day, which
Gmail leaves out, or the listing is full of messages no older. What the official server
gives no date is excused where dates are asked for. `ToldIsWhatWasFound` is a
second invariant about what was told and how: at once by the local mailboxes (`AtOnce`),
filtered out of conversations by the official server (`ByThreads`), header by header by
Gmail (`ByListing`). `ResultsAlwaysMatch`, `UntruncatedSearchTellsAll`, `PagesAreTheTop`,
`AnalysesRestOnEverything`, `SourcesAreAskedFor` and `RepliesStay` follow from the two
and from `OrderLemmas`: `InOrderArranges` (a finite set put in a strict total order holds
each member once, and in order) and `FirstOfIsPrefix`.
Both modules assume a dataset, requests and rights that fit their types
(`ReadingAssumption`).

Each module also has the theorem that its state keeps its types.

Only model-checked are the liveness properties (`TurnEnds`, `EveryTurnEnds`,
`EveryCallAnswers`, `ConsentIsRecoverable`, `CallEnds`): fairness and `ENABLED` are out
of the prover's reach. Every safety property of the passing runs, and every refinement,
is a theorem, those of the further configurations included. The findings are
counterexamples, which TLC gives.

## 5. What is not modelled

- MIME decoding, wire payloads, rendering as text: conversions without control. Where
  a property is about one (failure codes, CQL and Gmail queries, dates, identifiers
  minted from names) it is modelled by what it does.
- What a language model writes: the catalogue of categories, the parsing of due dates,
  the wording of answers. What it may cite is modelled.
- Drafts, read state and archiving of the two local mailboxes; the mail draft store, a
  dictionary.
- The Mail agent's HTTP channel, whose store, runner and cache are those of
  `WikiConversation`; identity of callers, token checks and transports.
- Of the routing: mock backends, the single server set by environment variables, the
  discovery command, and authentication, which decides whether a session opens.
- Settings, clients of model providers, logging: read once, no state.
- `ygo74.agent_runtime`, beyond what this code uses of it.

## 6. Plan

1. The Mail agent's resolver over HTTP (`M/adapters/maf/tickets.py`): it differs from the
   Wiki agent's in what it describes and in standing answers, which have no place there.
2. Drafts, read state and archiving of the two local mailboxes, beside the labels they
   already share in `MailLabels`.
