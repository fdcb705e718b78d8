-------------------------- MODULE WikiConversation --------------------------
(***************************************************************************)
(* Conversations with the Wiki agent, at a console and over HTTP, from the *)
(* message of the owner to the calls that reach the wiki.                  *)
(*                                                                         *)
(* The framework suspends the gated calls of a batch and takes one         *)
(* decision for each, in the order of the calls.  At a console the owner   *)
(* is asked.  Over HTTP nobody is: every suspended call is declined, and a *)
(* ticket with its exact arguments is kept for a later request to CONFIRM  *)
(* or CANCEL.  Drafts, tickets and the ledger belong to the runtime of one *)
(* conversation and go with it.                                            *)
(*                                                                         *)
(* WikiAuthoring continues where this module appends to its log.  The      *)
(* requests of one conversation are served one at a time.                  *)
(***************************************************************************)
EXTENDS Naturals, Sequences, FiniteSets

CONSTANTS
  Conversations,   \* keys of the conversation cache: subject, conversation id
  Deployments,     \* which conversations are held, by which channel, and as a
                   \* bound the messages of each
  Pages,
  Texts,           \* comment bodies
  Offered,         \* write capabilities the manifest declares
  AlwaysConfirm,   \* confirmation preferences: always_confirm_tools
  AutoApprove,     \* confirmation preferences: auto_approved_tools
  RoundBudget,     \* max_total_rounds
  QuestionBudget,  \* max_approval_rounds
  BatchSize,       \* bound: calls of one model answer
  MaxDrafts,       \* bound: drafts composed
  MaxTickets,      \* bound: tickets raised
  MaxLog,          \* bound: operations performed
  MaxLives         \* bound: runtimes built for one conversation

None       == "none"
WriteTools == {"create_page", "update_page", "add_comment", "delete_page"}
FromDraft  == {"create_page", "update_page"}

\* A reference is a position in drafts, maybe one nobody composed yet.
Call ==
  [tool : FromDraft, on : 1 .. MaxDrafts, text : {None}]
    \cup [tool : {"delete_page"}, on : Pages, text : {None}]
    \cup [tool : {"add_comment"}, on : Pages, text : Texts]

Calls == {call \in Call : call.tool \in Offered}

ASSUME ChannelsAssumption ==
  \A d \in Deployments :
    /\ DOMAIN d \subseteq Conversations
    /\ d \in [DOMAIN d -> [channel : {"console", "http"}, turns : Nat, commands : Nat]]
ASSUME ToolsAssumption    == Offered \cup AlwaysConfirm \cup AutoApprove \subseteq WriteTools
ASSUME BoundsAssumption   ==
  /\ {RoundBudget, QuestionBudget, BatchSize} \subseteq Nat
  /\ {MaxDrafts, MaxTickets, MaxLog, MaxLives} \subseteq Nat

VARIABLES
  held,      \* the deployment
  turns,     \* ordinary messages of each conversation so far
  commands,  \* CONFIRMs and CANCELs of each conversation so far
  life,      \* runtimes built for each conversation so far
  live,      \* conversations that have a runtime
  phase,     \* what the request of each conversation is at
  rounds,    \* batches of the turn
  batch,     \* the calls of the model answer being worked on
  decisions, \* what the framework is told of the suspended ones, in order
  working,   \* the ticket being performed, 0 if none
  drafts,    \* every draft composed: the conversation and runtime it was composed in
  stored,    \* references in the draft store of each conversation
  tickets,   \* every ticket raised
  pending,   \* tickets in the store of each conversation
  overdue,   \* tickets older than their lifetime
  ledger,    \* recorded answers of each conversation, oldest first
  log        \* operations performed at the wiki

request == <<phase, rounds, batch, decisions, working>>
runtime == <<stored, pending, ledger>>
vars == <<held, turns, commands, life, live, request, drafts, tickets, runtime, overdue, log>>

-----------------------------------------------------------------------------
(* What is gated, and how a call is described. *)

\* WikiSecurityFloor.
Floor == {"update_page", "delete_page"}

\* WikiToolCatalog: confirmation_required_by_default.
GatedByDefault == {"create_page", "update_page", "delete_page"}

\* floor > always_confirm > auto_approve > default.
Gated(tool) ==
  \/ tool \in Floor
  \/ tool \in AlwaysConfirm
  \/ tool \in GatedByDefault \ AutoApprove

\* The target of the request: the draft, or the page whatever is said about it.
Key(call) == <<call.tool, call.on>>

\* WikiDraftStore.get: the draft is in the store of this runtime.
Held(c, call) == call.tool \in FromDraft => call.on \in stored[c]

\* The title of a page to delete is read for the request: a page that is gone or
\* closed to the owner is described without, any other failure is passed on.
MayFailToRead(call) == call.tool = "delete_page"

\* WikiConfirmationPresenter.present: the outcomes there can be.
Describable(c, call)   == Held(c, call)
Undescribable(c, call) == ~Held(c, call) \/ MayFailToRead(call)

Waiting(c) == {i \in DOMAIN batch[c] : batch[c][i].state = "waiting"}

\* The position of the n-th suspended call.
Suspended(c, n) ==
  CHOOSE i \in Waiting(c) : Cardinality({j \in Waiting(c) : j <= i}) = n

\* The suspended call the resolver is at.
Asked(c) == Suspended(c, Len(decisions[c]) + 1)

Undecided(c) == phase[c] = "asking" /\ Len(decisions[c]) < Cardinality(Waiting(c))

-----------------------------------------------------------------------------
Init ==
  /\ held \in Deployments
  /\ turns = [c \in Conversations |-> 0]
  /\ commands = [c \in Conversations |-> 0]
  /\ life = [c \in Conversations |-> 0]
  /\ live = {}
  /\ phase = [c \in Conversations |-> "idle"]
  /\ rounds = [c \in Conversations |-> 0]
  /\ batch = [c \in Conversations |-> << >>]
  /\ decisions = [c \in Conversations |-> << >>]
  /\ working = [c \in Conversations |-> 0]
  /\ drafts = << >>
  /\ stored = [c \in Conversations |-> {}]
  /\ tickets = << >>
  /\ pending = [c \in Conversations |-> {}]
  /\ overdue = {}
  /\ ledger = [c \in Conversations |-> << >>]
  /\ log = << >>

\* A request is let in: the conversation of its key is leased, and composed
\* first when the cache has none.
Lease(c) ==
  /\ phase[c] = "idle"
  /\ c \notin live => life[c] < MaxLives
  /\ live' = live \cup {c}
  /\ life' = [life EXCEPT ![c] = IF c \in live THEN @ ELSE @ + 1]

\* An ordinary message: the model is given the turn.
Ask(c) ==
  /\ Lease(c)
  /\ turns[c] < held[c].turns
  /\ turns' = [turns EXCEPT ![c] = @ + 1]
  /\ phase' = [phase EXCEPT ![c] = "model"]
  /\ rounds' = [rounds EXCEPT ![c] = 0]
  /\ UNCHANGED <<held, commands, batch, decisions, working, drafts, tickets, runtime, overdue,
                 log>>

\* draft_page_content: never gated, it only fills the draft store.
Draft(c) ==
  /\ phase[c] = "model"
  /\ Len(drafts) < MaxDrafts
  /\ drafts' = Append(drafts, [home |-> c, life |-> life[c]])
  /\ stored' = [stored EXCEPT ![c] = @ \cup {Len(drafts) + 1}]
  /\ UNCHANGED <<held, turns, commands, life, live, request, tickets, pending, ledger, overdue, log>>

\* mutant: only rounds that question somebody are limited
QuestionsOnly(c) == held[c].channel = "console" /\ rounds[c] >= QuestionBudget

\* will_question: a console asks for every suspended call, HTTP never asks, so
\* only the total limits a model that keeps proposing.
OverBudget(c) ==
  \/ rounds[c] >= RoundBudget
  \/ held[c].channel = "console" /\ rounds[c] >= QuestionBudget

\* The model answers with a batch of calls; interrupt_on suspends the gated ones.
\* A turn of ungated calls alone ends at the step limit of the framework.
Propose(c) ==
  /\ phase[c] = "model"
  /\ \E n \in 1 .. BatchSize : \E proposal \in [1 .. n -> Calls] :
       /\ Len(tickets) + n <= MaxTickets
       /\ Len(log) + n <= MaxLog
       /\ batch' = [batch EXCEPT ![c] = [i \in 1 .. n |->
         [call |-> proposal[i], said |-> None,
          state |-> IF Gated(proposal[i].tool) THEN "waiting" ELSE "clear"]]]
  /\ phase' = [phase EXCEPT ![c] =
       IF \E i \in DOMAIN batch'[c] : batch'[c][i].state = "waiting" THEN "asking" ELSE "running"]
  /\ rounds[c] = RoundBudget => phase'[c] = "asking"
  /\ UNCHANGED <<held, turns, commands, life, live, rounds, decisions, working, drafts, tickets,
                 runtime, overdue, log>>

\* The turn is over budget: the answers recorded for the owner are dropped,
\* everything suspended is declined, and the turn ends when the rest has run.
Interrupt(c) ==
  /\ phase[c] = "asking"
  /\ decisions[c] = << >>
  /\ OverBudget(c)
  /\ ledger' = [ledger EXCEPT ![c] = << >>]
  /\ batch' = [batch EXCEPT ![c] = [i \in DOMAIN @ |->
       IF i \in Waiting(c) THEN [@[i] EXCEPT !.state = "declined"] ELSE @[i]]]
  /\ phase' = [phase EXCEPT ![c] = "stopping"]
  /\ UNCHANGED <<held, turns, commands, life, live, rounds, decisions, working, drafts, tickets,
                 stored, pending, overdue, log>>

\* The resolver moves on to the next suspended call.
Decide(c, approved, said) ==
  /\ decisions' = [decisions EXCEPT ![c] = Append(@, approved)]
  /\ batch' = [batch EXCEPT ![c][Asked(c)].said = said]
  /\ UNCHANGED <<held, turns, commands, life, live, phase, rounds, working, drafts, stored,
                 overdue, log>>

InRound(c) == Undecided(c) /\ (decisions[c] # << >> \/ ~OverBudget(c))

\* A call nobody can describe is declined without a question or a ticket.
DeclineUndescribed(c) ==
  /\ InRound(c)
  /\ Undescribable(c, batch[c][Asked(c)].call)
  /\ Decide(c, FALSE, "undescribed")
  /\ UNCHANGED <<tickets, pending, ledger>>

\* mutant: over HTTP the framework is told to go on
HttpVerdict == TRUE

\* Over HTTP every call is declined, whatever is kept for later.
Declined == FALSE

\* The ticket stores the call with its arguments, for this conversation.
RaiseTicket(c) ==
  /\ InRound(c)
  /\ held[c].channel = "http"
  /\ Describable(c, batch[c][Asked(c)].call)
  /\ tickets' = Append(tickets, [home |-> c, life |-> life[c],
                                 call |-> batch[c][Asked(c)].call, fate |-> "open"])
  /\ pending' = [pending EXCEPT ![c] = @ \cup {Len(tickets) + 1}]
  /\ Decide(c, Declined, "ticket")
  /\ UNCHANGED ledger

\* ConsoleApprovalResolver._decide: asked, recorded, and told the framework.
AskOwner(c, yes) ==
  /\ InRound(c)
  /\ held[c].channel = "console"
  /\ Describable(c, batch[c][Asked(c)].call)
  /\ ledger' = [ledger EXCEPT ![c] =
       Append(@, [key |-> Key(batch[c][Asked(c)].call), yes |-> yes])]
  /\ Decide(c, yes, IF yes THEN "yes" ELSE "no")
  /\ UNCHANGED <<tickets, pending>>

\* mutant: the decisions are handed over last first
FromTheEnd(c, i) == decisions[c][Len(decisions[c]) + 1 - Cardinality({j \in Waiting(c) : j <= i})]

\* resume_command: the decision at a position is for the call at that position.
DecisionFor(c, i) == decisions[c][Cardinality({j \in Waiting(c) : j <= i})]

\* Every suspended call has its decision: the framework goes on.
Resume(c) ==
  /\ phase[c] = "asking"
  /\ decisions[c] # << >>
  /\ ~Undecided(c)
  /\ batch' = [batch EXCEPT ![c] = [i \in DOMAIN @ |->
       IF i \in Waiting(c)
         THEN [@[i] EXCEPT !.state = IF DecisionFor(c, i) THEN "approved" ELSE "declined"]
         ELSE @[i]]]
  /\ decisions' = [decisions EXCEPT ![c] = << >>]
  /\ phase' = [phase EXCEPT ![c] = "running"]
  /\ UNCHANGED <<held, turns, commands, life, live, rounds, working, drafts, tickets, runtime,
                 overdue, log>>

-----------------------------------------------------------------------------
(* Running a capability. *)

Recorded(c, call) == {i \in DOMAIN ledger[c] : ledger[c][i].key = Key(call)}

Oldest(c, call) == CHOOSE i \in Recorded(c, call) : \A j \in Recorded(c, call) : i <= j

\* ConfirmationBroker.resolve takes the oldest answer under the key of the call.
LedgerWithout(c, k) ==
  [i \in 1 .. Len(ledger[c]) - 1 |-> IF i < k THEN ledger[c][i] ELSE ledger[c][i + 1]]

AfterTaking(c, call) ==
  IF Gated(call.tool) /\ Recorded(c, call) # {}
    THEN LedgerWithout(c, Oldest(c, call))
    ELSE ledger[c]

\* GatedWikiOperationRunner.execute: what the gate lets through.
Passes(c, call) ==
  Gated(call.tool) =>
    Recorded(c, call) # {} /\ ledger[c][Oldest(c, call)].yes

\* The draft is looked up, or the page of a deletion read, before the broker is
\* asked; past the gate the wiki can still refuse.
Invoke(c, call, said, ticket) ==
  \/ /\ Undescribable(c, call)
     /\ UNCHANGED <<ledger, log>>
  \/ /\ Held(c, call)
     /\ ledger' = [ledger EXCEPT ![c] = AfterTaking(c, call)]
     /\ \/ UNCHANGED log
        \/ /\ Passes(c, call)
           /\ log' = Append(log, [home |-> c, life |-> life[c], call |-> call,
                                  said |-> said, ticket |-> ticket])

\* SkillToolAdapter._run: a call the framework did not reject; those of one
\* batch run as concurrent tasks.
RunCall(c, i) ==
  /\ phase[c] \in {"running", "stopping"}
  /\ i \in DOMAIN batch[c]
  /\ batch[c][i].state \in {"approved", "clear"}
  /\ Invoke(c, batch[c][i].call, batch[c][i].said, 0)
  /\ batch' = [batch EXCEPT ![c][i].state = "ran"]
  /\ UNCHANGED <<held, turns, commands, life, live, phase, rounds, decisions, working, drafts,
                 tickets, stored, pending, overdue>>

\* Every call has its result: the model is given them, unless the turn was
\* interrupted.
BatchDone(c) ==
  /\ phase[c] \in {"running", "stopping"}
  /\ \A i \in DOMAIN batch[c] : batch[c][i].state \in {"ran", "declined"}
  /\ batch' = [batch EXCEPT ![c] = << >>]
  /\ rounds' = [rounds EXCEPT ![c] = IF @ < RoundBudget THEN @ + 1 ELSE @]
  /\ phase' = [phase EXCEPT ![c] = IF @ = "running" THEN "model" ELSE "idle"]
  /\ UNCHANGED <<held, turns, commands, life, live, decisions, working, drafts, tickets, runtime,
                 overdue, log>>

\* The model answers in words, or fails: the turn is over either way.
Reply(c) ==
  /\ phase[c] = "model"
  /\ phase' = [phase EXCEPT ![c] = "idle"]
  /\ UNCHANGED <<held, turns, commands, life, live, rounds, batch, decisions, working, drafts,
                 tickets, runtime, overdue, log>>

-----------------------------------------------------------------------------
(* Tickets. *)

\* A message that is nothing but CONFIRM or CANCEL and a ticket is a command, and
\* the model never sees it.  A console has no commands.
Command(c) ==
  /\ Lease(c)
  /\ held[c].channel = "http"
  /\ commands[c] < held[c].commands
  /\ commands' = [commands EXCEPT ![c] = @ + 1]
  /\ UNCHANGED turns

\* PendingConfirmationStore.claim.
Claimable(c, t) == t \in pending[c] /\ t \notin overdue

\* mutant: a claim leaves the ticket in the store
Kept(c, t) == pending[c]

\* A claim takes the ticket out of the store, whichever way it is answered.
Claimed(c, t) == pending[c] \ {t}

\* "CONFIRM t", read before the model is given the message.  The approval is
\* recorded, and the capability called again with the arguments of the ticket.
Confirm(c, t) ==
  /\ Command(c)
  /\ Claimable(c, t)
  /\ Len(log) < MaxLog
  /\ tickets' = [tickets EXCEPT ![t].fate = "confirmed"]
  /\ pending' = [pending EXCEPT ![c] = Claimed(c, t)]
  /\ ledger' = [ledger EXCEPT ![c] = Append(@, [key |-> Key(tickets[t].call), yes |-> TRUE])]
  /\ working' = [working EXCEPT ![c] = t]
  /\ phase' = [phase EXCEPT ![c] = "confirming"]
  /\ UNCHANGED <<held, rounds, batch, decisions, drafts, stored, overdue, log>>

\* "CANCEL t" consumes the ticket too.
Cancel(c, t) ==
  /\ Command(c)
  /\ Claimable(c, t)
  /\ tickets' = [tickets EXCEPT ![t].fate = "cancelled"]
  /\ pending' = [pending EXCEPT ![c] = Claimed(c, t)]
  /\ UNCHANGED <<held, request, drafts, stored, ledger, overdue, log>>

\* A ticket this store cannot hand out is reported, and nothing else happens.
ReportUnknown(c, t) ==
  /\ Command(c)
  /\ ~Claimable(c, t)
  /\ UNCHANGED <<held, request, drafts, tickets, runtime, overdue, log>>

PerformConfirmed(c) ==
  /\ phase[c] = "confirming"
  /\ Invoke(c, tickets[working[c]].call, "ticket", working[c])
  /\ working' = [working EXCEPT ![c] = 0]
  /\ phase' = [phase EXCEPT ![c] = "idle"]
  /\ UNCHANGED <<held, turns, commands, life, live, rounds, batch, decisions, drafts, tickets,
                 stored, pending, overdue>>

\* Fifteen minutes pass.
Expire(t) ==
  /\ t \notin overdue
  /\ tickets[t].fate = "open"
  /\ overdue' = overdue \cup {t}
  /\ UNCHANGED <<held, turns, commands, life, live, request, drafts, tickets, runtime, log>>

-----------------------------------------------------------------------------
(* Conversations come and go. *)

\* mutant: the tickets of retired conversations are found again
TicketsKept(gone) == pending

TicketsLeft(gone) == [c \in Conversations |-> IF c \in gone THEN {} ELSE pending[c]]

\* A runtime goes, and with it everything it kept in memory.
Drop(gone) ==
  /\ live' = live \ gone
  /\ stored' = [c \in Conversations |-> IF c \in gone THEN {} ELSE stored[c]]
  /\ pending' = TicketsLeft(gone)
  /\ ledger' = [c \in Conversations |-> IF c \in gone THEN << >> ELSE ledger[c]]

\* The cache retires a conversation nobody leases, idle too long or one too many.
Retire(c) ==
  /\ c \in live
  /\ held[c].channel = "http"
  /\ phase[c] = "idle"
  /\ Drop({c})
  /\ UNCHANGED <<held, turns, commands, life, request, drafts, tickets, overdue, log>>

\* The process ends, whatever it was doing, and is started again.
Restart ==
  /\ live # {}
  /\ Drop(live)
  /\ phase' = [c \in Conversations |-> "idle"]
  /\ rounds' = [c \in Conversations |-> 0]
  /\ batch' = [c \in Conversations |-> << >>]
  /\ decisions' = [c \in Conversations |-> << >>]
  /\ working' = [c \in Conversations |-> 0]
  /\ UNCHANGED <<held, turns, commands, life, drafts, tickets, overdue, log>>

\* The steps of the loop, the framework and the capabilities.
Working(c) ==
  \/ Interrupt(c) \/ DeclineUndescribed(c) \/ RaiseTicket(c) \/ Resume(c)
  \/ \E yes \in BOOLEAN : AskOwner(c, yes)
  \/ \E i \in 1 .. BatchSize : RunCall(c, i)
  \/ BatchDone(c)
  \/ PerformConfirmed(c)

\* The steps of the model.
Modelling(c) == Propose(c) \/ Reply(c)

Next ==
  \/ \E c \in DOMAIN held : Ask(c) \/ Draft(c) \/ Modelling(c) \/ Working(c) \/ Retire(c)
  \/ \E c \in DOMAIN held, t \in DOMAIN tickets :
       Confirm(c, t) \/ Cancel(c, t) \/ ReportUnknown(c, t)
  \/ \E t \in DOMAIN tickets : Expire(t)
  \/ Restart

Spec == Init /\ [][Next]_vars

\* The owner answers at the console, the loop runs, and the model answers in
\* words or calls; nothing makes it stop calling.
FairSpec ==
  /\ Spec
  /\ \A c \in Conversations : 
       /\ WF_vars(c \in DOMAIN held /\ Working(c))
       /\ WF_vars(c \in DOMAIN held /\ Modelling(c))

-----------------------------------------------------------------------------
(* Properties. *)

Phases == {"idle", "model", "asking", "running", "stopping", "confirming"}

Answer == [key : WriteTools \X (Pages \cup 1 .. MaxDrafts), yes : BOOLEAN]

Entry == [call : Calls, said : {None, "undescribed", "ticket", "yes", "no"},
          state : {"waiting", "approved", "declined", "clear", "ran"}]

\* Types; and what is not live keeps nothing.
TypeOK ==
  /\ held \in Deployments
  /\ turns \in [Conversations -> Nat]
  /\ commands \in [Conversations -> Nat]
  /\ life \in [Conversations -> 0 .. MaxLives]
  /\ live \subseteq Conversations
  /\ phase \in [Conversations -> Phases]
  /\ rounds \in [Conversations -> 0 .. RoundBudget]
  /\ batch \in [Conversations -> Seq(Entry)]
  /\ decisions \in [Conversations -> Seq(BOOLEAN)]
  /\ working \in [Conversations -> Nat]
  /\ drafts \in Seq([home : Conversations, life : Nat])
  /\ stored \in [Conversations -> SUBSET (1 .. Len(drafts))]
  /\ tickets \in Seq([home : Conversations, life : Nat, call : Calls,
                      fate : {"open", "confirmed", "cancelled"}])
  /\ pending \in [Conversations -> SUBSET (1 .. Len(tickets))]
  /\ overdue \subseteq 1 .. Len(tickets)
  /\ ledger \in [Conversations -> Seq(Answer)]
  /\ log \in Seq([home : Conversations, life : Nat, call : Calls,
                  said : {None, "ticket", "yes", "no", "undescribed"}, ticket : Nat])
  /\ \A c \in Conversations \ live :
       stored[c] = {} /\ pending[c] = {} /\ ledger[c] = << >> /\ phase[c] = "idle"

\* At a console a gated operation is only performed when the owner said yes to
\* that very call of the batch: not to another one about the same page, nor to a
\* neighbour of a call nobody could describe.  Decisions carry no name, only a
\* position (LangGraphApprovalTranslator.resume_command), and the ledger cannot
\* tell two comments on one page apart.
DecisionsReachTheirCalls ==
  \A k \in DOMAIN log :
    Gated(log[k].call.tool) /\ held[log[k].home].channel = "console" => log[k].said = "yes"

\* Over HTTP a gated operation is only performed for a ticket its conversation
\* confirmed, with the arguments the ticket was raised for.  The turn that
\* proposes it never performs it, whatever an earlier confirmation that failed
\* half way left in the ledger.
PerformedWasConfirmed ==
  \A k \in DOMAIN log :
    Gated(log[k].call.tool) /\ held[log[k].home].channel = "http" =>
      /\ log[k].ticket \in DOMAIN tickets
      /\ tickets[log[k].ticket].fate = "confirmed"
      /\ tickets[log[k].ticket].call = log[k].call
      /\ tickets[log[k].ticket].home = log[k].home

\* What is performed was proposed, and drafted, in the same conversation and
\* since its runtime was last built: neither a ticket nor a draft reference
\* survives the retirement of its conversation or a restart, even though the
\* owner still holds both in the text of earlier answers.
NothingOutlivesItsRuntime ==
  \A k \in DOMAIN log :
    /\ log[k].ticket # 0 => tickets[log[k].ticket].life = log[k].life
    /\ log[k].call.tool \in FromDraft =>
         drafts[log[k].call.on] = [home |-> log[k].home, life |-> log[k].life]

\* How the promise of a ticket reads the state: a ticket that is too old, or
\* whose store is gone, has lapsed.
Consent ==
  [t \in DOMAIN tickets |->
    IF tickets[t].fate = "open" /\ (t \in overdue \/ t \notin pending[tickets[t].home])
      THEN "lapsed"
      ELSE tickets[t].fate]

Acts == [t \in DOMAIN tickets |-> Cardinality({k \in DOMAIN log : log[k].ticket = t})]

Promise == INSTANCE OneTimeConsent WITH consent <- Consent, acts <- Acts

\* The stores and the runner keep the promise: a ticket is answered once, never
\* after its lifetime or the end of its conversation, and acted on at most once
\* and only after a yes.
TicketsKeepTheirPromise == Promise!Spec

\* A turn ends, over HTTP too, where will_question is false and only the total
\* number of rounds limits a model that proposes one more gated batch each time.
EveryTurnEnds == \A c \in Conversations : phase[c] # "idle" ~> phase[c] = "idle"
=============================================================================
