---------------------------- MODULE MailApproval ----------------------------
(***************************************************************************)
(* One console conversation of the Mail agent, from the model proposing a  *)
(* batch of capability calls to the audit record each of them leaves.      *)
(*                                                                         *)
(* A turn alternates between the model proposing a batch and the batch     *)
(* running.  In between, ApprovalLoop surfaces the gated calls a round at  *)
(* a time, ConsoleApprovalResolver asks the owner about each of them and   *)
(* records the answer in the ConfirmationLedger, and once every gated call *)
(* of the batch is answered the framework runs the calls it may run.  Each *)
(* of those takes an answer back from the ledger (ConfirmationBroker),     *)
(* goes through ConfirmationGate and is audited.                           *)
(*                                                                         *)
(* The runtime library (ledger, broker, gate, loop) is not in src/: it is  *)
(* modelled from how src/ uses it and from the tests that pin it.          *)
(***************************************************************************)
EXTENDS Naturals, FiniteSets, Sequences

CONSTANTS
  Calls,          \* the calls a model may propose: records [tool, object, argument]
  KnownDrafts,    \* references the draft store holds
  AlwaysConfirm,  \* MAIL_AGENT_ALWAYS_CONFIRM_TOOLS of the owner
  AutoApprove,    \* MAIL_AGENT_AUTO_APPROVED_TOOLS of the owner
  Permitted,      \* tools the owner holds the permission of
  QuestionBudget, \* max_approval_rounds, 25 in the code
  RoundBudget,    \* max_total_rounds, 200 in the code
  MaxBatch,       \* bound: calls in one model response
  MaxTurns,       \* bound: turns of the conversation
  MaxAudit        \* bound: a batch is proposed only below this many audit records

Housekeeping   == {"mark_read", "archive_mail", "apply_label", "remove_label"}
LabelLifecycle == {"create_label", "delete_label"}
WriteTools     == {"create_draft", "send_mail"} \cup Housekeeping \cup LabelLifecycle

None    == "none"
Call    == [tool : WriteTools, object : STRING, argument : STRING]
NoCall  == [tool |-> None, object |-> None, argument |-> None]

ASSUME CallsAssumption  == Calls \subseteq Call
ASSUME BudgetAssumption == QuestionBudget \in Nat \ {0} /\ RoundBudget \in Nat \ {0}
ASSUME BoundAssumption  == MaxBatch \in Nat \ {0} /\ MaxTurns \in Nat /\ MaxAudit \in Nat

Slots     == 1 .. MaxBatch
NoRequest == 0

VARIABLES
  phase,       \* what the conversation is waiting for
  turn,        \* number of the current, or last, turn
  batch,       \* the calls of the current model response, one per slot
  standing,    \* capabilities the owner approved once for all
  requests,    \* every request the presenter built and the owner answered
  ledger,      \* identifiers of the recorded answers nobody took yet
  questions,   \* rounds of this turn that questioned the owner
  rounds,      \* rounds of this turn
  interrupted, \* the turn exceeded a budget
  report,      \* what the console told the owner about the last turn
  audit        \* the audit trail

vars == <<phase, turn, batch, standing, requests, ledger, questions, rounds,
          interrupted, report, audit>>

-----------------------------------------------------------------------------
(* The confirmation policy. *)

\* MailSecurityFloor: confirmation_always_required.
Floor == {"send_mail"}

\* MailToolCatalog: confirmation_required_by_default of the write tools.
GatedByDefault == WriteTools \ {"create_draft", "create_label"}

\* floor > always_confirm > auto_approve > default of the descriptor.
RequiresConfirmation(tool) ==
  \/ tool \in Floor
  \/ tool \in AlwaysConfirm
  \/ tool \in GatedByDefault /\ tool \notin AutoApprove

\* ConsoleApprovalResolver._may_stand: policy.is_overridable.
MayStand(tool) == tool \notin Floor

-----------------------------------------------------------------------------
(* What a call is confirmed under. *)

\* The target of the request built for a call, by the presenter and again by
\* the capability: a label attachment names message and label, mark_read only
\* the message, the others the draft, label or name they act on.
Target(call) ==
  IF call.tool \in {"apply_label", "remove_label"} /\ call.argument # None
  THEN <<call.object, call.argument>>
  ELSE <<call.object>>

Key(call) == <<call.tool, Target(call)>>

\* MailConfirmationPresenter.present raises for a capability it has no case for
\* and for a draft the store does not hold.
Presentable(call) ==
  \/ call.tool = "send_mail" /\ call.object \in KnownDrafts
  \/ call.tool \in Housekeeping \cup LabelLifecycle

\* The input model accepts the arguments, and the named draft exists: what the
\* capability checks before it asks the broker for the answer.
WellFormed(call) ==
  /\ call.tool \in {"mark_read", "apply_label", "remove_label"} => call.argument # None
  /\ call.tool \in {"send_mail", "create_draft"} => call.object \in KnownDrafts

-----------------------------------------------------------------------------
(* The ledger: one queue of answers per key, oldest first.  Identifiers grow *)
(* in recording order, so the head of a queue is its least identifier.       *)

Recorded(key) == {r \in ledger : Key(requests[r].shown) = key}

Oldest(key) == CHOOSE r \in Recorded(key) : \A s \in Recorded(key) : r <= s

-----------------------------------------------------------------------------
(* The batch. *)

FreeSlot == [call |-> NoCall, state |-> "free", shown |-> NoRequest, held |-> NoRequest]

InState(states) == {s \in Slots : batch[s].state \in states}

Settled == {"free", "declined", "done"}

\* mutant: one standing answer of the round makes the whole round free
QuestionsNobody(slots) == \A s \in slots : batch[s].call.tool \notin standing

\* ConsoleApprovalResolver.will_question on the calls of these slots.
WillQuestion(slots) == \E s \in slots : batch[s].call.tool \notin standing

\* The waiting calls surfaced by a round that reaches slot m.
Surfaced(m) == {s \in InState({"waiting"}) : s <= m}

\* ApprovalLoop: a round of any kind, and a round that questions the owner.
OverBudget(m) ==
  \/ rounds = RoundBudget
  \/ WillQuestion(Surfaced(m)) /\ questions = QuestionBudget

\* mutant: only the calls of the round that broke the budget are refused
RefusesRound(m) == Surfaced(m)

\* The loop refuses everything the batch still waits for.
Refused(m) == InState({"waiting"})

Executions(t) == {i \in DOMAIN audit : audit[i].outcome = "EXECUTED" /\ audit[i].turn = t}

-----------------------------------------------------------------------------
Init ==
  /\ phase = "idle"
  /\ turn = 0
  /\ batch = [s \in Slots |-> FreeSlot]
  /\ standing = {}
  /\ requests = << >>
  /\ ledger = {}
  /\ questions = 0
  /\ rounds = 0
  /\ interrupted = FALSE
  /\ report = None
  /\ audit = << >>

\* MailAgentCli hands a message to the session.
StartTurn ==
  /\ phase = "idle"
  /\ turn < MaxTurns
  /\ phase' = "model"
  /\ turn' = turn + 1
  /\ questions' = 0
  /\ rounds' = 0
  /\ interrupted' = FALSE
  /\ report' = None
  /\ UNCHANGED <<batch, standing, requests, ledger, audit>>

\* The slot a proposed call starts in: a gated tool is registered with approval
\* mode always_require, so the framework suspends it.
Proposed(call) ==
  [FreeSlot EXCEPT !.call = call,
                   !.state = IF RequiresConfirmation(call.tool) THEN "waiting" ELSE "clear"]

\* The model answers with a batch of calls.
Propose ==
  /\ phase = "model"
  /\ ~interrupted
  /\ Len(audit) < MaxAudit
  /\ \E n \in Slots : \E proposal \in [1 .. n -> Calls] :
       batch' = [s \in Slots |-> IF s <= n THEN Proposed(proposal[s]) ELSE FreeSlot]
  /\ phase' = IF \E s \in Slots : batch'[s].state = "waiting" THEN "asking" ELSE "running"
  /\ UNCHANGED <<turn, standing, requests, ledger, questions, rounds, interrupted, report, audit>>

\* The framework surfaces some of the waiting calls, in order.
OpenRound(m) ==
  /\ phase = "asking"
  /\ InState({"surfaced"}) = {}
  /\ Surfaced(m) # {}
  /\ ~OverBudget(m)
  /\ batch' = [s \in Slots |-> IF s \in Surfaced(m)
                                THEN [batch[s] EXCEPT !.state = "surfaced"]
                                ELSE batch[s]]
  /\ rounds' = rounds + 1
  /\ questions' = IF WillQuestion(Surfaced(m)) THEN questions + 1 ELSE questions
  /\ UNCHANGED <<phase, turn, standing, requests, ledger, interrupted, report, audit>>

\* mutant: the loop refuses what is left and keeps the recorded answers
KeepAnswers == ledger

\* discard_authorizations: the ledger drops every answer of the owner.
Discarded == {}

\* The turn is over budget: the recorded answers are dropped first, and only
\* then is everything left refused, which completes the batch.
Interrupt(m) ==
  /\ phase = "asking"
  /\ InState({"surfaced"}) = {}
  /\ Surfaced(m) # {}
  /\ OverBudget(m)
  /\ ledger' = Discarded
  /\ batch' = [s \in Slots |-> IF s \in Refused(m)
                                THEN [batch[s] EXCEPT !.state = "declined"]
                                ELSE batch[s]]
  /\ interrupted' = TRUE
  /\ phase' = "running"
  /\ UNCHANGED <<turn, standing, requests, questions, rounds, report, audit>>

\* The answer to the call in slot s, and what the next phase is.
Answered(s, state, request) ==
  /\ batch' = [batch EXCEPT ![s].state = state, ![s].shown = request]
  /\ phase' = IF InState({"waiting", "surfaced"}) = {s} THEN "running" ELSE "asking"

Answers == {"approve", "approve_all", "decline"}

Standing == "standing"

\* mutant: any answer at all is a yes
AnyAnswerApproves(answer) == TRUE

\* Everything but a refusal approves the one operation that was shown.
Approves(answer) == answer # "decline"

\* _record: the decision joins the ledger under the request it was given to.  The
\* answer itself is only kept for the properties.
Record(call, answer) ==
  /\ requests' = Append(requests, [shown |-> call, approved |-> Approves(answer),
                                   answer |-> answer, turn |-> turn])
  /\ ledger' = ledger \cup {Len(requests) + 1}

\* resolve: what the framework is told of a call that was put to the owner.
Verdict(answer) == IF Approves(answer) THEN "approved" ELSE "declined"

\* The calls of a round are put to the owner one by one, in order.
TurnOf(s) ==
  /\ phase = "asking"
  /\ batch[s].state = "surfaced"
  /\ \A o \in InState({"surfaced"}) : s <= o

\* A call nobody can describe is declined, and leaves nothing in the ledger.
DeclineUndescribed(s) ==
  /\ TurnOf(s)
  /\ ~Presentable(batch[s].call)
  /\ Answered(s, "declined", NoRequest)
  /\ UNCHANGED <<turn, standing, requests, ledger, questions, rounds, interrupted, report, audit>>

\* A standing answer removes the question, never the request nor the record.
ApproveByStandingAnswer(s) ==
  /\ TurnOf(s)
  /\ Presentable(batch[s].call)
  /\ batch[s].call.tool \in standing
  /\ Answered(s, "approved", Len(requests) + 1)
  /\ Record(batch[s].call, Standing)
  /\ UNCHANGED <<turn, standing, questions, rounds, interrupted, report, audit>>

\* mutant: a plain yes is kept as a standing answer too
StandsAnyway(tool, answer) == IF answer # "decline" THEN standing \cup {tool} ELSE standing

StandsFor(tool, answer) == IF answer = "approve_all" THEN standing \cup {tool} ELSE standing

\* ConsoleConfirmationPrompt.ask: only an explicit yes approves, and the
\* answer "all" is read only where it is offered.
Ask(s, answer) ==
  /\ TurnOf(s)
  /\ Presentable(batch[s].call)
  /\ batch[s].call.tool \notin standing
  /\ answer = "approve_all" => MayStand(batch[s].call.tool)
  /\ standing' = StandsFor(batch[s].call.tool, answer)
  /\ Answered(s, Verdict(answer), Len(requests) + 1)
  /\ Record(batch[s].call, answer)
  /\ UNCHANGED <<turn, questions, rounds, interrupted, report, audit>>

\* Input ends at a question: MailAgentCli._answer reports the turn as failed.  Its
\* calls are never run; the answers given before stay in the ledger.
FailQuestion(s) ==
  /\ TurnOf(s)
  /\ Presentable(batch[s].call)
  /\ batch[s].call.tool \notin standing
  /\ batch' = [o \in Slots |-> FreeSlot]
  /\ phase' = "idle"
  /\ report' = "nothing was changed"
  /\ UNCHANGED <<turn, standing, requests, ledger, questions, rounds, interrupted, audit>>

-----------------------------------------------------------------------------
(* The batch runs, every call as a task of its own. *)

\* The framework answers a declined call itself and never runs its function.
Runnable == {"approved", "clear"}

\* The input model or the draft store refuses before the broker is asked.
RejectArguments(s) ==
  /\ phase = "running"
  /\ batch[s].state \in Runnable
  /\ ~WellFormed(batch[s].call)
  /\ batch' = [batch EXCEPT ![s].state = "done"]
  /\ UNCHANGED <<phase, turn, standing, requests, ledger, questions, rounds, interrupted, report, audit>>

\* ConfirmationBroker.resolve: nothing for an ungated call, else the oldest
\* answer recorded under its key, else the refusal of the unattended authority.
TakenFor(call) ==
  IF RequiresConfirmation(call.tool) /\ Recorded(Key(call)) # {}
  THEN Oldest(Key(call))
  ELSE NoRequest

\* mutant: the ledger hands an answer out and keeps it
NotConsumed(request) == ledger

Consumed(request) == ledger \ {request}

\* create_draft takes no answer either: its skill passes none to the runner, and
\* while it is gated nobody can describe it, so it never gets this far.
TakeAnswer(s) ==
  /\ phase = "running"
  /\ batch[s].state \in Runnable
  /\ WellFormed(batch[s].call)
  /\ batch' = [batch EXCEPT ![s].state = "taken", ![s].held = TakenFor(batch[s].call)]
  /\ ledger' = Consumed(TakenFor(batch[s].call))
  /\ UNCHANGED <<phase, turn, standing, requests, questions, rounds, interrupted, report, audit>>

\* ConfirmationGate.ensure_approved after its permission check: an ungated
\* call passes, a gated one needs an approved request.
Passes(call, request) ==
  \/ ~RequiresConfirmation(call.tool)
  \/ request # NoRequest /\ requests[request].approved

\* What GatedOperationRunner may audit: the mailbox can still refuse a call
\* the gate lets through.
Outcomes(call, request) ==
  IF call.tool \notin Permitted THEN {"BLOCKED"}
  ELSE IF Passes(call, request) THEN {"EXECUTED", "FAILED"}
  ELSE {"DECLINED"}

Perform(s) ==
  /\ phase = "running"
  /\ batch[s].state = "taken"
  /\ \E outcome \in Outcomes(batch[s].call, batch[s].held) :
       audit' = Append(audit, [call |-> batch[s].call, outcome |-> outcome,
                               request |-> batch[s].held, shown |-> batch[s].shown,
                               turn |-> turn])
  /\ batch' = [batch EXCEPT ![s].state = "done"]
  /\ UNCHANGED <<phase, turn, standing, requests, ledger, questions, rounds, interrupted, report>>

\* Every call has its result: the model is given them.
BatchDone ==
  /\ phase = "running"
  /\ InState(Settled) = Slots
  /\ batch' = [s \in Slots |-> FreeSlot]
  /\ phase' = "model"
  /\ UNCHANGED <<turn, standing, requests, ledger, questions, rounds, interrupted, report, audit>>

\* The model answers in words, or the loop returns the interrupted message.
EndTurn ==
  /\ phase = "model"
  /\ phase' = "idle"
  /\ report' = IF interrupted THEN "interrupted" ELSE "answered"
  /\ UNCHANGED <<turn, batch, standing, requests, ledger, questions, rounds, interrupted, audit>>

\* The model provider fails: MailAgentCli._answer reports the turn as failed,
\* "Nothing was changed.", and the conversation goes on.
FailTurn ==
  /\ phase = "model"
  /\ ~interrupted
  /\ phase' = "idle"
  /\ report' = "nothing was changed"
  /\ UNCHANGED <<turn, batch, standing, requests, ledger, questions, rounds, interrupted, audit>>

Next ==
  \/ StartTurn
  \/ Propose
  \/ \E m \in Slots : OpenRound(m)
  \/ \E m \in Slots : Interrupt(m)
  \/ \E s \in Slots : DeclineUndescribed(s)
  \/ \E s \in Slots : ApproveByStandingAnswer(s)
  \/ \E s \in Slots, answer \in Answers : Ask(s, answer)
  \/ \E s \in Slots : FailQuestion(s)
  \/ \E s \in Slots : RejectArguments(s)
  \/ \E s \in Slots : TakeAnswer(s)
  \/ \E s \in Slots : Perform(s)
  \/ BatchDone
  \/ EndTurn
  \/ FailTurn

Spec == Init /\ [][Next]_vars

\* The loop and the framework take their steps, the person at the console
\* answers, and the model ends a turn it can no longer extend.
FairSpec ==
  /\ Spec
  /\ WF_vars(Next /\ phase \in {"asking", "running"})
  /\ WF_vars(Propose \/ EndTurn)

-----------------------------------------------------------------------------
(* Properties. *)

LiveStates == {"waiting", "surfaced", "approved", "declined", "clear", "taken", "done"}

LiveSlot == [call : Calls, state : LiveStates, shown : Nat, held : Nat]

SlotRecord == {FreeSlot} \cup LiveSlot

RequestRecord ==
  [shown : Calls, approved : BOOLEAN, answer : Answers \cup {Standing}, turn : Nat]

AuditRecord ==
  [call : Calls, outcome : {"EXECUTED", "FAILED", "DECLINED", "BLOCKED"},
   request : Nat, shown : Nat, turn : Nat]

\* Types, and the two counters within their budgets: ApprovalLoop stops a turn
\* before it exceeds max_approval_rounds or max_total_rounds.
TypeOK ==
  /\ phase \in {"idle", "model", "asking", "running"}
  /\ turn \in Nat
  /\ batch \in [Slots -> SlotRecord]
  /\ standing \subseteq WriteTools
  /\ requests \in Seq(RequestRecord)
  /\ ledger \subseteq 1 .. Len(requests)
  /\ questions \in 0 .. QuestionBudget
  /\ rounds \in 0 .. RoundBudget
  /\ interrupted \in BOOLEAN
  /\ report \in {None, "answered", "interrupted", "nothing was changed"}
  /\ audit \in Seq(AuditRecord)

ExecutesGated(entry) == entry.outcome = "EXECUTED" /\ RequiresConfirmation(entry.call.tool)

GatedExecution(i) == ExecutesGated(audit[i])

\* The owner said yes to this very request, or had said yes to all further ones
\* of its capability.
Granted(r) ==
  \/ requests[r].answer \in {"approve", "approve_all"}
  \/ /\ requests[r].answer = Standing
     /\ \E q \in 1 .. r - 1 : /\ requests[q].answer = "approve_all"
                             /\ requests[q].shown.tool = requests[r].shown.tool

\* A gated operation only ever executes under a request the owner granted, for
\* that capability and that target ("an answer never applies to another
\* target"): resolver, ledger, broker and gate together.
ExecutedWasApproved ==
  \A i \in DOMAIN audit : GatedExecution(i) =>
    /\ audit[i].request \in DOMAIN requests
    /\ Granted(audit[i].request)
    /\ Key(requests[audit[i].request].shown) = Key(audit[i].call)

\* One answer never serves two operations, whatever the order in which the
\* tasks of a batch take their answers.
AnswerServesOnce ==
  \A i, j \in DOMAIN audit :
    audit[i].request = audit[j].request /\ audit[i].request # NoRequest => i = j

\* In any turn, no more operations of one kind on one target execute than the
\* owner approved in that very turn: an answer left over from an earlier turn
\* never adds an execution, however the leftovers pile up in the queues.
ExecutionsWithinApprovals ==
  \A t \in 1 .. turn : \A key \in {Key(call) : call \in Calls} :
    RequiresConfirmation(key[1]) =>
      Cardinality({i \in Executions(t) : Key(audit[i].call) = key})
        <= Cardinality({r \in DOMAIN requests :
                          /\ requests[r].turn = t
                          /\ requests[r].answer # "decline"
                          /\ Key(requests[r].shown) = key})

\* Once a turn is interrupted, no gated operation executes any more in it, not
\* even one the owner had approved while the batch was incomplete.
InterruptedRunsNothing ==
  [][interrupted /\ Len(audit') > Len(audit)
       => ~ExecutesGated(audit'[Len(audit')])]_vars

\* An operation the security floor protects is never covered by a standing
\* answer: whatever was answered before, its own request was put to the owner.
FloorIsAlwaysAsked ==
  \A i \in DOMAIN audit :
    GatedExecution(i) /\ audit[i].call.tool \in Floor
      => requests[audit[i].request].answer # Standing

\* The interrogation of one turn is bounded, standing answers or not.
QuestionsAreBounded ==
  \A t \in 1 .. turn :
    Cardinality({r \in DOMAIN requests : requests[r].turn = t /\ requests[r].answer # Standing})
      <= QuestionBudget * MaxBatch

\* A turn ends, even for a model that proposes one more gated batch each time
\* and an owner who approved them all once.
TurnEnds == phase # "idle" ~> phase = "idle"

-----------------------------------------------------------------------------
(* Statements of the documentation the code does not keep. *)

\* "The request the user reads is the request that authorises the call and the
\* request recorded in the audit trail" (doc/users/mail-agent-reference.md).
AuditedRequestWasShown ==
  \A i \in DOMAIN audit : audit[i].request # NoRequest => audit[i].request = audit[i].shown

\* "ConfirmationRejectedError: the user declined the delivery": outside an
\* interrupted turn, a call the owner approved is not refused by the gate.
ApprovedIsNotRejected ==
  ~interrupted =>
    \A i \in DOMAIN audit :
      audit[i].turn = turn /\ audit[i].outcome = "DECLINED"
        => ~requests[audit[i].shown].approved

\* "It stays configurable" (operations.py, of create_draft): a well-formed gated
\* call is put to the owner, so that it can be confirmed at all.
GatedIsConfirmable ==
  ~interrupted =>
    \A s \in Slots :
      batch[s].state = "declined" /\ WellFormed(batch[s].call) => batch[s].shown # NoRequest

\* "that turn failed (...). Nothing was changed." (entrypoint.py), and "Everything
\* still pending was declined and nothing was changed" (adapters/maf/session.py):
\* both are told of a turn that executed nothing.
NothingChangedIsTrue ==
  report \in {"nothing was changed", "interrupted"} => Executions(turn) = {}
=============================================================================
