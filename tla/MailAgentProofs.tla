--------------------------- MODULE MailAgentProofs ---------------------------
(***************************************************************************)
(* Theorems about what the Mail agent asks and does: the approvals of a    *)
(* conversation (MailApproval), for every set of calls, preferences and    *)
(* bound; and the labels its confirmations name (MailLabels), for every    *)
(* set of names, identifiers and messages and every way names reduce to    *)
(* identifiers.                                                            *)
(***************************************************************************)
EXTENDS MailApproval, MailLabels, OrderLemmas, SequenceTheorems, TLAPS

-----------------------------------------------------------------------------
(* Approvals. *)

(***************************************************************************)
(* Where an answer can be: in the ledger, held by a running call, or in    *)
(* the audit trail, and in one of these places only.                       *)
(***************************************************************************)
Held(s) == batch[s].state = "taken" /\ batch[s].held # NoRequest

\* A running call holds an answer the owner gave under its own key, which the
\* ledger gave up.
HeldAnswers ==
  \A s \in Slots : Held(s) =>
    /\ batch[s].held \in DOMAIN requests \ ledger
    /\ Key(requests[batch[s].held].shown) = Key(batch[s].call)

HeldOnce == \A s, t \in Slots : Held(s) /\ Held(t) /\ batch[s].held = batch[t].held => s = t

AuditedAnswers ==
  \A i \in DOMAIN audit : audit[i].request # NoRequest =>
    /\ audit[i].request \in DOMAIN requests \ ledger
    /\ Key(requests[audit[i].request].shown) = Key(audit[i].call)
    /\ \A s \in Slots : Held(s) => batch[s].held # audit[i].request

\* Calls only run while the batch runs, and an interrupted batch runs without
\* any answer to take.
RunningOnlyThen ==
  \A s \in Slots : batch[s].state = "taken" => phase = "running"

InterruptedEmpty ==
  interrupted => ledger = {} /\ phase # "asking" /\ \A s \in Slots : ~Held(s)

\* A gated call executes under a recorded approval of its own key.
ExecutedUnderRecord ==
  \A i \in DOMAIN audit : GatedExecution(i) =>
    /\ audit[i].request \in DOMAIN requests
    /\ requests[audit[i].request].approved
    /\ Key(requests[audit[i].request].shown) = Key(audit[i].call)

IInv ==
  /\ TypeOK
  /\ HeldAnswers
  /\ HeldOnce
  /\ AuditedAnswers
  /\ RunningOnlyThen
  /\ InterruptedEmpty
  /\ ExecutedUnderRecord
  /\ AnswerServesOnce

-----------------------------------------------------------------------------
(* The oldest answer of a queue exists and is in the queue. *)
LEMMA OldestIsRecorded ==
  ASSUME ledger \subseteq Nat, NEW key, Recorded(key) # {}
  PROVE  Oldest(key) \in Recorded(key)
<1>1. Recorded(key) \in SUBSET Nat
  BY DEF Recorded
<1>2. \E r \in Recorded(key) : \A s \in Recorded(key) : r <= s
  BY <1>1, LeastNatural
<1> QED
  BY <1>2 DEF Oldest

(* What a running call takes is an answer recorded under its key, or nothing. *)
LEMMA TakenIsRecorded ==
  ASSUME ledger \subseteq Nat, NEW call
  PROVE  \/ TakenFor(call) = NoRequest
         \/ TakenFor(call) \in ledger /\ Key(requests[TakenFor(call)].shown) = Key(call)
BY OldestIsRecorded DEF TakenFor, Recorded

-----------------------------------------------------------------------------
(* Type correctness. *)

LEMMA TypeInit == Init => TypeOK
<1> SUFFICES ASSUME Init PROVE TypeOK
  OBVIOUS
<1>1. batch \in [Slots -> SlotRecord]
  BY DEF Init, SlotRecord
<1>2. /\ requests \in Seq(RequestRecord)
      /\ audit \in Seq(AuditRecord)
  BY DEF Init
<1>3. ledger \subseteq 1 .. Len(requests)
  BY DEF Init
<1>4. questions \in 0 .. QuestionBudget /\ rounds \in 0 .. RoundBudget
  BY BudgetAssumption DEF Init
<1> QED
  BY <1>1, <1>2, <1>3, <1>4 DEF Init, TypeOK

\* Input ends at one of the questions.
QuestionFails == \E s \in Slots : FailQuestion(s)

(* The turn, the model and the loop keep the types. *)
LEMMA TypeTurn ==
  ASSUME TypeOK, StartTurn \/ Propose \/ BatchDone \/ EndTurn \/ FailTurn \/ QuestionFails
  PROVE  TypeOK'
<1>1. CASE StartTurn
  <2>1. questions' \in 0 .. QuestionBudget /\ rounds' \in 0 .. RoundBudget
    BY <1>1, BudgetAssumption DEF StartTurn
  <2>2. turn' \in Nat
    <3>1. turn \in Nat
      BY DEF TypeOK
    <3>2. turn' = turn + 1
      BY <1>1 DEF StartTurn
    <3> QED
      BY <3>1, <3>2
  <2>3. interrupted' \in BOOLEAN
    BY <1>1 DEF StartTurn
  <2>4. phase' \in {"idle", "model", "asking", "running"} /\ report' = None
    BY <1>1 DEF StartTurn
  <2>5. UNCHANGED <<batch, standing, requests, ledger, audit>>
    BY <1>1 DEF StartTurn
  <2> QED
    BY <2>1, <2>2, <2>3, <2>4, <2>5 DEF TypeOK
<1>2. CASE Propose
  <2>0. PICK n \in Slots : \E proposal \in [1 .. n -> Calls] :
          batch' = [s \in Slots |-> IF s <= n THEN Proposed(proposal[s]) ELSE FreeSlot]
    BY <1>2 DEF Propose
  <2>1. PICK proposal \in [1 .. n -> Calls] :
          batch' = [s \in Slots |-> IF s <= n THEN Proposed(proposal[s]) ELSE FreeSlot]
    BY <2>0
  <2>2. ASSUME NEW s \in Slots, s <= n
        PROVE  Proposed(proposal[s]) \in SlotRecord
    <3>1. proposal[s] \in Calls
      BY <2>2 DEF Slots
    <3> QED
      BY <3>1 DEF Proposed, FreeSlot, SlotRecord, LiveSlot, LiveStates, NoRequest
  <2>3. FreeSlot \in SlotRecord
    BY DEF SlotRecord
  <2>4. batch' \in [Slots -> SlotRecord]
    BY <2>1, <2>2, <2>3
  <2> QED
    BY <1>2, <2>4 DEF Propose, TypeOK
<1>3. CASE BatchDone
  BY <1>3 DEF BatchDone, TypeOK, SlotRecord
<1>4. CASE EndTurn
  BY <1>4 DEF EndTurn, TypeOK
<1>5. CASE FailTurn
  BY <1>5 DEF FailTurn, TypeOK
<1>6. CASE QuestionFails
  BY <1>6 DEF QuestionFails, FailQuestion, TurnOf, TypeOK, SlotRecord
<1> QED
  BY <1>1, <1>2, <1>3, <1>4, <1>5, <1>6
(* Every step but these leaves the phases, the turn and the report alone, so *)
(* what is left are the slots, the answers and the counters.                 *)
LEMMA LiveSlotType ==
  ASSUME TypeOK, NEW s \in Slots, batch[s].state # "free"
  PROVE  batch[s] \in LiveSlot
<1>1. batch[s] \in {FreeSlot} \cup LiveSlot
  BY DEF TypeOK, SlotRecord
<1>2. FreeSlot.state = "free"
  BY DEF FreeSlot
<1>3. batch[s] # FreeSlot
  BY <1>2
<1> QED
  BY <1>1, <1>3

LEMMA StateChangeType ==
  ASSUME TypeOK, NEW s \in Slots, batch[s].state # "free", NEW state \in LiveStates,
         batch' = [batch EXCEPT ![s].state = state]
  PROVE  batch' \in [Slots -> SlotRecord]
<1>1. batch[s] \in LiveSlot
  BY LiveSlotType
<1>2. [batch[s] EXCEPT !.state = state] \in LiveSlot
  BY <1>1 DEF LiveSlot
<1>3. batch \in [Slots -> SlotRecord]
  BY DEF TypeOK
<1> QED
  BY <1>2, <1>3 DEF SlotRecord

LEMMA AnsweredType ==
  ASSUME TypeOK, NEW s \in Slots, batch[s].state # "free", NEW state \in LiveStates,
         NEW request \in Nat, Answered(s, state, request)
  PROVE  batch' \in [Slots -> SlotRecord] /\ phase' \in {"asking", "running"}
<1>1. batch[s] \in LiveSlot
  BY LiveSlotType
<1>2. [batch[s] EXCEPT !.state = state, !.shown = request] \in LiveSlot
  BY <1>1 DEF LiveSlot
<1>3. batch \in [Slots -> SlotRecord]
  BY DEF TypeOK
<1>4. batch' = [batch EXCEPT ![s] = [batch[s] EXCEPT !.state = state, !.shown = request]]
  BY <1>3, <1>1 DEF Answered, LiveSlot
<1> QED
  BY <1>2, <1>3, <1>4 DEF SlotRecord, Answered

LEMMA RecordType ==
  ASSUME TypeOK, NEW call \in Calls, NEW answer \in Answers \cup {Standing},
         Record(call, answer)
  PROVE  requests' \in Seq(RequestRecord) /\ ledger' \subseteq 1 .. Len(requests')
<1> DEFINE request == [shown |-> call, approved |-> Approves(answer), answer |-> answer, turn |-> turn]
<1>1. requests \in Seq(RequestRecord) /\ turn \in Nat /\ ledger \subseteq 1 .. Len(requests)
  BY DEF TypeOK
<1>2. request \in RequestRecord
  BY <1>1 DEF RequestRecord, Approves
<1>3. requests' = Append(requests, request)
  BY DEF Record
<1> HIDE DEF request
<1>4. requests' \in Seq(RequestRecord) /\ Len(requests') = Len(requests) + 1
  BY <1>1, <1>2, <1>3, AppendProperties
<1>5. ledger' = ledger \cup {Len(requests) + 1}
  BY DEF Record
<1>6. Len(requests) \in Nat
  BY <1>1, LenProperties
<1>7. Len(requests) + 1 \in 1 .. Len(requests') /\ 1 .. Len(requests) \subseteq 1 .. Len(requests')
  BY <1>4, <1>6
<1> QED
  BY <1>1, <1>4, <1>5, <1>7
(* Opening and interrupting a round. *)
LEMMA SlotsChangeType ==
  ASSUME TypeOK, NEW T \in SUBSET Slots, \A s \in T : batch[s].state # "free",
         NEW state \in LiveStates,
         batch' = [s \in Slots |-> IF s \in T THEN [batch[s] EXCEPT !.state = state]
                                   ELSE batch[s]]
  PROVE  batch' \in [Slots -> SlotRecord]
<1>1. ASSUME NEW s \in T PROVE [batch[s] EXCEPT !.state = state] \in SlotRecord
  <2>1. batch[s] \in LiveSlot
    BY <1>1, LiveSlotType
  <2> QED
    BY <2>1 DEF LiveSlot, SlotRecord
<1>2. batch \in [Slots -> SlotRecord]
  BY DEF TypeOK
<1> QED
  BY <1>1, <1>2

LEMMA TypeRounds ==
  ASSUME TypeOK, NEW m \in Slots, OpenRound(m) \/ Interrupt(m)
  PROVE  TypeOK'
<1>1. CASE OpenRound(m)
  <2>1. batch' \in [Slots -> SlotRecord]
    <3>1. \A s \in Surfaced(m) : batch[s].state # "free"
      BY DEF Surfaced, InState
    <3>2. Surfaced(m) \in SUBSET Slots
      BY DEF Surfaced, InState
    <3>3. "surfaced" \in LiveStates
      BY DEF LiveStates
    <3> QED
      BY <1>1, <3>1, <3>2, <3>3, SlotsChangeType DEF OpenRound
  <2>2. rounds' \in 0 .. RoundBudget
    <3>1. rounds \in 0 .. RoundBudget /\ rounds # RoundBudget /\ rounds' = rounds + 1
      BY <1>1 DEF OpenRound, OverBudget, TypeOK
    <3> QED
      BY <3>1, BudgetAssumption
  <2>3. questions' \in 0 .. QuestionBudget
    <3>1. questions \in 0 .. QuestionBudget
      BY DEF TypeOK
    <3>2. CASE WillQuestion(Surfaced(m))
      <4>1. questions # QuestionBudget /\ questions' = questions + 1
        BY <1>1, <3>2 DEF OpenRound, OverBudget
      <4> QED
        BY <3>1, <4>1, BudgetAssumption
    <3>3. CASE ~WillQuestion(Surfaced(m))
      BY <1>1, <3>1, <3>3 DEF OpenRound
    <3> QED
      BY <3>2, <3>3
  <2>4. UNCHANGED <<phase, turn, standing, requests, ledger, interrupted, report, audit>>
    BY <1>1 DEF OpenRound
  <2> QED
    BY <2>1, <2>2, <2>3, <2>4 DEF TypeOK
<1>2. CASE Interrupt(m)
  <2>1. batch' \in [Slots -> SlotRecord]
    <3>1. \A s \in Refused(m) : batch[s].state # "free"
      BY DEF Refused, InState
    <3>2. Refused(m) \in SUBSET Slots
      BY DEF Refused, InState
    <3>3. "declined" \in LiveStates
      BY DEF LiveStates
    <3> QED
      BY <1>2, <3>1, <3>2, <3>3, SlotsChangeType DEF Interrupt
  <2>2. ledger' = {} /\ interrupted' \in BOOLEAN /\ phase' = "running"
    BY <1>2 DEF Interrupt, Discarded
  <2>3. UNCHANGED <<turn, standing, requests, questions, rounds, report, audit>>
    BY <1>2 DEF Interrupt
  <2> QED
    BY <2>1, <2>2, <2>3 DEF TypeOK
<1> QED
  BY <1>1, <1>2

(* The answers. *)
LEMMA TypeAnswers ==
  ASSUME TypeOK, NEW s \in Slots, NEW answer \in Answers,
         DeclineUndescribed(s) \/ ApproveByStandingAnswer(s) \/ Ask(s, answer)
  PROVE  TypeOK'
<1>1. batch[s].state = "surfaced"
  BY DEF DeclineUndescribed, ApproveByStandingAnswer, Ask, TurnOf
<1>2. batch[s] \in LiveSlot /\ batch[s].state # "free"
  BY <1>1, LiveSlotType
<1>3. batch[s].call \in Calls
  BY <1>2 DEF LiveSlot
<1>4. Len(requests) + 1 \in Nat
  <2>1. requests \in Seq(RequestRecord)
    BY DEF TypeOK
  <2>2. Len(requests) \in Nat
    BY <2>1, LenProperties
  <2> QED
    BY <2>2
<1>5. {"declined", "approved"} \subseteq LiveStates
  BY DEF LiveStates
<1>6. CASE DeclineUndescribed(s)
  <2>1. batch' \in [Slots -> SlotRecord] /\ phase' \in {"asking", "running"}
    BY <1>2, <1>5, <1>6, AnsweredType DEF DeclineUndescribed, NoRequest
  <2>2. UNCHANGED <<turn, standing, requests, ledger, questions, rounds, interrupted, report, audit>>
    BY <1>6 DEF DeclineUndescribed
  <2> QED
    BY <2>1, <2>2 DEF TypeOK
<1>7. CASE ApproveByStandingAnswer(s)
  <2>1. batch' \in [Slots -> SlotRecord] /\ phase' \in {"asking", "running"}
    BY <1>2, <1>4, <1>5, <1>7, AnsweredType DEF ApproveByStandingAnswer
  <2>2. requests' \in Seq(RequestRecord) /\ ledger' \subseteq 1 .. Len(requests')
    BY <1>3, <1>7, RecordType DEF ApproveByStandingAnswer
  <2>3. UNCHANGED <<turn, standing, questions, rounds, interrupted, report, audit>>
    BY <1>7 DEF ApproveByStandingAnswer
  <2> QED
    BY <2>1, <2>2, <2>3 DEF TypeOK
<1>8. CASE Ask(s, answer)
  <2>1. batch' \in [Slots -> SlotRecord] /\ phase' \in {"asking", "running"}
    BY <1>2, <1>4, <1>5, <1>8, AnsweredType DEF Ask, Verdict
  <2>2. requests' \in Seq(RequestRecord) /\ ledger' \subseteq 1 .. Len(requests')
    <3>1. Record(batch[s].call, answer)
      BY <1>8 DEF Ask
    <3> QED
      BY <1>3, <3>1, RecordType
  <2>3. standing' \subseteq WriteTools
    <3>1. batch[s].call.tool \in WriteTools
      BY <1>3, CallsAssumption DEF Call
    <3>2. standing \subseteq WriteTools
      BY DEF TypeOK
    <3> QED
      BY <1>8, <3>1, <3>2 DEF Ask, StandsFor
  <2>4. UNCHANGED <<turn, questions, rounds, interrupted, report, audit>>
    BY <1>8 DEF Ask
  <2> QED
    BY <2>1, <2>2, <2>3, <2>4 DEF TypeOK
<1> QED
  BY <1>6, <1>7, <1>8
(* The batch running. *)
LEMMA LedgerOfNaturals == TypeOK => ledger \subseteq Nat
<1> SUFFICES ASSUME TypeOK PROVE ledger \subseteq Nat
  OBVIOUS
<1>1. requests \in Seq(RequestRecord) /\ ledger \subseteq 1 .. Len(requests)
  BY DEF TypeOK
<1>2. Len(requests) \in Nat
  BY <1>1, LenProperties
<1> QED
  BY <1>1, <1>2

LEMMA TypeRunning ==
  ASSUME TypeOK, NEW s \in Slots, RejectArguments(s) \/ TakeAnswer(s) \/ Perform(s)
  PROVE  TypeOK'
<1>1. batch[s].state # "free" /\ {"done", "taken"} \subseteq LiveStates
  BY DEF RejectArguments, TakeAnswer, Perform, Runnable, LiveStates
<1>2. batch[s] \in LiveSlot /\ batch \in [Slots -> SlotRecord]
  BY <1>1, LiveSlotType DEF TypeOK
<1>3. CASE RejectArguments(s)
  <2>1. batch' \in [Slots -> SlotRecord]
    BY <1>1, <1>3, StateChangeType DEF RejectArguments
  <2>2. UNCHANGED <<phase, turn, standing, requests, ledger, questions, rounds, interrupted,
                    report, audit>>
    BY <1>3 DEF RejectArguments
  <2> QED
    BY <2>1, <2>2 DEF TypeOK
<1>4. CASE TakeAnswer(s)
  <2> DEFINE taken == TakenFor(batch[s].call)
  <2>1. taken \in Nat
    BY LedgerOfNaturals, TakenIsRecorded DEF NoRequest
  <2>2. batch' = [batch EXCEPT ![s] = [batch[s] EXCEPT !.state = "taken", !.held = taken]]
    BY <1>2, <1>4 DEF TakeAnswer, LiveSlot
  <2>3. ledger' = ledger \ {taken}
    BY <1>4 DEF TakeAnswer, Consumed
  <2> HIDE DEF taken
  <2>4. [batch[s] EXCEPT !.state = "taken", !.held = taken] \in LiveSlot
    BY <1>1, <1>2, <2>1 DEF LiveSlot
  <2>5. batch' \in [Slots -> SlotRecord]
    BY <1>2, <2>2, <2>4 DEF SlotRecord
  <2>6. UNCHANGED <<phase, turn, standing, requests, questions, rounds, interrupted, report,
                    audit>>
    BY <1>4 DEF TakeAnswer
  <2> QED
    BY <2>3, <2>5, <2>6 DEF TypeOK
<1>5. CASE Perform(s)
  <2>1. batch' \in [Slots -> SlotRecord]
    BY <1>1, <1>5, StateChangeType DEF Perform
  <2>2. PICK outcome \in Outcomes(batch[s].call, batch[s].held) :
          audit' = Append(audit, [call |-> batch[s].call, outcome |-> outcome,
                                  request |-> batch[s].held, shown |-> batch[s].shown,
                                  turn |-> turn])
    BY <1>5 DEF Perform
  <2>3. outcome \in {"EXECUTED", "FAILED", "DECLINED", "BLOCKED"}
    BY DEF Outcomes
  <2>4. [call |-> batch[s].call, outcome |-> outcome, request |-> batch[s].held,
         shown |-> batch[s].shown, turn |-> turn] \in AuditRecord
    BY <1>2, <2>3 DEF LiveSlot, AuditRecord, TypeOK
  <2>5. audit' \in Seq(AuditRecord)
    BY <2>2, <2>4, AppendProperties DEF TypeOK
  <2>6. UNCHANGED <<phase, turn, standing, requests, ledger, questions, rounds, interrupted,
                    report>>
    BY <1>5 DEF Perform
  <2> QED
    BY <2>1, <2>5, <2>6 DEF TypeOK
<1> QED
  BY <1>3, <1>4, <1>5

(***************************************************************************)
(* Every state is well typed, and no turn exceeds its two budgets, however *)
(* the calls, the answers and the tasks of the batches interleave.         *)
(***************************************************************************)
LEMMA TypeStep == TypeOK /\ [Next]_vars => TypeOK'
<1> SUFFICES ASSUME TypeOK, [Next]_vars PROVE TypeOK'
  OBVIOUS
<1>1. CASE UNCHANGED vars
  BY <1>1 DEF vars, TypeOK
<1>2. CASE StartTurn \/ Propose \/ BatchDone \/ EndTurn \/ FailTurn \/ QuestionFails
  BY <1>2, TypeTurn
<1>3. CASE \E m \in Slots : OpenRound(m) \/ Interrupt(m)
  BY <1>3, TypeRounds
<1>4. CASE \E s \in Slots : DeclineUndescribed(s) \/ ApproveByStandingAnswer(s)
  BY <1>4, TypeAnswers DEF Answers
<1>5. CASE \E s \in Slots, answer \in Answers : Ask(s, answer)
  BY <1>5, TypeAnswers
<1>6. CASE \E s \in Slots : RejectArguments(s) \/ TakeAnswer(s) \/ Perform(s)
  BY <1>6, TypeRunning
<1> QED
  BY <1>1, <1>2, <1>3, <1>4, <1>5, <1>6 DEF Next, QuestionFails

THEOREM TypeCorrect == Spec => []TypeOK
BY TypeInit, TypeStep, PTL DEF Spec
-----------------------------------------------------------------------------
(* The answers. *)

\* What every step but TakeAnswer and Perform does with the running calls and
\* with the answers: no call comes to hold an answer, no request changes, and
\* an answer that left the ledger does not come back.
KeepsHeld ==
  \A s \in Slots : Held(s)' =>
    Held(s) /\ batch'[s].held = batch[s].held /\ batch'[s].call = batch[s].call

KeepsAnswers ==
  /\ audit' = audit
  /\ DOMAIN requests \subseteq DOMAIN requests'
  /\ \A r \in DOMAIN requests : requests'[r] = requests[r]
  /\ \A r \in DOMAIN requests \ ledger : r \notin ledger'

LEMMA AnswersInit == Init => IInv
<1> SUFFICES ASSUME Init PROVE IInv
  OBVIOUS
<1>1. \A s \in Slots : ~Held(s) /\ batch[s].state # "taken"
  BY DEF Init, Held, FreeSlot
<1>2. DOMAIN audit = {} /\ interrupted = FALSE
  BY DEF Init
<1>3. HeldAnswers /\ HeldOnce /\ AuditedAnswers
  BY <1>1, <1>2 DEF HeldAnswers, HeldOnce, AuditedAnswers
<1>4. RunningOnlyThen /\ InterruptedEmpty
  BY <1>1, <1>2 DEF RunningOnlyThen, InterruptedEmpty
<1>5. ExecutedUnderRecord /\ AnswerServesOnce
  BY <1>2 DEF ExecutedUnderRecord, AnswerServesOnce
<1> QED
  BY <1>3, <1>4, <1>5, TypeInit DEF IInv

LEMMA QuietStep ==
  ASSUME IInv, KeepsHeld, KeepsAnswers
  PROVE  (HeldAnswers /\ HeldOnce /\ AuditedAnswers /\ ExecutedUnderRecord /\ AnswerServesOnce)'
<1>1. HeldAnswers'
  <2> SUFFICES ASSUME NEW s \in Slots, Held(s)'
               PROVE  /\ batch'[s].held \in DOMAIN requests' \ ledger'
                      /\ Key(requests'[batch'[s].held].shown) = Key(batch'[s].call)
    BY DEF HeldAnswers, Key, Target
  <2>1. Held(s) /\ batch'[s].held = batch[s].held /\ batch'[s].call = batch[s].call
    BY DEF KeepsHeld
  <2>2. /\ batch[s].held \in DOMAIN requests \ ledger
        /\ Key(requests[batch[s].held].shown) = Key(batch[s].call)
    BY <2>1 DEF IInv, HeldAnswers
  <2> QED
    BY <2>1, <2>2 DEF KeepsAnswers
<1>2. HeldOnce'
  BY DEF IInv, HeldOnce, KeepsHeld
<1>3. AuditedAnswers'
  <2> SUFFICES ASSUME NEW i \in DOMAIN audit, audit[i].request # NoRequest
               PROVE  /\ audit[i].request \in DOMAIN requests' \ ledger'
                      /\ Key(requests'[audit[i].request].shown) = Key(audit[i].call)
                      /\ \A s \in Slots : Held(s)' => batch'[s].held # audit[i].request
    BY DEF AuditedAnswers, KeepsAnswers, Key, Target
  <2>1. /\ audit[i].request \in DOMAIN requests \ ledger
        /\ Key(requests[audit[i].request].shown) = Key(audit[i].call)
        /\ \A s \in Slots : Held(s) => batch[s].held # audit[i].request
    BY DEF IInv, AuditedAnswers
  <2> QED
    BY <2>1 DEF KeepsAnswers, KeepsHeld
<1>4. ExecutedUnderRecord'
  <2> SUFFICES ASSUME NEW i \in DOMAIN audit, GatedExecution(i)
               PROVE  /\ audit[i].request \in DOMAIN requests'
                      /\ requests'[audit[i].request].approved
                      /\ Key(requests'[audit[i].request].shown) = Key(audit[i].call)
    BY DEF ExecutedUnderRecord, GatedExecution, KeepsAnswers, Key, Target
  <2>1. /\ audit[i].request \in DOMAIN requests
        /\ requests[audit[i].request].approved
        /\ Key(requests[audit[i].request].shown) = Key(audit[i].call)
    BY DEF IInv, ExecutedUnderRecord
  <2> QED
    BY <2>1 DEF KeepsAnswers
<1>5. AnswerServesOnce'
  BY DEF IInv, AnswerServesOnce, KeepsAnswers
<1> QED
  BY <1>1, <1>2, <1>3, <1>4, <1>5
\* Where the running calls and the interrupted turns may be.
Phases == RunningOnlyThen /\ InterruptedEmpty

(* The turn and the model: no call holds an answer then. *)
LEMMA QuietTurn ==
  ASSUME IInv, StartTurn \/ Propose \/ BatchDone \/ EndTurn \/ FailTurn \/ QuestionFails
  PROVE  KeepsHeld /\ KeepsAnswers /\ Phases'
<1>1. KeepsAnswers
  BY DEF KeepsAnswers, StartTurn, Propose, BatchDone, EndTurn, FailTurn, QuestionFails, FailQuestion
<1>2. \A s \in Slots : batch[s].state # "taken"
  <2>1. phase # "running" => \A s \in Slots : batch[s].state # "taken"
    BY DEF IInv, RunningOnlyThen
  <2>2. BatchDone => \A s \in Slots : batch[s].state # "taken"
    BY DEF BatchDone, InState, Settled
  <2> QED
    BY <2>1, <2>2 DEF StartTurn, Propose, EndTurn, FailTurn, QuestionFails, FailQuestion, TurnOf
<1>3. \A s \in Slots : batch'[s].state # "taken"
  <2>1. CASE Propose
    <3>1. PICK n \in Slots : \E proposal \in [1 .. n -> Calls] :
            batch' = [s \in Slots |-> IF s <= n THEN Proposed(proposal[s]) ELSE FreeSlot]
      BY <2>1 DEF Propose
    <3>2. PICK proposal \in [1 .. n -> Calls] :
            batch' = [s \in Slots |-> IF s <= n THEN Proposed(proposal[s]) ELSE FreeSlot]
      BY <3>1
    <3>3. \A call \in Calls : Proposed(call).state # "taken"
      BY DEF Proposed, FreeSlot
    <3>4. \A s \in Slots : s <= n => proposal[s] \in Calls
      BY DEF Slots
    <3> QED
      BY <3>2, <3>3, <3>4 DEF FreeSlot
  <2>2. CASE BatchDone \/ QuestionFails
    <3>1. batch' = [s \in Slots |-> FreeSlot]
      BY <2>2 DEF BatchDone, QuestionFails, FailQuestion
    <3> QED
      BY <3>1 DEF FreeSlot
  <2>3. CASE StartTurn \/ EndTurn \/ FailTurn
    BY <1>2, <2>3 DEF StartTurn, EndTurn, FailTurn
  <2> QED
    BY <2>1, <2>2, <2>3
<1>4. \A s \in Slots : ~Held(s)'
  BY <1>3 DEF Held
<1>5. InterruptedEmpty'
  <2>1. interrupted' => interrupted /\ ledger' = ledger /\ phase' # "asking"
    BY DEF StartTurn, Propose, BatchDone, EndTurn, FailTurn, QuestionFails, FailQuestion
  <2> QED
    BY <1>4, <2>1 DEF IInv, InterruptedEmpty
<1> QED
  BY <1>1, <1>3, <1>4, <1>5 DEF KeepsHeld, Phases, RunningOnlyThen

(* The rounds and the answers: the batch does not run yet. *)
LEMMA QuietAsking ==
  ASSUME IInv, NEW s \in Slots, NEW answer \in Answers,
         OpenRound(s) \/ Interrupt(s) \/ DeclineUndescribed(s)
           \/ ApproveByStandingAnswer(s) \/ Ask(s, answer)
  PROVE  KeepsHeld /\ KeepsAnswers /\ Phases'
<1>1. phase = "asking" /\ ~interrupted
  <2>1. phase = "asking"
    BY DEF OpenRound, Interrupt, DeclineUndescribed, ApproveByStandingAnswer, Ask, TurnOf
  <2> QED
    BY <2>1 DEF IInv, InterruptedEmpty
<1>2. \A t \in Slots : batch[t].state # "taken"
  BY <1>1 DEF IInv, RunningOnlyThen
<1>3. batch \in [Slots -> SlotRecord]
  BY DEF IInv, TypeOK
<1>4. \A t \in Slots : batch'[t].state # "taken"
  <2>1. CASE OpenRound(s)
    BY <1>2, <2>1 DEF OpenRound, Surfaced, InState, SlotRecord, LiveSlot, FreeSlot
  <2>2. CASE Interrupt(s)
    BY <1>2, <2>2 DEF Interrupt, Refused, InState, SlotRecord, LiveSlot, FreeSlot
  <2>3. ASSUME NEW state \in {"approved", "declined"}, NEW request,
               batch[s].state = "surfaced", Answered(s, state, request)
        PROVE  \A t \in Slots : batch'[t].state # "taken"
    <3>1. batch[s] \in LiveSlot
      BY <2>3, LiveSlotType DEF IInv
    <3> QED
      BY <1>2, <1>3, <2>3, <3>1 DEF Answered, LiveSlot
  <2>4. CASE DeclineUndescribed(s) \/ ApproveByStandingAnswer(s) \/ Ask(s, answer)
    BY <2>3, <2>4 DEF DeclineUndescribed, ApproveByStandingAnswer, Ask, Verdict, TurnOf
  <2> QED
    BY <2>1, <2>2, <2>4
<1>5. KeepsAnswers
  <2>1. CASE OpenRound(s) \/ Interrupt(s) \/ DeclineUndescribed(s)
    BY <2>1 DEF KeepsAnswers, OpenRound, Interrupt, DeclineUndescribed, Discarded
  <2>2. CASE ApproveByStandingAnswer(s) \/ Ask(s, answer)
    <3>1. PICK said : Record(batch[s].call, said)
      BY <2>2 DEF ApproveByStandingAnswer, Ask
    <3> DEFINE request == [shown |-> batch[s].call, approved |-> Approves(said),
                           answer |-> said, turn |-> turn]
    <3>2. requests' = Append(requests, request) /\ ledger' = ledger \cup {Len(requests) + 1}
      BY <3>1 DEF Record
    <3>3. requests \in Seq(RequestRecord)
      BY DEF IInv, TypeOK
    <3> HIDE DEF request
    <3>4. /\ Len(requests) \in Nat
          /\ DOMAIN requests = 1 .. Len(requests)
      BY <3>3, LenProperties
    <3>5. /\ DOMAIN requests' = 1 .. Len(requests) + 1
          /\ \A r \in 1 .. Len(requests) : requests'[r] = requests[r]
      <4>1. Len(requests') = Len(requests) + 1 /\ DOMAIN requests' = 1 .. Len(requests')
        BY <3>2, <3>3, <3>4
      <4>2. \A r \in 1 .. Len(requests) : requests'[r] = requests[r]
        BY <3>2, <3>3, <3>4
      <4> QED
        BY <4>1, <4>2
    <3>6. audit' = audit
      BY <2>2 DEF ApproveByStandingAnswer, Ask
    <3> QED
      BY <3>2, <3>4, <3>5, <3>6 DEF KeepsAnswers
  <2> QED
    BY <2>1, <2>2
<1>6. InterruptedEmpty'
  <2>1. CASE Interrupt(s)
    BY <1>4, <2>1 DEF Interrupt, Discarded, InterruptedEmpty, Held
  <2>2. CASE ~Interrupt(s)
    <3>1. interrupted' = interrupted
      BY <2>2 DEF OpenRound, DeclineUndescribed, ApproveByStandingAnswer, Ask
    <3> QED
      BY <1>1, <3>1 DEF InterruptedEmpty
  <2> QED
    BY <2>1, <2>2
<1> QED
  BY <1>4, <1>5, <1>6 DEF KeepsHeld, Held, Phases, RunningOnlyThen
(* A refused argument, and a taken answer. *)
LEMMA QuietReject ==
  ASSUME IInv, NEW s \in Slots, RejectArguments(s)
  PROVE  KeepsHeld /\ KeepsAnswers /\ Phases'
<1>1. batch \in [Slots -> SlotRecord] /\ batch' = [batch EXCEPT ![s].state = "done"]
  BY DEF IInv, TypeOK, RejectArguments
<1>2. batch[s] \in LiveSlot
  BY LiveSlotType DEF IInv, RejectArguments, Runnable
<1>3. \A t \in Slots : batch'[t].state = "taken" => batch'[t] = batch[t]
  BY <1>1, <1>2 DEF LiveSlot
<1>4. UNCHANGED <<phase, requests, ledger, interrupted, audit>>
  BY DEF RejectArguments
<1>5. KeepsHeld
  BY <1>3 DEF KeepsHeld, Held
<1>6. RunningOnlyThen'
  BY <1>3, <1>4 DEF IInv, RunningOnlyThen
<1>7. InterruptedEmpty'
  BY <1>3, <1>4 DEF IInv, InterruptedEmpty, Held
<1> QED
  BY <1>4, <1>5, <1>6, <1>7 DEF KeepsAnswers, Phases

LEMMA TakingStep ==
  ASSUME IInv, NEW s \in Slots, TakeAnswer(s)
  PROVE  (HeldAnswers /\ HeldOnce /\ AuditedAnswers /\ ExecutedUnderRecord /\ AnswerServesOnce)'
         /\ Phases'
<1> DEFINE taken == TakenFor(batch[s].call)
<1>1. batch[s] \in LiveSlot /\ batch \in [Slots -> SlotRecord]
  BY LiveSlotType DEF IInv, TypeOK, TakeAnswer, Runnable
<1>2. /\ batch'[s].held = taken /\ batch'[s].call = batch[s].call /\ batch'[s].state = "taken"
      /\ \A t \in Slots \ {s} : batch'[t] = batch[t]
  BY <1>1 DEF TakeAnswer, LiveSlot
<1>3. ledger' = ledger \ {taken}
  BY DEF TakeAnswer, Consumed
<1>4. UNCHANGED <<phase, requests, interrupted, audit>> /\ phase = "running"
  BY DEF TakeAnswer
<1>5. \/ taken = NoRequest
      \/ taken \in ledger /\ Key(requests[taken].shown) = Key(batch[s].call)
  <2>1. ledger \subseteq Nat
    BY LedgerOfNaturals DEF IInv
  <2> QED
    BY <2>1, TakenIsRecorded
<1>6. ledger \subseteq DOMAIN requests
  BY LenProperties DEF IInv, TypeOK
<1> HIDE DEF taken
<1>7. HeldAnswers'
  <2> SUFFICES ASSUME NEW t \in Slots, Held(t)'
               PROVE  /\ batch'[t].held \in DOMAIN requests \ ledger'
                      /\ Key(requests[batch'[t].held].shown) = Key(batch'[t].call)
    BY <1>4 DEF HeldAnswers, Key, Target
  <2>1. CASE t = s
    BY <2>1, <1>2, <1>3, <1>5, <1>6 DEF Held
  <2>2. CASE t # s
    <3>1. Held(t) /\ batch'[t] = batch[t]
      BY <2>2, <1>2 DEF Held
    <3>2. /\ batch[t].held \in DOMAIN requests \ ledger
          /\ Key(requests[batch[t].held].shown) = Key(batch[t].call)
      BY <3>1 DEF IInv, HeldAnswers
    <3> QED
      BY <3>1, <3>2, <1>3
  <2> QED
    BY <2>1, <2>2
<1>8. HeldOnce'
  <2> SUFFICES ASSUME NEW t \in Slots, NEW u \in Slots, Held(t)', Held(u)', t # u,
                      batch'[t].held = batch'[u].held
               PROVE  FALSE
    BY DEF HeldOnce
  <2>1. \A v \in Slots \ {s} : Held(v)' => Held(v) /\ batch'[v].held = batch[v].held
    BY <1>2 DEF Held
  <2>2. \A v \in Slots \ {s} : Held(v)' => batch'[v].held \notin ledger
    BY <2>1 DEF IInv, HeldAnswers
  <2>3. Held(s)' => batch'[s].held \in ledger
    BY <1>2, <1>5 DEF Held
  <2> QED
    BY <2>1, <2>2, <2>3 DEF IInv, HeldOnce
<1>9. AuditedAnswers'
  <2> SUFFICES ASSUME NEW i \in DOMAIN audit, audit[i].request # NoRequest
               PROVE  /\ audit[i].request \in DOMAIN requests \ ledger'
                      /\ Key(requests[audit[i].request].shown) = Key(audit[i].call)
                      /\ \A t \in Slots : Held(t)' => batch'[t].held # audit[i].request
    BY <1>4 DEF AuditedAnswers, Key, Target
  <2>1. /\ audit[i].request \in DOMAIN requests \ ledger
        /\ Key(requests[audit[i].request].shown) = Key(audit[i].call)
        /\ \A t \in Slots : Held(t) => batch[t].held # audit[i].request
    BY DEF IInv, AuditedAnswers
  <2>2. \A t \in Slots : Held(t)' => batch'[t].held # audit[i].request
    BY <1>2, <1>5, <2>1 DEF Held
  <2> QED
    BY <2>1, <2>2, <1>3
<1>10. ExecutedUnderRecord' /\ AnswerServesOnce'
  BY <1>4 DEF IInv, ExecutedUnderRecord, AnswerServesOnce, GatedExecution, Key, Target
<1>11. RunningOnlyThen'
  BY <1>2, <1>4 DEF IInv, RunningOnlyThen
<1>12. InterruptedEmpty'
  <2> SUFFICES ASSUME interrupted PROVE ledger' = {} /\ \A t \in Slots : ~Held(t)'
    BY <1>4 DEF InterruptedEmpty
  <2>1. ledger = {} /\ \A t \in Slots : ~Held(t)
    BY DEF IInv, InterruptedEmpty
  <2> QED
    BY <1>2, <1>3, <1>5, <2>1 DEF Held
<1> QED
  BY <1>7, <1>8, <1>9, <1>10, <1>11, <1>12 DEF Phases
(* An audited operation. *)

\* The record Perform appends.
Entry(s, outcome) ==
  [call |-> batch[s].call, outcome |-> outcome, request |-> batch[s].held,
   shown |-> batch[s].shown, turn |-> turn]

LEMMA PerformAppends ==
  ASSUME TypeOK, NEW s \in Slots, Perform(s)
  PROVE  \E outcome \in Outcomes(batch[s].call, batch[s].held) :
           /\ Len(audit) \in Nat
           /\ DOMAIN audit = 1 .. Len(audit)
           /\ Len(audit') = Len(audit) + 1
           /\ DOMAIN audit' = 1 .. Len(audit) + 1
           /\ \A i \in 1 .. Len(audit) : audit'[i] = audit[i]
           /\ audit'[Len(audit) + 1] = Entry(s, outcome)
<1>1. PICK outcome \in Outcomes(batch[s].call, batch[s].held) :
        audit' = Append(audit, Entry(s, outcome))
  BY DEF Perform, Entry
<1>2. audit \in Seq(AuditRecord) /\ Len(audit) \in Nat /\ DOMAIN audit = 1 .. Len(audit)
  BY LenProperties DEF TypeOK
<1> DEFINE entry == Entry(s, outcome)
<1>3. audit' = Append(audit, entry)
  BY <1>1
<1> HIDE DEF entry
<1>4. Len(audit') = Len(audit) + 1 /\ DOMAIN audit' = 1 .. Len(audit')
  BY <1>2, <1>3
<1>5. \A i \in 1 .. Len(audit) : audit'[i] = audit[i]
  BY <1>2, <1>3
<1>6. audit'[Len(audit) + 1] = entry
  BY <1>2, <1>3
<1> QED
  BY <1>2, <1>4, <1>5, <1>6 DEF entry

LEMMA PerformingStep ==
  ASSUME IInv, NEW s \in Slots, Perform(s)
  PROVE  (HeldAnswers /\ HeldOnce /\ AuditedAnswers /\ ExecutedUnderRecord /\ AnswerServesOnce)'
         /\ Phases'
<1> DEFINE last == Len(audit) + 1
<1>1. PICK outcome \in Outcomes(batch[s].call, batch[s].held) :
        /\ Len(audit) \in Nat
        /\ DOMAIN audit = 1 .. Len(audit)
        /\ DOMAIN audit' = 1 .. last
        /\ \A i \in 1 .. Len(audit) : audit'[i] = audit[i]
        /\ audit'[last] = Entry(s, outcome)
  BY PerformAppends DEF IInv
<1>2. \A i \in DOMAIN audit' : (i \in DOMAIN audit /\ audit'[i] = audit[i]) \/ i = last
  BY <1>1
<1>3. batch[s].state = "taken" /\ batch' = [batch EXCEPT ![s].state = "done"]
  BY DEF Perform
<1>4. batch[s] \in LiveSlot /\ batch \in [Slots -> SlotRecord]
  BY <1>3, LiveSlotType DEF IInv, TypeOK
<1>5. batch'[s].state = "done" /\ \A t \in Slots \ {s} : batch'[t] = batch[t]
  BY <1>3, <1>4 DEF LiveSlot
<1>6. UNCHANGED <<phase, requests, ledger, interrupted>>
  BY DEF Perform
<1>7. \A t \in Slots : Held(t)' => t # s /\ Held(t) /\ batch'[t] = batch[t]
  BY <1>5 DEF Held
<1>8. batch[s].held # NoRequest =>
        /\ batch[s].held \in DOMAIN requests \ ledger
        /\ Key(requests[batch[s].held].shown) = Key(batch[s].call)
  BY <1>3 DEF IInv, HeldAnswers, Held
<1> HIDE DEF last
<1>9. HeldAnswers' /\ HeldOnce'
  BY <1>6, <1>7 DEF IInv, HeldAnswers, HeldOnce, Key, Target
<1>10. /\ audit'[last].request = batch[s].held
       /\ audit'[last].call = batch[s].call
       /\ audit'[last].outcome = outcome
  BY <1>1 DEF Entry
<1>11. AuditedAnswers'
  <2> SUFFICES ASSUME NEW i \in DOMAIN audit', audit'[i].request # NoRequest
               PROVE  /\ audit'[i].request \in DOMAIN requests \ ledger
                      /\ Key(requests[audit'[i].request].shown) = Key(audit'[i].call)
                      /\ \A t \in Slots : Held(t)' => batch'[t].held # audit'[i].request
    BY <1>6 DEF AuditedAnswers, Key, Target
  <2>1. CASE i \in DOMAIN audit /\ audit'[i] = audit[i]
    BY <2>1, <1>7 DEF IInv, AuditedAnswers
  <2>2. CASE i = last
    <3>1. Held(s)
      BY <2>2, <1>3, <1>10 DEF Held
    <3>2. \A t \in Slots : Held(t)' => batch'[t].held # batch[s].held
      BY <3>1, <1>7 DEF IInv, HeldOnce
    <3> QED
      BY <2>2, <3>2, <1>8, <1>10
  <2> QED
    BY <2>1, <2>2, <1>2
<1>12. ExecutedUnderRecord'
  <2> SUFFICES ASSUME NEW i \in DOMAIN audit', GatedExecution(i)'
               PROVE  /\ audit'[i].request \in DOMAIN requests
                      /\ requests[audit'[i].request].approved
                      /\ Key(requests[audit'[i].request].shown) = Key(audit'[i].call)
    BY <1>6 DEF ExecutedUnderRecord, Key, Target
  <2>1. CASE i \in DOMAIN audit /\ audit'[i] = audit[i]
    BY <2>1 DEF IInv, ExecutedUnderRecord, GatedExecution
  <2>2. CASE i = last
    <3>1. outcome = "EXECUTED" /\ RequiresConfirmation(batch[s].call.tool)
      BY <2>2, <1>10 DEF GatedExecution, ExecutesGated, RequiresConfirmation
    <3>2. Passes(batch[s].call, batch[s].held)
      BY <1>1, <3>1 DEF Outcomes
    <3>3. batch[s].held # NoRequest /\ requests[batch[s].held].approved
      BY <3>1, <3>2 DEF Passes
    <3> QED
      BY <2>2, <3>3, <1>8, <1>10
  <2> QED
    BY <2>1, <2>2, <1>2
<1>13. AnswerServesOnce'
  <2>1. ASSUME NEW i \in DOMAIN audit, batch[s].held # NoRequest
        PROVE  audit[i].request # batch[s].held
    BY <2>1, <1>3 DEF IInv, AuditedAnswers, Held
  <2> QED
    BY <2>1, <1>2, <1>10 DEF IInv, AnswerServesOnce
<1>14. Phases'
  BY <1>5, <1>6, <1>7 DEF IInv, Phases, RunningOnlyThen, InterruptedEmpty
<1> QED
  BY <1>9, <1>11, <1>12, <1>13, <1>14
-----------------------------------------------------------------------------
(* The invariant is inductive. *)
LEMMA AnswersStep == IInv /\ [Next]_vars => IInv'
<1> SUFFICES ASSUME IInv, [Next]_vars PROVE IInv'
  OBVIOUS
<1>1. TypeOK'
  BY TypeStep DEF IInv
<1>2. ASSUME KeepsHeld, KeepsAnswers, Phases' PROVE IInv'
  BY <1>1, <1>2, QuietStep DEF IInv, Phases
<1>3. CASE UNCHANGED vars
  <2>1. KeepsHeld /\ KeepsAnswers
    BY <1>3 DEF vars, KeepsHeld, KeepsAnswers, Held
  <2>2. Phases'
    BY <1>3 DEF IInv, vars, Phases, RunningOnlyThen, InterruptedEmpty, Held
  <2> QED
    BY <1>2, <2>1, <2>2
<1>4. CASE StartTurn \/ Propose \/ BatchDone \/ EndTurn \/ FailTurn \/ QuestionFails
  BY <1>2, <1>4, QuietTurn
<1>5. CASE \E m \in Slots : OpenRound(m) \/ Interrupt(m)
  BY <1>2, <1>5, QuietAsking DEF Answers
<1>6. CASE \E s \in Slots : DeclineUndescribed(s) \/ ApproveByStandingAnswer(s)
  BY <1>2, <1>6, QuietAsking DEF Answers
<1>7. CASE \E s \in Slots, answer \in Answers : Ask(s, answer)
  BY <1>2, <1>7, QuietAsking
<1>8. CASE \E s \in Slots : RejectArguments(s)
  BY <1>2, <1>8, QuietReject
<1>9. CASE \E s \in Slots : TakeAnswer(s)
  BY <1>1, <1>9, TakingStep DEF IInv, Phases
<1>10. CASE \E s \in Slots : Perform(s)
  BY <1>1, <1>10, PerformingStep DEF IInv, Phases
<1> QED
  BY <1>3, <1>4, <1>5, <1>6, <1>7, <1>8, <1>9, <1>10 DEF Next, QuestionFails

THEOREM AnswersInvariant == Spec => []IInv
BY AnswersInit, AnswersStep, PTL DEF Spec

(* One answer of the owner never serves two operations. *)
THEOREM AnswersServeOnce == Spec => []AnswerServesOnce
<1>1. IInv => AnswerServesOnce
  BY DEF IInv
<1> QED
  BY <1>1, AnswersInvariant, PTL

(***************************************************************************)
(* An interrupted turn runs no gated operation any more: the ledger was    *)
(* emptied before the batch could run, so no call of it holds an answer.   *)
(***************************************************************************)
LEMMA InterruptedStep ==
  ASSUME IInv, [Next]_vars, interrupted, Len(audit') > Len(audit)
  PROVE  ~ExecutesGated(audit'[Len(audit')])
<1>1. Len(audit) \in Nat
  BY LenProperties DEF IInv, TypeOK
<1>2. audit' # audit
  BY <1>1
<1>3. PICK s \in Slots : Perform(s)
  BY <1>2 DEF Next, vars, StartTurn, Propose, OpenRound, Interrupt, DeclineUndescribed,
    ApproveByStandingAnswer, Ask, RejectArguments, TakeAnswer, BatchDone, EndTurn, FailTurn,
    FailQuestion
<1>4. PICK outcome \in Outcomes(batch[s].call, batch[s].held) :
        /\ Len(audit') = Len(audit) + 1
        /\ audit'[Len(audit) + 1] = Entry(s, outcome)
  BY <1>3, PerformAppends DEF IInv
<1>5. batch[s].held = NoRequest
  BY <1>3 DEF IInv, InterruptedEmpty, Held, Perform
<1>6. outcome = "EXECUTED" => ~RequiresConfirmation(batch[s].call.tool)
  BY <1>5 DEF Outcomes, Passes
<1> QED
  BY <1>4, <1>6 DEF ExecutesGated, Entry

THEOREM InterruptedTurnsRunNothing == Spec => InterruptedRunsNothing
<1>1. IInv /\ [Next]_vars =>
        [interrupted /\ Len(audit') > Len(audit)
           => ~ExecutesGated(audit'[Len(audit')])]_vars
  BY InterruptedStep
<1> QED
  BY <1>1, AnswersInvariant, PTL DEF Spec, InterruptedRunsNothing

-----------------------------------------------------------------------------
(* What the owner said. *)

\* Every standing answer was given; every recorded approval was granted, by a
\* standing answer only outside the floor.
RequestsInv ==
  /\ standing \cap Floor = {}
  /\ \A tool \in standing : \E q \in DOMAIN requests :
       requests[q].answer = "approve_all" /\ requests[q].shown.tool = tool
  /\ \A r \in DOMAIN requests :
       /\ requests[r].shown.tool \in Floor => requests[r].answer # Standing
       /\ requests[r].approved => Granted(r)

\* What recording an answer does to the requests.
LEMMA RecordedRequests ==
  ASSUME TypeOK, NEW call, NEW answer, Record(call, answer)
  PROVE  /\ Len(requests) \in Nat
         /\ DOMAIN requests = 1 .. Len(requests)
         /\ DOMAIN requests' = 1 .. Len(requests) + 1
         /\ \A r \in 1 .. Len(requests) : requests'[r] = requests[r]
         /\ requests'[Len(requests) + 1].shown = call
         /\ requests'[Len(requests) + 1].approved = Approves(answer)
         /\ requests'[Len(requests) + 1].answer = answer
         /\ requests'[Len(requests) + 1].turn = turn
<1> DEFINE request == [shown |-> call, approved |-> Approves(answer), answer |-> answer, turn |-> turn]
<1>1. requests' = Append(requests, request) /\ requests \in Seq(RequestRecord)
  BY DEF Record, TypeOK
<1>2. /\ request.shown = call /\ request.approved = Approves(answer)
      /\ request.answer = answer /\ request.turn = turn
  OBVIOUS
<1> HIDE DEF request
<1>3. Len(requests) \in Nat /\ DOMAIN requests = 1 .. Len(requests)
  BY <1>1, LenProperties
<1>4. Len(requests') = Len(requests) + 1 /\ DOMAIN requests' = 1 .. Len(requests')
  BY <1>1, <1>3
<1>5. \A r \in 1 .. Len(requests) : requests'[r] = requests[r]
  BY <1>1, <1>3
<1>6. requests'[Len(requests) + 1] = request
  BY <1>1, <1>3
<1> QED
  BY <1>2, <1>3, <1>4, <1>5, <1>6

\* Recording an answer leaves what was granted granted.
LEMMA GrantedStays ==
  ASSUME TypeOK, NEW call, NEW answer, Record(call, answer),
         NEW r \in DOMAIN requests, Granted(r)
  PROVE  Granted(r)'
<1>1. \A q \in 1 .. r : q \in DOMAIN requests /\ requests'[q] = requests[q]
  BY RecordedRequests
<1>2. r \in Nat /\ r \in 1 .. r
  BY RecordedRequests
<1>3. \A q \in 1 .. r - 1 : q \in 1 .. r
  BY <1>2
<1> QED
  BY <1>1, <1>2, <1>3 DEF Granted

LEMMA RequestsStep == TypeOK /\ RequestsInv /\ [Next]_vars => RequestsInv'
<1> SUFFICES ASSUME TypeOK, RequestsInv, [Next]_vars PROVE RequestsInv'
  OBVIOUS
<1>1. ASSUME NEW s \in Slots, NEW answer, Record(batch[s].call, answer),
             standing' \cap Floor = {},
             \A tool \in standing' \ standing : answer = "approve_all" /\ tool = batch[s].call.tool,
             batch[s].call.tool \in Floor => answer # Standing,
             \/ answer \in Answers
             \/ answer = Standing /\ batch[s].call.tool \in standing
      PROVE  RequestsInv'
  <2>1. Len(requests) \in Nat
    BY <1>1, RecordedRequests
  <2>2. PICK new \in Nat : new = Len(requests) + 1
    BY <2>1
  <2>3. /\ Len(requests) \in Nat
        /\ DOMAIN requests = 1 .. Len(requests)
        /\ DOMAIN requests' = 1 .. new
        /\ \A r \in 1 .. Len(requests) : requests'[r] = requests[r]
        /\ requests'[new].shown = batch[s].call
        /\ requests'[new].approved = Approves(answer)
        /\ requests'[new].answer = answer
    BY <1>1, <2>2, RecordedRequests
  <2>4. \A tool \in standing : \E q \in 1 .. Len(requests) :
          requests'[q].answer = "approve_all" /\ requests'[q].shown.tool = tool
    BY <2>3 DEF RequestsInv
  <2>5. \A tool \in standing' : \E q \in DOMAIN requests' :
          requests'[q].answer = "approve_all" /\ requests'[q].shown.tool = tool
    BY <1>1, <2>3, <2>4, <2>2
  <2>6. Approves(answer) => Granted(new)'
    <3>1. CASE answer \in Answers
      BY <2>3, <3>1 DEF Answers, Approves, Granted
    <3>2. CASE answer = Standing /\ batch[s].call.tool \in standing
      <4>1. PICK q \in 1 .. Len(requests) :
              /\ requests'[q].answer = "approve_all"
              /\ requests'[q].shown.tool = batch[s].call.tool
        BY <2>4, <3>2
      <4>2. q \in 1 .. new - 1
        BY <2>3, <2>2
      <4> QED
        BY <2>3, <3>2, <4>1, <4>2 DEF Granted
    <3> QED
      BY <1>1, <3>1, <3>2
  <2>7. ASSUME NEW r \in DOMAIN requests'
        PROVE  /\ requests'[r].shown.tool \in Floor => requests'[r].answer # Standing
               /\ requests'[r].approved => Granted(r)'
    <3>1. CASE r \in DOMAIN requests
      <4>1. requests'[r] = requests[r]
        BY <2>3, <3>1
      <4>2. requests[r].approved => Granted(r)'
        BY <1>1, <3>1, GrantedStays DEF RequestsInv
      <4> QED
        BY <3>1, <4>1, <4>2 DEF RequestsInv
    <3>2. CASE r = new
      BY <1>1, <2>3, <2>6, <3>2
    <3> QED
      BY <2>3, <2>2, <3>1, <3>2
  <2> QED
    BY <1>1, <2>5, <2>7 DEF RequestsInv, Floor
<1>2. CASE \E s \in Slots : ApproveByStandingAnswer(s)
  <2>1. PICK s \in Slots : ApproveByStandingAnswer(s)
    BY <1>2
  <2>2. batch[s].call.tool \in standing /\ batch[s].call.tool \notin Floor
    BY <2>1 DEF ApproveByStandingAnswer, RequestsInv
  <2>3. Record(batch[s].call, Standing) /\ standing' = standing
    BY <2>1 DEF ApproveByStandingAnswer
  <2> QED
    BY <1>1, <2>2, <2>3 DEF RequestsInv
<1>3. CASE \E s \in Slots, answer \in Answers : Ask(s, answer)
  <2>1. PICK s \in Slots : \E answer \in Answers : Ask(s, answer)
    BY <1>3
  <2>2. PICK answer \in Answers : Ask(s, answer)
    BY <2>1
  <2>3. standing' \cap Floor = {}
    BY <2>2 DEF Ask, StandsFor, MayStand, RequestsInv, Floor
  <2>4. \A tool \in standing' \ standing : answer = "approve_all" /\ tool = batch[s].call.tool
    BY <2>2 DEF Ask, StandsFor
  <2>5. Record(batch[s].call, answer) /\ answer # Standing
    BY <2>2 DEF Ask, Answers, Standing
  <2> QED
    BY <1>1, <2>3, <2>4, <2>5
<1>4. CASE UNCHANGED <<standing, requests>>
  BY <1>4 DEF RequestsInv, Granted, Floor
<1> QED
  BY <1>2, <1>3, <1>4 DEF Next, vars, StartTurn, Propose, OpenRound, Interrupt,
    DeclineUndescribed, RejectArguments, TakeAnswer, Perform, BatchDone, EndTurn, FailTurn,
    FailQuestion

LEMMA RequestsInvariant == Spec => []RequestsInv
<1>1. Init => RequestsInv
  BY DEF Init, RequestsInv
<1>2. IInv => TypeOK
  BY DEF IInv
<1> QED
  BY <1>1, <1>2, RequestsStep, AnswersInvariant, PTL DEF Spec

(***************************************************************************)
(* Whatever the calls, the preferences and the budgets, and in whatever    *)
(* order the tasks of a batch take their answers: a gated operation that   *)
(* executes was granted by the owner, for that capability and that target. *)
(***************************************************************************)
THEOREM ExecutionsAreApproved == Spec => []ExecutedWasApproved
<1>1. IInv /\ RequestsInv => ExecutedWasApproved
  BY DEF IInv, RequestsInv, ExecutedUnderRecord, ExecutedWasApproved
<1> QED
  BY <1>1, AnswersInvariant, RequestsInvariant, PTL

(* An operation of the security floor only executes after its own question. *)
THEOREM FloorWasAsked == Spec => []FloorIsAlwaysAsked
<1>1. IInv /\ RequestsInv => FloorIsAlwaysAsked
  <2> SUFFICES ASSUME IInv, RequestsInv, NEW i \in DOMAIN audit, GatedExecution(i),
                      audit[i].call.tool \in Floor
               PROVE  requests[audit[i].request].answer # Standing
    BY DEF FloorIsAlwaysAsked
  <2>1. /\ audit[i].request \in DOMAIN requests
        /\ Key(requests[audit[i].request].shown) = Key(audit[i].call)
    BY DEF IInv, ExecutedUnderRecord
  <2>2. requests[audit[i].request].shown.tool = audit[i].call.tool
    BY <2>1 DEF Key
  <2> QED
    BY <2>1, <2>2 DEF RequestsInv
<1> QED
  BY <1>1, AnswersInvariant, RequestsInvariant, PTL

-----------------------------------------------------------------------------
(* How often the owner is asked. *)

\* The questions put to the owner in turn t.
Asked(t) == {r \in DOMAIN requests : requests[r].turn = t /\ requests[r].answer # Standing}

\* The calls of the open round that will be put to the owner, unless a standing
\* answer given meanwhile covers them.
Open == {s \in Slots : batch[s].state = "surfaced" /\ batch[s].call.tool \notin standing}

\* A round that questions pays for a whole batch of questions beforehand, and one
\* that is free asks none.
QuestionsInv ==
  /\ phase # "asking" => \A s \in Slots : batch[s].state # "surfaced"
  /\ \A r \in DOMAIN requests : requests[r].turn <= turn
  /\ \A t \in 1 .. turn - 1 : Cardinality(Asked(t)) <= QuestionBudget * MaxBatch
  /\ Cardinality(Asked(turn)) + Cardinality(Open) <= questions * MaxBatch

LEMMA QuestionsAreFinite ==
  ASSUME TypeOK
  PROVE  /\ \A t : IsFiniteSet(Asked(t)) /\ Cardinality(Asked(t)) \in Nat
         /\ IsFiniteSet(Open) /\ Cardinality(Open) \in Nat /\ Cardinality(Open) <= MaxBatch
<1>1. IsFiniteSet(DOMAIN requests)
  <2>1. requests \in Seq(RequestRecord)
    BY DEF TypeOK
  <2>2. DOMAIN requests = 1 .. Len(requests) /\ Len(requests) \in Nat
    BY <2>1, LenProperties
  <2> QED
    BY <2>2, FS_Interval
<1>2. \A t : Asked(t) \in SUBSET DOMAIN requests
  BY DEF Asked
<1>3. IsFiniteSet(Slots) /\ Cardinality(Slots) = MaxBatch
  <2>1. MaxBatch \in Nat /\ MaxBatch # 0
    BY BoundAssumption
  <2>2. IsFiniteSet(1 .. MaxBatch) /\ Cardinality(1 .. MaxBatch) = IF 1 > MaxBatch THEN 0 ELSE MaxBatch - 1 + 1
    BY <2>1, FS_Interval
  <2> QED
    BY <2>1, <2>2 DEF Slots
<1>4. Open \in SUBSET Slots
  BY DEF Open
<1>5. IsFiniteSet(Open) /\ Cardinality(Open) <= Cardinality(Slots)
  BY <1>3, <1>4, FS_Subset
<1> QED
  BY <1>1, <1>2, <1>3, <1>5, FS_Subset, FS_CardinalityType

(* Within the budget of rounds, whatever a round may ask. *)
LEMMA WithinBudget ==
  ASSUME NEW q \in 0 .. QuestionBudget
  PROVE  /\ q * MaxBatch \in Nat /\ QuestionBudget * MaxBatch \in Nat
         /\ q * MaxBatch <= QuestionBudget * MaxBatch
         /\ (q + 1) * MaxBatch = q * MaxBatch + MaxBatch
<1>1. QuestionBudget \in Nat /\ MaxBatch \in Nat /\ q \in Nat /\ q <= QuestionBudget
  BY BudgetAssumption, BoundAssumption
<1>2. \A a, b, c \in Nat : a <= b => a * c <= b * c
  OBVIOUS
<1> QED
  BY <1>1, <1>2

LEMMA QuestionsInit == Init => QuestionsInv
<1> SUFFICES ASSUME Init PROVE QuestionsInv
  OBVIOUS
<1>1. Asked(turn) = {} /\ Open = {}
  BY DEF Init, Asked, Open, FreeSlot
<1>2. Cardinality({}) = 0 /\ MaxBatch \in Nat
  BY FS_EmptySet, BoundAssumption
<1>3. turn = 0 /\ questions = 0 /\ requests = << >> /\ \A s \in Slots : batch[s].state # "surfaced"
  BY DEF Init, FreeSlot
<1>4. DOMAIN requests = {} /\ 1 .. turn - 1 = {}
  <2>1. << >> \in Seq({}) /\ Len(<< >>) = 0
    OBVIOUS
  <2>2. DOMAIN << >> = 1 .. 0
    BY <2>1, LenProperties
  <2> QED
    BY <1>3, <2>2
<1>5. Cardinality(Asked(turn)) + Cardinality(Open) <= questions * MaxBatch
  <2>1. 0 * MaxBatch = 0
    BY <1>2
  <2> QED
    BY <1>1, <1>2, <1>3, <2>1
<1> QED
  BY <1>3, <1>4, <1>5 DEF QuestionsInv

(* A step that records nothing and opens nothing. *)
LEMMA QuestionsStay ==
  ASSUME TypeOK, QuestionsInv, UNCHANGED <<turn, standing, requests, questions>>,
         \A s \in Slots : batch'[s].state = "surfaced" => batch'[s] = batch[s],
         phase' # "asking" => \A s \in Slots : batch'[s].state # "surfaced"
  PROVE  QuestionsInv'
<1>1. \A t : Asked(t)' = Asked(t)
  BY DEF Asked
<1>2. Open' \in SUBSET Open
  BY DEF Open
<1>3. Cardinality(Open') <= Cardinality(Open) /\ Cardinality(Open') \in Nat
  BY <1>2, QuestionsAreFinite, FS_Subset, FS_CardinalityType
<1>4. questions * MaxBatch \in Nat
  BY WithinBudget DEF TypeOK
<1>5. Cardinality(Asked(turn)) + Cardinality(Open') <= questions * MaxBatch
  BY <1>3, <1>4, QuestionsAreFinite DEF QuestionsInv
<1> QED
  BY <1>1, <1>5 DEF QuestionsInv

(* A turn begins with nothing asked. *)
LEMMA QuestionsBegin ==
  ASSUME TypeOK, QuestionsInv, StartTurn
  PROVE  QuestionsInv'
<1>1. /\ phase = "idle" /\ turn' = turn + 1 /\ questions' = 0 /\ phase' = "model"
      /\ UNCHANGED <<batch, standing, requests>>
  BY DEF StartTurn
<1>2. turn \in Nat /\ \A r \in DOMAIN requests : requests[r].turn \in Nat
  <2>1. requests \in Seq(RequestRecord) /\ \A r \in RequestRecord : r.turn \in Nat
    BY DEF TypeOK, RequestRecord
  <2>2. DOMAIN requests = 1 .. Len(requests)
    BY <2>1, LenProperties
  <2>3. \A r \in DOMAIN requests : requests[r] \in RequestRecord
    BY <2>1, <2>2, ElementOfSeq
  <2>4. turn \in Nat
    BY DEF TypeOK
  <2> QED
    BY <2>1, <2>3, <2>4
<1>3. \A t : Asked(t)' = Asked(t)
  BY <1>1 DEF Asked
<1>4. Asked(turn + 1) = {}
  BY <1>2 DEF Asked, QuestionsInv
<1>5. Open' = {}
  BY <1>1 DEF Open, QuestionsInv
<1>6. \A t \in 1 .. turn : Cardinality(Asked(t)) <= QuestionBudget * MaxBatch
  <2>1. questions * MaxBatch <= QuestionBudget * MaxBatch /\ questions * MaxBatch \in Nat
        /\ QuestionBudget * MaxBatch \in Nat
    BY WithinBudget DEF TypeOK
  <2>2. Cardinality(Asked(turn)) <= QuestionBudget * MaxBatch
    BY <2>1, QuestionsAreFinite DEF QuestionsInv
  <2>3. \A t \in 1 .. turn : t = turn \/ t \in 1 .. turn - 1
    BY <1>2
  <2> QED
    BY <2>2, <2>3 DEF QuestionsInv
<1>7. Cardinality({}) = 0 /\ MaxBatch \in Nat
  BY FS_EmptySet, BoundAssumption
<1>8. Cardinality(Asked(turn + 1)) + Cardinality(Open') <= questions' * MaxBatch
  BY <1>1, <1>4, <1>5, <1>7
<1>9. 1 .. turn' - 1 = 1 .. turn /\ \A r \in DOMAIN requests : requests[r].turn <= turn + 1
  BY <1>1, <1>2 DEF QuestionsInv
<1> QED
  BY <1>1, <1>3, <1>6, <1>8, <1>9 DEF QuestionsInv

(* A round opens. *)
LEMMA QuestionsOpen ==
  ASSUME TypeOK, QuestionsInv, NEW m \in Slots, OpenRound(m)
  PROVE  QuestionsInv'
<1>1. /\ InState({"surfaced"}) = {} /\ phase = "asking"
      /\ batch' = [s \in Slots |-> IF s \in Surfaced(m) THEN [batch[s] EXCEPT !.state = "surfaced"]
                                                        ELSE batch[s]]
      /\ questions' = IF WillQuestion(Surfaced(m)) THEN questions + 1 ELSE questions
      /\ UNCHANGED <<phase, turn, standing, requests>>
  BY DEF OpenRound
<1>2. \A t : Asked(t)' = Asked(t)
  BY <1>1 DEF Asked
<1>3. questions \in 0 .. QuestionBudget
  BY DEF TypeOK
<1>4. /\ questions * MaxBatch \in Nat /\ (questions + 1) * MaxBatch = questions * MaxBatch + MaxBatch
      /\ MaxBatch \in Nat
  BY <1>3, WithinBudget, BoundAssumption
<1>5. /\ Cardinality(Asked(turn)) \in Nat /\ Cardinality(Open) \in Nat
      /\ Cardinality(Asked(turn)) + Cardinality(Open) <= questions * MaxBatch
  BY QuestionsAreFinite DEF QuestionsInv
<1>6. TypeOK'
  BY TypeRounds
<1>7. Cardinality(Open') \in Nat /\ Cardinality(Open') <= MaxBatch
  <2>1. IsFiniteSet(Open)' /\ (Cardinality(Open) \in Nat)' /\ (Cardinality(Open) <= MaxBatch)'
    BY <1>6, QuestionsAreFinite, PTL
  <2> QED
    BY <2>1
<1>8. Cardinality(Asked(turn)) + Cardinality(Open') <= questions' * MaxBatch
  <2>1. CASE WillQuestion(Surfaced(m))
    BY <1>1, <1>4, <1>5, <1>7, <2>1
  <2>2. CASE ~WillQuestion(Surfaced(m))
    <3>1. Surfaced(m) \subseteq Slots /\ \A s \in Slots : batch[s].state # "surfaced"
      BY <1>1 DEF Surfaced, InState
    <3>2. \A s \in Surfaced(m) : batch[s].call.tool \in standing /\ batch[s] \in LiveSlot
      <4>1. \A s \in Surfaced(m) : batch[s].state # "free"
        BY DEF Surfaced, InState
      <4> QED
        BY <2>2, <3>1, <4>1, LiveSlotType DEF WillQuestion
    <3>3. \A s \in Slots : batch'[s].state = "surfaced" => batch'[s].call.tool \in standing
      BY <1>1, <3>1, <3>2 DEF LiveSlot
    <3>4. Open' = {}
      BY <1>1, <3>3 DEF Open
    <3>5. Cardinality({}) = 0
      BY FS_EmptySet
    <3> QED
      BY <1>1, <1>4, <1>5, <2>2, <3>4, <3>5
  <2> QED
    BY <2>1, <2>2
<1> QED
  BY <1>1, <1>2, <1>8 DEF QuestionsInv

(* A call of the round is answered: by the owner, which was paid for, or not. *)
LEMMA QuestionsAnswered ==
  ASSUME TypeOK, QuestionsInv, NEW s \in Slots, NEW answer \in Answers,
         DeclineUndescribed(s) \/ ApproveByStandingAnswer(s) \/ Ask(s, answer)
  PROVE  QuestionsInv'
<1>1. /\ phase = "asking" /\ batch[s].state = "surfaced" /\ UNCHANGED <<turn, questions>>
      /\ \E state \in {"approved", "declined"}, request \in Nat : Answered(s, state, request)
  <2>1. Len(requests) + 1 \in Nat /\ 0 \in Nat
    <3>1. requests \in Seq(RequestRecord)
      BY DEF TypeOK
    <3>2. Len(requests) \in Nat
      BY <3>1, LenProperties
    <3> QED
      BY <3>2
  <2> QED
    BY <2>1 DEF DeclineUndescribed, ApproveByStandingAnswer, Ask, TurnOf, Verdict, NoRequest
<1>2. PICK state \in {"approved", "declined"}, request \in Nat : Answered(s, state, request)
  BY <1>1
<1>3. /\ batch \in [Slots -> SlotRecord] /\ batch[s] \in LiveSlot
      /\ batch' = [batch EXCEPT ![s].state = state, ![s].shown = request]
      /\ phase' = IF InState({"waiting", "surfaced"}) = {s} THEN "running" ELSE "asking"
  BY <1>1, <1>2, LiveSlotType DEF TypeOK, Answered
<1>4. batch'[s].state # "surfaced" /\ \A o \in Slots : o # s => batch'[o] = batch[o]
  BY <1>3 DEF LiveSlot
<1>5. phase' # "asking" => \A o \in Slots : batch'[o].state # "surfaced"
  BY <1>3, <1>4 DEF InState
<1>6. standing \subseteq standing'
  BY DEF DeclineUndescribed, ApproveByStandingAnswer, Ask, StandsFor
<1>7. Open' \in SUBSET (Open \ {s})
  BY <1>4, <1>6 DEF Open
<1>8. /\ Cardinality(Open') \in Nat /\ Cardinality(Open') <= Cardinality(Open)
      /\ s \in Open => Cardinality(Open') <= Cardinality(Open) - 1
  <2>1. IsFiniteSet(Open) /\ Cardinality(Open) \in Nat
    BY QuestionsAreFinite
  <2>2. /\ IsFiniteSet(Open \ {s})
        /\ Cardinality(Open \ {s}) = IF s \in Open THEN Cardinality(Open) - 1 ELSE Cardinality(Open)
    BY <2>1, FS_RemoveElement
  <2>3. Cardinality(Open') <= Cardinality(Open \ {s}) /\ IsFiniteSet(Open')
    BY <1>7, <2>2, FS_Subset
  <2>4. Cardinality(Open') \in Nat
    BY <2>3, FS_CardinalityType
  <2> QED
    BY <2>1, <2>2, <2>3, <2>4
<1>9. /\ Cardinality(Asked(turn)) \in Nat /\ Cardinality(Open) \in Nat /\ questions * MaxBatch \in Nat
      /\ Cardinality(Asked(turn)) + Cardinality(Open) <= questions * MaxBatch
  <2>1. questions \in 0 .. QuestionBudget
    BY DEF TypeOK
  <2> QED
    BY <2>1, WithinBudget, QuestionsAreFinite DEF QuestionsInv
<1>10. CASE requests' = requests
  <2>1. \A t : Asked(t)' = Asked(t)
    BY <1>10 DEF Asked
  <2>2. Cardinality(Asked(turn)) + Cardinality(Open') <= questions * MaxBatch
    BY <1>8, <1>9
  <2> QED
    BY <1>1, <1>5, <1>10, <2>1, <2>2 DEF QuestionsInv
<1>11. ASSUME NEW given, Record(batch[s].call, given), given = Standing \/ s \in Open
       PROVE  QuestionsInv'
  <2>1. PICK new : new = Len(requests) + 1
    OBVIOUS
  <2>2. /\ Len(requests) \in Nat /\ DOMAIN requests = 1 .. Len(requests) /\ DOMAIN requests' = 1 .. new
        /\ \A r \in 1 .. Len(requests) : requests'[r] = requests[r]
        /\ requests'[new].answer = given /\ requests'[new].turn = turn
    BY <1>11, <2>1, RecordedRequests
  <2>3. new \notin DOMAIN requests /\ DOMAIN requests' = DOMAIN requests \cup {new}
    BY <2>1, <2>2
  <2>4. \A t : t # turn => Asked(t)' = Asked(t)
    BY <2>2, <2>3 DEF Asked
  <2>5. Asked(turn)' = IF given = Standing THEN Asked(turn) ELSE Asked(turn) \cup {new}
    BY <1>1, <2>2, <2>3 DEF Asked
  <2>6. new \notin Asked(turn) /\ IsFiniteSet(Asked(turn))
    BY <2>3, QuestionsAreFinite DEF Asked
  <2>7. Cardinality(Asked(turn) \cup {new}) = Cardinality(Asked(turn)) + 1
    BY <2>6, FS_AddElement
  <2>8. Cardinality(Asked(turn)') + Cardinality(Open') <= questions * MaxBatch
    <3>1. CASE given = Standing
      BY <1>8, <1>9, <2>5, <3>1
    <3>2. CASE given # Standing
      <4>1. Asked(turn)' = Asked(turn) \cup {new} /\ s \in Open
        BY <1>11, <2>5, <3>2
      <4> QED
        BY <1>8, <1>9, <2>7, <4>1
    <3> QED
      BY <3>1, <3>2
  <2>9. \A t \in 1 .. turn - 1 : Cardinality(Asked(t)') <= QuestionBudget * MaxBatch
    <3>1. turn \in Nat
      BY DEF TypeOK
    <3>2. \A t \in 1 .. turn - 1 : t # turn
      BY <3>1
    <3> QED
      BY <2>4, <3>2 DEF QuestionsInv
  <2>10. \A r \in DOMAIN requests' : requests'[r].turn <= turn
    <3>1. turn \in Nat
      BY DEF TypeOK
    <3>2. turn <= turn
      BY <3>1
    <3> QED
      BY <2>2, <2>3, <3>2 DEF QuestionsInv
  <2> QED
    BY <1>1, <1>5, <2>8, <2>9, <2>10 DEF QuestionsInv
<1>12. CASE DeclineUndescribed(s)
  BY <1>10, <1>12 DEF DeclineUndescribed
<1>13. CASE ApproveByStandingAnswer(s)
  BY <1>11, <1>13 DEF ApproveByStandingAnswer
<1>14. CASE Ask(s, answer)
  <2>1. s \in Open
    BY <1>1, <1>14 DEF Ask, Open
  <2> QED
    BY <1>11, <1>14, <2>1 DEF Ask
<1> QED
  BY <1>12, <1>13, <1>14

LEMMA QuestionsStep == TypeOK /\ QuestionsInv /\ [Next]_vars => QuestionsInv'
<1> SUFFICES ASSUME TypeOK, QuestionsInv, [Next]_vars PROVE QuestionsInv'
  OBVIOUS
<1>0. phase # "asking" => \A s \in Slots : batch[s].state # "surfaced"
  BY DEF QuestionsInv
<1>1. CASE StartTurn
  BY <1>1, QuestionsBegin
<1>2. CASE \E m \in Slots : OpenRound(m)
  BY <1>2, QuestionsOpen
<1>3. CASE \E s \in Slots : DeclineUndescribed(s) \/ ApproveByStandingAnswer(s)
  <2>1. "decline" \in Answers
    BY DEF Answers
  <2> QED
    BY <1>3, <2>1, QuestionsAnswered
<1>4. CASE \E s \in Slots, answer \in Answers : Ask(s, answer)
  BY <1>4, QuestionsAnswered
<1>5. CASE Propose
  <2>1. \A s \in Slots : batch'[s].state # "surfaced"
    <3>1. PICK n \in Slots : \E proposal \in [1 .. n -> Calls] :
            batch' = [s \in Slots |-> IF s <= n THEN Proposed(proposal[s]) ELSE FreeSlot]
      BY <1>5 DEF Propose
    <3>2. PICK proposal \in [1 .. n -> Calls] :
            batch' = [s \in Slots |-> IF s <= n THEN Proposed(proposal[s]) ELSE FreeSlot]
      BY <3>1
    <3>3. \A call : Proposed(call).state \in {"waiting", "clear"}
      BY DEF Proposed, FreeSlot
    <3>4. FreeSlot.state = "free"
      BY DEF FreeSlot
    <3>5. \A s \in Slots : batch'[s] = IF s <= n THEN Proposed(proposal[s]) ELSE FreeSlot
      BY <3>2
    <3>6. \A s \in Slots : batch'[s].state \in {"waiting", "clear", "free"}
      BY <3>3, <3>4, <3>5
    <3> QED
      BY <3>6
  <2> QED
    BY <1>5, <2>1, QuestionsStay DEF Propose
<1>6. CASE \E m \in Slots : Interrupt(m)
  <2>1. PICK m \in Slots : Interrupt(m)
    BY <1>6
  <2>2. \A s \in Slots : batch[s].state # "surfaced"
    BY <2>1 DEF Interrupt, InState
  <2>3. \A s \in Slots : batch'[s].state # "surfaced"
    <3>1. \A s \in Refused(m) : batch[s] \in LiveSlot
      <4>1. Refused(m) \subseteq Slots /\ \A s \in Refused(m) : batch[s].state # "free"
        BY DEF Refused, InState
      <4> QED
        BY <4>1, LiveSlotType
    <3>2. batch' = [s \in Slots |-> IF s \in Refused(m) THEN [batch[s] EXCEPT !.state = "declined"]
                                                        ELSE batch[s]]
      BY <2>1 DEF Interrupt
    <3> QED
      BY <2>2, <3>1, <3>2 DEF LiveSlot
  <2> QED
    BY <2>1, <2>3, QuestionsStay DEF Interrupt
<1>7. CASE \E s \in Slots : RejectArguments(s) \/ TakeAnswer(s) \/ Perform(s)
  <2>1. PICK s \in Slots : RejectArguments(s) \/ TakeAnswer(s) \/ Perform(s)
    BY <1>7
  <2>2. /\ phase = "running" /\ phase' = phase /\ batch[s].state # "free"
        /\ UNCHANGED <<turn, standing, requests, questions>>
    BY <2>1 DEF RejectArguments, TakeAnswer, Perform, Runnable
  <2>3. batch \in [Slots -> SlotRecord] /\ batch[s] \in LiveSlot
    BY <2>2, LiveSlotType DEF TypeOK
  <2>4. /\ \A o \in Slots : o # s => batch'[o] = batch[o]
        /\ batch'[s].state \in {"done", "taken"}
    BY <2>1, <2>3 DEF RejectArguments, TakeAnswer, Perform, LiveSlot
  <2>5. \A o \in Slots : batch'[o].state # "surfaced"
    BY <1>0, <2>2, <2>4
  <2> QED
    BY <2>2, <2>5, QuestionsStay
<1>8. CASE BatchDone
  <2>1. \A s \in Slots : batch'[s].state # "surfaced"
    BY <1>8 DEF BatchDone, FreeSlot
  <2> QED
    BY <1>8, <2>1, QuestionsStay DEF BatchDone
<1>9. CASE QuestionFails
  <2>1. \A s \in Slots : batch'[s].state # "surfaced"
    <3>1. batch' = [s \in Slots |-> FreeSlot]
      BY <1>9 DEF QuestionFails, FailQuestion
    <3> QED
      BY <3>1 DEF FreeSlot
  <2> QED
    BY <1>9, <2>1, QuestionsStay DEF QuestionFails, FailQuestion
<1>10. CASE EndTurn \/ FailTurn \/ UNCHANGED vars
  <2>1. /\ UNCHANGED <<turn, batch, standing, requests, questions>>
        /\ phase' = phase \/ phase = "model"
    BY <1>10 DEF EndTurn, FailTurn, vars
  <2> QED
    BY <1>0, <2>1, QuestionsStay
<1> QED
  BY <1>1, <1>2, <1>3, <1>4, <1>5, <1>6, <1>7, <1>8, <1>9, <1>10 DEF Next, QuestionFails

(* Whatever a model proposes, and however often its calls are answered by a
   standing yes: the questions of a turn are within the budget of its rounds. *)
THEOREM OwnerIsAskedWithinBudget == Spec => []QuestionsAreBounded
<1>1. TypeOK /\ QuestionsInv => QuestionsAreBounded
  <2> SUFFICES ASSUME TypeOK, QuestionsInv, NEW t \in 1 .. turn
               PROVE  Cardinality(Asked(t)) <= QuestionBudget * MaxBatch
    BY DEF QuestionsAreBounded, Asked
  <2>1. CASE t = turn
    <3>1. questions * MaxBatch <= QuestionBudget * MaxBatch /\ questions * MaxBatch \in Nat
          /\ QuestionBudget * MaxBatch \in Nat
      BY WithinBudget DEF TypeOK
    <3> QED
      BY <2>1, <3>1, QuestionsAreFinite DEF QuestionsInv
  <2>2. CASE t # turn
    <3>1. turn \in Nat
      BY DEF TypeOK
    <3>2. t \in 1 .. turn - 1
      BY <2>2, <3>1
    <3> QED
      BY <3>2 DEF QuestionsInv
  <2> QED
    BY <2>1, <2>2
<1>2. Init => QuestionsInv
  BY QuestionsInit
<1>3. TypeOK /\ QuestionsInv /\ [Next]_vars => QuestionsInv'
  BY QuestionsStep
<1> QED
  BY <1>1, <1>2, <1>3, TypeCorrect, PTL DEF Spec

-----------------------------------------------------------------------------
(* Executions and approvals of one turn. *)

Keys == {Key(call) : call \in Calls}

\* What ran under a key in turn t, the requests of it that were allowed, and the
\* calls of the batch that were told yes and have not run yet.
Ran(t, key) == {i \in Executions(t) : Key(audit[i].call) = key}

Allowed(t, key) ==
  {r \in DOMAIN requests : /\ requests[r].turn = t
                           /\ requests[r].answer # "decline"
                           /\ Key(requests[r].shown) = key}

Ready(key) == {s \in Slots : batch[s].state \in {"approved", "taken"} /\ Key(batch[s].call) = key}

\* A call is told yes by a request of the turn it runs in.
Within(key) ==
  /\ \A t \in 1 .. turn - 1 : Cardinality(Ran(t, key)) <= Cardinality(Allowed(t, key))
  /\ Cardinality(Ran(turn, key)) + Cardinality(Ready(key)) <= Cardinality(Allowed(turn, key))

\* Between batches nothing waits, and a gated call never runs without being asked for.
Batched ==
  /\ phase \in {"idle", "model"} => \A s \in Slots : batch[s].state = "free"
  /\ \A s \in Slots : batch[s].state = "clear" => ~RequiresConfirmation(batch[s].call.tool)
  /\ \A r \in DOMAIN requests : requests[r].turn <= turn
  /\ \A i \in DOMAIN audit : audit[i].turn <= turn

ApprovalsInv == Batched /\ \A key \in Keys : RequiresConfirmation(key[1]) => Within(key)

LEMMA CountsAreFinite ==
  ASSUME TypeOK, NEW key
  PROVE  /\ \A t : IsFiniteSet(Ran(t, key)) /\ Cardinality(Ran(t, key)) \in Nat
         /\ \A t : IsFiniteSet(Allowed(t, key)) /\ Cardinality(Allowed(t, key)) \in Nat
         /\ IsFiniteSet(Ready(key)) /\ Cardinality(Ready(key)) \in Nat
<1>1. requests \in Seq(RequestRecord) /\ audit \in Seq(AuditRecord)
  BY DEF TypeOK
<1>2. /\ DOMAIN requests = 1 .. Len(requests) /\ Len(requests) \in Nat
      /\ DOMAIN audit = 1 .. Len(audit) /\ Len(audit) \in Nat
  BY <1>1, LenProperties
<1>3. IsFiniteSet(DOMAIN requests) /\ IsFiniteSet(DOMAIN audit) /\ IsFiniteSet(Slots)
  BY <1>2, FS_Interval, BoundAssumption DEF Slots
<1>4. /\ \A t : Ran(t, key) \in SUBSET DOMAIN audit /\ Allowed(t, key) \in SUBSET DOMAIN requests
      /\ Ready(key) \in SUBSET Slots
  BY DEF Ran, Executions, Allowed, Ready
<1> QED
  BY <1>3, <1>4, FS_Subset, FS_CardinalityType

(* A request recorded joins the allowed ones of its key, if it was allowed. *)
LEMMA RecordAllows ==
  ASSUME TypeOK, NEW call, NEW answer, Record(call, answer), NEW key, turn' = turn
  PROVE  /\ \A t : t # turn => Allowed(t, key)' = Allowed(t, key)
         /\ answer = "decline" \/ Key(call) # key => Allowed(turn, key)' = Allowed(turn, key)
         /\ answer # "decline" /\ Key(call) = key =>
              Cardinality(Allowed(turn, key)') = Cardinality(Allowed(turn, key)) + 1
<1>1. PICK new : new = Len(requests) + 1
  OBVIOUS
<1>2. /\ Len(requests) \in Nat /\ DOMAIN requests = 1 .. Len(requests) /\ DOMAIN requests' = 1 .. new
      /\ \A r \in 1 .. Len(requests) : requests'[r] = requests[r]
      /\ requests'[new].answer = answer /\ requests'[new].turn = turn /\ requests'[new].shown = call
  BY <1>1, RecordedRequests
<1>3. new \notin DOMAIN requests /\ DOMAIN requests' = DOMAIN requests \cup {new}
  BY <1>1, <1>2
<1>4. \A t : t # turn => Allowed(t, key)' = Allowed(t, key)
  BY <1>2, <1>3 DEF Allowed
<1>5. ASSUME answer = "decline" \/ Key(call) # key PROVE Allowed(turn, key)' = Allowed(turn, key)
  BY <1>2, <1>3, <1>5 DEF Allowed
<1>6. ASSUME answer # "decline", Key(call) = key
      PROVE  Cardinality(Allowed(turn, key)') = Cardinality(Allowed(turn, key)) + 1
  <2>1. Allowed(turn, key)' = Allowed(turn, key) \cup {new}
    BY <1>2, <1>3, <1>6 DEF Allowed
  <2>2. new \notin Allowed(turn, key) /\ IsFiniteSet(Allowed(turn, key))
    BY <1>3, CountsAreFinite DEF Allowed
  <2> QED
    BY <2>1, <2>2, FS_AddElement
<1> QED
  BY <1>4, <1>5, <1>6

(* What a step within a turn does to the count of a key: nothing new runs or is
   told yes; or one call is told yes, by a request; or one that was told yes runs. *)
LEMMA NothingRuns ==
  ASSUME TypeOK, NEW key, Within(key), UNCHANGED <<turn, requests, audit>>, Ready(key)' \subseteq Ready(key)
  PROVE  Within(key)'
<1>1. \A t : Ran(t, key)' = Ran(t, key) /\ Allowed(t, key)' = Allowed(t, key)
  BY DEF Ran, Executions, Allowed
<1>2. Cardinality(Ready(key)') <= Cardinality(Ready(key)) /\ Cardinality(Ready(key)') \in Nat
  BY CountsAreFinite, FS_Subset, FS_CardinalityType
<1>3. Cardinality(Ran(turn, key)) + Cardinality(Ready(key)') <= Cardinality(Allowed(turn, key))
  <2>1. Cardinality(Ran(turn, key)) + Cardinality(Ready(key)) <= Cardinality(Allowed(turn, key))
    BY DEF Within
  <2>2. /\ Cardinality(Ran(turn, key)) \in Nat /\ Cardinality(Ready(key)) \in Nat
        /\ Cardinality(Allowed(turn, key)) \in Nat
    BY CountsAreFinite
  <2> QED
    BY <1>2, <2>1, <2>2
<1> QED
  BY <1>1, <1>3 DEF Within

LEMMA OneIsToldYes ==
  ASSUME TypeOK, NEW key, Within(key), turn' = turn, audit' = audit,
         NEW call, NEW answer, Record(call, answer),
         NEW s, Ready(key)' \subseteq Ready(key) \cup {s},
         answer = "decline" \/ Key(call) # key => Ready(key)' \subseteq Ready(key)
  PROVE  Within(key)'
<1>1. \A t : Ran(t, key)' = Ran(t, key)
  BY DEF Ran, Executions
<1>2. /\ Cardinality(Ran(turn, key)) \in Nat /\ Cardinality(Ready(key)) \in Nat
      /\ Cardinality(Allowed(turn, key)) \in Nat /\ IsFiniteSet(Ready(key))
  BY CountsAreFinite
<1>3. Cardinality(Ran(turn, key)) + Cardinality(Ready(key)) <= Cardinality(Allowed(turn, key))
  BY DEF Within
<1>4. \A t \in 1 .. turn - 1 : Cardinality(Ran(t, key)') <= Cardinality(Allowed(t, key)')
  <2>1. turn \in Nat
    BY DEF TypeOK
  <2>2. \A t \in 1 .. turn - 1 : t # turn
    BY <2>1
  <2>3. \A t : t # turn => Allowed(t, key)' = Allowed(t, key)
    BY RecordAllows
  <2> QED
    BY <1>1, <2>2, <2>3 DEF Within
<1>5. Cardinality(Ran(turn, key)) + Cardinality(Ready(key)') <= Cardinality(Allowed(turn, key)')
  <2>1. CASE answer = "decline" \/ Key(call) # key
    <3>1. Allowed(turn, key)' = Allowed(turn, key)
      BY <2>1, RecordAllows
    <3>2. Cardinality(Ready(key)') <= Cardinality(Ready(key)) /\ Cardinality(Ready(key)') \in Nat
      BY <1>2, <2>1, FS_Subset, FS_CardinalityType
    <3> QED
      BY <1>2, <1>3, <3>1, <3>2
  <2>2. CASE answer # "decline" /\ Key(call) = key
    <3>1. Cardinality(Allowed(turn, key)') = Cardinality(Allowed(turn, key)) + 1
      BY <2>2, RecordAllows
    <3>2. /\ IsFiniteSet(Ready(key) \cup {s})
          /\ Cardinality(Ready(key) \cup {s}) = IF s \in Ready(key) THEN Cardinality(Ready(key))
                                                                  ELSE Cardinality(Ready(key)) + 1
      BY <1>2, FS_AddElement
    <3>3. Cardinality(Ready(key)') <= Cardinality(Ready(key) \cup {s}) /\ Cardinality(Ready(key)') \in Nat
      BY <3>2, FS_Subset, FS_CardinalityType
    <3> QED
      BY <1>2, <1>3, <3>1, <3>2, <3>3
  <2> QED
    BY <2>1, <2>2
<1>6. Ran(turn, key)' = Ran(turn, key)
  BY <1>1
<1> QED
  BY <1>4, <1>5, <1>6 DEF Within

LEMMA OneRuns ==
  ASSUME TypeOK, NEW key, Within(key), NEW s \in Slots, Perform(s)
  PROVE  Within(key)'
<1>1. /\ batch[s].state = "taken" /\ UNCHANGED <<turn, requests>>
      /\ batch' = [batch EXCEPT ![s].state = "done"]
  BY DEF Perform
<1>2. batch[s] \in LiveSlot /\ batch \in [Slots -> SlotRecord]
  BY <1>1, LiveSlotType DEF TypeOK
<1>3. batch'[s].state = "done" /\ \A o \in Slots : o # s => batch'[o] = batch[o]
  BY <1>1, <1>2 DEF LiveSlot
<1>4. Ready(key)' \subseteq Ready(key) \ {s}
  BY <1>3 DEF Ready
<1>5. PICK outcome \in Outcomes(batch[s].call, batch[s].held) :
        /\ Len(audit) \in Nat /\ DOMAIN audit = 1 .. Len(audit) /\ DOMAIN audit' = 1 .. Len(audit) + 1
        /\ \A i \in 1 .. Len(audit) : audit'[i] = audit[i]
        /\ audit'[Len(audit) + 1] = Entry(s, outcome)
  BY PerformAppends
<1>6. PICK new : new = Len(audit) + 1
  OBVIOUS
<1>7. /\ DOMAIN audit' = DOMAIN audit \cup {new} /\ new \notin DOMAIN audit
      /\ \A i \in DOMAIN audit : audit'[i] = audit[i]
      /\ audit'[new].call = batch[s].call /\ audit'[new].turn = turn
  BY <1>5, <1>6 DEF Entry
<1>8. \A t : t # turn => Ran(t, key)' = Ran(t, key)
  BY <1>7 DEF Ran, Executions
<1>9. Ran(turn, key)' \subseteq Ran(turn, key) \cup {new}
  BY <1>1, <1>7 DEF Ran, Executions
<1>10. Key(batch[s].call) # key => Ran(turn, key)' \subseteq Ran(turn, key)
  BY <1>1, <1>7 DEF Ran, Executions
<1>11. \A t : Allowed(t, key)' = Allowed(t, key)
  BY <1>1 DEF Allowed
<1>12. /\ Cardinality(Ran(turn, key)) \in Nat /\ IsFiniteSet(Ran(turn, key))
       /\ Cardinality(Ready(key)) \in Nat /\ IsFiniteSet(Ready(key))
       /\ Cardinality(Allowed(turn, key)) \in Nat
       /\ Cardinality(Ran(turn, key)) + Cardinality(Ready(key)) <= Cardinality(Allowed(turn, key))
  BY CountsAreFinite DEF Within
<1>13. /\ IsFiniteSet(Ready(key) \ {s})
       /\ Cardinality(Ready(key) \ {s}) = IF s \in Ready(key) THEN Cardinality(Ready(key)) - 1
                                                             ELSE Cardinality(Ready(key))
  BY <1>12, FS_RemoveElement
<1>14. Cardinality(Ready(key)') <= Cardinality(Ready(key) \ {s}) /\ Cardinality(Ready(key)') \in Nat
  BY <1>4, <1>13, FS_Subset, FS_CardinalityType
<1>15. Cardinality(Ran(turn, key)') + Cardinality(Ready(key)') <= Cardinality(Allowed(turn, key))
  <2>1. CASE Key(batch[s].call) # key
    <3>1. Cardinality(Ran(turn, key)') <= Cardinality(Ran(turn, key)) /\ Cardinality(Ran(turn, key)') \in Nat
      BY <1>10, <1>12, <2>1, FS_Subset, FS_CardinalityType
    <3> QED
      BY <1>12, <1>13, <1>14, <3>1
  <2>2. CASE Key(batch[s].call) = key
    <3>1. s \in Ready(key)
      BY <1>1, <2>2 DEF Ready
    <3>2. /\ IsFiniteSet(Ran(turn, key) \cup {new})
          /\ Cardinality(Ran(turn, key) \cup {new}) = IF new \in Ran(turn, key)
                                                      THEN Cardinality(Ran(turn, key))
                                                      ELSE Cardinality(Ran(turn, key)) + 1
      BY <1>12, FS_AddElement
    <3>3. /\ Cardinality(Ran(turn, key)') <= Cardinality(Ran(turn, key) \cup {new})
          /\ Cardinality(Ran(turn, key)') \in Nat
      BY <1>9, <3>2, FS_Subset, FS_CardinalityType
    <3>4. Cardinality(Ran(turn, key) \cup {new}) \in Nat
      BY <3>2, FS_CardinalityType
    <3> QED
      BY <1>12, <1>13, <1>14, <3>1, <3>2, <3>3, <3>4
  <2> QED
    BY <2>1, <2>2
<1>16. \A t \in 1 .. turn - 1 : Cardinality(Ran(t, key)') <= Cardinality(Allowed(t, key)')
  <2>1. turn \in Nat
    BY DEF TypeOK
  <2>2. \A t \in 1 .. turn - 1 : t # turn
    BY <2>1
  <2> QED
    BY <1>8, <1>11, <2>2 DEF Within
<1>17. Allowed(turn, key)' = Allowed(turn, key)
  BY <1>1 DEF Allowed
<1> QED
  BY <1>1, <1>15, <1>16, <1>17 DEF Within

\* What a step of one call does to the slots.
LEMMA OneMoves ==
  ASSUME TypeOK, NEW s \in Slots, batch[s].state # "free", NEW state, NEW request,
         \/ batch' = [batch EXCEPT ![s].state = state]
         \/ batch' = [batch EXCEPT ![s].state = state, ![s].shown = request]
         \/ batch' = [batch EXCEPT ![s].state = state, ![s].held = request]
  PROVE  /\ batch'[s].state = state /\ batch'[s].call = batch[s].call
         /\ \A o \in Slots : o # s => batch'[o] = batch[o]
<1>1. batch[s] \in LiveSlot /\ batch \in [Slots -> SlotRecord]
  BY LiveSlotType DEF TypeOK
<1> QED
  BY <1>1 DEF LiveSlot

LEMMA BatchedStays ==
  ASSUME TypeOK, Batched, turn' = turn,
         phase' \in {"idle", "model"} => \A s \in Slots : batch'[s].state = "free",
         \A s \in Slots : batch'[s].state = "clear" => ~RequiresConfirmation(batch'[s].call.tool),
         requests' = requests \/ \E call, answer : Record(call, answer),
         audit' = audit \/ \E s \in Slots : Perform(s)
  PROVE  Batched'
<1>0. turn \in Nat
  BY DEF TypeOK
<1>1. \A r \in DOMAIN requests' : requests'[r].turn <= turn'
  <2>1. CASE requests' = requests
    BY <2>1 DEF Batched
  <2>2. CASE \E call, answer : Record(call, answer)
    <3>1. PICK call, answer : Record(call, answer)
      BY <2>2
    <3>2. /\ Len(requests) \in Nat /\ DOMAIN requests = 1 .. Len(requests)
          /\ DOMAIN requests' = 1 .. Len(requests) + 1
          /\ \A r \in 1 .. Len(requests) : requests'[r] = requests[r]
          /\ requests'[Len(requests) + 1].turn = turn
      BY <3>1, RecordedRequests
    <3>3. \A r \in DOMAIN requests' : r \in DOMAIN requests \/ r = Len(requests) + 1
      BY <3>2
    <3>4. \A r \in DOMAIN requests : requests'[r].turn <= turn
      BY <3>2 DEF Batched
    <3> QED
      BY <1>0, <3>2, <3>3, <3>4
  <2> QED
    BY <2>1, <2>2
<1>2. \A i \in DOMAIN audit' : audit'[i].turn <= turn'
  <2>1. CASE audit' = audit
    BY <2>1 DEF Batched
  <2>2. CASE \E s \in Slots : Perform(s)
    <3>1. PICK s \in Slots : Perform(s)
      BY <2>2
    <3>2. PICK outcome \in Outcomes(batch[s].call, batch[s].held) :
            /\ Len(audit) \in Nat /\ DOMAIN audit = 1 .. Len(audit) /\ DOMAIN audit' = 1 .. Len(audit) + 1
            /\ \A i \in 1 .. Len(audit) : audit'[i] = audit[i]
            /\ audit'[Len(audit) + 1] = Entry(s, outcome)
      BY <3>1, PerformAppends
    <3>3. audit'[Len(audit) + 1].turn = turn
      BY <3>2 DEF Entry
    <3>4. \A i \in DOMAIN audit' : i \in DOMAIN audit \/ i = Len(audit) + 1
      BY <3>2
    <3>5. \A i \in DOMAIN audit : audit'[i].turn <= turn
      BY <3>2 DEF Batched
    <3> QED
      BY <1>0, <3>3, <3>4, <3>5
  <2> QED
    BY <2>1, <2>2
<1> QED
  BY <1>1, <1>2 DEF Batched

LEMMA ApprovalsInit == Init => ApprovalsInv
<1> SUFFICES ASSUME Init PROVE ApprovalsInv
  OBVIOUS
<1>1. /\ turn = 0 /\ requests = << >> /\ audit = << >> /\ batch = [s \in Slots |-> FreeSlot]
  BY DEF Init
<1>2. DOMAIN requests = {} /\ DOMAIN audit = {} /\ 1 .. turn - 1 = {}
  BY <1>1
<1>3. \A s \in Slots : batch[s].state = "free"
  BY <1>1 DEF FreeSlot
<1>4. \A key : Ran(turn, key) = {} /\ Allowed(turn, key) = {} /\ Ready(key) = {}
  BY <1>2, <1>3 DEF Ran, Executions, Allowed, Ready
<1>5. Cardinality({}) = 0
  BY FS_EmptySet
<1>6. Batched
  BY <1>2, <1>3 DEF Batched
<1>7. ASSUME NEW key PROVE Within(key)
  <2>1. Cardinality(Ran(turn, key)) + Cardinality(Ready(key)) <= Cardinality(Allowed(turn, key))
    BY <1>4, <1>5
  <2>2. \A t \in 1 .. turn - 1 : FALSE
    BY <1>2
  <2> QED
    BY <2>1, <2>2 DEF Within
<1> QED
  BY <1>6, <1>7 DEF ApprovalsInv

\* Nothing of the new turn ran or was asked for, and nothing waits to run.
LEMMA ApprovalsBegin ==
  ASSUME TypeOK, ApprovalsInv, StartTurn
  PROVE  ApprovalsInv'
<1>1. /\ turn \in Nat /\ turn' = turn + 1 /\ phase = "idle"
      /\ UNCHANGED <<batch, requests, audit>>
  BY DEF StartTurn, TypeOK
<1>2. /\ \A r \in DOMAIN requests : requests[r] \in RequestRecord
      /\ \A i \in DOMAIN audit : audit[i] \in AuditRecord
  <2>1. requests \in Seq(RequestRecord) /\ audit \in Seq(AuditRecord)
    BY DEF TypeOK
  <2> QED
    BY <2>1, ElementOfSeq, LenProperties
<1>3. /\ \A r \in DOMAIN requests : requests[r].turn \in Nat /\ requests[r].turn <= turn
      /\ \A i \in DOMAIN audit : audit[i].turn \in Nat /\ audit[i].turn <= turn
  BY <1>2 DEF ApprovalsInv, Batched, RequestRecord, AuditRecord
<1>4. \A s \in Slots : batch[s].state = "free"
  BY <1>1 DEF ApprovalsInv, Batched
<1>5. Batched'
  BY <1>1, <1>3, <1>4 DEF Batched
<1>6. ASSUME NEW key \in Keys, RequiresConfirmation(key[1])
      PROVE  Within(key)'
  <2>1. /\ \A r \in DOMAIN requests : requests[r].turn # turn + 1
        /\ \A i \in DOMAIN audit : audit[i].turn # turn + 1
    BY <1>1, <1>3
  <2>2. Ran(turn, key)' = {} /\ Allowed(turn, key)' = {} /\ Ready(key)' = {}
    BY <1>1, <1>4, <2>1 DEF Ran, Executions, Allowed, Ready
  <2>3. \A t : Ran(t, key)' = Ran(t, key) /\ Allowed(t, key)' = Allowed(t, key)
    BY <1>1 DEF Ran, Executions, Allowed
  <2>4. ASSUME NEW t \in 1 .. turn PROVE Cardinality(Ran(t, key)) <= Cardinality(Allowed(t, key))
    <3>1. Within(key)
      BY <1>6 DEF ApprovalsInv
    <3>2. CASE t = turn
      <4>1. Cardinality(Ran(turn, key)) + Cardinality(Ready(key)) <= Cardinality(Allowed(turn, key))
        BY <3>1 DEF Within
      <4>2. /\ Cardinality(Ran(turn, key)) \in Nat /\ Cardinality(Ready(key)) \in Nat
            /\ Cardinality(Allowed(turn, key)) \in Nat
        BY CountsAreFinite
      <4> QED
        BY <3>2, <4>1, <4>2
    <3>3. CASE t # turn
      <4>1. t \in 1 .. turn - 1
        BY <1>1, <3>3
      <4> QED
        BY <3>1, <4>1 DEF Within
    <3> QED
      BY <3>2, <3>3
  <2>5. \A t \in 1 .. turn' - 1 : Cardinality(Ran(t, key)') <= Cardinality(Allowed(t, key)')
    <3>1. 1 .. turn' - 1 = 1 .. turn
      BY <1>1
    <3> QED
      BY <2>3, <2>4, <3>1
  <2>6. Cardinality({}) = 0
    BY FS_EmptySet
  <2>7. Cardinality(Ran(turn, key)') + Cardinality(Ready(key)') <= Cardinality(Allowed(turn, key)')
    BY <2>2, <2>6
  <2> QED
    BY <2>5, <2>7 DEF Within
<1> QED
  BY <1>5, <1>6 DEF ApprovalsInv, Keys

\* A step by which no call becomes ready, and that runs nothing.
LEMMA ApprovalsStay ==
  ASSUME TypeOK, ApprovalsInv, UNCHANGED <<turn, requests, audit>>,
         phase' \in {"idle", "model"} => \A s \in Slots : batch'[s].state = "free",
         \A s \in Slots : batch'[s].state = "clear" => ~RequiresConfirmation(batch'[s].call.tool),
         \A s \in Slots : batch'[s].state \in {"approved", "taken"} =>
           /\ batch[s].state \in {"approved", "taken", "clear"}
           /\ batch'[s].call = batch[s].call
  PROVE  ApprovalsInv'
<1>1. Batched /\ \A s \in Slots : batch[s].state = "clear" => ~RequiresConfirmation(batch[s].call.tool)
  BY DEF ApprovalsInv, Batched
<1>2. Batched'
  BY <1>1, BatchedStays
<1>3. ASSUME NEW key \in Keys, RequiresConfirmation(key[1])
      PROVE  Within(key)'
  <2>1. \A s \in Slots : Key(batch[s].call) = key => batch[s].state # "clear"
    BY <1>1, <1>3 DEF Key
  <2>2. Ready(key)' \subseteq Ready(key)
    BY <2>1 DEF Ready
  <2>3. Within(key)
    BY <1>3 DEF ApprovalsInv
  <2> QED
    BY <2>2, <2>3, NothingRuns
<1> QED
  BY <1>2, <1>3 DEF ApprovalsInv, Keys

\* A call is told yes or no by the request that is recorded for it.
LEMMA ApprovalsAnswered ==
  ASSUME TypeOK, ApprovalsInv, NEW s \in Slots, NEW answer,
         (ApproveByStandingAnswer(s) /\ answer = Standing) \/ Ask(s, answer)
  PROVE  ApprovalsInv'
<1>1. /\ TurnOf(s) /\ Record(batch[s].call, answer) /\ UNCHANGED <<turn, audit>>
      /\ phase' \in {"asking", "running"}
      /\ \/ Answered(s, "approved", Len(requests) + 1) /\ answer = Standing
         \/ Answered(s, Verdict(answer), Len(requests) + 1)
  BY DEF ApproveByStandingAnswer, Ask, Answered
<1>2. PICK state : /\ state \in {"approved", "declined"}
                   /\ answer = "decline" => state = "declined"
                   /\ Answered(s, state, Len(requests) + 1)
  BY <1>1 DEF Verdict, Approves, Standing
<1>3. batch[s].state # "free"
  BY <1>1 DEF TurnOf
<1>4. /\ batch'[s].state = state /\ batch'[s].call = batch[s].call
      /\ \A o \in Slots : o # s => batch'[o] = batch[o]
  BY <1>2, <1>3, OneMoves DEF Answered
<1>5. Batched /\ \A o \in Slots : batch[o].state = "clear" => ~RequiresConfirmation(batch[o].call.tool)
  BY DEF ApprovalsInv, Batched
<1>6. \A o \in Slots : batch'[o].state = "clear" => ~RequiresConfirmation(batch'[o].call.tool)
  BY <1>2, <1>4, <1>5
<1>7. Batched'
  BY <1>1, <1>5, <1>6, BatchedStays
<1>8. ASSUME NEW key \in Keys, RequiresConfirmation(key[1])
      PROVE  Within(key)'
  <2>1. Ready(key)' \subseteq Ready(key) \cup {s}
    BY <1>4 DEF Ready
  <2>2. answer = "decline" \/ Key(batch[s].call) # key => Ready(key)' \subseteq Ready(key)
    BY <1>2, <1>4 DEF Ready
  <2>3. Within(key)
    BY <1>8 DEF ApprovalsInv
  <2> QED
    BY <1>1, <2>1, <2>2, <2>3, OneIsToldYes
<1> QED
  BY <1>7, <1>8 DEF ApprovalsInv, Keys

\* A call that was told yes leaves the ready ones as it runs.
LEMMA ApprovalsRun ==
  ASSUME TypeOK, ApprovalsInv, NEW s \in Slots, Perform(s)
  PROVE  ApprovalsInv'
<1>1. /\ phase' = "running" /\ UNCHANGED <<turn, requests>> /\ batch[s].state # "free"
      /\ batch' = [batch EXCEPT ![s].state = "done"]
  BY DEF Perform
<1>2. /\ batch'[s].state = "done"
      /\ \A o \in Slots : o # s => batch'[o] = batch[o]
  BY <1>1, OneMoves
<1>3. Batched /\ \A o \in Slots : batch[o].state = "clear" => ~RequiresConfirmation(batch[o].call.tool)
  BY DEF ApprovalsInv, Batched
<1>4. \A o \in Slots : batch'[o].state = "clear" => ~RequiresConfirmation(batch'[o].call.tool)
  BY <1>2, <1>3
<1>5. Batched'
  BY <1>1, <1>3, <1>4, BatchedStays
<1>6. \A key \in Keys : RequiresConfirmation(key[1]) => Within(key)'
  BY OneRuns DEF ApprovalsInv
<1> QED
  BY <1>5, <1>6 DEF ApprovalsInv, Keys

LEMMA ApprovalsStep == TypeOK /\ ApprovalsInv /\ [Next]_vars => ApprovalsInv'
<1> SUFFICES ASSUME TypeOK, ApprovalsInv, [Next]_vars PROVE ApprovalsInv'
  OBVIOUS
<1>0. /\ phase \in {"idle", "model"} => \A s \in Slots : batch[s].state = "free"
      /\ \A s \in Slots : batch[s].state = "clear" => ~RequiresConfirmation(batch[s].call.tool)
  BY DEF ApprovalsInv, Batched
<1>1. CASE StartTurn
  BY <1>1, ApprovalsBegin
<1>2. CASE Propose
  <2>1. PICK n \in Slots : \E proposal \in [1 .. n -> Calls] :
          batch' = [s \in Slots |-> IF s <= n THEN Proposed(proposal[s]) ELSE FreeSlot]
    BY <1>2 DEF Propose
  <2>2. PICK proposal \in [1 .. n -> Calls] :
          batch' = [s \in Slots |-> IF s <= n THEN Proposed(proposal[s]) ELSE FreeSlot]
    BY <2>1
  <2>3. \A call : /\ Proposed(call).call = call
                  /\ Proposed(call).state = IF RequiresConfirmation(call.tool) THEN "waiting" ELSE "clear"
    BY DEF Proposed, FreeSlot
  <2>4. FreeSlot.state = "free"
    BY DEF FreeSlot
  <2>5. \A s \in Slots : batch'[s] = IF s <= n THEN Proposed(proposal[s]) ELSE FreeSlot
    BY <2>2
  <2>6. \A s \in Slots : /\ batch'[s].state \in {"waiting", "clear", "free"}
                         /\ batch'[s].state = "clear" => ~RequiresConfirmation(batch'[s].call.tool)
    BY <2>3, <2>4, <2>5
  <2>7. phase' \notin {"idle", "model"} /\ UNCHANGED <<turn, requests, audit>>
    BY <1>2 DEF Propose
  <2> QED
    BY <2>6, <2>7, ApprovalsStay
<1>3. CASE \E m \in Slots : OpenRound(m) \/ Interrupt(m)
  <2>1. PICK m \in Slots : OpenRound(m) \/ Interrupt(m)
    BY <1>3
  <2>2. PICK chosen \in SUBSET InState({"waiting"}), state \in {"surfaced", "declined"} :
          batch' = [s \in Slots |-> IF s \in chosen THEN [batch[s] EXCEPT !.state = state] ELSE batch[s]]
    BY <2>1 DEF OpenRound, Interrupt, Surfaced, Refused
  <2>3. \A s \in chosen : s \in Slots /\ batch[s] \in LiveSlot
    <3>1. \A s \in chosen : s \in Slots /\ batch[s].state # "free"
      BY DEF InState
    <3> QED
      BY <3>1, LiveSlotType
  <2>4. \A s \in chosen : batch'[s].state = state
    BY <2>2, <2>3 DEF LiveSlot
  <2>5. \A s \in Slots : s \notin chosen => batch'[s] = batch[s]
    BY <2>2
  <2>6. phase' \notin {"idle", "model"} /\ UNCHANGED <<turn, requests, audit>>
    BY <2>1 DEF OpenRound, Interrupt
  <2>7. \A s \in Slots : batch'[s].state \in {"surfaced", "declined"} \/ batch'[s] = batch[s]
    BY <2>4, <2>5
  <2> QED
    BY <1>0, <2>6, <2>7, ApprovalsStay
<1>4. CASE \E s \in Slots : DeclineUndescribed(s) \/ RejectArguments(s) \/ TakeAnswer(s)
  <2>1. PICK s \in Slots : DeclineUndescribed(s) \/ RejectArguments(s) \/ TakeAnswer(s)
    BY <1>4
  <2>2. phase' \notin {"idle", "model"} /\ UNCHANGED <<turn, requests, audit>> /\ batch[s].state # "free"
    BY <2>1 DEF DeclineUndescribed, RejectArguments, TakeAnswer, TurnOf, Answered, Runnable
  <2>3. PICK state, request :
          /\ state \in {"declined", "done", "taken"}
          /\ state = "taken" => batch[s].state \in {"approved", "clear"}
          /\ \/ batch' = [batch EXCEPT ![s].state = state]
             \/ batch' = [batch EXCEPT ![s].state = state, ![s].shown = request]
             \/ batch' = [batch EXCEPT ![s].state = state, ![s].held = request]
    BY <2>1 DEF DeclineUndescribed, RejectArguments, TakeAnswer, Answered, Runnable
  <2>4. /\ batch'[s].state = state /\ batch'[s].call = batch[s].call
        /\ \A o \in Slots : o # s => batch'[o] = batch[o]
    <3>1. batch[s] \in LiveSlot /\ batch \in [Slots -> SlotRecord]
      BY <2>2, LiveSlotType DEF TypeOK
    <3> QED
      BY <2>3, <3>1 DEF LiveSlot
  <2>5. \A o \in Slots : /\ batch'[o].state = "clear" => batch'[o] = batch[o]
                         /\ batch'[o].state \in {"approved", "taken"} =>
                              /\ batch[o].state \in {"approved", "taken", "clear"}
                              /\ batch'[o].call = batch[o].call
    BY <2>3, <2>4
  <2>6. \A o \in Slots : batch'[o].state = "clear" => ~RequiresConfirmation(batch'[o].call.tool)
    BY <1>0, <2>5
  <2> QED
    BY <2>2, <2>5, <2>6, ApprovalsStay
<1>5. CASE \E s \in Slots : ApproveByStandingAnswer(s)
  BY <1>5, ApprovalsAnswered
<1>6. CASE \E s \in Slots, answer \in Answers : Ask(s, answer)
  BY <1>6, ApprovalsAnswered
<1>7. CASE \E s \in Slots : Perform(s)
  BY <1>7, ApprovalsRun
<1>8. CASE BatchDone
  <2>1. \A s \in Slots : batch'[s].state = "free"
    BY <1>8 DEF BatchDone, FreeSlot
  <2>2. UNCHANGED <<turn, requests, audit>>
    BY <1>8 DEF BatchDone
  <2> QED
    BY <2>1, <2>2, ApprovalsStay
<1>9. CASE QuestionFails
  <2>1. \A s \in Slots : batch'[s].state = "free"
    <3>1. batch' = [s \in Slots |-> FreeSlot]
      BY <1>9 DEF QuestionFails, FailQuestion
    <3> QED
      BY <3>1 DEF FreeSlot
  <2>2. UNCHANGED <<turn, requests, audit>>
    BY <1>9 DEF QuestionFails, FailQuestion
  <2> QED
    BY <2>1, <2>2, ApprovalsStay
<1>10. CASE EndTurn \/ FailTurn \/ UNCHANGED vars
  <2>1. UNCHANGED <<turn, batch, requests, audit>> /\ (phase' = phase \/ phase = "model")
    BY <1>10 DEF EndTurn, FailTurn, vars
  <2> QED
    BY <1>0, <2>1, ApprovalsStay
<1> QED
  BY <1>1, <1>2, <1>3, <1>4, <1>5, <1>6, <1>7, <1>8, <1>9, <1>10 DEF Next, QuestionFails

(* However the answers of earlier turns pile up in the ledger, and whatever the
   loop declines or discards: no more operations of one kind on one target run in
   a turn than the owner allowed in that turn. *)
THEOREM ExecutionsAreWithinApprovals == Spec => []ExecutionsWithinApprovals
<1>1. TypeOK /\ ApprovalsInv => ExecutionsWithinApprovals
  <2> SUFFICES ASSUME TypeOK, ApprovalsInv, NEW t \in 1 .. turn, NEW key \in Keys, RequiresConfirmation(key[1])
               PROVE  Cardinality(Ran(t, key)) <= Cardinality(Allowed(t, key))
    BY DEF ExecutionsWithinApprovals, Ran, Allowed, Keys
  <2>1. Within(key)
    BY DEF ApprovalsInv
  <2>2. CASE t = turn
    <3>1. Cardinality(Ran(turn, key)) + Cardinality(Ready(key)) <= Cardinality(Allowed(turn, key))
      BY <2>1 DEF Within
    <3>2. /\ Cardinality(Ran(turn, key)) \in Nat /\ Cardinality(Ready(key)) \in Nat
          /\ Cardinality(Allowed(turn, key)) \in Nat
      BY CountsAreFinite
    <3> QED
      BY <2>2, <3>1, <3>2
  <2>3. CASE t # turn
    <3>1. turn \in Nat
      BY DEF TypeOK
    <3>2. t \in 1 .. turn - 1
      BY <2>3, <3>1
    <3> QED
      BY <2>1, <3>2 DEF Within
  <2> QED
    BY <2>2, <2>3
<1>2. Init => ApprovalsInv
  BY ApprovalsInit
<1>3. TypeOK /\ ApprovalsInv /\ [Next]_vars => ApprovalsInv'
  BY ApprovalsStep
<1> QED
  BY <1>1, <1>2, <1>3, TypeCorrect, PTL DEF Spec

-----------------------------------------------------------------------------
(* Labels. *)

MailboxType ==
  /\ labels \in [Ids -> Label \cup {NoLabel}]
  /\ made \in 0 .. MaxMade
  /\ filed \subseteq Filing

ConversationType ==
  /\ listing \in {<< >>} \cup [Ids -> Names \cup {Unnamed}]
  /\ question \in Question \cup {NoQuestion}

\* What every operation of the mailbox preserves.
MailboxInv ==
  /\ MailboxType
  /\ OneLabelPerName
  /\ FiledUnderTheirLabel

\* What an operation of the mailbox never does to a label.
Kept ==
  \A id \in Ids : Exists(id) /\ labels'[id] # labels[id] =>
    /\ id \notin SystemIds
    /\ labels'[id] = NoLabel
    /\ made' = made

LabelsInv == MailboxInv /\ ConversationType

-----------------------------------------------------------------------------
\* An identifier minted for a name is free, and no label of the system's.
LEMMA Minted ==
  ASSUME NEW name \in Names, Unused(name) # {}
  PROVE  Mint(name) \in Ids \ SystemIds /\ ~Exists(Mint(name))
<1>1. Candidates[name] \in Seq(Ids)
  BY CandidatesAssumption
<1>2. Unused(name) \in SUBSET Nat
  BY <1>1 DEF Unused
<1>3. \E i \in Unused(name) : \A j \in Unused(name) : i <= j
  BY <1>2, LeastNatural
<1>4. PICK i \in Unused(name) : Mint(name) = Candidates[name][i]
  BY <1>3 DEF Mint
<1>5. i \in DOMAIN Candidates[name] /\ ~Exists(Candidates[name][i])
  BY <1>4 DEF Unused
<1> QED
  BY <1>1, <1>4, <1>5, CandidatesAssumption

-----------------------------------------------------------------------------
(* The operations of the mailbox. *)

LEMMA Creating ==
  ASSUME MailboxInv, NEW name \in Names, Create(name)
  PROVE  MailboxInv' /\ Kept
<1> USE DEF MailboxInv
<1>1. CASE UNCHANGED <<labels, made, filed>>
  BY <1>1 DEF MailboxType, OneLabelPerName, FiledUnderTheirLabel, Exists, Kept
<1>2. CASE ~UNCHANGED <<labels, made, filed>>
  <2> DEFINE new == [name |-> name, made |-> made + 1]
  <2>1. /\ Bearing(name) = {}
        /\ made < MaxMade
        /\ Unused(name) # {}
        /\ labels' = [labels EXCEPT ![Mint(name)] = new]
        /\ made' = made + 1
        /\ filed' = filed
    BY <1>2 DEF Create
  <2>2. Mint(name) \in Ids \ SystemIds /\ ~Exists(Mint(name))
    BY <2>1, Minted
  <2>3. new \in Label /\ new # NoLabel
    <3>1. made + 1 \in Nat
      BY MadeAssumption DEF MailboxType
    <3> QED
      BY <3>1, NamesAssumption DEF Label, NoLabel
  <2>4. /\ labels'[Mint(name)] = new
        /\ \A id \in Ids : id # Mint(name) => labels'[id] = labels[id]
    BY <2>1, <2>2 DEF MailboxType
  <2>5. MailboxType'
    <3>1. labels' \in [Ids -> Label \cup {NoLabel}]
      BY <2>1, <2>3 DEF MailboxType
    <3>2. made' \in 0 .. MaxMade
      BY <2>1, MadeAssumption DEF MailboxType
    <3> QED
      BY <3>1, <3>2, <2>1 DEF MailboxType
  <2>6. OneLabelPerName'
    <3>1. ASSUME NEW id \in Ids, Exists(id) PROVE Fold[labels[id].name] # Fold[name]
      BY <3>1, <2>1 DEF Bearing
    <3>2. new.name = name
      OBVIOUS
    <3> HIDE DEF new
    <3>3. ASSUME NEW id \in Ids, NEW other \in Ids, Exists(id)', Exists(other)',
                 Fold[labels'[id].name] = Fold[labels'[other].name], id # other
          PROVE  FALSE
      <4>1. CASE id = Mint(name)
        BY <4>1, <3>1, <3>2, <3>3, <2>4 DEF Exists
      <4>2. CASE other = Mint(name)
        BY <4>2, <3>1, <3>2, <3>3, <2>4 DEF Exists
      <4>3. CASE id # Mint(name) /\ other # Mint(name)
        BY <4>3, <3>3, <2>4 DEF Exists, OneLabelPerName
      <4> QED
        BY <4>1, <4>2, <4>3
    <3> QED
      BY <3>3 DEF OneLabelPerName
  <2>7. FiledUnderTheirLabel'
    BY <2>1, <2>2, <2>4 DEF FiledUnderTheirLabel, Exists, MailboxType, Filing
  <2>8. Kept
    BY <2>2, <2>4 DEF Kept
  <2> QED
    BY <2>5, <2>6, <2>7, <2>8
<1> QED
  BY <1>1, <1>2

LEMMA Deleting ==
  ASSUME MailboxInv, NEW id \in Ids, Delete(id)
  PROVE  MailboxInv' /\ Kept
<1> USE DEF MailboxInv
<1>1. CASE UNCHANGED <<labels, made, filed>>
  BY <1>1 DEF MailboxType, OneLabelPerName, FiledUnderTheirLabel, Exists, Kept
<1>2. CASE ~UNCHANGED <<labels, made, filed>>
  <2>1. /\ Exists(id) /\ id \notin SystemIds
        /\ labels' = [labels EXCEPT ![id] = NoLabel]
        /\ filed' = Detached(id)
        /\ made' = made
    BY <1>2 DEF Delete
  <2>2. /\ labels'[id] = NoLabel
        /\ \A other \in Ids : other # id => labels'[other] = labels[other]
    BY <2>1 DEF MailboxType
  <2>3. MailboxType'
    BY <2>1 DEF MailboxType, Detached
  <2>4. OneLabelPerName'
    BY <2>2 DEF OneLabelPerName, Exists
  <2>5. FiledUnderTheirLabel'
    BY <2>1, <2>2 DEF FiledUnderTheirLabel, Detached, Exists, MailboxType, Filing
  <2>6. Kept
    BY <2>1, <2>2 DEF Kept
  <2> QED
    BY <2>3, <2>4, <2>5, <2>6
<1> QED
  BY <1>1, <1>2

LEMMA FilingOrNot ==
  ASSUME MailboxInv, NEW m \in Messages, NEW id \in Ids, File(m, id) \/ Unfile(m, id)
  PROVE  MailboxInv' /\ Kept
<1> USE DEF MailboxInv
<1> DEFINE filing == [message |-> m, id |-> id, made |-> labels[id].made]
<1>1. labels' = labels /\ made' = made
  BY DEF File, Unfile
<1>2. \A f \in filed' : f \in filed \/ (Exists(id) /\ f = filing)
  BY DEF File, Unfile
<1>3. Exists(id) => filing \in Filing
  BY DEF MailboxType, Exists, Filing, Label
<1>4. MailboxType'
  BY <1>1, <1>2, <1>3 DEF MailboxType
<1>5. FiledUnderTheirLabel'
  BY <1>1, <1>2 DEF FiledUnderTheirLabel, Exists
<1>6. OneLabelPerName' /\ Kept
  BY <1>1 DEF OneLabelPerName, Exists, Kept
<1> QED
  BY <1>4, <1>5, <1>6

-----------------------------------------------------------------------------
(* The conversation. *)

LEMMA InitInv == LabelsInit => LabelsInv
<1> SUFFICES ASSUME LabelsInit PROVE LabelsInv
  OBVIOUS
<1> USE DEF LabelsInit
<1>1. \A id \in SystemIds : SystemNames[id] \in Names /\ SystemNames[id] # Unnamed
  BY CandidatesAssumption, NamesAssumption
<1>2. labels \in [Ids -> Label \cup {NoLabel}]
  BY <1>1 DEF Label, NoLabel
<1>3. MailboxType
  BY <1>2, MadeAssumption DEF MailboxType
<1>4. \A id \in Ids : Exists(id) => id \in SystemIds /\ labels[id].name = SystemNames[id]
  BY DEF Exists
<1>5. OneLabelPerName
  BY <1>4, CandidatesAssumption DEF OneLabelPerName
<1>6. FiledUnderTheirLabel /\ ConversationType
  BY DEF FiledUnderTheirLabel, ConversationType
<1> QED
  BY <1>3, <1>5, <1>6 DEF LabelsInv, MailboxInv

LEMMA Presenting ==
  ASSUME LabelsInv, NEW tool \in Gated, NEW id \in Ids, NEW m \in Messages, Present(tool, id, m)
  PROVE  LabelsInv' /\ Kept
<1>1. UNCHANGED <<labels, made, filed>>
  BY DEF Present
<1>2. MailboxInv' /\ Kept
  BY <1>1 DEF LabelsInv, MailboxInv, MailboxType, OneLabelPerName, FiledUnderTheirLabel, Exists, Kept
<1>3. ReadNow \in [Ids -> Names \cup {Unnamed}]
  BY DEF ReadNow, LabelsInv, MailboxInv, MailboxType, Label, NoLabel
<1>4. Empty \in [Ids -> Names \cup {Unnamed}]
  BY DEF Empty
<1>5. listing' \in [Ids -> Names \cup {Unnamed}]
  BY <1>3, <1>4 DEF Present, Loaded, LabelsInv, ConversationType
<1>6. question' \in Question
  BY <1>5 DEF Present, Question
<1> QED
  BY <1>2, <1>5, <1>6 DEF LabelsInv, ConversationType

LEMMA Step == LabelsInv /\ [LabelsNext]_labelling => LabelsInv' /\ [Kept]_labelling
<1> SUFFICES ASSUME LabelsInv, [LabelsNext]_labelling PROVE LabelsInv' /\ [Kept]_labelling
  OBVIOUS
<1> USE DEF LabelsInv
<1>1. ASSUME NEW tool \in Gated, NEW id \in Ids, NEW m \in Messages, Present(tool, id, m)
      PROVE  LabelsInv' /\ Kept
  BY <1>1, Presenting
<1>2. CASE Decline
  BY <1>2 DEF Decline, MailboxInv, MailboxType, OneLabelPerName, FiledUnderTheirLabel,
              Exists, Kept, ConversationType
<1>3. CASE Confirm
  <2>1. question \in Question
    BY <1>3 DEF Confirm, ConversationType
  <2>2. question.id \in Ids /\ question.message \in Messages
    BY <2>1 DEF Question
  <2>3. \/ Delete(question.id)
        \/ File(question.message, question.id)
        \/ Unfile(question.message, question.id)
    BY <1>3 DEF Confirm
  <2>4. MailboxInv' /\ Kept
    BY <2>2, <2>3, Deleting, FilingOrNot
  <2>5. ConversationType'
    BY <1>3 DEF Confirm, ConversationType
  <2> QED
    BY <2>4, <2>5
<1>4. ASSUME NEW name \in Names, MakeLabel(name) PROVE LabelsInv' /\ Kept
  <2>1. MailboxInv' /\ Kept
    BY <1>4, Creating DEF MakeLabel
  <2> QED
    BY <1>4, <2>1 DEF MakeLabel, ConversationType
<1>5. CASE OtherActs
  <2>1. MailboxInv' /\ Kept
    BY <1>5, Creating, Deleting, FilingOrNot DEF OtherActs
  <2> QED
    BY <1>5, <2>1 DEF OtherActs, ConversationType
<1>6. CASE UNCHANGED labelling
  BY <1>6 DEF labelling, MailboxInv, MailboxType, OneLabelPerName, FiledUnderTheirLabel,
              Exists, ConversationType
<1> QED
  BY <1>1, <1>2, <1>3, <1>4, <1>5, <1>6 DEF LabelsNext

LEMMA Invariant == LabelsSpec => []LabelsInv
<1>1. LabelsInit => LabelsInv
  BY InitInv
<1>2. LabelsInv /\ [LabelsNext]_labelling => LabelsInv'
  BY Step
<1> QED
  BY <1>1, <1>2, PTL DEF LabelsSpec

-----------------------------------------------------------------------------
(* LabelsTypeOK: labels, filings, the listing and the question keep their types. *)
THEOREM LabelsTypeCorrect == LabelsSpec => []LabelsTypeOK
<1>1. LabelsInv => LabelsTypeOK
  BY DEF LabelsInv, MailboxInv, MailboxType, ConversationType, LabelsTypeOK
<1> QED
  BY <1>1, Invariant, PTL

(* OneLabelPerName: create_label finds an existing label under every spelling,
   so no name is ever borne twice. *)
THEOREM NamesAreUnique == LabelsSpec => []OneLabelPerName
<1>1. LabelsInv => OneLabelPerName
  BY DEF LabelsInv, MailboxInv
<1> QED
  BY <1>1, Invariant, PTL

(* FiledUnderTheirLabel: a label that gets the identifier of a deleted one never
   inherits its messages, because drop_label detached them. *)
THEOREM FilingsAreTrue == LabelsSpec => []FiledUnderTheirLabel
<1>1. LabelsInv => FiledUnderTheirLabel
  BY DEF LabelsInv, MailboxInv
<1> QED
  BY <1>1, Invariant, PTL

(* LabelsOnlyGoWhenDeleted: mint_label_id never gives a label in use away. *)
THEOREM LabelsAreKept == LabelsSpec => LabelsOnlyGoWhenDeleted
<1>1. LabelsInv /\ [LabelsNext]_labelling => [\A id \in Ids : Exists(id) /\ labels'[id] # labels[id] =>
                                /\ id \notin SystemIds
                                /\ labels'[id] = NoLabel
                                /\ made' = made]_labelling
  BY Step DEF Kept
<1> QED
  BY <1>1, Invariant, PTL DEF LabelsSpec, LabelsOnlyGoWhenDeleted
=============================================================================
