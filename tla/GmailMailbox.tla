---------------------------- MODULE GmailMailbox ----------------------------
(***************************************************************************)
(* The writes of a mailbox kept by Gmail, over a connection that loses     *)
(* requests and answers, while other calls and the owner, in Gmail itself, *)
(* work on the same mailbox.                                               *)
(*                                                                         *)
(* Dialect names the way of every caller to Gmail: "server" is the Gmail   *)
(* MCP server of this repository over the REST API (GmailMailbox,          *)
(* GmailApiClient), "hosted" the official Gmail MCP server                 *)
(* (GmailMailTools).  Most calls take several requests: labels are listed  *)
(* before the write that depends on them, and a delivery is read back.     *)
(*                                                                         *)
(* Gmail itself is external: one label per name, fresh identifiers, a      *)
(* deletion detaches the label, an unknown label is attached silently.     *)
(***************************************************************************)
EXTENDS Naturals, Sequences

CONSTANTS
  Callers,    \* calls in progress at once
  Dialect,    \* "server" or "hosted", for every caller
  Requests,   \* what callers may ask: records [op, message, label, name]
  Messages,
  Names,      \* spellings of label names
  Fold,       \* for every spelling, the spelling it is compared as
  OwnerNames, \* names the owner gives to labels made in Gmail
  Attempts,   \* attempts at a read, 3 in the code
  MaxLabels   \* bound: labels ever made

LabelOps  == {"create_label", "delete_label", "apply_label", "remove_label"}
Ops       == LabelOps \cup {"create_draft", "send", "mark_read", "mark_unread", "archive"}

Inbox        == 1
Unread       == 2
SystemLabels == {Inbox, Unread}
SystemNames  == <<"INBOX", "UNREAD">>

Request == [op : Ops, message : Messages, label : Nat, name : Names]

ASSUME DialectAssumption  == Dialect \in [Callers -> {"server", "hosted"}]
ASSUME RequestsAssumption == Requests \subseteq Request /\ Requests # {}
ASSUME NamesAssumption    == {"INBOX", "UNREAD"} \cup OwnerNames \subseteq Names /\ Fold \in [Names -> Names]
ASSUME AttemptsAssumption == Attempts \in Nat \ {0}
ASSUME BoundAssumption    == MaxLabels \in Nat

VARIABLES
  names,   \* every label ever made: its identifier is its position
  alive,   \* the labels the mailbox has
  carried, \* the labels of every message
  calls    \* the call of every caller

vars == <<names, alive, carried, calls>>

NoCall ==
  [request |-> CHOOSE r \in Requests : TRUE, step |-> "over", tries |-> 0,
   effects |-> 0, told |-> "idle"]

-----------------------------------------------------------------------------
(* Gmail. *)

Bearing(name) == {l \in alive : Fold[names[l]] = Fold[name]}

Added(r) ==
  CASE r.op = "apply_label" -> {r.label}
    [] r.op = "mark_unread" -> {Unread}
    [] OTHER                -> {}

Removed(r) ==
  CASE r.op = "remove_label" -> {r.label}
    [] r.op = "mark_read"    -> {Unread}
    [] r.op = "archive"      -> {Inbox}
    [] OTHER                 -> {}

\* A name is refused twice, and what is not there cannot be deleted.
Takes(r) ==
  /\ r.op = "create_label" => Bearing(r.name) = {}
  /\ r.op = "delete_label" => r.label \in alive

Make(name) ==
  /\ Len(names) < MaxLabels
  /\ names' = Append(names, name)
  /\ alive' = alive \cup {Len(names) + 1}
  /\ UNCHANGED carried

Drop(l) ==
  /\ alive' = alive \ {l}
  /\ carried' = [m \in Messages |-> carried[m] \ {l}]
  /\ UNCHANGED names

Modify(r) ==
  /\ carried' = [carried EXCEPT ![r.message] = (@ \ Removed(r)) \cup (Added(r) \cap alive)]
  /\ UNCHANGED <<names, alive>>

Apply(r) ==
  CASE r.op = "create_label" -> Make(r.name)
    [] r.op = "delete_label" -> Drop(r.label)
    [] OTHER                 -> Modify(r)

-----------------------------------------------------------------------------
(* The calls. *)

\* GmailMailbox lists the labels before it writes one by name or identifier;
\* GmailMailTools only before it makes one.
ReadsFirst(c, op) ==
  \/ op = "create_label"
  \/ Dialect[c] = "server" /\ op \in LabelOps

\* The official server has neither a send nor a label deletion tool.
Unavailable(c, op) == Dialect[c] = "hosted" /\ op \in {"send", "delete_label"}

\* mutant: a write is sent again like a read
RetriesWrites(c, step) == Attempts

\* GmailApiClient: get retries, post and delete do not.
Tries(c, step) == IF Dialect[c] = "server" /\ step # "write" THEN Attempts ELSE 1

\* The call of c reaches this step with these effects.
MoveTo(c, step, effects) ==
  calls' = [calls EXCEPT ![c].step = step, ![c].tries = 0, ![c].effects = effects]

\* The call of c is over, and its caller told so unless it gave up before.
Conclude(c, effects, answer) ==
  calls' = [calls EXCEPT ![c].step = "over", ![c].tries = 0, ![c].effects = effects,
                         ![c].told = IF @ = "nothing" THEN answer ELSE @]

\* mutant: a read is attempted until it is answered
KeepsTrying(c, effects) ==
  IF calls[c].step = "write"
  THEN Conclude(c, effects, "failed")
  ELSE calls' = [calls EXCEPT ![c].tries = (@ + 1) % Attempts, ![c].effects = effects]

\* One attempt brought no answer: another one, or the call fails.
Unanswered(c, effects) ==
  IF calls[c].tries + 1 < Tries(c, calls[c].step)
  THEN calls' = [calls EXCEPT ![c].tries = @ + 1, ![c].effects = effects]
  ELSE Conclude(c, effects, "failed")

At(c, step) == calls[c].step = step

-----------------------------------------------------------------------------
Init ==
  /\ names = SystemNames
  /\ alive = SystemLabels
  /\ carried = [m \in Messages |-> SystemLabels]
  /\ calls = [c \in Callers |-> NoCall]

\* A capability calls the mail connection.
Begin(c, r) ==
  /\ At(c, "over")
  /\ calls' = [calls EXCEPT ![c] =
       [NoCall EXCEPT !.request = r,
                      !.step = IF ReadsFirst(c, r.op) THEN "read" ELSE "write",
                      !.told = "nothing"]]
  /\ UNCHANGED <<names, alive, carried>>

\* A lost request, or a status that means "not now": Gmail did nothing.
LoseRequest(c) ==
  /\ ~At(c, "over")
  /\ Unanswered(c, calls[c].effects)
  /\ UNCHANGED <<names, alive, carried>>

\* Any other status, or an unreadable body: an answer that is not retried.
Deny(c) ==
  /\ ~At(c, "over")
  /\ Conclude(c, calls[c].effects, "failed")
  /\ UNCHANGED <<names, alive, carried>>

\* Gmail applied the write, and its answer is lost.
LoseAnswer(c) ==
  /\ At(c, "write")
  /\ ~Unavailable(c, calls[c].request.op)
  /\ Takes(calls[c].request)
  /\ Apply(calls[c].request)
  /\ Unanswered(c, calls[c].effects + 1)

\* The connection to the server breaks: the agent reports the call as
\* unavailable while the server goes on with it.
LoseConnection(c) ==
  /\ ~At(c, "over")
  /\ calls[c].told = "nothing"
  /\ calls' = [calls EXCEPT ![c].told = "failed"]
  /\ UNCHANGED <<names, alive, carried>>

\* _label_named: an existing label is all the caller asked for.
FindLabel(c) ==
  LET r == calls[c].request IN
  /\ At(c, "read") \/ At(c, "reread")
  /\ r.op = "create_label"
  /\ Bearing(r.name) # {}
  /\ Conclude(c, calls[c].effects, "existing")
  /\ UNCHANGED <<names, alive, carried>>

FindNoLabel(c) ==
  LET r == calls[c].request IN
  /\ At(c, "read")
  /\ r.op = "create_label"
  /\ Bearing(r.name) = {}
  /\ MoveTo(c, "write", calls[c].effects)
  /\ UNCHANGED <<names, alive, carried>>

\* mutant: a system label is only refused by the backend
AnyLabel(r) == TRUE

\* require_deletable.
Deletable(r) == r.op = "delete_label" => r.label \notin SystemLabels

\* _require_label, and require_deletable before a deletion.
RequireLabel(c) ==
  LET r == calls[c].request IN
  /\ At(c, "read")
  /\ r.op # "create_label"
  /\ IF r.label \in alive /\ Deletable(r)
     THEN MoveTo(c, "write", calls[c].effects)
     ELSE Conclude(c, calls[c].effects, "refused")
  /\ UNCHANGED <<names, alive, carried>>

\* The tool does not exist on the official server.
RefuseUnavailable(c) ==
  /\ At(c, "write")
  /\ Unavailable(c, calls[c].request.op)
  /\ Conclude(c, calls[c].effects, "refused")
  /\ UNCHANGED <<names, alive, carried>>

\* Gmail applied the write and said so.  A delivery is then read back.
Write(c) ==
  LET r == calls[c].request IN
  /\ At(c, "write")
  /\ ~Unavailable(c, r.op)
  /\ Takes(r)
  /\ Apply(r)
  /\ IF r.op = "send"
     THEN MoveTo(c, "reread", calls[c].effects + 1)
     ELSE Conclude(c, calls[c].effects + 1, "done")

\* mutant: the label somebody else made meanwhile is reported as created
ClaimsConflict(c) == Conclude(c, calls[c].effects, "done")

\* A conflict is looked up by the server of this repository (_existing), and
\* an error for the dialect.
Conflict(c) ==
  IF Dialect[c] = "server" THEN MoveTo(c, "reread", calls[c].effects)
                        ELSE Conclude(c, calls[c].effects, "refused")

\* Gmail refuses the write: the name is taken, or the label is gone.
WriteRefused(c) ==
  LET r == calls[c].request IN
  /\ At(c, "write")
  /\ ~Unavailable(c, r.op)
  /\ ~Takes(r)
  /\ IF r.op = "create_label" THEN Conflict(c) ELSE Conclude(c, calls[c].effects, "refused")
  /\ UNCHANGED <<names, alive, carried>>

\* _existing: Gmail refused the name and then does not list it (ProtocolError).
MissExisting(c) ==
  LET r == calls[c].request IN
  /\ At(c, "reread")
  /\ r.op = "create_label"
  /\ Bearing(r.name) = {}
  /\ Conclude(c, calls[c].effects, "refused")
  /\ UNCHANGED <<names, alive, carried>>

ReadBack(c) ==
  /\ At(c, "reread")
  /\ calls[c].request.op = "send"
  /\ Conclude(c, calls[c].effects, "done")
  /\ UNCHANGED <<names, alive, carried>>

\* Somebody at work in Gmail itself.
OwnerMakes(name) ==
  /\ Bearing(name) = {}
  /\ Make(name)
  /\ UNCHANGED calls

OwnerDrops(l) ==
  /\ Drop(l)
  /\ UNCHANGED calls

\* The steps that bring the call of c nearer to its end.
Progress(c) ==
  \/ LoseRequest(c)
  \/ Deny(c)
  \/ LoseAnswer(c)
  \/ FindLabel(c)
  \/ FindNoLabel(c)
  \/ RequireLabel(c)
  \/ RefuseUnavailable(c)
  \/ Write(c)
  \/ WriteRefused(c)
  \/ MissExisting(c)
  \/ ReadBack(c)

Next ==
  \/ \E c \in Callers : \E r \in Requests : Begin(c, r)
  \/ \E c \in Callers : LoseConnection(c)
  \/ \E c \in Callers : Progress(c)
  \/ \E name \in OwnerNames : OwnerMakes(name)
  \/ \E l \in alive \ SystemLabels : OwnerDrops(l)

Spec == Init /\ [][Next]_vars

\* Every attempt at a request ends: in an answer, or at the client's timeout.
FairSpec == Spec /\ \A c \in Callers : WF_vars(Progress(c))

-----------------------------------------------------------------------------
(* Properties. *)

CallRecord ==
  [request : Requests, step : {"read", "write", "reread", "over"}, tries : 0 .. Attempts - 1,
   effects : Nat, told : {"idle", "nothing", "done", "existing", "refused", "failed"}]

TypeOK ==
  /\ names \in Seq(Names)
  /\ alive \subseteq DOMAIN names
  /\ carried \in [Messages -> SUBSET alive]
  /\ calls \in [Callers -> CallRecord]

\* The mailbox keeps the labels it is made of, whatever is asked and however
\* the calls interleave: a system label is never deleted.
SystemLabelsSurvive == SystemLabels \subseteq alive

\* Calls on the mailbox keep the promises of MailCalls: retries, lost answers
\* and races never make a call act twice, acknowledge what did not act, or call
\* refused, or found, what did.
Promised == INSTANCE MailCalls WITH
  effects <- [c \in Callers |-> calls[c].effects],
  told    <- [c \in Callers |-> calls[c].told]

CallsKeepPromises == Promised!Spec

\* Every call ends in an answer, even if Gmail never answers again.
EveryCallAnswers == \A c \in Callers : calls[c].told = "nothing" ~> calls[c].told # "nothing"

-----------------------------------------------------------------------------
(* Statements of the code's comments that the code does not keep. *)

\* "did not run" (the text the model is given of a failed capability): a call
\* is not reported as failed once Gmail acknowledged that it acted.
AcknowledgedDidRun ==
  [][\A c \in Callers :
       /\ calls[c].step = "reread" /\ calls'[c].step = "over"
       /\ calls[c].effects > 0
       /\ calls[c].told = "nothing"
       => calls'[c].told # "failed"]_vars

\* "Gmail accepts an unknown label identifier silently, which would report
\* success for an operation that changed nothing" (_require_label).
AppliedLabelIsCarried ==
  [][\A c \in Callers :
       /\ calls[c].request.op = "apply_label"
       /\ calls[c].told = "nothing"
       /\ calls'[c].told = "done"
       => calls[c].request.label \in carried'[calls[c].request.message]]_vars

\* "Asking for a label that already exists is not an error" (MailLabelTools).
ExistingIsNoError ==
  \A c \in Callers : calls[c].request.op = "create_label" => calls[c].told # "refused"
=============================================================================
