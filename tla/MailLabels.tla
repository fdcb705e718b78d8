----------------------------- MODULE MailLabels -----------------------------
(***************************************************************************)
(* The labels of a mailbox the repository keeps itself (the in-memory tools *)
(* and the reference MCP server), and a conversation that files messages   *)
(* under them.                                                             *)
(*                                                                         *)
(* The identifier of a label is minted from its name, several names reduce *)
(* to the same one, and an identifier is free again once its label is      *)
(* deleted.  A capability names a label by identifier; the person who      *)
(* confirms it reads a name, which ConfirmationSubjectResolver looks up in *)
(* a listing it reads once per conversation.                               *)
(***************************************************************************)
EXTENDS Naturals, Sequences, FiniteSets

CONSTANTS
  Names,         \* spellings of label names
  Fold,          \* for every spelling, the spelling it is compared as
  Ids,           \* identifiers
  Candidates,    \* for every name, the identifiers mint_label_id tries in turn
  Messages,
  SystemIds,     \* labels of the mail system itself
  SystemNames,   \* and their names
  Others,        \* whether other agents work on the mailbox
  MaxMade        \* bound: labels made

Unnamed == "none"

ASSUME NamesAssumption      == Unnamed \notin Names /\ Fold \in [Names -> Names]
ASSUME CandidatesAssumption ==
  /\ SystemIds \subseteq Ids /\ SystemNames \in [SystemIds -> Names]
  /\ Candidates \in [Names -> Seq(Ids)]
  /\ \A n \in Names : \A i \in DOMAIN Candidates[n] : Candidates[n][i] \notin SystemIds
  /\ \A id, other \in SystemIds : Fold[SystemNames[id]] = Fold[SystemNames[other]] => id = other
ASSUME OthersAssumption     == Others \in BOOLEAN
ASSUME MadeAssumption      == MaxMade \in Nat

\* A label; made tells two labels apart that bore the same identifier.
Label   == [name : Names, made : Nat]
NoLabel == [name |-> Unnamed, made |-> 0]

\* A message carries a label; made is the label it was filed under.
Filing == [message : Messages, id : Ids, made : Nat]

\* What a person is asked to confirm, with the name they read.
Gated     == {"apply_label", "remove_label", "delete_label"}
Question  == [tool : Gated, id : Ids, message : Messages, read : Names \cup {Unnamed}]
NoQuestion == [tool |-> Unnamed]

VARIABLES
  labels,    \* the label of every identifier, or NoLabel
  made,      \* number of labels made
  filed,     \* which messages carry which labels
  listing,   \* the names the conversation resolves identifiers with; << >>
             \* until it is read
  question   \* the confirmation the person is reading

labelling == <<labels, made, filed, listing, question>>

-----------------------------------------------------------------------------
(* Mailbox. *)

Exists(id) == labels[id] # NoLabel

\* mutant: names are compared as they are spelt
SpeltExactly(name) == {id \in Ids : Exists(id) /\ labels[id].name = name}

\* label_named.
Bearing(name) == {id \in Ids : Exists(id) /\ Fold[labels[id].name] = Fold[name]}

\* mutant: the first candidate is used without looking
FirstCandidate(name) == Candidates[name][1]

\* mint_label_id: the first candidate no label of the mailbox uses.  The code
\* never runs out of candidates.
Unused(name) == {i \in DOMAIN Candidates[name] : ~Exists(Candidates[name][i])}

Mint(name) ==
  Candidates[name][CHOOSE i \in Unused(name) : \A j \in Unused(name) : i <= j]

\* create_label: an existing label is returned, and nothing changes.
Create(name) ==
  /\ IF Bearing(name) # {}
     THEN UNCHANGED <<labels, made>>
     ELSE /\ made < MaxMade /\ Unused(name) # {}
          /\ labels' = [labels EXCEPT ![Mint(name)] = [name |-> name, made |-> made + 1]]
          /\ made' = made + 1
  /\ UNCHANGED filed

\* mutant: the deleted label stays on the messages that carried it
Attached(id) == filed

\* drop_label detaches the label from every message carrying it.
Detached(id) == {f \in filed : f.id # id}

\* delete_label refuses an unknown label and a system label.
Delete(id) ==
  /\ IF Exists(id) /\ id \notin SystemIds
     THEN labels' = [labels EXCEPT ![id] = NoLabel] /\ filed' = Detached(id)
     ELSE UNCHANGED <<labels, filed>>
  /\ UNCHANGED made

Carries(m, id) == \E f \in filed : f.message = m /\ f.id = id

\* apply_label, remove_label: require_label, then the message is replaced.
File(m, id) ==
  /\ filed' = IF Exists(id) /\ ~Carries(m, id)
              THEN filed \cup {[message |-> m, id |-> id, made |-> labels[id].made]}
              ELSE filed
  /\ UNCHANGED <<labels, made>>

Unfile(m, id) ==
  /\ filed' = IF Exists(id) THEN {f \in filed : f.message # m \/ f.id # id} ELSE filed
  /\ UNCHANGED <<labels, made>>

-----------------------------------------------------------------------------
(* The conversation. *)

\* The listing as read now; a listing that fails is kept as an empty one.
ReadNow == [id \in Ids |-> labels[id].name]

Empty == [id \in Ids |-> Unnamed]

Loaded == listing # << >>

LabelsInit ==
  /\ labels = [id \in Ids |-> IF id \in SystemIds
                               THEN [name |-> SystemNames[id], made |-> 0]
                               ELSE NoLabel]
  /\ made = 0
  /\ filed = {}
  /\ listing = << >>
  /\ question = NoQuestion

\* MailConfirmationPresenter.present: the identifier is resolved, or left as it
\* is, and the person reads the request.
Present(tool, id, m) ==
  /\ question = NoQuestion
  /\ listing' \in IF Loaded THEN {listing} ELSE {ReadNow, Empty}
  /\ question' = [tool |-> tool, id |-> id, message |-> m, read |-> listing'[id]]
  /\ UNCHANGED <<labels, made, filed>>

\* The person says no.
Decline ==
  /\ question # NoQuestion
  /\ question' = NoQuestion
  /\ UNCHANGED <<labels, made, filed, listing>>

\* The person says yes, and the capability acts on the identifier.
Confirm ==
  /\ question # NoQuestion
  /\ question' = NoQuestion
  /\ CASE question.tool = "delete_label" -> Delete(question.id)
       [] question.tool = "apply_label"  -> File(question.message, question.id)
       [] OTHER                          -> Unfile(question.message, question.id)
  /\ UNCHANGED listing

\* create_label is not gated by default.
MakeLabel(name) ==
  /\ question = NoQuestion
  /\ Create(name)
  /\ UNCHANGED <<listing, question>>

\* Another agent of the same owner, over the same server.
OtherActs ==
  /\ Others
  /\ \/ \E name \in Names : Create(name)
     \/ \E id \in Ids : Delete(id)
     \/ \E m \in Messages, id \in Ids : File(m, id) \/ Unfile(m, id)
  /\ UNCHANGED <<listing, question>>

LabelsNext ==
  \/ \E tool \in Gated, id \in Ids, m \in Messages : Present(tool, id, m)
  \/ Decline
  \/ Confirm
  \/ \E name \in Names : MakeLabel(name)
  \/ OtherActs

LabelsSpec == LabelsInit /\ [][LabelsNext]_labelling

-----------------------------------------------------------------------------
(* Properties. *)

LabelsTypeOK ==
  /\ labels \in [Ids -> Label \cup {NoLabel}]
  /\ made \in 0 .. MaxMade
  /\ filed \subseteq Filing
  /\ listing \in {<< >>} \cup [Ids -> Names \cup {Unnamed}]
  /\ question \in Question \cup {NoQuestion}

\* The owner never sees two labels of one name: whoever makes labels, in
\* whatever spelling, an existing one is found.
OneLabelPerName ==
  \A id, other \in Ids :
    Exists(id) /\ Exists(other) /\ Fold[labels[id].name] = Fold[labels[other].name] => id = other

\* A message carries the very label it was filed under: deleting a label and
\* making another that gets its identifier never files a message anew.
FiledUnderTheirLabel ==
  \A f \in filed : Exists(f.id) /\ labels[f.id].made = f.made

\* Making a label never takes another one's place, although names reduce to the
\* same identifier: a label only goes when it is deleted, which no system label
\* is.
LabelsOnlyGoWhenDeleted ==
  [][\A id \in Ids : Exists(id) /\ labels'[id] # labels[id] =>
       /\ id \notin SystemIds
       /\ labels'[id] = NoLabel
       /\ made' = made]_labelling

-----------------------------------------------------------------------------
(* A statement of the code's comments that the code does not keep. *)

\* "Nothing is invented ... a confirmation that misdescribes an operation is
\* worse than one that under-describes it" (confirmations/subjects.py): what a
\* confirmed operation acts on bears the name that was read.
ConfirmedNameIsTrue ==
  [][question # NoQuestion /\ <<labels, filed>>' # <<labels, filed>> =>
       question.read \in {Unnamed, labels[question.id].name}]_labelling
=============================================================================
