------------------------------ MODULE MailReading -----------------------------
(***************************************************************************)
(* Reading mail through the Mail agent: one capability call at a time,     *)
(* made of several calls of the MailTools port, while mail arrives and the *)
(* owner reads, files and deletes the same messages elsewhere.             *)
(*                                                                         *)
(* backend names the tools behind the port: "memory"; "native", the        *)
(* reference server; "gmail", this repository's Gmail server, which lists  *)
(* identifiers and then reads a header for each; "google", the official    *)
(* Gmail server, which is queried by label names, answers with whole       *)
(* conversations, and is filtered afterwards.  How Gmail itself evaluates  *)
(* a query is modelled from how these two use it.                          *)
(*                                                                         *)
(* An instant is half a day, so that two of them fall on the same date.    *)
(***************************************************************************)
EXTENDS Ordering, SequencesExt

CONSTANTS
  Owner,     \* the user whose mailbox is served
  Others,    \* users with no mailbox here
  Readers,   \* who holds MailPermission.READ
  Drafters,  \* who holds MailPermission.DRAFT
  Address,   \* the address of the owner
  Addresses,
  Inside,    \* pairs of addresses: the first is a part of the second
  Words,
  Labels,
  Threads,
  Dataset,   \* the messages, with what never changes of them
  Requests,  \* the capability calls a model may make
  Backends,
  MaxLimit,  \* _MAX_RESULTS, 50 in the code
  MaxChanges \* bound: changes made elsewhere

Users == {Owner} \cup Others
None  == "none"
NoDate == 0
Ids   == DOMAIN Dataset

DayOf(instant) == instant \div 2

\* garbled: which address of the message the domain model refuses, or the date the
\* official server leaves out, if any.
Message == [thread : Threads, sender : Addresses, to : Seq(Addresses), cc : Seq(Addresses),
            sent : Nat, words : SUBSET Words, attached : BOOLEAN,
            garbled : {"nothing", "sender", "recipient", "date"},
            place : {"coming", "here"}, unread : BOOLEAN, labels : SUBSET Labels]

Kinds == {"search", "get_message", "get_thread", "summarise", "classify", "extract", "reply"}

\* MailSearchRequest; what is not asked for is None, an empty set, NoDate for an
\* end of the dates, and BOOLEAN for the attachments.
Criteria == [words : SUBSET Words, sender : Addresses \cup {None}, recipient : Addresses \cup {None},
             labels : SUBSET Labels, from : Nat, to : Nat,
             unread : BOOLEAN, attached : SUBSET BOOLEAN, limit : 1 .. MaxLimit,
             newestFirst : BOOLEAN]

\* A call: a search has criteria, the others name messages or a conversation.
Request == [kind : Kinds, user : Users, ids : Seq(Ids), thread : Threads \cup {None},
            all : BOOLEAN, criteria : Criteria]

ASSUME ReadingAssumption ==
  /\ Dataset \in Seq(Message) /\ \A m \in Ids : Dataset[m].sent # NoDate
  /\ Requests \subseteq Request
  /\ Backends \subseteq {"memory", "native", "gmail", "google"}
  /\ Readers \subseteq Users /\ Drafters \subseteq Users /\ Owner \notin Others
  /\ Address \in Addresses /\ Inside \subseteq Addresses \X Addresses
  /\ MaxLimit \in Nat /\ MaxChanges \in Nat

VARIABLES
  backend,
  mail,     \* of every message: where it is, whether it is unread, its labels
  labels,   \* the labels the mailbox has
  changes,  \* changes made elsewhere so far
  request,  \* the capability call under way
  stage,    \* what it does next
  named,    \* labels of the query whose names are known
  todo,     \* messages left to read
  read,     \* messages read so far, in the order of reading
  more,     \* whether the listing said there is more
  told,     \* the result of the last call
  steady    \* messages nobody touched since the call began

vars == <<backend, mail, labels, changes, request, stage, named, todo, read, more, told, steady>>

mailbox == <<backend, mail, labels, changes, steady>>

NoRequest == [kind |-> "none"]
NoDraft   == [answered |-> 0, to |-> {}, cc |-> {}]

\* A result is told by the fields its renderer shows.
Nothing == [outcome |-> None, error |-> None, ids |-> << >>, truncated |-> FALSE, cited |-> {},
            draft |-> NoDraft]

-----------------------------------------------------------------------------
(* Searching. *)

Here(m) == mail[m].place = "here"

Recipients(m) == Range(Dataset[m].to) \cup Range(Dataset[m].cc)

\* What the envelope and the text of a message must satisfy.
MatchesEnvelope(m, c) ==
  /\ c.sender \in {None, Dataset[m].sender}
  /\ c.recipient = None \/ c.recipient \in Recipients(m)
  /\ c.words \subseteq Dataset[m].words

\* What its state must satisfy, dates and labels apart.
MatchesState(m, c) ==
  /\ c.unread => mail[m].unread
  /\ Dataset[m].attached \in c.attached

\* date_from and date_to, both inclusive.
WithinDates(m, c) ==
  /\ c.from = NoDate \/ Dataset[m].sent >= c.from
  /\ c.to = NoDate \/ Dataset[m].sent <= c.to

\* MailSearchMatcher, and the reference server's _Query: every criterion, exactly.
Matches(m, c) ==
  /\ Here(m)
  /\ MatchesEnvelope(m, c) /\ MatchesState(m, c) /\ WithinDates(m, c)
  /\ c.labels \subseteq mail[m].labels

\* A Gmail query: after: and before: know days, the last of them excluded; labels
\* are given apart, by identifier, or within the query, by name.
MatchesQuery(m, c, filter) ==
  /\ Here(m)
  /\ MatchesEnvelope(m, c) /\ MatchesState(m, c)
  /\ c.from = NoDate \/ DayOf(Dataset[m].sent) >= DayOf(c.from)
  /\ c.to = NoDate \/ DayOf(Dataset[m].sent) < DayOf(c.to)
  /\ filter \subseteq mail[m].labels

\* The official server gives some messages without their date ...
Undated(m) == backend = "google" /\ Dataset[m].garbled = "date"

\* ... and _within_dates takes those to be within no bounds.
Unplaced(m, c) == Undated(m) /\ (c.from # NoDate \/ c.to # NoDate)

\* mutant: the conversation is taken as it comes
TakenAsItComes(m, c) == Here(m)

\* GmailMailTools._matches: what a metadata view can tell of a message is checked
\* again; a label is enough, and an address that contains the sender's.
StillMatches(m, c) ==
  /\ Here(m)
  /\ c.sender = None \/ c.sender = Dataset[m].sender \/ <<c.sender, Dataset[m].sender>> \in Inside
  /\ MatchesState(m, c) /\ WithinDates(m, c) /\ ~Unplaced(m, c)
  /\ c.labels = {} \/ c.labels \cap mail[m].labels # {}

\* By date, ties in the order of the dataset either way.
Ordered(S, newestFirst) ==
  InOrder(S, {mn \in S \X S :
                \/ IF newestFirst THEN Dataset[mn[1]].sent > Dataset[mn[2]].sent
                                  ELSE Dataset[mn[1]].sent < Dataset[mn[2]].sent
                \/ Dataset[mn[1]].sent = Dataset[mn[2]].sent /\ mn[1] < mn[2]})

\* mutant: the page is cut before it is put in order
CutThenSorted(S, c) == Ordered(Range(FirstOf(SetToSeq(S), c.limit)), c.newestFirst)

\* The first page of the matches, in the order asked for.
TopOf(S, c) == FirstOf(Ordered(S, c.newestFirst), c.limit)

\* The identifiers Gmail lists: the newest matches, whatever order is asked for.
ListedByGmail(S, c) == FirstOf(Ordered(S, TRUE), c.limit)

ThreadsOf(S) == {Dataset[m].thread : m \in S}

\* The conversations of one page of the official server.
ThreadPages(S, limit) ==
  LET size == IF Cardinality(ThreadsOf(S)) < limit THEN Cardinality(ThreadsOf(S)) ELSE limit
  IN  {T \in SUBSET ThreadsOf(S) : Cardinality(T) = size}

\* mutant: the token of the next page is not looked at
CutShort(headers, page, c) == Len(headers) > c.limit

\* More headers than were asked for, or more conversations than one page.
IsTruncated(headers, page, c) == Len(headers) > c.limit \/ page

-----------------------------------------------------------------------------
Init ==
  /\ backend \in Backends
  /\ mail = [m \in Ids |-> [place |-> Dataset[m].place, unread |-> Dataset[m].unread,
                            labels |-> Dataset[m].labels]]
  /\ labels = Labels
  /\ changes = 0
  /\ request = NoRequest
  /\ stage = "idle"
  /\ named = {}
  /\ todo = << >>
  /\ read = << >>
  /\ more = FALSE
  /\ told = Nothing
  /\ steady = {}

Answers(result) ==
  /\ told' = result
  /\ stage' = "idle"

Succeeds(result) == Answers([result EXCEPT !.outcome = "done"])

\* A step that fails fails the capability, whatever else has been read.
Fails(error) == Answers([Nothing EXCEPT !.outcome = "failed", !.error = error])

\* Which messages a call names: a conversation goes before messages.
Scope(r) ==
  CASE r.kind = "search" -> "search"
    [] r.thread # None -> "thread"
    [] r.ids # << >> -> "messages"
    [] OTHER -> "empty"

\* EmptyMailSelectionError, then require_permission.
Refusal(r) ==
  IF Scope(r) = "empty" THEN "empty_selection"
  ELSE IF r.user \notin (IF r.kind = "reply" THEN Drafters ELSE Readers) THEN "permission_denied"
  ELSE None

FirstStage(r) ==
  CASE Scope(r) = "search" -> IF backend = "google" /\ r.criteria.labels # {} THEN "naming" ELSE "searching"
    [] Scope(r) = "thread" -> "threading"
    [] OTHER -> "reading"

\* The model calls a capability.
Call(r) ==
  /\ stage = "idle"
  /\ request' = r
  /\ IF Refusal(r) # None
     THEN Fails(Refusal(r))
     ELSE stage' = FirstStage(r) /\ told' = Nothing
  /\ named' = {}
  /\ todo' = IF Scope(r) = "messages" THEN r.ids ELSE << >>
  /\ read' = << >>
  /\ more' = FALSE
  /\ steady' = Ids
  /\ UNCHANGED <<backend, mail, labels, changes>>

\* _mailbox_of, _require_owner.
Served == request.user = Owner

\* GmailMailTools._label_names: the labels that have a name are queried by it.
NameLabels ==
  /\ stage = "naming" /\ Served
  /\ named' = request.criteria.labels \cap labels
  /\ stage' = "searching"
  /\ UNCHANGED <<mailbox, request, todo, read, more, told>>

\* A header cannot be told of a sender the domain model refuses, nor of a date that
\* is missing; the dataset of the in-memory mailbox holds no such message.
HeaderFails(m) == Undated(m) \/ (backend # "memory" /\ Dataset[m].garbled = "sender")

MessageFails(m) == HeaderFails(m) \/ (backend # "memory" /\ Dataset[m].garbled = "recipient")

\* The result of a search; it fails as a whole if one header does.
TellsHeaders(page, truncated) ==
  IF \E i \in DOMAIN page : HeaderFails(page[i])
  THEN Fails("unreadable")
  ELSE Succeeds([Nothing EXCEPT !.ids = page, !.truncated = truncated])

\* search, where one request answers it.
SearchAtOnce ==
  /\ stage = "searching" /\ Served
  /\ backend \in {"memory", "native"}
  /\ LET c == request.criteria
         S == {m \in Ids : Matches(m, c)}
     IN  TellsHeaders(TopOf(S, c), Cardinality(S) > c.limit)
  /\ UNCHANGED <<mailbox, request, named, todo, read, more>>

\* search, over the official server.
SearchThreads ==
  /\ stage = "searching" /\ Served
  /\ backend = "google"
  /\ LET c == request.criteria
         S == {m \in Ids : MatchesQuery(m, c, named)}
     IN  \E T \in ThreadPages(S, c.limit) :
           LET found   == {m \in Ids : Dataset[m].thread \in T /\ StillMatches(m, c)}
               headers == Ordered(found, c.newestFirst)
           IN  IF \E m \in found : HeaderFails(m)
               THEN Fails("unreadable")
               ELSE TellsHeaders(FirstOf(headers, c.limit), IsTruncated(headers, T # ThreadsOf(S), c))
  /\ UNCHANGED <<mailbox, request, named, todo, read, more>>

\* search, over this repository's server: the listing ...
ListIds ==
  /\ stage = "searching" /\ Served
  /\ backend = "gmail"
  /\ request.criteria.labels \subseteq labels
  /\ LET c == request.criteria
         S == {m \in Ids : MatchesQuery(m, c, c.labels)}
     IN  /\ more' = (Cardinality(S) > c.limit)
         /\ todo' = ListedByGmail(S, c)
         /\ IF S = {} THEN Succeeds(Nothing) ELSE stage' = "fetching" /\ UNCHANGED told
  /\ UNCHANGED <<mailbox, request, named, read>>

\* ... and the headers, several requests at a time, in whatever order they come.
FetchHeader ==
  /\ stage = "fetching"
  /\ \E i \in DOMAIN todo :
       /\ Here(todo[i])
       /\ read' = Append(read, todo[i])
       /\ todo' = RemoveAt(todo, i)
  /\ IF Len(todo) = 1
     THEN TellsHeaders(Ordered(Range(read'), request.criteria.newestFirst), more)
     ELSE UNCHANGED <<told, stage>>
  /\ UNCHANGED <<mailbox, request, named, more>>

-----------------------------------------------------------------------------
(* Reading and reasoning. *)

\* mutant: an analysis passes over a message that has gone
PassedOver(m) == request.kind \in {"classify", "extract"} \/ (Here(m) /\ ~MessageFails(m))

\* get_message gives the message, or an error.
Readable(m) == Here(m) /\ ~MessageFails(m)

\* get_message, of the next message.
ReadMessage ==
  /\ stage = "reading" /\ Served
  /\ Readable(Head(todo))
  /\ read' = IF Here(Head(todo)) THEN Append(read, Head(todo)) ELSE read
  /\ todo' = Tail(todo)
  /\ IF request.kind = "get_message"
     THEN Succeeds([Nothing EXCEPT !.ids = <<Head(todo)>>])
     ELSE /\ stage' = IF Len(todo) = 1 THEN "reasoning" ELSE "reading"
          /\ UNCHANGED told
  /\ UNCHANGED <<mailbox, request, named, more>>

ThreadMessages(t) == {m \in Ids : Here(m) /\ Dataset[m].thread = t}

\* get_thread: the messages there are, oldest first.
ReadThread ==
  /\ stage = "threading" /\ Served
  /\ LET S == ThreadMessages(request.thread)
     IN  /\ S # {} /\ \A m \in S : Readable(m)
         /\ read' = Ordered(S, FALSE)
         /\ IF request.kind = "get_thread"
            THEN Succeeds([Nothing EXCEPT !.ids = Ordered(S, FALSE)])
            ELSE stage' = "reasoning" /\ UNCHANGED told
  /\ UNCHANGED <<mailbox, request, named, todo, more>>

\* The official server reports its failures in words of its own, which decode to a
\* protocol error.
Missing == IF backend = "google" THEN {"protocol"} ELSE {"not_found"}

\* What can go wrong with the step under way, the model's among them; an address the domain model refuses
\* raises an error no capability expects.
Causes ==
  {"unavailable"} \cup
  CASE ~Served -> {"access_denied"}
    [] stage = "reading" -> (IF Here(Head(todo)) THEN {} ELSE Missing)
                            \cup (IF MessageFails(Head(todo)) THEN {"unreadable"} ELSE {})
    [] stage = "threading" ->
         (IF ThreadMessages(request.thread) = {} THEN Missing ELSE {})
         \cup (IF \E m \in ThreadMessages(request.thread) : MessageFails(m) THEN {"unreadable"} ELSE {})
    [] stage = "fetching" -> IF \E i \in DOMAIN todo : ~Here(todo[i]) THEN {"not_found"} ELSE {}
    [] stage = "searching" /\ backend = "gmail" ->
         IF request.criteria.labels \subseteq labels THEN {} ELSE {"protocol"}
    [] OTHER -> {}

FailCall ==
  /\ stage # "idle"
  /\ \E cause \in (IF Served THEN Causes ELSE {"access_denied"}) : Fails(cause)
  /\ UNCHANGED <<mailbox, request, named, todo, read, more>>

\* _to_action: an action whose source was not read fails the analysis.
Grounded(cited) == cited \subseteq Range(read)

\* The model reasons over every message read, and cites what it likes.
Concludes ==
  /\ stage = "reasoning"
  /\ \E cited \in SUBSET Ids :
       IF Grounded(cited)
       THEN Succeeds([Nothing EXCEPT !.ids = read, !.cited = cited])
       ELSE Fails("ungrounded")
  /\ UNCHANGED <<mailbox, request, named, todo, read, more>>

Summarise      == request.kind = "summarise" /\ Concludes

ExtractActions == request.kind = "extract" /\ Concludes

\* One verdict for each message read; a verdict cites nothing.
Classify ==
  /\ stage = "reasoning" /\ request.kind = "classify"
  /\ Succeeds([Nothing EXCEPT !.ids = read])
  /\ UNCHANGED <<mailbox, request, named, todo, read, more>>

\* MailThread.latest_message, the first of them if they tie; a single message is
\* its own latest.
Answered ==
  LET latest == {m \in Range(read) : \A n \in Range(read) : Dataset[n].sent <= Dataset[m].sent}
  IN  CHOOSE m \in latest : \A n \in latest : m <= n

\* mutant: a reply goes to whoever wrote, oneself included
PlanAnyone(m, all) ==
  [answered |-> m, to |-> {Dataset[m].sender}, cc |-> IF all THEN Recipients(m) \ {Dataset[m].sender} ELSE {}]

\* ReplyRecipientPlanner.plan: to the sender, the others in copy if all are meant;
\* answering oneself goes to the others.
Plan(m, all) ==
  LET primary == {Dataset[m].sender} \ {Address}
      others  == IF all THEN Recipients(m) \ ({Address} \cup primary) ELSE {}
  IN  IF primary # {} THEN [answered |-> m, to |-> primary, cc |-> others]
                      ELSE [answered |-> m, to |-> others, cc |-> {}]

\* draft_reply: nobody to answer is refused before the model writes a word.
Draft ==
  /\ stage = "reasoning" /\ request.kind = "reply"
  /\ LET draft == Plan(Answered, request.all)
     IN  IF draft.to = {} THEN Fails("no_recipient")
         ELSE Succeeds([Nothing EXCEPT !.draft = draft])
  /\ UNCHANGED <<mailbox, request, named, todo, read, more>>

-----------------------------------------------------------------------------
(* What happens elsewhere.  What changes between two calls is what the second *)
(* finds, so that changes are only told apart while a call is under way.      *)

Elsewhere ==
  /\ stage # "idle"
  /\ changes < MaxChanges
  /\ changes' = changes + 1
  /\ UNCHANGED <<backend, request, stage, named, todo, read, more, told>>

Change(m, entry) ==
  /\ Elsewhere
  /\ mail' = [mail EXCEPT ![m] = entry]
  /\ steady' = steady \ {m}
  /\ UNCHANGED labels

Arrive(m) ==
  /\ mail[m].place = "coming"
  /\ Change(m, [mail[m] EXCEPT !.place = "here"])

Discard(m) ==
  /\ Here(m)
  /\ Change(m, [mail[m] EXCEPT !.place = "gone"])

MarkRead(m) ==
  /\ Here(m)
  /\ Change(m, [mail[m] EXCEPT !.unread = ~@])

File(m, l) ==
  /\ Here(m) /\ l \in labels \ mail[m].labels
  /\ Change(m, [mail[m] EXCEPT !.labels = @ \cup {l}])

DropLabel(l) ==
  /\ Elsewhere
  /\ l \in labels
  /\ labels' = labels \ {l}
  /\ mail' = [m \in Ids |-> [mail[m] EXCEPT !.labels = @ \ {l}]]
  /\ steady' = {m \in steady : l \notin mail[m].labels}

Step ==
  \/ NameLabels \/ SearchAtOnce \/ SearchThreads \/ ListIds \/ FetchHeader
  \/ ReadMessage \/ ReadThread \/ FailCall
  \/ Summarise \/ Classify \/ ExtractActions \/ Draft

Next ==
  \/ \E r \in Requests : Call(r)
  \/ Step
  \/ \E m \in Ids : Arrive(m) \/ Discard(m) \/ MarkRead(m)
  \/ \E m \in Ids, l \in Labels : File(m, l)
  \/ \E l \in Labels : DropLabel(l)

Spec == Init /\ [][Next]_vars

\* Every awaited call returns or fails.
FairSpec == Spec /\ WF_vars(Step)

-----------------------------------------------------------------------------
(* Properties. *)

\* Types; no stage misses what its next step takes.
TypeOK ==
  /\ backend \in Backends
  /\ mail \in [Ids -> [place : {"coming", "here", "gone"}, unread : BOOLEAN, labels : SUBSET Labels]]
  /\ labels \subseteq Labels
  /\ changes \in 0 .. MaxChanges
  /\ request \in Requests \cup {NoRequest}
  /\ stage \in {"idle", "naming", "searching", "fetching", "reading", "threading", "reasoning"}
  /\ named \subseteq Labels
  /\ todo \in Seq(Ids) /\ read \in Seq(Ids)
  /\ more \in BOOLEAN
  /\ steady \subseteq Ids
  /\ stage \in {"reading", "fetching"} => todo # << >>
  /\ stage = "reasoning" => read # << >>

Done(kinds) == told.outcome = "done" /\ request.kind \in kinds

\* Messages nobody touched, whose state is still what the call found.
Untouched(ids) == {m \in steady : Here(m) /\ m \in Range(ids)}

\* A search only tells of messages that satisfy what was asked, a message changed
\* meanwhile apart, although the listing, the names of its labels and the headers
\* come from different moments.  Gmail's server knows days only, and the official
\* one is content with one of the labels, a longer address, or a conversation
\* whose other message has the words.
ResultsMatch ==
  Done({"search"}) =>
    \A m \in Untouched(told.ids) :
      LET c == request.criteria IN
      /\ MatchesState(m, c)
      /\ IF backend = "gmail" THEN WithinDates(m, [c EXCEPT !.from = NoDate]) ELSE WithinDates(m, c)
      /\ IF backend = "google" THEN c.labels = {} \/ c.labels \cap mail[m].labels # {}
                               ELSE c.labels \subseteq mail[m].labels /\ MatchesEnvelope(m, c)

\* Matches a search leaves out although nobody touched them.
LeftOut == {m \in steady : Matches(m, request.criteria)} \ Range(told.ids)

\* Of the last day asked for, which Gmail leaves out.
OnTheLastDay(m) ==
  /\ backend \in {"gmail", "google"}
  /\ request.criteria.to # NoDate
  /\ DayOf(Dataset[m].sent) = DayOf(request.criteria.to)

\* A result that is not said to be truncated holds every match that stood there all
\* along; behind Gmail, the day of the upper bound apart, and what has no date where
\* the dates are bounded.
UntruncatedIsComplete ==
  Done({"search"}) /\ ~told.truncated =>
    \A m \in LeftOut : OnTheLastDay(m) \/ Unplaced(m, request.criteria)

\* Whether a result tells of the first matches in the order asked for: behind Gmail
\* the page is always of the newest, and of conversations for the official server.
PagesInOrder ==
  \/ backend \in {"memory", "native"}
  \/ backend = "gmail" /\ request.criteria.newestFirst

\* A truncated result holds the newest matches, or the oldest if those are asked
\* for: what is left out does not come before what is told.
PageIsTheTop ==
  Done({"search"}) /\ PagesInOrder =>
    \A m \in LeftOut, n \in Untouched(told.ids) :
      \/ OnTheLastDay(m)
      \/ IF request.criteria.newestFirst THEN Dataset[n].sent >= Dataset[m].sent
                                         ELSE Dataset[n].sent <= Dataset[m].sent

\* An analysis rests on every message named, in the order they were named, or on
\* all of the conversation: one that cannot be read fails it, and none is dropped.
NothingIsLeftOut ==
  Done({"summarise", "classify", "extract"}) =>
    CASE Scope(request) = "messages" -> told.ids = request.ids
      [] Scope(request) = "thread" ->
           \A m \in steady : Here(m) /\ Dataset[m].thread = request.thread => m \in Range(told.ids)

\* A source is a message the call was asked about, whatever the model invents.
SourcesWereAskedFor ==
  Done({"summarise", "extract"}) =>
    \A m \in told.cited : IF Scope(request) = "thread" THEN Dataset[m].thread = request.thread
                                                       ELSE m \in Range(request.ids)

\* A reply is never addressed to its author, reaches people of the message it
\* answers only, all of them if that was asked, each once; and it answers the
\* latest message, unless that came or went meanwhile.
RepliesStayInTheConversation ==
  Done({"reply"}) =>
    LET d      == told.draft
        people == ({Dataset[d.answered].sender} \cup Recipients(d.answered)) \ {Address}
    IN  /\ d.to # {} /\ d.to \cap d.cc = {} /\ d.to \cup d.cc \subseteq people
        /\ request.all => d.to \cup d.cc = people
        /\ Scope(request) = "thread" =>
             \A m \in steady : Here(m) /\ Dataset[m].thread = request.thread
                                 => Dataset[m].sent <= Dataset[d.answered].sent

\* A call ends, in a result or a failure.
CallEnds == stage # "idle" ~> stage = "idle"

-----------------------------------------------------------------------------
(* Statements of the documentation the code does not keep. *)

\* "Restrict to messages carrying all of these labels", "lower bound of the sent
\* date, inclusive" (tool_inputs.py).
CriteriaAreKept ==
  Done({"search"}) =>
    \A m \in Untouched(told.ids) :
      request.criteria.labels \subseteq mail[m].labels /\ WithinDates(m, request.criteria)

\* "upper bound of the sent date, inclusive" (tool_inputs.py).
UpperBoundIsInclusive ==
  Done({"search"}) /\ ~told.truncated => \A m \in LeftOut : Unplaced(m, request.criteria)
=============================================================================
