---------------------------- MODULE WikiReading ------------------------------
(***************************************************************************)
(* Reading a wiki through the Wiki agent: one capability call at a time,   *)
(* made of several calls of the WikiTools port, while other people edit,   *)
(* restrict and delete the very pages it is reading and days go by.        *)
(*                                                                         *)
(* A search returns references; an answer broadens its query until one     *)
(* matches and then reads each page it found; a summary of a subtree lists *)
(* the children of a page and reads each of them; a freshness report       *)
(* judges dates.  Every step can fail, and what it fails with crosses the  *)
(* MCP wire as a text.                                                     *)
(*                                                                         *)
(* backend names the tools behind the port: "memory"; "native", the        *)
(* reference server; "shared", the Atlassian server acting as one account  *)
(* that the settings name; "unnamed", the same when they leave the account *)
(* empty, as they do unless told otherwise; "per_user", the Atlassian      *)
(* server acting as whoever asks.                                          *)
(***************************************************************************)
EXTENDS Ordering, Functions

CONSTANTS
  Users,
  Readers,        \* who holds WikiPermission.READ
  Account,        \* whom a shared Atlassian connection acts for
  Words, StopWords,
  Spaces,
  InitialPages,   \* for every identifier, a page; identifiers in dataset order
  Requests,       \* the capability calls a model may make
  Backends,
  MaxTerms,       \* DEFAULT_MAX_TERMS, 8 in the code
  Attempts,       \* DEFAULT_ATTEMPTS, 3 in the code
  PagesConsulted, \* DEFAULT_PAGES_CONSULTED, 5 in the code
  MaxShown,       \* DEFAULT_MAX_PAGES of a prompt, 8 in the code
  MaxLimit,       \* MAX_SEARCH_LIMIT, 50 in the code
  Ageing, Stale,  \* days, 90 and 180 in the code
  Codes,          \* what a detail of a failure may quote: failure codes
  Rewritings,     \* bound: what edits leave of the words of a page
  Restrictions,   \* bound: whom others restrict a page to
  FirstDay,       \* the day the reading starts
  MaxDay,         \* bound: last day
  MaxChanges      \* bound: changes others make

None    == "none"
PageIds == DOMAIN InitialPages
Days    == 0 .. MaxDay

\* PageRecord.  recorded: it has a history.  dates: which of its dates the
\* Atlassian server gives.
Page == [there : BOOLEAN, space : Spaces, restricted : SUBSET Users, parent : PageIds \cup {0},
         words : SUBSET Words, archived : BOOLEAN, recorded : BOOLEAN, version : Nat,
         created : Days, modified : Days, dates : SUBSET {"created", "updated"}]

Kinds == {"search", "get_page", "get_history", "get_comments", "get_children", "summarise",
          "discussion", "subtree", "answer", "assess_pages", "assess_space"}

\* The calls about one page, which they must name; a report on pages names some.
PageKinds == {"get_page", "get_history", "get_comments", "get_children", "summarise", "discussion",
              "subtree"}

Request == [kind : Kinds, user : Users, page : PageIds \cup {0}, pages : Seq(PageIds),
            text : Seq(Words), space : Spaces \cup {None}, limit : 1 .. MaxLimit]

Failures == {"not_found", "access_denied", "unavailable", "protocol"}

\* What the prose of an Atlassian failure may speak of: _DENIED_MARKERS,
\* _MISSING_MARKERS.
Marks == {"denied", "missing"}

ASSUME ReadingAssumption ==
  /\ InitialPages \in Seq(Page)
  /\ FirstDay \in Days /\ MaxDay \in Nat /\ MaxChanges \in Nat
  /\ \A p \in PageIds : InitialPages[p].created <= InitialPages[p].modified
                        /\ InitialPages[p].created <= FirstDay
  /\ Requests \subseteq Request
  /\ \A r \in Requests : IF r.kind \in PageKinds THEN r.page # 0
                         ELSE r.kind = "assess_pages" => r.pages # << >>
  /\ Readers \subseteq Users /\ Account \in Users /\ StopWords \subseteq Words /\ None \notin Spaces
  /\ Backends \subseteq {"memory", "native", "shared", "unnamed", "per_user"}
  /\ Rewritings \subseteq SUBSET Words /\ Restrictions \subseteq SUBSET Users
  /\ Ageing \in Nat /\ Stale \in Nat /\ 0 < Ageing /\ Ageing < Stale
  /\ MaxLimit \in Nat /\ MaxShown \in Nat
  /\ PagesConsulted \in 1 .. MaxLimit /\ PagesConsulted <= MaxShown
  /\ Attempts \in Nat \ {0} /\ MaxTerms \in Nat \ {0}
  /\ Codes \subseteq Failures

VARIABLES
  backend,
  pages,    \* the wiki
  today,
  changes,  \* changes made so far
  request,  \* the capability call under way
  stage,    \* what it does next
  queries,  \* queries left to try
  todo,     \* pages left to read
  read,     \* what it has read, oldest first
  told,     \* the result of the last call
  steady,   \* pages nobody touched since the call began
  found,    \* what the search, or the listing, of this call gave
  matched   \* what it should have given at that moment

vars == <<backend, pages, today, changes, request, stage, queries, todo, read, told, steady,
          found, matched>>

wiki == <<backend, pages, today, changes, steady>>

NoRequest == [kind |-> "none"]

\* A result is told by the fields its renderer shows; of a failure, cause is what
\* went wrong and marks what the text that reported it speaks of.
Nothing == [outcome |-> None, error |-> None, cause |-> None, marks |-> {}, pages |-> << >>,
            truncated |-> FALSE, shown |-> << >>, sources |-> {}, grounded |-> TRUE, report |-> << >>]

-----------------------------------------------------------------------------
(* Words. *)

\* Where the content words of a question stand, each for the first time.
FirstPlaces(question) ==
  {i \in DOMAIN question : /\ question[i] \notin StopWords
                           /\ \A j \in 1 .. i - 1 : question[j] # question[i]}

\* _terms: the content words of a question, once each, the first MaxTerms.
TermsOf(question) ==
  LET places == FirstPlaces(question)
      order  == InOrder(places, {ij \in places \X places : ij[1] < ij[2]})
  IN  FirstOf([n \in DOMAIN order |-> question[order[n]]], MaxTerms)

\* mutant: every attempt repeats the full query
Repeated(question) == [i \in 1 .. Attempts |-> TermsOf(question)]

\* QuestionTerms.ladder: all terms, then shorter and shorter prefixes of them; a
\* question of stop words is searched as it is.
Ladder(question) ==
  LET terms == TermsOf(question)
      steps == IF Len(terms) < Attempts THEN Len(terms) ELSE Attempts
  IN  IF terms = << >> THEN <<question>>
      ELSE [i \in 1 .. steps |-> FirstOf(terms, Len(terms) - i + 1)]

\* What a question is about: its first terms, as many as the attempts leave.
Subject(question) ==
  LET terms == TermsOf(question)
  IN  IF terms = << >> THEN question
      ELSE FirstOf(terms, IF Len(terms) < Attempts THEN 1 ELSE Len(terms) - Attempts + 1)

-----------------------------------------------------------------------------
(* The wiki, and who may see what. *)

Atlassian == backend \in {"shared", "unnamed", "per_user"}

MayRead(u, p) ==
  /\ pages[p].there
  /\ pages[p].restricted = {} \/ u \in pages[p].restricted

\* mutant: the shared connection serves whoever asks
ServesAnyone(u) == TRUE

\* _require_served_account: a connection that names no account refuses nobody.
Serves(u) == backend = "shared" => u = Account

\* Whose view of the wiki a call gets.
Acting(u) == IF backend \in {"shared", "unnamed"} THEN Account ELSE u

\* _moment: a date the server leaves out reads as the present one.
ReadDate(p, field, date) == IF Atlassian /\ field \notin pages[p].dates THEN today ELSE date

CreatedOn(p)  == ReadDate(p, "created", pages[p].created)
ModifiedOn(p) == ReadDate(p, "updated", pages[p].modified)

\* WikiPage refuses a page modified before it was created.
Chronological(p) == CreatedOn(p) <= ModifiedOn(p)

\* What stands in the way of u and page p: nothing, or a failure.  A restricted
\* page is hidden by some servers and refused by others.
Obstacles(u, p) ==
  IF ~Serves(u) THEN {"access_denied"}
  ELSE IF ~pages[p].there THEN {"not_found"}
  ELSE IF ~MayRead(Acting(u), p) THEN IF Atlassian THEN {"access_denied", "not_found"}
                                      ELSE {"access_denied"}
  ELSE {None}

PageObstacles(u, p) ==
  IF Obstacles(u, p) = {None} /\ ~Chronological(p) THEN {"protocol"} ELSE Obstacles(u, p)

\* encode: the reported text names the failure first; its detail may quote a
\* page whose name spells a code as well.
Reported(failure) == {<<failure>>} \cup {<<failure, quoted>> : quoted \in Codes}

\* mutant: the last code found counts
LastCode(text) == text[Len(text)]

\* decode_failure: the first code found counts.
Decoded(text) == text[1]

\* mutant: an absence is looked for before a refusal
AbsenceFirst(marks) ==
  IF "missing" \in marks THEN "not_found"
  ELSE IF "denied" \in marks THEN "access_denied"
  ELSE "protocol"

\* _translated: prose that speaks of a refusal is one, whatever else it speaks of;
\* prose that is not recognised is a protocol failure.
Translated(marks) ==
  IF "denied" \in marks THEN "access_denied"
  ELSE IF "missing" \in marks THEN "not_found"
  ELSE "protocol"

\* Failures of a call over Atlassian that the client raises itself: a refused user,
\* a broken connection, an answer that makes no page.
RaisedHere(u, cause) ==
  cause \in {"unavailable", "protocol"} \/ (cause = "access_denied" /\ ~Serves(u))

\* Failures the Atlassian server reports, in prose of its own: never of a user it
\* is not asked for, and there is no tool for a history.
ReportedThere(r, cause) ==
  Serves(r.user) /\ r.kind # "get_history" /\ cause \in Failures \ {"protocol"}

Told(error, marks) == [error |-> error, marks |-> marks]

\* What call r is told of a failure, with what the prose spoke of.
Arriving(r, cause) ==
  CASE backend = "memory" -> {Told(cause, {})}
    [] backend = "native" -> {Told(Decoded(text), {}) : text \in Reported(cause)}
    [] Atlassian ->
         (IF RaisedHere(r.user, cause) THEN {Told(cause, {})} ELSE {})
         \cup (IF ReportedThere(r, cause)
               THEN {Told(Translated(marks), marks) : marks \in SUBSET Marks} ELSE {})

-----------------------------------------------------------------------------
(* Searching. *)

Matches(p, text, space) ==
  /\ ~pages[p].archived
  /\ space \in {None, pages[p].space}
  /\ \A i \in DOMAIN text : text[i] \in pages[p].words

\* CqlQueryBuilder: a query of several terms gives its best matches, not only
\* the pages that have them all; the server searches current pages.
MatchesCql(p, text, space) ==
  /\ ~pages[p].archived
  /\ space \in {None, pages[p].space}
  /\ text = << >> \/ \E i \in DOMAIN text : text[i] \in pages[p].words

Matching(u, text, space) ==
  {p \in PageIds : /\ MayRead(Acting(u), p)
                   /\ IF Atlassian THEN MatchesCql(p, text, space) ELSE Matches(p, text, space)}

\* Latest change first, ties in the order of the dataset.
Before(p, q) ==
  \/ pages[p].modified > pages[q].modified
  \/ pages[p].modified = pages[q].modified /\ p < q

Later == {pq \in PageIds \X PageIds : Before(pq[1], pq[2])}

Orders(S) == {f \in [1 .. Cardinality(S) -> S] : IsInjective(f)}

\* The first matches: by date behind the in-memory wiki and the reference server,
\* by a relevance of its own behind Atlassian.
Selections(S, limit) ==
  IF Atlassian
  THEN {FirstOf(order, limit) : order \in Orders(S)}
  ELSE {FirstOf(InOrder(S, Later), limit)}

\* mutant: more is there only if more came back than was asked for
TruncatedBeyond(S, selection, limit) ==
  IF Atlassian THEN Len(selection) > limit ELSE Cardinality(S) > Len(selection)

\* The Atlassian server gives no total: a full answer may not be all of them.
Truncated(S, selection, limit) ==
  IF Atlassian THEN Len(selection) >= limit ELSE Cardinality(S) > Len(selection)

-----------------------------------------------------------------------------
(* Judging. *)

Verdict(days) == IF days >= Stale THEN "stale" ELSE IF days >= Ageing THEN "ageing" ELSE "fresh"

\* mutant: a date ahead of the clock counts backwards
DaysBetween(day) == today - day

\* _days_since: a date ahead of the clock is no age at all.
DaysSince(day) == IF day > today THEN 0 ELSE today - day

\* mutant: a report keeps the order of the pages
LeftAsTheyCame(assessed) == assessed

\* PageFreshnessDetector.report: the longest unchanged first, the others where
\* they were.
MostStaleFirst(assessed) ==
  LET places == DOMAIN assessed
      staler == {ij \in places \X places :
                   \/ assessed[ij[1]].days > assessed[ij[2]].days
                   \/ assessed[ij[1]].days = assessed[ij[2]].days /\ ij[1] < ij[2]}
  IN  [n \in places |-> assessed[InOrder(places, staler)[n]]]

Assessed(p, modified) ==
  [page |-> p, days |-> DaysSince(modified), verdict |-> Verdict(DaysSince(modified))]

-----------------------------------------------------------------------------
Init ==
  /\ backend \in Backends
  /\ pages = InitialPages
  /\ today = FirstDay
  /\ changes = 0
  /\ request = NoRequest
  /\ stage = "idle"
  /\ queries = << >>
  /\ todo = << >>
  /\ read = << >>
  /\ told = Nothing
  /\ steady = {}
  /\ found = << >>
  /\ matched = {}

Answers(result) ==
  /\ told' = result
  /\ stage' = "idle"

Succeeds(result) == Answers([result EXCEPT !.outcome = "done"])

\* A call that fails fails the capability, whatever else it has read.
FailsAs(cause, report) ==
  Answers([Nothing EXCEPT !.outcome = "failed", !.error = report.error, !.cause = cause,
                          !.marks = report.marks])

Fails(failure) == FailsAs(failure, Told(failure, {}))

\* The first thing each capability does.
FirstStage(kind) ==
  CASE kind \in {"search", "answer", "assess_space"} -> "searching"
    [] kind \in {"get_page", "summarise", "discussion", "subtree", "assess_pages"} -> "reading"
    [] kind = "get_children" -> "listing"
    [] OTHER -> "looking"

\* require_permission, and a search that names nothing at all.
Refusal(r) ==
  IF r.user \notin Readers THEN "permission_denied"
  ELSE IF r.kind = "search" /\ r.text = << >> /\ r.space = None THEN "empty_search"
  ELSE None

\* The model calls a capability.
Call(r) ==
  /\ stage = "idle"
  /\ request' = r
  /\ IF Refusal(r) # None
     THEN Fails(Refusal(r))
     ELSE stage' = FirstStage(r.kind) /\ told' = Nothing
  /\ queries' = IF r.kind = "answer" THEN Ladder(r.text) ELSE <<r.text>>
  /\ todo' = IF r.kind = "assess_pages" THEN r.pages ELSE <<r.page>>
  /\ read' = << >>
  /\ found' = << >>
  /\ matched' = {}
  /\ steady' = PageIds
  /\ UNCHANGED <<backend, pages, today, changes>>

\* The next, broader query.
Broadened(pending) == Tail(pending)

\* How many references a search asks for.
Limit == CASE request.kind = "search" -> request.limit
           [] request.kind = "answer" -> PagesConsulted
           [] OTHER -> MaxLimit

\* The dates a search carries are those of the moment.
Judged(selection) ==
  MostStaleFirst([i \in DOMAIN selection |-> Assessed(selection[i], ModifiedOn(selection[i]))])

\* One query, and what its caller makes of the references.
Search ==
  /\ stage = "searching"
  /\ Serves(request.user)
  /\ LET text == Head(queries)
         S    == Matching(request.user, text, request.space)
     IN  \E selection \in Selections(S, Limit) :
           /\ found' = selection
           /\ matched' = S
           /\ queries' = Broadened(queries)
           /\ \/ /\ request.kind = "search"
                 /\ Succeeds([Nothing EXCEPT !.pages = selection,
                                             !.truncated = Truncated(S, selection, Limit)])
                 /\ UNCHANGED todo
              \/ /\ request.kind = "assess_space"
                 /\ Succeeds([Nothing EXCEPT !.report = Judged(selection)])
                 /\ UNCHANGED todo
              \/ /\ request.kind = "answer" /\ selection # << >>
                 /\ stage' = "reading"
                 /\ todo' = selection
                 /\ UNCHANGED told
              \/ /\ request.kind = "answer" /\ selection = << >> /\ Len(queries) > 1
                 /\ UNCHANGED <<stage, told, todo>>
              \/ /\ request.kind = "answer" /\ selection = << >> /\ Len(queries) = 1
                 /\ Fails("ungrounded")
                 /\ UNCHANGED todo
  /\ UNCHANGED <<wiki, request, read>>

\* What was read of a page; readers is who might read it then.
Reading(p) == [page |-> p, version |-> pages[p].version, modified |-> ModifiedOn(p),
               readers |-> {u \in Users : MayRead(u, p)}]

\* mutant: the last page is left out
Stopping(pending) == Len(pending) > 2

\* Each page found, listed or named is read.
MoreToRead(pending) == Len(pending) > 1

\* What comes after a page has been read.
NextStage ==
  IF MoreToRead(todo) THEN "reading"
  ELSE CASE request.kind = "discussion" -> "looking"
         [] request.kind = "subtree" /\ read = << >> -> "listing"
         [] OTHER -> "reasoning"

\* get_page, of the next page.
ReadPage ==
  /\ stage = "reading"
  /\ PageObstacles(request.user, Head(todo)) = {None}
  /\ read' = Append(read, Reading(Head(todo)))
  /\ todo' = Tail(todo)
  /\ IF request.kind = "get_page"
     THEN Succeeds([Nothing EXCEPT !.pages = <<Head(todo)>>])
     ELSE stage' = NextStage /\ UNCHANGED told
  /\ UNCHANGED <<wiki, request, queries, found, matched>>

Children(u, p) == {q \in PageIds : pages[q].parent = p /\ MayRead(Acting(u), q)}

\* Children come by title, which is in no relation to their dates, or in the order
\* of the Atlassian server, which gives no more than MaxLimit.
Listings(S) ==
  {FirstOf(order, IF Atlassian THEN MaxLimit ELSE Cardinality(S)) : order \in Orders(S)}

\* get_children, alone or as the second step of a subtree.
ListChildren ==
  /\ stage = "listing"
  /\ Obstacles(request.user, request.page) = {None}
  /\ \E listing \in Listings(Children(request.user, request.page)) :
       /\ found' = listing
       /\ todo' = listing
       /\ IF request.kind = "get_children"
          THEN Succeeds([Nothing EXCEPT !.pages = listing])
          ELSE /\ stage' = IF listing = << >> THEN "reasoning" ELSE "reading"
               /\ UNCHANGED told
  /\ UNCHANGED <<wiki, request, queries, read, matched>>

\* get_comments and get_history: a page without a history has none to show.
LookObstacles(r) ==
  IF /\ r.kind = "get_history" /\ ~pages[r.page].recorded
     /\ Obstacles(r.user, r.page) = {None}
  THEN {"not_found"} ELSE Obstacles(r.user, r.page)

\* The Atlassian server lists no history.
Look ==
  /\ stage = "looking"
  /\ LookObstacles(request) = {None}
  /\ request.kind = "get_history" => ~Atlassian
  /\ IF request.kind = "discussion"
     THEN stage' = "reasoning" /\ UNCHANGED told
     ELSE Succeeds([Nothing EXCEPT !.pages = <<request.page>>])
  /\ UNCHANGED <<wiki, request, queries, todo, read, found, matched>>

\* What can go wrong with the step under way.
Causes ==
  {"unavailable"} \cup
  (CASE stage = "searching" -> IF Serves(request.user) THEN {} ELSE {"access_denied"}
     [] stage = "reading" -> PageObstacles(request.user, Head(todo)) \ {None}
     [] stage = "looking" /\ request.kind = "get_history" /\ Atlassian -> {}
     [] stage = "looking" -> LookObstacles(request) \ {None}
     [] OTHER -> Obstacles(request.user, request.page) \ {None})

FailCall ==
  /\ stage \in {"searching", "reading", "listing", "looking"}
  /\ \E cause \in Causes : \E report \in Arriving(request, cause) : FailsAs(cause, report)
  /\ UNCHANGED <<wiki, request, queries, todo, read, found, matched>>

\* WikiContextBuilder: the first pages reach the prompt.
Shown == FirstOf([i \in DOMAIN read |-> read[i].page], MaxShown)

ReadIds == {read[i].page : i \in DOMAIN read}

\* mutant: sources name the pages as they are by now
SourcesNow(cited) == {[page |-> p, version |-> pages[p].version] : p \in cited}

\* _sources: a source is a page that was read, as it was read.
Sources(cited) ==
  {[page |-> read[i].page, version |-> read[i].version] : i \in {j \in DOMAIN read : read[j].page \in cited}}

\* mutant: the model is believed
Believed(claim, cited) == claim

\* to_answer: an answer that cites nothing is not grounded, whatever is claimed.
Grounded(claim, cited) == claim /\ cited # {}

\* The model reasons over what it is shown and cites what it likes; a citation of
\* anything that was not read fails the capability.
Reason ==
  /\ stage = "reasoning" /\ request.kind # "assess_pages"
  /\ \E cited \in SUBSET PageIds, claim \in BOOLEAN :
       IF cited \subseteq ReadIds
       THEN Succeeds([Nothing EXCEPT !.shown = Shown, !.sources = Sources(cited),
                                    !.grounded = request.kind = "answer" => Grounded(claim, cited)])
       ELSE Fails("ungrounded_citation")
  /\ UNCHANGED <<wiki, request, queries, todo, read, found, matched>>

\* assess_pages: the dates were read page by page, the ages are counted now.
Assess ==
  /\ stage = "reasoning" /\ request.kind = "assess_pages"
  /\ Succeeds([Nothing EXCEPT !.report =
       MostStaleFirst([i \in DOMAIN read |-> Assessed(read[i].page, read[i].modified)])])
  /\ UNCHANGED <<wiki, request, queries, todo, read, found, matched>>

-----------------------------------------------------------------------------
(* The others, and time.  What happens between two calls is what the second *)
(* finds, so that changes are only told apart while a call is under way.    *)

Change(p, page) ==
  /\ stage # "idle"
  /\ changes < MaxChanges
  /\ changes' = changes + 1
  /\ pages' = [pages EXCEPT ![p] = page]
  /\ steady' = steady \ {p}
  /\ UNCHANGED <<backend, today, request, stage, queries, todo, read, told, found, matched>>

Edit(p, words) ==
  /\ pages[p].there
  /\ Change(p, [pages[p] EXCEPT !.words = words, !.version = @ + 1, !.modified = today,
                                !.recorded = TRUE])

Delete(p) ==
  /\ pages[p].there
  /\ Change(p, [pages[p] EXCEPT !.there = FALSE])

LimitReaders(p, users) ==
  /\ pages[p].there
  /\ Change(p, [pages[p] EXCEPT !.restricted = users])

NextDay ==
  /\ stage # "idle"
  /\ today < MaxDay
  /\ today' = today + 1
  /\ UNCHANGED <<backend, pages, changes, request, stage, queries, todo, read, told, steady, found, matched>>

Step == Search \/ ReadPage \/ ListChildren \/ Look \/ FailCall \/ Reason \/ Assess

Next ==
  \/ \E r \in Requests : Call(r)
  \/ Step
  \/ \E p \in PageIds, words \in Rewritings : Edit(p, words)
  \/ \E p \in PageIds : Delete(p)
  \/ \E p \in PageIds, users \in Restrictions : LimitReaders(p, users)
  \/ NextDay

Spec == Init /\ [][Next]_vars

\* Every awaited call returns or fails.
FairSpec == Spec /\ WF_vars(Step)

-----------------------------------------------------------------------------
(* Properties. *)

ReadRecord == [page : PageIds, version : Nat, modified : Days, readers : SUBSET Users]

\* Types; a call that is idle has nothing under way, and there is no query, page
\* or listing a stage could miss.
TypeOK ==
  /\ backend \in Backends
  /\ pages \in Seq(Page) /\ DOMAIN pages = PageIds
  /\ today \in Days /\ changes \in 0 .. MaxChanges
  /\ request \in Requests \cup {NoRequest}
  /\ stage \in {"idle", "searching", "reading", "listing", "looking", "reasoning"}
  /\ queries \in Seq(Seq(Words))
  /\ todo \in Seq(PageIds \cup {0})
  /\ read \in Seq(ReadRecord)
  /\ steady \subseteq PageIds /\ matched \subseteq PageIds
  /\ stage = "searching" => queries # << >>
  /\ stage = "reading" => todo # << >> /\ Head(todo) # 0

Done(kinds) == told.outcome = "done" /\ request.kind \in kinds

\* "The agent would then report that the documentation is silent, which is the
\* one thing it must never say wrongly": when an answer is refused for want of
\* pages, no page that stood there all along, for its reader to see, holds what
\* the question is about, however the wiki changed between the queries.
SilenceIsHonest ==
  told.error = "ungrounded" =>
    \A p \in steady : ~(/\ MayRead(Acting(request.user), p)
                       /\ Matches(p, Subject(request.text), request.space))

\* "truncated says the wiki holds more matches than were returned": a search that
\* does not say so returned every page there was to find, whatever the backend.
UntruncatedIsComplete ==
  Done({"search"}) /\ ~told.truncated => matched \subseteq Range(told.pages)

\* Whose right to read a call of u is held to: the user's own; the account's where a
\* connection that names none serves whoever asks.
Entitled(u) == IF backend = "unnamed" THEN Account ELSE u

\* Whatever a call tells of, or reasons over, the one it is held to could read at
\* that moment, whatever was restricted meanwhile; and a connection that names its
\* account tells nobody else of what the account may read.
NothingHiddenIsTold ==
  told.outcome = "done" =>
    /\ \A i \in DOMAIN read : Entitled(request.user) \in read[i].readers
    /\ \A i \in DOMAIN told.pages : MayRead(Entitled(request.user), told.pages[i])
    /\ request.kind = "assess_space" =>
         \A i \in DOMAIN told.report : MayRead(Entitled(request.user), told.report[i].page)

\* An answer rests on every page its search found, a summary of a subtree on the
\* page and every child listed, as far as a prompt holds them, a report on every
\* page named: one that cannot be read fails it, and none is dropped.
NothingIsLeftOut ==
  /\ Done({"answer"}) => told.shown = found
  /\ Done({"subtree"}) => told.shown = FirstOf(<<request.page>> \o found, MaxShown)
  /\ Done({"assess_pages"}) => [i \in DOMAIN read |-> read[i].page] = request.pages

\* Every source is a page this very call read, in the version it read, and an
\* answer called grounded has one.
SourcesWereRead ==
  told.outcome = "done" =>
    /\ \A s \in told.sources : \E i \in DOMAIN read :
         read[i].page = s.page /\ read[i].version = s.version
    /\ request.kind = "answer" /\ told.grounded => told.sources # {}

\* Whether its server dates the last change of a page.
Dated(p) == ~Atlassian \/ "updated" \in pages[p].dates

\* A line of a report is right about a page last changed on day: the days gone by
\* since, none when the date is ahead of the clock, and the thresholds they reach.
RightAbout(line, day) ==
  /\ line.days >= 0
  /\ day + line.days = today \/ (day > today /\ line.days = 0)
  /\ line.verdict = "stale" <=> day + Stale <= today
  /\ line.verdict = "fresh" <=> today < day + Ageing

\* A freshness report gives every page nobody touched meanwhile the age and the
\* verdict it has when the report is made, whenever its date was read and even if
\* that is ahead of the clock, unless its server gives no date for it; and the
\* longest unchanged page comes first.
ReportsAreSober ==
  told.outcome = "done" =>
    /\ \A i \in DOMAIN told.report :
         told.report[i].page \in steady /\ Dated(told.report[i].page)
           => RightAbout(told.report[i], pages[told.report[i].page].modified)
    /\ \A i, j \in DOMAIN told.report :
         i < j => told.report[i].days >= told.report[j].days

\* The agent is told what went wrong, although the native wire carries it as a text
\* that may quote other failures.  Only the prose of the Atlassian server may mislead
\* it, and never about a user the client refuses itself: a refusal that says so is
\* not told as an absence, whatever else the prose speaks of; an absence is told as
\* one unless its prose speaks of a refusal, or not of the absence; and nothing is
\* told as a refusal or an absence of which the prose does not speak.
FailureSaysWhy ==
  told.outcome = "failed" /\ told.error # told.cause =>
    /\ Atlassian /\ Serves(request.user)
    /\ told.cause = "access_denied" => "denied" \notin told.marks
    /\ told.cause = "not_found" => "denied" \in told.marks \/ "missing" \notin told.marks
    /\ told.error = "access_denied" => "denied" \in told.marks
    /\ told.error = "not_found" => "missing" \in told.marks

\* A call ends, in a result or a failure.
CallEnds == stage # "idle" ~> stage = "idle"

-----------------------------------------------------------------------------
(* Statements of the documentation the code does not keep. *)

\* "Serving a second user through it would return that first person's view of the
\* wiki under somebody else's name - including pages the second user may not read -
\* so it is refused here" (client.py of the Atlassian dialect); "The MCP server must
\* carry the identity of the person asking" (wiki-mcp-servers.md).
OnlyTheirOwnView ==
  told.outcome = "done" =>
    /\ \A i \in DOMAIN read : request.user \in read[i].readers
    /\ \A i \in DOMAIN told.pages : MayRead(request.user, told.pages[i])

\* "Assess every readable page of this space" (tool_inputs.py).
SpaceIsAssessed ==
  Done({"assess_space"}) =>
    matched \subseteq {told.report[i].page : i \in DOMAIN told.report}
=============================================================================
