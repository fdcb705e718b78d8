--------------------------- MODULE WikiAuthoring ----------------------------
(***************************************************************************)
(* Several people, each with a Wiki agent of their own, and colleagues in  *)
(* the wiki's own editor, work on the same pages.                          *)
(*                                                                         *)
(* A draft is composed against the version of a page read at that moment   *)
(* and kept in the draft store; the write that publishes it comes turns    *)
(* later, after an approval that can take any time and any number of       *)
(* repetitions (a reference stays usable).  This module starts where the   *)
(* confirmation gate lets a call through.                                  *)
(*                                                                         *)
(* backend names the tools composed behind the WikiTools port, for good:   *)
(* "memory" and "native" (the reference MCP server) compare versions and   *)
(* store in one step; the Atlassian dialect reads, compares and only then  *)
(* writes.                                                                 *)
(***************************************************************************)
EXTENDS Naturals, Sequences

CONSTANTS
  Users,
  Served,         \* accounts the wiki connection may act for
  PageIds,
  SpaceReaders,   \* for every space, who may read it; nobody named: everyone
  InitialPages,   \* the dataset: a page, or NoPage, for every identifier
  Backends,       \* what may be composed: "memory", "native", "atlassian"
  Unnumbered,     \* pages whose version the Atlassian server leaves out
  MaxVersion,     \* bound: version of a page
  MaxDrafts,      \* bound: drafts composed
  MaxComments,    \* bound: comments of a page
  MaxCalls        \* bound: Atlassian updates in flight at once

None   == "none"
Spaces == DOMAIN SpaceReaders
NoPage == [space |-> None]

\* One revision: who wrote it, the version its author was given to work from, and
\* the version of the page when the write began (histories keep only the first
\* field; the others are here for the properties).
Revision == [version : Nat, by : Users, seen : Nat, started : Nat]

Comment == [id : Nat, parent : Nat]

\* PageEntry.  An empty history is an entry without one.
Page == [space : Spaces, latest : Revision, restricted : SUBSET Users,
         parent : PageIds \cup {None}, comments : Seq(Comment), history : Seq(Revision)]

ASSUME BackendsAssumption == Backends \subseteq {"memory", "native", "atlassian"}
ASSUME UnnumberedAssumption == Unnumbered \subseteq PageIds
ASSUME ServedAssumption  == Served \subseteq Users
ASSUME SpacesAssumption  == \A s \in Spaces : SpaceReaders[s] \subseteq Users
ASSUME PagesAssumption   ==
  /\ None \notin PageIds
  /\ InitialPages \in [PageIds -> Page \cup {NoPage}]
  /\ \A p \in PageIds : InitialPages[p] # NoPage =>
       /\ InitialPages[p].latest.version \in Nat \ {0}
       /\ InitialPages[p].latest.seen = InitialPages[p].latest.version - 1
       /\ InitialPages[p].latest.started <= InitialPages[p].latest.seen
       /\ InitialPages[p].comments = << >>
       /\ InitialPages[p].history \in {<< >>, <<InitialPages[p].latest>>}

Calls    == 1 .. MaxCalls
IdleCall == [draft |-> 0, started |-> 0]

VARIABLES
  backend,  \* what was composed behind the port
  pages,    \* the wiki: an entry, or NoPage, for every identifier
  removed,  \* identifiers of deleted pages
  drafts,   \* every draft kept in a store; its reference is its position
  calls     \* Atlassian updates between their read and their write

vars == <<backend, pages, removed, drafts, calls>>

-----------------------------------------------------------------------------
Exists(p) == pages[p] # NoPage

MayReadSpace(u, space) == SpaceReaders[space] = {} \/ u \in SpaceReaders[space]

MayRead(u, page) ==
  /\ MayReadSpace(u, page.space)
  /\ page.restricted = {} \/ u \in page.restricted

\* Wiki._entry: an absent page is not found, a restricted one is refused.
Readable(u, p) == u \in Served /\ Exists(p) /\ MayRead(u, pages[p])

\* _version_of: a page the Atlassian server gives no version of is read as the first.
Numbered(p)  == backend = "atlassian" => p \notin Unnumbered
VersionOf(p) == IF Numbered(p) THEN pages[p].latest.version ELSE 1

\* mutant: a draft is only refused if it is newer than the page
NotAhead(draft) == draft.expected <= VersionOf(draft.page)

\* _require_current_version.
Current(draft) == draft.expected = VersionOf(draft.page)

\* mutant: the history starts with the write when the page had none
Unseeded(page, revision) == <<revision>> \o page.history

\* _extended_history: a page without a history still had a revision before.
Extended(page, revision) ==
  IF page.history # << >> THEN <<revision>> \o page.history ELSE <<revision, page.latest>>

\* mutant: the entry is rebuilt from the page alone
RevisedPageOnly(page, revision) ==
  [page EXCEPT !.latest = revision, !.history = Extended(page, revision),
               !.comments = << >>]

\* update_page stores a new entry that keeps comments and restriction.
Revised(page, revision) ==
  [page EXCEPT !.latest = revision, !.history = Extended(page, revision)]

\* The entry of p after its next revision.
Write(u, p, seen, started) ==
  /\ pages[p].latest.version < MaxVersion
  /\ pages' = [pages EXCEPT ![p] = Revised(@,
       [version |-> @.latest.version + 1, by |-> u, seen |-> seen, started |-> started])]

-----------------------------------------------------------------------------
Init ==
  /\ backend \in Backends
  /\ pages = InitialPages
  /\ removed = {}
  /\ drafts = << >>
  /\ calls = [c \in Calls |-> IdleCall]

\* WikiDraftingSkill.draft_page_revision: the page is read, and its version
\* travels with the draft.
DraftRevision(u, p) ==
  /\ Len(drafts) < MaxDrafts
  /\ Readable(u, p)
  /\ drafts' = Append(drafts, [owner |-> u, page |-> p, expected |-> VersionOf(p),
                               space |-> pages[p].space, parent |-> pages[p].parent])
  /\ UNCHANGED <<backend, pages, removed, calls>>

\* WikiDraftingSkill.draft_new_page: neither space nor parent is looked at yet.
DraftNewPage(u, space, parent) ==
  /\ Len(drafts) < MaxDrafts
  /\ drafts' = Append(drafts, [owner |-> u, page |-> None, expected |-> 0,
                               space |-> space, parent |-> parent])
  /\ UNCHANGED <<backend, pages, removed, calls>>

\* mutant: identifiers of deleted pages are given out again
Absent(p) == ~Exists(p)

\* A new identifier (uuid4) was never in use.
Fresh(p) == ~Exists(p) /\ p \notin removed

\* AccountWiki refuses a space the account may not read; InMemoryWikiTools only
\* looks whether the space is there.
MayCreateIn(u, space) == backend = "memory" \/ MayReadSpace(u, space)

\* create_page publishes any draft of its owner, a revision draft too.
CreatePage(d, p) ==
  /\ Fresh(p)
  /\ drafts[d].owner \in Served
  /\ MayCreateIn(drafts[d].owner, drafts[d].space)
  /\ drafts[d].parent # None => Readable(drafts[d].owner, drafts[d].parent)
  /\ LET first == [version |-> 1, by |-> drafts[d].owner, seen |-> 0, started |-> 0] IN
     pages' = [pages EXCEPT ![p] =
       [space |-> drafts[d].space, latest |-> first, restricted |-> {},
        parent |-> drafts[d].parent, comments |-> << >>, history |-> <<first>>]]
  /\ UNCHANGED <<backend, removed, drafts, calls>>

\* update_page of the in-memory wiki and of the reference server.
UpdatePage(d) ==
  /\ backend # "atlassian"
  /\ drafts[d].page # None
  /\ Readable(drafts[d].owner, drafts[d].page)
  /\ Current(drafts[d])
  /\ Write(drafts[d].owner, drafts[d].page, drafts[d].expected, pages[drafts[d].page].latest.version)
  /\ UNCHANGED <<backend, removed, drafts, calls>>

\* The Atlassian dialect reads the page and compares...
CheckVersion(c, d) ==
  /\ backend = "atlassian"
  /\ calls[c] = IdleCall
  /\ drafts[d].page # None
  /\ Readable(drafts[d].owner, drafts[d].page)
  /\ Current(drafts[d])
  /\ calls' = [calls EXCEPT ![c] =
                 [draft |-> d, started |-> pages[drafts[d].page].latest.version]]
  /\ UNCHANGED <<backend, pages, removed, drafts>>

\* ... and then calls the server, which knows of no expected version.
WriteChecked(c) ==
  /\ calls[c] # IdleCall
  /\ LET draft == drafts[calls[c].draft] IN
       /\ Readable(draft.owner, draft.page)
       /\ Write(draft.owner, draft.page, draft.expected, calls[c].started)
  /\ calls' = [calls EXCEPT ![c] = IdleCall]
  /\ UNCHANGED <<backend, removed, drafts>>

\* The server refuses the write, or the call does not reach it.
LoseCall(c) ==
  /\ calls[c] # IdleCall
  /\ calls' = [calls EXCEPT ![c] = IdleCall]
  /\ UNCHANGED <<backend, pages, removed, drafts>>

\* delete_page carries no version: it removes whatever the page is by then.
DeletePage(u, p) ==
  /\ Readable(u, p)
  /\ pages' = [pages EXCEPT ![p] = NoPage]
  /\ removed' = removed \cup {p}
  /\ UNCHANGED <<backend, drafts, calls>>

\* _require_known_comment.
KnownComment(page, parent) ==
  parent = 0 \/ \E i \in DOMAIN page.comments : page.comments[i].id = parent

\* add_comment; the Atlassian dialect refuses replies.
AddComment(u, p, parent) ==
  /\ Readable(u, p)
  /\ Len(pages[p].comments) < MaxComments
  /\ KnownComment(pages[p], parent)
  /\ backend = "atlassian" => parent = 0
  /\ pages' = [pages EXCEPT ![p].comments =
                 Append(@, [id |-> Len(@) + 1, parent |-> parent])]
  /\ UNCHANGED <<backend, removed, drafts, calls>>

\* A colleague saves the page in the wiki's own editor.
ColleagueEdit(u, p) ==
  /\ Exists(p)
  /\ MayRead(u, pages[p])
  /\ Write(u, p, pages[p].latest.version, pages[p].latest.version)
  /\ UNCHANGED <<backend, removed, drafts, calls>>

Next ==
  \/ \E u \in Users, p \in PageIds : DraftRevision(u, p)
  \/ \E u \in Users, space \in Spaces, parent \in PageIds \cup {None} :
       DraftNewPage(u, space, parent)
  \/ \E d \in DOMAIN drafts, p \in PageIds : CreatePage(d, p)
  \/ \E d \in DOMAIN drafts : UpdatePage(d)
  \/ \E c \in Calls, d \in DOMAIN drafts : CheckVersion(c, d)
  \/ \E c \in Calls : WriteChecked(c)
  \/ \E c \in Calls : LoseCall(c)
  \/ \E u \in Users, p \in PageIds : DeletePage(u, p)
  \/ \E u \in Users, p \in PageIds, parent \in 0 .. MaxComments : AddComment(u, p, parent)
  \/ \E u \in Users, p \in PageIds : ColleagueEdit(u, p)

Spec == Init /\ [][Next]_vars

-----------------------------------------------------------------------------
(* Properties. *)

Draft == [owner : Users, page : PageIds \cup {None}, expected : Nat,
          space : Spaces, parent : PageIds \cup {None}]

\* Types; and no write in flight brings a deleted page back.
TypeOK ==
  /\ backend \in Backends
  /\ pages \in [PageIds -> Page \cup {NoPage}]
  /\ removed \subseteq PageIds
  /\ \A p \in removed : ~Exists(p)
  /\ drafts \in Seq(Draft)
  /\ calls \in [Calls -> [draft : 0 .. Len(drafts), started : Nat]]

\* Every revision of a page, recorded or latest.
RevisionsOf(p) == {pages[p].latest} \cup {pages[p].history[i] : i \in DOMAIN pages[p].history}

\* "a colleague who edited the page [...] causes the write to be refused instead
\* of being silently overwritten": every revision replaced exactly the version
\* its author had in front of them, however old the draft and however often its
\* publication was repeated.  The Atlassian dialect cannot promise this.
NothingIsOverwritten ==
  backend # "atlassian" => \A p \in PageIds : Exists(p) => \A r \in RevisionsOf(p) : r.seen = r.version - 1

\* The Atlassian dialect "catches the ordinary case": an edit finished before the
\* update began is never lost; only one that falls between the dialect's read
\* and its write can be, where the server gives the versions of its pages.
EarlierEditsSurvive ==
  \A p \in PageIds : Exists(p) /\ Numbered(p) => \A r \in RevisionsOf(p) : r.seen >= r.started

\* The history of a page is complete and in order: it starts with the latest
\* revision, goes back one version at a time, and reaches the first version the
\* wiki held.
HistoryIsWhole ==
  \A p \in PageIds : Exists(p) =>
    LET history == pages[p].history
        oldest  == IF InitialPages[p] = NoPage THEN 1 ELSE InitialPages[p].latest.version
    IN  history # << >> =>
          /\ history[1] = pages[p].latest
          /\ \A i \in 1 .. Len(history) - 1 : history[i].version = history[i + 1].version + 1
          /\ history[Len(history)].version = oldest

\* A reply answers an earlier comment of the same page.
RepliesAnswerComments ==
  \A p \in PageIds : Exists(p) =>
    \A i \in DOMAIN pages[p].comments :
      pages[p].comments[i].parent # 0 =>
        \E j \in 1 .. i - 1 : pages[p].comments[j].id = pages[p].comments[i].parent

\* Writing one thing of a page never loses another: while a page exists its
\* restriction stays, its comments and its recorded revisions only grow.
IsPrefixOf(s, t) == Len(s) <= Len(t) /\ \A i \in DOMAIN s : t[i] = s[i]
IsSuffixOf(s, t) == Len(s) <= Len(t) /\ \A i \in DOMAIN s : t[Len(t) - Len(s) + i] = s[i]

WritesKeepTheRest ==
  [][\A p \in PageIds : Exists(p) /\ Exists(p)' =>
       /\ pages'[p].restricted = pages[p].restricted
       /\ IsPrefixOf(pages[p].comments, pages'[p].comments)
       /\ IsSuffixOf(pages[p].history, pages'[p].history)]_vars

\* Nobody writes a revision of a page they may not read: "it enforces the same
\* per-space and per-page restrictions a wiki does".
OnlyReadersWrite ==
  \A p \in PageIds : Exists(p) => \A r \in RevisionsOf(p) : MayRead(r.by, pages[p])

\* A wiki that compares and stores in one step keeps the promise of
\* VersionedPages.
Version(page)  == IF page = NoPage THEN 0 ELSE page.latest.version
Seen(page)     == IF page = NoPage THEN 0 ELSE page.latest.seen

Versioned == INSTANCE VersionedPages WITH
  PageIds <- PageIds,
  First   <- [p \in PageIds |-> Version(InitialPages[p])],
  latest  <- [p \in PageIds |-> Version(pages[p])],
  basis   <- [p \in PageIds |-> Seen(pages[p])],
  retired <- removed

VersionsAreRespected ==
  Versioned!Init /\ [][backend = "atlassian" \/ Versioned!Next]_(Versioned!vars)
=============================================================================
