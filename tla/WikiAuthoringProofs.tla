------------------------- MODULE WikiAuthoringProofs -------------------------
(* Proofs about WikiAuthoring, for every set of people, pages and spaces, every
   dataset, every backend and every bound. *)
EXTENDS WikiAuthoring, SequenceTheorems, TLAPS

\* The revisions of an entry, and what is true of an entry on its own.
Revisions(page) == {page.latest} \cup {page.history[i] : i \in DOMAIN page.history}

Oldest(p) == IF InitialPages[p] = NoPage THEN 1 ELSE InitialPages[p].latest.version

\* A page without a history was never written: it is as the dataset gave it.
Whole(p, page) ==
  /\ page.history = << >> =>
       InitialPages[p] # NoPage /\ page.latest.version = InitialPages[p].latest.version
  /\ page.history # << >> =>
       /\ page.history[1] = page.latest
       /\ \A i \in 1 .. Len(page.history) - 1 :
            page.history[i].version = page.history[i + 1].version + 1
       /\ page.history[Len(page.history)].version = Oldest(p)

Later(page) == \A r \in Revisions(page) : r.started <= r.seen

Exact(page) == \A r \in Revisions(page) : r.seen = r.version - 1

PagesInv ==
  /\ \A p \in PageIds : Exists(p) =>
       /\ Whole(p, pages[p])
       /\ Numbered(p) => Later(pages[p])
       /\ backend # "atlassian" => Exact(pages[p])
  /\ \A p \in PageIds : InitialPages[p] # NoPage => Exists(p) \/ p \in removed

\* An update in flight was compared with the version it started from.
CallsInv ==
  \A c \in Calls : calls[c] # IdleCall =>
    /\ backend = "atlassian"
    /\ calls[c].draft \in DOMAIN drafts
    /\ drafts[calls[c].draft].page # None
    /\ Numbered(drafts[calls[c].draft].page) =>
         drafts[calls[c].draft].expected = calls[c].started

IInv == TypeOK /\ PagesInv /\ CallsInv

\* What a step never does to a page that stays.
Kept ==
  \A p \in PageIds : Exists(p) /\ Exists(p)' =>
    /\ pages'[p].restricted = pages[p].restricted
    /\ IsPrefixOf(pages[p].comments, pages'[p].comments)
    /\ IsSuffixOf(pages[p].history, pages'[p].history)

\* A step as VersionedPages sees it.
Respected == [backend = "atlassian" \/ Versioned!Next]_(Versioned!vars)

-----------------------------------------------------------------------------
(* Entries. *)

LEMMA EntryIsNotNoPage ==
  ASSUME NEW page \in Page
  PROVE  page # NoPage
<1>1. "latest" \in DOMAIN page
  BY DEF Page
<1>2. "latest" \notin DOMAIN NoPage
  BY DEF NoPage
<1> QED
  BY <1>1, <1>2

LEMMA ExistingPage ==
  ASSUME TypeOK, NEW p \in PageIds, Exists(p)
  PROVE  pages[p] \in Page
BY DEF TypeOK, Exists

\* A revised entry differs in its latest revision and its history.
LEMMA RevisedEntry ==
  ASSUME NEW page \in Page, NEW r \in Revision
  PROVE  LET new == Revised(page, r) IN
         /\ new \in Page
         /\ new.latest = r
         /\ new.history = Extended(page, r)
         /\ new.restricted = page.restricted
         /\ new.comments = page.comments
<1>1. Extended(page, r) \in Seq(Revision)
  BY DEF Extended, Page
<1> QED
  BY <1>1 DEF Revised, Page

\* The entries of an extended history.
LEMMA ExtendedHistory ==
  ASSUME NEW page \in Page, NEW r \in Revision
  PROVE  LET old == IF page.history # << >> THEN page.history ELSE <<page.latest>>
             new == Extended(page, r) IN
         /\ old \in Seq(Revision) /\ new \in Seq(Revision)
         /\ Len(old) > 0 /\ Len(new) = Len(old) + 1
         /\ new[1] = r
         /\ \A i \in 1 .. Len(old) : new[i + 1] = old[i]
         /\ \A i \in 2 .. Len(new) : new[i] = old[i - 1]
<1>1. page.history \in Seq(Revision) /\ page.latest \in Revision
  BY DEF Page
<1>2. CASE page.history # << >>
  <2>1. Len(page.history) > 0
    BY <1>1, <1>2
  <2> QED
    BY <1>1, <1>2, <2>1 DEF Extended
<1>3. CASE page.history = << >>
  BY <1>1, <1>3 DEF Extended
<1> QED
  BY <1>2, <1>3

LEMMA ExtendedKeeps ==
  ASSUME NEW page \in Page, NEW r \in Revision
  PROVE  IsSuffixOf(page.history, Extended(page, r))
<1> DEFINE old == page.history
           new == Extended(page, r)
<1>1. old \in Seq(Revision) /\ new \in Seq(Revision)
  BY ExtendedHistory DEF Page
<1>2. CASE old = << >>
  BY <1>1, <1>2 DEF IsSuffixOf
<1>3. CASE old # << >>
  <2>1. Len(new) = Len(old) + 1 /\ \A i \in 1 .. Len(old) : new[i + 1] = old[i]
    BY <1>3, ExtendedHistory
  <2> HIDE DEF old, new
  <2>2. \A i \in DOMAIN old : new[Len(new) - Len(old) + i] = old[i]
    <3> TAKE i \in DOMAIN old
    <3>1. i \in 1 .. Len(old) /\ Len(new) - Len(old) + i = i + 1
      BY <1>1, <2>1
    <3> QED
      BY <2>1, <3>1
  <2> QED
    BY <1>1, <2>1, <2>2 DEF IsSuffixOf, old, new
<1> QED
  BY <1>2, <1>3

LEMMA RevisedIsWhole ==
  ASSUME NEW p \in PageIds, NEW page \in Page, NEW r \in Revision,
         Whole(p, page), r.version = page.latest.version + 1
  PROVE  Whole(p, Revised(page, r))
<1> DEFINE old == IF page.history # << >> THEN page.history ELSE <<page.latest>>
           new == Extended(page, r)
<1>1. /\ old \in Seq(Revision) /\ new \in Seq(Revision)
      /\ Len(old) > 0 /\ Len(new) = Len(old) + 1
      /\ new[1] = r
      /\ \A i \in 1 .. Len(old) : new[i + 1] = old[i]
      /\ \A i \in 2 .. Len(new) : new[i] = old[i - 1]
  BY ExtendedHistory
<1>2. /\ old[1] = page.latest
      /\ \A i \in 1 .. Len(old) - 1 : old[i].version = old[i + 1].version + 1
      /\ old[Len(old)].version = Oldest(p)
  BY DEF Whole, Oldest
<1> HIDE DEF old, new
<1>3. new # << >>
  BY <1>1
<1>4. ASSUME NEW i \in 1 .. Len(new) - 1 PROVE new[i].version = new[i + 1].version + 1
  <2>1. CASE i = 1
    BY <1>1, <1>2, <2>1
  <2>2. CASE i # 1
    <3>1. i - 1 \in 1 .. Len(old) - 1
      BY <1>1, <2>2
    <3>2. new[i] = old[i - 1] /\ new[i + 1] = old[i]
      BY <1>1, <2>2
    <3>3. old[i - 1].version = old[(i - 1) + 1].version + 1
      BY <1>2, <3>1
    <3> QED
      BY <3>2, <3>3, <1>1
  <2> QED
    BY <2>1, <2>2
<1>5. new[Len(new)].version = Oldest(p)
  BY <1>1, <1>2
<1>6. Revised(page, r).latest = r /\ Revised(page, r).history = new
  BY RevisedEntry DEF new
<1> QED
  BY <1>1, <1>3, <1>4, <1>5, <1>6 DEF Whole

\* The revisions of a revised entry are the new one and the entry's own.
LEMMA RevisedRevisions ==
  ASSUME NEW page \in Page, NEW r \in Revision
  PROVE  Revisions(Revised(page, r)) \subseteq {r} \cup Revisions(page)
<1> DEFINE old == IF page.history # << >> THEN page.history ELSE <<page.latest>>
           new == Extended(page, r)
<1>1. /\ old \in Seq(Revision) /\ new \in Seq(Revision)
      /\ Len(new) = Len(old) + 1
      /\ new[1] = r
      /\ \A i \in 2 .. Len(new) : new[i] = old[i - 1]
  BY ExtendedHistory
<1>2. \A i \in 1 .. Len(old) : old[i] \in Revisions(page)
  BY DEF Revisions, Page
<1>3. Revised(page, r).latest = r /\ Revised(page, r).history = new
  BY RevisedEntry
<1> HIDE DEF old, new
<1>4. \A i \in 1 .. Len(new) : new[i] \in {r} \cup Revisions(page)
  <2> TAKE i \in 1 .. Len(new)
  <2>1. CASE i = 1
    BY <1>1, <2>1
  <2>2. CASE i # 1
    <3>1. new[i] = old[i - 1] /\ i - 1 \in 1 .. Len(old)
      BY <1>1, <2>2
    <3> QED
      BY <3>1, <1>2
  <2> QED
    BY <2>1, <2>2
<1>5. DOMAIN new = 1 .. Len(new)
  BY <1>1
<1> QED
  BY <1>3, <1>4, <1>5 DEF Revisions

-----------------------------------------------------------------------------
(* Steps that change one page. *)

\* Any of the changes below: p gets another entry, which is as good as required,
\* and nothing else of the wiki changes.
LEMMA OnePageChanges ==
  ASSUME TypeOK, PagesInv, NEW p \in PageIds, NEW page \in Page,
         pages' = [pages EXCEPT ![p] = page], removed' = removed, backend' = backend,
         p \notin removed, Whole(p, page), Numbered(p) => Later(page), backend # "atlassian" => Exact(page)
  PROVE  /\ PagesInv'
         /\ pages' \in [PageIds -> Page \cup {NoPage}]
         /\ \A q \in removed' : ~Exists(q)'
         /\ pages'[p] = page
         /\ \A q \in PageIds : q # p => pages'[q] = pages[q]
<1>1. pages \in [PageIds -> Page \cup {NoPage}]
  BY DEF TypeOK
<1>2. pages'[p] = page /\ \A q \in PageIds : q # p => pages'[q] = pages[q]
  BY <1>1
<1>3. Exists(p)'
  BY <1>2, EntryIsNotNoPage DEF Exists
<1>4. PagesInv'
  BY <1>2, <1>3 DEF PagesInv, Exists, Numbered
<1>5. pages' \in [PageIds -> Page \cup {NoPage}]
  BY <1>1
<1>6. \A q \in removed' : ~Exists(q)'
  BY <1>2 DEF Exists, TypeOK
<1> QED
  BY <1>2, <1>4, <1>5, <1>6

\* A page that is as before is kept.
LEMMA Prefixes ==
  ASSUME NEW S, NEW s \in Seq(S)
  PROVE  IsPrefixOf(s, s) /\ IsSuffixOf(s, s)
BY DEF IsPrefixOf, IsSuffixOf

LEMMA SamePageIsKept ==
  ASSUME TypeOK, NEW p \in PageIds, Exists(p), pages'[p] = pages[p]
  PROVE  /\ pages'[p].restricted = pages[p].restricted
         /\ IsPrefixOf(pages[p].comments, pages'[p].comments)
         /\ IsSuffixOf(pages[p].history, pages'[p].history)
<1>1. pages[p] \in Page
  BY ExistingPage
<1>2. pages[p].comments \in Seq(Comment) /\ pages[p].history \in Seq(Revision)
  BY <1>1 DEF Page
<1> QED
  BY <1>2, Prefixes

\* Write: the version goes up by one, and the page keeps the rest.
LEMMA Writing ==
  ASSUME TypeOK, PagesInv, NEW p \in PageIds, NEW u \in Users, Exists(p),
         NEW seen \in Nat, NEW started \in Nat, Numbered(p) => started <= seen,
         backend # "atlassian" => seen = pages[p].latest.version,
         Write(u, p, seen, started), removed' = removed, backend' = backend
  PROVE  /\ PagesInv'
         /\ pages' \in [PageIds -> Page \cup {NoPage}]
         /\ \A q \in removed' : ~Exists(q)'
         /\ Kept
         /\ Respected
<1> DEFINE r == [version |-> pages[p].latest.version + 1, by |-> u,
                 seen |-> seen, started |-> started]
           new == Revised(pages[p], r)
<1>1. pages[p] \in Page
  BY ExistingPage
<1>2. r \in Revision
  BY <1>1 DEF Page, Revision
<1>3. pages' = [pages EXCEPT ![p] = new]
  BY <1>1 DEF Write
<1>4. Whole(p, pages[p]) /\ (Numbered(p) => Later(pages[p])) /\ (backend # "atlassian" => Exact(pages[p]))
  BY DEF PagesInv
<1>5. r.version = pages[p].latest.version + 1 /\ r.seen = seen /\ r.started = started
  OBVIOUS
<1>6. /\ new \in Page
      /\ new.latest = r
      /\ new.history = Extended(pages[p], r)
      /\ new.restricted = pages[p].restricted
      /\ new.comments = pages[p].comments
  BY <1>1, <1>2, RevisedEntry
<1>7. Revisions(new) \subseteq {r} \cup Revisions(pages[p])
  BY <1>1, <1>2, RevisedRevisions
<1>8. Whole(p, new)
  BY <1>1, <1>2, <1>4, <1>5, RevisedIsWhole
<1>9. pages[p].latest.version \in Nat
  BY <1>1 DEF Page, Revision
<1> HIDE DEF new, r
<1>10. Numbered(p) => Later(new)
  BY <1>4, <1>5, <1>7 DEF Later
<1>11. backend # "atlassian" => Exact(new)
  BY <1>4, <1>5, <1>7, <1>9 DEF Exact
<1>12. p \notin removed
  BY DEF TypeOK
<1>13. /\ PagesInv'
       /\ pages' \in [PageIds -> Page \cup {NoPage}]
       /\ \A q \in removed' : ~Exists(q)'
       /\ pages'[p] = new
       /\ \A q \in PageIds : q # p => pages'[q] = pages[q]
  BY <1>3, <1>6, <1>8, <1>10, <1>11, <1>12, OnePageChanges
<1>14. IsSuffixOf(pages[p].history, new.history)
  BY <1>1, <1>2, <1>6, ExtendedKeeps
<1>15. IsPrefixOf(pages[p].comments, new.comments)
  BY <1>1, <1>6, Prefixes DEF Page
<1>16. Kept
  <2> SUFFICES ASSUME NEW q \in PageIds, Exists(q), Exists(q)'
               PROVE  /\ pages'[q].restricted = pages[q].restricted
                      /\ IsPrefixOf(pages[q].comments, pages'[q].comments)
                      /\ IsSuffixOf(pages[q].history, pages'[q].history)
    BY DEF Kept
  <2>1. CASE q = p
    BY <2>1, <1>6, <1>13, <1>14, <1>15
  <2>2. CASE q # p
    BY <2>2, <1>13, SamePageIsKept
  <2> QED
    BY <2>1, <2>2
<1>17. Respected
  <2>1. CASE backend = "atlassian"
    BY <2>1 DEF Respected
  <2>2. CASE backend # "atlassian"
    <3> DEFINE latest    == [q \in PageIds |-> Version(pages[q])]
               latestN   == [q \in PageIds |-> Version(pages'[q])]
               basis     == [q \in PageIds |-> Seen(pages[q])]
               basisN    == [q \in PageIds |-> Seen(pages'[q])]
    <3>1. new # NoPage /\ pages[p] # NoPage
      BY <1>1, <1>6, EntryIsNotNoPage
    <3>2. latest[p] > 0
      BY <3>1, <1>9, <1>1, <1>4, <2>2 DEF Version, Exact, Revisions, Page, Revision
    <3>3. latestN = [latest EXCEPT ![p] = @ + 1]
      BY <3>1, <1>5, <1>6, <1>13 DEF Version
    <3>4. basisN = [basis EXCEPT ![p] = latest[p]]
      BY <3>1, <1>5, <1>6, <1>13, <2>2 DEF Version, Seen
    <3>5. Versioned!Write(p)
      BY <3>2, <3>3, <3>4 DEF Versioned!Write
    <3> QED
      BY <3>5 DEF Respected, Versioned!Next
  <2> QED
    BY <2>1, <2>2
<1> QED
  BY <1>13, <1>16, <1>17

\* create_page: a fresh identifier gets its first revision.
LEMMA Creating ==
  ASSUME IInv, NEW d \in DOMAIN drafts, NEW p \in PageIds, CreatePage(d, p)
  PROVE  /\ PagesInv'
         /\ pages' \in [PageIds -> Page \cup {NoPage}]
         /\ \A q \in removed' : ~Exists(q)'
         /\ Kept
         /\ Respected
<1> DEFINE r   == [version |-> 1, by |-> drafts[d].owner, seen |-> 0, started |-> 0]
           new == [space |-> drafts[d].space, latest |-> r, restricted |-> {},
                   parent |-> drafts[d].parent, comments |-> << >>, history |-> <<r>>]
<1> USE DEF IInv
<1>1. drafts[d] \in Draft
  BY DEF TypeOK
<1>2. r \in Revision
  BY <1>1 DEF Draft, Revision
<1>3. new \in Page
  BY <1>1, <1>2 DEF Draft, Page
<1>4. /\ pages' = [pages EXCEPT ![p] = new]
      /\ removed' = removed /\ backend' = backend
      /\ p \notin removed /\ ~Exists(p)
  BY DEF CreatePage, Fresh
<1>5. new.latest = r /\ new.history = <<r>>
  OBVIOUS
<1>6. r.version = 1 /\ r.seen = 0 /\ r.started = 0
  OBVIOUS
<1> HIDE DEF new, r
<1>7. Revisions(new) = {r}
  BY <1>5 DEF Revisions
<1>8. InitialPages[p] = NoPage
  BY <1>4 DEF PagesInv
<1>9. Whole(p, new)
  BY <1>5, <1>6, <1>8 DEF Whole, Oldest
<1>10. Later(new) /\ Exact(new)
  BY <1>6, <1>7 DEF Later, Exact
<1>11. /\ PagesInv'
       /\ pages' \in [PageIds -> Page \cup {NoPage}]
       /\ \A q \in removed' : ~Exists(q)'
       /\ pages'[p] = new
       /\ \A q \in PageIds : q # p => pages'[q] = pages[q]
  BY <1>3, <1>4, <1>9, <1>10, OnePageChanges
<1>12. Kept
  BY <1>4, <1>11, SamePageIsKept DEF Kept
<1>13. Respected
  <2> DEFINE latest  == [q \in PageIds |-> Version(pages[q])]
             latestN == [q \in PageIds |-> Version(pages'[q])]
             basis   == [q \in PageIds |-> Seen(pages[q])]
             basisN  == [q \in PageIds |-> Seen(pages'[q])]
  <2>1. new # NoPage /\ pages[p] = NoPage
    BY <1>3, <1>4, EntryIsNotNoPage DEF Exists
  <2>2. latest[p] = 0
    BY <2>1 DEF Version
  <2>3. latestN = [latest EXCEPT ![p] = 1]
    BY <2>1, <1>5, <1>6, <1>11 DEF Version
  <2>4. basisN = [basis EXCEPT ![p] = 0]
    BY <2>1, <1>5, <1>6, <1>11 DEF Seen
  <2>5. Versioned!Add(p)
    BY <1>4, <2>2, <2>3, <2>4 DEF Versioned!Add
  <2> QED
    BY <2>5 DEF Respected, Versioned!Next
<1> QED
  BY <1>11, <1>12, <1>13

\* delete_page: the page goes, and its identifier is retired.
LEMMA Deleting ==
  ASSUME IInv, NEW u \in Users, NEW p \in PageIds, DeletePage(u, p)
  PROVE  /\ PagesInv'
         /\ pages' \in [PageIds -> Page \cup {NoPage}]
         /\ \A q \in removed' : ~Exists(q)'
         /\ Kept
         /\ Respected
<1> USE DEF IInv
<1>1. /\ pages' = [pages EXCEPT ![p] = NoPage]
      /\ removed' = removed \cup {p} /\ backend' = backend
      /\ Exists(p)
  BY DEF DeletePage, Readable
<1>2. pages \in [PageIds -> Page \cup {NoPage}]
  BY DEF TypeOK
<1>3. pages'[p] = NoPage /\ \A q \in PageIds : q # p => pages'[q] = pages[q]
  BY <1>1, <1>2
<1>4. pages' \in [PageIds -> Page \cup {NoPage}]
  BY <1>1, <1>2
<1>5. PagesInv'
  BY <1>1, <1>3 DEF PagesInv, Exists, Numbered
<1>6. \A q \in removed' : ~Exists(q)'
  BY <1>1, <1>3 DEF TypeOK, Exists
<1>7. Kept
  BY <1>3, SamePageIsKept DEF Kept, Exists
<1>8. Respected
  <2>1. CASE backend = "atlassian"
    BY <2>1 DEF Respected
  <2>2. CASE backend # "atlassian"
    <3> DEFINE latest  == [q \in PageIds |-> Version(pages[q])]
               latestN == [q \in PageIds |-> Version(pages'[q])]
               basis   == [q \in PageIds |-> Seen(pages[q])]
               basisN  == [q \in PageIds |-> Seen(pages'[q])]
    <3>1. pages[p] \in Page /\ pages[p] # NoPage
      BY <1>1, ExistingPage DEF Exists
    <3>2. latest[p] > 0
      BY <3>1, <1>1, <2>2 DEF Version, PagesInv, Exact, Revisions, Page, Revision
    <3>3. latestN = [latest EXCEPT ![p] = 0]
      BY <1>3 DEF Version
    <3>4. basisN = [basis EXCEPT ![p] = 0]
      BY <1>3 DEF Seen
    <3>5. Versioned!Remove(p)
      BY <1>1, <3>2, <3>3, <3>4 DEF Versioned!Remove
    <3> QED
      BY <3>5 DEF Respected, Versioned!Next
  <2> QED
    BY <2>1, <2>2
<1> QED
  BY <1>4, <1>5, <1>6, <1>7, <1>8

\* add_comment: the comment joins the others, and the rest stays.
LEMMA Commenting ==
  ASSUME IInv, NEW u \in Users, NEW p \in PageIds, NEW parent \in 0 .. MaxComments,
         AddComment(u, p, parent)
  PROVE  /\ PagesInv'
         /\ pages' \in [PageIds -> Page \cup {NoPage}]
         /\ \A q \in removed' : ~Exists(q)'
         /\ Kept
         /\ Respected
<1> DEFINE comment == [id |-> Len(pages[p].comments) + 1, parent |-> parent]
           new     == [pages[p] EXCEPT !.comments = Append(@, comment)]
<1> USE DEF IInv
<1>1. Exists(p) /\ removed' = removed /\ backend' = backend
  BY DEF AddComment, Readable
<1>2. pages[p] \in Page
  BY <1>1, ExistingPage
<1>3. pages[p].comments \in Seq(Comment)
  BY <1>2 DEF Page
<1>4. comment \in Comment
  BY <1>3 DEF Comment
<1>5. Append(pages[p].comments, comment) \in Seq(Comment)
  BY <1>3, <1>4
<1>6. /\ new \in Page
      /\ new.latest = pages[p].latest
      /\ new.history = pages[p].history
      /\ new.restricted = pages[p].restricted
      /\ new.comments = Append(pages[p].comments, comment)
  BY <1>2, <1>5 DEF Page
<1>7. pages' = [pages EXCEPT ![p] = new]
  BY DEF AddComment
<1>8. IsPrefixOf(pages[p].comments, Append(pages[p].comments, comment))
  BY <1>3, <1>4 DEF IsPrefixOf
<1> HIDE DEF new, comment
<1>9. Revisions(new) = Revisions(pages[p])
  BY <1>6 DEF Revisions
<1>10. /\ Whole(p, new)
       /\ Numbered(p) => Later(new)
       /\ backend # "atlassian" => Exact(new)
  BY <1>1, <1>6, <1>9 DEF PagesInv, Whole, Later, Exact
<1>11. p \notin removed
  BY <1>1 DEF TypeOK
<1>12. /\ PagesInv'
       /\ pages' \in [PageIds -> Page \cup {NoPage}]
       /\ \A q \in removed' : ~Exists(q)'
       /\ pages'[p] = new
       /\ \A q \in PageIds : q # p => pages'[q] = pages[q]
  BY <1>1, <1>6, <1>7, <1>10, <1>11, OnePageChanges
<1>13. IsSuffixOf(pages[p].history, new.history)
  BY <1>2, <1>6, Prefixes DEF Page
<1>14. Kept
  <2> SUFFICES ASSUME NEW q \in PageIds, Exists(q), Exists(q)'
               PROVE  /\ pages'[q].restricted = pages[q].restricted
                      /\ IsPrefixOf(pages[q].comments, pages'[q].comments)
                      /\ IsSuffixOf(pages[q].history, pages'[q].history)
    BY DEF Kept
  <2>1. CASE q = p
    BY <2>1, <1>6, <1>8, <1>12, <1>13
  <2>2. CASE q # p
    BY <2>2, <1>12, SamePageIsKept
  <2> QED
    BY <2>1, <2>2
<1>15. Respected
  <2>1. new # NoPage /\ pages[p] # NoPage
    BY <1>2, <1>6, EntryIsNotNoPage
  <2>2. \A q \in PageIds : Version(pages'[q]) = Version(pages[q]) /\ Seen(pages'[q]) = Seen(pages[q])
    BY <2>1, <1>6, <1>12 DEF Version, Seen
  <2>3. UNCHANGED Versioned!vars
    BY <2>2, <1>1 DEF Versioned!vars
  <2> QED
    BY <2>3 DEF Respected
<1> QED
  BY <1>12, <1>14, <1>15

\* A step that leaves the wiki alone.
LEMMA Untouched ==
  ASSUME IInv, UNCHANGED <<backend, pages, removed>>
  PROVE  /\ PagesInv'
         /\ pages' \in [PageIds -> Page \cup {NoPage}]
         /\ \A q \in removed' : ~Exists(q)'
         /\ Kept
         /\ Respected
<1> USE DEF IInv
<1>1. PagesInv'
  BY DEF PagesInv, Exists, Numbered
<1>2. Kept
  BY SamePageIsKept DEF Kept
<1>3. Respected
  BY DEF Respected, Versioned!vars
<1> QED
  BY <1>1, <1>2, <1>3 DEF TypeOK, Exists

-----------------------------------------------------------------------------
(* Drafts and updates in flight. *)

\* A step that leaves drafts and updates alone.
LEMMA CallsUntouched ==
  ASSUME IInv, UNCHANGED <<backend, drafts, calls>>
  PROVE  CallsInv'
BY DEF IInv, CallsInv, Numbered

\* A new draft joins the others.
LEMMA Drafting ==
  ASSUME IInv, NEW draft \in Draft, drafts' = Append(drafts, draft),
         UNCHANGED <<backend, pages, removed, calls>>
  PROVE  IInv' /\ Kept /\ Respected
<1> USE DEF IInv
<1>1. drafts \in Seq(Draft)
  BY DEF TypeOK
<1>2. /\ drafts' \in Seq(Draft)
      /\ Len(drafts') = Len(drafts) + 1
      /\ \A i \in DOMAIN drafts : i \in DOMAIN drafts' /\ drafts'[i] = drafts[i]
  BY <1>1
<1>3. 0 .. Len(drafts) \subseteq 0 .. Len(drafts')
  BY <1>1, <1>2
<1>4. TypeOK'
  BY <1>2, <1>3 DEF TypeOK, Exists
<1>5. CallsInv'
  BY <1>2 DEF CallsInv, Numbered
<1> QED
  BY <1>4, <1>5, Untouched

\* The two halves of an Atlassian update.
LEMMA Checking ==
  ASSUME IInv, NEW c \in Calls, NEW d \in DOMAIN drafts, CheckVersion(c, d)
  PROVE  IInv' /\ Kept /\ Respected
<1> DEFINE call == [draft |-> d, started |-> pages[drafts[d].page].latest.version]
<1> USE DEF IInv
<1>1. drafts \in Seq(Draft) /\ d \in 0 .. Len(drafts)
  BY DEF TypeOK
<1>2. drafts[d].page \in PageIds /\ Exists(drafts[d].page)
  <2>1. drafts[d] \in Draft
    BY DEF TypeOK
  <2> QED
    BY <2>1 DEF CheckVersion, Readable, Draft
<1>3. pages[drafts[d].page] \in Page
  BY <1>2, ExistingPage
<1>4. call \in [draft : 0 .. Len(drafts), started : Nat]
  BY <1>1, <1>3 DEF Page, Revision
<1>5. /\ calls' = [calls EXCEPT ![c] = call]
      /\ UNCHANGED <<backend, pages, removed, drafts>>
      /\ backend = "atlassian" /\ drafts[d].page # None
      /\ Numbered(drafts[d].page) => drafts[d].expected = call.started
  BY DEF CheckVersion, Current, VersionOf
<1>6. call.draft = d
  OBVIOUS
<1> HIDE DEF call
<1>7. TypeOK'
  BY <1>4, <1>5 DEF TypeOK, Exists
<1>8. CallsInv'
  BY <1>5, <1>6 DEF CallsInv, TypeOK, Numbered
<1> QED
  BY <1>5, <1>7, <1>8, Untouched

LEMMA Losing ==
  ASSUME IInv, NEW c \in Calls, calls' = [calls EXCEPT ![c] = IdleCall],
         UNCHANGED <<backend, drafts>>
  PROVE  CallsInv' /\ calls' \in [Calls -> [draft : 0 .. Len(drafts'), started : Nat]]
<1> USE DEF IInv
<1>1. drafts \in Seq(Draft) /\ calls \in [Calls -> [draft : 0 .. Len(drafts), started : Nat]]
  BY DEF TypeOK
<1>2. IdleCall \in [draft : 0 .. Len(drafts), started : Nat]
  BY <1>1 DEF IdleCall
<1>3. calls' \in [Calls -> [draft : 0 .. Len(drafts), started : Nat]]
  BY <1>1, <1>2
<1>4. CallsInv'
  BY <1>1 DEF CallsInv, Numbered
<1> QED
  BY <1>3, <1>4

-----------------------------------------------------------------------------
(* The specification. *)

LEMMA InitInv == Init => IInv
<1> SUFFICES ASSUME Init PROVE IInv
  OBVIOUS
<1> USE DEF Init
<1>1. drafts \in Seq(Draft) /\ Len(drafts) = 0
  OBVIOUS
<1>2. IdleCall \in [draft : 0 .. Len(drafts), started : Nat]
  BY <1>1 DEF IdleCall
<1>3. TypeOK
  BY <1>1, <1>2, PagesAssumption DEF TypeOK
<1>4. CallsInv
  BY DEF CallsInv
<1>5. ASSUME NEW p \in PageIds, Exists(p)
      PROVE  Whole(p, pages[p]) /\ Later(pages[p]) /\ Exact(pages[p])
  <2>1. /\ InitialPages[p] # NoPage /\ pages[p] = InitialPages[p]
        /\ pages[p].latest.seen = pages[p].latest.version - 1
        /\ pages[p].latest.started <= pages[p].latest.seen
        /\ pages[p].history \in {<< >>, <<pages[p].latest>>}
    BY <1>5, PagesAssumption DEF Exists
  <2>2. Revisions(pages[p]) = {pages[p].latest}
    BY <2>1 DEF Revisions
  <2>3. Whole(p, pages[p])
    <3>1. CASE pages[p].history = << >>
      BY <2>1, <3>1 DEF Whole
    <3>2. CASE pages[p].history = <<pages[p].latest>>
      BY <2>1, <3>2 DEF Whole, Oldest
    <3> QED
      BY <2>1, <3>1, <3>2
  <2> QED
    BY <2>1, <2>2, <2>3 DEF Later, Exact
<1>6. PagesInv
  BY <1>5 DEF PagesInv, Exists
<1> QED
  BY <1>3, <1>4, <1>6 DEF IInv

LEMMA Step == IInv /\ [Next]_vars => IInv' /\ [Kept]_vars /\ Respected
<1> SUFFICES ASSUME IInv, [Next]_vars PROVE IInv' /\ Kept /\ Respected
  OBVIOUS
<1> USE DEF IInv
<1>1. ASSUME NEW u \in Users, NEW p \in PageIds, DraftRevision(u, p)
      PROVE  IInv' /\ Kept /\ Respected
  <2> DEFINE draft == [owner |-> u, page |-> p, expected |-> VersionOf(p),
                       space |-> pages[p].space, parent |-> pages[p].parent]
  <2>1. pages[p] \in Page
    BY <1>1, ExistingPage DEF DraftRevision, Readable
  <2>2. draft \in Draft
    BY <2>1 DEF Draft, Page, Revision, VersionOf
  <2> QED
    BY <1>1, <2>2, Drafting DEF DraftRevision
<1>2. ASSUME NEW u \in Users, NEW space \in Spaces, NEW parent \in PageIds \cup {None},
             DraftNewPage(u, space, parent)
      PROVE  IInv' /\ Kept /\ Respected
  <2> DEFINE draft == [owner |-> u, page |-> None, expected |-> 0,
                       space |-> space, parent |-> parent]
  <2>1. draft \in Draft
    BY DEF Draft
  <2> QED
    BY <1>2, <2>1, Drafting DEF DraftNewPage
<1>3. ASSUME NEW d \in DOMAIN drafts, NEW p \in PageIds, CreatePage(d, p)
      PROVE  IInv' /\ Kept /\ Respected
  <2>1. UNCHANGED <<backend, removed, drafts, calls>>
    BY <1>3 DEF CreatePage
  <2>2. /\ PagesInv' /\ Kept /\ Respected
        /\ pages' \in [PageIds -> Page \cup {NoPage}]
        /\ \A q \in removed' : ~Exists(q)'
    BY <1>3, Creating
  <2> QED
    BY <2>1, <2>2, CallsUntouched DEF TypeOK
<1>4. ASSUME NEW d \in DOMAIN drafts, UpdatePage(d)
      PROVE  IInv' /\ Kept /\ Respected
  <2>1. drafts[d] \in Draft
    BY DEF TypeOK
  <2>2. UNCHANGED <<backend, removed, drafts, calls>>
    BY <1>4 DEF UpdatePage
  <2> DEFINE p == drafts[d].page
             u == drafts[d].owner
  <2>3. p \in PageIds /\ u \in Users /\ Exists(p)
    BY <1>4, <2>1 DEF UpdatePage, Readable, Draft
  <2>4. pages[p].latest.version \in Nat
    BY <2>3, ExistingPage DEF Page, Revision
  <2>5. /\ drafts[d].expected = pages[p].latest.version
        /\ Write(u, p, drafts[d].expected, pages[p].latest.version)
    BY <1>4 DEF UpdatePage, Current, VersionOf, Numbered
  <2> HIDE DEF p, u
  <2>6. /\ PagesInv' /\ Kept /\ Respected
        /\ pages' \in [PageIds -> Page \cup {NoPage}]
        /\ \A q \in removed' : ~Exists(q)'
    BY <2>2, <2>3, <2>4, <2>5, Writing
  <2> QED
    BY <2>2, <2>6, CallsUntouched DEF TypeOK
<1>5. ASSUME NEW c \in Calls, NEW d \in DOMAIN drafts, CheckVersion(c, d)
      PROVE  IInv' /\ Kept /\ Respected
  BY <1>5, Checking
<1>6. ASSUME NEW c \in Calls, WriteChecked(c)
      PROVE  IInv' /\ Kept /\ Respected
  <2> DEFINE draft == drafts[calls[c].draft]
             p     == draft.page
  <2>1. /\ calls[c] # IdleCall
        /\ calls' = [calls EXCEPT ![c] = IdleCall]
        /\ UNCHANGED <<backend, removed, drafts>>
        /\ Readable(draft.owner, p)
        /\ Write(draft.owner, p, draft.expected, calls[c].started)
    BY <1>6 DEF WriteChecked
  <2>2. /\ backend = "atlassian"
        /\ calls[c].draft \in DOMAIN drafts
        /\ draft.page # None
        /\ Numbered(p) => draft.expected = calls[c].started
    BY <2>1 DEF CallsInv
  <2>3. draft \in Draft
    BY <2>2 DEF TypeOK
  <2>4. /\ p \in PageIds /\ Exists(p)
        /\ draft.owner \in Users /\ draft.expected \in Nat
    BY <2>1, <2>2, <2>3 DEF Readable, Draft
  <2>5. calls[c].started \in Nat
    BY DEF TypeOK
  <2> HIDE DEF p, draft
  <2>6. Numbered(p) => calls[c].started <= draft.expected
    BY <2>2, <2>4, <2>5
  <2>7. /\ PagesInv' /\ Kept /\ Respected
        /\ pages' \in [PageIds -> Page \cup {NoPage}]
        /\ \A q \in removed' : ~Exists(q)'
    BY <2>1, <2>2, <2>4, <2>5, <2>6, Writing
  <2> QED
    BY <2>1, <2>7, Losing DEF TypeOK
<1>7. ASSUME NEW c \in Calls, LoseCall(c)
      PROVE  IInv' /\ Kept /\ Respected
  <2>1. UNCHANGED <<backend, pages, removed, drafts>> /\ calls' = [calls EXCEPT ![c] = IdleCall]
    BY <1>7 DEF LoseCall
  <2> QED
    BY <2>1, Losing, Untouched DEF TypeOK
<1>8. ASSUME NEW u \in Users, NEW p \in PageIds, DeletePage(u, p)
      PROVE  IInv' /\ Kept /\ Respected
  <2>1. UNCHANGED <<backend, drafts, calls>> /\ removed' = removed \cup {p}
    BY <1>8 DEF DeletePage
  <2>2. /\ PagesInv' /\ Kept /\ Respected
        /\ pages' \in [PageIds -> Page \cup {NoPage}]
        /\ \A q \in removed' : ~Exists(q)'
    BY <1>8, Deleting
  <2> QED
    BY <2>1, <2>2, CallsUntouched DEF TypeOK
<1>9. ASSUME NEW u \in Users, NEW p \in PageIds, NEW parent \in 0 .. MaxComments,
             AddComment(u, p, parent)
      PROVE  IInv' /\ Kept /\ Respected
  <2>1. UNCHANGED <<backend, removed, drafts, calls>>
    BY <1>9 DEF AddComment
  <2>2. /\ PagesInv' /\ Kept /\ Respected
        /\ pages' \in [PageIds -> Page \cup {NoPage}]
        /\ \A q \in removed' : ~Exists(q)'
    BY <1>9, Commenting
  <2> QED
    BY <2>1, <2>2, CallsUntouched DEF TypeOK
<1>10. ASSUME NEW u \in Users, NEW p \in PageIds, ColleagueEdit(u, p)
       PROVE  IInv' /\ Kept /\ Respected
  <2>1. /\ UNCHANGED <<backend, removed, drafts, calls>>
        /\ Exists(p)
        /\ Write(u, p, pages[p].latest.version, pages[p].latest.version)
    BY <1>10 DEF ColleagueEdit
  <2>2. pages[p].latest.version \in Nat
    BY <2>1, ExistingPage DEF Page, Revision
  <2>3. /\ PagesInv' /\ Kept /\ Respected
        /\ pages' \in [PageIds -> Page \cup {NoPage}]
        /\ \A q \in removed' : ~Exists(q)'
    BY <2>1, <2>2, Writing
  <2> QED
    BY <2>1, <2>3, CallsUntouched DEF TypeOK
<1>11. CASE UNCHANGED vars
  BY <1>11, Untouched, CallsUntouched DEF vars, TypeOK
<1> QED
  BY <1>1, <1>2, <1>3, <1>4, <1>5, <1>6, <1>7, <1>8, <1>9, <1>10, <1>11 DEF Next

LEMMA Invariant == Spec => []IInv
<1>1. Init => IInv
  BY InitInv
<1>2. IInv /\ [Next]_vars => IInv'
  BY Step
<1> QED
  BY <1>1, <1>2, PTL DEF Spec

-----------------------------------------------------------------------------
(* TypeOK: entries, drafts and updates in flight keep their types, and an
   update in flight never brings a deleted page back. *)
THEOREM TypeCorrect == Spec => []TypeOK
<1>1. IInv => TypeOK
  BY DEF IInv
<1> QED
  BY <1>1, Invariant, PTL

(* NothingIsOverwritten: where versions are compared and the page stored in one
   step, every revision replaced the version its author had in front of them. *)
THEOREM NoLostUpdates == Spec => []NothingIsOverwritten
<1>1. IInv => NothingIsOverwritten
  BY DEF IInv, PagesInv, Exact, Revisions, NothingIsOverwritten, RevisionsOf
<1> QED
  BY <1>1, Invariant, PTL

(* EarlierEditsSurvive: the Atlassian dialect, which compares before it writes,
   never loses an edit finished before the update began, on a page the server
   gives a version of (_version_of). *)
THEOREM FinishedEditsSurvive == Spec => []EarlierEditsSurvive
<1>1. IInv => EarlierEditsSurvive
  <2> SUFFICES ASSUME IInv, NEW p \in PageIds, Exists(p), Numbered(p), NEW r \in RevisionsOf(p)
               PROVE  r.seen >= r.started
    BY DEF EarlierEditsSurvive
  <2>1. pages[p] \in Page /\ Later(pages[p])
    BY ExistingPage DEF IInv, PagesInv
  <2>2. r \in Revision
    BY <2>1 DEF RevisionsOf, Page
  <2>3. r.started <= r.seen
    BY <2>1 DEF Later, Revisions, RevisionsOf
  <2> QED
    BY <2>2, <2>3 DEF Revision
<1> QED
  BY <1>1, Invariant, PTL

(* HistoryIsWhole: _extended_history loses no revision, repeats none, and gives
   a page that came without a history the revision it had. *)
THEOREM HistoriesAreWhole == Spec => []HistoryIsWhole
<1>1. IInv => HistoryIsWhole
  BY DEF IInv, PagesInv, Whole, Oldest, HistoryIsWhole
<1> QED
  BY <1>1, Invariant, PTL

(* WritesKeepTheRest: update_page and add_comment build a new entry and lose
   neither restriction, comments nor recorded revisions. *)
THEOREM NothingElseIsLost == Spec => WritesKeepTheRest
<1>1. IInv /\ [Next]_vars =>
        [\A p \in PageIds : Exists(p) /\ Exists(p)' =>
           /\ pages'[p].restricted = pages[p].restricted
           /\ IsPrefixOf(pages[p].comments, pages'[p].comments)
           /\ IsSuffixOf(pages[p].history, pages'[p].history)]_vars
  BY Step DEF Kept
<1> QED
  BY <1>1, Invariant, PTL DEF Spec, WritesKeepTheRest

(* VersionsAreRespected: the wiki of the reference server, and the one in
   memory, implement VersionedPages. *)
THEOREM ImplementsVersionedPages == Spec => VersionsAreRespected
<1>1. Init => Versioned!Init
  <2> SUFFICES ASSUME Init PROVE Versioned!Init
    OBVIOUS
  <2>1. \A p \in PageIds : InitialPages[p] # NoPage =>
          /\ InitialPages[p].latest.version # 0
          /\ InitialPages[p].latest.seen = InitialPages[p].latest.version - 1
    BY PagesAssumption
  <2>2. \A p \in PageIds :
          Seen(pages[p]) = IF Version(InitialPages[p]) = 0 THEN 0 ELSE Version(InitialPages[p]) - 1
    BY <2>1 DEF Init, Version, Seen
  <2> QED
    BY <2>2 DEF Init, Versioned!Init
<1>2. IInv /\ [Next]_vars => [backend = "atlassian" \/ Versioned!Next]_(Versioned!vars)
  BY Step DEF Respected
<1> QED
  BY <1>1, <1>2, Invariant, PTL DEF Spec, VersionsAreRespected
-----------------------------------------------------------------------------
(* What a step makes of an entry. *)

\* The entry of p is as it was, or is revised by one who may read it, or has
\* another comment, or is the first of a new page.
Same(p) == pages'[p] = pages[p]

Revises(p) ==
  \E r \in Revision : MayRead(r.by, pages[p]) /\ pages'[p] = Revised(pages[p], r)

Comments(p) ==
  \E parent \in Nat :
    /\ KnownComment(pages[p], parent)
    /\ pages'[p] = [pages[p] EXCEPT !.comments = Append(@, [id |-> Len(@) + 1, parent |-> parent])]

Creates(p) ==
  /\ pages'[p].comments = << >> /\ pages'[p].restricted = {}
  /\ \A r \in Revisions(pages'[p]) : MayCreateIn(r.by, pages'[p].space)

LEMMA WritingRevises ==
  ASSUME IInv, NEW p \in PageIds, NEW u \in Users, Exists(p), MayRead(u, pages[p]),
         NEW seen \in Nat, NEW started \in Nat, Write(u, p, seen, started)
  PROVE  Revises(p) /\ \A q \in PageIds : q # p => Same(q)
<1> DEFINE r == [version |-> pages[p].latest.version + 1, by |-> u,
                 seen |-> seen, started |-> started]
<1>1. TypeOK
  BY DEF IInv
<1>2. pages[p] \in Page
  BY <1>1, ExistingPage
<1>3. r \in Revision /\ r.by = u
  BY <1>2 DEF Page, Revision
<1>4. pages' = [pages EXCEPT ![p] = Revised(pages[p], r)] /\ pages \in [PageIds -> Page \cup {NoPage}]
  BY <1>1 DEF Write, TypeOK
<1> HIDE DEF r
<1> QED
  BY <1>3, <1>4 DEF Revises, Same

LEMMA EntriesChange ==
  ASSUME IInv, [Next]_vars, NEW q \in PageIds, Exists(q)'
  PROVE  \/ Exists(q) /\ (Same(q) \/ Revises(q) \/ Comments(q))
         \/ Creates(q)
<1>1. TypeOK /\ CallsInv /\ pages \in [PageIds -> Page \cup {NoPage}] /\ drafts \in Seq(Draft)
  BY DEF IInv, TypeOK
<1>2. CASE Same(q)
  BY <1>2 DEF Same, Exists
<1>3. ASSUME NEW d \in DOMAIN drafts, NEW p \in PageIds, CreatePage(d, p), p = q
      PROVE  Creates(q)
  <2> DEFINE r   == [version |-> 1, by |-> drafts[d].owner, seen |-> 0, started |-> 0]
             new == [space |-> drafts[d].space, latest |-> r, restricted |-> {},
                     parent |-> drafts[d].parent, comments |-> << >>, history |-> <<r>>]
  <2>1. pages'[q] = new /\ MayCreateIn(r.by, new.space)
    BY <1>1, <1>3 DEF CreatePage
  <2>2. /\ new.latest = r /\ new.history = <<r>>
        /\ new.comments = << >> /\ new.restricted = {}
    OBVIOUS
  <2> HIDE DEF new, r
  <2>3. Revisions(new) = {r}
    BY <2>2 DEF Revisions
  <2> QED
    BY <2>1, <2>2, <2>3 DEF Creates
<1>4. ASSUME NEW d \in DOMAIN drafts, UpdatePage(d), ~Same(q)
      PROVE  Exists(q) /\ Revises(q)
  <2>1. drafts[d] \in Draft
    BY <1>1
  <2>2. /\ drafts[d].page \in PageIds /\ drafts[d].owner \in Users /\ drafts[d].expected \in Nat
        /\ Exists(drafts[d].page) /\ MayRead(drafts[d].owner, pages[drafts[d].page])
        /\ Write(drafts[d].owner, drafts[d].page, drafts[d].expected, pages[drafts[d].page].latest.version)
    BY <1>4, <2>1 DEF UpdatePage, Readable, Draft
  <2>3. pages[drafts[d].page].latest.version \in Nat
    BY <1>1, <2>2, ExistingPage DEF Page, Revision
  <2>4. Revises(drafts[d].page) /\ \A o \in PageIds : o # drafts[d].page => Same(o)
    BY <2>2, <2>3, WritingRevises
  <2> QED
    BY <1>4, <2>2, <2>4
<1>5. ASSUME NEW c \in Calls, WriteChecked(c), ~Same(q)
      PROVE  Exists(q) /\ Revises(q)
  <2> DEFINE draft == drafts[calls[c].draft]
  <2>1. /\ calls[c].draft \in DOMAIN drafts /\ draft.page # None
        /\ Readable(draft.owner, draft.page) /\ Write(draft.owner, draft.page, draft.expected, calls[c].started)
    BY <1>1, <1>5 DEF WriteChecked, CallsInv
  <2>2. draft \in Draft
    BY <1>1, <2>1
  <2>3. calls[c].started \in Nat
    BY <1>1 DEF TypeOK
  <2> HIDE DEF draft
  <2>4. /\ draft.page \in PageIds /\ draft.owner \in Users /\ draft.expected \in Nat
        /\ Exists(draft.page) /\ MayRead(draft.owner, pages[draft.page])
    BY <2>1, <2>2 DEF Readable, Draft
  <2>5. Revises(draft.page) /\ \A o \in PageIds : o # draft.page => Same(o)
    BY <2>1, <2>3, <2>4, WritingRevises
  <2> QED
    BY <1>5, <2>4, <2>5
<1>6. ASSUME NEW u \in Users, NEW p \in PageIds, ColleagueEdit(u, p), ~Same(q)
      PROVE  Exists(q) /\ Revises(q)
  <2>1. /\ Exists(p) /\ MayRead(u, pages[p])
        /\ Write(u, p, pages[p].latest.version, pages[p].latest.version)
    BY <1>6 DEF ColleagueEdit
  <2>2. pages[p].latest.version \in Nat
    BY <1>1, <2>1, ExistingPage DEF Page, Revision
  <2>3. Revises(p) /\ \A o \in PageIds : o # p => Same(o)
    BY <2>1, <2>2, WritingRevises
  <2> QED
    BY <1>6, <2>1, <2>3
<1>7. ASSUME NEW u \in Users, NEW p \in PageIds, NEW parent \in 0 .. MaxComments,
             AddComment(u, p, parent), p = q
      PROVE  Exists(q) /\ Comments(q)
  <2>1. Exists(q) /\ KnownComment(pages[q], parent) /\ parent \in Nat
    BY <1>7 DEF AddComment, Readable
  <2>2. pages'[q] = [pages[q] EXCEPT !.comments = Append(@, [id |-> Len(@) + 1, parent |-> parent])]
    BY <1>1, <1>7 DEF AddComment
  <2> QED
    BY <2>1, <2>2 DEF Comments
<1>8. ASSUME NEW u \in Users, NEW p \in PageIds, DeletePage(u, p), p = q
      PROVE  FALSE
  BY <1>1, <1>8 DEF DeletePage, Exists
<1>9. ASSUME NEW u \in Users, NEW d \in DOMAIN drafts, NEW p \in PageIds, NEW parent \in 0 .. MaxComments,
             CreatePage(d, p) \/ AddComment(u, p, parent) \/ DeletePage(u, p), p # q
      PROVE  Same(q)
  BY <1>1, <1>9 DEF CreatePage, AddComment, DeletePage, Same
<1>10. CASE pages' = pages
  BY <1>2, <1>10 DEF Same
<1>11. CASE \E d \in DOMAIN drafts, p \in PageIds : CreatePage(d, p)
  BY <1>1, <1>2, <1>3, <1>11 DEF CreatePage, Same
<1>12. CASE \E u \in Users, p \in PageIds, parent \in 0 .. MaxComments : AddComment(u, p, parent)
  BY <1>1, <1>2, <1>7, <1>12 DEF AddComment, Same
<1>13. CASE \E u \in Users, p \in PageIds : DeletePage(u, p)
  BY <1>1, <1>2, <1>8, <1>13 DEF DeletePage, Same
<1> QED
  BY <1>2, <1>4, <1>5, <1>6, <1>10, <1>11, <1>12, <1>13
  DEF Next, vars, DraftRevision, DraftNewPage, CheckVersion, LoseCall

-----------------------------------------------------------------------------
(* Comments and readers. *)

\* Comments are numbered as they come, and a reply names an earlier one.
Threaded(comments) ==
  \A i \in DOMAIN comments :
    comments[i].id = i /\ (comments[i].parent # 0 => comments[i].parent \in 1 .. i - 1)

ThreadsInv == \A p \in PageIds : Exists(p) => Threaded(pages[p].comments)

LEMMA AnotherIsThreaded ==
  ASSUME NEW comments \in Seq(Comment), Threaded(comments), NEW parent \in Nat,
         parent = 0 \/ \E i \in DOMAIN comments : comments[i].id = parent
  PROVE  Threaded(Append(comments, [id |-> Len(comments) + 1, parent |-> parent]))
<1> DEFINE n == Len(comments)
           new == [id |-> n + 1, parent |-> parent]
           longer == Append(comments, new)
<1>1. n \in Nat /\ DOMAIN comments = 1 .. n
  OBVIOUS
<1>2. /\ DOMAIN longer = 1 .. n + 1 /\ longer[n + 1] = new
      /\ \A i \in 1 .. n : longer[i] = comments[i]
  BY <1>1
<1>3. new.id = n + 1 /\ new.parent = parent
  OBVIOUS
<1>4. parent # 0 => parent \in 1 .. n
  BY <1>1 DEF Threaded
<1> HIDE DEF n, new, longer
<1>5. ASSUME NEW i \in DOMAIN longer
      PROVE  longer[i].id = i /\ (longer[i].parent # 0 => longer[i].parent \in 1 .. i - 1)
  <2>1. CASE i = n + 1
    BY <1>1, <1>2, <1>3, <1>4, <2>1
  <2>2. CASE i # n + 1
    <3>1. i \in 1 .. n
      BY <1>1, <1>2, <2>2
    <3> QED
      BY <1>1, <1>2, <3>1 DEF Threaded
  <2> QED
    BY <2>1, <2>2
<1> QED
  BY <1>5 DEF Threaded, longer, new, n

LEMMA ThreadsStep == IInv /\ ThreadsInv /\ [Next]_vars => ThreadsInv'
<1> SUFFICES ASSUME IInv, ThreadsInv, [Next]_vars, NEW p \in PageIds, Exists(p)'
             PROVE  Threaded(pages'[p].comments)
  BY DEF ThreadsInv
<1>1. CASE Creates(p)
  BY <1>1 DEF Creates, Threaded
<1>2. ASSUME Exists(p), Same(p) \/ Revises(p) \/ Comments(p)
      PROVE  Threaded(pages'[p].comments)
  <2>1. pages[p] \in Page /\ Threaded(pages[p].comments)
    BY <1>2, ExistingPage DEF IInv, ThreadsInv
  <2>2. pages[p].comments \in Seq(Comment)
    BY <2>1 DEF Page
  <2>3. CASE Same(p)
    BY <2>1, <2>3 DEF Same
  <2>4. CASE Revises(p)
    BY <2>1, <2>4, RevisedEntry DEF Revises
  <2>5. CASE Comments(p)
    <3>1. PICK parent \in Nat :
            /\ KnownComment(pages[p], parent)
            /\ pages'[p] = [pages[p] EXCEPT !.comments = Append(@, [id |-> Len(@) + 1, parent |-> parent])]
      BY <2>5 DEF Comments
    <3>2. pages'[p].comments =
            Append(pages[p].comments, [id |-> Len(pages[p].comments) + 1, parent |-> parent])
      BY <2>1, <3>1 DEF Page
    <3> QED
      BY <2>1, <2>2, <3>1, <3>2, AnotherIsThreaded DEF KnownComment
  <2> QED
    BY <1>2, <2>3, <2>4, <2>5
<1> QED
  BY <1>1, <1>2, EntriesChange

(* A reply answers an earlier comment of its own page, however comments, edits
   and deletions interleave (add_comment, _require_known_comment). *)
THEOREM RepliesHaveTheirComment == Spec => []RepliesAnswerComments
<1>1. Init => ThreadsInv
  BY PagesAssumption DEF Init, ThreadsInv, Threaded, Exists
<1>2. IInv /\ ThreadsInv => RepliesAnswerComments
  <2> SUFFICES ASSUME IInv, ThreadsInv, NEW p \in PageIds, Exists(p), NEW i \in DOMAIN pages[p].comments,
                      pages[p].comments[i].parent # 0
               PROVE  \E j \in 1 .. i - 1 : pages[p].comments[j].id = pages[p].comments[i].parent
    BY DEF RepliesAnswerComments
  <2>1. pages[p].comments \in Seq(Comment) /\ Threaded(pages[p].comments)
    BY ExistingPage DEF IInv, Page, ThreadsInv
  <2>2. DOMAIN pages[p].comments = 1 .. Len(pages[p].comments) /\ Len(pages[p].comments) \in Nat
    BY <2>1, LenProperties
  <2>3. pages[p].comments[i].parent \in 1 .. i - 1
    BY <2>1 DEF Threaded
  <2>4. pages[p].comments[i].parent \in DOMAIN pages[p].comments
    BY <2>2, <2>3
  <2> QED
    BY <2>1, <2>3, <2>4 DEF Threaded
<1> QED
  BY <1>1, <1>2, ThreadsStep, Invariant, PTL DEF Spec

\* Whoever saved a page of the dataset may read it.
DatasetIsReadable ==
  \A p \in PageIds : InitialPages[p] # NoPage => MayRead(InitialPages[p].latest.by, InitialPages[p])

ReadersInv ==
  DatasetIsReadable /\ backend # "memory" =>
    \A p \in PageIds : Exists(p) => \A r \in Revisions(pages[p]) : MayRead(r.by, pages[p])

LEMMA ReadersStep == IInv /\ ReadersInv /\ [Next]_vars => ReadersInv'
<1> SUFFICES ASSUME IInv, ReadersInv, [Next]_vars PROVE ReadersInv'
  OBVIOUS
<1>0. backend' = backend
  BY DEF Next, vars, DraftRevision, DraftNewPage, CreatePage, UpdatePage, CheckVersion,
     WriteChecked, LoseCall, DeletePage, AddComment, ColleagueEdit
<1> SUFFICES ASSUME DatasetIsReadable, backend # "memory",
                    NEW p \in PageIds, Exists(p)', NEW r \in Revisions(pages'[p])
             PROVE  MayRead(r.by, pages'[p])
  BY <1>0 DEF ReadersInv, Exists, Revisions, MayRead, MayReadSpace
<1>1. CASE Creates(p)
  BY <1>1 DEF Creates, MayCreateIn, MayRead
<1>2. ASSUME Exists(p), Same(p) \/ Revises(p) \/ Comments(p)
      PROVE  MayRead(r.by, pages'[p])
  <2>1. pages[p] \in Page /\ \A old \in Revisions(pages[p]) : MayRead(old.by, pages[p])
    BY <1>2, ExistingPage DEF IInv, ReadersInv
  <2>2. CASE Same(p)
    BY <2>1, <2>2 DEF Same
  <2>3. CASE Revises(p)
    <3>1. PICK new \in Revision : MayRead(new.by, pages[p]) /\ pages'[p] = Revised(pages[p], new)
      BY <2>3 DEF Revises
    <3>2. pages'[p].space = pages[p].space /\ pages'[p].restricted = pages[p].restricted
      BY <2>1, <3>1 DEF Revised, Page
    <3>3. r \in {new} \cup Revisions(pages[p])
      BY <2>1, <3>1, RevisedRevisions
    <3> QED
      BY <2>1, <3>1, <3>2, <3>3 DEF MayRead
  <2>4. CASE Comments(p)
    <3>1. /\ pages'[p].space = pages[p].space /\ pages'[p].restricted = pages[p].restricted
          /\ pages'[p].latest = pages[p].latest /\ pages'[p].history = pages[p].history
      BY <2>1, <2>4 DEF Comments, Page
    <3> QED
      BY <2>1, <3>1 DEF Revisions, MayRead
  <2> QED
    BY <1>2, <2>2, <2>3, <2>4
<1> QED
  BY <1>1, <1>2, EntriesChange

(* Against a wiki that asks who may read the space before it makes a page there,
   no revision is by somebody who may not read the page, given a dataset of
   which this is true. *)
THEOREM WritersAreReaders == Spec => [](DatasetIsReadable /\ backend # "memory" => OnlyReadersWrite)
<1>1. Init => ReadersInv
  <2> SUFFICES ASSUME Init, DatasetIsReadable, NEW p \in PageIds, Exists(p), NEW r \in Revisions(pages[p])
               PROVE  MayRead(r.by, pages[p])
    BY DEF ReadersInv
  <2>1. pages[p] = InitialPages[p] /\ InitialPages[p] # NoPage
    BY DEF Init, Exists
  <2>2. r = pages[p].latest
    BY <2>1, PagesAssumption DEF Revisions
  <2> QED
    BY <2>1, <2>2 DEF DatasetIsReadable
<1>2. ReadersInv => (DatasetIsReadable /\ backend # "memory" => OnlyReadersWrite)
  BY DEF ReadersInv, OnlyReadersWrite, RevisionsOf, Revisions
<1> QED
  BY <1>1, <1>2, ReadersStep, Invariant, PTL DEF Spec
=============================================================================
