------------------------ MODULE WikiReadingProofs ------------------------
(* Proofs about WikiReading, for every wiki, every set of users, words,     *)
(* requests and backends, and every limit and bound.                        *)
EXTENDS WikiReading, OrderLemmas, SequenceTheorems, TLAPS

(***************************************************************************)
(* Where a call can be, and what it has at hand there.                     *)
(***************************************************************************)
KindsAt(s) ==
  CASE s = "searching" -> {"search", "answer", "assess_space"}
    [] s = "reading"   -> {"get_page", "summarise", "discussion", "subtree", "answer", "assess_pages"}
    [] s = "listing"   -> {"get_children", "subtree"}
    [] s = "looking"   -> {"get_history", "get_comments", "discussion"}
    [] s = "reasoning" -> {"summarise", "discussion", "subtree", "answer", "assess_pages"}
    [] OTHER           -> Kinds \cup {"none"}

UnderWay ==
  /\ request.kind \in KindsAt(stage)
  /\ stage # "idle" => request \in Requests /\ told = Nothing
  /\ stage = "searching" => read = << >>
  /\ stage \in {"searching", "listing"} => found = << >>
  /\ stage = "reading" => todo \in Seq(PageIds)
  /\ found \in Seq(PageIds)

\* The query a search for an answer ends with is what the question is about.
Asking ==
  stage = "searching" /\ request.kind = "answer" => queries[Len(queries)] = Subject(request.text)

PagesRead == [i \in DOMAIN read |-> read[i].page]

\* The pages a call is to read, once it knows them.
PagesMeant ==
  CASE request.kind = "answer"       -> found
    [] request.kind = "subtree"      -> <<request.page>> \o found
    [] request.kind = "assess_pages" -> request.pages
    [] OTHER                         -> <<request.page>>

OnCourse ==
  /\ stage = "reading" => PagesRead \o todo = PagesMeant
  /\ stage = "reasoning" => PagesRead = PagesMeant
  /\ stage \in {"listing", "looking"} /\ request.kind \in {"subtree", "discussion"} =>
       PagesRead = <<request.page>>
  /\ stage = "reading" /\ request.kind = "subtree" /\ read = << >> => found = << >>
  /\ stage \in {"reading", "reasoning"} /\ request.kind = "answer" => Len(found) <= PagesConsulted

ReadsAreAllowed == \A i \in DOMAIN read : Entitled(request.user) \in read[i].readers

\* The invariant of a call: every theorem below follows from it.
CallInv ==
  TypeOK /\ UnderWay /\ Asking /\ OnCourse /\ ReadsAreAllowed

-----------------------------------------------------------------------------
(* What a search or a listing selects. *)

LEMMA PageIdsAreFinite ==
  /\ PageIds = 1 .. Len(InitialPages) /\ IsFiniteSet(PageIds)
  /\ \A S \in SUBSET PageIds : IsFiniteSet(S) /\ Cardinality(S) \in Nat
<1>1. PageIds = 1 .. Len(InitialPages) /\ Len(InitialPages) \in Nat
  BY ReadingAssumption DEF PageIds
<1>2. IsFiniteSet(PageIds)
  BY <1>1, FS_Interval
<1> QED
  BY <1>1, <1>2, FS_Subset, FS_CardinalityType

(* Dates, and the dataset where they tie, order any pages. *)
LEMMA LaterOrders ==
  ASSUME TypeOK, NEW S \in SUBSET PageIds
  PROVE  OrdersStrictly(Later, S)
<1>1. \A p \in PageIds : pages[p].modified \in Int /\ p \in Int
  <2>1. \A p \in PageIds : pages[p] \in Page
    BY DEF TypeOK
  <2> QED
    BY <2>1, PageIdsAreFinite DEF Page, Days
<1>2. \A x, y \in S : <<x, y>> \in Later <=> Before(x, y)
  BY DEF Later
<1>3. \A x \in S : ~Before(x, x)
  BY <1>1 DEF Before
<1>4. \A x, y, z \in S : Before(x, y) /\ Before(y, z) => Before(x, z)
  BY <1>1 DEF Before
<1>5. \A x, y \in S : x = y \/ Before(x, y) \/ Before(y, x)
  BY <1>1 DEF Before
<1> QED
  BY <1>2, <1>3, <1>4, <1>5 DEF OrdersStrictly

(* An order of pages gives each of them a place. *)
LEMMA OrdersAreOfAll ==
  ASSUME NEW S \in SUBSET PageIds, NEW order \in Orders(S)
  PROVE  /\ order \in Seq(S) /\ Len(order) = Cardinality(S)
         /\ \A p \in S : \E i \in 1 .. Len(order) : order[i] = p
<1>0. IsFiniteSet(S) /\ Cardinality(S) \in Nat
  BY PageIdsAreFinite
<1>1. order \in [1 .. Cardinality(S) -> S] /\ IsInjective(order)
  BY DEF Orders
<1>2. order \in Injection(1 .. Cardinality(S), S)
  BY <1>1 DEF Injection, IsInjective
<1>3. IsFiniteSet(1 .. Cardinality(S)) /\ Cardinality(1 .. Cardinality(S)) = Cardinality(S)
  BY <1>0, FS_Interval
<1>4. order \in Surjection(1 .. Cardinality(S), S)
  BY <1>0, <1>2, <1>3, FS_Injection
<1>5. order \in Seq(S) /\ Len(order) = Cardinality(S)
  BY <1>0, <1>1
<1>6. \A p \in S : \E i \in 1 .. Cardinality(S) : order[i] = p
  BY <1>4 DEF Surjection
<1> QED
  BY <1>5, <1>6

(* A selection is the beginning of an order in which every match has a place. *)
LEMMA SelectionBeginsAnOrder ==
  ASSUME TypeOK, NEW S \in SUBSET PageIds, NEW limit \in Nat, NEW selection \in Selections(S, limit)
  PROVE  \E order \in Seq(S) :
           /\ selection = FirstOf(order, limit) /\ Len(order) = Cardinality(S)
           /\ \A p \in S : \E i \in 1 .. Len(order) : order[i] = p
<1>0. IsFiniteSet(S) /\ Cardinality(S) \in Nat
  BY PageIdsAreFinite
<1>1. CASE Atlassian
  <2>1. PICK order \in Orders(S) : selection = FirstOf(order, limit)
    BY <1>1 DEF Selections
  <2> QED
    BY <2>1, OrdersAreOfAll
<1>2. CASE ~Atlassian
  <2>1. selection = FirstOf(InOrder(S, Later), limit)
    BY <1>2 DEF Selections
  <2>2. Arranges(InOrder(S, Later), S, Later)
    BY <1>0, LaterOrders, InOrderArranges
  <2> QED
    BY <2>1, <2>2 DEF Arranges
<1> QED
  BY <1>1, <1>2

(* A listing holds children only. *)
LEMMA ListingIsOfChildren ==
  ASSUME NEW S \in SUBSET PageIds, NEW listing \in Listings(S)
  PROVE  listing \in Seq(S) /\ listing \in Seq(PageIds)
<1> DEFINE limit == IF Atlassian THEN MaxLimit ELSE Cardinality(S)
<1>1. limit \in Nat
  BY PageIdsAreFinite, ReadingAssumption
<1>2. PICK order \in Orders(S) : listing = FirstOf(order, limit)
  BY DEF Listings
<1> HIDE DEF limit
<1>3. order \in Seq(S)
  BY OrdersAreOfAll
<1>4. listing \in Seq(S)
  BY <1>1, <1>2, <1>3, FirstOfIsPrefix
<1> QED
  BY <1>4

(* It holds matches only, not more than asked for, and is empty only if they are. *)
LEMMA SelectionIsOfMatches ==
  ASSUME TypeOK, NEW S \in SUBSET PageIds, NEW limit \in Nat, NEW selection \in Selections(S, limit)
  PROVE  /\ selection \in Seq(S) /\ selection \in Seq(PageIds)
         /\ Len(selection) \in Nat /\ Len(selection) <= limit
         /\ limit # 0 /\ selection = << >> => S = {}
<1>1. PICK order \in Seq(S) :
           /\ selection = FirstOf(order, limit) /\ Len(order) = Cardinality(S)
           /\ \A p \in S : \E i \in 1 .. Len(order) : order[i] = p
  BY SelectionBeginsAnOrder
<1>2. /\ selection \in Seq(S) /\ Len(selection) <= limit
      /\ Len(order) <= limit => selection = order
      /\ limit <= Len(order) => Len(selection) = limit
  BY <1>1, FirstOfIsPrefix
<1>3. selection \in Seq(PageIds) /\ Len(selection) \in Nat
  BY <1>2
<1>4. ASSUME limit # 0, selection = << >> PROVE S = {}
  <2>1. Len(selection) = 0 /\ Len(order) \in Nat
    BY <1>4
  <2>2. selection = order
    BY <1>2, <1>4, <2>1
  <2>3. Len(order) = 0
    BY <2>1, <2>2
  <2> QED
    BY <1>1, <2>3
<1> QED
  BY <1>2, <1>3, <1>4

(* If it is not said to be truncated, it holds every match. *)
LEMMA UntruncatedTakesAll ==
  ASSUME TypeOK, NEW S \in SUBSET PageIds, NEW limit \in Nat, NEW selection \in Selections(S, limit),
         ~Truncated(S, selection, limit)
  PROVE  S \subseteq Range(selection)
<1>1. PICK order \in Seq(S) :
           /\ selection = FirstOf(order, limit) /\ Len(order) = Cardinality(S)
           /\ \A p \in S : \E i \in 1 .. Len(order) : order[i] = p
  BY SelectionBeginsAnOrder
<1>2. /\ selection \in Seq(S) /\ Len(selection) <= limit
      /\ Len(order) <= limit => selection = order
      /\ limit <= Len(order) => Len(selection) = limit
  BY <1>1, FirstOfIsPrefix
<1>3. Len(order) \in Nat /\ Len(selection) \in Nat
  BY <1>1, <1>2
<1>4. IF Atlassian THEN ~(Len(selection) >= limit) ELSE ~(Len(order) > Len(selection))
  BY <1>1 DEF Truncated
<1>5. selection = order
  <2>1. CASE Len(order) <= limit
    BY <1>2, <2>1
  <2>2. CASE ~(Len(order) <= limit)
    <3>1. Len(selection) = limit /\ Len(order) > Len(selection)
      BY <1>2, <1>3, <2>2
    <3> QED
      BY <1>3, <1>4, <3>1
  <2> QED
    BY <2>1, <2>2
<1>6. \A p \in S : \E i \in DOMAIN selection : selection[i] = p
  BY <1>1, <1>5
<1> QED
  BY <1>6 DEF Range

-----------------------------------------------------------------------------
(* Questions, and their queries. *)

LEMMA TermsAreWords ==
  ASSUME NEW question \in Seq(Words)
  PROVE  TermsOf(question) \in Seq(Words)
<1> DEFINE places == FirstPlaces(question)
           smaller == {ij \in places \X places : ij[1] < ij[2]}
           order == InOrder(places, smaller)
           terms == [n \in DOMAIN order |-> question[order[n]]]
<1>1. DOMAIN question = 1 .. Len(question) /\ Len(question) \in Nat
  OBVIOUS
<1>2. places \in SUBSET (1 .. Len(question)) /\ IsFiniteSet(1 .. Len(question))
  BY <1>1, FS_Interval DEF FirstPlaces
<1>3. IsFiniteSet(places)
  BY <1>2, FS_Subset
<1> HIDE DEF places
<1>4. \A i, j \in places : <<i, j>> \in smaller <=> i < j
  OBVIOUS
<1>5. OrdersStrictly(smaller, places)
  <2>1. \A i \in places : i \in Int
    BY <1>2
  <2> HIDE DEF smaller
  <2> QED
    BY <1>4, <2>1 DEF OrdersStrictly
<1> HIDE DEF smaller
<1>6. Arranges(order, places, smaller)
  BY <1>3, <1>5, InOrderArranges
<1> HIDE DEF order
<1>7. order \in Seq(places)
  BY <1>6 DEF Arranges
<1>8. /\ DOMAIN order = 1 .. Len(order) /\ Len(order) \in Nat
      /\ \A n \in DOMAIN order : question[order[n]] \in Words
  <2>1. /\ DOMAIN order = 1 .. Len(order) /\ Len(order) \in Nat
        /\ \A n \in DOMAIN order : order[n] \in places
    BY <1>7
  <2>2. \A i \in places : question[i] \in Words
    BY <1>1, <1>2
  <2> QED
    BY <2>1, <2>2
<1>9. terms \in Seq(Words)
  BY <1>8
<1> HIDE DEF terms
<1>10. FirstOf(terms, MaxTerms) \in Seq(Words)
  BY <1>9, ReadingAssumption, FirstOfIsPrefix
<1> QED
  BY <1>10 DEF TermsOf, places, smaller, order, terms

(* There is always a query, and the last one is what the question is about. *)
LEMMA LadderEndsWithSubject ==
  ASSUME NEW question \in Seq(Words)
  PROVE  /\ Ladder(question) \in Seq(Seq(Words)) /\ Ladder(question) # << >>
         /\ Ladder(question)[Len(Ladder(question))] = Subject(question)
<1> DEFINE terms == TermsOf(question)
           steps == IF Len(terms) < Attempts THEN Len(terms) ELSE Attempts
           rungs == [i \in 1 .. steps |-> FirstOf(terms, Len(terms) - i + 1)]
<1>1. terms \in Seq(Words)
  BY TermsAreWords
<1>2. Attempts \in Nat /\ Attempts # 0
  BY ReadingAssumption
<1>3. CASE terms = << >>
  <2>1. Ladder(question) = <<question>> /\ Subject(question) = question
    BY <1>3 DEF Ladder, Subject
  <2> QED
    BY <2>1
<1>4. CASE terms # << >>
  <2>1. Ladder(question) = rungs
    BY <1>4 DEF Ladder
  <2>2. Subject(question) = FirstOf(terms, IF Len(terms) < Attempts THEN 1 ELSE Len(terms) - Attempts + 1)
    BY <1>4 DEF Subject
  <2> HIDE DEF terms
  <2>3. Len(terms) \in Nat /\ Len(terms) # 0
    BY <1>1, <1>4
  <2>4. /\ steps \in Nat /\ steps # 0 /\ steps <= Len(terms)
        /\ Len(terms) - steps + 1 = IF Len(terms) < Attempts THEN 1 ELSE Len(terms) - Attempts + 1
    BY <1>2, <2>3
  <2> HIDE DEF steps
  <2>5. ASSUME NEW i \in 1 .. steps PROVE rungs[i] = FirstOf(terms, Len(terms) - i + 1) /\ rungs[i] \in Seq(Words)
    <3>1. Len(terms) - i + 1 \in Nat
      BY <2>3, <2>4
    <3> QED
      BY <1>1, <3>1, FirstOfIsPrefix
  <2>6. rungs \in Seq(Seq(Words)) /\ Len(rungs) = steps
    <3>1. rungs \in [1 .. steps -> Seq(Words)]
      BY <2>5
    <3> QED
      BY <2>4, <3>1
  <2>7. rungs[steps] = FirstOf(terms, Len(terms) - steps + 1)
    BY <2>4, <2>5
  <2> HIDE DEF rungs
  <2>8. rungs[Len(rungs)] = FirstOf(terms, Len(terms) - steps + 1)
    BY <2>6, <2>7
  <2>9. rungs # << >>
    BY <2>4, <2>6
  <2> QED
    BY <2>1, <2>2, <2>4, <2>6, <2>8, <2>9
<1> QED
  BY <1>3, <1>4

-----------------------------------------------------------------------------
(* Reports. *)

(* Putting the stalest first loses nothing and invents nothing. *)
LEMMA StalestComesFirst ==
  ASSUME NEW T, NEW assessed \in Seq(T), \A t \in T : t.days \in Int
  PROVE  /\ MostStaleFirst(assessed) \in Seq(T) /\ Len(MostStaleFirst(assessed)) = Len(assessed)
         /\ \A n \in DOMAIN MostStaleFirst(assessed) :
              \E k \in DOMAIN assessed : MostStaleFirst(assessed)[n] = assessed[k]
         /\ \A k \in DOMAIN assessed :
              \E n \in DOMAIN MostStaleFirst(assessed) : MostStaleFirst(assessed)[n] = assessed[k]
         /\ \A n, k \in DOMAIN MostStaleFirst(assessed) :
              n < k => MostStaleFirst(assessed)[n].days >= MostStaleFirst(assessed)[k].days
<1> DEFINE places == DOMAIN assessed
           staler == {ij \in places \X places :
                        \/ assessed[ij[1]].days > assessed[ij[2]].days
                        \/ assessed[ij[1]].days = assessed[ij[2]].days /\ ij[1] < ij[2]}
           order == InOrder(places, staler)
           report == MostStaleFirst(assessed)
<1>1. places = 1 .. Len(assessed) /\ Len(assessed) \in Nat /\ \A i \in places : i \in Int
  OBVIOUS
<1>2. IsFiniteSet(places) /\ Cardinality(places) = Len(assessed)
  <2>1. /\ IsFiniteSet(1 .. Len(assessed))
        /\ Cardinality(1 .. Len(assessed)) = IF 1 > Len(assessed) THEN 0 ELSE Len(assessed) - 1 + 1
    BY <1>1, FS_Interval
  <2> HIDE DEF places
  <2> QED
    BY <1>1, <2>1
<1>3. \A i \in places : assessed[i] \in T /\ assessed[i].days \in Int
  OBVIOUS
<1>4. report = [n \in places |-> assessed[order[n]]]
  BY DEF MostStaleFirst
<1> HIDE DEF report, places
<1>5. \A i, j \in places :
        <<i, j>> \in staler <=> \/ assessed[i].days > assessed[j].days
                                \/ assessed[i].days = assessed[j].days /\ i < j
  OBVIOUS
<1> HIDE DEF staler
<1>6. OrdersStrictly(staler, places)
  <2>1. \A x \in places : <<x, x>> \notin staler
    BY <1>1, <1>3, <1>5
  <2>2. \A x, y, z \in places : <<x, y>> \in staler /\ <<y, z>> \in staler => <<x, z>> \in staler
    <3> SUFFICES ASSUME NEW x \in places, NEW y \in places, NEW z \in places,
                        <<x, y>> \in staler, <<y, z>> \in staler
                 PROVE  <<x, z>> \in staler
      OBVIOUS
    <3>1. /\ assessed[x].days >= assessed[y].days /\ assessed[y].days >= assessed[z].days
          /\ assessed[x].days = assessed[y].days => x < y
          /\ assessed[y].days = assessed[z].days => y < z
      BY <1>1, <1>3, <1>5
    <3>2. assessed[x].days > assessed[z].days \/ (assessed[x].days = assessed[z].days /\ x < z)
      BY <1>1, <1>3, <3>1
    <3> QED
      BY <1>5, <3>2
  <2>3. \A x, y \in places : x = y \/ <<x, y>> \in staler \/ <<y, x>> \in staler
    <3> SUFFICES ASSUME NEW x \in places, NEW y \in places, x # y
                 PROVE  <<x, y>> \in staler \/ <<y, x>> \in staler
      OBVIOUS
    <3>1. \/ assessed[x].days > assessed[y].days \/ assessed[y].days > assessed[x].days
          \/ (assessed[x].days = assessed[y].days /\ (x < y \/ y < x))
      BY <1>1, <1>3
    <3> QED
      BY <1>5, <3>1
  <2> QED
    BY <2>1, <2>2, <2>3 DEF OrdersStrictly
<1>7. Arranges(order, places, staler)
  BY <1>2, <1>6, InOrderArranges
<1> HIDE DEF order
<1>8. /\ order \in Seq(places) /\ Len(order) = Len(assessed)
      /\ \A k \in places : \E n \in places : order[n] = k
      /\ \A n, k \in places : n < k => <<order[n], order[k]>> \in staler
  BY <1>1, <1>2, <1>7 DEF Arranges
<1>9. ASSUME NEW n \in places PROVE order[n] \in places
  <2>1. n \in 1 .. Len(order)
    BY <1>1, <1>8
  <2> QED
    BY <1>8, <2>1, ElementOfSeq
<1>10. report \in Seq(T) /\ Len(report) = Len(assessed) /\ DOMAIN report = places
  BY <1>1, <1>3, <1>4, <1>9
<1>11. \A n, k \in places : n < k => report[n].days >= report[k].days
  <2> SUFFICES ASSUME NEW n \in places, NEW k \in places, n < k PROVE report[n].days >= report[k].days
    OBVIOUS
  <2>1. <<order[n], order[k]>> \in staler /\ order[n] \in places /\ order[k] \in places
    BY <1>8, <1>9
  <2>2. assessed[order[n]].days >= assessed[order[k]].days
    <3>1. assessed[order[n]].days > assessed[order[k]].days \/ assessed[order[n]].days = assessed[order[k]].days
      BY <1>5, <2>1
    <3>2. assessed[order[n]].days \in Int /\ assessed[order[k]].days \in Int
      BY <1>3, <2>1
    <3> QED
      BY <3>1, <3>2
  <2> QED
    BY <1>4, <2>2
<1>12. \A n \in places : \E k \in places : report[n] = assessed[k]
  BY <1>4, <1>9
<1>13. \A k \in places : \E n \in places : report[n] = assessed[k]
  BY <1>4, <1>8
<1> QED
  BY <1>10, <1>11, <1>12, <1>13 DEF report, places

-----------------------------------------------------------------------------
(* What pages, requests and failures are. *)

LEMMA PagesHaveDates ==
  ASSUME TypeOK, NEW p \in PageIds
  PROVE  /\ pages[p] \in Page /\ ModifiedOn(p) \in Days /\ DaysSince(ModifiedOn(p)) \in Nat
         /\ Reading(p) \in ReadRecord
<1>1. pages[p] \in Page /\ today \in Days
  BY DEF TypeOK
<1>2. pages[p].modified \in Days /\ pages[p].version \in Nat
  BY <1>1 DEF Page
<1>3. ModifiedOn(p) \in Days
  BY <1>1, <1>2 DEF ModifiedOn, ReadDate
<1>4. DaysSince(ModifiedOn(p)) \in Nat
  BY <1>1, <1>3, ReadingAssumption DEF DaysSince, Days
<1>5. Reading(p) \in ReadRecord
  BY <1>2, <1>3 DEF Reading, ReadRecord
<1> QED
  BY <1>1, <1>3, <1>4, <1>5

LEMMA RequestsAreWellFormed ==
  ASSUME NEW r \in Requests
  PROVE  /\ r.kind \in Kinds /\ r.text \in Seq(Words) /\ r.pages \in Seq(PageIds)
         /\ r.limit \in Nat /\ r.limit # 0 /\ r.page \in PageIds \cup {0}
         /\ r.kind \in PageKinds => r.page \in PageIds
         /\ r.user \in Users
         /\ r.kind = "assess_pages" => r.pages # << >>
<1>1. r \in Request
  BY ReadingAssumption
<1>2. /\ r.kind \in Kinds /\ r.text \in Seq(Words) /\ r.pages \in Seq(PageIds)
      /\ r.limit \in 1 .. MaxLimit /\ r.page \in PageIds \cup {0} /\ r.user \in Users
  BY <1>1 DEF Request
<1>3. IF r.kind \in PageKinds THEN r.page # 0 ELSE r.kind = "assess_pages" => r.pages # << >>
  BY ReadingAssumption
<1>4. "assess_pages" \notin PageKinds
  BY DEF PageKinds
<1> QED
  BY <1>2, <1>3, <1>4, ReadingAssumption

(* What arrives of a failure is its cause, or what the prose of the Atlassian
   server makes of it: the first code of a native text is the one the server put
   there, whatever codes the detail quotes. *)
LEMMA CausesArrive ==
  ASSUME NEW r, NEW cause, NEW report \in Arriving(r, cause), backend \in Backends
  PROVE  \/ report.error = cause
         \/ /\ Atlassian /\ ReportedThere(r, cause)
            /\ report.marks \in SUBSET Marks /\ report.error = Translated(report.marks)
<1>1. \A text \in Reported(cause) : Decoded(text) = cause
  BY DEF Reported, Decoded
<1>2. CASE backend = "memory"
  BY <1>2 DEF Arriving, Told
<1>3. CASE backend = "native"
  BY <1>1, <1>3 DEF Arriving, Told
<1>4. CASE Atlassian
  <2>1. backend # "memory" /\ backend # "native"
    BY <1>4 DEF Atlassian
  <2>2. \/ report = Told(cause, {})
        \/ /\ ReportedThere(r, cause)
           /\ \E marks \in SUBSET Marks : report = Told(Translated(marks), marks)
    BY <1>4, <2>1 DEF Arriving
  <2> QED
    BY <1>4, <2>2 DEF Told
<1> QED
  BY <1>2, <1>3, <1>4, ReadingAssumption DEF Atlassian

-----------------------------------------------------------------------------
(* The invariant of a call, step by step. *)

LEMMA StartsInvariant == Init => CallInv
<1> SUFFICES ASSUME Init PROVE CallInv
  OBVIOUS
<1>1. TypeOK
  <2>1. pages \in Seq(Page) /\ DOMAIN pages = PageIds
    BY ReadingAssumption DEF Init, PageIds
  <2>2. << >> \in Seq(Seq(Words)) /\ << >> \in Seq(PageIds \cup {0}) /\ << >> \in Seq(ReadRecord)
    OBVIOUS
  <2> QED
    BY <2>1, <2>2, ReadingAssumption DEF Init, TypeOK
<1>2. UnderWay
  <2>1. << >> \in Seq(PageIds)
    OBVIOUS
  <2> QED
    BY <2>1 DEF Init, UnderWay, KindsAt, NoRequest
<1>3. Asking /\ OnCourse /\ ReadsAreAllowed
  BY DEF Init, Asking, OnCourse, ReadsAreAllowed, Entitled
<1> QED
  BY <1>1, <1>2, <1>3 DEF CallInv

(* Others touch the wiki, not the call. *)
LEMMA OthersKeepInvariant ==
  ASSUME CallInv,
         UNCHANGED <<backend, request, stage, queries, todo, read, told, found, matched>>,
         pages' \in Seq(Page), DOMAIN pages' = PageIds, today' \in Days,
         changes' \in 0 .. MaxChanges, steady' \subseteq PageIds
  PROVE  CallInv'
<1>1. TypeOK'
  BY DEF CallInv, TypeOK
<1>2. UnderWay' /\ Asking' /\ OnCourse' /\ ReadsAreAllowed'
  BY DEF CallInv, UnderWay, Asking, OnCourse, ReadsAreAllowed, Entitled, PagesRead, PagesMeant
<1> QED
  BY <1>1, <1>2 DEF CallInv

LEMMA ChangeKeepsInvariant ==
  ASSUME CallInv, NEW p \in PageIds, NEW page \in Page, Change(p, page)
  PROVE  CallInv'
<1>1. pages' = [pages EXCEPT ![p] = page] /\ steady' = steady \ {p} /\ changes' = changes + 1
      /\ changes < MaxChanges
  BY DEF Change
<1>2. pages \in Seq(Page) /\ DOMAIN pages = PageIds /\ changes \in 0 .. MaxChanges /\ steady \subseteq PageIds
  BY DEF CallInv, TypeOK
<1>3. pages' \in Seq(Page) /\ DOMAIN pages' = PageIds
  BY <1>1, <1>2
<1>4. changes' \in 0 .. MaxChanges /\ steady' \subseteq PageIds
  BY <1>1, <1>2, ReadingAssumption
<1>5. today' \in Days
  BY DEF Change, CallInv, TypeOK
<1> QED
  BY <1>3, <1>4, <1>5, OthersKeepInvariant DEF Change

LEMMA ElsewhereKeepsInvariant ==
  ASSUME CallInv,
         \/ \E p \in PageIds, words \in Rewritings : Edit(p, words)
         \/ \E p \in PageIds : Delete(p)
         \/ \E p \in PageIds, users \in Restrictions : LimitReaders(p, users)
         \/ NextDay
  PROVE  CallInv'
<1>0. TypeOK
  BY DEF CallInv
<1>1. ASSUME NEW p \in PageIds, NEW words \in Rewritings, Edit(p, words) PROVE CallInv'
  <2>1. pages[p] \in Page /\ today \in Days /\ words \in SUBSET Words
    BY <1>0, PagesHaveDates, ReadingAssumption DEF TypeOK
  <2> DEFINE version == pages[p].version + 1
  <2>2. version \in Nat
    BY <2>1 DEF Page
  <2> HIDE DEF version
  <2>3. [pages[p] EXCEPT !.words = words, !.version = version, !.modified = today, !.recorded = TRUE] \in Page
    BY <2>1, <2>2 DEF Page
  <2> QED
    BY <1>1, <2>3, ChangeKeepsInvariant DEF Edit, version
<1>2. ASSUME NEW p \in PageIds, Delete(p) PROVE CallInv'
  <2>1. pages[p] \in Page
    BY <1>0, PagesHaveDates
  <2>2. [pages[p] EXCEPT !.there = FALSE] \in Page
    BY <2>1 DEF Page
  <2> QED
    BY <1>2, <2>2, ChangeKeepsInvariant DEF Delete
<1>3. ASSUME NEW p \in PageIds, NEW users \in Restrictions, LimitReaders(p, users) PROVE CallInv'
  <2>1. pages[p] \in Page /\ users \in SUBSET Users
    BY <1>0, PagesHaveDates, ReadingAssumption
  <2>2. [pages[p] EXCEPT !.restricted = users] \in Page
    BY <2>1 DEF Page
  <2> QED
    BY <1>3, <2>2, ChangeKeepsInvariant DEF LimitReaders
<1>4. CASE NextDay
  <2>1. today' \in Days
    BY <1>0, <1>4, ReadingAssumption DEF NextDay, TypeOK, Days
  <2>2. /\ pages' \in Seq(Page) /\ DOMAIN pages' = PageIds
        /\ changes' \in 0 .. MaxChanges /\ steady' \subseteq PageIds
    BY <1>0, <1>4 DEF NextDay, TypeOK
  <2> QED
    BY <1>4, <2>1, <2>2, OthersKeepInvariant DEF NextDay
<1> QED
  BY <1>1, <1>2, <1>3, <1>4

(* A capability is called: it begins with nothing read and its first queries. *)
LEMMA CallKeepsInvariant ==
  ASSUME CallInv, NEW r \in Requests, Call(r)
  PROVE  CallInv'
<1>0. TypeOK /\ request' = r /\ read' = << >> /\ found' = << >>
  BY DEF CallInv, Call
<1>1. /\ r.kind \in Kinds /\ r.text \in Seq(Words) /\ r.pages \in Seq(PageIds)
      /\ r.page \in PageIds \cup {0}
      /\ r.kind \in PageKinds => r.page \in PageIds
      /\ r.kind = "assess_pages" => r.pages # << >>
  BY RequestsAreWellFormed
<1>2. /\ queries' \in Seq(Seq(Words)) /\ queries' # << >>
      /\ r.kind = "answer" => queries'[Len(queries')] = Subject(r.text)
  <2>1. CASE r.kind = "answer"
    <3>1. queries' = Ladder(r.text)
      BY <2>1 DEF Call
    <3> QED
      BY <1>1, <3>1, LadderEndsWithSubject
  <2>2. CASE r.kind # "answer"
    <3>1. queries' = <<r.text>>
      BY <2>2 DEF Call
    <3> QED
      BY <1>1, <2>2, <3>1
  <2> QED
    BY <2>1, <2>2
<1>3. todo' = IF r.kind = "assess_pages" THEN r.pages ELSE <<r.page>>
  BY DEF Call
<1>4. stage' = "idle" \/ (stage' = FirstStage(r.kind) /\ told' = Nothing)
  BY DEF Call, Fails, FailsAs, Told, Answers
<1>5. /\ stage' \in {"idle", "searching", "reading", "listing", "looking"}
      /\ r.kind \in KindsAt(stage')
      /\ stage' = "reading" => r.kind = "assess_pages" \/ r.kind \in PageKinds \ {"get_children"}
  BY <1>1, <1>4 DEF FirstStage, KindsAt, Kinds, PageKinds
<1>6. stage' = "reading" => r.page \in PageIds \/ r.kind = "assess_pages"
  BY <1>1, <1>5
<1>7. /\ todo' \in Seq(PageIds \cup {0})
      /\ stage' = "reading" => todo' # << >> /\ todo' \in Seq(PageIds)
  <2>1. CASE r.kind = "assess_pages"
    <3>1. r.pages \in Seq(PageIds \cup {0})
      BY <1>1
    <3> QED
      BY <1>1, <1>3, <2>1, <3>1
  <2>2. CASE r.kind # "assess_pages"
    <3>1. todo' = <<r.page>> /\ <<r.page>> # << >>
      BY <1>3, <2>2
    <3>2. <<r.page>> \in Seq(PageIds \cup {0}) /\ (r.page \in PageIds => <<r.page>> \in Seq(PageIds))
      BY <1>1
    <3> QED
      BY <1>6, <2>2, <3>1, <3>2
  <2> QED
    BY <2>1, <2>2
<1>8. stage' = "reading" => Head(todo') # 0
  <2> SUFFICES ASSUME stage' = "reading" PROVE Head(todo') # 0
    OBVIOUS
  <2>1. Head(todo') \in PageIds
    BY <1>7
  <2> QED
    BY <2>1, PageIdsAreFinite
<1>9. TypeOK'
  BY <1>0, <1>2, <1>5, <1>7, <1>8 DEF Call, TypeOK
<1>10. UnderWay'
  BY <1>0, <1>4, <1>5, <1>7 DEF UnderWay
<1>11. Asking' /\ ReadsAreAllowed'
  BY <1>0, <1>2 DEF Asking, ReadsAreAllowed, Entitled
<1>12. OnCourse'
  <2>1. PagesRead' = << >>
    BY <1>0 DEF PagesRead
  <2>2. stage' = "reading" => PagesRead' \o todo' = PagesMeant'
    <3> SUFFICES ASSUME stage' = "reading" PROVE PagesRead' \o todo' = PagesMeant'
      OBVIOUS
    <3>1. PagesRead' \o todo' = todo'
      BY <1>7, <2>1
    <3>2. r.kind \in {"get_page", "summarise", "discussion", "subtree", "assess_pages"}
      BY <1>4, <1>5 DEF FirstStage, Kinds
    <3>3. <<r.page>> \o << >> = <<r.page>>
      OBVIOUS
    <3> QED
      BY <1>0, <1>3, <3>1, <3>2, <3>3 DEF PagesMeant
  <2>3. stage' # "reasoning"
    BY <1>5
  <2>4. ~(stage' \in {"listing", "looking"} /\ r.kind \in {"subtree", "discussion"})
    BY <1>4 DEF FirstStage
  <2>5. ~(stage' = "reading" /\ r.kind = "answer")
    BY <1>4 DEF FirstStage
  <2> QED
    BY <1>0, <2>2, <2>3, <2>4, <2>5 DEF OnCourse
<1> QED
  BY <1>9, <1>10, <1>11, <1>12 DEF CallInv

(* A result, or a failure, leaves nothing under way. *)
LEMMA AnsweringKeepsInvariant ==
  ASSUME CallInv, stage' = "idle",
         UNCHANGED <<backend, pages, today, changes, steady, request>>,
         queries' \in Seq(Seq(Words)), todo' \in Seq(PageIds \cup {0}), read' \in Seq(ReadRecord),
         matched' \subseteq PageIds, found' \in Seq(PageIds), ReadsAreAllowed'
  PROVE  CallInv'
<1>1. TypeOK'
  BY DEF CallInv, TypeOK
<1>2. request.kind \in KindsAt("idle")
  <2>1. request = NoRequest \/ request.kind \in Kinds
    BY RequestsAreWellFormed DEF CallInv, TypeOK
  <2> QED
    BY <2>1 DEF KindsAt, NoRequest
<1>3. UnderWay' /\ Asking' /\ OnCourse'
  BY <1>2 DEF UnderWay, Asking, OnCourse
<1> QED
  BY <1>1, <1>3 DEF CallInv

(* A search, whatever becomes of what it found. *)
LEMMA SearchKeepsInvariant ==
  ASSUME CallInv, Search
  PROVE  CallInv'
<1> DEFINE S == Matching(request.user, Head(queries), request.space)
<1>0. TypeOK /\ UnderWay /\ Asking /\ stage = "searching"
  BY DEF CallInv, Search
<1>1. /\ request \in Requests /\ told = Nothing /\ read = << >>
      /\ request.kind \in {"search", "answer", "assess_space"}
  BY <1>0 DEF UnderWay, KindsAt
<1>2. Limit \in Nat /\ Limit # 0 /\ (request.kind = "answer" => Limit = PagesConsulted)
  BY <1>1, RequestsAreWellFormed, ReadingAssumption DEF Limit
<1>3. S \in SUBSET PageIds
  BY DEF Matching
<1> HIDE DEF S
<1>4. PICK selection \in Selections(S, Limit) :
        /\ found' = selection /\ matched' = S /\ queries' = Broadened(queries)
        /\ \/ stage' = "idle" /\ todo' = todo
           \/ /\ request.kind = "answer" /\ selection # << >>
              /\ stage' = "reading" /\ todo' = selection /\ told' = told
           \/ /\ request.kind = "answer" /\ selection = << >> /\ Len(queries) > 1
              /\ stage' = stage /\ told' = told /\ todo' = todo
  BY DEF Search, S, Succeeds, Fails, FailsAs, Told, Answers
<1>5. selection \in Seq(PageIds) /\ Len(selection) <= Limit
  BY <1>0, <1>2, <1>3, SelectionIsOfMatches
<1>6. queries \in Seq(Seq(Words)) /\ queries # << >>
  BY <1>0 DEF TypeOK
<1>7. queries' \in Seq(Seq(Words)) /\ queries' = Tail(queries)
  BY <1>4, <1>6 DEF Broadened
<1>8. UNCHANGED <<backend, pages, today, changes, steady, request, read>>
  BY DEF Search, wiki
<1>9. ReadsAreAllowed'
  BY <1>1, <1>8 DEF ReadsAreAllowed, Entitled
<1>10. CASE stage' = "idle" /\ todo' = todo
  <2>1. todo' \in Seq(PageIds \cup {0}) /\ read' \in Seq(ReadRecord)
    BY <1>0, <1>8, <1>10 DEF TypeOK
  <2> QED
    BY <1>3, <1>4, <1>5, <1>7, <1>8, <1>9, <1>10, <2>1, AnsweringKeepsInvariant
<1>11. CASE /\ request.kind = "answer" /\ selection # << >>
            /\ stage' = "reading" /\ todo' = selection /\ told' = told
  <2>1. selection \in Seq(PageIds \cup {0}) /\ Head(selection) \in PageIds
    BY <1>5, <1>11
  <2>2. TypeOK'
    BY <1>0, <1>3, <1>4, <1>7, <1>8, <1>11, <2>1, PageIdsAreFinite DEF TypeOK
  <2>3. UnderWay' /\ Asking'
    BY <1>1, <1>4, <1>5, <1>8, <1>11 DEF UnderWay, KindsAt, Asking
  <2>4. PagesRead' = << >> /\ << >> \o selection = selection
    BY <1>1, <1>5, <1>8 DEF PagesRead
  <2>5. OnCourse'
    BY <1>2, <1>4, <1>5, <1>8, <1>11, <2>4 DEF OnCourse, PagesMeant
  <2> QED
    BY <1>9, <2>2, <2>3, <2>5 DEF CallInv
<1>12. CASE /\ request.kind = "answer" /\ selection = << >> /\ Len(queries) > 1
            /\ stage' = stage /\ told' = told /\ todo' = todo
  <2>1. queries' # << >> /\ queries'[Len(queries')] = queries[Len(queries)]
    BY <1>6, <1>7, <1>12, TailEndsAlike
  <2>2. TypeOK'
    BY <1>0, <1>3, <1>4, <1>7, <1>8, <1>12, <2>1 DEF TypeOK
  <2>3. UnderWay'
    BY <1>0, <1>1, <1>4, <1>5, <1>8, <1>12 DEF UnderWay, KindsAt
  <2>4. Asking'
    BY <1>0, <1>8, <1>12, <2>1 DEF Asking
  <2>5. OnCourse'
    BY <1>0, <1>12 DEF OnCourse
  <2> QED
    BY <1>9, <2>2, <2>3, <2>4, <2>5 DEF CallInv
<1> QED
  BY <1>4, <1>10, <1>11, <1>12

(* What stands in nobody's way may be read, by the account the connection acts
   for and so by the one its user is held to. *)
LEMMA UnobstructedMayBeRead ==
  ASSUME NEW u, NEW p
  PROVE  /\ Serves(u) => Acting(u) = Entitled(u)
         /\ Obstacles(u, p) = {None} => Serves(u) /\ MayRead(Entitled(u), p)
         /\ PageObstacles(u, p) = {None} => Serves(u) /\ MayRead(Entitled(u), p)
<1>1. Obstacles(u, p) = {None} => Serves(u) /\ MayRead(Acting(u), p)
  BY DEF Obstacles, None
<1>2. Serves(u) => Acting(u) = Entitled(u)
  BY DEF Serves, Acting, Entitled
<1>3. PageObstacles(u, p) = {None} => Obstacles(u, p) = {None}
  BY DEF PageObstacles, None
<1> QED
  BY <1>1, <1>2, <1>3

(* A page is read, by somebody who may read it. *)
LEMMA ReadPageKeepsInvariant ==
  ASSUME CallInv, ReadPage
  PROVE  CallInv'
<1> DEFINE p == Head(todo)
<1>0. TypeOK /\ UnderWay /\ OnCourse /\ ReadsAreAllowed /\ stage = "reading"
  BY DEF CallInv, ReadPage
<1>1. /\ todo \in Seq(PageIds) /\ todo # << >> /\ request \in Requests /\ told = Nothing
      /\ request.kind \in KindsAt("reading")
  BY <1>0 DEF UnderWay, TypeOK
<1>2. p \in PageIds /\ Tail(todo) \in Seq(PageIds) /\ Len(todo) \in Nat
  BY <1>1
<1> HIDE DEF p
<1>3. /\ read' = Append(read, Reading(p)) /\ todo' = Tail(todo)
      /\ UNCHANGED <<backend, pages, today, changes, steady, request, queries, found, matched>>
      /\ PageObstacles(request.user, p) = {None}
      /\ stage' = "idle" \/ (request.kind # "get_page" /\ stage' = NextStage /\ told' = told)
  BY DEF ReadPage, wiki, Succeeds, Answers, p
<1>4. /\ Reading(p) \in ReadRecord /\ Reading(p).page = p
      /\ Entitled(request.user) \in Reading(p).readers
  <2>1. MayRead(Entitled(request.user), p)
    BY <1>3, UnobstructedMayBeRead
  <2>2. Entitled(request.user) \in Users
    BY <1>1, RequestsAreWellFormed, ReadingAssumption DEF Entitled
  <2> QED
    BY <1>0, <1>2, <2>1, <2>2, PagesHaveDates DEF Reading
<1>5. read \in Seq(ReadRecord) /\ read' \in Seq(ReadRecord) /\ read' # << >>
  <2>1. read \in Seq(ReadRecord)
    BY <1>0 DEF TypeOK
  <2>2. read' \in Seq(ReadRecord) /\ Len(read') = Len(read) + 1 /\ Len(read) \in Nat
    BY <1>3, <1>4, <2>1
  <2>3. Len(read') # 0 /\ Len(<< >>) = 0
    BY <2>2
  <2> QED
    BY <2>1, <2>2, <2>3, Zenon
<1>6. PagesRead \in Seq(PageIds) /\ PagesRead' = Append(PagesRead, p) /\ PagesRead' \in Seq(PageIds)
  <2>0. \A record \in ReadRecord : record.page \in PageIds
    BY DEF ReadRecord
  <2>1. \A i \in 1 .. Len(read) : read[i].page \in PageIds
    BY <1>5, <2>0
  <2>2. PagesRead \in Seq(PageIds) /\ Len(PagesRead) = Len(read)
    BY <1>5, <2>1 DEF PagesRead
  <2>3. PagesRead' \in Seq(PageIds) /\ Len(PagesRead') = Len(read) + 1
    <3>1. \A i \in 1 .. Len(read') : read'[i].page \in PageIds
      BY <1>5, <2>0
    <3> QED
      BY <1>3, <1>4, <1>5, <3>1 DEF PagesRead
  <2>4. Append(PagesRead, p) \in Seq(PageIds) /\ Len(Append(PagesRead, p)) = Len(read) + 1
    BY <1>2, <2>2
  <2>5. ASSUME NEW i \in 1 .. Len(read) + 1 PROVE PagesRead'[i] = Append(PagesRead, p)[i]
    <3>1. CASE i = Len(read) + 1
      BY <1>3, <1>4, <1>5, <2>2, <2>3, <3>1 DEF PagesRead
    <3>2. CASE i # Len(read) + 1
      <4>1. i \in 1 .. Len(read) /\ read'[i] = read[i]
        BY <1>3, <1>4, <1>5, <3>2
      <4> QED
        BY <1>5, <2>2, <2>3, <4>1 DEF PagesRead
    <3> QED
      BY <3>1, <3>2
  <2>6. PagesRead' = Append(PagesRead, p)
    BY <2>3, <2>4, <2>5, SeqEqual
  <2> QED
    BY <2>2, <2>3, <2>6
<1>7. ReadsAreAllowed'
  <2>1. \A i \in 1 .. Len(read') : read'[i] = Reading(p) \/ (i \in 1 .. Len(read) /\ read'[i] = read[i])
    BY <1>3, <1>4, <1>5
  <2>2. Entitled(request.user)' = Entitled(request.user)
    BY <1>3 DEF Entitled
  <2> QED
    BY <1>0, <1>4, <1>5, <2>1, <2>2 DEF ReadsAreAllowed
<1>8. /\ PagesRead' \o todo' = PagesRead \o todo
      /\ Len(todo) = 1 => PagesRead' = PagesRead \o todo
      /\ Len(todo) > 1 => todo' # << >>
  BY <1>1, <1>3, <1>6, NextIsTaken DEF p
<1>9. CASE stage' = "idle"
  <2>1. todo' \in Seq(PageIds \cup {0}) /\ queries' \in Seq(Seq(Words)) /\ matched' \subseteq PageIds
    BY <1>0, <1>2, <1>3 DEF TypeOK
  <2>2. found' \in Seq(PageIds)
    BY <1>0, <1>3 DEF UnderWay
  <2> QED
    BY <1>3, <1>5, <1>7, <1>9, <2>1, <2>2, AnsweringKeepsInvariant
<1>10. CASE request.kind # "get_page" /\ stage' = NextStage /\ told' = told
  <2>1. /\ stage' \in {"reading", "listing", "looking", "reasoning"}
        /\ stage' = "reading" => Len(todo) > 1
        /\ stage' # "reading" => ~(Len(todo) > 1)
        /\ stage' = "listing" <=> stage' # "reading" /\ request.kind = "subtree" /\ read = << >>
        /\ stage' = "looking" <=> stage' # "reading" /\ request.kind = "discussion"
    BY <1>10 DEF NextStage, MoreToRead
  <2>2. request.kind \in KindsAt(stage') /\ (stage' # "reading" => Len(todo) = 1)
    <3>1. Len(todo) # 0
      BY <1>1
    <3>2. request.kind \in {"summarise", "discussion", "subtree", "answer", "assess_pages"}
      BY <1>1, <1>10 DEF KindsAt
    <3>3. request.kind \in KindsAt(stage')
      BY <2>1, <3>2 DEF KindsAt
    <3>4. stage' # "reading" => Len(todo) = 1
      <4>1. ~(Len(todo) > 1) => Len(todo) = 1
        BY <1>2, <3>1
      <4> QED
        BY <2>1, <4>1
    <3> QED
      BY <3>3, <3>4
  <2>3. TypeOK'
    <3>1. /\ todo' \in Seq(PageIds \cup {0})
          /\ stage' = "reading" => todo' # << >> /\ Head(todo') # 0
      <4>1. todo' \in Seq(PageIds) /\ (stage' = "reading" => todo' # << >>)
        BY <1>2, <1>3, <1>8, <2>1
      <4>2. todo' # << >> => Head(todo') \in PageIds
        BY <4>1
      <4> QED
        BY <4>1, <4>2, PageIdsAreFinite
    <3> QED
      BY <1>0, <1>3, <1>5, <2>1, <3>1 DEF TypeOK
  <2>4. stage' = "listing" => found = << >>
    BY <1>0, <2>1 DEF OnCourse
  <2>5. UnderWay'
    BY <1>0, <1>1, <1>2, <1>3, <1>10, <2>1, <2>2, <2>4 DEF UnderWay
  <2>6. Asking'
    BY <2>1 DEF Asking
  <2>7. PagesRead \o todo = PagesMeant /\ PagesMeant' = PagesMeant
    BY <1>0, <1>3 DEF OnCourse, PagesMeant
  <2>8. stage' \in {"listing", "looking"} => PagesRead' = <<request.page>>
    <3>1. CASE stage' = "listing"
      <4>1. PagesMeant = <<request.page>> \o << >>
        BY <2>1, <2>4, <3>1 DEF PagesMeant
      <4>2. <<request.page>> \o << >> = <<request.page>>
        OBVIOUS
      <4> QED
        BY <1>8, <2>1, <2>2, <2>7, <3>1, <4>1, <4>2
    <3>2. CASE stage' = "looking"
      BY <1>8, <2>1, <2>2, <2>7, <3>2 DEF PagesMeant
    <3> QED
      BY <3>1, <3>2
  <2>9. OnCourse'
    <3>1. stage' = "reading" => PagesRead' \o todo' = PagesMeant'
      BY <1>8, <2>7
    <3>2. stage' = "reasoning" => PagesRead' = PagesMeant'
      BY <1>8, <2>2, <2>7
    <3>3. stage' \in {"reading", "reasoning"} /\ request.kind = "answer" => Len(found) <= PagesConsulted
      BY <1>0 DEF OnCourse
    <3> QED
      BY <1>3, <1>5, <2>8, <3>1, <3>2, <3>3 DEF OnCourse
  <2> QED
    BY <1>7, <2>3, <2>5, <2>6, <2>9 DEF CallInv
<1> QED
  BY <1>3, <1>9, <1>10

(* The children of a page are listed, for themselves or to be read. *)
LEMMA ListChildrenKeepsInvariant ==
  ASSUME CallInv, ListChildren
  PROVE  CallInv'
<1> DEFINE S == Children(request.user, request.page)
<1>0. TypeOK /\ UnderWay /\ OnCourse /\ ReadsAreAllowed /\ stage = "listing"
  BY DEF CallInv, ListChildren
<1>1. request \in Requests /\ told = Nothing /\ request.kind \in {"get_children", "subtree"}
  BY <1>0 DEF UnderWay, KindsAt
<1>2. S \in SUBSET PageIds
  BY DEF Children
<1>3. PICK listing \in Listings(S) :
        /\ found' = listing /\ todo' = listing
        /\ \/ stage' = "idle"
           \/ /\ request.kind # "get_children" /\ told' = told
              /\ stage' = IF listing = << >> THEN "reasoning" ELSE "reading"
  BY DEF ListChildren, Succeeds, Answers
<1> HIDE DEF S
<1>4. listing \in Seq(PageIds)
  BY <1>2, ListingIsOfChildren
<1>5. UNCHANGED <<backend, pages, today, changes, steady, request, queries, read, matched>>
  BY DEF ListChildren, wiki
<1>6. listing \in Seq(PageIds \cup {0}) /\ (listing # << >> => Head(listing) # 0)
  <2>1. listing # << >> => Head(listing) \in PageIds
    BY <1>4
  <2> QED
    BY <1>4, <2>1, PageIdsAreFinite
<1>7. ReadsAreAllowed'
  BY <1>0, <1>5 DEF ReadsAreAllowed, Entitled
<1>8. CASE stage' = "idle"
  <2>1. queries' \in Seq(Seq(Words)) /\ read' \in Seq(ReadRecord) /\ matched' \subseteq PageIds
    BY <1>0, <1>5 DEF TypeOK
  <2> QED
    BY <1>3, <1>4, <1>5, <1>6, <1>7, <1>8, <2>1, AnsweringKeepsInvariant
<1>9. CASE /\ request.kind # "get_children" /\ told' = told
           /\ stage' = IF listing = << >> THEN "reasoning" ELSE "reading"
  <2>1. TypeOK'
    BY <1>0, <1>3, <1>5, <1>6, <1>9 DEF TypeOK
  <2>2. request.kind = "subtree"
    BY <1>1, <1>9
  <2>3. UnderWay'
    BY <1>1, <1>3, <1>4, <1>5, <1>9, <2>2 DEF UnderWay, KindsAt
  <2>4. Asking'
    BY <1>9 DEF Asking
  <2>5. PagesRead = <<request.page>> /\ PagesRead' = PagesRead
    BY <1>0, <1>5, <2>2 DEF OnCourse, PagesRead
  <2>6. read # << >>
    <3>1. SUFFICES ASSUME read = << >> PROVE FALSE
      OBVIOUS
    <3>2. PagesRead = << >>
      BY <3>1 DEF PagesRead
    <3> QED
      BY <2>5, <3>2
  <2>7. PagesMeant' = <<request.page>> \o listing
    BY <1>3, <1>5, <2>2 DEF PagesMeant
  <2>8. <<request.page>> \o << >> = <<request.page>>
    OBVIOUS
  <2>9. OnCourse'
    BY <1>3, <1>5, <1>9, <2>2, <2>5, <2>6, <2>7, <2>8 DEF OnCourse
  <2> QED
    BY <1>7, <2>1, <2>3, <2>4, <2>9 DEF CallInv
<1> QED
  BY <1>3, <1>8, <1>9

(* The comments or the history of a page are looked at. *)
LEMMA LookKeepsInvariant ==
  ASSUME CallInv, Look
  PROVE  CallInv'
<1>0. TypeOK /\ UnderWay /\ OnCourse /\ ReadsAreAllowed /\ stage = "looking"
  BY DEF CallInv, Look
<1>1. request \in Requests /\ told = Nothing
  BY <1>0 DEF UnderWay
<1>2. UNCHANGED <<backend, pages, today, changes, steady, request, queries, todo, read, found, matched>>
  BY DEF Look, wiki
<1>3. stage' = "idle" \/ (request.kind = "discussion" /\ stage' = "reasoning" /\ told' = told)
  BY DEF Look, Succeeds, Answers
<1>4. ReadsAreAllowed'
  BY <1>0, <1>2 DEF ReadsAreAllowed, Entitled
<1>5. CASE stage' = "idle"
  <2>1. /\ queries' \in Seq(Seq(Words)) /\ todo' \in Seq(PageIds \cup {0}) /\ read' \in Seq(ReadRecord)
        /\ matched' \subseteq PageIds /\ found' \in Seq(PageIds)
    BY <1>0, <1>2 DEF TypeOK, UnderWay
  <2> QED
    BY <1>2, <1>4, <1>5, <2>1, AnsweringKeepsInvariant
<1>6. CASE request.kind = "discussion" /\ stage' = "reasoning" /\ told' = told
  <2>1. TypeOK'
    BY <1>0, <1>2, <1>6 DEF TypeOK
  <2>2. UnderWay' /\ Asking'
    BY <1>0, <1>1, <1>2, <1>6 DEF UnderWay, KindsAt, Asking
  <2>3. PagesRead = <<request.page>> /\ PagesRead' = PagesRead /\ PagesMeant' = <<request.page>>
    BY <1>0, <1>2, <1>6 DEF OnCourse, PagesRead, PagesMeant
  <2>4. OnCourse'
    BY <1>2, <1>6, <2>3 DEF OnCourse
  <2> QED
    BY <1>4, <2>1, <2>2, <2>4 DEF CallInv
<1> QED
  BY <1>3, <1>5, <1>6

(* A failure, a conclusion or a report ends the call. *)
LEMMA EndingKeepsInvariant ==
  ASSUME CallInv, FailCall \/ Reason \/ Assess
  PROVE  CallInv'
<1>1. /\ stage' = "idle"
      /\ UNCHANGED <<backend, pages, today, changes, steady, request, queries, todo, read, found, matched>>
  BY DEF FailCall, Reason, Assess, FailsAs, Fails, Succeeds, Answers, wiki
<1>2. /\ queries' \in Seq(Seq(Words)) /\ todo' \in Seq(PageIds \cup {0}) /\ read' \in Seq(ReadRecord)
      /\ matched' \subseteq PageIds /\ found' \in Seq(PageIds)
  BY <1>1 DEF CallInv, TypeOK, UnderWay
<1>3. ReadsAreAllowed'
  BY <1>1 DEF CallInv, ReadsAreAllowed, Entitled
<1> QED
  BY <1>1, <1>2, <1>3, AnsweringKeepsInvariant

LEMMA KeepsInvariant == CallInv /\ [Next]_vars => CallInv'
<1> SUFFICES ASSUME CallInv, [Next]_vars PROVE CallInv'
  OBVIOUS
<1>1. CASE UNCHANGED vars
  <2>1. /\ UNCHANGED <<backend, request, stage, queries, todo, read, told, found, matched>>
        /\ UNCHANGED <<pages, today, changes, steady>>
    BY <1>1 DEF vars
  <2>2. /\ pages' \in Seq(Page) /\ DOMAIN pages' = PageIds /\ today' \in Days
        /\ changes' \in 0 .. MaxChanges /\ steady' \subseteq PageIds
    BY <2>1 DEF CallInv, TypeOK
  <2> QED
    BY <2>1, <2>2, OthersKeepInvariant
<1>2. ASSUME NEW r \in Requests, Call(r) PROVE CallInv'
  BY <1>2, CallKeepsInvariant
<1>3. CASE Step
  BY <1>3, SearchKeepsInvariant, ReadPageKeepsInvariant, ListChildrenKeepsInvariant,
     LookKeepsInvariant, EndingKeepsInvariant DEF Step
<1>4. CASE \/ \E p \in PageIds, words \in Rewritings : Edit(p, words)
           \/ \E p \in PageIds : Delete(p)
           \/ \E p \in PageIds, users \in Restrictions : LimitReaders(p, users)
           \/ NextDay
  BY <1>4, ElsewhereKeepsInvariant
<1> QED
  BY <1>1, <1>2, <1>3, <1>4 DEF Next

(* Every state of every call satisfies the invariant. *)
THEOREM CallsAreOnCourse == Spec => []CallInv
<1>1. Init => CallInv
  BY StartsInvariant
<1>2. CallInv /\ [Next]_vars => CallInv'
  BY KeepsInvariant
<1> QED
  BY <1>1, <1>2, PTL DEF Spec

(* The wiki a call reads is made of pages, its steps have what they take, and an
   idle reader has nothing under way. *)
THEOREM ReadingTypeCorrect == Spec => []TypeOK
<1>1. CallInv => TypeOK
  BY DEF CallInv
<1> QED
  BY <1>1, CallsAreOnCourse, PTL

-----------------------------------------------------------------------------
(* What is told. *)

LEMMA FailuresAreTold ==
  /\ \A cause, report : FailsAs(cause, report) =>
       /\ told'.outcome = "failed" /\ told'.cause = cause
       /\ told'.error = report.error /\ told'.marks = report.marks
  /\ \A failure : Fails(failure) => told'.outcome = "failed" /\ told'.error = failure /\ told'.cause = failure
<1>1. ASSUME NEW cause, NEW report, FailsAs(cause, report)
      PROVE  /\ told'.outcome = "failed" /\ told'.cause = cause
             /\ told'.error = report.error /\ told'.marks = report.marks
  BY <1>1 DEF FailsAs, Answers, Nothing
<1>2. ASSUME NEW failure, Fails(failure)
      PROVE  told'.outcome = "failed" /\ told'.error = failure /\ told'.cause = failure
  BY <1>1, <1>2 DEF Fails, Told
<1> QED
  BY <1>1, <1>2

(* A failure is told for what it was, or for what the prose of a server that was
   asked spoke of. *)
ToldRightly ==
  \/ told.error = told.cause
  \/ /\ Atlassian /\ Serves(request.user)
     /\ told.marks \subseteq Marks /\ told.error = Translated(told.marks)

LEMMA TranslationNamesNoSilence ==
  ASSUME NEW marks
  PROVE  Translated(marks) \in {"access_denied", "not_found", "protocol"}
BY DEF Translated

(* A step tells nothing, or of a failure rightly, or is one of those that bring
   something. *)
LEMMA StepsThatTell ==
  ASSUME CallInv, [Next]_vars
  PROVE  \/ UNCHANGED vars
         \/ told' = Nothing
         \/ told'.outcome = "failed" /\ ToldRightly' /\ told'.error # "ungrounded"
         \/ Search \/ ReadPage \/ ListChildren \/ Look \/ Reason \/ Assess
<1>0. stage # "idle" => told = Nothing
  BY DEF CallInv, UnderWay
<1>2. ASSUME NEW r \in Requests, Call(r)
      PROVE  \/ told' = Nothing
             \/ told'.outcome = "failed" /\ told'.error = told'.cause /\ told'.error # "ungrounded"
  <2>1. \/ told' = Nothing
        \/ Refusal(r) # None /\ Fails(Refusal(r))
    BY <1>2 DEF Call
  <2>2. Refusal(r) # "ungrounded"
    BY DEF Refusal, None
  <2> QED
    BY <2>1, <2>2, FailuresAreTold
<1>3. ASSUME FailCall
      PROVE  told'.outcome = "failed" /\ ToldRightly' /\ told'.error # "ungrounded"
  <2>1. PICK cause \in Causes : \E report \in Arriving(request, cause) : FailsAs(cause, report)
    BY <1>3 DEF FailCall
  <2>2. PICK report \in Arriving(request, cause) : FailsAs(cause, report)
    BY <2>1
  <2>3. backend \in Backends /\ UNCHANGED <<backend, request>>
    BY <1>3 DEF FailCall, wiki, CallInv, TypeOK
  <2>4. \A u, p : "ungrounded" \notin Obstacles(u, p) /\ "ungrounded" \notin PageObstacles(u, p)
    BY DEF Obstacles, PageObstacles, None
  <2>5. cause # "ungrounded"
    BY <2>4 DEF Causes, LookObstacles
  <2>6. \/ report.error = cause
        \/ /\ Atlassian /\ Serves(request.user)
           /\ report.marks \subseteq Marks /\ report.error = Translated(report.marks)
    BY <2>3, CausesArrive DEF ReportedThere
  <2>7. report.error # "ungrounded"
    BY <2>5, <2>6, TranslationNamesNoSilence
  <2>8. /\ told'.outcome = "failed" /\ told'.error = report.error
        /\ told'.cause = cause /\ told'.marks = report.marks
    BY <2>2, FailuresAreTold
  <2> QED
    BY <2>3, <2>6, <2>7, <2>8 DEF ToldRightly, Atlassian, Serves
<1>4. ASSUME \/ \E p \in PageIds, words \in Rewritings : Edit(p, words)
             \/ \E p \in PageIds : Delete(p)
             \/ \E p \in PageIds, users \in Restrictions : LimitReaders(p, users)
             \/ NextDay
      PROVE  told' = Nothing
  BY <1>0, <1>4 DEF Edit, Delete, LimitReaders, NextDay, Change
<1>5. ASSUME NEW r \in Requests, Call(r)
      PROVE  told' = Nothing \/ (/\ told'.outcome = "failed" /\ ToldRightly'
                                 /\ told'.error # "ungrounded")
  BY <1>2, <1>5 DEF ToldRightly
<1> QED
  BY <1>3, <1>4, <1>5 DEF Next, Step

(* What the agent is told of a failure is what went wrong; only prose that speaks
   of another failure than its own is told as that other. *)
THEOREM FailuresSayWhy == Spec => []FailureSaysWhy
<1>0. ToldRightly => FailureSaysWhy
  BY DEF ToldRightly, FailureSaysWhy, Translated
<1>1. Init => FailureSaysWhy
  BY DEF Init, FailureSaysWhy, Nothing, None
<1>2. CallInv /\ FailureSaysWhy /\ [Next]_vars => FailureSaysWhy'
  <2> SUFFICES ASSUME CallInv, FailureSaysWhy, [Next]_vars PROVE FailureSaysWhy'
    OBVIOUS
  <2>1. CASE UNCHANGED vars
    BY <2>1 DEF FailureSaysWhy, vars, Atlassian, Serves
  <2>2. CASE told' = Nothing
    BY <2>2 DEF FailureSaysWhy, Nothing, None
  <2>3. CASE ToldRightly'
    BY <1>0, <2>3 DEF ToldRightly, FailureSaysWhy, Translated
  <2>4. CASE Search \/ ReadPage \/ ListChildren \/ Look \/ Reason \/ Assess
    <3>1. \/ told' = told /\ stage # "idle"
          \/ told'.outcome = "done"
          \/ told'.error = told'.cause
      <4>1. CASE Search
        BY <4>1, FailuresAreTold DEF Search, Succeeds, Answers, Nothing
      <4>2. CASE ReadPage \/ ListChildren \/ Look \/ Assess
        BY <4>2 DEF ReadPage, ListChildren, Look, Assess, Succeeds, Answers, Nothing
      <4>3. CASE Reason
        BY <4>3, FailuresAreTold DEF Reason, Succeeds, Answers, Nothing
      <4> QED
        BY <2>4, <4>1, <4>2, <4>3
    <3>2. stage # "idle" => told = Nothing
      BY DEF CallInv, UnderWay
    <3> QED
      BY <2>2, <3>1, <3>2 DEF FailureSaysWhy
  <2> QED
    BY <2>1, <2>2, <2>3, <2>4, StepsThatTell
<1> QED
  BY <1>1, <1>2, CallsAreOnCourse, PTL DEF Spec

(* A source is a page this call read, in the version it read, and an answer called
   grounded has one. *)
THEOREM SourcesAreWhatWasRead == Spec => []SourcesWereRead
<1>1. Init => SourcesWereRead
  BY DEF Init, SourcesWereRead, Nothing, None
<1>2. CallInv /\ SourcesWereRead /\ [Next]_vars => SourcesWereRead'
  <2> SUFFICES ASSUME CallInv, SourcesWereRead, [Next]_vars PROVE SourcesWereRead'
    OBVIOUS
  <2>0. stage # "idle" => told = Nothing
    BY DEF CallInv, UnderWay
  <2>1. CASE UNCHANGED vars
    BY <2>1 DEF SourcesWereRead, vars
  <2>2. CASE told' = Nothing
    BY <2>2 DEF SourcesWereRead, Nothing, None
  <2>3. CASE told'.outcome = "failed"
    BY <2>3 DEF SourcesWereRead
  <2>4. CASE Search
    <3>1. request.kind = "answer" =>
            told' = told \/ told' = [Nothing EXCEPT !.outcome = "failed", !.error = "ungrounded", !.cause = "ungrounded",
                                                 !.marks = {}]
      BY <2>4 DEF Search, Fails, FailsAs, Told, Answers
    <3>2. told' = told \/ told'.outcome = "failed" \/ (told'.sources = {} /\ request.kind # "answer")
      BY <2>4, <3>1 DEF Search, Succeeds, Fails, FailsAs, Told, Answers, Nothing
    <3> QED
      BY <2>0, <2>2, <2>3, <2>4, <3>2 DEF Search, SourcesWereRead
  <2>5. CASE ReadPage \/ ListChildren \/ Look \/ Assess
    <3>1. /\ told' = told \/ (told'.sources = {} /\ request.kind # "answer")
          /\ request' = request /\ stage # "idle"
      BY <2>5 DEF ReadPage, ListChildren, Look, Assess, Succeeds, Answers, Nothing, CallInv, UnderWay, KindsAt
    <3> QED
      BY <2>0, <2>2, <3>1 DEF SourcesWereRead
  <2>6. CASE Reason
    <3>1. PICK cited \in SUBSET PageIds, claim \in BOOLEAN :
            IF cited \subseteq ReadIds
            THEN Succeeds([Nothing EXCEPT !.shown = Shown, !.sources = Sources(cited),
                                         !.grounded = request.kind = "answer" => Grounded(claim, cited)])
            ELSE Fails("ungrounded_citation")
      BY <2>6 DEF Reason
    <3>2. CASE ~(cited \subseteq ReadIds)
      BY <2>3, <3>1, <3>2 DEF Fails, FailsAs, Told, Answers, Nothing
    <3>3. CASE cited \subseteq ReadIds
      <4>1. /\ told'.sources = Sources(cited)
            /\ told'.grounded = (request.kind = "answer" => Grounded(claim, cited))
        BY <3>1, <3>3 DEF Succeeds, Answers, Nothing
      <4>2. read' = read /\ request' = request
        BY <2>6 DEF Reason
      <4>3. \A s \in told'.sources : \E i \in DOMAIN read :
              read[i].page = s.page /\ read[i].version = s.version
        BY <4>1 DEF Sources
      <4>4. cited # {} => Sources(cited) # {}
        <5>1. SUFFICES ASSUME NEW c \in cited PROVE Sources(cited) # {}
          OBVIOUS
        <5>2. PICK i \in DOMAIN read : read[i].page = c
          BY <3>3, <5>1 DEF ReadIds
        <5>3. i \in {j \in DOMAIN read : read[j].page \in cited}
          BY <5>1, <5>2
        <5>4. [page |-> read[i].page, version |-> read[i].version] \in Sources(cited)
          BY <5>3, Zenon DEF Sources
        <5> QED
          BY <5>4
      <4>5. request.kind = "answer" /\ told'.grounded => told'.sources # {}
        BY <4>1, <4>4 DEF Grounded
      <4> QED
        BY <4>2, <4>3, <4>5 DEF SourcesWereRead
    <3> QED
      BY <3>2, <3>3
  <2> QED
    BY <2>1, <2>2, <2>3, <2>4, <2>5, <2>6, StepsThatTell
<1> QED
  BY <1>1, <1>2, CallsAreOnCourse, PTL DEF Spec

(* A report of references is about the pages selected. *)
LEMMA JudgedAreSelected ==
  ASSUME TypeOK, NEW S \in SUBSET PageIds, NEW selection \in Seq(S)
  PROVE  \A i \in DOMAIN Judged(selection) : Judged(selection)[i].page \in S
<1> DEFINE assessed == [i \in DOMAIN selection |-> Assessed(selection[i], ModifiedOn(selection[i]))]
           T == {Assessed(p, ModifiedOn(p)) : p \in S}
<1>1. /\ DOMAIN selection = 1 .. Len(selection) /\ Len(selection) \in Nat
      /\ \A i \in DOMAIN selection : selection[i] \in S
  OBVIOUS
<1>2. \A t \in T : t.page \in S /\ t.days \in Int
  BY PagesHaveDates DEF Assessed
<1>3. \A i \in DOMAIN selection : assessed[i] \in T
  BY <1>1
<1>4. assessed \in Seq(T)
  <2> HIDE DEF T
  <2>1. assessed = [i \in 1 .. Len(selection) |-> assessed[i]]
    BY <1>1
  <2> HIDE DEF assessed
  <2>2. assessed \in [1 .. Len(selection) -> T]
    BY <1>1, <1>3, <2>1
  <2> QED
    BY <1>1, <2>2
<1>5. Judged(selection) = MostStaleFirst(assessed)
  BY DEF Judged
<1> HIDE DEF assessed, T
<1>6. DOMAIN assessed = 1 .. Len(assessed) /\ \A k \in DOMAIN assessed : assessed[k].page \in S
  BY <1>2, <1>4
<1>7. \A n \in DOMAIN MostStaleFirst(assessed) :
        \E k \in DOMAIN assessed : MostStaleFirst(assessed)[n] = assessed[k]
  BY <1>2, <1>4, StalestComesFirst
<1> QED
  BY <1>5, <1>6, <1>7

(* Nobody is told of a page that the one they are held to, themselves or the
   account of a connection that names none, could not read at that moment. *)
THEOREM NothingHidden == Spec => []NothingHiddenIsTold
<1>1. Init => NothingHiddenIsTold
  BY DEF Init, NothingHiddenIsTold, Nothing, None
<1>2. CallInv /\ NothingHiddenIsTold /\ [Next]_vars => NothingHiddenIsTold'
  <2> SUFFICES ASSUME CallInv, NothingHiddenIsTold, [Next]_vars PROVE NothingHiddenIsTold'
    OBVIOUS
  <2>0. /\ stage # "idle" => told = Nothing
        /\ ReadsAreAllowed' /\ TypeOK
    BY KeepsInvariant DEF CallInv, UnderWay
  <2>1. CASE UNCHANGED vars
    BY <2>1 DEF NothingHiddenIsTold, vars, MayRead, Entitled
  <2>2. CASE told' = Nothing
    BY <2>2 DEF NothingHiddenIsTold, Nothing, None
  <2>3. CASE told'.outcome = "failed"
    BY <2>3 DEF NothingHiddenIsTold
  <2> DEFINE reader == Entitled(request.user)
  <2>4. ASSUME request' = request, backend' = backend, pages' = pages,
               \A i \in DOMAIN told'.pages : MayRead(reader, told'.pages[i]),
               request.kind = "assess_space" =>
                 \A i \in DOMAIN told'.report : MayRead(reader, told'.report[i].page)
        PROVE  NothingHiddenIsTold'
    BY <2>0, <2>4 DEF NothingHiddenIsTold, ReadsAreAllowed, Entitled, MayRead
  <2>5. CASE Search
    <3> DEFINE S == Matching(request.user, Head(queries), request.space)
    <3>1. S \in SUBSET PageIds /\ \A p \in S : MayRead(reader, p)
      BY <2>5, UnobstructedMayBeRead DEF Search, Matching
    <3>2. request \in Requests /\ request.kind \in {"search", "answer", "assess_space"}
      BY <2>5 DEF Search, CallInv, UnderWay, KindsAt
    <3>3. Limit \in Nat
      BY <3>2, RequestsAreWellFormed, ReadingAssumption DEF Limit
    <3> HIDE DEF S
    <3>4. PICK selection \in Selections(S, Limit) :
            \/ told' = told
            \/ told'.outcome = "failed"
            \/ request.kind # "assess_space" /\ told'.pages = selection
            \/ told'.pages = << >> /\ told'.report = Judged(selection)
      BY <2>5 DEF Search, S, Succeeds, Fails, FailsAs, Told, Answers, Nothing
    <3>5. selection \in Seq(S)
      BY <2>0, <3>1, <3>3, SelectionIsOfMatches
    <3>6. request' = request /\ pages' = pages /\ backend' = backend /\ stage # "idle"
      BY <2>5 DEF Search, wiki
    <3>7. CASE request.kind # "assess_space" /\ told'.pages = selection
      BY <2>4, <3>1, <3>5, <3>6, <3>7
    <3>8. CASE told'.pages = << >> /\ told'.report = Judged(selection)
      <4>1. \A i \in DOMAIN told'.report : MayRead(reader, told'.report[i].page)
        BY <2>0, <3>1, <3>5, <3>8, JudgedAreSelected
      <4> QED
        BY <2>4, <3>6, <3>8, <4>1
    <3> QED
      BY <2>0, <2>2, <2>3, <3>4, <3>6, <3>7, <3>8
  <2>6. CASE ReadPage
    <3>1. /\ told' = told \/ told'.pages = <<Head(todo)>>
          /\ request' = request /\ pages' = pages /\ backend' = backend /\ stage = "reading"
          /\ PageObstacles(request.user, Head(todo)) = {None}
      BY <2>6 DEF ReadPage, wiki, Succeeds, Answers, Nothing
    <3>2. MayRead(reader, Head(todo)) /\ request.kind # "assess_space"
      BY <3>1, UnobstructedMayBeRead DEF CallInv, UnderWay, KindsAt
    <3> QED
      BY <2>0, <2>2, <2>4, <3>1, <3>2
  <2>7. CASE ListChildren
    <3> DEFINE S == Children(request.user, request.page)
    <3>1. S \in SUBSET PageIds /\ \A p \in S : MayRead(Acting(request.user), p)
      BY DEF Children
    <3>2. Acting(request.user) = reader /\ stage = "listing" /\ request.kind # "assess_space"
      BY <2>7, UnobstructedMayBeRead DEF ListChildren, CallInv, UnderWay, KindsAt
    <3>3. PICK listing \in Listings(S) : told' = told \/ told'.pages = listing
      BY <2>7 DEF ListChildren, Succeeds, Answers, Nothing
    <3> HIDE DEF S
    <3>4. listing \in Seq(S)
      BY <3>1, ListingIsOfChildren
    <3>5. request' = request /\ pages' = pages /\ backend' = backend
      BY <2>7 DEF ListChildren, wiki
    <3>6. CASE told'.pages = listing
      BY <2>4, <3>1, <3>2, <3>4, <3>5, <3>6
    <3> QED
      BY <2>0, <2>2, <3>2, <3>3, <3>6
  <2>8. CASE Look
    <3>1. /\ told' = told \/ told'.pages = <<request.page>>
          /\ request' = request /\ pages' = pages /\ backend' = backend /\ stage = "looking"
          /\ Obstacles(request.user, request.page) = {None}
      BY <2>8 DEF Look, LookObstacles, None, wiki, Succeeds, Answers, Nothing
    <3>2. MayRead(reader, request.page) /\ request.kind # "assess_space"
      BY <3>1, UnobstructedMayBeRead DEF CallInv, UnderWay, KindsAt
    <3> QED
      BY <2>0, <2>2, <2>4, <3>1, <3>2
  <2>9. CASE Reason \/ Assess
    <3>1. /\ told'.outcome = "failed" \/ told'.pages = << >>
          /\ request' = request /\ pages' = pages /\ backend' = backend /\ stage = "reasoning"
      BY <2>9 DEF Reason, Assess, wiki, Succeeds, Fails, FailsAs, Told, Answers, Nothing
    <3>2. request.kind # "assess_space"
      BY <3>1 DEF CallInv, UnderWay, KindsAt
    <3> QED
      BY <2>3, <2>4, <3>1, <3>2
  <2> QED
    BY <2>1, <2>2, <2>3, <2>5, <2>6, <2>7, <2>8, <2>9, StepsThatTell
<1> QED
  BY <1>1, <1>2, CallsAreOnCourse, PTL DEF Spec

(* Whatever was found, listed or named has been read when the call concludes. *)
THEOREM NothingIsDropped == Spec => []NothingIsLeftOut
<1>1. Init => NothingIsLeftOut
  BY DEF Init, NothingIsLeftOut, Done, Nothing, None
<1>2. CallInv /\ NothingIsLeftOut /\ [Next]_vars => NothingIsLeftOut'
  <2> SUFFICES ASSUME CallInv, NothingIsLeftOut, [Next]_vars PROVE NothingIsLeftOut'
    OBVIOUS
  <2>0. stage # "idle" => told = Nothing
    BY DEF CallInv, UnderWay
  <2>1. CASE UNCHANGED vars
    BY <2>1 DEF NothingIsLeftOut, Done, vars
  <2>2. CASE told' = Nothing
    BY <2>2 DEF NothingIsLeftOut, Done, Nothing, None
  <2>3. CASE told'.outcome = "failed"
    BY <2>3 DEF NothingIsLeftOut, Done
  <2>4. CASE Search \/ ReadPage \/ ListChildren \/ Look
    <3>1. /\ stage # "idle" /\ request' = request
          /\ \/ told' = told \/ told'.outcome = "failed"
             \/ request.kind \notin {"answer", "subtree", "assess_pages"}
      BY <2>4 DEF Search, ReadPage, ListChildren, Look, Succeeds, Fails, FailsAs, Told, Answers, Nothing, wiki,
                  CallInv, UnderWay, KindsAt
    <3> QED
      BY <2>0, <2>2, <2>3, <3>1 DEF NothingIsLeftOut, Done
  <2>5. CASE Reason
    <3>1. /\ told'.outcome = "failed" \/ told'.shown = Shown
          /\ UNCHANGED <<request, read, found>> /\ stage = "reasoning" /\ request.kind # "assess_pages"
      BY <2>5 DEF Reason, Succeeds, Fails, FailsAs, Told, Answers, Nothing
    <3>2. PagesRead = PagesMeant /\ (request.kind = "answer" => Len(found) <= PagesConsulted)
      BY <3>1 DEF CallInv, OnCourse
    <3>3. Shown = FirstOf(PagesMeant, MaxShown)
      BY <3>2 DEF Shown, PagesRead
    <3>4. request.kind = "answer" => Shown = found
      <4> SUFFICES ASSUME request.kind = "answer" PROVE Shown = found
        OBVIOUS
      <4>1. found \in Seq(PageIds) /\ PagesMeant = found
        BY DEF CallInv, UnderWay, PagesMeant
      <4>2. MaxShown \in Nat /\ Len(found) <= MaxShown
        BY <3>2, <4>1, ReadingAssumption
      <4> QED
        BY <3>3, <4>1, <4>2, FirstOfIsPrefix
    <3>5. request.kind = "subtree" => PagesMeant = <<request.page>> \o found
      BY DEF PagesMeant
    <3> QED
      BY <2>3, <3>1, <3>3, <3>4, <3>5 DEF NothingIsLeftOut, Done
  <2>6. CASE Assess
    <3>1. UNCHANGED <<request, read, found>> /\ stage = "reasoning" /\ request.kind = "assess_pages"
      BY <2>6 DEF Assess
    <3>2. PagesRead = request.pages
      BY <3>1 DEF CallInv, OnCourse, PagesMeant
    <3> QED
      BY <3>1, <3>2 DEF NothingIsLeftOut, Done, PagesRead
  <2> QED
    BY <2>1, <2>2, <2>3, <2>4, <2>5, <2>6, StepsThatTell
<1> QED
  BY <1>1, <1>2, CallsAreOnCourse, PTL DEF Spec

(* A search that is not said to be truncated tells of every match there was. *)
THEOREM UntruncatedTellsAll == Spec => []UntruncatedIsComplete
<1>1. Init => UntruncatedIsComplete
  BY DEF Init, UntruncatedIsComplete, Done, Nothing, None
<1>2. CallInv /\ UntruncatedIsComplete /\ [Next]_vars => UntruncatedIsComplete'
  <2> SUFFICES ASSUME CallInv, UntruncatedIsComplete, [Next]_vars PROVE UntruncatedIsComplete'
    OBVIOUS
  <2>0. (stage # "idle" => told = Nothing) /\ TypeOK
    BY DEF CallInv, UnderWay
  <2>1. CASE UNCHANGED vars
    BY <2>1 DEF UntruncatedIsComplete, Done, vars
  <2>2. CASE told' = Nothing
    BY <2>2 DEF UntruncatedIsComplete, Done, Nothing, None
  <2>3. CASE told'.outcome = "failed"
    BY <2>3 DEF UntruncatedIsComplete, Done
  <2>4. CASE ReadPage \/ ListChildren \/ Look \/ Reason \/ Assess
    <3>1. request' = request /\ request.kind # "search"
      BY <2>4 DEF ReadPage, ListChildren, Look, Reason, Assess, CallInv, UnderWay, KindsAt
    <3> QED
      BY <3>1 DEF UntruncatedIsComplete, Done
  <2>5. CASE Search
    <3> DEFINE S == Matching(request.user, Head(queries), request.space)
    <3>1. /\ S \in SUBSET PageIds /\ request' = request /\ stage # "idle"
          /\ request \in Requests /\ request.kind \in {"search", "answer", "assess_space"}
      BY <2>5 DEF Search, Matching, CallInv, UnderWay, KindsAt
    <3>2. Limit \in Nat
      BY <3>1, RequestsAreWellFormed, ReadingAssumption DEF Limit
    <3> HIDE DEF S
    <3>3. PICK selection \in Selections(S, Limit) :
            /\ matched' = S
            /\ \/ told' = told \/ told'.outcome = "failed" \/ request.kind # "search"
               \/ told'.pages = selection /\ told'.truncated = Truncated(S, selection, Limit)
      BY <2>5 DEF Search, S, Succeeds, Fails, FailsAs, Told, Answers, Nothing
    <3>4. CASE told'.pages = selection /\ told'.truncated = Truncated(S, selection, Limit)
      <4>1. ~told'.truncated => S \subseteq Range(selection)
        BY <2>0, <3>1, <3>2, <3>4, UntruncatedTakesAll
      <4> QED
        BY <3>3, <3>4, <4>1 DEF UntruncatedIsComplete
    <3> QED
      BY <2>0, <2>2, <2>3, <3>1, <3>3, <3>4 DEF UntruncatedIsComplete, Done
  <2> QED
    BY <2>1, <2>2, <2>3, <2>4, <2>5, StepsThatTell
<1> QED
  BY <1>1, <1>2, CallsAreOnCourse, PTL DEF Spec

(* A page that has every word of a text matches any query for it. *)
LEMMA ExactMatchesAreFound ==
  ASSUME NEW u, NEW p \in PageIds, NEW text \in Seq(Words), NEW space,
         MayRead(Acting(u), p), Matches(p, text, space)
  PROVE  p \in Matching(u, text, space)
<1>1. text # << >> => 1 \in DOMAIN text
  BY EmptySeq
<1>2. MatchesCql(p, text, space)
  BY <1>1 DEF Matches, MatchesCql
<1> QED
  BY <1>2 DEF Matching

(* The agent says the wiki is silent only if nothing it may read is about what was
   asked: the last query it tries is for the subject alone. *)
THEOREM SilenceIsTrue == Spec => []SilenceIsHonest
<1>1. Init => SilenceIsHonest
  BY DEF Init, SilenceIsHonest, Nothing, None
<1>2. CallInv /\ SilenceIsHonest /\ [Next]_vars => SilenceIsHonest'
  <2> SUFFICES ASSUME CallInv, SilenceIsHonest, [Next]_vars PROVE SilenceIsHonest'
    OBVIOUS
  <2>0. (stage # "idle" => told = Nothing) /\ TypeOK
    BY DEF CallInv, UnderWay
  <2>1. CASE UNCHANGED vars
    BY <2>1 DEF SilenceIsHonest, vars, MayRead, Acting, Matches
  <2>2. CASE told' = Nothing
    BY <2>2 DEF SilenceIsHonest, Nothing, None
  <2>3. CASE told'.error # "ungrounded"
    BY <2>3 DEF SilenceIsHonest
  <2>4. CASE ReadPage \/ ListChildren \/ Look \/ Reason \/ Assess
    <3>1. stage # "idle" /\ (told' = told \/ told'.error # "ungrounded")
      BY <2>4 DEF ReadPage, ListChildren, Look, Reason, Assess, Succeeds, Fails, FailsAs, Told, Answers, Nothing, None
    <3> QED
      BY <2>0, <2>2, <2>3, <3>1
  <2>5. CASE Search
    <3> DEFINE S == Matching(request.user, Head(queries), request.space)
    <3>1. /\ S \in SUBSET PageIds /\ stage = "searching"
          /\ UNCHANGED <<backend, pages, steady, request>>
      BY <2>5 DEF Search, Matching, wiki
    <3>2. request \in Requests /\ queries \in Seq(Seq(Words)) /\ queries # << >> /\ steady \subseteq PageIds
      BY <3>1 DEF CallInv, UnderWay, TypeOK
    <3>3. Limit \in Nat /\ Limit # 0
      BY <3>2, RequestsAreWellFormed, ReadingAssumption DEF Limit
    <3> HIDE DEF S
    <3>4. PICK selection \in Selections(S, Limit) :
            \/ told' = told \/ told'.error # "ungrounded"
            \/ request.kind = "answer" /\ selection = << >> /\ Len(queries) = 1
      BY <2>5 DEF Search, S, Succeeds, Fails, FailsAs, Told, Answers, Nothing, None
    <3>5. CASE request.kind = "answer" /\ selection = << >> /\ Len(queries) = 1
      <4>1. S = {}
        BY <2>0, <3>1, <3>3, <3>5, SelectionIsOfMatches
      <4>2. Head(queries) = Subject(request.text) /\ Head(queries) \in Seq(Words)
        BY <3>1, <3>2, <3>5 DEF CallInv, Asking
      <4>3. ASSUME NEW p \in steady, MayRead(Acting(request.user), p),
                   Matches(p, Subject(request.text), request.space)
            PROVE  FALSE
        BY <3>2, <4>1, <4>2, <4>3, ExactMatchesAreFound DEF S
      <4> QED
        BY <3>1, <4>3 DEF SilenceIsHonest, MayRead, Acting, Matches
    <3> QED
      BY <2>0, <2>2, <2>3, <3>1, <3>4, <3>5
  <2> QED
    BY <2>1, <2>2, <2>3, <2>4, <2>5, StepsThatTell
<1> QED
  BY <1>1, <1>2, CallsAreOnCourse, PTL DEF Spec

\* The date read of a page nobody touched since is still its date.
DatesStand ==
  \A i \in DOMAIN read :
    read[i].page \in steady /\ Dated(read[i].page) => read[i].modified = pages[read[i].page].modified

LEMMA ChangeKeepsDates ==
  ASSUME CallInv, DatesStand, NEW p \in PageIds, NEW page, Change(p, page)
  PROVE  DatesStand'
<1>1. /\ UNCHANGED <<backend, read>> /\ steady' = steady \ {p}
      /\ pages' = [pages EXCEPT ![p] = page] /\ DOMAIN pages = PageIds /\ steady \subseteq PageIds
  BY DEF Change, CallInv, TypeOK
<1>2. ASSUME NEW q \in steady' PROVE pages'[q] = pages[q] /\ q \in steady
  BY <1>1, <1>2
<1> QED
  BY <1>1, <1>2 DEF DatesStand, Dated, Atlassian

LEMMA ReadPageKeepsDates ==
  ASSUME CallInv, DatesStand, ReadPage
  PROVE  DatesStand'
<1> DEFINE p == Head(todo)
<1>0. TypeOK /\ stage = "reading" /\ todo \in Seq(PageIds) /\ todo # << >>
  BY DEF CallInv, ReadPage, UnderWay, TypeOK
<1>1. p \in PageIds
  BY <1>0
<1> HIDE DEF p
<1>2. read' = Append(read, Reading(p)) /\ UNCHANGED <<backend, pages, steady>>
  BY DEF ReadPage, wiki, p
<1>3. /\ Reading(p) \in ReadRecord /\ Reading(p).page = p
      /\ Dated(p) => Reading(p).modified = pages[p].modified
  BY <1>0, <1>1, PagesHaveDates DEF Reading, ModifiedOn, ReadDate, Dated
<1>4. read \in Seq(ReadRecord)
  BY <1>0 DEF TypeOK
<1>5. ASSUME NEW i \in DOMAIN read' PROVE (i \in DOMAIN read /\ read'[i] = read[i]) \/ read'[i] = Reading(p)
  BY <1>2, <1>3, <1>4
<1> QED
  BY <1>2, <1>3, <1>5 DEF DatesStand, Dated, Atlassian

LEMMA DatesStandAlways == Spec => []DatesStand
<1>1. Init => DatesStand
  BY DEF Init, DatesStand
<1>2. CallInv /\ DatesStand /\ [Next]_vars => DatesStand'
  <2> SUFFICES ASSUME CallInv, DatesStand, [Next]_vars PROVE DatesStand'
    OBVIOUS
  <2>1. CASE UNCHANGED <<backend, pages, read, steady>>
    BY <2>1 DEF DatesStand, Dated, Atlassian
  <2>2. ASSUME NEW r \in Requests, Call(r) PROVE DatesStand'
    BY <2>2 DEF Call, DatesStand
  <2>3. CASE ReadPage
    BY <2>3, ReadPageKeepsDates
  <2>4. ASSUME NEW p \in PageIds, NEW page, Change(p, page) PROVE DatesStand'
    BY <2>4, ChangeKeepsDates
  <2>5. CASE Search \/ ListChildren \/ Look \/ FailCall \/ Reason \/ Assess \/ NextDay \/ UNCHANGED vars
    BY <2>1, <2>5 DEF Search, ListChildren, Look, FailCall, Reason, Assess, NextDay, vars, wiki
  <2> QED
    BY <2>2, <2>3, <2>4, <2>5 DEF Next, Step, Edit, Delete, LimitReaders
<1> QED
  BY <1>1, <1>2, CallsAreOnCourse, PTL DEF Spec

(* What a report is made of comes out of it, the longest unchanged first. *)
LEMMA ReportsJudgeTheirPages ==
  ASSUME TypeOK, NEW dates \in Seq([page : PageIds, modified : Days]),
         NEW report, report = MostStaleFirst([i \in DOMAIN dates |-> Assessed(dates[i].page, dates[i].modified)])
  PROVE  /\ \A n \in DOMAIN report : \E k \in DOMAIN dates :
              report[n] = Assessed(dates[k].page, dates[k].modified)
         /\ \A n, k \in DOMAIN report : n < k => report[n].days >= report[k].days
<1> DEFINE T == {Assessed(d.page, d.modified) : d \in [page : PageIds, modified : Days]}
           assessed == [i \in DOMAIN dates |-> Assessed(dates[i].page, dates[i].modified)]
<1>1. \A d \in [page : PageIds, modified : Days] : DaysSince(d.modified) \in Nat
  BY ReadingAssumption DEF DaysSince, TypeOK, Days
<1>2. \A t \in T : t.days \in Int
  BY <1>1 DEF Assessed
<1>3. DOMAIN dates = 1 .. Len(dates) /\ Len(dates) \in Nat
  OBVIOUS
<1>4. ASSUME NEW i \in DOMAIN dates PROVE assessed[i] \in T
  <2>1. dates[i] \in [page : PageIds, modified : Days]
    BY <1>3, ElementOfSeq
  <2>2. assessed[i] = Assessed(dates[i].page, dates[i].modified)
    OBVIOUS
  <2> QED
    BY <2>1, <2>2, Zenon
<1>5. \A i \in DOMAIN dates : assessed[i] = Assessed(dates[i].page, dates[i].modified)
  OBVIOUS
<1>6. assessed \in Seq(T) /\ DOMAIN assessed = DOMAIN dates
  <2> HIDE DEF T
  <2>1. assessed = [i \in 1 .. Len(dates) |-> assessed[i]]
    BY <1>3
  <2>2. DOMAIN assessed = DOMAIN dates
    OBVIOUS
  <2> HIDE DEF assessed
  <2>3. assessed \in [1 .. Len(dates) -> T]
    BY <1>3, <1>4, <2>1
  <2> QED
    BY <1>3, <2>2, <2>3
<1>7. report = MostStaleFirst(assessed)
  OBVIOUS
<1> HIDE DEF T, assessed
<1>8. /\ \A n \in DOMAIN report : \E k \in DOMAIN assessed : report[n] = assessed[k]
      /\ \A n, k \in DOMAIN report : n < k => report[n].days >= report[k].days
  <2> DEFINE sorted == MostStaleFirst(assessed)
  <2>1. /\ \A n \in DOMAIN sorted : \E k \in DOMAIN assessed : sorted[n] = assessed[k]
        /\ \A n, k \in DOMAIN sorted : n < k => sorted[n].days >= sorted[k].days
    BY <1>2, <1>6, StalestComesFirst
  <2>2. report = sorted
    BY <1>7
  <2> HIDE DEF sorted
  <2> QED
    BY <2>1, <2>2
<1>9. ASSUME NEW n \in DOMAIN report
      PROVE  \E k \in DOMAIN dates : report[n] = Assessed(dates[k].page, dates[k].modified)
  <2>1. PICK k \in DOMAIN assessed : report[n] = assessed[k]
    BY <1>8
  <2>2. k \in DOMAIN dates
    BY <1>6, <2>1
  <2> QED
    BY <1>5, <2>1, <2>2
<1> QED
  BY <1>8, <1>9

(* What is assessed is right about the date it is assessed from. *)
LEMMA AgesAreRight ==
  ASSUME TypeOK, NEW p, NEW day \in Days
  PROVE  Assessed(p, day).page = p /\ RightAbout(Assessed(p, day), day)
<1>1. today \in Nat /\ day \in Nat /\ Ageing \in Nat /\ Stale \in Nat /\ 0 < Ageing /\ Ageing < Stale
  BY ReadingAssumption DEF TypeOK, Days
<1>2. /\ Assessed(p, day).page = p
      /\ Assessed(p, day).days = DaysSince(day)
      /\ Assessed(p, day).verdict = Verdict(DaysSince(day))
  BY DEF Assessed
<1>3. DaysSince(day) \in Nat /\ (day + DaysSince(day) = today \/ (day > today /\ DaysSince(day) = 0))
  <2>1. CASE day > today
    BY <1>1, <2>1 DEF DaysSince
  <2>2. CASE ~(day > today)
    <3>1. DaysSince(day) = today - day
      BY <2>2 DEF DaysSince
    <3> QED
      BY <1>1, <2>2, <3>1
  <2> QED
    BY <2>1, <2>2
<1>4. /\ Verdict(DaysSince(day)) = "stale" <=> day + Stale <= today
      /\ Verdict(DaysSince(day)) = "fresh" <=> today < day + Ageing
  BY <1>1, <1>3 DEF Verdict
<1> QED
  BY <1>2, <1>3, <1>4 DEF RightAbout

(* A report gives the pages nobody touched their age, the longest unchanged first. *)
THEOREM ReportsAreSoberAlways == Spec => []ReportsAreSober
<1>1. Init => ReportsAreSober
  BY DEF Init, ReportsAreSober, Nothing, None
<1>2. CallInv /\ DatesStand /\ ReportsAreSober /\ [Next]_vars => ReportsAreSober'
  <2> SUFFICES ASSUME CallInv, DatesStand, ReportsAreSober, [Next]_vars PROVE ReportsAreSober'
    OBVIOUS
  <2>0. (stage # "idle" => told = Nothing) /\ TypeOK
    BY DEF CallInv, UnderWay
  <2>1. CASE UNCHANGED vars
    BY <2>1 DEF ReportsAreSober, vars, Dated, Atlassian, RightAbout
  <2>2. CASE told'.outcome # "done" \/ told'.report = << >>
    BY <2>2 DEF ReportsAreSober
  <2>3. CASE told' = Nothing
    BY <2>2, <2>3 DEF Nothing, None
  <2>4. CASE ReadPage \/ ListChildren \/ Look \/ Reason
    <3>1. stage # "idle" /\ (told' = told \/ told'.outcome = "failed" \/ told'.report = << >>)
      BY <2>4 DEF ReadPage, ListChildren, Look, Reason, Succeeds, Fails, FailsAs, Told, Answers, Nothing
    <3> QED
      BY <2>0, <2>2, <2>3, <3>1
  <2>5. ASSUME NEW dates \in Seq([page : PageIds, modified : Days]),
               UNCHANGED <<backend, pages, today, steady>>,
               told'.report = MostStaleFirst([i \in DOMAIN dates |-> Assessed(dates[i].page, dates[i].modified)]),
               \A i \in DOMAIN dates : dates[i].page \in steady /\ Dated(dates[i].page)
                                         => dates[i].modified = pages[dates[i].page].modified
        PROVE  ReportsAreSober'
    <3> DEFINE report == told'.report
    <3>1. /\ \A n \in DOMAIN report : \E k \in DOMAIN dates :
               report[n] = Assessed(dates[k].page, dates[k].modified)
          /\ \A n, k \in DOMAIN report : n < k => report[n].days >= report[k].days
      BY <2>0, <2>5, ReportsJudgeTheirPages
    <3>2. \A n \in DOMAIN report : report[n].page \in steady /\ Dated(report[n].page)
            => RightAbout(report[n], pages[report[n].page].modified)
      <4> SUFFICES ASSUME NEW n \in DOMAIN report, report[n].page \in steady, Dated(report[n].page)
                   PROVE  RightAbout(report[n], pages[report[n].page].modified)
        OBVIOUS
      <4>1. PICK k \in DOMAIN dates : report[n] = Assessed(dates[k].page, dates[k].modified)
        BY <3>1
      <4>2. dates[k].modified \in Days
        <5>1. dates[k] \in [page : PageIds, modified : Days]
          <6>1. dates \in Seq([page : PageIds, modified : Days]) /\ k \in 1 .. Len(dates)
            BY <2>5, <4>1
          <6> QED
            BY <6>1, ElementOfSeq
        <5> QED
          BY <5>1
      <4>3. report[n].page = dates[k].page /\ RightAbout(report[n], dates[k].modified)
        BY <2>0, <4>1, <4>2, AgesAreRight
      <4> QED
        BY <2>5, <4>3
    <3> QED
      BY <2>5, <3>1, <3>2 DEF ReportsAreSober, Dated, Atlassian, RightAbout
  <2>6. CASE Search
    <3> DEFINE S == Matching(request.user, Head(queries), request.space)
    <3>1. /\ S \in SUBSET PageIds /\ stage # "idle" /\ request \in Requests
          /\ UNCHANGED <<backend, pages, today, steady>>
      BY <2>6 DEF Search, Matching, CallInv, UnderWay, wiki
    <3>2. Limit \in Nat
      BY <3>1, RequestsAreWellFormed, ReadingAssumption DEF Limit
    <3> HIDE DEF S
    <3>3. PICK selection \in Selections(S, Limit) :
            \/ told' = told \/ told'.outcome = "failed" \/ told'.report = << >>
            \/ told'.report = Judged(selection)
      BY <2>6 DEF Search, S, Succeeds, Fails, FailsAs, Told, Answers, Nothing
    <3>4. selection \in Seq(PageIds)
      BY <2>0, <3>1, <3>2, SelectionIsOfMatches
    <3>5. CASE told'.report = Judged(selection)
      <4> DEFINE dates == [i \in 1 .. Len(selection) |->
                             [page |-> selection[i], modified |-> ModifiedOn(selection[i])]]
      <4>1. DOMAIN selection = 1 .. Len(selection) /\ Len(selection) \in Nat
        BY <3>4
      <4>2. \A i \in 1 .. Len(selection) : selection[i] \in PageIds /\ ModifiedOn(selection[i]) \in Days
        BY <2>0, <3>4, PagesHaveDates
      <4>3. dates \in Seq([page : PageIds, modified : Days]) /\ DOMAIN dates = DOMAIN selection
        BY <4>1, <4>2
      <4>4. \A i \in DOMAIN dates : /\ dates[i].page = selection[i]
                                    /\ dates[i].modified = ModifiedOn(selection[i])
        OBVIOUS
      <4>5. \A i \in DOMAIN dates : Dated(dates[i].page) => dates[i].modified = pages[dates[i].page].modified
        BY <4>4 DEF Dated, ModifiedOn, ReadDate
      <4> HIDE DEF dates
      <4>6. [i \in DOMAIN selection |-> Assessed(selection[i], ModifiedOn(selection[i]))]
              = [i \in DOMAIN dates |-> Assessed(dates[i].page, dates[i].modified)]
        BY <4>3, <4>4
      <4>7. told'.report = MostStaleFirst([i \in DOMAIN dates |-> Assessed(dates[i].page, dates[i].modified)])
        BY <3>5, <4>6 DEF Judged
      <4> QED
        BY <2>5, <3>1, <4>3, <4>5, <4>7
    <3> QED
      BY <2>0, <2>2, <2>3, <3>1, <3>3, <3>5
  <2>7. CASE Assess
    <3> DEFINE dates == [i \in DOMAIN read |-> [page |-> read[i].page, modified |-> read[i].modified]]
    <3>1. UNCHANGED <<backend, pages, today, steady, read>>
      BY <2>7 DEF Assess, wiki
    <3>2. told'.report = MostStaleFirst([i \in DOMAIN read |-> Assessed(read[i].page, read[i].modified)])
      BY <2>7 DEF Assess, Succeeds, Answers, Nothing
    <3>3. read \in Seq(ReadRecord) /\ \A r \in ReadRecord : r.page \in PageIds /\ r.modified \in Days
      BY <2>0 DEF TypeOK, ReadRecord
    <3>4. DOMAIN read = 1 .. Len(read) /\ Len(read) \in Nat
          /\ \A i \in DOMAIN read : read[i].page \in PageIds /\ read[i].modified \in Days
      BY <3>3
    <3>5. dates \in Seq([page : PageIds, modified : Days]) /\ DOMAIN dates = DOMAIN read
      BY <3>4
    <3>6. \A i \in DOMAIN dates : dates[i].page = read[i].page /\ dates[i].modified = read[i].modified
      OBVIOUS
    <3> HIDE DEF dates
    <3>7. [i \in DOMAIN read |-> Assessed(read[i].page, read[i].modified)]
            = [i \in DOMAIN dates |-> Assessed(dates[i].page, dates[i].modified)]
      BY <3>5, <3>6
    <3>8. \A i \in DOMAIN dates : dates[i].page \in steady /\ Dated(dates[i].page)
                                    => dates[i].modified = pages[dates[i].page].modified
      BY <3>5, <3>6 DEF DatesStand
    <3> QED
      BY <2>5, <3>1, <3>2, <3>5, <3>7, <3>8
  <2> QED
    BY <2>1, <2>2, <2>3, <2>4, <2>6, <2>7, StepsThatTell
<1> QED
  BY <1>1, <1>2, CallsAreOnCourse, DatesStandAlways, PTL DEF Spec
===========================================================================
