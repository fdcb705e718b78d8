------------------------- MODULE MailReadingProofs -------------------------
(* Proofs about MailReading, for every mailbox, every set of users, words,   *)
(* labels, requests and backends, and every limit and bound.                 *)
EXTENDS MailReading, OrderLemmas, SequenceTheorems, TLAPS

(***************************************************************************)
(* Where a call can be, and what it has at hand there.                     *)
(***************************************************************************)
\* Messages of the conversation a call names.
OfTheThread(m) == Here(m) /\ Dataset[m].thread = request.thread

UnderWay ==
  /\ stage # "idle" => request \in Requests /\ told = Nothing
  /\ stage \in {"naming", "searching", "fetching"} => request.kind = "search"
  /\ stage \in {"naming", "searching"} => named \subseteq request.criteria.labels /\ read = << >>
  /\ stage = "naming" => backend = "google"
  /\ stage = "fetching" => backend = "gmail"

\* What was read is what was named, or was part of the conversation when it was read.
OnCourse ==
  /\ stage = "reading" => Scope(request) = "messages" /\ read \o todo = request.ids
  /\ stage = "threading" => Scope(request) = "thread"
  /\ stage = "reasoning" => Scope(request) \in {"messages", "thread"}
  /\ stage = "reasoning" /\ Scope(request) = "messages" => read = request.ids
  /\ stage = "reasoning" /\ Scope(request) = "thread" =>
       /\ \A m \in Range(read) : Dataset[m].thread = request.thread
       /\ \A m \in steady : OfTheThread(m) => m \in Range(read)

\* The messages a listing told of, whether their headers have come or not.
Listed == Range(todo) \cup Range(read)

\* Why a match is not listed: it is of the day Gmail leaves out, or the listing
\* was full of messages no older.
Excused(m) ==
  \/ OnTheLastDay(m)
  \/ more /\ \A n \in Listed : Dataset[n].sent >= Dataset[m].sent

\* While the headers come, the listing still stands for what nobody touched.
ListingStands ==
  stage = "fetching" =>
    /\ \A m \in Listed \cap steady : MatchesQuery(m, request.criteria, request.criteria.labels)
    /\ \A m \in steady \ Listed : Matches(m, request.criteria) => Excused(m)

\* The invariant of a call: every theorem below follows from it.
CallInv == TypeOK /\ UnderWay /\ OnCourse /\ ListingStands

-----------------------------------------------------------------------------
(* Messages in order, and the pages cut from them. *)

LEMMA IdsAreFinite ==
  /\ Ids = 1 .. Len(Dataset) /\ \A m \in Ids : m \in Nat /\ Dataset[m].sent \in Nat
  /\ \A S \in SUBSET Ids : IsFiniteSet(S) /\ Cardinality(S) \in Nat
<1>1. Dataset \in Seq(Message) /\ \A m \in Message : m.sent \in Nat
  BY ReadingAssumption DEF Message
<1>2. Ids = 1 .. Len(Dataset) /\ Len(Dataset) \in Nat
  BY <1>1 DEF Ids
<1>3. \A m \in Ids : Dataset[m] \in Message
  BY <1>1 DEF Ids
<1>4. IsFiniteSet(Ids)
  BY <1>2, FS_Interval
<1>5. \A m \in Ids : m \in Nat
  BY <1>2
<1> QED
  BY <1>1, <1>2, <1>3, <1>4, <1>5, FS_Subset, FS_CardinalityType

\* m may come before n.
NoLater(m, n, newestFirst) ==
  IF newestFirst THEN Dataset[m].sent >= Dataset[n].sent ELSE Dataset[m].sent <= Dataset[n].sent

(* Dates, and the dataset where they tie, put every message in one place. *)
LEMMA OrderedHoldsAll ==
  ASSUME NEW S \in SUBSET Ids, NEW newestFirst \in BOOLEAN
  PROVE  /\ Ordered(S, newestFirst) \in Seq(S) /\ Len(Ordered(S, newestFirst)) = Cardinality(S)
         /\ \A m \in S : \E i \in 1 .. Len(Ordered(S, newestFirst)) : Ordered(S, newestFirst)[i] = m
         /\ \A i, j \in 1 .. Len(Ordered(S, newestFirst)) :
              i < j => NoLater(Ordered(S, newestFirst)[i], Ordered(S, newestFirst)[j], newestFirst)
<1> DEFINE before == {mn \in S \X S :
                        \/ IF newestFirst THEN Dataset[mn[1]].sent > Dataset[mn[2]].sent
                                          ELSE Dataset[mn[1]].sent < Dataset[mn[2]].sent
                        \/ Dataset[mn[1]].sent = Dataset[mn[2]].sent /\ mn[1] < mn[2]}
           order == InOrder(S, before)
<1>1. Ordered(S, newestFirst) = order
  BY DEF Ordered
<1>2. IsFiniteSet(S) /\ \A m \in S : m \in Nat /\ Dataset[m].sent \in Nat
  BY IdsAreFinite
<1>3. \A m, n \in S : <<m, n>> \in before <=>
        \/ IF newestFirst THEN Dataset[m].sent > Dataset[n].sent ELSE Dataset[m].sent < Dataset[n].sent
        \/ Dataset[m].sent = Dataset[n].sent /\ m < n
  OBVIOUS
<1> HIDE DEF before
<1>4. \A m \in S : <<m, m>> \notin before
  BY <1>2, <1>3
<1>5. ASSUME NEW m \in S, NEW n \in S, m # n PROVE <<m, n>> \in before \/ <<n, m>> \in before
  <2>1. /\ m < n \/ n < m
        /\ \/ Dataset[m].sent = Dataset[n].sent
           \/ Dataset[m].sent < Dataset[n].sent
           \/ Dataset[m].sent > Dataset[n].sent
    BY <1>2, <1>5
  <2>2. Dataset[m].sent > Dataset[n].sent <=> Dataset[n].sent < Dataset[m].sent
    BY <1>2
  <2> QED
    BY <1>2, <1>3, <2>1, <2>2
<1>6. \A k, m, n \in S : <<k, m>> \in before /\ <<m, n>> \in before => <<k, n>> \in before
  <2>1. CASE newestFirst
    BY <1>2, <1>3, <2>1
  <2>2. CASE ~newestFirst
    BY <1>2, <1>3, <2>2
  <2> QED
    BY <2>1, <2>2
<1>7. OrdersStrictly(before, S)
  BY <1>4, <1>5, <1>6 DEF OrdersStrictly
<1>8. Arranges(order, S, before)
  BY <1>2, <1>7, InOrderArranges
<1> HIDE DEF order
<1>9. /\ order \in Seq(S) /\ Len(order) = Cardinality(S)
      /\ \A m \in S : \E i \in 1 .. Len(order) : order[i] = m
  BY <1>8 DEF Arranges
<1>10. ASSUME NEW i \in 1 .. Len(order), NEW j \in 1 .. Len(order), i < j
       PROVE  NoLater(order[i], order[j], newestFirst)
  <2>1. order[i] \in S /\ order[j] \in S
    BY <1>9
  <2>2. <<order[i], order[j]>> \in before
    BY <1>8, <1>10 DEF Arranges
  <2> QED
    BY <1>2, <1>3, <2>1, <2>2 DEF NoLater
<1> QED
  BY <1>1, <1>9, <1>10

PageOf(S, newestFirst, limit) == FirstOf(Ordered(S, newestFirst), limit)

(* A page holds the first of the messages, and all of them if they are few enough. *)
LEMMA PageBeginsTheOrder ==
  ASSUME NEW S \in SUBSET Ids, NEW newestFirst \in BOOLEAN, NEW limit \in Nat
  PROVE  /\ PageOf(S, newestFirst, limit) \in Seq(Ids) /\ Range(PageOf(S, newestFirst, limit)) \subseteq S
         /\ ~(Cardinality(S) > limit) => Range(PageOf(S, newestFirst, limit)) = S
         /\ limit # 0 /\ S # {} => PageOf(S, newestFirst, limit) # << >>
         /\ \A m \in S \ Range(PageOf(S, newestFirst, limit)), n \in Range(PageOf(S, newestFirst, limit)) :
              NoLater(n, m, newestFirst)
<1> DEFINE order == Ordered(S, newestFirst)
           page == PageOf(S, newestFirst, limit)
<1>1. /\ order \in Seq(S) /\ Len(order) = Cardinality(S)
      /\ \A m \in S : \E i \in 1 .. Len(order) : order[i] = m
      /\ \A i, j \in 1 .. Len(order) : i < j => NoLater(order[i], order[j], newestFirst)
  BY OrderedHoldsAll
<1>2. page = FirstOf(order, limit)
  BY DEF PageOf
<1> HIDE DEF order, page
<1>3. /\ page \in Seq(S) /\ Len(page) <= limit /\ Len(page) <= Len(order)
      /\ \A i \in 1 .. Len(page) : i \in 1 .. Len(order) /\ page[i] = order[i]
      /\ Len(order) <= limit => page = order
      /\ limit <= Len(order) => Len(page) = limit
  <2>1. /\ FirstOf(order, limit) \in Seq(S)
        /\ Len(FirstOf(order, limit)) <= limit /\ Len(FirstOf(order, limit)) <= Len(order)
        /\ \A i \in 1 .. Len(FirstOf(order, limit)) :
             i \in 1 .. Len(order) /\ FirstOf(order, limit)[i] = order[i]
        /\ Len(order) <= limit => FirstOf(order, limit) = order
        /\ limit <= Len(order) => Len(FirstOf(order, limit)) = limit
    BY <1>1, FirstOfIsPrefix
  <2> QED
    BY <1>2, <2>1, Zenon
<1>4. Len(order) \in Nat /\ Len(page) \in Nat /\ DOMAIN page = 1 .. Len(page)
  BY <1>1, <1>3
<1>5. page \in Seq(Ids) /\ Range(page) \subseteq S
  <2>1. \A i \in DOMAIN page : page[i] \in S
    BY <1>3
  <2> QED
    BY <1>3, <2>1 DEF Range
<1>6. ASSUME ~(Cardinality(S) > limit) PROVE Range(page) = S
  <2>0. Len(order) <= limit
    BY <1>1, <1>4, <1>6
  <2>1. page = order
    BY <1>3, <2>0
  <2>2. \A m \in S : \E i \in DOMAIN page : page[i] = m
    BY <1>1, <1>4, <2>1
  <2> QED
    BY <1>5, <2>2 DEF Range
<1>7. ASSUME limit # 0, S # {} PROVE page # << >>
  <2>1. Len(order) # 0
    <3>1. PICK m \in S : TRUE
      BY <1>7
    <3>2. PICK i \in 1 .. Len(order) : order[i] = m
      BY <1>1
    <3> QED
      BY <1>4, <3>2
  <2>2. Len(page) # 0
    <3>1. CASE Len(order) <= limit
      BY <1>3, <2>1, <3>1
    <3>2. CASE ~(Len(order) <= limit)
      <4>1. limit <= Len(order)
        BY <1>4, <3>2
      <4> QED
        BY <1>3, <1>7, <4>1
    <3> QED
      BY <3>1, <3>2
  <2>3. Len(<< >>) = 0
    OBVIOUS
  <2> QED
    BY <2>2, <2>3, Zenon
<1>8. ASSUME NEW m \in S \ Range(page), NEW n \in Range(page) PROVE NoLater(n, m, newestFirst)
  <2>1. PICK i \in 1 .. Len(order) : order[i] = m
    BY <1>1
  <2>2. PICK j \in 1 .. Len(page) : page[j] = n
    BY <1>4 DEF Range
  <2>3. j \in 1 .. Len(order) /\ order[j] = n
    BY <1>3, <2>2
  <2>4. ~(i <= Len(page))
    <3>1. SUFFICES ASSUME i \in 1 .. Len(page) PROVE FALSE
      BY <1>4, <2>1
    <3>2. i \in DOMAIN page /\ page[i] = m
      BY <1>3, <1>4, <2>1, <3>1
    <3> QED
      BY <1>8, <3>2 DEF Range
  <2>5. j < i
    BY <1>4, <2>1, <2>2, <2>4
  <2> QED
    BY <1>1, <2>1, <2>3, <2>5
<1> QED
  BY <1>5, <1>6, <1>7, <1>8 DEF page

(* The messages read, put in order, are the messages read. *)
LEMMA OrderedKeepsAll ==
  ASSUME NEW S \in SUBSET Ids, NEW newestFirst \in BOOLEAN
  PROVE  /\ Ordered(S, newestFirst) \in Seq(Ids) /\ Range(Ordered(S, newestFirst)) = S
         /\ S # {} => Ordered(S, newestFirst) # << >>
<1> DEFINE order == Ordered(S, newestFirst)
<1>1. /\ order \in Seq(S) /\ Len(order) = Cardinality(S)
      /\ \A m \in S : \E i \in 1 .. Len(order) : order[i] = m
  BY OrderedHoldsAll
<1> HIDE DEF order
<1>2. DOMAIN order = 1 .. Len(order) /\ \A i \in DOMAIN order : order[i] \in S
  BY <1>1
<1>3. order \in Seq(Ids)
  BY <1>1
<1>4. Range(order) = S
  BY <1>1, <1>2 DEF Range
<1>5. S # {} => order # << >>
  <2>1. Range(<< >>) = {}
    BY DEF Range
  <2> QED
    BY <1>4, <2>1
<1> QED
  BY <1>3, <1>4, <1>5 DEF order

(* Some message is the latest. *)
LEMMA OneIsLatest ==
  ASSUME NEW S \in SUBSET Ids, S # {}
  PROVE  \E m \in S : \A n \in S : Dataset[n].sent <= Dataset[m].sent
<1> DEFINE order == Ordered(S, TRUE)
<1>1. /\ order \in Seq(S)
      /\ \A m \in S : \E i \in 1 .. Len(order) : order[i] = m
      /\ \A i, j \in 1 .. Len(order) : i < j => NoLater(order[i], order[j], TRUE)
  BY OrderedHoldsAll
<1> HIDE DEF order
<1>2. \A m \in S : Dataset[m].sent \in Nat
  BY IdsAreFinite
<1>3. PICK some \in S : TRUE
  OBVIOUS
<1>4. PICK k \in 1 .. Len(order) : order[k] = some
  BY <1>1, <1>3
<1>5. Len(order) \in Nat /\ 1 \in 1 .. Len(order)
  <2>1. Len(order) \in Nat
    BY <1>1, LenProperties
  <2> QED
    BY <1>4, <2>1
<1>6. order[1] \in S
  BY <1>1, <1>5
<1>7. ASSUME NEW n \in S PROVE Dataset[n].sent <= Dataset[order[1]].sent
  <2>1. PICK i \in 1 .. Len(order) : order[i] = n
    BY <1>1
  <2>2. CASE i = 1
    BY <1>2, <2>1, <2>2
  <2>3. CASE i # 1
    <3>1. 1 < i
      BY <1>5, <2>1, <2>3
    <3>2. NoLater(order[1], order[i], TRUE)
      BY <1>1, <1>5, <2>1, <3>1
    <3> QED
      BY <1>2, <1>6, <2>1, <3>2 DEF NoLater
  <2> QED
    BY <2>2, <2>3
<1> QED
  BY <1>6, <1>7

(* Taking one of the headers to come leaves the listing what it was. *)
LEMMA FetchingKeepsTheListing ==
  ASSUME NEW left \in Seq(Ids), NEW done \in Seq(Ids), NEW i \in DOMAIN left
  PROVE  /\ RemoveAt(left, i) \in Seq(Ids) /\ Len(RemoveAt(left, i)) = Len(left) - 1
         /\ Append(done, left[i]) \in Seq(Ids) /\ left[i] \in Range(Append(done, left[i]))
         /\ Range(RemoveAt(left, i)) \cup Range(Append(done, left[i])) = Range(left) \cup Range(done)
<1> DEFINE rest == RemoveAt(left, i)
           more_ == Append(done, left[i])
<1>1. /\ rest \in Seq(Ids) /\ Len(rest) = Len(left) - 1
      /\ \A x : (\E k \in DOMAIN left : left[k] = x) <=> x = left[i] \/ \E k \in 1 .. Len(left) - 1 : rest[k] = x
  BY RemovalLeavesTheOthers DEF RemoveAt
<1> HIDE DEF rest
<1>2. DOMAIN rest = 1 .. Len(left) - 1
  BY <1>1
<1>3. /\ more_ \in Seq(Ids) /\ Len(more_) = Len(done) + 1 /\ Len(done) \in Nat
      /\ DOMAIN done = 1 .. Len(done) /\ DOMAIN more_ = 1 .. Len(done) + 1
      /\ \A k \in DOMAIN done : more_[k] = done[k]
      /\ more_[Len(done) + 1] = left[i]
  OBVIOUS
<1> HIDE DEF more_
<1>4. \A x : (\E k \in DOMAIN more_ : more_[k] = x) <=> x = left[i] \/ \E k \in DOMAIN done : done[k] = x
  <2>1. Len(done) + 1 \in DOMAIN more_ /\ DOMAIN done \subseteq DOMAIN more_
        /\ \A k \in DOMAIN more_ : k = Len(done) + 1 \/ k \in DOMAIN done
    BY <1>3
  <2> QED
    BY <1>3, <2>1
<1>5. Range(rest) \cup Range(more_) = Range(left) \cup Range(done)
  BY <1>1, <1>2, <1>4 DEF Range
<1>6. left[i] \in Range(more_)
  BY <1>4 DEF Range
<1> QED
  BY <1>1, <1>3, <1>5, <1>6 DEF rest, more_

-----------------------------------------------------------------------------
(* What a call asks, and what a Gmail query makes of it. *)

LEMMA RequestsAreWellFormed ==
  ASSUME NEW r \in Requests
  PROVE  /\ r.kind \in Kinds /\ r.ids \in Seq(Ids)
         /\ r.criteria.labels \in SUBSET Labels /\ r.criteria.newestFirst \in BOOLEAN
         /\ r.criteria.limit \in Nat /\ r.criteria.limit # 0
         /\ r.criteria.from \in Nat /\ r.criteria.to \in Nat
<1>1. r \in Request
  BY ReadingAssumption
<1>2. r.kind \in Kinds /\ r.ids \in Seq(Ids) /\ r.criteria \in Criteria
  BY <1>1 DEF Request
<1>3. \A c \in Criteria : /\ c.labels \in SUBSET Labels /\ c.newestFirst \in BOOLEAN
                          /\ c.limit \in 1 .. MaxLimit /\ c.from \in Nat /\ c.to \in Nat
  BY DEF Criteria
<1> QED
  BY <1>2, <1>3, ReadingAssumption

(* A Gmail query loses no match but those of the last day ... *)
LEMMA QueryMissesTheLastDay ==
  ASSUME NEW m \in Ids, NEW c, c.from \in Nat, c.to \in Nat, NEW filter \in SUBSET c.labels,
         Matches(m, c), ~MatchesQuery(m, c, filter)
  PROVE  c.to # NoDate /\ DayOf(Dataset[m].sent) = DayOf(c.to)
<1>1. Dataset[m].sent \in Nat
  BY IdsAreFinite
<1>2. WithinDates(m, c) /\ c.labels \subseteq mail[m].labels
  BY DEF Matches
<1>3. ~ /\ c.from = NoDate \/ DayOf(Dataset[m].sent) >= DayOf(c.from)
        /\ c.to = NoDate \/ DayOf(Dataset[m].sent) < DayOf(c.to)
  BY <1>2 DEF Matches, MatchesQuery
<1>4. \A a, b \in Nat : a <= b => DayOf(a) <= DayOf(b) /\ DayOf(a) \in Nat /\ DayOf(b) \in Nat
  BY DEF DayOf
<1>5. c.from = NoDate \/ DayOf(Dataset[m].sent) >= DayOf(c.from)
  BY <1>1, <1>2, <1>4 DEF WithinDates
<1>6. c.to # NoDate /\ ~(DayOf(Dataset[m].sent) < DayOf(c.to))
  BY <1>3, <1>5
<1>7. DayOf(Dataset[m].sent) <= DayOf(c.to) /\ DayOf(Dataset[m].sent) \in Nat /\ DayOf(c.to) \in Nat
  BY <1>1, <1>2, <1>4, <1>6 DEF WithinDates
<1> QED
  BY <1>6, <1>7

(* ... and finds none that was sent too late. *)
LEMMA QueryKeepsTheUpperBound ==
  ASSUME NEW m \in Ids, NEW c, c.to \in Nat, NEW filter, MatchesQuery(m, c, filter)
  PROVE  c.to = NoDate \/ Dataset[m].sent <= c.to
<1>1. Dataset[m].sent \in Nat
  BY IdsAreFinite
<1>2. c.to = NoDate \/ DayOf(Dataset[m].sent) < DayOf(c.to)
  BY DEF MatchesQuery
<1>3. \A a, b \in Nat : DayOf(a) < DayOf(b) => a <= b
  BY DEF DayOf
<1> QED
  BY <1>1, <1>2, <1>3

-----------------------------------------------------------------------------
(* The invariant of a call, step by step. *)

Entry == [place : {"coming", "here", "gone"}, unread : BOOLEAN, labels : SUBSET Labels]

LEMMA StartsInvariant == Init => CallInv
<1> SUFFICES ASSUME Init PROVE CallInv
  OBVIOUS
<1>1. mail \in [Ids -> Entry]
  <2>1. \A m \in Ids : Dataset[m] \in Message
    BY ReadingAssumption DEF Ids
  <2>2. \A x \in Message : /\ x.place \in {"coming", "here", "gone"}
                           /\ x.unread \in BOOLEAN /\ x.labels \in SUBSET Labels
    BY DEF Message
  <2>3. \A m \in Ids : [place |-> Dataset[m].place, unread |-> Dataset[m].unread,
                        labels |-> Dataset[m].labels] \in Entry
    BY <2>1, <2>2 DEF Entry
  <2> QED
    BY <2>3 DEF Init
<1>2. TypeOK
  <2>1. << >> \in Seq(Ids) /\ 0 \in 0 .. MaxChanges
    BY ReadingAssumption
  <2>2. /\ backend \in Backends /\ labels \subseteq Labels /\ changes \in 0 .. MaxChanges
        /\ request \in Requests \cup {NoRequest} /\ stage = "idle" /\ named \subseteq Labels
        /\ todo \in Seq(Ids) /\ read \in Seq(Ids) /\ more \in BOOLEAN /\ steady \subseteq Ids
    BY <2>1 DEF Init
  <2> QED
    BY <1>1, <2>2 DEF TypeOK, Entry
<1>3. UnderWay /\ OnCourse /\ ListingStands
  BY DEF Init, UnderWay, OnCourse, ListingStands
<1> QED
  BY <1>2, <1>3 DEF CallInv

(* Others touch the mailbox, not the call, and nothing that counts as untouched. *)
LEMMA OthersKeepInvariant ==
  ASSUME CallInv, UNCHANGED <<backend, request, stage, named, todo, read, more, told>>,
         mail' \in [Ids -> Entry], labels' \subseteq Labels, changes' \in 0 .. MaxChanges,
         steady' \subseteq steady, \A m \in steady' : mail'[m] = mail[m]
  PROVE  CallInv'
<1>0. TypeOK /\ UnderWay /\ OnCourse /\ ListingStands
  BY DEF CallInv
<1>1. TypeOK'
  BY <1>0 DEF TypeOK, Entry
<1>2. UnderWay'
  BY <1>0 DEF UnderWay
<1>3. OnCourse'
  BY <1>0 DEF OnCourse, OfTheThread, Here
<1>4. ListingStands'
  <2> SUFFICES ASSUME stage = "fetching"
               PROVE  /\ \A m \in (Listed \cap steady)' : MatchesQuery(m, request.criteria, request.criteria.labels)'
                      /\ \A m \in (steady \ Listed)' : Matches(m, request.criteria)' => Excused(m)'
    BY DEF ListingStands
  <2>1. Listed' = Listed /\ \A m : Excused(m)' = Excused(m)
    BY DEF Listed, Excused, OnTheLastDay
  <2>2. \A m \in steady' : /\ Matches(m, request.criteria)' = Matches(m, request.criteria)
                           /\ MatchesQuery(m, request.criteria, request.criteria.labels)' =
                              MatchesQuery(m, request.criteria, request.criteria.labels)
    BY DEF Matches, MatchesQuery, Here, MatchesEnvelope, MatchesState, WithinDates
  <2> QED
    BY <1>0, <2>1, <2>2 DEF ListingStands
<1> QED
  BY <1>1, <1>2, <1>3, <1>4 DEF CallInv

LEMMA ChangeKeepsInvariant ==
  ASSUME CallInv, NEW m \in Ids, NEW entry \in Entry, Change(m, entry)
  PROVE  CallInv'
<1>1. /\ mail' = [mail EXCEPT ![m] = entry] /\ steady' = steady \ {m} /\ changes' = changes + 1
      /\ changes < MaxChanges /\ UNCHANGED <<backend, request, stage, named, todo, read, more, told, labels>>
  BY DEF Change, Elsewhere
<1>2. /\ mail \in [Ids -> Entry] /\ changes \in 0 .. MaxChanges /\ steady \subseteq Ids
      /\ labels \subseteq Labels
  BY DEF CallInv, TypeOK, Entry
<1>3. mail' \in [Ids -> Entry] /\ \A n \in steady' : mail'[n] = mail[n]
  BY <1>1, <1>2
<1>4. changes' \in 0 .. MaxChanges /\ steady' \subseteq steady /\ labels' \subseteq Labels
  BY <1>1, <1>2, ReadingAssumption
<1> QED
  BY <1>1, <1>3, <1>4, OthersKeepInvariant

LEMMA DroppingKeepsInvariant ==
  ASSUME CallInv, NEW l \in Labels, DropLabel(l)
  PROVE  CallInv'
<1>1. /\ labels' = labels \ {l} /\ mail' = [m \in Ids |-> [mail[m] EXCEPT !.labels = @ \ {l}]]
      /\ steady' = {m \in steady : l \notin mail[m].labels} /\ changes' = changes + 1
      /\ changes < MaxChanges /\ UNCHANGED <<backend, request, stage, named, todo, read, more, told>>
  BY DEF DropLabel, Elsewhere
<1>2. /\ mail \in [Ids -> Entry] /\ changes \in 0 .. MaxChanges /\ steady \subseteq Ids
      /\ labels \subseteq Labels
  BY DEF CallInv, TypeOK, Entry
<1>3. \A m \in Ids : mail'[m] \in Entry /\ (l \notin mail[m].labels => mail'[m] = mail[m])
  <2> TAKE m \in Ids
  <2>1. mail[m] \in Entry
    BY <1>2
  <2>2. mail'[m] = [mail[m] EXCEPT !.labels = mail[m].labels \ {l}]
    BY <1>1
  <2>3. mail'[m] \in Entry
    BY <2>1, <2>2 DEF Entry
  <2>4. l \notin mail[m].labels => mail[m].labels \ {l} = mail[m].labels
    OBVIOUS
  <2>5. [mail[m] EXCEPT !.labels = mail[m].labels] = mail[m]
    BY <2>1 DEF Entry
  <2> QED
    BY <2>2, <2>3, <2>4, <2>5
<1>4. mail' \in [Ids -> Entry] /\ \A n \in steady' : mail'[n] = mail[n]
  BY <1>1, <1>2, <1>3
<1>5. changes' \in 0 .. MaxChanges /\ steady' \subseteq steady /\ labels' \subseteq Labels
  BY <1>1, <1>2, ReadingAssumption
<1> QED
  BY <1>1, <1>4, <1>5, OthersKeepInvariant

LEMMA ElsewhereKeepsInvariant ==
  ASSUME CallInv,
         \/ \E m \in Ids : Arrive(m) \/ Discard(m) \/ MarkRead(m)
         \/ \E m \in Ids, l \in Labels : File(m, l)
         \/ \E l \in Labels : DropLabel(l)
  PROVE  CallInv'
<1>0. mail \in [Ids -> Entry]
  BY DEF CallInv, TypeOK, Entry
<1>1. ASSUME NEW m \in Ids, Arrive(m) PROVE CallInv'
  <2>1. [mail[m] EXCEPT !.place = "here"] \in Entry
    BY <1>0 DEF Entry
  <2> QED
    BY <1>1, <2>1, ChangeKeepsInvariant DEF Arrive
<1>2. ASSUME NEW m \in Ids, Discard(m) PROVE CallInv'
  <2>1. [mail[m] EXCEPT !.place = "gone"] \in Entry
    BY <1>0 DEF Entry
  <2> QED
    BY <1>2, <2>1, ChangeKeepsInvariant DEF Discard
<1>3. ASSUME NEW m \in Ids, MarkRead(m) PROVE CallInv'
  <2>1. [mail[m] EXCEPT !.unread = ~@] \in Entry
    BY <1>0 DEF Entry
  <2> QED
    BY <1>3, <2>1, ChangeKeepsInvariant DEF MarkRead
<1>4. ASSUME NEW m \in Ids, NEW l \in Labels, File(m, l) PROVE CallInv'
  <2>1. [mail[m] EXCEPT !.labels = @ \cup {l}] \in Entry
    BY <1>0 DEF Entry
  <2> QED
    BY <1>4, <2>1, ChangeKeepsInvariant DEF File
<1> QED
  BY <1>1, <1>2, <1>3, <1>4, DroppingKeepsInvariant

(* A capability is called: it begins with nothing read. *)
LEMMA CallKeepsInvariant ==
  ASSUME CallInv, NEW r \in Requests, Call(r)
  PROVE  CallInv'
<1>0. /\ TypeOK /\ request' = r /\ read' = << >> /\ named' = {} /\ more' = FALSE /\ steady' = Ids
      /\ todo' = IF Scope(r) = "messages" THEN r.ids ELSE << >>
      /\ UNCHANGED <<backend, mail, labels, changes>>
  BY DEF CallInv, Call
<1>1. r.kind \in Kinds /\ r.ids \in Seq(Ids) /\ r.criteria.labels \in SUBSET Labels
  BY RequestsAreWellFormed
<1>2. \/ stage' = "idle"
      \/ Refusal(r) = None /\ stage' = FirstStage(r) /\ told' = Nothing
  BY DEF Call, Fails, Answers
<1>3. Refusal(r) = None => Scope(r) \in {"search", "thread", "messages"}
  BY DEF Refusal, Scope, None
<1>4. /\ stage' \in {"idle", "naming", "searching", "threading", "reading"}
      /\ stage' \in {"naming", "searching"} => Scope(r) = "search"
      /\ stage' = "naming" => backend = "google"
      /\ stage' = "threading" => Scope(r) = "thread"
      /\ stage' = "reading" => Scope(r) = "messages"
      /\ stage' # "idle" => told' = Nothing
  BY <1>2, <1>3 DEF FirstStage
<1>5. Scope(r) = "search" => r.kind = "search"
  BY DEF Scope
<1>6. Scope(r) = "messages" => r.ids # << >>
  BY DEF Scope
<1>7. << >> \in Seq(Ids) /\ todo' \in Seq(Ids)
  BY <1>0, <1>1
<1>8. TypeOK'
  <2>1. stage' \in {"reading", "fetching"} => todo' # << >>
    BY <1>0, <1>4, <1>6
  <2>2. /\ stage' \in {"idle", "naming", "searching", "fetching", "reading", "threading", "reasoning"}
        /\ (stage' = "reasoning" => read' # << >>)
    BY <1>4
  <2> QED
    BY <1>0, <1>7, <2>1, <2>2 DEF TypeOK
<1>9. UnderWay'
  BY <1>0, <1>4, <1>5 DEF UnderWay
<1>10. OnCourse'
  <2>1. << >> \o r.ids = r.ids
    BY <1>1
  <2>2. stage' = "reading" => read' \o todo' = r.ids
    BY <1>0, <1>4, <2>1
  <2> QED
    BY <1>0, <1>4, <2>2 DEF OnCourse
<1>11. ListingStands'
  BY <1>4 DEF ListingStands
<1> QED
  BY <1>8, <1>9, <1>10, <1>11 DEF CallInv

(* A result, or a failure, leaves nothing under way. *)
LEMMA AnsweringKeepsInvariant ==
  ASSUME CallInv, stage' = "idle", UNCHANGED <<mailbox, request, named>>,
         todo' \in Seq(Ids), read' \in Seq(Ids), more' \in BOOLEAN
  PROVE  CallInv'
<1>1. TypeOK'
  BY DEF CallInv, TypeOK, mailbox
<1>2. UnderWay' /\ OnCourse' /\ ListingStands'
  BY DEF UnderWay, OnCourse, ListingStands
<1> QED
  BY <1>1, <1>2 DEF CallInv

LEMMA TellingEnds ==
  ASSUME NEW page, NEW truncated, TellsHeaders(page, truncated)
  PROVE  stage' = "idle"
BY DEF TellsHeaders, Fails, Succeeds, Answers

(* Steps that only tell something. *)
LEMMA EndingKeepsInvariant ==
  ASSUME CallInv, SearchAtOnce \/ SearchThreads \/ FailCall \/ Concludes \/ Classify \/ Draft
  PROVE  CallInv'
<1>1. UNCHANGED <<mailbox, request, named, todo, read, more>>
  BY DEF SearchAtOnce, SearchThreads, FailCall, Concludes, Classify, Draft
<1>2. ASSUME SearchAtOnce \/ SearchThreads PROVE stage' = "idle"
  BY <1>2, TellingEnds DEF SearchAtOnce, SearchThreads, Fails, Answers
<1>3. ASSUME FailCall \/ Concludes \/ Classify \/ Draft PROVE stage' = "idle"
  BY <1>3 DEF FailCall, Concludes, Classify, Draft, Fails, Succeeds, Answers
<1>4. todo' \in Seq(Ids) /\ read' \in Seq(Ids) /\ more' \in BOOLEAN
  BY <1>1 DEF CallInv, TypeOK
<1> QED
  BY <1>1, <1>2, <1>3, <1>4, AnsweringKeepsInvariant

LEMMA NamingKeepsInvariant ==
  ASSUME CallInv, NameLabels
  PROVE  CallInv'
<1>1. /\ stage = "naming" /\ named' = request.criteria.labels \cap labels /\ stage' = "searching"
      /\ UNCHANGED <<mailbox, request, todo, read, more, told>>
  BY DEF NameLabels
<1>2. TypeOK'
  BY <1>1 DEF CallInv, TypeOK, mailbox
<1>3. UnderWay'
  BY <1>1 DEF CallInv, UnderWay
<1>4. OnCourse' /\ ListingStands'
  BY <1>1 DEF OnCourse, ListingStands
<1> QED
  BY <1>2, <1>3, <1>4 DEF CallInv

(* A listing holds the newest matches, as Gmail understands what was asked. *)
LEMMA ListingKeepsInvariant ==
  ASSUME CallInv, ListIds
  PROVE  CallInv'
<1> DEFINE c == request.criteria
           S == {m \in Ids : MatchesQuery(m, c, c.labels)}
<1>0. TypeOK /\ UnderWay /\ stage = "searching" /\ backend = "gmail"
  BY DEF CallInv, ListIds
<1>1. /\ request \in Requests /\ request.kind = "search" /\ read = << >> /\ told = Nothing
  BY <1>0 DEF UnderWay
<1>2. c.limit \in Nat /\ c.limit # 0 /\ c.from \in Nat /\ c.to \in Nat
  BY <1>1, RequestsAreWellFormed
<1>3. /\ more' = (Cardinality(S) > c.limit) /\ todo' = FirstOf(Ordered(S, TRUE), c.limit)
      /\ IF S = {} THEN stage' = "idle" ELSE stage' = "fetching" /\ told' = told
      /\ UNCHANGED <<mailbox, request, named, read>>
  BY DEF ListIds, ListedByGmail, Succeeds, Answers
<1>4. S \in SUBSET Ids /\ \A m \in Ids : m \in S <=> MatchesQuery(m, c, c.labels)
  OBVIOUS
<1> HIDE DEF S, c
<1>5. /\ todo' \in Seq(Ids) /\ Range(todo') \subseteq S
      /\ ~(Cardinality(S) > c.limit) => Range(todo') = S
      /\ c.limit # 0 /\ S # {} => todo' # << >>
      /\ \A m \in S \ Range(todo'), n \in Range(todo') : NoLater(n, m, TRUE)
  <2>1. /\ PageOf(S, TRUE, c.limit) \in Seq(Ids) /\ Range(PageOf(S, TRUE, c.limit)) \subseteq S
        /\ ~(Cardinality(S) > c.limit) => Range(PageOf(S, TRUE, c.limit)) = S
        /\ c.limit # 0 /\ S # {} => PageOf(S, TRUE, c.limit) # << >>
        /\ \A m \in S \ Range(PageOf(S, TRUE, c.limit)), n \in Range(PageOf(S, TRUE, c.limit)) :
             NoLater(n, m, TRUE)
    BY <1>2, <1>4, PageBeginsTheOrder
  <2>2. todo' = PageOf(S, TRUE, c.limit)
    BY <1>3 DEF PageOf
  <2> QED
    BY <2>1, <2>2, Zenon
<1>6. more' \in BOOLEAN /\ read' \in Seq(Ids)
  BY <1>0, <1>3 DEF TypeOK
<1>7. CASE S = {}
  BY <1>3, <1>5, <1>6, <1>7, AnsweringKeepsInvariant
<1>8. CASE S # {}
  <2>1. stage' = "fetching" /\ told' = Nothing /\ todo' # << >> /\ request' = request /\ backend' = backend
    BY <1>1, <1>2, <1>3, <1>5, <1>8 DEF mailbox
  <2>2. TypeOK'
    BY <1>0, <1>3, <1>5, <1>6, <2>1 DEF TypeOK, mailbox
  <2>3. UnderWay' /\ OnCourse'
    BY <1>0, <1>1, <2>1 DEF UnderWay, OnCourse
  <2>4. Listed' = Range(todo')
    <3>1. Listed' = Range(todo') \cup Range(read')
      BY DEF Listed, Range
    <3>2. Range(<< >>) = {}
      BY DEF Range
    <3> QED
      BY <1>1, <1>3, <3>1, <3>2
  <2>5. mail' = mail /\ steady' = steady /\ steady \subseteq Ids
    BY <1>0, <1>3 DEF mailbox, TypeOK
  <2>6. \A m \in (Listed \cap steady)' : MatchesQuery(m, request.criteria, request.criteria.labels)'
    <3> TAKE m \in (Listed \cap steady)'
    <3>1. m \in Ids /\ MatchesQuery(m, c, c.labels)
      BY <1>4, <1>5, <2>4, <2>5
    <3> QED
      BY <2>1, <2>5, <3>1 DEF MatchesQuery, Here, MatchesEnvelope, MatchesState, c
  <2>7. ASSUME NEW m \in (steady \ Listed)', Matches(m, request.criteria)' PROVE Excused(m)'
    <3>1. m \in Ids /\ m \notin Range(todo') /\ Matches(m, c)
      BY <2>1, <2>4, <2>5, <2>7 DEF Matches, Here, MatchesEnvelope, MatchesState, WithinDates, c
    <3>2. CASE m \in S
      <4>1. more' = TRUE
        BY <1>3, <1>5, <3>1, <3>2
      <4>2. \A n \in Listed' : Dataset[n].sent >= Dataset[m].sent
        BY <1>5, <2>4, <3>1, <3>2 DEF NoLater
      <4> QED
        BY <4>1, <4>2 DEF Excused
    <3>3. CASE m \notin S
      <4>1. ~MatchesQuery(m, c, c.labels)
        BY <1>4, <3>1, <3>3
      <4>2. c.to # NoDate /\ DayOf(Dataset[m].sent) = DayOf(c.to)
        BY <1>2, <3>1, <4>1, QueryMissesTheLastDay
      <4> QED
        BY <1>0, <2>1, <4>2 DEF Excused, OnTheLastDay, c
    <3> QED
      BY <3>2, <3>3
  <2>8. ListingStands'
    BY <2>6, <2>7 DEF ListingStands
  <2> QED
    BY <2>2, <2>3, <2>8 DEF CallInv
<1> QED
  BY <1>7, <1>8

(* A header comes: what was listed still is. *)
LEMMA FetchingKeepsInvariant ==
  ASSUME CallInv, FetchHeader
  PROVE  /\ CallInv' /\ Listed' = Listed
         /\ stage' = "idle" => Range(read') = Listed /\ TellsHeaders(Ordered(Range(read'), request.criteria.newestFirst), more)
<1>0. TypeOK /\ UnderWay /\ ListingStands /\ stage = "fetching"
  BY DEF CallInv, FetchHeader
<1>1. PICK i \in DOMAIN todo : read' = Append(read, todo[i]) /\ todo' = RemoveAt(todo, i)
  BY DEF FetchHeader
<1>2. /\ todo \in Seq(Ids) /\ read \in Seq(Ids) /\ todo # << >>
  BY <1>0 DEF TypeOK
<1>3. /\ todo' \in Seq(Ids) /\ Len(todo') = Len(todo) - 1 /\ read' \in Seq(Ids)
      /\ Range(todo') \cup Range(read') = Range(todo) \cup Range(read)
  BY <1>1, <1>2, FetchingKeepsTheListing
<1>4. Listed' = Listed
  BY <1>3 DEF Listed, Range
<1>5. UNCHANGED <<mailbox, request, named, more>>
  BY DEF FetchHeader
<1>6. CASE Len(todo) = 1
  <2>1. TellsHeaders(Ordered(Range(read'), request.criteria.newestFirst), more)
    BY <1>6 DEF FetchHeader
  <2>2. more' \in BOOLEAN
    BY <1>0, <1>5 DEF TypeOK
  <2>3. CallInv'
    BY <1>3, <1>5, <2>1, <2>2, TellingEnds, AnsweringKeepsInvariant
  <2>4. Range(read') = Listed
    <3>1. Len(todo') = 0
      BY <1>3, <1>6
    <3>2. todo' = << >>
      BY <1>3, <3>1, EmptySeq
    <3>3. Range(<< >>) = {}
      BY DEF Range
    <3> QED
      BY <1>3, <3>2, <3>3 DEF Listed
  <2> QED
    BY <1>4, <2>1, <2>3, <2>4
<1>7. CASE Len(todo) # 1
  <2>1. stage' = "fetching" /\ told' = told
    BY <1>0, <1>7 DEF FetchHeader
  <2>2. todo' # << >>
    <3>1. Len(todo) \in Nat /\ Len(todo) # 0
      BY <1>2
    <3>2. Len(todo') # 0 /\ Len(<< >>) = 0
      BY <1>3, <1>7, <3>1
    <3> QED
      BY <3>2, Zenon
  <2>3. TypeOK'
    BY <1>0, <1>3, <1>5, <2>1, <2>2 DEF TypeOK, mailbox
  <2>4. UnderWay' /\ OnCourse'
    BY <1>0, <1>5, <2>1 DEF UnderWay, OnCourse, mailbox
  <2>5. ListingStands'
    <3>1. mail' = mail /\ steady' = steady /\ request' = request /\ more' = more /\ backend' = backend
      BY <1>5 DEF mailbox
    <3>2. \A m : /\ Matches(m, request.criteria)' = Matches(m, request.criteria)
                 /\ MatchesQuery(m, request.criteria, request.criteria.labels)' =
                    MatchesQuery(m, request.criteria, request.criteria.labels)
      BY <3>1 DEF Matches, MatchesQuery, Here, MatchesEnvelope, MatchesState, WithinDates
    <3>3. \A m : Excused(m)' = Excused(m)
      BY <1>4, <3>1 DEF Excused, OnTheLastDay
    <3> QED
      BY <1>0, <1>4, <3>1, <3>2, <3>3 DEF ListingStands
  <2> QED
    BY <1>4, <2>1, <2>3, <2>4, <2>5 DEF CallInv
<1> QED
  BY <1>6, <1>7

(* The next message is read, or the call fails. *)
LEMMA MessageKeepsInvariant ==
  ASSUME CallInv, ReadMessage
  PROVE  CallInv'
<1>0. TypeOK /\ UnderWay /\ OnCourse /\ stage = "reading"
  BY DEF CallInv, ReadMessage
<1>1. /\ request \in Requests /\ told = Nothing /\ Scope(request) = "messages" /\ read \o todo = request.ids
      /\ todo \in Seq(Ids) /\ read \in Seq(Ids) /\ todo # << >>
  BY <1>0 DEF TypeOK, UnderWay, OnCourse
<1>2. /\ read' = Append(read, Head(todo)) /\ todo' = Tail(todo)
      /\ \/ stage' = "idle"
         \/ stage' = (IF Len(todo) = 1 THEN "reasoning" ELSE "reading") /\ told' = told
      /\ UNCHANGED <<mailbox, request, named, more>>
  BY DEF ReadMessage, Readable, Succeeds, Answers
<1>3. /\ Append(read, Head(todo)) \o Tail(todo) = read \o todo
      /\ Len(todo) = 1 => Append(read, Head(todo)) = read \o todo
      /\ Len(todo) > 1 => Tail(todo) # << >>
  BY <1>1, NextIsTaken
<1>4. todo' \in Seq(Ids) /\ read' \in Seq(Ids) /\ more' \in BOOLEAN
  <2>1. Tail(todo) \in Seq(Ids) /\ Append(read, Head(todo)) \in Seq(Ids)
    BY <1>1
  <2> QED
    BY <1>0, <1>2, <2>1 DEF TypeOK
<1>5. read' # << >>
  <2>1. Len(Append(read, Head(todo))) # 0 /\ Len(<< >>) = 0
    BY <1>1
  <2> QED
    BY <1>2, <2>1, Zenon
<1>6. CASE stage' = "idle"
  BY <1>2, <1>4, <1>6, AnsweringKeepsInvariant
<1>7. CASE stage' = (IF Len(todo) = 1 THEN "reasoning" ELSE "reading") /\ told' = told
  <2>1. Len(todo) = 1 \/ Len(todo) > 1
    <3>1. Len(todo) \in Nat /\ Len(todo) # 0
      BY <1>1
    <3>2. \A n \in Nat : n # 0 => n = 1 \/ n > 1
      OBVIOUS
    <3> QED
      BY <3>1, <3>2
  <2>2. \/ stage' = "reasoning" /\ read' = request.ids
        \/ stage' = "reading" /\ read' \o todo' = request.ids /\ todo' # << >>
    BY <1>1, <1>2, <1>3, <1>7, <2>1
  <2>3. request' = request
    BY <1>2
  <2>4. TypeOK'
    BY <1>0, <1>2, <1>4, <1>5, <2>2 DEF TypeOK, mailbox
  <2>5. UnderWay' /\ ListingStands'
    BY <1>1, <1>7, <2>2, <2>3 DEF UnderWay, ListingStands
  <2>6. OnCourse'
    BY <1>1, <2>2, <2>3 DEF OnCourse
  <2> QED
    BY <2>4, <2>5, <2>6 DEF CallInv
<1> QED
  BY <1>2, <1>6, <1>7

(* The whole conversation is read at once. *)
LEMMA ThreadKeepsInvariant ==
  ASSUME CallInv, ReadThread
  PROVE  CallInv'
<1> DEFINE S == ThreadMessages(request.thread)
<1>0. TypeOK /\ UnderWay /\ OnCourse /\ stage = "threading"
  BY DEF CallInv, ReadThread
<1>1. request \in Requests /\ told = Nothing /\ Scope(request) = "thread"
  BY <1>0 DEF UnderWay, OnCourse
<1>2. /\ S # {} /\ read' = Ordered(S, FALSE)
      /\ stage' = "idle" \/ (stage' = "reasoning" /\ told' = told)
      /\ UNCHANGED <<mailbox, request, named, todo, more>>
  BY DEF ReadThread, Succeeds, Answers
<1>3. S \in SUBSET Ids /\ \A m : m \in S <=> m \in Ids /\ OfTheThread(m)
  BY DEF ThreadMessages, OfTheThread
<1> HIDE DEF S
<1>4. read' \in Seq(Ids) /\ Range(read') = S /\ read' # << >>
  <2>1. Ordered(S, FALSE) \in Seq(Ids) /\ Range(Ordered(S, FALSE)) = S /\ Ordered(S, FALSE) # << >>
    BY <1>2, <1>3, OrderedKeepsAll
  <2> QED
    BY <1>2, <2>1, Zenon
<1>5. todo' \in Seq(Ids) /\ more' \in BOOLEAN
  BY <1>0, <1>2 DEF TypeOK
<1>6. CASE stage' = "idle"
  BY <1>2, <1>4, <1>5, <1>6, AnsweringKeepsInvariant
<1>7. CASE stage' = "reasoning" /\ told' = told
  <2>1. TypeOK'
    BY <1>0, <1>2, <1>4, <1>7 DEF TypeOK, mailbox
  <2>2. request' = request /\ mail' = mail /\ steady' = steady
    BY <1>2 DEF mailbox
  <2>3. UnderWay' /\ ListingStands'
    BY <1>1, <1>7, <2>2 DEF UnderWay, ListingStands
  <2>4. OnCourse'
    <3>1. \A m \in Range(read') : Dataset[m].thread = request'.thread
      BY <1>3, <1>4, <2>2 DEF OfTheThread
    <3>2. ASSUME NEW m \in steady', OfTheThread(m)' PROVE m \in Range(read')
      <4>1. m \in Ids /\ OfTheThread(m)
        BY <1>0, <2>2, <3>2 DEF OfTheThread, Here, TypeOK
      <4> QED
        BY <1>3, <1>4, <4>1
    <3>3. Scope(request)' = "thread" /\ stage' = "reasoning"
      BY <1>1, <1>7, <2>2 DEF Scope
    <3>4. Range(read)' = Range(read')
      BY DEF Range
    <3> QED
      BY <3>1, <3>2, <3>3, <3>4 DEF OnCourse
  <2> QED
    BY <2>1, <2>3, <2>4 DEF CallInv
<1> QED
  BY <1>2, <1>6, <1>7

LEMMA KeepsInvariant == CallInv /\ [Next]_vars => CallInv'
<1> SUFFICES ASSUME CallInv, [Next]_vars PROVE CallInv'
  OBVIOUS
<1>1. CASE UNCHANGED vars
  <2>1. UNCHANGED <<backend, request, stage, named, todo, read, more, told>> /\ UNCHANGED mailbox
    BY <1>1 DEF vars, mailbox
  <2>2. /\ mail' \in [Ids -> Entry] /\ labels' \subseteq Labels /\ changes' \in 0 .. MaxChanges
        /\ steady' \subseteq steady /\ \A m \in steady' : mail'[m] = mail[m]
    BY <2>1 DEF CallInv, TypeOK, mailbox, Entry
  <2> QED
    BY <2>1, <2>2, OthersKeepInvariant
<1>2. ASSUME NEW r \in Requests, Call(r) PROVE CallInv'
  BY <1>2, CallKeepsInvariant
<1>3. CASE Step
  BY <1>3, NamingKeepsInvariant, ListingKeepsInvariant, FetchingKeepsInvariant, MessageKeepsInvariant,
     ThreadKeepsInvariant, EndingKeepsInvariant DEF Step, Summarise, ExtractActions
<1>4. CASE \/ \E m \in Ids : Arrive(m) \/ Discard(m) \/ MarkRead(m)
           \/ \E m \in Ids, l \in Labels : File(m, l)
           \/ \E l \in Labels : DropLabel(l)
  BY <1>4, ElsewhereKeepsInvariant
<1> QED
  BY <1>1, <1>2, <1>3, <1>4 DEF Next

(* Every state of every call satisfies the invariant. *)
THEOREM MailCallsAreOnCourse == Spec => []CallInv
<1>1. Init => CallInv
  BY StartsInvariant
<1>2. CallInv /\ [Next]_vars => CallInv'
  BY KeepsInvariant
<1> QED
  BY <1>1, <1>2, PTL DEF Spec

(* The mailbox stays a mailbox, and no step misses what it takes. *)
THEOREM MailReadingTypeCorrect == Spec => []TypeOK
<1>1. CallInv => TypeOK
  BY DEF CallInv
<1> QED
  BY <1>1, MailCallsAreOnCourse, PTL

-----------------------------------------------------------------------------
(* What is told, and of which steps it comes. *)

Sought == request.criteria

\* One request answered: the first of the matches, and whether there are more.
AtOnce ==
  LET S == {m \in Ids : Matches(m, Sought)} IN
  /\ backend \in {"memory", "native"}
  /\ told.ids = PageOf(S, Sought.newestFirst, Sought.limit)
  /\ told.truncated = (Cardinality(S) > Sought.limit)

\* The official server answered with conversations, which were filtered.
FoundIn(T) == {m \in Ids : Dataset[m].thread \in T /\ StillMatches(m, Sought)}

ByThreads(names) ==
  LET S == {m \in Ids : MatchesQuery(m, Sought, names)} IN
  /\ backend = "google" /\ names \subseteq Sought.labels
  /\ \E T \in ThreadPages(S, Sought.limit) :
       /\ told.ids = PageOf(FoundIn(T), Sought.newestFirst, Sought.limit)
       /\ ~told.truncated => /\ T = ThreadsOf(S)
                             /\ ~(Len(Ordered(FoundIn(T), Sought.newestFirst)) > Sought.limit)

\* The listing was fetched header by header.
ByListing ==
  /\ backend = "gmail"
  /\ \A m \in Range(told.ids) \cap steady : MatchesQuery(m, Sought, Sought.labels)
  /\ \A m \in steady \ Range(told.ids) :
       Matches(m, Sought) =>
         \/ OnTheLastDay(m)
         \/ told.truncated /\ \A n \in Range(told.ids) : Dataset[n].sent >= Dataset[m].sent

ToldOfSearch ==
  Done({"search"}) => request \in Requests /\ (AtOnce \/ ByThreads(named) \/ ByListing)

\* An analysis tells of what was read, a reply answers the latest of it.
ToldOfReading ==
  Done({"summarise", "classify", "extract", "reply"}) =>
    /\ request \in Requests /\ Scope(request) \in {"messages", "thread"} /\ read # << >>
    /\ Scope(request) = "messages" => read = request.ids
    /\ Scope(request) = "thread" =>
         /\ \A m \in Range(read) : Dataset[m].thread = request.thread
         /\ \A m \in steady : OfTheThread(m) => m \in Range(read)
    /\ request.kind # "reply" => told.ids = read /\ told.cited \subseteq Range(read)
    /\ request.kind = "reply" => told.draft = Plan(Answered, request.all) /\ told.draft.to # {}

ToldInv == CallInv /\ ToldOfSearch /\ ToldOfReading

LEMMA HeadersTold ==
  ASSUME NEW page, NEW truncated, TellsHeaders(page, truncated), told'.outcome = "done"
  PROVE  told'.ids = page /\ told'.truncated = truncated
<1>1. ~Fails("unreadable")
  BY DEF Fails, Answers, Nothing
<1>2. Succeeds([Nothing EXCEPT !.ids = page, !.truncated = truncated])
  BY <1>1 DEF TellsHeaders
<1> QED
  BY <1>2 DEF Succeeds, Answers, Nothing

LEMMA SearchAtOnceTells ==
  ASSUME CallInv, SearchAtOnce, told'.outcome = "done"
  PROVE  AtOnce'
<1> DEFINE S == {m \in Ids : Matches(m, Sought)}
<1>1. /\ backend \in {"memory", "native"} /\ UNCHANGED <<mailbox, request>>
      /\ TellsHeaders(TopOf(S, Sought), Cardinality(S) > Sought.limit)
  BY DEF SearchAtOnce, Sought
<1>2. backend' = backend /\ mail' = mail /\ request' = request
  BY <1>1 DEF mailbox
<1>3. S' = S
  BY <1>2 DEF Matches, Here, MatchesEnvelope, MatchesState, WithinDates, Sought
<1>4. /\ AtOnce' = /\ backend' \in {"memory", "native"}
                   /\ told'.ids = PageOf(S', Sought'.newestFirst, Sought'.limit)
                   /\ told'.truncated = (Cardinality(S') > Sought'.limit)
      /\ TopOf(S, Sought) = PageOf(S, Sought.newestFirst, Sought.limit)
  BY DEF AtOnce, TopOf, PageOf
<1>5. Sought' = Sought
  BY <1>2 DEF Sought
<1> HIDE DEF S
<1>6. told'.ids = TopOf(S, Sought) /\ told'.truncated = (Cardinality(S) > Sought.limit)
  BY <1>1, HeadersTold
<1> QED
  BY <1>1, <1>2, <1>3, <1>4, <1>5, <1>6

LEMMA SearchThreadsTells ==
  ASSUME CallInv, SearchThreads, told'.outcome = "done"
  PROVE  ByThreads(named)'
<1> DEFINE S == {m \in Ids : MatchesQuery(m, Sought, named)}
<1>1. /\ stage = "searching" /\ backend = "google" /\ UNCHANGED <<mailbox, request, named>>
      /\ \E T \in ThreadPages(S, Sought.limit) :
           IF \E m \in FoundIn(T) : HeaderFails(m)
           THEN Fails("unreadable")
           ELSE TellsHeaders(FirstOf(Ordered(FoundIn(T), Sought.newestFirst), Sought.limit),
                             IsTruncated(Ordered(FoundIn(T), Sought.newestFirst), T # ThreadsOf(S), Sought))
  BY DEF SearchThreads, Sought, FoundIn
<1>2. backend' = backend /\ mail' = mail /\ request' = request /\ named' = named /\ Sought' = Sought
  BY <1>1 DEF mailbox, Sought
<1>3. named \subseteq Sought.labels
  BY <1>1 DEF CallInv, UnderWay, Sought
<1>4. S' = S /\ \A T : FoundIn(T)' = FoundIn(T)
  BY <1>2 DEF MatchesQuery, StillMatches, FoundIn, Here, MatchesEnvelope, MatchesState, WithinDates, Sought,
             Unplaced, Undated
<1>5. ~Fails("unreadable")
  BY DEF Fails, Answers, Nothing
<1>6. PICK T \in ThreadPages(S, Sought.limit) :
        TellsHeaders(FirstOf(Ordered(FoundIn(T), Sought.newestFirst), Sought.limit),
                     IsTruncated(Ordered(FoundIn(T), Sought.newestFirst), T # ThreadsOf(S), Sought))
  BY <1>1, <1>5
<1>7. /\ told'.ids = FirstOf(Ordered(FoundIn(T), Sought.newestFirst), Sought.limit)
      /\ told'.truncated = IsTruncated(Ordered(FoundIn(T), Sought.newestFirst), T # ThreadsOf(S), Sought)
  BY <1>6, HeadersTold
<1>8. \E U \in ThreadPages(S', Sought'.limit) :
        /\ told'.ids = PageOf(FoundIn(U)', Sought'.newestFirst, Sought'.limit)
        /\ ~told'.truncated => /\ U = ThreadsOf(S')
                               /\ ~(Len(Ordered(FoundIn(U)', Sought'.newestFirst)) > Sought'.limit)
  <2>1. told'.ids = PageOf(FoundIn(T), Sought.newestFirst, Sought.limit)
    BY <1>7 DEF PageOf
  <2>2. ~told'.truncated => /\ T = ThreadsOf(S)
                            /\ ~(Len(Ordered(FoundIn(T), Sought.newestFirst)) > Sought.limit)
    BY <1>7 DEF IsTruncated
  <2> HIDE DEF S
  <2> QED
    BY <1>2, <1>4, <2>1, <2>2
<1> QED
  BY <1>1, <1>2, <1>3, <1>8 DEF ByThreads

(* An empty listing, and the last header of another. *)
LEMMA ListingTells ==
  ASSUME CallInv, ListIds \/ FetchHeader, stage' = "idle", told'.outcome = "done"
  PROVE  ByListing'
<1>0. TypeOK /\ UnderWay /\ ListingStands
  BY DEF CallInv
<1>1. CASE ListIds
  <2> DEFINE S == {m \in Ids : MatchesQuery(m, Sought, Sought.labels)}
  <2>1. /\ stage = "searching" /\ backend = "gmail" /\ UNCHANGED <<mailbox, request>>
        /\ IF S = {} THEN Succeeds(Nothing) ELSE stage' = "fetching"
    BY <1>1 DEF ListIds, Sought
  <2>2. /\ backend' = backend /\ mail' = mail /\ request' = request /\ steady' = steady
    BY <2>1 DEF mailbox
  <2>3. request \in Requests /\ Sought.from \in Nat /\ Sought.to \in Nat
    <3>1. request \in Requests
      BY <1>0, <2>1 DEF UnderWay
    <3> QED
      BY <3>1, RequestsAreWellFormed DEF Sought
  <2>4. S = {} /\ told'.ids = << >>
    BY <2>1 DEF Succeeds, Answers, Nothing
  <2>5. Range(told.ids)' = {}
    BY <2>4 DEF Range
  <2>6. ASSUME NEW m \in steady', Matches(m, Sought)' PROVE OnTheLastDay(m)'
    <3>1. m \in Ids /\ Matches(m, Sought) /\ ~MatchesQuery(m, Sought, Sought.labels)
      BY <1>0, <2>2, <2>4, <2>6
         DEF TypeOK, Matches, Here, MatchesEnvelope, MatchesState, WithinDates, Sought
    <3>2. Sought.to # NoDate /\ DayOf(Dataset[m].sent) = DayOf(Sought.to)
      BY <2>3, <3>1, QueryMissesTheLastDay
    <3> QED
      BY <2>1, <2>2, <3>2 DEF OnTheLastDay, Sought
  <2> QED
    BY <2>1, <2>2, <2>5, <2>6 DEF ByListing
<1>2. CASE FetchHeader
  <2>1. /\ stage = "fetching" /\ UNCHANGED <<mailbox, request, more>>
    BY <1>2 DEF FetchHeader
  <2>2. /\ backend' = backend /\ mail' = mail /\ request' = request /\ steady' = steady
        /\ backend = "gmail" /\ request \in Requests
    BY <1>0, <2>1 DEF mailbox, UnderWay
  <2>3. /\ Range(read') = Listed
        /\ TellsHeaders(Ordered(Range(read'), request.criteria.newestFirst), more)
    BY <1>2, FetchingKeepsInvariant
  <2>4. Listed \in SUBSET Ids /\ request.criteria.newestFirst \in BOOLEAN
    BY <1>0, <2>2, RequestsAreWellFormed DEF Listed, Range, TypeOK
  <2>5. Range(Ordered(Listed, request.criteria.newestFirst)) = Listed
    BY <2>4, OrderedKeepsAll
  <2>6. told'.ids = Ordered(Listed, request.criteria.newestFirst) /\ told'.truncated = more
    BY <2>3, HeadersTold
  <2>7. Range(told.ids)' = Listed
    BY <2>5, <2>6 DEF Range
  <2>8. /\ \A m \in Listed \cap steady : MatchesQuery(m, Sought, Sought.labels)
        /\ \A m \in steady \ Listed : Matches(m, Sought) => Excused(m)
    BY <1>0, <2>1 DEF ListingStands, Sought
  <2>9. \A m : /\ Matches(m, Sought)' = Matches(m, Sought)
               /\ MatchesQuery(m, Sought, Sought.labels)' = MatchesQuery(m, Sought, Sought.labels)
               /\ OnTheLastDay(m)' = OnTheLastDay(m)
    BY <2>2 DEF Matches, MatchesQuery, Here, MatchesEnvelope, MatchesState, WithinDates, Sought, OnTheLastDay
  <2>10. \A m : Excused(m) => \/ OnTheLastDay(m)
                              \/ more /\ \A n \in Listed : Dataset[n].sent >= Dataset[m].sent
    BY DEF Excused
  <2> QED
    BY <2>2, <2>6, <2>7, <2>8, <2>9, <2>10 DEF ByListing
<1> QED
  BY <1>1, <1>2

(* The steps of an analysis, and of a reply. *)
LEMMA ReasoningTells ==
  ASSUME CallInv, Summarise \/ ExtractActions \/ Classify \/ Draft
  PROVE  ToldOfReading'
<1>0. TypeOK /\ UnderWay /\ OnCourse
  BY DEF CallInv
<1>1. /\ stage = "reasoning" /\ UNCHANGED <<mailbox, request, read>>
      /\ request.kind \in {"summarise", "extract", "classify", "reply"}
  BY DEF Summarise, ExtractActions, Classify, Concludes, Draft
<1>2. request' = request /\ read' = read /\ mail' = mail /\ steady' = steady
  BY <1>1 DEF mailbox
<1>3. SUFFICES ASSUME told'.outcome = "done" PROVE ToldOfReading'
  BY DEF ToldOfReading, Done
<1>4. /\ request \in Requests /\ Scope(request) \in {"messages", "thread"} /\ read # << >>
      /\ Scope(request) = "messages" => read = request.ids
      /\ Scope(request) = "thread" =>
           /\ \A m \in Range(read) : Dataset[m].thread = request.thread
           /\ \A m \in steady : OfTheThread(m) => m \in Range(read)
  BY <1>0, <1>1 DEF TypeOK, UnderWay, OnCourse
<1>5. /\ \A error : ~Fails(error)
  BY <1>3 DEF Fails, Answers, Nothing
<1>6. CASE request.kind # "reply"
  <2>1. Concludes \/ Classify
    BY <1>6 DEF Summarise, ExtractActions, Draft
  <2>2. CASE Concludes
    <3>1. PICK cited \in SUBSET Ids : IF Grounded(cited) THEN Succeeds([Nothing EXCEPT !.ids = read, !.cited = cited])
                                                         ELSE Fails("ungrounded")
      BY <2>2 DEF Concludes
    <3>2. cited \subseteq Range(read) /\ Succeeds([Nothing EXCEPT !.ids = read, !.cited = cited])
      BY <1>5, <3>1 DEF Grounded
    <3> QED
      BY <3>2, <1>1, <1>2, <1>4, <1>6 DEF ToldOfReading, Done, Succeeds, Answers, Nothing, OfTheThread, Here, Range
  <2>3. CASE Classify
    <3>1. Succeeds([Nothing EXCEPT !.ids = read])
      BY <2>3 DEF Classify
    <3> QED
      BY <3>1, <1>1, <1>2, <1>4, <1>6 DEF ToldOfReading, Done, Succeeds, Answers, Nothing, OfTheThread, Here, Range
  <2> QED
    BY <2>1, <2>2, <2>3
<1>7. CASE request.kind = "reply"
  <2>1. Draft
    BY <1>7 DEF Summarise, ExtractActions, Classify
  <2>2. /\ Plan(Answered, request.all).to # {}
        /\ Succeeds([Nothing EXCEPT !.draft = Plan(Answered, request.all)])
    BY <1>5, <2>1 DEF Draft
  <2>3. told'.draft = Plan(Answered, request.all)
    BY <2>2 DEF Succeeds, Answers, Nothing
  <2>4. Plan(Answered, request.all)' = Plan(Answered, request.all)
    BY <1>2 DEF Plan, Answered, Range
  <2> QED
    BY <1>1, <1>2, <1>4, <1>7, <2>2, <2>3, <2>4 DEF ToldOfReading, Done, OfTheThread, Here, Range
<1> QED
  BY <1>6, <1>7

LEMMA ToldKeeps == ToldInv /\ [Next]_vars => ToldInv'
<1> SUFFICES ASSUME ToldInv, [Next]_vars PROVE ToldInv'
  OBVIOUS
<1>0. CallInv /\ CallInv' /\ TypeOK /\ UnderWay /\ ToldOfSearch /\ ToldOfReading
  BY KeepsInvariant DEF ToldInv, CallInv
<1>1. ASSUME told'.outcome # "done" PROVE ToldOfSearch' /\ ToldOfReading'
  BY <1>1 DEF ToldOfSearch, ToldOfReading, Done
<1>2. CASE UNCHANGED vars
  <2>1. /\ UNCHANGED <<backend, mail, request, named, read, told, steady>>
    BY <1>2 DEF vars
  <2>2. ToldOfReading'
    <3>1. /\ Plan(Answered, request.all)' = Plan(Answered, request.all)
          /\ Range(read)' = Range(read)
      BY <2>1 DEF Plan, Answered, Range
    <3>2. \A m : OfTheThread(m)' = OfTheThread(m)
      BY <2>1 DEF OfTheThread, Here
    <3>3. Done({"summarise", "classify", "extract", "reply"})' => Done({"summarise", "classify", "extract", "reply"})
      BY <2>1 DEF Done
    <3> QED
      BY <1>0, <2>1, <3>1, <3>2, <3>3 DEF ToldOfReading
  <2>3. Done({"search"})' => Done({"search"}) /\ (AtOnce' = AtOnce) /\ (ByThreads(named)' = ByThreads(named))
                             /\ (ByListing' = ByListing)
    BY <2>1 DEF Done, AtOnce, ByThreads, ByListing, FoundIn, Matches, MatchesQuery, StillMatches, Here,
                MatchesEnvelope, MatchesState, WithinDates, Sought, OnTheLastDay, Range, Unplaced, Undated
  <2>4. ToldOfSearch'
    BY <1>0, <2>1, <2>3 DEF ToldOfSearch
  <2> QED
    BY <1>0, <2>2, <2>4 DEF ToldInv
<1>3. ASSUME NEW error, Fails(error) PROVE told'.outcome # "done"
  BY <1>3 DEF Fails, Answers, Nothing
<1>4. Nothing.outcome # "done"
  BY DEF Nothing, None
<1>5. ASSUME NEW r \in Requests, Call(r) PROVE told'.outcome # "done"
  <2>1. (Refusal(r) # None /\ Fails(Refusal(r))) \/ told' = Nothing
    BY <1>5 DEF Call
  <2> QED
    BY <1>3, <1>4, <2>1
<1>6. ASSUME FailCall PROVE told'.outcome # "done"
  BY <1>3, <1>6 DEF FailCall
<1>7. ASSUME stage' # "idle" PROVE told'.outcome # "done"
  BY <1>0, <1>4, <1>7 DEF CallInv, UnderWay
<1>8. ASSUME NameLabels PROVE stage' # "idle"
  BY <1>8 DEF NameLabels
<1>9. ASSUME \/ \E m \in Ids : Arrive(m) \/ Discard(m) \/ MarkRead(m)
             \/ \E m \in Ids, l \in Labels : File(m, l)
             \/ \E l \in Labels : DropLabel(l)
      PROVE  stage' # "idle"
  BY <1>9 DEF Arrive, Discard, MarkRead, File, DropLabel, Change, Elsewhere
<1>10. ASSUME SearchAtOnce \/ SearchThreads \/ ListIds \/ FetchHeader, told'.outcome = "done"
       PROVE  ToldOfSearch' /\ ToldOfReading'
  <2>1. stage' = "idle"
    BY <1>7, <1>10
  <2>2. /\ stage \in {"searching", "fetching"} /\ request' = request
    BY <1>10 DEF SearchAtOnce, SearchThreads, ListIds, FetchHeader
  <2>3. request \in Requests /\ request.kind = "search"
    BY <1>0, <2>2 DEF UnderWay
  <2>4. AtOnce' \/ ByThreads(named)' \/ ByListing'
    BY <1>0, <1>10, <2>1, SearchAtOnceTells, SearchThreadsTells, ListingTells
  <2>5. ToldOfSearch'
    BY <2>2, <2>3, <2>4 DEF ToldOfSearch
  <2>6. ToldOfReading'
    BY <2>2, <2>3 DEF ToldOfReading, Done
  <2> QED
    BY <2>5, <2>6
<1>11. ASSUME ReadMessage \/ ReadThread, told'.outcome = "done"
       PROVE  ToldOfSearch' /\ ToldOfReading'
  <2>1. stage' = "idle"
    BY <1>7, <1>11
  <2>2. request' = request /\ request.kind \in {"get_message", "get_thread"}
    BY <2>1, <1>11 DEF ReadMessage, ReadThread
  <2> QED
    BY <2>2 DEF ToldOfSearch, ToldOfReading, Done
<1>12. ASSUME Summarise \/ ExtractActions \/ Classify \/ Draft
       PROVE  ToldOfSearch' /\ ToldOfReading'
  <2>1. request' = request /\ request.kind # "search"
    BY <1>12 DEF Summarise, ExtractActions, Classify, Concludes, Draft
  <2> QED
    BY <1>0, <1>12, <2>1, ReasoningTells DEF ToldOfSearch, Done
<1>13. CASE Next
  <2>1. ToldOfSearch' /\ ToldOfReading'
    BY <1>1, <1>5, <1>6, <1>7, <1>8, <1>9, <1>10, <1>11, <1>12, <1>13 DEF Next, Step
  <2> QED
    BY <1>0, <2>1 DEF ToldInv
<1> QED
  BY <1>2, <1>13

(* Whatever is told follows from what was listed, read and answered. *)
THEOREM ToldIsWhatWasFound == Spec => []ToldInv
<1>1. Init => ToldInv
  <2>1. Init => ToldOfSearch /\ ToldOfReading
    BY DEF Init, ToldOfSearch, ToldOfReading, Done, Nothing, None
  <2> QED
    BY <2>1, StartsInvariant DEF ToldInv
<1>2. ToldInv /\ [Next]_vars => ToldInv'
  BY ToldKeeps
<1> QED
  BY <1>1, <1>2, PTL DEF Spec

LEMMA SoughtIsWellFormed ==
  ASSUME request \in Requests
  PROVE  /\ Sought.newestFirst \in BOOLEAN /\ Sought.limit \in Nat /\ Sought.limit # 0
         /\ Sought.from \in Nat /\ Sought.to \in Nat
BY RequestsAreWellFormed DEF Sought

(* What one request answers with is the first of the matches. *)
LEMMA AtOnceIsTheTop ==
  ASSUME AtOnce, request \in Requests
  PROVE  /\ \A m \in Range(told.ids) : Matches(m, Sought)
         /\ ~told.truncated => \A m \in Ids : Matches(m, Sought) => m \in Range(told.ids)
         /\ \A m \in Ids, n \in Range(told.ids) :
              Matches(m, Sought) /\ m \notin Range(told.ids) => NoLater(n, m, Sought.newestFirst)
<1> DEFINE S == {m \in Ids : Matches(m, Sought)}
<1>1. /\ told.ids = PageOf(S, Sought.newestFirst, Sought.limit)
      /\ told.truncated = (Cardinality(S) > Sought.limit)
  BY DEF AtOnce
<1>2. S \in SUBSET Ids /\ \A m : m \in S <=> m \in Ids /\ Matches(m, Sought)
  OBVIOUS
<1> HIDE DEF S
<1>3. Sought.newestFirst \in BOOLEAN /\ Sought.limit \in Nat
  BY SoughtIsWellFormed
<1>4. /\ Range(PageOf(S, Sought.newestFirst, Sought.limit)) \subseteq S
      /\ ~(Cardinality(S) > Sought.limit) => Range(PageOf(S, Sought.newestFirst, Sought.limit)) = S
      /\ \A m \in S \ Range(PageOf(S, Sought.newestFirst, Sought.limit)),
            n \in Range(PageOf(S, Sought.newestFirst, Sought.limit)) : NoLater(n, m, Sought.newestFirst)
  BY <1>2, <1>3, PageBeginsTheOrder
<1>5. /\ Range(told.ids) \subseteq S
      /\ ~(Cardinality(S) > Sought.limit) => Range(told.ids) = S
      /\ \A m \in S \ Range(told.ids), n \in Range(told.ids) : NoLater(n, m, Sought.newestFirst)
  BY <1>1, <1>4, Zenon
<1> QED
  BY <1>1, <1>2, <1>5

(* What the conversations answer with still matches, and leaves nothing out but of
   the last day, or of no date the bounds could hold, if it is not said to. *)
LEMMA ByThreadsIsFiltered ==
  ASSUME ByThreads(named), request \in Requests
  PROVE  /\ \A m \in Range(told.ids) : StillMatches(m, Sought)
         /\ ~told.truncated =>
              \A m \in Ids : Matches(m, Sought) =>
                m \in Range(told.ids) \/ OnTheLastDay(m) \/ Unplaced(m, Sought)
<1> DEFINE S == {m \in Ids : MatchesQuery(m, Sought, named)}
<1>1. PICK T \in ThreadPages(S, Sought.limit) :
        /\ told.ids = PageOf(FoundIn(T), Sought.newestFirst, Sought.limit)
        /\ ~told.truncated => /\ T = ThreadsOf(S)
                              /\ ~(Len(Ordered(FoundIn(T), Sought.newestFirst)) > Sought.limit)
  BY DEF ByThreads
<1>2. backend = "google" /\ named \subseteq Sought.labels
  BY DEF ByThreads
<1>3. FoundIn(T) \in SUBSET Ids
  BY DEF FoundIn
<1>4. /\ Sought.newestFirst \in BOOLEAN /\ Sought.limit \in Nat
      /\ Sought.from \in Nat /\ Sought.to \in Nat
  BY SoughtIsWellFormed
<1>5. /\ Range(PageOf(FoundIn(T), Sought.newestFirst, Sought.limit)) \subseteq FoundIn(T)
      /\ ~(Cardinality(FoundIn(T)) > Sought.limit) =>
           Range(PageOf(FoundIn(T), Sought.newestFirst, Sought.limit)) = FoundIn(T)
  BY <1>3, <1>4, PageBeginsTheOrder
<1>6. /\ Range(told.ids) \subseteq FoundIn(T)
      /\ ~(Cardinality(FoundIn(T)) > Sought.limit) => Range(told.ids) = FoundIn(T)
  BY <1>1, <1>5, Zenon
<1>7. ASSUME ~told.truncated, NEW m \in Ids, Matches(m, Sought), ~OnTheLastDay(m), ~Unplaced(m, Sought)
      PROVE  m \in Range(told.ids)
  <2>1. MatchesQuery(m, Sought, named)
    <3>1. SUFFICES ASSUME ~MatchesQuery(m, Sought, named) PROVE FALSE
      OBVIOUS
    <3>2. Sought.to # NoDate /\ DayOf(Dataset[m].sent) = DayOf(Sought.to)
      BY <1>2, <1>4, <1>7, <3>1, QueryMissesTheLastDay
    <3> QED
      BY <1>2, <1>7, <3>2 DEF OnTheLastDay, Sought
  <2>2. Dataset[m].thread \in T
    BY <1>1, <1>7, <2>1 DEF ThreadsOf
  <2>3. StillMatches(m, Sought)
    BY <1>7 DEF Matches, MatchesEnvelope, StillMatches, None
  <2>4. m \in FoundIn(T)
    BY <2>2, <2>3 DEF FoundIn
  <2>5. Len(Ordered(FoundIn(T), Sought.newestFirst)) = Cardinality(FoundIn(T))
    BY <1>3, <1>4, OrderedHoldsAll
  <2> QED
    BY <1>1, <1>6, <1>7, <2>4, <2>5
<1> QED
  BY <1>6, <1>7 DEF FoundIn

(* A search tells of messages that satisfy what was asked, for every mailbox,
   request and history of changes. *)
THEOREM ResultsAlwaysMatch == Spec => []ResultsMatch
<1>1. ToldInv => ResultsMatch
  <2> SUFFICES ASSUME ToldInv, Done({"search"}), NEW m \in Untouched(told.ids)
               PROVE  /\ MatchesState(m, Sought)
                      /\ IF backend = "gmail" THEN WithinDates(m, [Sought EXCEPT !.from = NoDate])
                                              ELSE WithinDates(m, Sought)
                      /\ IF backend = "google"
                         THEN Sought.labels = {} \/ Sought.labels \cap mail[m].labels # {}
                         ELSE Sought.labels \subseteq mail[m].labels /\ MatchesEnvelope(m, Sought)
    BY DEF ResultsMatch, Sought
  <2>1. request \in Requests /\ (AtOnce \/ ByThreads(named) \/ ByListing)
    BY DEF ToldInv, ToldOfSearch
  <2>2. m \in steady /\ m \in Range(told.ids) /\ m \in Ids
    BY DEF Untouched, ToldInv, CallInv, TypeOK
  <2>3. CASE AtOnce
    <3>1. Matches(m, Sought) /\ backend \notin {"gmail", "google"}
      BY <2>1, <2>2, <2>3, AtOnceIsTheTop DEF AtOnce
    <3> QED
      BY <3>1 DEF Matches
  <2>4. CASE ByThreads(named)
    <3>1. StillMatches(m, Sought) /\ backend = "google"
      BY <2>1, <2>2, <2>4, ByThreadsIsFiltered DEF ByThreads
    <3> QED
      BY <3>1 DEF StillMatches
  <2>5. CASE ByListing
    <3>1. MatchesQuery(m, Sought, Sought.labels) /\ backend = "gmail"
      BY <2>2, <2>5 DEF ByListing
    <3>2. Sought.to = NoDate \/ Dataset[m].sent <= Sought.to
      BY <2>1, <2>2, <3>1, SoughtIsWellFormed, QueryKeepsTheUpperBound
    <3>3. WithinDates(m, [Sought EXCEPT !.from = NoDate])
      <4>1. Sought \in Criteria
        BY <2>1, ReadingAssumption DEF Sought, Request
      <4>2. [Sought EXCEPT !.from = NoDate].from = NoDate /\ [Sought EXCEPT !.from = NoDate].to = Sought.to
        BY <4>1 DEF Criteria
      <4> QED
        BY <3>2, <4>2 DEF WithinDates
    <3> QED
      BY <3>1, <3>3 DEF MatchesQuery
  <2> QED
    BY <2>1, <2>3, <2>4, <2>5
<1> QED
  BY <1>1, ToldIsWhatWasFound, PTL

(* A result not said to be truncated is complete, the last day apart, and
   what has no date where dates are bounded. *)
THEOREM UntruncatedSearchTellsAll == Spec => []UntruncatedIsComplete
<1>1. ToldInv => UntruncatedIsComplete
  <2> SUFFICES ASSUME ToldInv, Done({"search"}), ~told.truncated, NEW m \in LeftOut
               PROVE  OnTheLastDay(m) \/ Unplaced(m, Sought)
    BY DEF UntruncatedIsComplete, Sought
  <2>1. request \in Requests /\ (AtOnce \/ ByThreads(named) \/ ByListing)
    BY DEF ToldInv, ToldOfSearch
  <2>2. m \in steady /\ m \in Ids /\ Matches(m, Sought) /\ m \notin Range(told.ids)
    BY DEF LeftOut, Sought, ToldInv, CallInv, TypeOK
  <2> QED
    BY <2>1, <2>2, AtOnceIsTheTop, ByThreadsIsFiltered DEF ByListing
<1> QED
  BY <1>1, ToldIsWhatWasFound, PTL

(* What a truncated result leaves out does not come before what it tells. *)
THEOREM PagesAreTheTop == Spec => []PageIsTheTop
<1>1. ToldInv => PageIsTheTop
  <2> SUFFICES ASSUME ToldInv, Done({"search"}), PagesInOrder,
                      NEW m \in LeftOut, NEW n \in Untouched(told.ids), ~OnTheLastDay(m)
               PROVE  IF Sought.newestFirst THEN Dataset[n].sent >= Dataset[m].sent
                                            ELSE Dataset[n].sent <= Dataset[m].sent
    BY DEF PageIsTheTop, Sought
  <2>1. request \in Requests /\ (AtOnce \/ ByThreads(named) \/ ByListing)
    BY DEF ToldInv, ToldOfSearch
  <2>2. m \in steady /\ m \in Ids /\ Matches(m, Sought) /\ m \notin Range(told.ids) /\ n \in Range(told.ids)
    BY DEF LeftOut, Untouched, Sought, ToldInv, CallInv, TypeOK
  <2>3. CASE AtOnce
    BY <2>1, <2>2, <2>3, AtOnceIsTheTop DEF NoLater
  <2>4. CASE ByThreads(named)
    BY <2>4 DEF ByThreads, PagesInOrder
  <2>5. CASE ByListing
    BY <2>2, <2>5 DEF ByListing, PagesInOrder, Sought
  <2> QED
    BY <2>1, <2>3, <2>4, <2>5
<1> QED
  BY <1>1, ToldIsWhatWasFound, PTL

(* An analysis rests on all it was asked about. *)
THEOREM AnalysesRestOnEverything == Spec => []NothingIsLeftOut
<1>1. ToldInv => NothingIsLeftOut
  <2> SUFFICES ASSUME ToldInv, Done({"summarise", "classify", "extract"}) PROVE NothingIsLeftOut
    BY DEF NothingIsLeftOut
  <2>1. Done({"summarise", "classify", "extract", "reply"}) /\ request.kind # "reply"
    BY DEF Done
  <2>2. /\ Scope(request) \in {"messages", "thread"} /\ told.ids = read
        /\ Scope(request) = "messages" => read = request.ids
        /\ Scope(request) = "thread" => \A m \in steady : OfTheThread(m) => m \in Range(read)
    BY <2>1 DEF ToldInv, ToldOfReading
  <2> QED
    BY <2>2 DEF NothingIsLeftOut, OfTheThread
<1> QED
  BY <1>1, ToldIsWhatWasFound, PTL

(* Nothing is cited that the call was not asked about. *)
THEOREM SourcesAreAskedFor == Spec => []SourcesWereAskedFor
<1>1. ToldInv => SourcesWereAskedFor
  <2> SUFFICES ASSUME ToldInv, Done({"summarise", "extract"}), NEW m \in told.cited
               PROVE  IF Scope(request) = "thread" THEN Dataset[m].thread = request.thread
                                                   ELSE m \in Range(request.ids)
    BY DEF SourcesWereAskedFor
  <2>1. Done({"summarise", "classify", "extract", "reply"}) /\ request.kind # "reply"
    BY DEF Done
  <2>2. /\ Scope(request) \in {"messages", "thread"} /\ told.cited \subseteq Range(read)
        /\ Scope(request) = "messages" => read = request.ids
        /\ Scope(request) = "thread" => \A n \in Range(read) : Dataset[n].thread = request.thread
    BY <2>1 DEF ToldInv, ToldOfReading
  <2> QED
    BY <2>2
<1> QED
  BY <1>1, ToldIsWhatWasFound, PTL

(* The message a reply answers is one of those read, and none of them is later. *)
LEMMA AnsweredIsTheLatest ==
  ASSUME TypeOK, read # << >>
  PROVE  Answered \in Range(read) /\ \A m \in Range(read) : Dataset[m].sent <= Dataset[Answered].sent
<1> DEFINE latest == {m \in Range(read) : \A n \in Range(read) : Dataset[n].sent <= Dataset[m].sent}
<1>1. Range(read) \in SUBSET Ids /\ Range(read) # {}
  <2>1. read \in Seq(Ids)
    BY DEF TypeOK
  <2>2. read[1] \in Range(read)
    BY <2>1 DEF Range
  <2> QED
    BY <2>1, <2>2 DEF Range
<1>2. latest # {}
  BY <1>1, OneIsLatest
<1>3. latest \in SUBSET Nat
  BY <1>1, IdsAreFinite
<1> HIDE DEF latest
<1>4. \E m \in latest : \A n \in latest : m <= n
  BY <1>2, <1>3, LeastNatural
<1>5. Answered = CHOOSE m \in latest : \A n \in latest : m <= n
  BY DEF Answered, latest
<1>6. Answered \in latest
  BY <1>4, <1>5
<1> QED
  BY <1>6 DEF latest

(* A reply reaches the people of the message it answers, never its author. *)
THEOREM RepliesStay == Spec => []RepliesStayInTheConversation
<1>1. ToldInv => RepliesStayInTheConversation
  <2> DEFINE d == told.draft
             people == ({Dataset[d.answered].sender} \cup Recipients(d.answered)) \ {Address}
  <2> SUFFICES ASSUME ToldInv, Done({"reply"})
               PROVE  /\ d.to # {} /\ d.to \cap d.cc = {} /\ d.to \cup d.cc \subseteq people
                      /\ request.all => d.to \cup d.cc = people
                      /\ Scope(request) = "thread" =>
                           \A m \in steady : Here(m) /\ Dataset[m].thread = request.thread
                                               => Dataset[m].sent <= Dataset[d.answered].sent
    BY DEF RepliesStayInTheConversation
  <2>1. Done({"summarise", "classify", "extract", "reply"}) /\ request.kind = "reply"
    BY DEF Done
  <2>2. /\ TypeOK /\ read # << >> /\ d = Plan(Answered, request.all) /\ d.to # {}
        /\ Scope(request) = "thread" => \A m \in steady : OfTheThread(m) => m \in Range(read)
    BY <2>1 DEF ToldInv, ToldOfReading, CallInv
  <2>3. d.answered = Answered
    BY <2>2 DEF Plan
  <2>4. /\ d.to \cap d.cc = {} /\ d.to \cup d.cc \subseteq people
        /\ request.all => d.to \cup d.cc = people
    <3> DEFINE primary == {Dataset[Answered].sender} \ {Address}
               others == IF request.all THEN Recipients(Answered) \ ({Address} \cup primary) ELSE {}
    <3>1. people = ({Dataset[Answered].sender} \cup Recipients(Answered)) \ {Address}
      BY <2>3
    <3>2. CASE primary # {}
      <4>1. d.to = primary /\ d.cc = others
        BY <2>2, <3>2 DEF Plan
      <4> QED
        BY <3>1, <4>1
    <3>3. CASE primary = {}
      <4>1. d.to = others /\ d.cc = {}
        BY <2>2, <3>3 DEF Plan
      <4> QED
        BY <3>1, <3>3, <4>1
    <3> QED
      BY <3>2, <3>3
  <2>5. \A m \in Range(read) : Dataset[m].sent <= Dataset[d.answered].sent
    BY <2>2, <2>3, AnsweredIsTheLatest
  <2> QED
    BY <2>2, <2>4, <2>5 DEF OfTheThread
<1> QED
  BY <1>1, ToldIsWhatWasFound, PTL
=============================================================================
