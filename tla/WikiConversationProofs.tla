----------------------- MODULE WikiConversationProofs -----------------------
(* Proofs about WikiConversation, for every set of conversations, deployments,
   pages, comments, preferences and every bound. *)
EXTENDS WikiConversation, OrderLemmas, SequenceTheorems, TLAPS

(***************************************************************************)
(* A batch and the decisions for its suspended calls.  Decisions carry no  *)
(* name: the one at position n is for the n-th suspended call, and says    *)
(* what was answered for it.                                               *)
(***************************************************************************)
WaitingIn(b) == {i \in DOMAIN b : b[i].state = "waiting"}

Rank(b, i) == Cardinality(UpTo(WaitingIn(b), i))

Decided(b, d, at, channel) ==
  /\ WaitingIn(b) # {} \/ d # << >> => at = "asking"
  /\ \A i \in WaitingIn(b) : Rank(b, i) <= Len(d) => (d[Rank(b, i)] <=> b[i].said = "yes")
  /\ \A i \in DOMAIN b :
       /\ b[i].state = "approved" => b[i].said = "yes"
       /\ b[i].state = "clear" => ~Gated(b[i].call.tool)
       /\ b[i].said = "yes" => channel = "console"

Batches ==
  \A c \in Conversations : Decided(batch[c], decisions[c], phase[c], held[c].channel)

\* What a runtime keeps is its own: drafts and tickets of this life of the
\* conversation, tickets nobody answered.
Stores ==
  \A c \in Conversations :
    /\ \A d \in stored[c] : drafts[d] = [home |-> c, life |-> life[c]]
    /\ \A t \in pending[c] :
         tickets[t].home = c /\ tickets[t].life = life[c] /\ tickets[t].fate = "open"

\* A ticket being performed was confirmed here and was not performed before.
Performing ==
  \A c \in Conversations : phase[c] = "confirming" =>
    /\ held[c].channel = "http"
    /\ working[c] \in DOMAIN tickets
    /\ tickets[working[c]].home = c /\ tickets[working[c]].life = life[c]
    /\ tickets[working[c]].fate = "confirmed"
    /\ \A k \in DOMAIN log : log[k].ticket # working[c]

\* What was performed for a ticket, once, and from a draft.
Logged ==
  /\ \A k \in DOMAIN log : log[k].ticket # 0 =>
       /\ log[k].ticket \in DOMAIN tickets
       /\ tickets[log[k].ticket].fate = "confirmed"
       /\ tickets[log[k].ticket].call = log[k].call
       /\ tickets[log[k].ticket].home = log[k].home
       /\ tickets[log[k].ticket].life = log[k].life
  /\ \A k, l \in DOMAIN log : log[k].ticket # 0 /\ log[k].ticket = log[l].ticket => k = l
  /\ \A k \in DOMAIN log : log[k].call.tool \in FromDraft =>
       /\ log[k].call.on \in DOMAIN drafts
       /\ drafts[log[k].call.on] = [home |-> log[k].home, life |-> log[k].life]
  /\ \A k \in DOMAIN log : Gated(log[k].call.tool) =>
       \/ held[log[k].home].channel = "console" /\ log[k].said = "yes"
       \/ held[log[k].home].channel # "console" /\ log[k].ticket # 0

-----------------------------------------------------------------------------
(* Batches and decisions. *)

LEMMA WaitingIsFinite ==
  ASSUME NEW b \in Seq(Entry)
  PROVE  /\ IsFiniteSet(WaitingIn(b))
         /\ \A j \in WaitingIn(b) : j \in Nat
         /\ \A j \in WaitingIn(b) : j <= Len(b)
<1>1. WaitingIn(b) \in SUBSET (1 .. Len(b))
  BY DEF WaitingIn
<1>2. IsFiniteSet(1 .. Len(b))
  BY FS_Interval
<1> QED
  BY <1>1, <1>2, FS_Subset

(* The suspended call the resolver is at exists, and its rank is its turn. *)
LEMMA AskedIsWaiting ==
  ASSUME NEW c \in Conversations, batch[c] \in Seq(Entry), decisions[c] \in Seq(BOOLEAN),
         Undecided(c)
  PROVE  /\ Asked(c) \in WaitingIn(batch[c])
         /\ Rank(batch[c], Asked(c)) = Len(decisions[c]) + 1
<1> DEFINE W == Waiting(c)
           n == Len(decisions[c]) + 1
<1>1. W = WaitingIn(batch[c])
  BY DEF Waiting, WaitingIn
<1>2. /\ IsFiniteSet(W)
      /\ \A j \in W : j \in Nat
      /\ \A j \in W : j <= Len(batch[c])
  BY <1>1, WaitingIsFinite
<1>3. n \in Nat /\ 1 <= n /\ n <= Cardinality(W)
  BY <1>2, FS_CardinalityType DEF Undecided
<1>4. Len(batch[c]) \in Nat
  OBVIOUS
<1> HIDE DEF W, n
<1>5. \E i \in W : Cardinality(UpTo(W, i)) = n
  BY <1>2, <1>3, <1>4, RankExists
<1>6. \E i \in W : Cardinality({j \in W : j <= i}) = n
  BY <1>5 DEF UpTo
<1>7. Suspended(c, n) \in W /\ Cardinality({j \in W : j <= Suspended(c, n)}) = n
  BY <1>6 DEF Suspended, W
<1> QED
  BY <1>1, <1>7 DEF Asked, n, Rank, UpTo

(* The next decision is appended, and what was said noted at its call. *)
LEMMA DecidingOne ==
  ASSUME NEW c \in Conversations, batch[c] \in Seq(Entry), decisions[c] \in Seq(BOOLEAN),
         Decided(batch[c], decisions[c], "asking", held[c].channel),
         Asked(c) \in WaitingIn(batch[c]), Rank(batch[c], Asked(c)) = Len(decisions[c]) + 1,
         NEW yes \in BOOLEAN, NEW said \in {None, "undescribed", "ticket", "yes", "no"},
         yes <=> said = "yes", yes => held[c].channel = "console"
  PROVE  /\ [batch[c] EXCEPT ![Asked(c)].said = said] \in Seq(Entry)
         /\ Append(decisions[c], yes) \in Seq(BOOLEAN)
         /\ Decided([batch[c] EXCEPT ![Asked(c)].said = said], Append(decisions[c], yes),
                    "asking", held[c].channel)
<1> DEFINE b       == batch[c]
           d       == decisions[c]
           k       == Asked(c)
           channel == held[c].channel
           new     == [b EXCEPT ![k].said = said]
           dd      == Append(d, yes)
<1>0. /\ b \in Seq(Entry) /\ d \in Seq(BOOLEAN) /\ Decided(b, d, "asking", channel)
      /\ k \in WaitingIn(b) /\ Rank(b, k) = Len(d) + 1
      /\ yes => channel = "console"
  OBVIOUS
<1> SUFFICES new \in Seq(Entry) /\ dd \in Seq(BOOLEAN) /\ Decided(new, dd, "asking", channel)
  OBVIOUS
<1> HIDE DEF b, d, k, channel
<1>1. k \in DOMAIN b /\ b[k].state = "waiting" /\ b[k] \in Entry
  BY <1>0 DEF WaitingIn
<1>2. /\ new[k] = [b[k] EXCEPT !.said = said]
      /\ \A i \in DOMAIN b : i # k => new[i] = b[i]
      /\ DOMAIN new = DOMAIN b
  BY <1>0, <1>1
<1>3. [b[k] EXCEPT !.said = said] \in Entry
  BY <1>1 DEF Entry
<1>4. new \in Seq(Entry)
  BY <1>0, <1>1, <1>3
<1>5. /\ new[k].said = said /\ new[k].state = b[k].state /\ new[k].call = b[k].call
  BY <1>1, <1>2 DEF Entry
<1> HIDE DEF new
<1>6. WaitingIn(new) = WaitingIn(b)
  BY <1>1, <1>2, <1>5 DEF WaitingIn
<1>7. \A i : Rank(new, i) = Rank(b, i)
  BY <1>6 DEF Rank
<1>8. /\ dd \in Seq(BOOLEAN) /\ Len(dd) = Len(d) + 1
      /\ dd[Len(d) + 1] = yes
      /\ \A n \in 1 .. Len(d) : dd[n] = d[n]
  BY <1>0
<1> HIDE DEF dd
<1>9. ASSUME NEW i \in WaitingIn(b), Rank(b, i) <= Len(dd)
      PROVE  dd[Rank(b, i)] <=> new[i].said = "yes"
  <2>1. Rank(b, i) \in Nat /\ 1 <= Rank(b, i)
    BY <1>0, WaitingIsFinite, RankBounds DEF Rank
  <2>2. CASE i = k
    BY <2>2, <1>0, <1>5, <1>8
  <2>3. CASE i # k
    <3>1. Rank(b, i) # Rank(b, k)
      BY <2>3, <1>0, WaitingIsFinite, RanksDiffer DEF Rank
    <3>2. Rank(b, i) \in 1 .. Len(d)
      BY <3>1, <2>1, <1>0, <1>8, <1>9
    <3>3. i \in DOMAIN b
      BY DEF WaitingIn
    <3> QED
      BY <3>2, <3>3, <2>3, <1>0, <1>2, <1>8 DEF Decided
  <2> QED
    BY <2>2, <2>3
<1>10. ASSUME NEW i \in DOMAIN new
       PROVE  /\ new[i].state = "approved" => new[i].said = "yes"
              /\ new[i].state = "clear" => ~Gated(new[i].call.tool)
              /\ new[i].said = "yes" => channel = "console"
  <2>1. CASE i = k
    BY <2>1, <1>0, <1>1, <1>5
  <2>2. CASE i # k
    BY <2>2, <1>0, <1>2 DEF Decided
  <2> QED
    BY <2>1, <2>2
<1>11. Decided(new, dd, "asking", channel)
  BY <1>6, <1>7, <1>9, <1>10 DEF Decided
<1> QED
  BY <1>4, <1>8, <1>11

(* Every decision reaches its call. *)
LEMMA ResumingAll ==
  ASSUME NEW b \in Seq(Entry), NEW d \in Seq(BOOLEAN), NEW at, NEW channel,
         Decided(b, d, at, channel), Cardinality(WaitingIn(b)) <= Len(d)
  PROVE  LET new == [i \in DOMAIN b |->
                      IF i \in WaitingIn(b)
                        THEN [b[i] EXCEPT !.state = IF d[Rank(b, i)] THEN "approved" ELSE "declined"]
                        ELSE b[i]] IN
         /\ new \in Seq(Entry)
         /\ Decided(new, << >>, "running", channel)
<1> DEFINE new == [i \in DOMAIN b |->
                    IF i \in WaitingIn(b)
                      THEN [b[i] EXCEPT !.state = IF d[Rank(b, i)] THEN "approved" ELSE "declined"]
                      ELSE b[i]]
<1>1. \A i \in DOMAIN b : b[i] \in Entry
  OBVIOUS
<1>2. ASSUME NEW i \in WaitingIn(b)
      PROVE  /\ i \in DOMAIN b
             /\ new[i] \in Entry
             /\ new[i].said = b[i].said
             /\ new[i].state = IF d[Rank(b, i)] THEN "approved" ELSE "declined"
             /\ d[Rank(b, i)] <=> b[i].said = "yes"
  <2>1. i \in DOMAIN b
    BY DEF WaitingIn
  <2>2. 1 <= Rank(b, i) /\ Rank(b, i) <= Len(d) /\ Rank(b, i) \in Nat
    <3>1. /\ Rank(b, i) \in Nat /\ 1 <= Rank(b, i)
          /\ Rank(b, i) <= Cardinality(WaitingIn(b))
      BY WaitingIsFinite, RankBounds DEF Rank
    <3>2. Cardinality(WaitingIn(b)) \in Nat
      BY WaitingIsFinite, FS_CardinalityType
    <3> QED
      BY <3>1, <3>2
  <2>3. d[Rank(b, i)] <=> b[i].said = "yes"
    BY <2>2 DEF Decided
  <2> QED
    BY <2>1, <2>3, <1>1 DEF Entry
<1>3. \A i \in DOMAIN b : i \notin WaitingIn(b) => new[i] = b[i] /\ b[i].state # "waiting"
  BY DEF WaitingIn
<1>4. DOMAIN new = DOMAIN b /\ DOMAIN b = 1 .. Len(b)
  OBVIOUS
<1> HIDE DEF new
<1>5. \A i \in 1 .. Len(b) : new[i] \in Entry
  BY <1>1, <1>2, <1>3, <1>4
<1>6. new \in Seq(Entry)
  <2>1. new = [i \in 1 .. Len(b) |-> new[i]]
    BY <1>4 DEF new
  <2> QED
    BY <1>5, <2>1
<1>7. WaitingIn(new) = {}
  BY <1>2, <1>3, <1>4 DEF WaitingIn
<1>8. ASSUME NEW i \in DOMAIN new
      PROVE  /\ new[i].state = "approved" => new[i].said = "yes"
             /\ new[i].state = "clear" => ~Gated(new[i].call.tool)
             /\ new[i].said = "yes" => channel = "console"
  BY <1>2, <1>3, <1>4 DEF Decided
<1>9. Decided(new, << >>, "running", channel)
  BY <1>7, <1>8 DEF Decided
<1> QED
  BY <1>6, <1>9 DEF new

(* Everything suspended is declined. *)
LEMMA DecliningAll ==
  ASSUME NEW b \in Seq(Entry), NEW at, NEW channel, Decided(b, << >>, at, channel)
  PROVE  LET new == [i \in DOMAIN b |->
                      IF i \in WaitingIn(b) THEN [b[i] EXCEPT !.state = "declined"] ELSE b[i]] IN
         /\ new \in Seq(Entry)
         /\ Decided(new, << >>, "stopping", channel)
<1> DEFINE new == [i \in DOMAIN b |->
                    IF i \in WaitingIn(b) THEN [b[i] EXCEPT !.state = "declined"] ELSE b[i]]
<1>1. ASSUME NEW i \in DOMAIN b
      PROVE  /\ new[i] \in Entry
             /\ new[i].state # "waiting"
             /\ new[i].said = b[i].said
             /\ new[i].state = "declined" \/ new[i] = b[i]
  <2>1. b[i] \in Entry
    OBVIOUS
  <2> QED
    BY <2>1 DEF WaitingIn, Entry
<1>2. DOMAIN new = DOMAIN b /\ DOMAIN b = 1 .. Len(b)
  OBVIOUS
<1>3. new \in Seq(Entry)
  BY <1>1, <1>2
<1> HIDE DEF new
<1>4. WaitingIn(new) = {}
  BY <1>1, <1>2 DEF WaitingIn
<1>5. Decided(new, << >>, "stopping", channel)
  BY <1>1, <1>2, <1>4 DEF Decided
<1> QED
  BY <1>3, <1>5 DEF new

(* A call has run. *)
LEMMA RunningOne ==
  ASSUME NEW b \in Seq(Entry), NEW at, NEW channel, Decided(b, << >>, at, channel),
         at # "asking", NEW k \in DOMAIN b
  PROVE  LET new == [b EXCEPT ![k].state = "ran"] IN
         /\ new \in Seq(Entry)
         /\ Decided(new, << >>, at, channel)
<1> DEFINE new == [b EXCEPT ![k].state = "ran"]
<1>1. [b[k] EXCEPT !.state = "ran"] \in Entry
  <2>1. b[k] \in Entry
    OBVIOUS
  <2> QED
    BY <2>1 DEF Entry
<1>2. new \in Seq(Entry)
  BY <1>1
<1>3. ASSUME NEW i \in DOMAIN b
      PROVE  /\ new[i].said = b[i].said
             /\ new[i].state = "ran" \/ new[i] = b[i]
  BY DEF Entry
<1>4. DOMAIN new = DOMAIN b
  OBVIOUS
<1> HIDE DEF new
<1>5. WaitingIn(new) = {}
  BY <1>3, <1>4 DEF WaitingIn, Decided
<1>6. Decided(new, << >>, at, channel)
  BY <1>3, <1>4, <1>5 DEF Decided
<1> QED
  BY <1>2, <1>6 DEF new

-----------------------------------------------------------------------------
(* What a request is at. *)

RequestType ==
  /\ phase \in [Conversations -> Phases]
  /\ rounds \in [Conversations -> 0 .. RoundBudget]
  /\ batch \in [Conversations -> Seq(Entry)]
  /\ decisions \in [Conversations -> Seq(BOOLEAN)]
  /\ working \in [Conversations -> Nat]

RequestInv == RequestType /\ Batches

(* A step of one conversation leaves the requests of the others alone. *)
LEMMA OneRequest ==
  ASSUME RequestInv, NEW c \in Conversations, held' = held,
         NEW b \in Seq(Entry), batch' = [batch EXCEPT ![c] = b],
         NEW d \in Seq(BOOLEAN), decisions' = [decisions EXCEPT ![c] = d],
         NEW at \in Phases, phase' = [phase EXCEPT ![c] = at],
         Decided(b, d, at, held[c].channel),
         rounds' \in [Conversations -> 0 .. RoundBudget],
         working' \in [Conversations -> Nat]
  PROVE  RequestInv'
<1> USE DEF RequestInv, RequestType
<1>1. RequestType'
  OBVIOUS
<1>2. ASSUME NEW e \in Conversations
      PROVE  Decided(batch'[e], decisions'[e], phase'[e], held'[e].channel)
  <2>1. CASE e = c
    BY <2>1
  <2>2. CASE e # c
    <3>1. batch'[e] = batch[e] /\ decisions'[e] = decisions[e] /\ phase'[e] = phase[e]
      BY <2>2
    <3>2. Decided(batch[e], decisions[e], phase[e], held[e].channel)
      BY DEF Batches
    <3> QED
      BY <3>1, <3>2
  <2> QED
    BY <2>1, <2>2
<1>3. Batches'
  BY <1>2 DEF Batches
<1> QED
  BY <1>1, <1>3

LEMMA DecidedHere ==
  ASSUME RequestInv, NEW c \in Conversations
  PROVE  /\ batch[c] \in Seq(Entry) /\ decisions[c] \in Seq(BOOLEAN) /\ phase[c] \in Phases
         /\ Decided(batch[c], decisions[c], phase[c], held[c].channel)
         /\ batch = [batch EXCEPT ![c] = batch[c]]
         /\ decisions = [decisions EXCEPT ![c] = decisions[c]]
         /\ phase = [phase EXCEPT ![c] = phase[c]]
BY DEF RequestInv, RequestType, Batches

(* Outside a round of questions the phase can change freely. *)
LEMMA PhaseChanges ==
  ASSUME RequestInv, NEW c \in Conversations, held' = held, phase[c] # "asking",
         NEW at \in Phases, phase' = [phase EXCEPT ![c] = at],
         UNCHANGED <<batch, decisions>>,
         rounds' \in [Conversations -> 0 .. RoundBudget],
         working' \in [Conversations -> Nat]
  PROVE  RequestInv'
<1>1. Decided(batch[c], decisions[c], at, held[c].channel)
  BY DecidedHere DEF Decided
<1> QED
  BY <1>1, DecidedHere, OneRequest

LEMMA RequestUntouched ==
  ASSUME RequestInv, UNCHANGED <<held, request>>
  PROVE  RequestInv'
BY DEF RequestInv, RequestType, Batches, request

LEMMA RequestProposes ==
  ASSUME RequestInv, NEW c \in Conversations, Propose(c)
  PROVE  RequestInv'
<1>1. PICK n \in 1 .. BatchSize : \E proposal \in [1 .. n -> Calls] :
        batch' = [batch EXCEPT ![c] = [i \in 1 .. n |->
          [call |-> proposal[i], said |-> None,
           state |-> IF Gated(proposal[i].tool) THEN "waiting" ELSE "clear"]]]
  BY DEF Propose
<1>2. PICK proposal \in [1 .. n -> Calls] :
        batch' = [batch EXCEPT ![c] = [i \in 1 .. n |->
          [call |-> proposal[i], said |-> None,
           state |-> IF Gated(proposal[i].tool) THEN "waiting" ELSE "clear"]]]
  BY <1>1
<1> DEFINE b  == [i \in 1 .. n |->
                    [call |-> proposal[i], said |-> None,
                     state |-> IF Gated(proposal[i].tool) THEN "waiting" ELSE "clear"]]
           at == IF \E i \in DOMAIN b : b[i].state = "waiting" THEN "asking" ELSE "running"
<1>3. n \in Nat
  BY BoundsAssumption
<1>4. \A i \in 1 .. n : b[i] \in Entry
  BY DEF Entry
<1>5. b \in Seq(Entry)
  BY <1>3, <1>4
<1>6. batch'[c] = b /\ batch' = [batch EXCEPT ![c] = b]
  BY <1>2 DEF RequestInv, RequestType
<1>7. /\ \A i \in DOMAIN b : b[i].said = None /\ b[i].state # "approved"
      /\ \A i \in DOMAIN b : b[i].state = "clear" => ~Gated(b[i].call.tool)
  OBVIOUS
<1> HIDE DEF b
<1>8. phase' = [phase EXCEPT ![c] = at] /\ at \in Phases
  BY <1>6 DEF Propose, Phases
<1>9. /\ phase[c] = "model"
      /\ UNCHANGED <<held, rounds, decisions, working>>
  BY DEF Propose
<1>10. decisions[c] = << >>
  BY <1>9, DecidedHere DEF Decided
<1>11. Decided(b, << >>, at, held[c].channel)
  <2>1. WaitingIn(b) # {} => at = "asking"
    BY DEF WaitingIn
  <2>2. \A i \in WaitingIn(b) : 1 <= Rank(b, i) /\ Rank(b, i) \in Nat
    BY <1>5, WaitingIsFinite, RankBounds DEF Rank
  <2>3. \A i \in WaitingIn(b) : ~(Rank(b, i) <= Len(<< >>))
    BY <2>2
  <2> QED
    BY <2>1, <2>3, <1>7 DEF Decided, None
<1> HIDE DEF at
<1>12. decisions' = [decisions EXCEPT ![c] = << >>] /\ << >> \in Seq(BOOLEAN)
  BY <1>9, <1>10, DecidedHere
<1>13. rounds' \in [Conversations -> 0 .. RoundBudget] /\ working' \in [Conversations -> Nat]
  BY <1>9 DEF RequestInv, RequestType
<1> QED
  BY <1>5, <1>6, <1>8, <1>9, <1>11, <1>12, <1>13, OneRequest

LEMMA RequestInterrupts ==
  ASSUME RequestInv, NEW c \in Conversations, Interrupt(c)
  PROVE  RequestInv'
<1> DEFINE b == [i \in DOMAIN batch[c] |->
                  IF i \in WaitingIn(batch[c]) THEN [batch[c][i] EXCEPT !.state = "declined"]
                  ELSE batch[c][i]]
<1>1. /\ decisions[c] = << >>
      /\ batch' = [batch EXCEPT ![c] = b]
      /\ phase' = [phase EXCEPT ![c] = "stopping"]
      /\ UNCHANGED <<held, rounds, decisions, working>>
  BY DEF Interrupt, Waiting, WaitingIn
<1>2. b \in Seq(Entry) /\ Decided(b, << >>, "stopping", held[c].channel)
  <2>1. batch[c] \in Seq(Entry) /\ Decided(batch[c], << >>, phase[c], held[c].channel)
    BY <1>1, DecidedHere
  <2> QED
    BY <2>1, DecliningAll
<1> HIDE DEF b
<1>3. "stopping" \in Phases
  BY DEF Phases
<1>4. decisions' = [decisions EXCEPT ![c] = << >>] /\ << >> \in Seq(BOOLEAN)
  BY <1>1, DecidedHere
<1>5. rounds' \in [Conversations -> 0 .. RoundBudget] /\ working' \in [Conversations -> Nat]
  BY <1>1 DEF RequestInv, RequestType
<1> QED
  BY <1>1, <1>2, <1>3, <1>4, <1>5, OneRequest

\* The three ways a suspended call is decided.
LEMMA RequestDecides ==
  ASSUME RequestInv, NEW c \in Conversations, InRound(c),
         NEW yes \in BOOLEAN, NEW said \in {"undescribed", "ticket", "yes", "no"},
         yes <=> said = "yes", yes => held[c].channel = "console",
         Decide(c, yes, said)
  PROVE  RequestInv'
<1> DEFINE b == [batch[c] EXCEPT ![Asked(c)].said = said]
           d == Append(decisions[c], yes)
<1>1. Undecided(c) /\ phase[c] = "asking"
  BY DEF InRound, Undecided
<1>2. /\ batch' = [batch EXCEPT ![c] = b]
      /\ decisions' = [decisions EXCEPT ![c] = d]
      /\ UNCHANGED <<held, phase, rounds, working>>
  BY DEF Decide
<1>3. /\ Asked(c) \in WaitingIn(batch[c])
      /\ Rank(batch[c], Asked(c)) = Len(decisions[c]) + 1
  BY <1>1, DecidedHere, AskedIsWaiting
<1>4. /\ batch[c] \in Seq(Entry) /\ decisions[c] \in Seq(BOOLEAN)
      /\ Decided(batch[c], decisions[c], "asking", held[c].channel)
  BY <1>1, DecidedHere
<1>5. said \in {None, "undescribed", "ticket", "yes", "no"}
  OBVIOUS
<1>6. b \in Seq(Entry) /\ d \in Seq(BOOLEAN) /\ Decided(b, d, "asking", held[c].channel)
  BY <1>3, <1>4, <1>5, DecidingOne
<1> HIDE DEF b, d
<1>7. phase' = [phase EXCEPT ![c] = "asking"] /\ "asking" \in Phases
  BY <1>1, <1>2, DecidedHere
<1>8. rounds' \in [Conversations -> 0 .. RoundBudget] /\ working' \in [Conversations -> Nat]
  BY <1>2 DEF RequestInv, RequestType
<1> QED
  BY <1>2, <1>6, <1>7, <1>8, OneRequest

LEMMA RequestResumes ==
  ASSUME RequestInv, NEW c \in Conversations, Resume(c)
  PROVE  RequestInv'
<1> DEFINE b == [i \in DOMAIN batch[c] |->
                  IF i \in WaitingIn(batch[c])
                    THEN [batch[c][i] EXCEPT !.state =
                            IF decisions[c][Rank(batch[c], i)] THEN "approved" ELSE "declined"]
                    ELSE batch[c][i]]
<1>1. Waiting(c) = WaitingIn(batch[c])
  BY DEF Waiting, WaitingIn
<1>2. \A i : DecisionFor(c, i) = decisions[c][Rank(batch[c], i)]
  BY <1>1 DEF DecisionFor, Rank, UpTo
<1>3. /\ batch' = [batch EXCEPT ![c] = b]
      /\ decisions' = [decisions EXCEPT ![c] = << >>]
      /\ phase' = [phase EXCEPT ![c] = "running"]
      /\ UNCHANGED <<held, rounds, working>>
  BY <1>1, <1>2 DEF Resume
<1>4. Cardinality(WaitingIn(batch[c])) <= Len(decisions[c])
  <2>1. Cardinality(WaitingIn(batch[c])) \in Nat
    BY DecidedHere, WaitingIsFinite, FS_CardinalityType
  <2>2. Len(decisions[c]) \in Nat
    BY DecidedHere
  <2> QED
    BY <2>1, <2>2, <1>1 DEF Resume, Undecided
<1>5. b \in Seq(Entry) /\ Decided(b, << >>, "running", held[c].channel)
  <2>1. /\ batch[c] \in Seq(Entry) /\ decisions[c] \in Seq(BOOLEAN)
        /\ Decided(batch[c], decisions[c], phase[c], held[c].channel)
    BY DecidedHere
  <2> QED
    BY <1>4, <2>1, ResumingAll
<1> HIDE DEF b
<1>6. "running" \in Phases /\ << >> \in Seq(BOOLEAN)
  <2>1. "running" \in Phases
    BY DEF Phases
  <2>2. << >> \in Seq(BOOLEAN)
    OBVIOUS
  <2> QED
    BY <2>1, <2>2
<1>7. rounds' \in [Conversations -> 0 .. RoundBudget] /\ working' \in [Conversations -> Nat]
  BY <1>3 DEF RequestInv, RequestType
<1> QED
  BY <1>3, <1>5, <1>6, <1>7, OneRequest

LEMMA RequestRuns ==
  ASSUME RequestInv, NEW c \in Conversations, NEW i \in DOMAIN batch[c],
         phase[c] \in {"running", "stopping"},
         batch' = [batch EXCEPT ![c][i].state = "ran"],
         UNCHANGED <<held, phase, rounds, decisions, working>>
  PROVE  RequestInv'
<1> DEFINE b == [batch[c] EXCEPT ![i].state = "ran"]
<1>1. decisions[c] = << >>
  BY DecidedHere DEF Decided
<1>2. batch' = [batch EXCEPT ![c] = b]
  OBVIOUS
<1>3. /\ batch[c] \in Seq(Entry) /\ phase[c] # "asking"
      /\ Decided(batch[c], << >>, phase[c], held[c].channel)
  BY <1>1, DecidedHere
<1>4. b \in Seq(Entry) /\ Decided(b, << >>, phase[c], held[c].channel)
  BY <1>3, RunningOne
<1> HIDE DEF b
<1>5. /\ decisions' = [decisions EXCEPT ![c] = << >>] /\ << >> \in Seq(BOOLEAN)
      /\ phase' = [phase EXCEPT ![c] = phase[c]] /\ phase[c] \in Phases
  BY <1>1, DecidedHere
<1>6. rounds' \in [Conversations -> 0 .. RoundBudget] /\ working' \in [Conversations -> Nat]
  BY DEF RequestInv, RequestType
<1> QED
  BY <1>2, <1>4, <1>5, <1>6, OneRequest

LEMMA RequestEnds ==
  ASSUME RequestInv, NEW c \in Conversations, BatchDone(c)
  PROVE  RequestInv'
<1> DEFINE at == IF phase[c] = "running" THEN "model" ELSE "idle"
<1>1. /\ batch' = [batch EXCEPT ![c] = << >>]
      /\ phase' = [phase EXCEPT ![c] = at]
      /\ UNCHANGED <<held, decisions, working>>
  BY DEF BatchDone
<1>2. at \in Phases
  BY DEF Phases
<1>3. decisions[c] = << >>
  BY DecidedHere DEF Decided, BatchDone
<1>4. << >> \in Seq(Entry) /\ WaitingIn(<< >>) = {}
  BY DEF WaitingIn
<1>5. Decided(<< >>, << >>, at, held[c].channel)
  BY <1>4 DEF Decided
<1>6. rounds' \in [Conversations -> 0 .. RoundBudget]
  BY BoundsAssumption DEF BatchDone, RequestInv, RequestType
<1> HIDE DEF at
<1>7. decisions' = [decisions EXCEPT ![c] = << >>] /\ << >> \in Seq(BOOLEAN)
  BY <1>1, <1>3, DecidedHere
<1>8. working' \in [Conversations -> Nat]
  BY <1>1 DEF RequestInv, RequestType
<1> QED
  BY <1>1, <1>2, <1>4, <1>5, <1>6, <1>7, <1>8, OneRequest

LEMMA RequestsStart ==
  ASSUME held' = held,
         phase' = [c \in Conversations |-> "idle"],
         rounds' = [c \in Conversations |-> 0],
         batch' = [c \in Conversations |-> << >>],
         decisions' = [c \in Conversations |-> << >>],
         working' = [c \in Conversations |-> 0]
  PROVE  RequestInv'
<1>1. RequestType'
  BY BoundsAssumption DEF RequestType, Phases
<1>2. WaitingIn(<< >>) = {}
  BY DEF WaitingIn
<1>3. Batches'
  BY <1>2 DEF Batches, Decided
<1> QED
  BY <1>1, <1>3 DEF RequestInv

LEMMA RequestStep ==
  ASSUME RequestInv, [Next]_vars, held \in Deployments, DOMAIN tickets \subseteq Nat
  PROVE  RequestInv' /\ held' = held
<1>1. DOMAIN held \subseteq Conversations
  BY ChannelsAssumption
<1>2. ASSUME NEW c \in DOMAIN held, Ask(c) PROVE RequestInv'
  <2>1. /\ phase[c] # "asking" /\ "model" \in Phases
        /\ phase' = [phase EXCEPT ![c] = "model"]
        /\ UNCHANGED <<held, batch, decisions>>
    BY <1>2 DEF Ask, Lease, Phases
  <2>2. rounds' \in [Conversations -> 0 .. RoundBudget] /\ working' \in [Conversations -> Nat]
    <3>1. 0 \in 0 .. RoundBudget
      BY BoundsAssumption
    <3> QED
      BY <1>2, <3>1 DEF Ask, RequestInv, RequestType
  <2> QED
    BY <1>1, <2>1, <2>2, PhaseChanges
<1>3. ASSUME NEW c \in DOMAIN held, Draft(c) PROVE RequestInv'
  BY <1>3, RequestUntouched DEF Draft
<1>4. ASSUME NEW c \in DOMAIN held, Modelling(c) PROVE RequestInv'
  <2>1. CASE Propose(c)
    BY <1>1, <2>1, RequestProposes
  <2>2. CASE Reply(c)
    BY <1>1, <2>2, PhaseChanges DEF Reply, RequestInv, RequestType, Phases
  <2> QED
    BY <1>4, <2>1, <2>2 DEF Modelling
<1>5. ASSUME NEW c \in DOMAIN held, Working(c) PROVE RequestInv'
  <2>1. CASE Interrupt(c)
    BY <1>1, <2>1, RequestInterrupts
  <2>2. CASE DeclineUndescribed(c)
    BY <1>1, <2>2, RequestDecides DEF DeclineUndescribed
  <2>3. CASE RaiseTicket(c)
    BY <1>1, <2>3, RequestDecides DEF RaiseTicket, Declined
  <2>4. CASE Resume(c)
    BY <1>1, <2>4, RequestResumes
  <2>5. ASSUME NEW yes \in BOOLEAN, AskOwner(c, yes) PROVE RequestInv'
    <3> DEFINE said == IF yes THEN "yes" ELSE "no"
    <3>1. InRound(c) /\ held[c].channel = "console" /\ Decide(c, yes, said)
      BY <2>5 DEF AskOwner
    <3>2. said \in {"undescribed", "ticket", "yes", "no"} /\ (yes <=> said = "yes")
      OBVIOUS
    <3> HIDE DEF said
    <3> QED
      BY <1>1, <3>1, <3>2, RequestDecides
  <2>6. ASSUME NEW i \in 1 .. BatchSize, RunCall(c, i) PROVE RequestInv'
    BY <1>1, <2>6, RequestRuns DEF RunCall
  <2>7. CASE BatchDone(c)
    BY <1>1, <2>7, RequestEnds
  <2>8. CASE PerformConfirmed(c)
    BY <1>1, <2>8, PhaseChanges DEF PerformConfirmed, RequestInv, RequestType, Phases
  <2> QED
    BY <1>5, <2>1, <2>2, <2>3, <2>4, <2>5, <2>6, <2>7, <2>8 DEF Working
<1>6. ASSUME NEW c \in DOMAIN held, Retire(c) PROVE RequestInv'
  BY <1>6, RequestUntouched DEF Retire
<1>7. ASSUME NEW c \in DOMAIN held, NEW t \in DOMAIN tickets, Confirm(c, t) PROVE RequestInv'
  <2>1. /\ phase[c] # "asking" /\ "confirming" \in Phases
        /\ phase' = [phase EXCEPT ![c] = "confirming"]
        /\ UNCHANGED <<held, batch, decisions>>
    BY <1>7 DEF Confirm, Command, Lease, Phases
  <2>2. rounds' \in [Conversations -> 0 .. RoundBudget] /\ working' \in [Conversations -> Nat]
    BY <1>7 DEF Confirm, RequestInv, RequestType
  <2> QED
    BY <1>1, <2>1, <2>2, PhaseChanges
<1>8. ASSUME NEW c \in DOMAIN held, NEW t \in DOMAIN tickets, Cancel(c, t) \/ ReportUnknown(c, t)
      PROVE  RequestInv'
  BY <1>8, RequestUntouched DEF Cancel, ReportUnknown
<1>9. ASSUME NEW t \in DOMAIN tickets, Expire(t) PROVE RequestInv'
  BY <1>9, RequestUntouched DEF Expire
<1>10. CASE Restart
  BY <1>10, RequestsStart DEF Restart
<1>11. CASE UNCHANGED vars
  BY <1>11, RequestUntouched DEF vars
<1>12. held' = held
  <2>1. ASSUME NEW c, Working(c) PROVE held' = held
    <3>1. ASSUME NEW yes, NEW said, Decide(c, yes, said) PROVE held' = held
      BY <3>1 DEF Decide
    <3>2. CASE DeclineUndescribed(c) \/ RaiseTicket(c) \/ \E yes \in BOOLEAN : AskOwner(c, yes)
      BY <3>1, <3>2 DEF DeclineUndescribed, RaiseTicket, AskOwner
    <3>3. CASE Interrupt(c) \/ Resume(c) \/ BatchDone(c) \/ PerformConfirmed(c)
      BY <3>3 DEF Interrupt, Resume, BatchDone, PerformConfirmed
    <3>4. CASE \E i \in 1 .. BatchSize : RunCall(c, i)
      BY <3>4 DEF RunCall
    <3> QED
      BY <2>1, <3>2, <3>3, <3>4 DEF Working
  <2>2. ASSUME NEW c, Ask(c) \/ Draft(c) \/ Modelling(c) \/ Retire(c) PROVE held' = held
    BY <2>2 DEF Ask, Draft, Modelling, Propose, Reply, Retire
  <2>3. ASSUME NEW c, NEW t, Confirm(c, t) \/ Cancel(c, t) \/ ReportUnknown(c, t) PROVE held' = held
    BY <2>3 DEF Confirm, Cancel, ReportUnknown
  <2>4. ASSUME NEW t, Expire(t) PROVE held' = held
    BY <2>4 DEF Expire
  <2>5. CASE Restart \/ UNCHANGED vars
    BY <2>5 DEF Restart, vars
  <2> QED
    BY <2>1, <2>2, <2>3, <2>4, <2>5 DEF Next
<1> QED
  BY <1>2, <1>3, <1>4, <1>5, <1>6, <1>7, <1>8, <1>9, <1>10, <1>11, <1>12 DEF Next

-----------------------------------------------------------------------------
(* What runtimes keep, and what was performed. *)

Ticket    == [home : Conversations, life : Nat, call : Calls,
              fate : {"open", "confirmed", "cancelled"}]
Operation == [home : Conversations, life : Nat, call : Calls,
              said : {None, "ticket", "yes", "no", "undescribed"}, ticket : Nat]

Quiet ==
  \A c \in Conversations \ live :
    stored[c] = {} /\ pending[c] = {} /\ ledger[c] = << >> /\ phase[c] = "idle"

StoreType ==
  /\ held \in Deployments
  /\ turns \in [Conversations -> Nat]
  /\ commands \in [Conversations -> Nat]
  /\ life \in [Conversations -> 0 .. MaxLives]
  /\ live \subseteq Conversations
  /\ drafts \in Seq([home : Conversations, life : Nat])
  /\ stored \in [Conversations -> SUBSET (1 .. Len(drafts))]
  /\ tickets \in Seq(Ticket)
  /\ pending \in [Conversations -> SUBSET (1 .. Len(tickets))]
  /\ overdue \subseteq 1 .. Len(tickets)
  /\ ledger \in [Conversations -> Seq(Answer)]
  /\ log \in Seq(Operation)
  /\ Quiet

StoreInv == StoreType /\ Stores /\ Performing /\ Logged

LEMMA LivesAreNatural == StoreType => \A c \in Conversations : life[c] \in Nat
BY BoundsAssumption DEF StoreType

(* Steps that touch neither stores nor log. *)
LEMMA StoresUntouched ==
  ASSUME RequestInv, StoreInv,
         UNCHANGED <<held, turns, commands, life, live, drafts, stored, tickets, pending, log>>,
         overdue' \subseteq 1 .. Len(tickets),
         ledger' \in [Conversations -> Seq(Answer)],
         \A c \in Conversations : c \in live \/ (ledger'[c] = ledger[c] /\ phase'[c] = phase[c]),
         \A c \in Conversations :
           phase'[c] = "confirming" => phase[c] = "confirming" /\ working'[c] = working[c]
  PROVE  StoreInv'
<1> USE DEF StoreInv
<1>1. StoreType'
  BY DEF StoreType, Quiet
<1>2. Stores' /\ Logged'
  BY DEF Stores, Logged
<1>3. Performing'
  BY DEF Performing
<1> QED
  BY <1>1, <1>2, <1>3

(* A request is let in: a runtime is composed for a conversation that keeps
   nothing. *)
LEMMA Leasing ==
  ASSUME RequestInv, StoreInv, NEW c \in Conversations, Lease(c)
  PROVE  /\ life' \in [Conversations -> 0 .. MaxLives]
         /\ live' \subseteq Conversations /\ live \subseteq live' /\ c \in live'
         /\ \A e \in Conversations :
              (stored[e] # {} \/ pending[e] # {} \/ phase[e] # "idle") => life'[e] = life[e]
<1> USE DEF StoreInv, StoreType, Lease
<1>1. live' \subseteq Conversations /\ live \subseteq live' /\ c \in live'
  OBVIOUS
<1>2. CASE c \in live
  BY <1>1, <1>2
<1>3. CASE c \notin live
  <2>1. life[c] \in 0 .. MaxLives /\ life[c] < MaxLives
    BY <1>3
  <2>2. life[c] + 1 \in 0 .. MaxLives
    BY <2>1, BoundsAssumption
  <2>3. life' = [life EXCEPT ![c] = life[c] + 1]
    BY <1>3
  <2>4. stored[c] = {} /\ pending[c] = {} /\ phase[c] = "idle"
    BY <1>3 DEF Quiet
  <2> QED
    BY <1>1, <2>2, <2>3, <2>4
<1> QED
  BY <1>2, <1>3

LEMMA StoresAsk ==
  ASSUME RequestInv, StoreInv, NEW c \in Conversations, Ask(c)
  PROVE  StoreInv'
<1> USE DEF StoreInv
<1>1. /\ UNCHANGED <<held, commands, batch, decisions, working, drafts, stored, tickets, pending,
                     ledger, overdue, log>>
      /\ phase' = [phase EXCEPT ![c] = "model"]
      /\ turns' = [turns EXCEPT ![c] = @ + 1]
      /\ Lease(c)
  BY DEF Ask, runtime
<1>2. /\ life' \in [Conversations -> 0 .. MaxLives]
      /\ live' \subseteq Conversations /\ live \subseteq live' /\ c \in live'
      /\ \A e \in Conversations :
           (stored[e] # {} \/ pending[e] # {} \/ phase[e] # "idle") => life'[e] = life[e]
  BY <1>1, Leasing
<1>3. turns' \in [Conversations -> Nat]
  BY <1>1 DEF StoreType
<1>4. \A e \in Conversations : e # c => phase'[e] = phase[e]
  BY <1>1 DEF RequestInv, RequestType
<1>5. phase'[c] = "model"
  BY <1>1 DEF RequestInv, RequestType
<1>6. Quiet'
  BY <1>1, <1>2, <1>4 DEF Quiet, StoreType
<1>7. StoreType'
  BY <1>1, <1>2, <1>3, <1>6 DEF StoreType
<1>8. Stores'
  BY <1>1, <1>2 DEF Stores
<1>9. Performing'
  BY <1>1, <1>2, <1>4, <1>5 DEF Performing
<1>10. Logged'
  BY <1>1 DEF Logged
<1> QED
  BY <1>7, <1>8, <1>9, <1>10

LEMMA StoresReport ==
  ASSUME RequestInv, StoreInv, NEW c \in Conversations, NEW t \in DOMAIN tickets, ReportUnknown(c, t)
  PROVE  StoreInv'
<1> USE DEF StoreInv
<1>1. /\ UNCHANGED <<held, turns, phase, working, drafts, stored, tickets, pending,
                     ledger, overdue, log>>
      /\ commands' = [commands EXCEPT ![c] = @ + 1]
      /\ Lease(c)
  BY DEF ReportUnknown, Command, runtime, request
<1>2. /\ life' \in [Conversations -> 0 .. MaxLives]
      /\ live' \subseteq Conversations /\ live \subseteq live' /\ c \in live'
      /\ \A e \in Conversations :
           (stored[e] # {} \/ pending[e] # {} \/ phase[e] # "idle") => life'[e] = life[e]
  BY <1>1, Leasing
<1>3. commands' \in [Conversations -> Nat]
  BY <1>1 DEF StoreType
<1>4. Quiet'
  BY <1>1, <1>2 DEF Quiet, StoreType
<1>5. StoreType'
  BY <1>1, <1>2, <1>3, <1>4 DEF StoreType
<1>6. Stores'
  BY <1>1, <1>2 DEF Stores
<1>7. Performing'
  BY <1>1, <1>2 DEF Performing
<1>8. Logged'
  BY <1>1 DEF Logged
<1> QED
  BY <1>5, <1>6, <1>7, <1>8

(* A claim: an open ticket of this runtime gets its fate, and leaves the store. *)
LEMMA Claiming ==
  ASSUME RequestInv, StoreInv, NEW c \in Conversations, NEW t \in DOMAIN tickets,
         Claimable(c, t), NEW fate \in {"confirmed", "cancelled"},
         tickets' = [tickets EXCEPT ![t].fate = fate],
         pending' = [pending EXCEPT ![c] = Claimed(c, t)]
  PROVE  /\ tickets' \in Seq(Ticket) /\ Len(tickets') = Len(tickets)
         /\ tickets[t].home = c /\ tickets[t].life = life[c] /\ tickets[t].fate = "open"
         /\ c \in live
         /\ tickets'[t] = [tickets[t] EXCEPT !.fate = fate]
         /\ \A u \in DOMAIN tickets : u # t => tickets'[u] = tickets[u]
         /\ pending' \in [Conversations -> SUBSET (1 .. Len(tickets))]
         /\ \A e \in Conversations : pending'[e] \subseteq pending[e] /\ t \notin pending'[e]
<1> USE DEF StoreInv
<1>1. /\ tickets \in Seq(Ticket) /\ tickets[t] \in Ticket
      /\ pending \in [Conversations -> SUBSET (1 .. Len(tickets))]
  BY DEF StoreType
<1>2. [tickets[t] EXCEPT !.fate = fate] \in Ticket
  BY <1>1 DEF Ticket
<1>3. /\ tickets' \in Seq(Ticket) /\ Len(tickets') = Len(tickets)
      /\ tickets'[t] = [tickets[t] EXCEPT !.fate = fate]
      /\ \A u \in DOMAIN tickets : u # t => tickets'[u] = tickets[u]
  BY <1>1, <1>2
<1>4. t \in pending[c]
  BY DEF Claimable
<1>5. /\ tickets[t].home = c /\ tickets[t].life = life[c] /\ tickets[t].fate = "open"
      /\ c \in live
  BY <1>4 DEF Stores, StoreType, Quiet
<1>6. \A e \in Conversations : e # c => t \notin pending[e]
  BY <1>5 DEF Stores
<1>7. /\ pending' \in [Conversations -> SUBSET (1 .. Len(tickets))]
      /\ \A e \in Conversations : pending'[e] \subseteq pending[e] /\ t \notin pending'[e]
  BY <1>1, <1>6 DEF Claimed
<1> QED
  BY <1>3, <1>5, <1>7

LEMMA ClaimedStores ==
  ASSUME StoreInv, NEW t \in DOMAIN tickets, UNCHANGED <<stored, drafts>>,
         \A u \in DOMAIN tickets : u # t => tickets'[u] = tickets[u],
         \A e \in Conversations : pending'[e] \subseteq pending[e] /\ t \notin pending'[e],
         \A e \in Conversations :
           (stored[e] # {} \/ pending[e] # {} \/ phase[e] # "idle") => life'[e] = life[e]
  PROVE  Stores'
<1> SUFFICES ASSUME NEW e \in Conversations
             PROVE  /\ \A d \in stored[e] : drafts[d] = [home |-> e, life |-> life'[e]]
                    /\ \A u \in pending'[e] : /\ tickets'[u].home = e
                                             /\ tickets'[u].life = life'[e]
                                             /\ tickets'[u].fate = "open"
  BY DEF Stores
<1>1. /\ \A d \in stored[e] : drafts[d] = [home |-> e, life |-> life[e]]
      /\ \A u \in pending[e] :
           tickets[u].home = e /\ tickets[u].life = life[e] /\ tickets[u].fate = "open"
  BY DEF StoreInv, Stores
<1>2. \A u \in pending[e] : u \in DOMAIN tickets
  BY DEF StoreInv, StoreType
<1>3. \A u \in pending'[e] : u \in pending[e] /\ tickets'[u] = tickets[u] /\ life'[e] = life[e]
  BY <1>2
<1>4. \A d \in stored[e] : life'[e] = life[e]
  OBVIOUS
<1> QED
  BY <1>1, <1>3, <1>4

LEMMA StoresCancel ==
  ASSUME RequestInv, StoreInv, NEW c \in Conversations, NEW t \in DOMAIN tickets, Cancel(c, t)
  PROVE  StoreInv'
<1> USE DEF StoreInv
<1>1. /\ UNCHANGED <<held, turns, phase, working, drafts, stored, ledger, overdue, log>>
      /\ commands' = [commands EXCEPT ![c] = @ + 1]
      /\ Lease(c) /\ Claimable(c, t)
      /\ tickets' = [tickets EXCEPT ![t].fate = "cancelled"]
      /\ pending' = [pending EXCEPT ![c] = Claimed(c, t)]
  BY DEF Cancel, Command, request
<1>2. /\ life' \in [Conversations -> 0 .. MaxLives]
      /\ live' \subseteq Conversations /\ live \subseteq live'
      /\ \A e \in Conversations :
           (stored[e] # {} \/ pending[e] # {} \/ phase[e] # "idle") => life'[e] = life[e]
  BY <1>1, Leasing
<1>3. /\ tickets' \in Seq(Ticket) /\ Len(tickets') = Len(tickets)
      /\ tickets[t].fate = "open"
      /\ \A u \in DOMAIN tickets : u # t => tickets'[u] = tickets[u]
      /\ pending' \in [Conversations -> SUBSET (1 .. Len(tickets))]
      /\ \A e \in Conversations : pending'[e] \subseteq pending[e] /\ t \notin pending'[e]
  BY <1>1, Claiming
<1>4. DOMAIN tickets' = DOMAIN tickets
  BY <1>3 DEF StoreType
<1>5. commands' \in [Conversations -> Nat]
  BY <1>1 DEF StoreType
<1>6. Quiet'
  BY <1>1, <1>2, <1>3 DEF Quiet, StoreType
<1>7. StoreType'
  BY <1>1, <1>2, <1>3, <1>5, <1>6 DEF StoreType
<1>8. Stores'
  BY <1>1, <1>2, <1>3, ClaimedStores
<1>9. Performing'
  BY <1>1, <1>2, <1>3, <1>4 DEF Performing
<1>10. Logged'
  BY <1>1, <1>3, <1>4 DEF Logged
<1> QED
  BY <1>7, <1>8, <1>9, <1>10

LEMMA KeysAreTyped ==
  ASSUME NEW call \in Calls
  PROVE  Key(call) \in WriteTools \X (Pages \cup 1 .. MaxDrafts)
BY DEF Calls, Call, Key, WriteTools, FromDraft

LEMMA StoresConfirm ==
  ASSUME RequestInv, StoreInv, NEW c \in DOMAIN held, NEW t \in DOMAIN tickets, Confirm(c, t)
  PROVE  StoreInv'
<1> USE DEF StoreInv
<1>0. c \in Conversations
  BY ChannelsAssumption DEF StoreType
<1>1. /\ UNCHANGED <<held, turns, drafts, stored, overdue, log>>
      /\ commands' = [commands EXCEPT ![c] = @ + 1]
      /\ Lease(c) /\ Claimable(c, t) /\ held[c].channel = "http"
      /\ tickets' = [tickets EXCEPT ![t].fate = "confirmed"]
      /\ pending' = [pending EXCEPT ![c] = Claimed(c, t)]
      /\ ledger' = [ledger EXCEPT ![c] = Append(@, [key |-> Key(tickets[t].call), yes |-> TRUE])]
      /\ working' = [working EXCEPT ![c] = t]
      /\ phase' = [phase EXCEPT ![c] = "confirming"]
  BY DEF Confirm, Command
<1>2. /\ life' \in [Conversations -> 0 .. MaxLives]
      /\ live' \subseteq Conversations /\ live \subseteq live'
      /\ \A e \in Conversations :
           (stored[e] # {} \/ pending[e] # {} \/ phase[e] # "idle") => life'[e] = life[e]
  BY <1>0, <1>1, Leasing
<1>3. /\ tickets' \in Seq(Ticket) /\ Len(tickets') = Len(tickets)
      /\ tickets[t].home = c /\ tickets[t].life = life[c] /\ tickets[t].fate = "open"
      /\ c \in live
      /\ tickets'[t] = [tickets[t] EXCEPT !.fate = "confirmed"]
      /\ \A u \in DOMAIN tickets : u # t => tickets'[u] = tickets[u]
      /\ pending' \in [Conversations -> SUBSET (1 .. Len(tickets))]
      /\ \A e \in Conversations : pending'[e] \subseteq pending[e] /\ t \notin pending'[e]
  BY <1>0, <1>1, Claiming
<1>4. DOMAIN tickets' = DOMAIN tickets
  BY <1>3 DEF StoreType
<1>5. /\ commands' \in [Conversations -> Nat]
      /\ tickets[t] \in Ticket
  <2>1. commands \in [Conversations -> Nat] /\ tickets \in Seq(Ticket)
    BY DEF StoreType
  <2>2. commands' = [commands EXCEPT ![c] = @ + 1]
    BY <1>1
  <2>3. commands' \in [Conversations -> Nat]
    BY <2>1, <2>2, <1>0
  <2>4. tickets[t] \in Ticket
    BY <2>1
  <2> QED
    BY <2>3, <2>4
<1>6. tickets'[t].home = c /\ tickets'[t].life = life[c] /\ tickets'[t].fate = "confirmed"
  BY <1>3, <1>5 DEF Ticket
<1>7. ledger' \in [Conversations -> Seq(Answer)]
  <2>1. Key(tickets[t].call) \in WriteTools \X (Pages \cup 1 .. MaxDrafts)
    BY <1>5, KeysAreTyped DEF Ticket
  <2>2. [key |-> Key(tickets[t].call), yes |-> TRUE] \in Answer
    BY <2>1 DEF Answer
  <2> QED
    BY <1>0, <1>1, <2>2 DEF StoreType
<1>8. /\ \A e \in Conversations : e # c => phase'[e] = phase[e] /\ working'[e] = working[e]
                                        /\ ledger'[e] = ledger[e]
      /\ phase[c] = "idle"
      /\ working'[c] = t
  BY <1>0, <1>1 DEF RequestInv, RequestType, StoreType, Lease
<1>9. life'[c] = life[c]
  BY <1>1, <1>2, <1>0 DEF Claimable
<1>10. Quiet'
  BY <1>1, <1>2, <1>3, <1>8, SMTT(30) DEF Quiet, StoreType
<1>11. StoreType'
  BY <1>1, <1>2, <1>3, <1>5, <1>7, <1>10 DEF StoreType
<1>12. Stores'
  BY <1>1, <1>2, <1>3, ClaimedStores
<1>13. \A k \in DOMAIN log : log[k].ticket # t
  <2>1. \A k \in DOMAIN log : log[k].ticket # 0 => tickets[log[k].ticket].fate = "confirmed"
    BY DEF Logged
  <2>2. t # 0
    BY DEF StoreType
  <2> QED
    BY <1>3, <2>1, <2>2
<1>14. Performing'
  <2> SUFFICES ASSUME NEW e \in Conversations, phase'[e] = "confirming"
               PROVE  /\ held'[e].channel = "http"
                      /\ working'[e] \in DOMAIN tickets'
                      /\ tickets'[working'[e]].home = e /\ tickets'[working'[e]].life = life'[e]
                      /\ tickets'[working'[e]].fate = "confirmed"
                      /\ \A k \in DOMAIN log' : log'[k].ticket # working'[e]
    BY DEF Performing
  <2>1. CASE e = c
    <3>1. working'[e] = t
      BY <2>1, <1>8
    <3> QED
      BY <3>1, <2>1, <1>1, <1>4, <1>6, <1>9, <1>13
  <2>2. CASE e # c
    <3>1. phase[e] = "confirming" /\ working'[e] = working[e] /\ life'[e] = life[e]
      BY <2>2, <1>2, <1>8
    <3>2. /\ held[e].channel = "http"
          /\ working[e] \in DOMAIN tickets
          /\ tickets[working[e]].home = e /\ tickets[working[e]].life = life[e]
          /\ tickets[working[e]].fate = "confirmed"
          /\ \A k \in DOMAIN log : log[k].ticket # working[e]
      BY <3>1 DEF Performing
    <3>3. working[e] # t
      BY <3>2, <1>3
    <3> QED
      BY <3>1, <3>2, <3>3, <1>1, <1>3, <1>4
  <2> QED
    BY <2>1, <2>2
<1>15. Logged'
  BY <1>1, <1>3, <1>4, <1>13 DEF Logged
<1> QED
  BY <1>11, <1>12, <1>14, <1>15

LEMMA StoresDraft ==
  ASSUME RequestInv, StoreInv, NEW c \in DOMAIN held, Draft(c)
  PROVE  StoreInv'
<1> DEFINE draft == [home |-> c, life |-> life[c]]
<1> USE DEF StoreInv
<1>0. c \in Conversations
  BY ChannelsAssumption DEF StoreType
<1>1. /\ UNCHANGED <<held, turns, commands, life, live, phase, working, tickets, pending, ledger,
                     overdue, log>>
      /\ drafts' = Append(drafts, draft)
      /\ stored' = [stored EXCEPT ![c] = @ \cup {Len(drafts) + 1}]
      /\ phase[c] = "model"
  BY DEF Draft, request
<1>2. /\ drafts \in Seq([home : Conversations, life : Nat])
      /\ stored \in [Conversations -> SUBSET (1 .. Len(drafts))]
      /\ c \in live
  BY <1>0, <1>1 DEF StoreType, Quiet
<1>3. draft \in [home : Conversations, life : Nat]
  BY <1>0, LivesAreNatural
<1> HIDE DEF draft
<1>4. /\ drafts' \in Seq([home : Conversations, life : Nat])
      /\ Len(drafts') = Len(drafts) + 1
      /\ drafts'[Len(drafts) + 1] = draft
      /\ \A d \in 1 .. Len(drafts) : drafts'[d] = drafts[d]
  BY <1>1, <1>2, <1>3
<1>5. /\ stored'[c] = stored[c] \cup {Len(drafts) + 1}
      /\ \A e \in Conversations : e # c => stored'[e] = stored[e]
  BY <1>0, <1>1, <1>2
<1>6. Len(drafts) \in Nat
  BY <1>2
<1>7. 1 .. Len(drafts) \subseteq 1 .. Len(drafts') /\ Len(drafts) + 1 \in 1 .. Len(drafts')
  BY <1>4, <1>6
<1>8. stored' \in [Conversations -> SUBSET (1 .. Len(drafts'))]
  BY <1>0, <1>1, <1>2, <1>7
<1>9. Quiet'
  BY <1>1, <1>2, <1>5 DEF Quiet, StoreType
<1>10. StoreType'
  BY <1>1, <1>4, <1>8, <1>9 DEF StoreType
<1>11. Stores'
  <2> SUFFICES ASSUME NEW e \in Conversations, NEW d \in stored'[e]
               PROVE  drafts'[d] = [home |-> e, life |-> life[e]]
    <3>1. life' = life /\ pending' = pending /\ tickets' = tickets
      BY <1>1
    <3> QED
      BY <3>1 DEF Stores
  <2>1. CASE d \in stored[e]
    BY <2>1, <1>2, <1>4, SMTT(30) DEF Stores
  <2>2. CASE d \notin stored[e]
    <3>1. e = c /\ d = Len(drafts) + 1
      BY <2>2, <1>5
    <3> QED
      BY <3>1, <1>4 DEF draft
  <2> QED
    BY <2>1, <2>2
<1>12. Performing'
  BY <1>1 DEF Performing
<1>13. Logged'
  <2>1. \A d \in DOMAIN drafts : d \in DOMAIN drafts' /\ drafts'[d] = drafts[d]
    BY <1>2, <1>4, <1>7, SMTT(30)
  <2> QED
    BY <2>1, <1>1 DEF Logged
<1> QED
  BY <1>10, <1>11, <1>12, <1>13

LEMMA StoresRaise ==
  ASSUME RequestInv, StoreInv, NEW c \in DOMAIN held, RaiseTicket(c)
  PROVE  StoreInv'
<1> DEFINE ticket == [home |-> c, life |-> life[c], call |-> batch[c][Asked(c)].call,
                      fate |-> "open"]
           new    == Len(tickets) + 1
<1> USE DEF StoreInv
<1>0. c \in Conversations
  BY ChannelsAssumption DEF StoreType
<1>1. /\ UNCHANGED <<held, turns, commands, life, live, phase, working, drafts, stored, ledger,
                     overdue, log>>
      /\ tickets' = Append(tickets, ticket)
      /\ pending' = [pending EXCEPT ![c] = @ \cup {new}]
      /\ Undecided(c) /\ phase[c] = "asking"
  BY DEF RaiseTicket, Decide, InRound, Undecided
<1>2. /\ tickets \in Seq(Ticket)
      /\ pending \in [Conversations -> SUBSET (1 .. Len(tickets))]
      /\ overdue \subseteq 1 .. Len(tickets)
      /\ c \in live
  BY <1>0, <1>1 DEF StoreType, Quiet
<1>3. ticket \in Ticket
  <2>1. batch[c] \in Seq(Entry) /\ Asked(c) \in DOMAIN batch[c]
    BY <1>0, <1>1, DecidedHere, AskedIsWaiting DEF WaitingIn
  <2>2. batch[c][Asked(c)] \in Entry
    BY <2>1
  <2>3. batch[c][Asked(c)].call \in Calls /\ life[c] \in Nat
    BY <1>0, <2>2, LivesAreNatural DEF Entry
  <2> QED
    BY <1>0, <2>3 DEF Ticket
<1>4. ticket.home = c /\ ticket.life = life[c] /\ ticket.fate = "open"
  OBVIOUS
<1> HIDE DEF ticket, new
<1>5. Len(tickets) \in Nat
  BY <1>2
<1>6. /\ tickets' \in Seq(Ticket)
      /\ Len(tickets') = Len(tickets) + 1
      /\ tickets'[new] = ticket
      /\ \A t \in 1 .. Len(tickets) : tickets'[t] = tickets[t]
  BY <1>1, <1>2, <1>3 DEF new
<1>7. 1 .. Len(tickets) \subseteq 1 .. Len(tickets') /\ new \in 1 .. Len(tickets')
  BY <1>5, <1>6 DEF new
<1>8. /\ pending'[c] = pending[c] \cup {new}
      /\ \A e \in Conversations : e # c => pending'[e] = pending[e]
      /\ pending' \in [Conversations -> SUBSET (1 .. Len(tickets'))]
  BY <1>0, <1>1, <1>2, <1>7
<1>9. Quiet'
  BY <1>1, <1>2, <1>8 DEF Quiet, StoreType
<1>10. StoreType'
  BY <1>1, <1>2, <1>6, <1>7, <1>8, <1>9 DEF StoreType
<1>11. Stores'
  <2>1. ASSUME NEW e \in Conversations, NEW t \in pending'[e]
        PROVE  tickets'[t].home = e /\ tickets'[t].life = life[e] /\ tickets'[t].fate = "open"
    <3>1. CASE t \in pending[e]
      <4>1. t \in 1 .. Len(tickets)
        BY <3>1, <1>2
      <4>2. tickets[t].home = e /\ tickets[t].life = life[e] /\ tickets[t].fate = "open"
        BY <3>1 DEF Stores
      <4> QED
        BY <4>1, <4>2, <1>6
    <3>2. CASE t \notin pending[e]
      <4>1. e = c /\ t = new
        BY <2>1, <3>2, <1>8
      <4> QED
        BY <4>1, <1>4, <1>6
    <3> QED
      BY <3>1, <3>2
  <2>2. ASSUME NEW e \in Conversations, NEW d \in stored[e]
        PROVE  drafts[d] = [home |-> e, life |-> life[e]]
    BY DEF Stores
  <2>3. stored' = stored /\ drafts' = drafts /\ life' = life
    BY <1>1
  <2> QED
    BY <2>1, <2>2, <2>3 DEF Stores
<1>12. \A t \in DOMAIN tickets : t \in DOMAIN tickets' /\ tickets'[t] = tickets[t]
  BY <1>2, <1>6, <1>7
<1>13. Performing'
  BY <1>1, <1>12 DEF Performing
<1>14. Logged'
  BY <1>1, <1>12 DEF Logged
<1> QED
  BY <1>10, <1>11, <1>13, <1>14

(* The runner: what it takes from the ledger, and what it does. *)
LEMMA Invoking ==
  ASSUME StoreInv, NEW c \in Conversations, c \in live, NEW call \in Calls,
         NEW said \in {None, "ticket", "yes", "no", "undescribed"}, NEW ticket \in Nat,
         Invoke(c, call, said, ticket)
  PROVE  /\ ledger' \in [Conversations -> Seq(Answer)]
         /\ \A e \in Conversations : e # c => ledger'[e] = ledger[e]
         /\ \/ log' = log
            \/ /\ Held(c, call)
               /\ log' = Append(log, [home |-> c, life |-> life[c], call |-> call,
                                      said |-> said, ticket |-> ticket])
<1>1. ledger \in [Conversations -> Seq(Answer)]
  BY DEF StoreInv, StoreType
<1>2. CASE ledger' = ledger
  BY <1>1, <1>2 DEF Invoke
<1>3. CASE ledger' # ledger
  <2>1. Held(c, call) /\ ledger' = [ledger EXCEPT ![c] = AfterTaking(c, call)]
    BY <1>3 DEF Invoke
  <2>2. AfterTaking(c, call) \in Seq(Answer)
    <3>1. ledger[c] \in Seq(Answer)
      BY <1>1
    <3>2. CASE ledger[c] = << >>
      BY <3>1, <3>2 DEF AfterTaking, Recorded
    <3>3. CASE ledger[c] # << >>
      <4>1. Len(ledger[c]) - 1 \in Nat
        BY <3>1, <3>3
      <4>2. ASSUME NEW k, NEW i \in 1 .. Len(ledger[c]) - 1
            PROVE  (IF i < k THEN ledger[c][i] ELSE ledger[c][i + 1]) \in Answer
        <5>1. i \in 1 .. Len(ledger[c]) /\ i + 1 \in 1 .. Len(ledger[c])
          BY <4>1
        <5>2. ledger[c][i] \in Answer /\ ledger[c][i + 1] \in Answer
          BY <3>1, <5>1
        <5> QED
          BY <5>2
      <4>3. LedgerWithout(c, Oldest(c, call)) \in Seq(Answer)
        BY <4>1, <4>2 DEF LedgerWithout
      <4> QED
        BY <3>1, <4>3 DEF AfterTaking
    <3> QED
      BY <3>2, <3>3
  <2> QED
    BY <1>1, <2>1, <2>2 DEF Invoke
<1> QED
  BY <1>2, <1>3

(* An operation joins the log. *)
LEMMA Performed ==
  ASSUME StoreInv, NEW c \in Conversations, NEW call \in Calls,
         NEW said \in {None, "ticket", "yes", "no", "undescribed"}, NEW ticket \in Nat,
         Held(c, call),
         log' = Append(log, [home |-> c, life |-> life[c], call |-> call,
                             said |-> said, ticket |-> ticket]),
         UNCHANGED <<held, drafts, tickets>>,
         Gated(call.tool) =>
           \/ held[c].channel = "console" /\ said = "yes"
           \/ held[c].channel # "console" /\ ticket # 0,
         ticket # 0 =>
           /\ ticket \in DOMAIN tickets
           /\ tickets[ticket].home = c /\ tickets[ticket].life = life[c]
           /\ tickets[ticket].fate = "confirmed" /\ tickets[ticket].call = call
           /\ \A k \in DOMAIN log : log[k].ticket # ticket
  PROVE  /\ log' \in Seq(Operation)
         /\ Logged'
         /\ \A k \in DOMAIN log' : k \in DOMAIN log \/ log'[k].ticket = ticket
         /\ \A k \in DOMAIN log : log'[k] = log[k]
<1> DEFINE op  == [home |-> c, life |-> life[c], call |-> call, said |-> said, ticket |-> ticket]
           new == Len(log) + 1
<1> USE DEF StoreInv
<1>1. log \in Seq(Operation) /\ drafts \in Seq([home : Conversations, life : Nat])
  BY DEF StoreType
<1>2. op \in Operation
  BY LivesAreNatural DEF Operation
<1>3. /\ op.home = c /\ op.life = life[c] /\ op.call = call /\ op.said = said
      /\ op.ticket = ticket
  OBVIOUS
<1>4. log' = Append(log, op)
  OBVIOUS
<1> HIDE DEF op
<1>5. /\ log' \in Seq(Operation)
      /\ DOMAIN log' = DOMAIN log \cup {new} /\ new \notin DOMAIN log
      /\ log'[new] = op
      /\ \A k \in DOMAIN log : log'[k] = log[k]
  BY <1>1, <1>2, <1>4
<1> HIDE DEF new
<1>6. call.tool \in FromDraft =>
        /\ call.on \in DOMAIN drafts
        /\ drafts[call.on] = [home |-> c, life |-> life[c]]
  <2> SUFFICES ASSUME call.tool \in FromDraft
               PROVE  /\ call.on \in DOMAIN drafts
                      /\ drafts[call.on] = [home |-> c, life |-> life[c]]
    OBVIOUS
  <2>1. call.on \in stored[c]
    BY DEF Held
  <2>2. stored[c] \subseteq DOMAIN drafts
    BY <1>1 DEF StoreType
  <2>3. \A d \in stored[c] : drafts[d] = [home |-> c, life |-> life[c]]
    BY DEF Stores
  <2> QED
    BY <2>1, <2>2, <2>3
<1>7. Logged'
  <2>1. \A k \in DOMAIN log' : log'[k].ticket # 0 =>
          /\ log'[k].ticket \in DOMAIN tickets
          /\ tickets[log'[k].ticket].fate = "confirmed"
          /\ tickets[log'[k].ticket].call = log'[k].call
          /\ tickets[log'[k].ticket].home = log'[k].home
          /\ tickets[log'[k].ticket].life = log'[k].life
    BY <1>3, <1>5 DEF Logged
  <2>2. \A k, l \in DOMAIN log' : log'[k].ticket # 0 /\ log'[k].ticket = log'[l].ticket => k = l
    BY <1>3, <1>5 DEF Logged
  <2>3. \A k \in DOMAIN log' : log'[k].call.tool \in FromDraft =>
          /\ log'[k].call.on \in DOMAIN drafts
          /\ drafts[log'[k].call.on] = [home |-> log'[k].home, life |-> log'[k].life]
    BY <1>3, <1>5, <1>6 DEF Logged
  <2>4. \A k \in DOMAIN log' : Gated(log'[k].call.tool) =>
          \/ held[log'[k].home].channel = "console" /\ log'[k].said = "yes"
          \/ held[log'[k].home].channel # "console" /\ log'[k].ticket # 0
    BY <1>3, <1>5 DEF Logged
  <2> QED
    BY <2>1, <2>2, <2>3, <2>4 DEF Logged
<1> QED
  BY <1>3, <1>5, <1>7

LEMMA StoresRun ==
  ASSUME RequestInv, StoreInv, NEW c \in DOMAIN held, NEW i \in 1 .. BatchSize, RunCall(c, i)
  PROVE  StoreInv'
<1> DEFINE entry == batch[c][i]
<1> USE DEF StoreInv
<1>0. c \in Conversations
  BY ChannelsAssumption DEF StoreType
<1>1. /\ UNCHANGED <<held, turns, commands, life, live, phase, working, drafts, stored, tickets,
                     pending, overdue>>
      /\ phase[c] \in {"running", "stopping"}
      /\ i \in DOMAIN batch[c]
      /\ entry.state \in {"approved", "clear"}
      /\ Invoke(c, entry.call, entry.said, 0)
  BY DEF RunCall
<1>2. entry \in Entry
  BY <1>0, <1>1, DecidedHere
<1>3. /\ entry.state = "approved" => entry.said = "yes"
      /\ entry.state = "clear" => ~Gated(entry.call.tool)
      /\ entry.said = "yes" => held[c].channel = "console"
  BY <1>0, <1>1, DecidedHere DEF Decided
<1> HIDE DEF entry
<1>4. /\ entry.call \in Calls
      /\ entry.said \in {None, "ticket", "yes", "no", "undescribed"}
  BY <1>2 DEF Entry
<1>5. c \in live
  BY <1>0, <1>1 DEF StoreType, Quiet
<1>6. /\ ledger' \in [Conversations -> Seq(Answer)]
      /\ \A e \in Conversations : e # c => ledger'[e] = ledger[e]
      /\ \/ log' = log
         \/ /\ Held(c, entry.call)
            /\ log' = Append(log, [home |-> c, life |-> life[c], call |-> entry.call,
                                   said |-> entry.said, ticket |-> 0])
  BY <1>0, <1>1, <1>4, <1>5, Invoking
<1>7. /\ log' \in Seq(Operation)
      /\ Logged'
      /\ \A k \in DOMAIN log' : k \in DOMAIN log \/ log'[k].ticket = 0
      /\ \A k \in DOMAIN log : log'[k] = log[k]
  <2>1. CASE log' = log
    BY <2>1, <1>1 DEF Logged, StoreType
  <2>2. CASE log' # log
    <3>1. Gated(entry.call.tool) => held[c].channel = "console" /\ entry.said = "yes"
      BY <1>1, <1>3
    <3> QED
      BY <2>2, <3>1, <1>0, <1>1, <1>4, <1>6, Performed
  <2> QED
    BY <2>1, <2>2
<1>8. Quiet'
  BY <1>1, <1>5, <1>6 DEF Quiet, StoreType
<1>9. StoreType'
  BY <1>1, <1>6, <1>7, <1>8 DEF StoreType
<1>10. Stores'
  BY <1>1 DEF Stores
<1>11. Performing'
  <2>1. \A t \in DOMAIN tickets : t # 0
    BY DEF StoreType
  <2> QED
    BY <2>1, <1>1, <1>7 DEF Performing
<1> QED
  BY <1>7, <1>9, <1>10, <1>11

LEMMA StoresPerform ==
  ASSUME RequestInv, StoreInv, NEW c \in DOMAIN held, PerformConfirmed(c)
  PROVE  StoreInv'
<1> DEFINE t == working[c]
<1> USE DEF StoreInv
<1>0. c \in Conversations
  BY ChannelsAssumption DEF StoreType
<1>1. /\ UNCHANGED <<held, turns, commands, life, live, drafts, stored, tickets, pending, overdue>>
      /\ phase[c] = "confirming"
      /\ phase' = [phase EXCEPT ![c] = "idle"]
      /\ working' = [working EXCEPT ![c] = 0]
      /\ Invoke(c, tickets[t].call, "ticket", t)
  BY DEF PerformConfirmed
<1>2. /\ held[c].channel = "http"
      /\ t \in DOMAIN tickets /\ tickets[t].home = c /\ tickets[t].life = life[c]
      /\ tickets[t].fate = "confirmed"
      /\ \A k \in DOMAIN log : log[k].ticket # t
  BY <1>0, <1>1 DEF Performing
<1> HIDE DEF t
<1>3. tickets \in Seq(Ticket)
  BY DEF StoreType
<1>4. tickets[t].call \in Calls /\ t \in Nat /\ t # 0
  <2>1. tickets[t] \in Ticket
    BY <1>2, <1>3
  <2>2. t \in Nat /\ t # 0
    BY <1>2, <1>3
  <2> QED
    BY <2>1, <2>2 DEF Ticket
<1>5. c \in live
  BY <1>0, <1>1 DEF StoreType, Quiet
<1>6. /\ ledger' \in [Conversations -> Seq(Answer)]
      /\ \A e \in Conversations : e # c => ledger'[e] = ledger[e]
      /\ \/ log' = log
         \/ /\ Held(c, tickets[t].call)
            /\ log' = Append(log, [home |-> c, life |-> life[c], call |-> tickets[t].call,
                                   said |-> "ticket", ticket |-> t])
  BY <1>0, <1>1, <1>4, <1>5, Invoking
<1>7. /\ log' \in Seq(Operation)
      /\ Logged'
      /\ \A k \in DOMAIN log' : k \in DOMAIN log \/ log'[k].ticket = t
      /\ \A k \in DOMAIN log : log'[k] = log[k]
  <2>1. CASE log' = log
    BY <2>1, <1>1 DEF Logged, StoreType
  <2>2. CASE log' # log
    BY <2>2, <1>0, <1>1, <1>2, <1>4, <1>6, Performed
  <2> QED
    BY <2>1, <2>2
<1>8. \A e \in Conversations : e # c => phase'[e] = phase[e] /\ working'[e] = working[e]
  BY <1>1 DEF RequestInv, RequestType
<1>9. phase'[c] = "idle"
  BY <1>0, <1>1 DEF RequestInv, RequestType
<1>10. Quiet'
  BY <1>1, <1>5, <1>6, <1>8 DEF Quiet, StoreType
<1>11. StoreType'
  BY <1>1, <1>6, <1>7, <1>10 DEF StoreType
<1>12. Stores'
  BY <1>1 DEF Stores
<1>13. Performing'
  <2> SUFFICES ASSUME NEW e \in Conversations, phase'[e] = "confirming"
               PROVE  /\ held'[e].channel = "http"
                      /\ working'[e] \in DOMAIN tickets'
                      /\ tickets'[working'[e]].home = e /\ tickets'[working'[e]].life = life'[e]
                      /\ tickets'[working'[e]].fate = "confirmed"
                      /\ \A k \in DOMAIN log' : log'[k].ticket # working'[e]
    BY DEF Performing
  <2>1. e # c /\ phase[e] = "confirming" /\ working'[e] = working[e]
    BY <1>8, <1>9
  <2>2. /\ held[e].channel = "http"
        /\ working[e] \in DOMAIN tickets
        /\ tickets[working[e]].home = e /\ tickets[working[e]].life = life[e]
        /\ tickets[working[e]].fate = "confirmed"
        /\ \A k \in DOMAIN log : log[k].ticket # working[e]
    BY <2>1 DEF Performing
  <2>3. working[e] # t
    BY <2>1, <2>2, <1>2
  <2> QED
    BY <2>1, <2>2, <2>3, <1>1, <1>7
<1> QED
  BY <1>7, <1>11, <1>12, <1>13

(* Runtimes go. *)
LEMMA Dropping ==
  ASSUME RequestInv, StoreInv, NEW gone \in SUBSET Conversations, Drop(gone),
         UNCHANGED <<held, turns, commands, life, drafts, tickets, overdue, log>>,
         \A c \in Conversations :
           \/ phase'[c] = "idle"
           \/ c \notin gone /\ phase'[c] = phase[c] /\ working'[c] = working[c]
  PROVE  StoreInv'
<1> USE DEF StoreInv
<1>1. /\ stored' = [c \in Conversations |-> IF c \in gone THEN {} ELSE stored[c]]
      /\ pending' = [c \in Conversations |-> IF c \in gone THEN {} ELSE pending[c]]
      /\ ledger' = [c \in Conversations |-> IF c \in gone THEN << >> ELSE ledger[c]]
      /\ live' = live \ gone
  BY DEF Drop, TicketsLeft
<1>2. << >> \in Seq(Answer)
  OBVIOUS
<1>3. Quiet'
  BY <1>1 DEF Quiet, StoreType
<1>4. StoreType'
  BY <1>1, <1>2, <1>3 DEF StoreType
<1>5. Stores'
  BY <1>1 DEF Stores
<1>6. Performing'
  BY DEF Performing
<1>7. Logged'
  BY DEF Logged
<1> QED
  BY <1>4, <1>5, <1>6, <1>7

LEMMA StoresAsked ==
  ASSUME RequestInv, StoreInv, NEW c \in DOMAIN held, NEW yes \in BOOLEAN, AskOwner(c, yes)
  PROVE  StoreInv'
<1>0. c \in Conversations
  BY ChannelsAssumption DEF StoreInv, StoreType
<1>1. /\ UNCHANGED <<held, turns, commands, life, live, phase, working, drafts, stored, tickets,
                     pending, overdue, log>>
      /\ Undecided(c) /\ phase[c] = "asking"
      /\ ledger' = [ledger EXCEPT ![c] =
           Append(@, [key |-> Key(batch[c][Asked(c)].call), yes |-> yes])]
  BY DEF AskOwner, Decide, InRound, Undecided
<1>2. /\ ledger \in [Conversations -> Seq(Answer)]
      /\ overdue \subseteq 1 .. Len(tickets)
      /\ c \in live
  BY <1>0, <1>1 DEF StoreInv, StoreType, Quiet
<1>3. Key(batch[c][Asked(c)].call) \in WriteTools \X (Pages \cup 1 .. MaxDrafts)
  <2>1. batch[c] \in Seq(Entry) /\ Asked(c) \in DOMAIN batch[c]
    BY <1>0, <1>1, DecidedHere, AskedIsWaiting DEF WaitingIn
  <2>2. batch[c][Asked(c)] \in Entry
    BY <2>1
  <2> QED
    BY <2>2, KeysAreTyped DEF Entry
<1>4. [key |-> Key(batch[c][Asked(c)].call), yes |-> yes] \in Answer
  BY <1>3 DEF Answer
<1>5. /\ ledger' \in [Conversations -> Seq(Answer)]
      /\ \A e \in Conversations : e # c => ledger'[e] = ledger[e]
  BY <1>0, <1>1, <1>2, <1>4
<1> QED
  BY <1>1, <1>2, <1>5, StoresUntouched

(* Steps of one request that only move it on. *)
LEMMA StoresMoveOn ==
  ASSUME RequestInv, StoreInv, NEW c \in Conversations, phase[c] # "idle",
         NEW at \in Phases \ {"confirming"}, phase' = [phase EXCEPT ![c] = at],
         UNCHANGED <<held, turns, commands, life, live, working, drafts, stored, tickets, pending,
                     overdue, log>>,
         ledger' = ledger \/ ledger' = [ledger EXCEPT ![c] = << >>]
  PROVE  StoreInv'
<1>1. /\ ledger \in [Conversations -> Seq(Answer)]
      /\ overdue \subseteq 1 .. Len(tickets)
      /\ c \in live
  BY DEF StoreInv, StoreType, Quiet
<1>2. << >> \in Seq(Answer)
  OBVIOUS
<1>3. /\ ledger' \in [Conversations -> Seq(Answer)]
      /\ \A e \in Conversations : e # c => ledger'[e] = ledger[e] /\ phase'[e] = phase[e]
      /\ phase'[c] = at
  BY <1>1, <1>2 DEF RequestInv, RequestType
<1>4. \A e \in Conversations :
        phase'[e] = "confirming" => phase[e] = "confirming" /\ working'[e] = working[e]
  BY <1>3
<1> QED
  BY <1>1, <1>3, <1>4, StoresUntouched

LEMMA StoreStep ==
  ASSUME RequestInv, StoreInv, [Next]_vars
  PROVE  StoreInv'
<1>0. DOMAIN held \subseteq Conversations
  BY ChannelsAssumption DEF StoreInv, StoreType
<1>1. ASSUME NEW c \in DOMAIN held, Ask(c) PROVE StoreInv'
  BY <1>0, <1>1, StoresAsk
<1>2. ASSUME NEW c \in DOMAIN held, Draft(c) PROVE StoreInv'
  BY <1>2, StoresDraft
<1>3. ASSUME NEW c \in DOMAIN held, Modelling(c) PROVE StoreInv'
  <2>1. CASE Propose(c)
    <3> DEFINE at == IF \E i \in DOMAIN batch'[c] : batch'[c][i].state = "waiting"
                       THEN "asking" ELSE "running"
    <3>1. /\ phase[c] # "idle" /\ phase' = [phase EXCEPT ![c] = at]
          /\ UNCHANGED <<held, turns, commands, life, live, working, drafts, stored, tickets,
                         pending, overdue, log, ledger>>
      BY <2>1 DEF Propose, runtime
    <3>2. at \in Phases \ {"confirming"}
      BY DEF Phases
    <3> HIDE DEF at
    <3> QED
      BY <1>0, <3>1, <3>2, StoresMoveOn
  <2>2. CASE Reply(c)
    BY <1>0, <2>2, StoresMoveOn DEF Reply, runtime, Phases
  <2> QED
    BY <1>3, <2>1, <2>2 DEF Modelling
<1>4. ASSUME NEW c \in DOMAIN held, Working(c) PROVE StoreInv'
  <2>1. CASE Interrupt(c)
    BY <1>0, <2>1, StoresMoveOn DEF Interrupt, Phases
  <2>2. CASE DeclineUndescribed(c)
    <3>1. UNCHANGED <<held, turns, commands, life, live, phase, working, drafts, stored, tickets,
                      pending, ledger, overdue, log>>
      BY <2>2 DEF DeclineUndescribed, Decide
    <3>2. ledger \in [Conversations -> Seq(Answer)] /\ overdue \subseteq 1 .. Len(tickets)
      BY DEF StoreInv, StoreType
    <3> QED
      BY <3>1, <3>2, StoresUntouched
  <2>3. CASE RaiseTicket(c)
    BY <2>3, StoresRaise
  <2>4. CASE Resume(c)
    BY <1>0, <2>4, StoresMoveOn DEF Resume, runtime, Phases
  <2>5. ASSUME NEW yes \in BOOLEAN, AskOwner(c, yes) PROVE StoreInv'
    BY <2>5, StoresAsked
  <2>6. ASSUME NEW i \in 1 .. BatchSize, RunCall(c, i) PROVE StoreInv'
    BY <2>6, StoresRun
  <2>7. CASE BatchDone(c)
    <3> DEFINE at == IF phase[c] = "running" THEN "model" ELSE "idle"
    <3>1. /\ phase[c] # "idle" /\ phase' = [phase EXCEPT ![c] = at]
          /\ UNCHANGED <<held, turns, commands, life, live, working, drafts, stored, tickets,
                         pending, overdue, log, ledger>>
      BY <2>7 DEF BatchDone, runtime
    <3>2. at \in Phases \ {"confirming"}
      BY DEF Phases
    <3> HIDE DEF at
    <3> QED
      BY <1>0, <3>1, <3>2, StoresMoveOn
  <2>8. CASE PerformConfirmed(c)
    BY <2>8, StoresPerform
  <2> QED
    BY <1>4, <2>1, <2>2, <2>3, <2>4, <2>5, <2>6, <2>7, <2>8 DEF Working
<1>5. ASSUME NEW c \in DOMAIN held, Retire(c) PROVE StoreInv'
  <2>1. /\ Drop({c}) /\ phase[c] = "idle"
        /\ UNCHANGED <<held, turns, commands, life, phase, working, drafts, tickets, overdue, log>>
    BY <1>5 DEF Retire, request
  <2>2. {c} \in SUBSET Conversations
    BY <1>0
  <2> QED
    BY <2>1, <2>2, Dropping
<1>6. ASSUME NEW c \in DOMAIN held, NEW t \in DOMAIN tickets, Confirm(c, t) PROVE StoreInv'
  BY <1>6, StoresConfirm
<1>7. ASSUME NEW c \in DOMAIN held, NEW t \in DOMAIN tickets, Cancel(c, t) PROVE StoreInv'
  BY <1>0, <1>7, StoresCancel
<1>8. ASSUME NEW c \in DOMAIN held, NEW t \in DOMAIN tickets, ReportUnknown(c, t) PROVE StoreInv'
  BY <1>0, <1>8, StoresReport
<1>9. ASSUME NEW t \in DOMAIN tickets, Expire(t) PROVE StoreInv'
  <2>1. /\ UNCHANGED <<held, turns, commands, life, live, phase, working, drafts, stored, tickets,
                       pending, ledger, log>>
        /\ overdue' = overdue \cup {t}
    BY <1>9 DEF Expire, request, runtime
  <2>0. ledger \in [Conversations -> Seq(Answer)] /\ tickets \in Seq(Ticket)
        /\ overdue \subseteq 1 .. Len(tickets)
    BY DEF StoreInv, StoreType
  <2>2. t \in 1 .. Len(tickets)
    BY <2>0
  <2>3. /\ overdue' \subseteq 1 .. Len(tickets)
        /\ Len(tickets') = Len(tickets)
    BY <2>0, <2>1, <2>2
  <2> QED
    BY <2>0, <2>1, <2>3, StoresUntouched
<1>10. CASE Restart
  <2>1. /\ Drop(live)
        /\ UNCHANGED <<held, turns, commands, life, drafts, tickets, overdue, log>>
        /\ phase' = [c \in Conversations |-> "idle"]
        /\ working' = [c \in Conversations |-> 0]
    BY <1>10 DEF Restart
  <2>2. live \in SUBSET Conversations
    BY DEF StoreInv, StoreType
  <2>3. \A c \in Conversations : phase'[c] = "idle"
    BY <2>1
  <2> QED
    BY <2>1, <2>2, <2>3, Dropping
<1>11. CASE UNCHANGED vars
  <2>1. UNCHANGED <<held, turns, commands, life, live, phase, working, drafts, stored, tickets,
                    pending, ledger, overdue, log>>
    BY <1>11 DEF vars, request, runtime
  <2>2. ledger \in [Conversations -> Seq(Answer)] /\ overdue \subseteq 1 .. Len(tickets)
    BY DEF StoreInv, StoreType
  <2> QED
    BY <2>1, <2>2, StoresUntouched
<1> QED
  BY <1>1, <1>2, <1>3, <1>4, <1>5, <1>6, <1>7, <1>8, <1>9, <1>10, <1>11 DEF Next

-----------------------------------------------------------------------------
(* The specification. *)

LEMMA InitInv == Init => RequestInv /\ StoreInv
<1> SUFFICES ASSUME Init PROVE RequestInv /\ StoreInv
  OBVIOUS
<1> USE DEF Init
<1>1. RequestType
  BY BoundsAssumption DEF RequestType, Phases
<1>2. WaitingIn(<< >>) = {}
  BY DEF WaitingIn
<1>3. Batches
  BY <1>2 DEF Batches, Decided
<1>4. 0 \in 0 .. MaxLives
  BY BoundsAssumption
<1>5. StoreType
  BY <1>4 DEF StoreType, Quiet
<1>6. Stores /\ Performing /\ Logged
  BY DEF Stores, Performing, Logged
<1> QED
  BY <1>1, <1>3, <1>5, <1>6 DEF RequestInv, StoreInv

LEMMA Step == RequestInv /\ StoreInv /\ [Next]_vars => (RequestInv /\ StoreInv)'
<1>1. StoreInv => held \in Deployments /\ DOMAIN tickets \subseteq Nat
  BY DEF StoreInv, StoreType
<1> QED
  BY <1>1, RequestStep, StoreStep

LEMMA Invariant == Spec => [](RequestInv /\ StoreInv)
<1>1. Init => RequestInv /\ StoreInv
  BY InitInv
<1>2. RequestInv /\ StoreInv /\ [Next]_vars => (RequestInv /\ StoreInv)'
  BY Step
<1> QED
  BY <1>1, <1>2, PTL DEF Spec

(* TypeOK: types, and a conversation without a runtime keeps nothing. *)
THEOREM TypeCorrect == Spec => []TypeOK
<1>1. RequestInv /\ StoreInv => TypeOK
  BY DEF RequestInv, RequestType, StoreInv, StoreType, Quiet, Ticket, Operation, TypeOK
<1> QED
  BY <1>1, Invariant, PTL

(* DecisionsReachTheirCalls: decisions are matched to the suspended calls by
   position alone, and still every call runs on the answer given for it. *)
THEOREM DecisionsAreTheirOwn == Spec => []DecisionsReachTheirCalls
<1>1. StoreInv => DecisionsReachTheirCalls
  BY DEF StoreInv, Logged, DecisionsReachTheirCalls
<1> QED
  BY <1>1, Invariant, PTL

(* PerformedWasConfirmed: over HTTP a gated operation takes a confirmed ticket
   of its own conversation, with the arguments it was raised for. *)
THEOREM TicketsAreNeeded == Spec => []PerformedWasConfirmed
<1>1. StoreInv => PerformedWasConfirmed
  BY DEF StoreInv, Logged, PerformedWasConfirmed
<1> QED
  BY <1>1, Invariant, PTL

(* NothingOutlivesItsRuntime: neither a ticket nor a draft reference works in
   another conversation or after the runtime it belonged to. *)
THEOREM RuntimesTakeTheirStores == Spec => []NothingOutlivesItsRuntime
<1>1. StoreInv => NothingOutlivesItsRuntime
  BY DEF StoreInv, Logged, NothingOutlivesItsRuntime
<1> QED
  BY <1>1, Invariant, PTL

-----------------------------------------------------------------------------
(* Tickets keep their promise. *)

Fates == {"open", "confirmed", "cancelled", "lapsed"}

\* The operations performed for a ticket.
PerformedFor(t) == {k \in DOMAIN log : log[k].ticket = t}

LEMMA PromiseReads ==
  ASSUME StoreInv
  PROVE  /\ tickets \in Seq(Ticket) /\ log \in Seq(Operation)
         /\ Consent \in [DOMAIN tickets -> Fates]
         /\ Consent \in Seq(Fates) /\ Len(Consent) = Len(tickets)
         /\ Acts = [t \in DOMAIN tickets |-> Cardinality(PerformedFor(t))]
         /\ \A t \in DOMAIN tickets : tickets[t].home \in Conversations
<1>1. tickets \in Seq(Ticket) /\ log \in Seq(Operation)
  BY DEF StoreInv, StoreType
<1>2. \A t \in DOMAIN tickets :
        tickets[t].home \in Conversations /\ tickets[t].fate \in {"open", "confirmed", "cancelled"}
  <2>1. \A t \in DOMAIN tickets : tickets[t] \in Ticket
    BY <1>1
  <2> QED
    BY <2>1 DEF Ticket
<1>3. Consent \in [DOMAIN tickets -> Fates]
  BY <1>2 DEF Consent, Fates
<1>4. DOMAIN tickets = 1 .. Len(tickets) /\ Len(tickets) \in Nat
  BY <1>1
<1>5. Consent \in Seq(Fates) /\ Len(Consent) = Len(tickets)
  BY <1>3, <1>4
<1> QED
  BY <1>1, <1>2, <1>3, <1>5 DEF Acts, PerformedFor

(* Most steps are no concern of a ticket. *)
LEMMA NoConcern ==
  ASSUME UNCHANGED <<tickets, pending, overdue, log>>
  PROVE  UNCHANGED Promise!vars
BY DEF Promise!vars, Consent, Acts

\* Operations performed without a ticket.
LEMMA OtherOperations ==
  ASSUME StoreInv, UNCHANGED <<tickets, pending, overdue>>, NEW operation \in Operation,
         log' = Append(log, operation), operation.ticket = 0
  PROVE  UNCHANGED Promise!vars
<1>1. /\ Len(log) \in Nat /\ DOMAIN log = 1 .. Len(log) /\ DOMAIN log' = 1 .. Len(log) + 1
      /\ log'[Len(log) + 1] = operation
      /\ \A k \in DOMAIN log : log'[k] = log[k]
  BY PromiseReads
<1>2. \A t \in DOMAIN tickets : t # 0
  BY PromiseReads
<1>3. \A t \in DOMAIN tickets : PerformedFor(t)' = PerformedFor(t)
  BY <1>1, <1>2 DEF PerformedFor
<1>4. Acts' = Acts
  BY <1>3 DEF Acts, PerformedFor
<1>5. Consent' = Consent
  BY DEF Consent
<1> QED
  BY <1>4, <1>5 DEF Promise!vars

\* An operation performed for a confirmed ticket.
LEMMA Acting ==
  ASSUME StoreInv, UNCHANGED <<tickets, pending, overdue>>, NEW operation \in Operation,
         log' = Append(log, operation), operation.ticket \in DOMAIN tickets,
         tickets[operation.ticket].fate = "confirmed",
         \A k \in DOMAIN log : log[k].ticket # operation.ticket
  PROVE  Promise!Act(operation.ticket)
<1> DEFINE t == operation.ticket
<1>1. /\ Len(log) \in Nat /\ DOMAIN log = 1 .. Len(log) /\ DOMAIN log' = 1 .. Len(log) + 1
      /\ log'[Len(log) + 1] = operation
      /\ \A k \in DOMAIN log : log'[k] = log[k]
  BY PromiseReads
<1>2. PerformedFor(t) = {} /\ PerformedFor(t)' = {Len(log) + 1}
  BY <1>1 DEF PerformedFor
<1>3. \A u \in DOMAIN tickets : u # t => PerformedFor(u)' = PerformedFor(u)
  BY <1>1 DEF PerformedFor
<1>4. Acts[t] = 0 /\ Acts'[t] = 1
  BY <1>2, FS_EmptySet, FS_Singleton DEF Acts, PerformedFor
<1>5. Acts' = [Acts EXCEPT ![t] = 1]
  <2>1. DOMAIN Acts = DOMAIN tickets /\ DOMAIN Acts' = DOMAIN tickets
    BY DEF Acts
  <2>2. \A u \in DOMAIN tickets : u # t => Acts'[u] = Acts[u]
    BY <1>3 DEF Acts, PerformedFor
  <2> QED
    BY <1>4, <2>1, <2>2 DEF Acts
<1>6. Consent' = Consent
  BY DEF Consent
<1>7. Consent[t] = "confirmed"
  BY DEF Consent
<1> QED
  BY <1>4, <1>5, <1>6, <1>7 DEF Promise!Act

\* A claim is an answer to a ticket that is still open.
LEMMA Answering ==
  ASSUME StoreInv, NEW c \in Conversations, NEW t \in DOMAIN tickets, Claimable(c, t),
         NEW fate \in {"confirmed", "cancelled"},
         tickets' = [tickets EXCEPT ![t].fate = fate],
         pending' = [pending EXCEPT ![c] = Claimed(c, t)],
         UNCHANGED <<overdue, log>>
  PROVE  Promise!Answer(t, fate)
<1>1. /\ tickets \in Seq(Ticket) /\ tickets[t] \in Ticket
      /\ pending \in [Conversations -> SUBSET (1 .. Len(tickets))]
      /\ tickets[t].home = c /\ tickets[t].fate = "open"
      /\ t \in pending[c] /\ t \notin overdue
  <2>1. tickets \in Seq(Ticket) /\ pending \in [Conversations -> SUBSET (1 .. Len(tickets))]
    BY DEF StoreInv, StoreType
  <2>2. tickets[t] \in Ticket
    BY <2>1
  <2>3. t \in pending[c] /\ t \notin overdue
    BY DEF Claimable
  <2>4. tickets[t].home = c /\ tickets[t].fate = "open"
    BY <2>3 DEF StoreInv, Stores
  <2> QED
    BY <2>1, <2>2, <2>3, <2>4
<1>2. /\ DOMAIN tickets' = DOMAIN tickets
      /\ tickets'[t].fate = fate
      /\ \A u \in DOMAIN tickets : u # t => tickets'[u] = tickets[u]
  BY <1>1 DEF Ticket
<1>3. \A e \in Conversations : \A u \in DOMAIN tickets :
        u # t => (u \in pending'[e] <=> u \in pending[e])
  BY <1>1 DEF Claimed
<1>4. Consent[t] = "open" /\ Consent'[t] = fate
  BY <1>1, <1>2 DEF Consent
<1>5. \A u \in DOMAIN tickets : u # t => Consent'[u] = Consent[u]
  BY <1>2, <1>3, PromiseReads DEF Consent
<1>6. Consent' = [Consent EXCEPT ![t] = fate]
  <2>1. DOMAIN Consent = DOMAIN tickets /\ DOMAIN Consent' = DOMAIN tickets
    BY <1>2 DEF Consent
  <2> QED
    BY <1>4, <1>5, <2>1 DEF Consent
<1>7. Acts' = Acts
  BY <1>2 DEF Acts
<1> QED
  BY <1>4, <1>6, <1>7 DEF Promise!Answer

\* Tickets grow old, and stores go.
LEMMA Lapsing ==
  ASSUME StoreInv, UNCHANGED <<tickets, log>>, overdue \subseteq overdue',
         \A e \in Conversations : pending'[e] \subseteq pending[e]
  PROVE  \E gone \in SUBSET DOMAIN Consent : Promise!Lapse(gone)
<1> DEFINE gone == {t \in DOMAIN tickets : Consent[t] = "open" /\ Consent'[t] = "lapsed"}
<1>1. DOMAIN Consent = DOMAIN tickets /\ DOMAIN Consent' = DOMAIN tickets
  BY DEF Consent
<1>2. \A t \in DOMAIN tickets :
        Consent'[t] = IF t \in gone THEN "lapsed" ELSE Consent[t]
  BY PromiseReads DEF Consent
<1>3. Consent' = [t \in DOMAIN Consent |-> IF t \in gone THEN "lapsed" ELSE Consent[t]]
  <2>1. Consent' = [t \in DOMAIN tickets |-> Consent'[t]]
    BY DEF Consent
  <2> QED
    BY <1>1, <1>2, <2>1
<1>4. Acts' = Acts
  BY DEF Acts
<1>5. gone \in SUBSET DOMAIN Consent /\ \A t \in gone : Consent[t] = "open"
  BY <1>1
<1> QED
  BY <1>3, <1>4, <1>5 DEF Promise!Lapse

LEMMA ExtendedByOne ==
  ASSUME NEW S, NEW s \in Seq(S), NEW e \in S, NEW longer,
         longer = [i \in 1 .. Len(s) + 1 |-> longer[i]],
         longer[Len(s) + 1] = e, \A i \in 1 .. Len(s) : longer[i] = s[i]
  PROVE  longer = Append(s, e)
<1>1. longer \in [1 .. Len(s) + 1 -> S]
  <2>1. Len(s) \in Nat /\ \A i \in 1 .. Len(s) : s[i] \in S
    OBVIOUS
  <2>2. \A i \in 1 .. Len(s) + 1 : i \in 1 .. Len(s) \/ i = Len(s) + 1
    BY <2>1
  <2>3. \A i \in 1 .. Len(s) + 1 : longer[i] \in S
    BY <2>1, <2>2
  <2> QED
    BY <2>3
<1>2. longer \in Seq(S) /\ Len(longer) = Len(s) + 1
  BY <1>1
<1>3. Append(s, e) \in Seq(S) /\ Len(Append(s, e)) = Len(s) + 1
  OBVIOUS
<1>4. \A i \in 1 .. Len(longer) : longer[i] = Append(s, e)[i]
  BY <1>2
<1> QED
  BY <1>2, <1>3, <1>4, SeqEqual

\* A new ticket is an offer.
LEMMA Offering ==
  ASSUME StoreInv, NEW c \in Conversations, NEW ticket \in Ticket,
         ticket.home = c, ticket.fate = "open",
         tickets' = Append(tickets, ticket),
         pending' = [pending EXCEPT ![c] = @ \cup {Len(tickets) + 1}],
         UNCHANGED <<overdue, log>>
  PROVE  Promise!Offer
<1> DEFINE new == Len(tickets) + 1
<1>1. /\ tickets \in Seq(Ticket) /\ overdue \subseteq 1 .. Len(tickets)
      /\ pending \in [Conversations -> SUBSET (1 .. Len(tickets))]
  BY DEF StoreInv, StoreType
<1>2. /\ Len(tickets) \in Nat /\ DOMAIN tickets = 1 .. Len(tickets) /\ DOMAIN tickets' = 1 .. new
      /\ new \notin DOMAIN tickets
      /\ tickets'[new] = ticket
      /\ \A t \in DOMAIN tickets : tickets'[t] = tickets[t]
  BY <1>1
<1>3. /\ new \notin overdue /\ new \in pending'[c]
      /\ \A e \in Conversations : \A t \in DOMAIN tickets : t \in pending'[e] <=> t \in pending[e]
  BY <1>1, <1>2
<1>4. Consent'[new] = "open"
  BY <1>2, <1>3 DEF Consent
<1>5. \A t \in DOMAIN tickets : Consent'[t] = Consent[t]
  BY <1>2, <1>3, PromiseReads DEF Consent
<1>6. Consent' = Append(Consent, "open")
  <2>1. Consent \in Seq(Fates) /\ Len(Consent) = Len(tickets) /\ "open" \in Fates
    BY PromiseReads DEF Fates
  <2>2. Consent' = [t \in 1 .. new |-> Consent'[t]] /\ new \in Nat
    BY <1>2 DEF Consent
  <2>3. \A t \in 1 .. new : Consent'[t] \in Fates
    BY <2>1, <1>2, <1>4, <1>5
  <2> QED
    BY <2>1, <2>2, <2>3, <1>2, <1>4, <1>5, ExtendedByOne
<1>7. PerformedFor(new) = {}
  BY <1>2 DEF PerformedFor, StoreInv, Logged
<1>8. Acts' = Append(Acts, 0)
  <2> DEFINE Counts == {Acts[t] : t \in DOMAIN tickets} \cup {0}
  <2>1. \A t \in DOMAIN tickets : Acts'[t] = Acts[t]
    BY <1>2 DEF Acts
  <2>2. Acts'[new] = 0
    <3>1. Acts' = [t \in DOMAIN tickets' |-> Cardinality({k \in DOMAIN log : log[k].ticket = t})]
      BY DEF Acts
    <3>2. {k \in DOMAIN log : log[k].ticket = new} = {}
      BY <1>7 DEF PerformedFor
    <3>3. new \in DOMAIN tickets'
      BY <1>2
    <3> HIDE DEF new
    <3>4. Acts'[new] = Cardinality({k \in DOMAIN log : log[k].ticket = new})
      BY <3>1, <3>3
    <3> QED
      BY <3>2, <3>4, FS_EmptySet
  <2>3. Acts' = [t \in 1 .. new |-> Acts'[t]] /\ new \in Nat
    BY <1>2 DEF Acts
  <2>4. Acts \in [1 .. Len(tickets) -> Counts]
    BY <1>2 DEF Acts
  <2>5. Acts \in Seq(Counts) /\ Len(Acts) = Len(tickets) /\ 0 \in Counts
    BY <2>4, <1>2
  <2>6. \A t \in 1 .. new : Acts'[t] \in Counts
    BY <2>1, <2>2, <1>2
  <2> HIDE DEF Counts
  <2> QED
    BY <2>1, <2>2, <2>3, <2>5, <2>6, <1>2, ExtendedByOne
<1> QED
  BY <1>6, <1>8 DEF Promise!Offer

LEMMA PromiseRun ==
  ASSUME StoreInv, StoreInv', NEW c \in DOMAIN held, NEW i \in 1 .. BatchSize, RunCall(c, i)
  PROVE  UNCHANGED Promise!vars
<1> DEFINE operation == [home |-> c, life |-> life[c], call |-> batch[c][i].call,
                         said |-> batch[c][i].said, ticket |-> 0]
<1>1. /\ UNCHANGED <<tickets, pending, overdue>>
      /\ log' = log \/ log' = Append(log, operation)
  BY DEF RunCall, Invoke
<1>2. operation.ticket = 0
  OBVIOUS
<1> HIDE DEF operation
<1>3. CASE log' = log
  BY <1>1, <1>3, NoConcern
<1>4. CASE log' = Append(log, operation)
  <2>1. log \in Seq(Operation) /\ log' \in Seq(Operation)
    BY DEF StoreInv, StoreType
  <2>2. operation = log'[Len(log')] /\ Len(log') \in DOMAIN log'
    BY <1>4, <2>1
  <2>3. operation \in Operation
    BY <2>1, <2>2
  <2> QED
    BY <1>1, <1>2, <1>4, <2>3, OtherOperations
<1> QED
  BY <1>1, <1>3, <1>4

LEMMA PromisePerform ==
  ASSUME StoreInv, StoreInv', NEW c \in DOMAIN held, PerformConfirmed(c)
  PROVE  UNCHANGED Promise!vars \/ Promise!Act(working[c])
<1> DEFINE operation == [home |-> c, life |-> life[c], call |-> tickets[working[c]].call,
                         said |-> "ticket", ticket |-> working[c]]
<1>1. /\ UNCHANGED <<tickets, pending, overdue>>
      /\ log' = log \/ log' = Append(log, operation)
      /\ phase[c] = "confirming"
  BY DEF PerformConfirmed, Invoke
<1>2. operation.ticket = working[c]
  OBVIOUS
<1> HIDE DEF operation
<1>3. CASE log' = log
  BY <1>1, <1>3, NoConcern
<1>4. CASE log' = Append(log, operation)
  <2>1. log \in Seq(Operation) /\ log' \in Seq(Operation) /\ c \in Conversations
    BY ChannelsAssumption DEF StoreInv, StoreType
  <2>2. operation = log'[Len(log')] /\ Len(log') \in DOMAIN log'
    BY <1>4, <2>1
  <2>3. operation \in Operation
    BY <2>1, <2>2
  <2>4. /\ working[c] \in DOMAIN tickets
        /\ tickets[working[c]].fate = "confirmed"
        /\ \A k \in DOMAIN log : log[k].ticket # working[c]
    BY <1>1, <2>1 DEF StoreInv, Performing
  <2> QED
    BY <1>1, <1>2, <1>4, <2>3, <2>4, Acting
<1> QED
  BY <1>1, <1>3, <1>4

LEMMA PromiseRaise ==
  ASSUME StoreInv, StoreInv', NEW c \in DOMAIN held, RaiseTicket(c)
  PROVE  Promise!Offer
<1> DEFINE ticket == [home |-> c, life |-> life[c], call |-> batch[c][Asked(c)].call,
                      fate |-> "open"]
<1>1. /\ tickets' = Append(tickets, ticket)
      /\ pending' = [pending EXCEPT ![c] = @ \cup {Len(tickets) + 1}]
      /\ UNCHANGED <<overdue, log>>
  BY DEF RaiseTicket, Decide
<1>2. ticket.home = c /\ ticket.fate = "open"
  OBVIOUS
<1> HIDE DEF ticket
<1>3. tickets \in Seq(Ticket) /\ tickets' \in Seq(Ticket) /\ c \in Conversations
  BY ChannelsAssumption DEF StoreInv, StoreType
<1>4. ticket = tickets'[Len(tickets')] /\ Len(tickets') \in DOMAIN tickets'
  BY <1>1, <1>3
<1>5. ticket \in Ticket
  BY <1>3, <1>4
<1> QED
  BY <1>1, <1>2, <1>3, <1>5, Offering

LEMMA PromiseDrop ==
  ASSUME StoreInv, NEW gone \in SUBSET Conversations, Drop(gone), UNCHANGED <<tickets, overdue, log>>
  PROVE  \E lapsing \in SUBSET DOMAIN Consent : Promise!Lapse(lapsing)
<1>1. \A e \in Conversations : pending'[e] \subseteq pending[e]
  BY DEF Drop, TicketsLeft, StoreInv, StoreType
<1> QED
  BY <1>1, Lapsing

LEMMA PromiseStep ==
  ASSUME StoreInv, StoreInv', [Next]_vars
  PROVE  [Promise!Next]_Promise!vars
<1>0. DOMAIN held \subseteq Conversations /\ DOMAIN Consent = DOMAIN tickets
  BY ChannelsAssumption DEF StoreInv, StoreType, Consent
<1>1. ASSUME NEW c \in DOMAIN held, Ask(c) \/ Draft(c) \/ Modelling(c)
      PROVE  UNCHANGED Promise!vars
  <2>1. UNCHANGED <<tickets, pending, overdue, log>>
    BY <1>1 DEF Ask, Draft, Modelling, Propose, Reply, runtime
  <2> QED
    BY <2>1, NoConcern
<1>2. ASSUME NEW c \in DOMAIN held, Working(c) PROVE [Promise!Next]_Promise!vars
  <2>1. CASE Interrupt(c) \/ DeclineUndescribed(c) \/ Resume(c) \/ BatchDone(c)
             \/ \E yes \in BOOLEAN : AskOwner(c, yes)
    <3>1. UNCHANGED <<tickets, pending, overdue, log>>
      BY <2>1 DEF Interrupt, DeclineUndescribed, Resume, BatchDone, AskOwner, Decide, runtime
    <3> QED
      BY <3>1, NoConcern
  <2>2. CASE RaiseTicket(c)
    BY <2>2, PromiseRaise DEF Promise!Next
  <2>3. ASSUME NEW i \in 1 .. BatchSize, RunCall(c, i) PROVE UNCHANGED Promise!vars
    BY <2>3, PromiseRun
  <2>4. CASE PerformConfirmed(c)
    <3>1. working[c] \in DOMAIN Consent
      BY <1>0, <2>4 DEF PerformConfirmed, StoreInv, Performing
    <3> QED
      BY <2>4, <3>1, PromisePerform DEF Promise!Next
  <2> QED
    BY <1>2, <2>1, <2>2, <2>3, <2>4 DEF Working
<1>3. ASSUME NEW c \in DOMAIN held, Retire(c) PROVE [Promise!Next]_Promise!vars
  <2>1. Drop({c}) /\ UNCHANGED <<tickets, overdue, log>> /\ {c} \in SUBSET Conversations
    BY <1>0, <1>3 DEF Retire
  <2> QED
    BY <2>1, PromiseDrop DEF Promise!Next
<1>4. ASSUME NEW c \in DOMAIN held, NEW t \in DOMAIN tickets, Confirm(c, t) \/ Cancel(c, t)
      PROVE  [Promise!Next]_Promise!vars
  <2>1. CASE Confirm(c, t)
    <3>1. Promise!Answer(t, "confirmed")
      BY <1>0, <2>1, Answering DEF Confirm
    <3> QED
      BY <1>0, <3>1 DEF Promise!Next
  <2>2. CASE Cancel(c, t)
    <3>1. Promise!Answer(t, "cancelled")
      BY <1>0, <2>2, Answering DEF Cancel
    <3> QED
      BY <1>0, <3>1 DEF Promise!Next
  <2> QED
    BY <1>4, <2>1, <2>2
<1>5. ASSUME NEW c \in DOMAIN held, NEW t \in DOMAIN tickets, ReportUnknown(c, t)
      PROVE  UNCHANGED Promise!vars
  BY <1>5, NoConcern DEF ReportUnknown, runtime
<1>6. ASSUME NEW t \in DOMAIN tickets, Expire(t) PROVE [Promise!Next]_Promise!vars
  <2>1. UNCHANGED <<tickets, pending, log>> /\ overdue \subseteq overdue'
    BY <1>6 DEF Expire, runtime
  <2> QED
    BY <2>1, Lapsing DEF Promise!Next
<1>7. CASE Restart
  <2>1. Drop(live) /\ UNCHANGED <<tickets, overdue, log>> /\ live \in SUBSET Conversations
    BY <1>7 DEF Restart, StoreInv, StoreType
  <2> QED
    BY <2>1, PromiseDrop DEF Promise!Next
<1>8. CASE UNCHANGED vars
  BY <1>8, NoConcern DEF vars, runtime
<1> QED
  BY <1>1, <1>2, <1>3, <1>4, <1>5, <1>6, <1>7, <1>8 DEF Next

(* TicketsKeepTheirPromise: the stores, the loop and the runner implement
   OneTimeConsent. *)
THEOREM ImplementsOneTimeConsent == Spec => TicketsKeepTheirPromise
<1>1. Init => Promise!Init
  <2> SUFFICES ASSUME Init PROVE Consent = << >> /\ Acts = << >>
    BY DEF Promise!Init
  <2>1. DOMAIN tickets = {}
    BY DEF Init
  <2> QED
    BY <2>1 DEF Consent, Acts
<1>2. StoreInv /\ StoreInv' /\ [Next]_vars => [Promise!Next]_Promise!vars
  BY PromiseStep
<1> QED
  BY <1>1, <1>2, Invariant, PTL DEF Spec, TicketsKeepTheirPromise, Promise!Spec
=============================================================================
