--------------------------- MODULE ToolRoutingProofs ---------------------------
(* For every set of servers, bindings and deployments: what the model is        *)
(* offered is served, by the skill's own server, and never by writing through   *)
(* a read-only one; and nothing is left of a provider that is closed.           *)
EXTENDS ToolRouting, SequenceTheorems, TLAPS

AllSkills == Skills("wiki") \cup Skills("mail")

\* What a call has left stays in the scope of its own skill, except in the
\* wording of a mail confirmation; what is with a server went there through a
\* scope that is bound.
Elsewhere(d, call) == call.wording /\ d.agent = "mail"

OwnScope(s, plan) ==
  \A i \in 1 .. Len(plan) : plan[i] \in Declared(s) /\ Scope(s, plan[i]) = s

Refused == {"unbound", "undeclared", "unsupported"}

CallInv(d, call) ==
  /\ call \in Calls
  /\ call.outcome \notin Refused
  /\ call.outcome = "running" =>
       /\ call.skill \in Advertised(d) /\ call.todo # <<>>
       /\ Elsewhere(d, call) \/ OwnScope(call.skill, call.todo)
  /\ call.at # Nowhere =>
       LET o == Head(call.todo)
           s == Scope(call.skill, o)
       IN /\ call.outcome = "running"
          /\ s \in Bound(d) /\ o \in Declared(s) /\ call.at = d.server[s]
  /\ Elsewhere(d, call) \/ \A v \in call.visited : v = d.server[call.skill]

IInv ==
  /\ deployment \in Deployments
  /\ phase \in {"unbuilt", "failed", "live", "closing", "closed"}
  /\ connected \subseteq Servers
  /\ calls \in [Callers -> Calls]
  /\ \A c \in Callers : CallInv(deployment, calls[c])
  /\ \A c \in Callers : calls[c].at \in connected \cup {Nowhere}
  /\ NothingAfterClose

------------------------------------------------------------------------------
(* The tables *)

LEMMA OneOperation ==
  ASSUME NEW S, NEW a \in S
  PROVE  <<a>> \in Seq(S) /\ <<a>> # <<>>
OBVIOUS

LEMMA TwoOperations ==
  ASSUME NEW S, NEW a \in S, NEW b \in S
  PROVE  <<a, b>> \in Seq(S) /\ <<a, b>> # <<>>
OBVIOUS

LEMMA ThreeOperations ==
  ASSUME NEW S, NEW a \in S, NEW b \in S, NEW c \in S
  PROVE  <<a, b, c>> \in Seq(S) /\ <<a, b, c>> # <<>>
OBVIOUS

LEMMA DeclaredAreOperations ==
  ASSUME NEW s
  PROVE  Declared(s) \subseteq Operations
<1>1. Borrowed(s) \subseteq {"get_page", "search_wiki", "get_page_children", "get_comments",
                            "create_draft", "list_labels", "get_mail", "get_thread"}
  BY DEF Borrowed, MailReasoning
<1>. QED  BY <1>1 DEF Declared, Operations, WikiReads, MailOperations

\* Whatever a capability issues is declared by the skill it is resolved through.
LEMMA InvocationsStayInScope ==
  ASSUME NEW s \in AllSkills, NEW plan \in Invocations(s)
  PROVE  plan \in Seq(Operations) /\ plan # <<>> /\ OwnScope(s, plan)
<1> DEFINE Fixed == WikiReasoning \cup MailReasoning \cup {"delete_page"}
<1>1. CASE s \notin Fixed
  <2>1. plan = <<s>>
    BY <1>1 DEF Invocations, WikiReasoning, MailReasoning
  <2>2. s \in Operations
    BY <1>1 DEF AllSkills, Skills, Operations
  <2>. QED  BY <2>1, <2>2 DEF OwnScope, Declared, Scope
<1>2. CASE s \in Fixed
  <2>1. plan \in Seq(Declared(s)) /\ plan # <<>>
    <3>1. CASE s \in {"answer_from_wiki", "assess_page_freshness"}
      <4>1. Borrowed(s) = {"search_wiki", "get_page"}
        BY <3>1 DEF Borrowed, MailReasoning
      <4>2. \/ plan = <<"search_wiki">>
            \/ plan = <<"get_page">>
            \/ plan = <<"search_wiki", "get_page">>
            \/ plan = <<"search_wiki", "search_wiki", "get_page">>
        BY <3>1 DEF Invocations, MailReasoning
      <4>3. "search_wiki" \in Declared(s) /\ "get_page" \in Declared(s)
        BY <4>1 DEF Declared
      <4>. QED  BY <4>2, <4>3, OneOperation, TwoOperations, ThreeOperations
    <3>2. CASE s = "summarise_page"
      <4>1. Borrowed(s) = {"get_page", "get_page_children", "get_comments"}
        BY <3>2 DEF Borrowed, MailReasoning
      <4>2. \/ plan = <<"get_page">>
            \/ plan = <<"get_page", "get_comments">>
            \/ plan = <<"get_page", "get_page_children">>
            \/ plan = <<"get_page", "get_page_children", "get_page">>
        BY <3>2 DEF Invocations, MailReasoning
      <4>3. /\ "get_page" \in Declared(s) /\ "get_comments" \in Declared(s)
            /\ "get_page_children" \in Declared(s)
        BY <4>1 DEF Declared
      <4>. QED  BY <4>2, <4>3, OneOperation, TwoOperations, ThreeOperations
    <3>3. CASE s \in {"draft_page_content", "delete_page"}
      <4>1. Borrowed(s) = {"get_page"}
        BY <3>3 DEF Borrowed, MailReasoning
      <4>2. "get_page" \in Declared(s) /\ (s = "delete_page" => "delete_page" \in Declared(s))
        BY <4>1 DEF Declared, Operations, WikiWrites
      <4>3. \/ plan = <<"get_page">>
            \/ s = "delete_page" /\ plan = <<"delete_page">>
            \/ s = "delete_page" /\ plan = <<"get_page", "delete_page">>
        BY <3>3 DEF Invocations, MailReasoning
      <4>. QED  BY <4>2, <4>3, OneOperation, TwoOperations
    <3>4. CASE s \in MailReasoning
      <4>1. "get_mail" \in Borrowed(s) /\ (s # "classify_mail" => "get_thread" \in Borrowed(s))
        BY <3>4 DEF Borrowed, MailReasoning
      <4>2. \/ plan = <<"get_mail">>
            \/ s # "classify_mail" /\ plan = <<"get_thread">>
        BY <3>4 DEF Invocations, MailReasoning
      <4>. QED  BY <4>1, <4>2, OneOperation DEF Declared
    <3>. QED  BY <1>2, <3>1, <3>2, <3>3, <3>4 DEF WikiReasoning
  <2>2. \A o : Scope(s, o) = s
    BY <1>2 DEF Scope, WikiWrites
  <2>. QED  BY <2>1, <2>2, DeclaredAreOperations DEF OwnScope
<1>. QED  BY <1>1, <1>2

\* The wiki words only a deletion, through the skill that deletes.
LEMMA WordingsStayInScope ==
  ASSUME NEW s \in AllSkills, NEW plan \in Wordings(s)
  PROVE  /\ plan \in Seq(Operations) /\ plan # <<>>
         /\ s \in Skills("wiki") => OwnScope(s, plan)
<1>1. CASE s = "delete_page"
  <2>1. plan = <<"get_page">>
    BY <1>1 DEF Wordings
  <2>2. "get_page" \in Declared(s) /\ "get_page" \in Operations
    BY <1>1 DEF Declared, Borrowed, Operations, WikiReads, MailReasoning
  <2>3. Scope(s, "get_page") = s
    BY <1>1 DEF Scope, WikiWrites
  <2>. QED  BY <2>1, <2>2, <2>3 DEF OwnScope
<1>2. CASE s # "delete_page"
  <2>1. /\ s \in {"mark_read", "archive_mail", "apply_label", "remove_label", "delete_label"}
        /\ \/ plan = <<"get_mail">>
           \/ plan = <<"list_labels">>
           \/ plan = <<"get_mail", "list_labels">>
    BY <1>2 DEF Wordings
  <2>2. s \notin Skills("wiki")
    BY <2>1 DEF Skills, WikiReads, WikiWrites, WikiReasoning
  <2>3. "get_mail" \in Operations /\ "list_labels" \in Operations
    BY DEF Operations, MailOperations
  <2>. QED  BY <2>1, <2>2, <2>3, OneOperation, TwoOperations
<1>. QED  BY <1>1, <1>2

\* The filter of the model's tools and that of the registry agree.
LEMMA AdvertisedAreBound ==
  ASSUME NEW d, NEW s \in Advertised(d)
  PROVE  s \in Bound(d) /\ s \in Managed(d) /\ s \in Skills(d.agent)
BY DEF Advertised, Bound, Served, Managed

\* A bound skill has a server, which offers all it declares.
LEMMA BoundAreServed ==
  ASSUME NEW d \in Deployments, NEW s \in Bound(d)
  PROVE  d.server[s] \in Servers /\ Declared(s) \subseteq Capabilities(d, d.server[s])
BY DeploymentsAssumption DEF Bound, Managed
------------------------------------------------------------------------------
(* The ways in which a step changes a call *)

LEMMA Beginning ==
  ASSUME NEW d \in Deployments, NEW s \in Advertised(d), NEW wording \in BOOLEAN, NEW plan,
         wording => plan \in Wordings(s), ~ wording => plan \in Invocations(s),
         NEW call,
         call = [skill |-> s, wording |-> wording, todo |-> plan, at |-> Nowhere,
                 visited |-> {}, outcome |-> "running"]
  PROVE  CallInv(d, call) /\ call.at = Nowhere
<1>1. s \in Skills(d.agent) /\ d.agent \in Agents
  BY AdvertisedAreBound, DeploymentsAssumption
<1>2. s \in AllSkills /\ (d.agent # "mail" => s \in Skills("wiki"))
  BY <1>1 DEF AllSkills, Agents
<1>3. /\ plan \in Seq(Operations) /\ plan # <<>>
      /\ (wording /\ d.agent = "mail") \/ OwnScope(s, plan)
  <2>1. CASE wording
    BY <2>1, <1>2, WordingsStayInScope
  <2>2. CASE ~ wording
    BY <2>2, <1>2, InvocationsStayInScope
  <2>. QED  BY <2>1, <2>2
<1>4. call \in Calls
  BY <1>2, <1>3 DEF Calls, AllSkills
<1>. QED  BY <1>3, <1>4 DEF CallInv, Elsewhere, Refused

LEMMA Advancing ==
  ASSUME NEW d, NEW call, CallInv(d, call), call.outcome = "running"
  PROVE  CallInv(d, Advance(call)) /\ Advance(call).at = Nowhere
<1> DEFINE new == Advance(call)
<1>1. call \in Calls /\ call.todo \in Seq(Operations) /\ call.todo # <<>>
  BY DEF CallInv, Calls
<1>2. /\ Tail(call.todo) \in Seq(Operations)
      /\ Len(Tail(call.todo)) = Len(call.todo) - 1
      /\ \A i \in 1 .. Len(Tail(call.todo)) : Tail(call.todo)[i] = call.todo[i + 1]
  BY <1>1
<1>3. /\ new.todo = Tail(call.todo) /\ new.at = Nowhere
      /\ new.outcome = IF Len(call.todo) = 1 THEN "done" ELSE "running"
      /\ new.skill = call.skill /\ new.wording = call.wording /\ new.visited = call.visited
  BY <1>1 DEF Advance, Calls
<1>4. Elsewhere(d, new) <=> Elsewhere(d, call)
  BY <1>3 DEF Elsewhere
<1>5. OwnScope(call.skill, call.todo) => OwnScope(new.skill, new.todo)
  <2>1. \A i \in 1 .. Len(new.todo) :
          i + 1 \in 1 .. Len(call.todo) /\ new.todo[i] = call.todo[i + 1]
    BY <1>1, <1>2, <1>3
  <2>. QED  BY <2>1, <1>3 DEF OwnScope
<1>6. new.outcome = "running" => new.todo # <<>>
  <2>1. ASSUME new.todo = <<>> PROVE Len(call.todo) = 1
    <3>1. Len(Tail(call.todo)) = 0
      <4>1. Tail(call.todo) = <<>>
        BY <2>1, <1>3
      <4>. QED  BY <4>1, EmptySeq
    <3>2. Len(call.todo) \in Nat
      BY <1>1
    <3>. QED  BY <3>1, <3>2, <1>2
  <2>. QED  BY <2>1, <1>3
<1>7. new \in Calls
  BY <1>1, <1>2 DEF Advance, Calls
<1>. QED  BY <1>3, <1>4, <1>5, <1>6, <1>7 DEF CallInv, Refused

\* Only the wording of a mail confirmation meets a refusal, and puts up with it.
LEMMA Failing ==
  ASSUME NEW why \in Refused \cup {"closed", "denied", "broken"}, NEW call,
         CallInv(deployment, call), call.outcome = "running",
         why \in Refused => Elsewhere(deployment, call)
  PROVE  CallInv(deployment, Failed(call, why)) /\ Failed(call, why).at = Nowhere
<1>1. CASE Tolerated(call, why)
  BY <1>1, Advancing DEF Failed
<1>2. CASE ~ Tolerated(call, why)
  <2> DEFINE new == [call EXCEPT !.at = Nowhere, !.outcome = why]
  <2>1. Failed(call, why) = new /\ why \notin Refused
    BY <1>2 DEF Failed, Tolerated, Elsewhere
  <2>2. call \in Calls
    BY DEF CallInv
  <2>3. /\ new \in Calls /\ new.at = Nowhere /\ new.outcome = why
        /\ new.skill = call.skill /\ new.wording = call.wording /\ new.visited = call.visited
    BY <2>2, <2>1 DEF Calls, Refused
  <2>4. why # "running"
    BY DEF Refused
  <2>. QED  BY <2>1, <2>3, <2>4 DEF CallInv, Elsewhere
<1>. QED  BY <1>1, <1>2

\* What a call resolves in its own scope is bound and declared there.
LEMMA ResolvingInScope ==
  ASSUME NEW call, deployment \in Deployments, CallInv(deployment, call),
         call.outcome = "running"
  PROVE  /\ Resolution(call) \in Refused \cup {"closed", "resolved"}
         /\ Resolution(call) \in Refused => Elsewhere(deployment, call)
<1>1. Resolution(call) \in {"closed", "unbound", "undeclared", "resolved"}
  BY DEF Resolution
<1>2. ASSUME ~ Elsewhere(deployment, call)
      PROVE  Resolution(call) \in {"closed", "resolved"}
  <2>1. /\ call.skill \in Advertised(deployment) /\ OwnScope(call.skill, call.todo)
        /\ call.todo \in Seq(Operations) /\ call.todo # <<>>
    BY <1>2 DEF CallInv, Calls
  <2>2. Head(call.todo) = call.todo[1] /\ 1 \in 1 .. Len(call.todo)
    BY <2>1
  <2>3. Head(call.todo) \in Declared(call.skill) /\ Scope(call.skill, Head(call.todo)) = call.skill
    BY <2>1, <2>2 DEF OwnScope
  <2>4. call.skill \in Bound(deployment)
    BY <2>1, AdvertisedAreBound
  <2>. QED  BY <2>3, <2>4 DEF Resolution
<1>. QED  BY <1>1, <1>2 DEF Refused

------------------------------------------------------------------------------
(* The invariant *)

LEMMA InitInv == Init => IInv
<1> SUFFICES ASSUME Init PROVE IInv
  OBVIOUS
<1>1. Idle \in Calls
  BY DEF Idle, Calls
<1>2. CallInv(deployment, Idle) /\ Idle.at = Nowhere
  BY <1>1 DEF CallInv, Idle, Refused
<1>. QED  BY <1>1, <1>2 DEF Init, IInv, NothingAfterClose

\* A step that changes one call, and opens no session a close would leave.
LEMMA OneCall ==
  ASSUME IInv, NEW c \in Callers, NEW new,
         CallInv(deployment, new), new.at \in connected' \cup {Nowhere},
         calls' = [calls EXCEPT ![c] = new],
         UNCHANGED <<deployment, phase>>,
         connected \subseteq connected', connected' \subseteq Servers,
         phase = "closed" => connected' = {}
  PROVE  IInv'
<1>1. calls \in [Callers -> Calls] /\ new \in Calls
  BY DEF IInv, CallInv
<1>2. calls' \in [Callers -> Calls]
  BY <1>1
<1>3. \A k \in Callers : calls'[k] = IF k = c THEN new ELSE calls[k]
  BY <1>1
<1>4. \A k \in Callers : /\ CallInv(deployment, calls'[k])
                         /\ calls'[k].at \in connected' \cup {Nowhere}
  BY <1>3 DEF IInv
<1>. QED  BY <1>2, <1>4 DEF IInv, NothingAfterClose

LEMMA StepInv == IInv /\ [Next]_vars => IInv'
<1> SUFFICES ASSUME IInv, [Next]_vars PROVE IInv'
  OBVIOUS
<1> USE DEF IInv
<1>1. CASE Build
  BY <1>1 DEF Build, NothingAfterClose
<1>2. ASSUME NEW c \in Callers, Invoke(c) \/ Word(c) PROVE IInv'
  <2>0. PICK s \in Advertised(deployment), wording \in BOOLEAN :
          \E plan \in (IF wording THEN Wordings(s) ELSE Invocations(s)) :
            Begin(c, s, wording, plan)
    BY <1>2 DEF Invoke, Word
  <2>1. PICK plan \in (IF wording THEN Wordings(s) ELSE Invocations(s)) :
          Begin(c, s, wording, plan)
    BY <2>0
  <2> DEFINE new == [skill |-> s, wording |-> wording, todo |-> plan, at |-> Nowhere,
                     visited |-> {}, outcome |-> "running"]
  <2>2. CallInv(deployment, new) /\ new.at = Nowhere
    BY <2>1, Beginning
  <2>3. /\ calls' = [calls EXCEPT ![c] = new]
        /\ UNCHANGED <<deployment, phase, connected>>
    BY <2>1 DEF Begin
  <2> HIDE DEF new
  <2>. QED  BY <2>2, <2>3, OneCall DEF NothingAfterClose
<1>3. ASSUME NEW c \in Callers, Send(c) PROVE IInv'
  <2> DEFINE call == calls[c]
             o == Head(call.todo)
             s == Scope(call.skill, o)
             v == deployment.server[s]
             new == [call EXCEPT !.at = v, !.visited = call.visited \cup {v}]
  <2>1. /\ calls' = [calls EXCEPT ![c] = new] /\ connected' = connected \cup {v}
        /\ UNCHANGED <<deployment, phase>>
    BY <1>3 DEF Send, Destination
  <2>2. call \in Calls /\ CallInv(deployment, call) /\ call.outcome = "running"
    BY <1>3 DEF Send, Resolving, Resolution
  <2>3. ~ Gone /\ s \in Bound(deployment) /\ o \in Declared(s)
    BY <1>3 DEF Send, Resolution
  <2>4. v \in Servers
    BY <2>3, BoundAreServed
  <2>5. /\ new \in Calls /\ new.at = v /\ new.visited = call.visited \cup {v}
        /\ new.skill = call.skill /\ new.wording = call.wording /\ new.todo = call.todo
        /\ new.outcome = "running"
    BY <2>2, <2>4 DEF Calls
  <2>6. Elsewhere(deployment, call) \/ s = call.skill
    <3>1. call.todo \in Seq(Operations) /\ call.todo # <<>>
      BY <2>2 DEF CallInv, Calls
    <3>2. o = call.todo[1] /\ 1 \in 1 .. Len(call.todo)
      BY <3>1
    <3>. QED  BY <2>2, <3>2 DEF CallInv, OwnScope
  <2>7. CallInv(deployment, new)
    BY <2>2, <2>3, <2>5, <2>6 DEF CallInv, Elsewhere
  <2>8. phase # "closed"
    BY <2>3 DEF Gone
  <2> HIDE DEF new
  <2>. QED  BY <2>1, <2>4, <2>5, <2>7, <2>8, OneCall
<1>4. ASSUME NEW c \in Callers, NEW new,
             CallInv(deployment, new), new.at = Nowhere,
             calls' = [calls EXCEPT ![c] = new],
             UNCHANGED <<deployment, phase, connected>>
      PROVE  IInv'
  BY <1>4, OneCall DEF NothingAfterClose
<1>5. ASSUME NEW c \in Callers, Refuse(c) PROVE IInv'
  <2>1. CallInv(deployment, calls[c]) /\ calls[c].outcome = "running"
    BY <1>5 DEF Refuse, Resolving
  <2>2. /\ Resolution(calls[c]) \in Refused \cup {"closed"}
        /\ Resolution(calls[c]) \in Refused => Elsewhere(deployment, calls[c])
    BY <1>5, <2>1, ResolvingInScope DEF Refuse
  <2>3. /\ CallInv(deployment, Failed(calls[c], Resolution(calls[c])))
        /\ Failed(calls[c], Resolution(calls[c])).at = Nowhere
    BY <2>1, <2>2, Failing
  <2>. QED  BY <1>5, <2>3, <1>4 DEF Refuse
<1>6. ASSUME NEW c \in Callers, Answer(c) PROVE IInv'
  <2>1. CallInv(deployment, calls[c]) /\ calls[c].at # Nowhere /\ calls[c].outcome = "running"
    BY <1>6 DEF Answer, CallInv
  <2>2. Head(calls[c].todo) \in Capabilities(deployment, calls[c].at)
    BY <2>1, BoundAreServed DEF CallInv
  <2>3. CallInv(deployment, Advance(calls[c])) /\ Advance(calls[c]).at = Nowhere
    BY <2>1, Advancing
  <2>. QED  BY <1>6, <2>2, <2>3, <1>4 DEF Answer
<1>7. ASSUME NEW c \in Callers, Fail(c) PROVE IInv'
  <2>1. CallInv(deployment, calls[c]) /\ calls[c].outcome = "running"
    BY <1>7 DEF Fail, CallInv
  <2>2. PICK why \in {"denied", "broken"} : calls' = [calls EXCEPT ![c] = Failed(calls[c], why)]
    BY <1>7 DEF Fail
  <2>3. CallInv(deployment, Failed(calls[c], why)) /\ Failed(calls[c], why).at = Nowhere
    BY <2>1, Failing DEF Refused
  <2>. QED  BY <1>7, <2>2, <2>3, <1>4 DEF Fail
<1>8. CASE BeginClose
  BY <1>8 DEF BeginClose, NothingAfterClose
<1>9. CASE FinishClose
  <2>1. \A c \in Callers :
          /\ CallInv(deployment, calls'[c]) /\ calls'[c].at = Nowhere /\ calls'[c] \in Calls
    <3> SUFFICES ASSUME NEW c \in Callers
                 PROVE  CallInv(deployment, calls'[c]) /\ calls'[c].at = Nowhere
      BY DEF CallInv
    <3>1. CASE calls[c].at = Nowhere
      BY <1>9, <3>1 DEF FinishClose
    <3>2. CASE calls[c].at # Nowhere
      <4>1. CallInv(deployment, calls[c]) /\ calls[c].outcome = "running"
        BY <3>2 DEF CallInv
      <4>2. calls'[c] = Failed(calls[c], "broken")
        BY <1>9, <3>2 DEF FinishClose
      <4>. QED  BY <4>1, <4>2, Failing DEF Refused
    <3>. QED  BY <3>1, <3>2
  <2>2. calls' \in [Callers -> Calls]
    BY <1>9, <2>1 DEF FinishClose
  <2>. QED  BY <1>9, <2>1, <2>2 DEF FinishClose, NothingAfterClose
<1>10. CASE UNCHANGED vars
  BY <1>10 DEF vars, NothingAfterClose
<1>. QED  BY <1>1, <1>2, <1>3, <1>5, <1>6, <1>7, <1>8, <1>9, <1>10 DEF Next

THEOREM Invariance == Spec => []IInv
BY InitInv, StepInv, PTL DEF Spec

------------------------------------------------------------------------------
(* What follows from it *)

\* Types, and what a call that runs or waits always has.
THEOREM TypeCorrect == Spec => []TypeOK
<1>1. IInv => TypeOK
  BY DEF IInv, CallInv, TypeOK
<1>. QED  BY <1>1, Invariance, PTL

\* No deployment offers the model a capability that is refused later for want of
\* a server, of a binding, or of an alias in its own manifest.
THEOREM AdvertisedCapabilitiesAreServed == Spec => []AdvertisedIsServed
<1>1. IInv => AdvertisedIsServed
  BY DEF IInv, CallInv, AdvertisedIsServed, Refused
<1>. QED  BY <1>1, Invariance, PTL

\* A read-only deployment writes nothing through the servers it restricts.
THEOREM ReadOnlyServersAreUntouched == Spec => []ReadOnlyIsUntouched
<1>1. IInv => ReadOnlyIsUntouched
  <2> SUFFICES ASSUME IInv, NEW c \in Callers, calls[c].at # Nowhere
               PROVE  ~ (Head(calls[c].todo) \in WikiWrites /\ ReadOnly(deployment, calls[c].at))
    BY DEF ReadOnlyIsUntouched
  <2>1. Head(calls[c].todo) \in Capabilities(deployment, calls[c].at)
    BY BoundAreServed DEF IInv, CallInv
  <2>. QED  BY <2>1 DEF Capabilities
<1>. QED  BY <1>1, Invariance, PTL

\* A capability never leaves the server its own skill names.
THEOREM CallsStayOnTheirServer == Spec => []OneServerPerCall
<1>1. IInv => OneServerPerCall
  BY DEF IInv, CallInv, Elsewhere, OneServerPerCall
<1>. QED  BY <1>1, Invariance, PTL

\* A closed provider leaves no session and no request behind.
THEOREM ClosedIsClosed == Spec => []NothingAfterClose
<1>1. IInv => NothingAfterClose
  BY DEF IInv
<1>. QED  BY <1>1, Invariance, PTL
==============================================================================
