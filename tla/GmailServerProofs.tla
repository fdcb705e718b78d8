-------------------------- MODULE GmailServerProofs --------------------------
(***************************************************************************)
(* Theorems about the Gmail server: its mailbox (GmailMailbox), for both   *)
(* dialects, any number of callers and attempts, and whatever the owner    *)
(* does in Gmail meanwhile; and its credentials (GmailCredentials), for    *)
(* any number of tasks, any lifetime of a token and any delay within the   *)
(* margin.                                                                 *)
(***************************************************************************)
EXTENDS GmailMailbox, GmailCredentials, TLAPS

-----------------------------------------------------------------------------
(* The mailbox. *)

CallType ==
  [request : Requests, step : {"read", "write", "reread", "over"}, tries : Nat, effects : {0, 1},
   told : {"idle", "nothing", "done", "existing", "refused", "failed"}]

\* A call has acted only when it is over or reads its delivery back; while it is
\* in progress its caller has heard nothing, or that the connection broke.
Sound(call) ==
  /\ call.step \in {"read", "write"} => call.effects = 0
  /\ call.step = "reread" => call.effects = IF call.request.op = "send" THEN 1 ELSE 0
  /\ call.step # "over" => call.told \in {"nothing", "failed"}
  /\ call.step = "over" => call.told # "nothing"

CInv ==
  /\ calls \in [Callers -> CallType]
  /\ \A c \in Callers : Sound(calls[c])

StepNames == {"read", "write", "reread"}

-----------------------------------------------------------------------------
(* The three ways in which a step changes a call. *)

LEMMA Concluding ==
  ASSUME CInv, NEW c \in Callers, ~At(c, "over"),
         NEW n \in {0, 1}, calls[c].effects <= n,
         NEW answer \in Promised!TrueAfter(n), answer \in Promised!Answers,
         Conclude(c, n, answer)
  PROVE  CInv' /\ [Promised!Next]_Promised!vars
<1> DEFINE old == calls[c]
           new == [old EXCEPT !.step = "over", !.tries = 0, !.effects = n,
                              !.told = IF old.told = "nothing" THEN answer ELSE old.told]
<1>1. old \in CallType /\ Sound(old)
  BY DEF CInv
<1>2. calls' = [calls EXCEPT ![c] = new]
  BY DEF Conclude
<1>3. new \in CallType
  BY <1>1 DEF CallType, Promised!Answers
<1>4. /\ new.step = "over" /\ new.effects = n
      /\ new.told = IF old.told = "nothing" THEN answer ELSE old.told
  BY <1>1 DEF CallType
<1>5. old.told \in {"nothing", "failed"} /\ old.effects \in {0, 1}
  BY <1>1 DEF Sound, At, CallType
<1>6. Sound(new)
  BY <1>4, <1>5 DEF Sound, Promised!Answers
<1>7. CInv'
  BY <1>2, <1>3, <1>6 DEF CInv
<1>8. /\ [k \in Callers |-> calls'[k].effects] =
           [[k \in Callers |-> calls[k].effects] EXCEPT ![c] = n]
      /\ [k \in Callers |-> calls'[k].told] =
           [[k \in Callers |-> calls[k].told] EXCEPT ![c] = new.told]
  BY <1>2, <1>4 DEF CInv
<1>9. CASE old.told = "nothing"
  <2>1. new.told = answer
    BY <1>4, <1>9
  <2>2. n \in old.effects .. 1
    BY <1>5
  <2>3. Promised!Answer(c)
    BY <1>8, <1>9, <2>1, <2>2 DEF Promised!Answer
  <2> QED
    BY <1>7, <2>3 DEF Promised!Next
<1>10. CASE old.told = "failed" /\ old.effects = 0 /\ n = 1
  <2>1. [k \in Callers |-> calls'[k].told] = [k \in Callers |-> calls[k].told]
    BY <1>2, <1>4, <1>10 DEF CInv
  <2>2. Promised!Act(c)
    BY <1>8, <1>10, <2>1 DEF Promised!Act
  <2> QED
    BY <1>7, <2>2 DEF Promised!Next
<1>11. CASE old.told = "failed" /\ old.effects = n
  <2>1. /\ [k \in Callers |-> calls'[k].told] = [k \in Callers |-> calls[k].told]
        /\ [k \in Callers |-> calls'[k].effects] = [k \in Callers |-> calls[k].effects]
    BY <1>2, <1>4, <1>11 DEF CInv
  <2> QED
    BY <1>7, <2>1 DEF Promised!vars
<1> QED
  BY <1>5, <1>9, <1>10, <1>11

LEMMA Moving ==
  ASSUME CInv, NEW c \in Callers, ~At(c, "over"), NEW step \in StepNames,
         NEW n \in {0, 1}, calls[c].effects <= n,
         n = IF step = "reread" /\ calls[c].request.op = "send" THEN 1 ELSE 0,
         MoveTo(c, step, n)
  PROVE  CInv' /\ [Promised!Next]_Promised!vars
<1> DEFINE old == calls[c]
           new == [old EXCEPT !.step = step, !.tries = 0, !.effects = n]
<1>1. old \in CallType /\ Sound(old)
  BY DEF CInv
<1>2. calls' = [calls EXCEPT ![c] = new]
  BY DEF MoveTo
<1>3. new \in CallType
  BY <1>1 DEF CallType, StepNames
<1>4. /\ new.step = step /\ new.effects = n
      /\ new.told = old.told /\ new.request = old.request
  BY <1>1 DEF CallType
<1>5. old.told \in {"nothing", "failed"} /\ old.effects \in {0, 1}
  BY <1>1 DEF Sound, At, CallType
<1>6. Sound(new)
  BY <1>4, <1>5 DEF Sound, StepNames
<1>7. CInv'
  BY <1>2, <1>3, <1>6 DEF CInv
<1>8. /\ [k \in Callers |-> calls'[k].effects] =
           [[k \in Callers |-> calls[k].effects] EXCEPT ![c] = n]
      /\ [k \in Callers |-> calls'[k].told] = [k \in Callers |-> calls[k].told]
  BY <1>2, <1>4 DEF CInv
<1>9. CASE old.effects = 0 /\ n = 1
  <2>1. Promised!Act(c)
    BY <1>5, <1>8, <1>9 DEF Promised!Act
  <2> QED
    BY <1>7, <2>1 DEF Promised!Next
<1>10. CASE old.effects = n
  <2>1. [k \in Callers |-> calls'[k].effects] = [k \in Callers |-> calls[k].effects]
    BY <1>2, <1>4, <1>10 DEF CInv
  <2> QED
    BY <1>7, <1>8, <2>1 DEF Promised!vars
<1> QED
  BY <1>5, <1>9, <1>10

\* A lost attempt at a write ends the call, whatever Gmail did with it.
LEMMA Failing ==
  ASSUME CInv, NEW c \in Callers, ~At(c, "over"), NEW n \in {0, 1}, calls[c].effects <= n,
         n = calls[c].effects \/ At(c, "write"),
         Unanswered(c, n)
  PROVE  CInv' /\ [Promised!Next]_Promised!vars
<1>1. "failed" \in Promised!TrueAfter(n) /\ "failed" \in Promised!Answers
  BY DEF Promised!TrueAfter, Promised!Answers
<1>2. CASE Conclude(c, n, "failed")
  BY <1>1, <1>2, Concluding
<1>3. CASE ~Conclude(c, n, "failed")
  <2> DEFINE old == calls[c]
  <2>1. old \in CallType /\ Sound(old)
    BY DEF CInv
  <2>2. old.tries \in Nat /\ old.tries + 1 < Tries(c, old.step)
    BY <1>3, <2>1 DEF Unanswered, CallType
  <2>3. \E j \in Nat : calls' = [calls EXCEPT ![c] = [old EXCEPT !.tries = j, !.effects = n]]
    <3>1. old.tries + 1 \in Nat
      BY <2>2
    <3>2. calls' = [calls EXCEPT ![c] = [old EXCEPT !.tries = old.tries + 1, !.effects = n]]
      BY <1>3 DEF Unanswered
    <3> QED
      BY <3>1, <3>2, Zenon
  <2>4. PICK j \in Nat : calls' = [calls EXCEPT ![c] = [old EXCEPT !.tries = j, !.effects = n]]
    BY <2>3
  <2> DEFINE new == [old EXCEPT !.tries = j, !.effects = n]
  <2>5. old.step # "write"
    BY <2>1, <2>2 DEF Tries, CallType
  <2>6. n = old.effects
    BY <2>5 DEF At
  <2>7. /\ new \in CallType
        /\ new.step = old.step /\ new.effects = old.effects
        /\ new.told = old.told /\ new.request = old.request
    BY <2>1, <2>6 DEF CallType
  <2>8. Sound(new)
    BY <2>1, <2>7 DEF Sound
  <2>9. CInv'
    BY <2>4, <2>7, <2>8 DEF CInv
  <2>10. /\ [k \in Callers |-> calls'[k].told] = [k \in Callers |-> calls[k].told]
        /\ [k \in Callers |-> calls'[k].effects] = [k \in Callers |-> calls[k].effects]
    BY <2>4, <2>7 DEF CInv
  <2> QED
    BY <2>9, <2>10 DEF Promised!vars
<1> QED
  BY <1>2, <1>3

\* Gmail and its owner change no call.
LEMMA CallsRest ==
  ASSUME CInv, UNCHANGED calls
  PROVE  CInv' /\ [Promised!Next]_Promised!vars
BY DEF CInv, Promised!vars

-----------------------------------------------------------------------------
(* The steps. *)

LEMMA BeginKeeps ==
  ASSUME CInv, NEW c \in Callers, NEW r \in Requests, Begin(c, r)
  PROVE  CInv' /\ [Promised!Next]_Promised!vars
<1> DEFINE new == [NoCall EXCEPT !.request = r,
                                 !.step = IF ReadsFirst(c, r.op) THEN "read" ELSE "write",
                                 !.told = "nothing"]
<1>1. calls' = [calls EXCEPT ![c] = new]
  BY DEF Begin
<1>2. /\ new \in CallType
      /\ new.step \in {"read", "write"} /\ new.effects = 0 /\ new.told = "nothing"
  BY DEF NoCall, CallType
<1> HIDE DEF new
<1>3. CInv'
  BY <1>1, <1>2 DEF CInv, Sound
<1>4. /\ [k \in Callers |-> calls'[k].effects] =
           [[k \in Callers |-> calls[k].effects] EXCEPT ![c] = 0]
      /\ [k \in Callers |-> calls'[k].told] =
           [[k \in Callers |-> calls[k].told] EXCEPT ![c] = "nothing"]
  BY <1>1, <1>2 DEF CInv
<1>5. calls[c].told # "nothing"
  BY DEF CInv, Begin, At, Sound
<1>6. Promised!Begin(c)
  BY <1>4, <1>5 DEF Promised!Begin
<1> QED
  BY <1>3, <1>6 DEF Promised!Next

LEMMA ConnectionKeeps ==
  ASSUME CInv, NEW c \in Callers, LoseConnection(c)
  PROVE  CInv' /\ [Promised!Next]_Promised!vars
<1> DEFINE old == calls[c]
           new == [old EXCEPT !.told = "failed"]
<1>1. old \in CallType /\ Sound(old) /\ old.told = "nothing" /\ old.step # "over"
  BY DEF CInv, LoseConnection, At
<1>2. calls' = [calls EXCEPT ![c] = new]
  BY DEF LoseConnection
<1>3. /\ new \in CallType /\ new.told = "failed"
      /\ new.step = old.step /\ new.effects = old.effects /\ new.request = old.request
  BY <1>1 DEF CallType
<1>4. CInv'
  BY <1>1, <1>2, <1>3 DEF CInv, Sound
<1>5. /\ [k \in Callers |-> calls'[k].effects] =
           [[k \in Callers |-> calls[k].effects] EXCEPT ![c] = old.effects]
      /\ [k \in Callers |-> calls'[k].told] =
           [[k \in Callers |-> calls[k].told] EXCEPT ![c] = "failed"]
  BY <1>2, <1>3 DEF CInv
<1>6. old.effects \in old.effects .. 1 /\ "failed" \in Promised!TrueAfter(old.effects)
  BY <1>1 DEF CallType, Promised!TrueAfter
<1>7. Promised!Answer(c)
  BY <1>1, <1>5, <1>6 DEF Promised!Answer
<1> QED
  BY <1>4, <1>7 DEF Promised!Next

LEMMA ProgressKeeps ==
  ASSUME CInv, NEW c \in Callers, Progress(c)
  PROVE  CInv' /\ [Promised!Next]_Promised!vars
<1> DEFINE n == calls[c].effects
<1>1. /\ n \in {0, 1}
      /\ calls[c].step \in {"read", "write"} => n = 0
      /\ calls[c].step = "reread" => n = IF calls[c].request.op = "send" THEN 1 ELSE 0
  BY DEF CInv, CallType, Sound
<1>2. \A m \in {0, 1} : "failed" \in Promised!TrueAfter(m) /\ "failed" \in Promised!Answers
  BY DEF Promised!TrueAfter, Promised!Answers
<1>3. /\ "existing" \in Promised!TrueAfter(0) /\ "refused" \in Promised!TrueAfter(0)
      /\ "done" \in Promised!TrueAfter(1)
      /\ {"existing", "refused", "done"} \subseteq Promised!Answers
  BY DEF Promised!TrueAfter, Promised!Answers
<1>4. CASE LoseRequest(c)
  BY <1>1, <1>4, Failing DEF LoseRequest
<1>5. CASE Deny(c)
  BY <1>1, <1>2, <1>5, Concluding DEF Deny
<1>6. CASE LoseAnswer(c)
  <2>1. At(c, "write") /\ ~At(c, "over") /\ n = 0 /\ n + 1 = 1
    BY <1>1, <1>6 DEF LoseAnswer, At
  <2> QED
    BY <1>6, <2>1, Failing DEF LoseAnswer
<1>7. CASE FindLabel(c)
  <2>1. ~At(c, "over") /\ n = 0 /\ Conclude(c, 0, "existing")
    BY <1>1, <1>7 DEF FindLabel, At
  <2> QED
    BY <1>3, <2>1, Concluding
<1>8. CASE FindNoLabel(c)
  <2>1. ~At(c, "over") /\ n = 0 /\ MoveTo(c, "write", 0)
    BY <1>1, <1>8 DEF FindNoLabel, At
  <2> QED
    BY <2>1, Moving DEF StepNames
<1>9. CASE RequireLabel(c)
  <2>1. ~At(c, "over") /\ n = 0 /\ (MoveTo(c, "write", 0) \/ Conclude(c, 0, "refused"))
    BY <1>1, <1>9 DEF RequireLabel, At
  <2>2. CASE MoveTo(c, "write", 0)
    BY <2>1, <2>2, Moving DEF StepNames
  <2>3. CASE Conclude(c, 0, "refused")
    BY <1>3, <2>1, <2>3, Concluding
  <2> QED
    BY <2>1, <2>2, <2>3
<1>10. CASE RefuseUnavailable(c)
  <2>1. ~At(c, "over") /\ n = 0 /\ Conclude(c, 0, "refused")
    BY <1>1, <1>10 DEF RefuseUnavailable, At
  <2> QED
    BY <1>3, <2>1, Concluding
<1>11. CASE Write(c)
  <2>1. ~At(c, "over") /\ n = 0 /\ n + 1 = 1
    BY <1>1, <1>11 DEF Write, At
  <2>2. CASE calls[c].request.op = "send"
    <3>1. MoveTo(c, "reread", 1)
      BY <1>11, <2>1, <2>2 DEF Write
    <3> QED
      BY <2>1, <2>2, <3>1, Moving DEF StepNames
  <2>3. CASE calls[c].request.op # "send"
    <3>1. Conclude(c, 1, "done")
      BY <1>11, <2>1, <2>3 DEF Write
    <3> QED
      BY <1>3, <2>1, <3>1, Concluding
  <2> QED
    BY <2>2, <2>3
<1>12. CASE WriteRefused(c)
  <2>1. ~At(c, "over") /\ n = 0
    BY <1>1, <1>12 DEF WriteRefused, At
  <2>2. \/ calls[c].request.op = "create_label" /\ MoveTo(c, "reread", 0)
        \/ Conclude(c, 0, "refused")
    BY <1>12, <2>1 DEF WriteRefused, Conflict
  <2>3. CASE calls[c].request.op = "create_label" /\ MoveTo(c, "reread", 0)
    BY <2>1, <2>3, Moving DEF StepNames
  <2>4. CASE Conclude(c, 0, "refused")
    BY <1>3, <2>1, <2>4, Concluding
  <2> QED
    BY <2>2, <2>3, <2>4
<1>13. CASE MissExisting(c)
  <2>1. ~At(c, "over") /\ n = 0 /\ Conclude(c, 0, "refused")
    BY <1>1, <1>13 DEF MissExisting, At
  <2> QED
    BY <1>3, <2>1, Concluding
<1>14. CASE ReadBack(c)
  <2>1. ~At(c, "over") /\ n = 1 /\ Conclude(c, 1, "done")
    BY <1>1, <1>14 DEF ReadBack, At
  <2> QED
    BY <1>3, <2>1, Concluding
<1> QED
  BY <1>4, <1>5, <1>6, <1>7, <1>8, <1>9, <1>10, <1>11, <1>12, <1>13, <1>14 DEF Progress

LEMMA CallsInit == Init => CInv /\ Promised!Init
<1> SUFFICES ASSUME Init PROVE CInv /\ Promised!Init
  OBVIOUS
<1>1. (CHOOSE r \in Requests : TRUE) \in Requests
  BY RequestsAssumption
<1>2. NoCall \in CallType /\ NoCall.effects = 0 /\ NoCall.told = "idle" /\ NoCall.step = "over"
  BY <1>1 DEF NoCall, CallType
<1> QED
  BY <1>2 DEF Init, CInv, Sound, Promised!Init

LEMMA CallsStep ==
  ASSUME CInv, [Next]_vars
  PROVE  CInv' /\ [Promised!Next]_Promised!vars
<1>1. CASE Next
  <2>1. ASSUME NEW name \in OwnerNames, OwnerMakes(name)
        PROVE  CInv' /\ [Promised!Next]_Promised!vars
    BY <2>1, CallsRest DEF OwnerMakes
  <2>2. ASSUME NEW l \in alive \ SystemLabels, OwnerDrops(l)
        PROVE  CInv' /\ [Promised!Next]_Promised!vars
    BY <2>2, CallsRest DEF OwnerDrops
  <2> QED
    BY <1>1, <2>1, <2>2, BeginKeeps, ConnectionKeeps, ProgressKeeps DEF Next
<1>2. CASE UNCHANGED vars
  BY <1>2, CallsRest DEF vars
<1> QED
  BY <1>1, <1>2

\* Calls on the mailbox keep the promises of MailCalls (CallsKeepPromises):
\* GmailApiClient never retries a write, and every answer is given where the
\* code knows whether the call acted.
THEOREM PromisesKept == Spec => CallsKeepPromises
<1>1. Init => CInv /\ Promised!Init
  BY CallsInit
<1>2. CInv /\ [Next]_vars => CInv' /\ [Promised!Next]_Promised!vars
  BY CallsStep
<1> QED
  BY <1>1, <1>2, PTL DEF Spec, CallsKeepPromises, Promised!Spec

-----------------------------------------------------------------------------
(* System labels. *)

\* A deletion under way passed require_deletable, or is never sent.
DeletesAllowed ==
  \A c \in Callers :
    At(c, "write") /\ calls[c].request.op = "delete_label" =>
      Unavailable(c, "delete_label") \/ calls[c].request.label \notin SystemLabels

SInv == CInv /\ SystemLabelsSurvive /\ DeletesAllowed

LEMMA AppliedKeepsSystem ==
  ASSUME SystemLabelsSurvive, NEW r \in Requests, Apply(r),
         r.op = "delete_label" => r.label \notin SystemLabels
  PROVE  SystemLabelsSurvive'
<1>1. r.op \in Ops
  BY RequestsAssumption DEF Request
<1>2. CASE r.op = "create_label"
  BY <1>2 DEF Apply, Make, SystemLabelsSurvive
<1>3. CASE r.op = "delete_label"
  BY <1>3 DEF Apply, Drop, SystemLabelsSurvive
<1>4. CASE r.op \notin {"create_label", "delete_label"}
  BY <1>4 DEF Apply, Modify, SystemLabelsSurvive
<1> QED
  BY <1>2, <1>3, <1>4

\* Calls other than the one that moves stay where they are, and a call reaches
\* its write only through the checks before it.
LEMMA AllowedStays ==
  ASSUME CInv, CInv', DeletesAllowed, NEW c \in Callers,
         \A k \in Callers \ {c} : calls'[k] = calls[k],
         At(c, "write")' /\ calls'[c].request.op = "delete_label" =>
           Unavailable(c, "delete_label") \/ calls'[c].request.label \notin SystemLabels
  PROVE  DeletesAllowed'
BY DEF DeletesAllowed, At

(* What a step of its own makes of a call: it is tried again, or moves on; and
   before it deletes, the label was looked at. *)
LEMMA OwnSteps ==
  ASSUME CInv, NEW c \in Callers, Progress(c)
  PROVE  /\ \A k \in Callers \ {c} : calls'[k] = calls[k]
         /\ calls'[c].request = calls[c].request
         /\ \/ calls'[c].tries = 0
            \/ /\ calls[c].tries + 1 < Tries(c, calls[c].step)
               /\ calls'[c].tries = calls[c].tries + 1
         /\ calls'[c].step = "write" =>
              \/ calls[c].step = "write"
              \/ calls[c].request.op = "create_label"
              \/ Deletable(calls[c].request)
<1> DEFINE Goes == /\ \A k \in Callers \ {c} : calls'[k] = calls[k]
                   /\ calls'[c].request = calls[c].request
           Restarts == calls'[c].tries = 0
<1>1. calls \in [Callers -> CallType] /\ calls[c] \in CallType
  BY DEF CInv
<1>2. ASSUME NEW n, NEW answer, Conclude(c, n, answer)
      PROVE  Goes /\ Restarts /\ calls'[c].step = "over"
  BY <1>1, <1>2 DEF Conclude, CallType
<1>3. ASSUME NEW n, NEW step, MoveTo(c, step, n)
      PROVE  Goes /\ Restarts /\ calls'[c].step = step
  BY <1>1, <1>3 DEF MoveTo, CallType
<1>4. ASSUME NEW n, Unanswered(c, n)
      PROVE  /\ Goes /\ calls'[c].step \in {"over", calls[c].step}
             /\ Restarts \/ (/\ calls[c].tries + 1 < Tries(c, calls[c].step)
                             /\ calls'[c].tries = calls[c].tries + 1)
  <2>1. CASE calls[c].tries + 1 < Tries(c, calls[c].step)
    BY <1>1, <1>4, <2>1 DEF Unanswered, CallType
  <2>2. CASE ~(calls[c].tries + 1 < Tries(c, calls[c].step))
    BY <1>2, <1>4, <2>2 DEF Unanswered
  <2> QED
    BY <2>1, <2>2
<1> HIDE DEF Goes, Restarts
<1>5. CASE LoseRequest(c) \/ LoseAnswer(c)
  <2>1. \E n : Unanswered(c, n)
    BY <1>5 DEF LoseRequest, LoseAnswer
  <2> QED
    BY <1>4, <2>1 DEF Goes, Restarts
<1>6. CASE Deny(c) \/ FindLabel(c) \/ RefuseUnavailable(c) \/ MissExisting(c)
  <2>1. \E n, answer : Conclude(c, n, answer)
    BY <1>6 DEF Deny, FindLabel, RefuseUnavailable, MissExisting
  <2> QED
    BY <1>2, <2>1 DEF Goes, Restarts
<1>7. CASE FindNoLabel(c)
  BY <1>3, <1>7 DEF FindNoLabel, Goes, Restarts
<1>8. CASE RequireLabel(c)
  BY <1>2, <1>3, <1>8 DEF RequireLabel, Goes, Restarts
<1>9. CASE Write(c) \/ WriteRefused(c)
  <2>1. (\E n : MoveTo(c, "reread", n)) \/ \E n, answer : Conclude(c, n, answer)
    BY <1>9 DEF Write, WriteRefused, Conflict
  <2> QED
    BY <1>2, <1>3, <2>1 DEF Goes, Restarts
<1>10. CASE ReadBack(c)
  <2>1. \E n, answer : Conclude(c, n, answer)
    BY <1>10 DEF ReadBack
  <2> QED
    BY <1>2, <2>1 DEF Goes, Restarts
<1> QED
  BY <1>5, <1>6, <1>7, <1>8, <1>9, <1>10 DEF Progress

LEMMA SystemStep ==
  ASSUME SInv, [Next]_vars
  PROVE  SInv'
<1>1. CInv'
  BY CallsStep DEF SInv
<1>2. SystemLabelsSurvive /\ DeletesAllowed /\ CInv
  BY DEF SInv
<1>3. ASSUME NEW c \in Callers, NEW r \in Requests, Begin(c, r)
      PROVE  SystemLabelsSurvive' /\ DeletesAllowed'
  <2> DEFINE new == [NoCall EXCEPT !.request = r,
                                   !.step = IF ReadsFirst(c, r.op) THEN "read" ELSE "write",
                                   !.told = "nothing"]
  <2>1. calls' = [calls EXCEPT ![c] = new] /\ new.request = r
    BY <1>3 DEF Begin, NoCall
  <2>2. new.step = "write" /\ r.op = "delete_label" => Unavailable(c, "delete_label")
    BY DialectAssumption DEF NoCall, ReadsFirst, Unavailable, LabelOps
  <2> HIDE DEF new
  <2>3. /\ \A k \in Callers \ {c} : calls'[k] = calls[k]
        /\ calls'[c] = new
    BY <1>2, <2>1 DEF CInv
  <2>4. DeletesAllowed'
    BY <1>1, <1>2, <2>1, <2>2, <2>3, AllowedStays DEF At
  <2>5. SystemLabelsSurvive'
    BY <1>2, <1>3 DEF Begin, SystemLabelsSurvive
  <2> QED
    BY <2>4, <2>5
<1>4. ASSUME NEW c \in Callers, LoseConnection(c)
      PROVE  SystemLabelsSurvive' /\ DeletesAllowed'
  <2>1. /\ \A k \in Callers \ {c} : calls'[k] = calls[k]
        /\ calls'[c].step = calls[c].step /\ calls'[c].request = calls[c].request
    BY <1>2, <1>4 DEF LoseConnection, CInv, CallType
  <2>2. DeletesAllowed'
    BY <1>1, <1>2, <2>1, AllowedStays DEF At, DeletesAllowed
  <2>3. SystemLabelsSurvive'
    BY <1>2, <1>4 DEF LoseConnection, SystemLabelsSurvive
  <2> QED
    BY <2>2, <2>3
<1>5. ASSUME NEW c \in Callers, Progress(c)
      PROVE  SystemLabelsSurvive' /\ DeletesAllowed'
  <2>1. /\ \A k \in Callers \ {c} : calls'[k] = calls[k]
        /\ calls'[c].request = calls[c].request
        /\ calls'[c].step = "write" =>
             \/ calls[c].step = "write"
             \/ calls[c].request.op = "create_label"
             \/ Deletable(calls[c].request)
    BY <1>2, <1>5, OwnSteps
  <2>2. DeletesAllowed'
    BY <1>1, <1>2, <2>1, AllowedStays DEF At, DeletesAllowed, Deletable
  <2>3. CASE LoseAnswer(c) \/ Write(c)
    <3>1. /\ At(c, "write") /\ ~Unavailable(c, calls[c].request.op)
          /\ Apply(calls[c].request)
      BY <2>3 DEF LoseAnswer, Write
    <3>2. calls[c].request \in Requests
      BY <1>2 DEF CInv, CallType
    <3>3. calls[c].request.op = "delete_label" => calls[c].request.label \notin SystemLabels
      BY <1>2, <3>1 DEF DeletesAllowed
    <3> QED
      BY <1>2, <2>2, <3>1, <3>2, <3>3, AppliedKeepsSystem
  <2>4. CASE ~(LoseAnswer(c) \/ Write(c))
    <3>1. UNCHANGED <<names, alive, carried>>
      BY <1>5, <2>4, Zenon DEF Progress, LoseRequest, Deny, FindLabel, FindNoLabel,
         RequireLabel, RefuseUnavailable, WriteRefused, MissExisting, ReadBack
    <3> QED
      BY <1>2, <2>2, <3>1 DEF SystemLabelsSurvive
  <2> QED
    BY <2>2, <2>3, <2>4
<1>6. ASSUME NEW name \in OwnerNames, OwnerMakes(name)
      PROVE  SystemLabelsSurvive' /\ DeletesAllowed'
  BY <1>2, <1>6 DEF OwnerMakes, Make, SystemLabelsSurvive, DeletesAllowed, At
<1>7. ASSUME NEW l \in alive \ SystemLabels, OwnerDrops(l)
      PROVE  SystemLabelsSurvive' /\ DeletesAllowed'
  BY <1>2, <1>7 DEF OwnerDrops, Drop, SystemLabelsSurvive, DeletesAllowed, At
<1>8. CASE UNCHANGED vars
  BY <1>1, <1>2, <1>8 DEF vars, SInv, SystemLabelsSurvive, DeletesAllowed, At
<1> QED
  BY <1>1, <1>3, <1>4, <1>5, <1>6, <1>7, <1>8 DEF Next, SInv

\* No call deletes a system label (SystemLabelsSurvive): require_deletable
\* stands before every deletion, in the only dialect that has one.
THEOREM SystemLabelsAreKept == Spec => []SystemLabelsSurvive
<1>1. Init => SInv
  <2> SUFFICES ASSUME Init PROVE SInv
    OBVIOUS
  <2>1. CInv
    BY CallsInit
  <2>2. \A c \in Callers : ~At(c, "write")
    BY DEF Init, At, NoCall
  <2>3. SystemLabelsSurvive
    BY DEF Init, SystemLabelsSurvive
  <2> QED
    BY <2>1, <2>2, <2>3 DEF SInv, DeletesAllowed
<1>2. SInv /\ [Next]_vars => SInv'
  BY SystemStep
<1>3. SInv => SystemLabelsSurvive
  BY DEF SInv
<1> QED
  BY <1>1, <1>2, <1>3, PTL DEF Spec

-----------------------------------------------------------------------------
(* Types. *)

MailboxType ==
  /\ names \in Seq(Names)
  /\ alive \subseteq DOMAIN names
  /\ carried \in [Messages -> SUBSET alive]

TriesInv == \A c \in Callers : calls[c].tries < Attempts

TInv == CInv /\ MailboxType /\ TriesInv

LEMMA MakeKeepsTypes ==
  ASSUME MailboxType, NEW name \in Names, Make(name)
  PROVE  MailboxType'
<1>1. /\ names \in Seq(Names) /\ alive \subseteq DOMAIN names
      /\ carried \in [Messages -> SUBSET alive]
  BY DEF MailboxType
<1>2. names' = Append(names, name) /\ alive' = alive \cup {Len(names) + 1} /\ carried' = carried
  BY DEF Make
<1>3. /\ names' \in Seq(Names) /\ DOMAIN names' = 1 .. Len(names) + 1
      /\ DOMAIN names = 1 .. Len(names) /\ Len(names) \in Nat
  BY <1>1, <1>2
<1>4. alive' \subseteq DOMAIN names' /\ alive \subseteq alive'
  BY <1>1, <1>2, <1>3
<1>5. carried' \in [Messages -> SUBSET alive']
  BY <1>1, <1>2, <1>4
<1> QED
  BY <1>3, <1>4, <1>5 DEF MailboxType

LEMMA DropKeepsTypes ==
  ASSUME MailboxType, NEW l, Drop(l)
  PROVE  MailboxType'
BY DEF MailboxType, Drop

LEMMA ApplyKeepsTypes ==
  ASSUME MailboxType, NEW r \in Requests, Apply(r)
  PROVE  MailboxType'
<1>1. r.name \in Names /\ r.message \in Messages
  BY RequestsAssumption DEF Request
<1>2. CASE r.op = "create_label"
  BY <1>1, <1>2, MakeKeepsTypes DEF Apply
<1>3. CASE r.op = "delete_label"
  BY <1>3, DropKeepsTypes DEF Apply
<1>4. CASE r.op \notin {"create_label", "delete_label"}
  <2>1. Modify(r)
    BY <1>4 DEF Apply
  <2> QED
    BY <1>1, <2>1 DEF Modify, MailboxType
<1> QED
  BY <1>2, <1>3, <1>4

LEMMA ProgressKeepsTries ==
  ASSUME CInv, TriesInv, NEW c \in Callers, Progress(c)
  PROVE  TriesInv'
<1>1. /\ \A k \in Callers \ {c} : calls'[k] = calls[k]
      /\ \/ calls'[c].tries = 0
         \/ /\ calls[c].tries + 1 < Tries(c, calls[c].step)
            /\ calls'[c].tries = calls[c].tries + 1
  BY OwnSteps
<1>2. Tries(c, calls[c].step) <= Attempts /\ 0 < Attempts
  BY AttemptsAssumption DEF Tries
<1>3. calls[c].tries \in Nat /\ Tries(c, calls[c].step) \in Nat
  BY AttemptsAssumption DEF CInv, CallType, Tries
<1>4. calls'[c].tries < Attempts
  BY <1>1, <1>2, <1>3, AttemptsAssumption
<1> QED
  BY <1>1, <1>4 DEF TriesInv

LEMMA TypesStep ==
  ASSUME TInv, [Next]_vars
  PROVE  TInv'
<1>1. CInv'
  BY CallsStep DEF TInv
<1>2. CInv /\ MailboxType /\ TriesInv
  BY DEF TInv
<1>3. ASSUME NEW c \in Callers, NEW r \in Requests, Begin(c, r)
      PROVE  MailboxType' /\ TriesInv'
  <2>1. MailboxType'
    BY <1>2, <1>3 DEF Begin, MailboxType
  <2>2. /\ \A k \in Callers \ {c} : calls'[k] = calls[k]
        /\ calls'[c].tries = 0
    BY <1>2, <1>3 DEF Begin, CInv, NoCall
  <2> QED
    BY <1>2, <2>1, <2>2, AttemptsAssumption DEF TriesInv
<1>4. ASSUME NEW c \in Callers, LoseConnection(c)
      PROVE  MailboxType' /\ TriesInv'
  <2>1. MailboxType'
    BY <1>2, <1>4 DEF LoseConnection, MailboxType
  <2>2. /\ \A k \in Callers \ {c} : calls'[k] = calls[k]
        /\ calls'[c].tries = calls[c].tries
    BY <1>2, <1>4 DEF LoseConnection, CInv, CallType
  <2> QED
    BY <1>2, <2>1, <2>2 DEF TriesInv
<1>5. ASSUME NEW c \in Callers, Progress(c)
      PROVE  MailboxType' /\ TriesInv'
  <2>1. CASE LoseAnswer(c) \/ Write(c)
    <3>1. Apply(calls[c].request)
      BY <2>1 DEF LoseAnswer, Write
    <3>2. calls[c].request \in Requests
      BY <1>2 DEF CInv, CallType
    <3> QED
      BY <1>2, <1>5, <3>1, <3>2, ApplyKeepsTypes, ProgressKeepsTries
  <2>2. CASE ~(LoseAnswer(c) \/ Write(c))
    <3>1. UNCHANGED <<names, alive, carried>>
      BY <1>5, <2>2, Zenon DEF Progress, LoseRequest, Deny, FindLabel, FindNoLabel,
         RequireLabel, RefuseUnavailable, WriteRefused, MissExisting, ReadBack
    <3>2. MailboxType'
      BY <1>2, <3>1 DEF MailboxType
    <3> QED
      BY <1>2, <1>5, <3>2, ProgressKeepsTries
  <2> QED
    BY <2>1, <2>2
<1>6. ASSUME NEW name \in OwnerNames, OwnerMakes(name)
      PROVE  MailboxType' /\ TriesInv'
  <2>1. name \in Names /\ Make(name) /\ calls' = calls
    BY <1>6, NamesAssumption DEF OwnerMakes
  <2> QED
    BY <1>2, <2>1, MakeKeepsTypes DEF TriesInv
<1>7. ASSUME NEW l \in alive \ SystemLabels, OwnerDrops(l)
      PROVE  MailboxType' /\ TriesInv'
  BY <1>2, <1>7, DropKeepsTypes DEF OwnerDrops, TriesInv
<1>8. CASE UNCHANGED vars
  BY <1>1, <1>2, <1>8 DEF vars, MailboxType, TriesInv, TInv
<1> QED
  BY <1>1, <1>3, <1>4, <1>5, <1>6, <1>7, <1>8 DEF Next, TInv

\* TypeOK: every message carries labels the mailbox has, and no request is
\* attempted more often than the client allows.
THEOREM TypeCorrect == Spec => []TypeOK
<1>1. Init => TInv
  <2> SUFFICES ASSUME Init PROVE TInv
    OBVIOUS
  <2>1. CInv
    BY CallsInit
  <2>2. MailboxType
    BY NamesAssumption DEF Init, MailboxType, SystemNames, SystemLabels, Inbox, Unread
  <2>3. TriesInv
    <3>1. NoCall.tries = 0
      BY DEF NoCall
    <3>2. \A c \in Callers : calls[c].tries = 0
      BY <3>1 DEF Init
    <3>3. 0 < Attempts
      BY AttemptsAssumption
    <3> QED
      BY <3>2, <3>3 DEF TriesInv
  <2> QED
    BY <2>1, <2>2, <2>3 DEF TInv
<1>2. TInv => TypeOK
  <2> SUFFICES ASSUME TInv PROVE TypeOK
    OBVIOUS
  <2>1. ASSUME NEW c \in Callers PROVE calls[c] \in CallRecord
    <3>1. calls[c] \in CallType /\ calls[c].tries < Attempts
      BY DEF TInv, CInv, TriesInv
    <3>2. calls[c].tries \in Nat /\ calls[c].effects \in Nat
      BY <3>1 DEF CallType
    <3>3. calls[c].tries \in 0 .. Attempts - 1
      BY <3>1, <3>2, AttemptsAssumption
    <3> QED
      BY <3>1, <3>2, <3>3 DEF CallType, CallRecord
  <2> QED
    BY <2>1 DEF TInv, CInv, MailboxType, TypeOK
<1> QED
  BY <1>1, <1>2, TypesStep, PTL DEF Spec

-----------------------------------------------------------------------------
(* The credentials. *)

\* The parts of CredentialsTypeOK, one proof step each.
Shapes ==
  /\ file \in Grants \cup {None, Damaged}
  /\ newest \in Grants \cup {None}
  /\ revoked \subseteq Grants
  /\ cache \in [left : 0 .. Lifetime, believed : 0 .. Lifetime]
  /\ port \in Actors \cup {None}
  /\ work \in [Actors -> Work]
  /\ mishaps \in 0 .. MaxMishaps

Listens == \A a \in Actors : port = a <=> work[a].stage = "listening"

OneWriter == \A c, d \in Tasks : work[c].stage = "writing" /\ work[d].stage = "writing" => c = d

\* Only what a refresh or a code brought is written.
Carried == \A a \in Actors : work[a].stage \in {"answered", "writing"} => work[a].grant \in Grants

\* The two ways to count the life of a token differ by the delay of its answer.
DelayIsBounded == cache.believed - cache.left <= MaxDelay

CredentialsInv == Shapes /\ Listens /\ OneWriter /\ Carried /\ DelayIsBounded

-----------------------------------------------------------------------------
LEMMA Resting_Work == Resting \in Work
  BY CredentialsAssumption DEF Resting, Work, None

LEMMA Init_CredentialsInv == CredentialsInit => CredentialsInv
<1> SUFFICES ASSUME CredentialsInit PROVE CredentialsInv
  OBVIOUS
<1> USE CredentialsAssumption
<1>1. Shapes
  BY Resting_Work DEF CredentialsInit, Shapes, NoToken, None
<1>2. Listens /\ OneWriter /\ Carried
  BY DEF CredentialsInit, Listens, OneWriter, Carried, Resting, Actors, None
<1>3. DelayIsBounded
  BY DEF CredentialsInit, DelayIsBounded, NoToken
<1> QED BY <1>1, <1>2, <1>3 DEF CredentialsInv

\* Asking for consent touches the port and the one who asks.
LEMMA AskConsent_CredentialsInv ==
  ASSUME CredentialsInv, NEW a \in Actors, AskConsent(a), work[a].stage # "listening",
         UNCHANGED <<file, newest, revoked, cache, mishaps>>
  PROVE  CredentialsInv'
<1> USE CredentialsAssumption DEF CredentialsInv
<1> DEFINE Asked == [stage |-> "listening", grant |-> None, consent |-> TRUE, age |-> 0]
<1>1. Asked \in Work
  BY DEF Work, None
<1>2. \/ port = None /\ port' = a /\ work' = [work EXCEPT ![a] = Asked]
      \/ port # None /\ port' = port /\ work' = [work EXCEPT ![a] = Resting]
  BY DEF AskConsent, Rests
<1>3. Shapes'
  BY <1>1, <1>2, Resting_Work DEF Shapes
<1>4. Listens'
  BY <1>2 DEF Listens, Shapes, Resting, None, Actors
<1>5. OneWriter' /\ Carried'
  BY <1>2 DEF OneWriter, Carried, Shapes, Resting, Actors
<1>6. DelayIsBounded'
  BY DEF DelayIsBounded
<1> QED BY <1>3, <1>4, <1>5, <1>6

\* A call or the command that gives up, whatever becomes of its port.
LEMMA Rests_CredentialsInv ==
  ASSUME CredentialsInv, NEW a \in Actors, Rests(a),
         port' = IF work[a].stage = "listening" THEN None ELSE port,
         UNCHANGED <<file, newest, revoked, cache, mishaps>>
  PROVE  CredentialsInv'
<1> USE CredentialsAssumption DEF CredentialsInv
<1>1. Shapes'
  BY Resting_Work DEF Shapes, Rests
<1>2. Listens'
  BY DEF Listens, Shapes, Rests, Resting, None, Actors
<1>3. OneWriter' /\ Carried'
  BY DEF OneWriter, Carried, Shapes, Rests, Resting, Actors
<1>4. DelayIsBounded'
  BY DEF DelayIsBounded
<1> QED BY <1>1, <1>2, <1>3, <1>4

LEMMA Next_CredentialsInv == CredentialsInv /\ [CredentialsNext]_credentials => CredentialsInv'
<1> SUFFICES ASSUME CredentialsInv, [CredentialsNext]_credentials PROVE CredentialsInv'
  OBVIOUS
<1> USE CredentialsAssumption DEF CredentialsInv
<1>1. ASSUME NEW c \in Tasks, StartRefresh(c) PROVE CredentialsInv'
  <2> DEFINE Posted == [stage |-> "posting", grant |-> file, consent |-> FALSE, age |-> 0]
  <2>1. Posted \in Work
    BY <1>1 DEF StartRefresh, Work
  <2>2. Shapes'
    BY <1>1, <2>1 DEF StartRefresh, Shapes, Actors
  <2>3. Listens' /\ OneWriter' /\ Carried' /\ DelayIsBounded'
    BY <1>1 DEF StartRefresh, Shapes, Listens, OneWriter, Carried, DelayIsBounded, Actors
  <2> QED BY <2>2, <2>3
<1>2. ASSUME NEW c \in Tasks, StartConsent(c) PROVE CredentialsInv'
  BY <1>2, AskConsent_CredentialsInv DEF StartConsent, Actors
<1>3. ASSUME NEW c \in Tasks, Renew(c) PROVE CredentialsInv'
  <2>1. Shapes'
    BY <1>3 DEF Renew, Turns, Shapes, Actors, Work
  <2>2. Listens' /\ OneWriter' /\ Carried' /\ DelayIsBounded'
    BY <1>3 DEF Renew, Turns, Live, Shapes, Listens, OneWriter, Carried, DelayIsBounded, Actors, Work
  <2> QED BY <2>1, <2>2
<1>4. ASSUME NEW c \in Tasks, Refuse(c) PROVE CredentialsInv'
  BY <1>4, AskConsent_CredentialsInv DEF Refuse, Actors
<1>5. CASE StartCommand
  BY <1>5, AskConsent_CredentialsInv DEF StartCommand, Actors
<1>6. ASSUME NEW a \in Actors, Approve(a) PROVE CredentialsInv'
  <2>1. Shapes'
    BY <1>6 DEF Approve, Turns, Freed, Shapes, Work
  <2>2. Listens' /\ OneWriter' /\ Carried' /\ DelayIsBounded'
    BY <1>6 DEF Approve, Turns, Freed, None, Shapes, Listens, OneWriter, Carried, DelayIsBounded, Actors, Work
  <2> QED BY <2>1, <2>2
<1>7. ASSUME NEW a \in Actors, Astray(a) PROVE CredentialsInv'
  BY <1>7, Rests_CredentialsInv DEF Astray, Freed
<1>8. ASSUME NEW a \in Actors, Lose(a) PROVE CredentialsInv'
  BY <1>8, Rests_CredentialsInv DEF Lose
<1>9. ASSUME NEW a \in Actors, BeginStore(a) PROVE CredentialsInv'
  <2>1. Shapes'
    BY <1>9 DEF BeginStore, Turns, Shapes, Work
  <2>2. OneWriter'
    BY <1>9 DEF BeginStore, Turns, LoopFree, Shapes, OneWriter, Actors, Work
  <2>3. Listens' /\ Carried' /\ DelayIsBounded'
    BY <1>9 DEF BeginStore, Turns, Shapes, Listens, Carried, DelayIsBounded, Actors, Work
  <2> QED BY <2>1, <2>2, <2>3
<1>10. ASSUME NEW a \in Actors, FinishStore(a) PROVE CredentialsInv'
  <2>1. work[a] \in Work /\ work[a].age \in 0 .. MaxDelay /\ work[a].grant \in Grants
    BY <1>10 DEF FinishStore, Shapes, Carried, Work
  <2>2. /\ Accepted(work[a].age) \in [left : 0 .. Lifetime, believed : 0 .. Lifetime]
        /\ Accepted(work[a].age).believed - Accepted(work[a].age).left <= MaxDelay
    BY <2>1 DEF Accepted
  <2>3. Shapes'
    BY <1>10, <2>1, <2>2, Resting_Work DEF FinishStore, Written, Rests, Shapes
  <2>4. Listens' /\ OneWriter' /\ Carried'
    BY <1>10 DEF FinishStore, Rests, Resting, Shapes, Listens, OneWriter, Carried, Actors
  <2>5. DelayIsBounded'
    BY <1>10, <2>2 DEF FinishStore, DelayIsBounded
  <2> QED BY <2>3, <2>4, <2>5
<1>11. ASSUME NEW a \in Actors, NEW g \in Grants, Trade(a, g) PROVE CredentialsInv'
  <2>1. Shapes'
    <3>1. work[a] \in Work /\ g \in Grants
      BY DEF Shapes
    <3>2. [work[a] EXCEPT !.stage = "answered", !.grant = g] \in Work
      BY <3>1 DEF Work
    <3>3. work' \in [Actors -> Work]
      BY <1>11, <3>2 DEF Trade, Shapes
    <3> QED BY <1>11, <3>3 DEF Trade, Shapes
  <2>2. Listens' /\ OneWriter' /\ Carried' /\ DelayIsBounded'
    BY <1>11 DEF Trade, Shapes, Listens, OneWriter, Carried, DelayIsBounded, Actors, Work
  <2> QED BY <2>1, <2>2
<1>12. CASE Tick
  <2>1. ASSUME NEW a \in Actors PROVE work'[a] \in Work
    <3>1. CASE work[a].stage \in {"answered", "writing"}
      BY <1>12, <3>1 DEF Tick, Shapes, Work
    <3>2. CASE work[a].stage \notin {"answered", "writing"}
      BY <1>12, <3>2 DEF Tick, Shapes
    <3> QED BY <3>1, <3>2
  <2>2. cache' \in [left : 0 .. Lifetime, believed : 0 .. Lifetime]
    BY <1>12 DEF Tick, Shapes
  <2>3. Shapes'
    BY <1>12, <2>1, <2>2 DEF Tick, Shapes
  <2>4. \A a \in Actors : work'[a].stage = work[a].stage /\ work'[a].grant = work[a].grant
    BY <1>12 DEF Tick, Shapes, Work
  <2>5. Listens' /\ OneWriter' /\ Carried'
    BY <1>12, <2>4 DEF Tick, Listens, OneWriter, Carried, Actors
  <2>6. DelayIsBounded'
    BY <1>12 DEF Tick, Shapes, DelayIsBounded
  <2> QED BY <2>3, <2>5, <2>6
<1>13. CASE Revoke
  BY <1>13 DEF Revoke, Shapes, Listens, OneWriter, Carried, DelayIsBounded
<1>14. ASSUME NEW process \in {Tasks, {Command}}, Crash(process) PROVE CredentialsInv'
  <2>1. Shapes'
    BY <1>14, Resting_Work DEF Crash, Shapes, NoToken, None, Actors
  <2>2. Listens'
    BY <1>14 DEF Crash, Shapes, Listens, Resting, None, Actors
  <2>3. OneWriter' /\ Carried' /\ DelayIsBounded'
    BY <1>14 DEF Crash, Shapes, OneWriter, Carried, DelayIsBounded, NoToken, Resting, Actors
  <2> QED BY <2>1, <2>2, <2>3
<1>15. CASE UNCHANGED credentials
  BY <1>15 DEF credentials, Shapes, Listens, OneWriter, Carried, DelayIsBounded
<1> QED
  BY <1>1, <1>2, <1>3, <1>4, <1>5, <1>6, <1>7, <1>8, <1>9, <1>10, <1>11, <1>12, <1>13, <1>14, <1>15
  DEF CredentialsNext

-----------------------------------------------------------------------------
\* Only actual answers are stored, one task of the server writes at a time, and
\* the port belongs to the one who listens, in every reachable state.
THEOREM CredentialsInvariant == CredentialsSpec => []CredentialsInv
  BY Init_CredentialsInv, Next_CredentialsInv, PTL DEF CredentialsSpec

\* Types, the listener and the single writer of the server.
THEOREM CredentialsTypeCorrect == CredentialsSpec => []CredentialsTypeOK
<1>1. CredentialsInv => CredentialsTypeOK
  BY DEF CredentialsInv, Shapes, Listens, OneWriter, CredentialsTypeOK
<1> QED BY CredentialsInvariant, <1>1, PTL

\* access_token gives no token from its cache that Google has let expire, as long
\* as an answer of the token endpoint takes no longer than the margin.
THEOREM GivenTokensAreAlive == CredentialsSpec => []GivenTokenIsAlive
<1>1. CredentialsInv => GivenTokenIsAlive
  BY CredentialsAssumption DEF CredentialsInv, Shapes, DelayIsBounded, GivenTokenIsAlive, Usable
<1> QED BY CredentialsInvariant, <1>1, PTL
=============================================================================
