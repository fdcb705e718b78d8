-------------------------- MODULE GmailCredentials --------------------------
(***************************************************************************)
(* The Google credentials of the Gmail MCP server.                         *)
(*                                                                         *)
(* Calls of the server are tasks of one event loop: each takes the cached  *)
(* access token, refreshes it with the stored grant, or asks the mailbox's *)
(* owner for consent, and every wait for Google or for the owner lets the  *)
(* others run.  The authorise command is a process of its own that shares  *)
(* the file of the grant and the port of the consent listener.             *)
(***************************************************************************)
EXTENDS Integers

CONSTANTS
  Tasks,        \* calls the server works on at once
  Command,      \* the authorise command
  Grants,       \* identifiers of refresh tokens
  Lifetime,     \* ticks an access token lives, counted from its issue
  Margin,       \* _EXPIRY_MARGIN_SECONDS
  MaxDelay,     \* ticks an answer of the token endpoint may be under way
  MaxMishaps    \* bound on revocations and crashes

ASSUME CredentialsAssumption ==
  /\ Command \notin Tasks
  /\ Lifetime \in Nat /\ Margin \in Nat /\ MaxDelay \in Nat /\ MaxMishaps \in Nat
  /\ MaxDelay <= Margin     \* the timeout of the endpoint is below the margin
  /\ {"none", "damaged"} \cap Grants = {}
  /\ "none" \notin Tasks \cup {Command}

None    == "none"
Damaged == "damaged"
Actors  == Tasks \cup {Command}

NoToken == [left |-> 0, believed |-> 0]
Resting == [stage |-> "resting", grant |-> None, consent |-> FALSE, age |-> 0]

VARIABLES
  file,      \* the stored grant
  newest,    \* the grant of the last consent that was stored
  revoked,   \* grants Google no longer honours
  cache,     \* the server's access token: its life as Google and as we see it
  port,      \* who listens for a redirect
  work,      \* what each call, and the command, is waiting for
  mishaps    \* revocations and crashes so far

credentials == <<file, newest, revoked, cache, port, work, mishaps>>

-----------------------------------------------------------------------------
Live == Grants \ revoked

InUse == {file, newest} \cup {work[a].grant : a \in Actors}

\* mutant: the margin is forgotten
NotExpired(token) == token.believed > 0

\* access_token: the cached token is returned if it lives longer than the margin.
Usable(token) == token.believed > Margin

\* A task that writes the file holds the server's loop.
LoopFree(a) == a \in Tasks => \A c \in Tasks : work[c].stage # "writing"

Turns(a, stage) == work' = [work EXCEPT ![a].stage = stage]
Rests(a)        == work' = [work EXCEPT ![a] = Resting]

\* mutant: a listener that failed keeps its port
Held == port

\* _serve_once serves one request and closes the server, whatever it was.
Freed == None

-----------------------------------------------------------------------------
CredentialsInit ==
  /\ file \in {None} \cup Grants
  /\ newest = file
  /\ revoked = {}
  /\ cache = NoToken
  /\ port = None
  /\ work = [a \in Actors |-> Resting]
  /\ mishaps = 0

\* authorise: the page is opened first; a port already taken fails the call.
AskConsent(a) ==
  \/ /\ port = None
     /\ port' = a
     /\ work' = [work EXCEPT ![a] =
                   [stage |-> "listening", grant |-> None, consent |-> TRUE, age |-> 0]]
  \/ /\ port # None
     /\ Rests(a)
     /\ UNCHANGED port

\* access_token of a call: the stored grant is read and sent for a new token...
StartRefresh(c) ==
  /\ work[c].stage = "resting" /\ LoopFree(c)
  /\ ~Usable(cache)
  /\ file \in Grants
  /\ work' = [work EXCEPT ![c] =
                [stage |-> "posting", grant |-> file, consent |-> FALSE, age |-> 0]]
  /\ UNCHANGED <<file, newest, revoked, cache, port, mishaps>>

\* ... or there is none, and the owner is asked.
StartConsent(c) ==
  /\ work[c].stage = "resting" /\ LoopFree(c)
  /\ ~Usable(cache)
  /\ file \notin Grants
  /\ AskConsent(c)
  /\ UNCHANGED <<file, newest, revoked, cache, mishaps>>

\* The authorise command asks whatever is stored.
StartCommand ==
  /\ work[Command].stage = "resting"
  /\ AskConsent(Command)
  /\ UNCHANGED <<file, newest, revoked, cache, mishaps>>

\* The owner approves the page the listener waits for.
Approve(a) ==
  /\ work[a].stage = "listening" /\ LoopFree(a)
  /\ port' = Freed
  /\ Turns(a, "posting")
  /\ UNCHANGED <<file, newest, revoked, cache, mishaps>>

\* Another request reaches the listener: a refusal, the page of an earlier
\* attempt, whose state does not match, or a browser's own request.
Astray(a) ==
  /\ work[a].stage = "listening" /\ LoopFree(a)
  /\ port' = Freed
  /\ Rests(a)
  /\ UNCHANGED <<file, newest, revoked, cache, mishaps>>

\* Google renews an access token of a grant it honours.
Renew(c) ==
  /\ work[c].stage = "posting" /\ ~work[c].consent
  /\ work[c].grant \in Live
  /\ Turns(c, "answered")
  /\ UNCHANGED <<file, newest, revoked, cache, port, mishaps>>

\* Google trades a code for a new grant and its first access token.
Trade(a, g) ==
  /\ work[a].stage = "posting" /\ work[a].consent
  /\ g \in Grants \ InUse
  /\ revoked' = revoked \ {g}
  /\ work' = [work EXCEPT ![a].stage = "answered", ![a].grant = g]
  /\ UNCHANGED <<file, newest, cache, port, mishaps>>

\* Any answer but 200 to a refresh, a revoked grant or an overload, is taken
\* for a revoked grant.
Refuse(c) ==
  /\ work[c].stage = "posting" /\ ~work[c].consent /\ LoopFree(c)
  /\ AskConsent(c)
  /\ UNCHANGED <<file, newest, revoked, cache, mishaps>>

\* The transport fails, on either way, or a code is refused: the call fails.
Lose(a) ==
  /\ work[a].stage \in {"posting", "answered"} /\ LoopFree(a)
  /\ Rests(a)
  /\ UNCHANGED <<file, newest, revoked, cache, port, mishaps>>

\* _store truncates the file...
BeginStore(a) ==
  /\ work[a].stage = "answered" /\ LoopFree(a)
  /\ file' = Damaged
  /\ Turns(a, "writing")
  /\ UNCHANGED <<newest, revoked, cache, port, mishaps>>

\* _accept: the expiry is counted from the arrival of the answer.
Accepted(age) == [left |-> IF age < Lifetime THEN Lifetime - age ELSE 0, believed |-> Lifetime]

\* What a write leaves: over the write of another process since the truncation,
\* the tail of a longer text may stay.
Written(grant) == {grant} \cup (IF file = Damaged THEN {} ELSE {Damaged})

\* ... writes it, and the token is kept.
FinishStore(a) ==
  /\ work[a].stage = "writing"
  /\ file' \in Written(work[a].grant)
  /\ newest' = IF work[a].consent THEN work[a].grant ELSE newest
  /\ cache' = IF a \in Tasks THEN Accepted(work[a].age) ELSE cache
  /\ Rests(a)
  /\ UNCHANGED <<revoked, port, mishaps>>

\* Time passes for tokens and for answers under way.
Tick ==
  /\ \A a \in Actors : work[a].stage \in {"answered", "writing"} => work[a].age < MaxDelay
  /\ cache' = [left |-> IF cache.left > 0 THEN cache.left - 1 ELSE 0,
               believed |-> IF cache.believed > 0 THEN cache.believed - 1 ELSE 0]
  /\ work' = [a \in Actors |-> IF work[a].stage \in {"answered", "writing"}
                               THEN [work[a] EXCEPT !.age = @ + 1] ELSE work[a]]
  /\ UNCHANGED <<file, newest, revoked, port, mishaps>>

\* The owner withdraws the access of the application.
Revoke ==
  /\ mishaps < MaxMishaps
  /\ revoked' = Grants
  /\ mishaps' = mishaps + 1
  /\ UNCHANGED <<file, newest, cache, port, work>>

\* A process ends, and with it what it held in memory.
Crash(process) ==
  /\ mishaps < MaxMishaps
  /\ mishaps' = mishaps + 1
  /\ cache' = IF process = Tasks THEN NoToken ELSE cache
  /\ port' = IF port \in process THEN None ELSE port
  /\ work' = [a \in Actors |-> IF a \in process THEN Resting ELSE work[a]]
  /\ UNCHANGED <<file, newest, revoked>>

CredentialsNext ==
  \/ \E c \in Tasks : StartRefresh(c) \/ StartConsent(c) \/ Renew(c) \/ Refuse(c)
  \/ StartCommand
  \/ \E a \in Actors : Approve(a) \/ Astray(a) \/ Lose(a) \/ BeginStore(a) \/ FinishStore(a)
  \/ \E a \in Actors, g \in Grants : Trade(a, g)
  \/ Tick
  \/ Revoke
  \/ Crash(Tasks)
  \/ Crash({Command})

CredentialsSpec == CredentialsInit /\ [][CredentialsNext]_credentials

\* Calls keep coming; the owner, asked again and again, approves some time, and
\* Google, asked again and again, answers some time.
CredentialsFairSpec ==
  /\ CredentialsSpec
  /\ WF_credentials(Tick)
  /\ WF_credentials(\E c \in Tasks : StartRefresh(c) \/ StartConsent(c))
  /\ SF_credentials(\E c \in Tasks : Refuse(c))
  /\ WF_credentials(\E a \in Actors : FinishStore(a))
  /\ \A a \in Actors : WF_credentials(Lose(a) \/ BeginStore(a))   \* the timeout
  /\ SF_credentials(\E a \in Actors : Approve(a))
  /\ SF_credentials(\E a \in Actors, g \in Grants : Trade(a, g))
  /\ SF_credentials(\E a \in Actors : work[a].consent /\ BeginStore(a))

-----------------------------------------------------------------------------
(* Properties. *)

Work == [stage : {"resting", "listening", "posting", "answered", "writing"},
         grant : Grants \cup {None}, consent : BOOLEAN, age : 0 .. MaxDelay]

\* Types; one process listens, and who holds the port is waiting for it; one
\* task of the server writes at a time.
CredentialsTypeOK ==
  /\ file \in Grants \cup {None, Damaged}
  /\ newest \in Grants \cup {None}
  /\ revoked \subseteq Grants
  /\ cache \in [left : 0 .. Lifetime, believed : 0 .. Lifetime]
  /\ port \in Actors \cup {None}
  /\ work \in [Actors -> Work]
  /\ mishaps \in 0 .. MaxMishaps
  /\ \A a \in Actors : port = a <=> work[a].stage = "listening"
  /\ \A c, d \in Tasks : work[c].stage = "writing" /\ work[d].stage = "writing" => c = d

\* "Return a token that is valid now": a token given from the cache is one Google
\* still takes, although its expiry was counted from a late answer.
GivenTokenIsAlive == Usable(cache) => cache.left > 0

\* "A revoked or expired grant is recoverable [...] rather than leaving the agent
\* permanently unusable": whatever happened to the grant or its file, there is a
\* live grant again.
ConsentIsRecoverable == (file \notin Live) ~> (file \in Live)

\* "Ask the person to approve access, then keep the grant": the stored grant is
\* the one of the last consent.
LatestGrantIsKept == file \in Grants => file = newest

\* "Run this once, approve, and the server refreshes the grant on its own from
\* then on": the server asks only if it has no grant Google honours.
ConsentOnlyWhenNeeded ==
  [][\A c \in Tasks : work[c].stage # "listening" /\ work'[c].stage = "listening"
                          => file \notin Live]_credentials
=============================================================================
