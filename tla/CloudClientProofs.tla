--------------------------- MODULE CloudClientProofs ---------------------------
(***************************************************************************)
(* Proofs about CloudClient, for all families and stream passwords: what a  *)
(* failure of a call is blamed on, and how many requests a call takes.      *)
(***************************************************************************)
EXTENDS CloudClient, TLAPS

Again == call.stage = "again"
Fallback == IF call.verb = "GET" THEN 1 ELSE 0

\* What is known of a call before it ends.  Its login has not been refused;
\* from the family list on the token was issued during this call, and when such
\* a token is not accepted any more, the server is already to blame.
UnderWay ==
    call.at # "idle" =>
        /\ call.op \in {"setup", "refresh"}
        /\ call.outcome = "none"
        /\ "login_rejected" \notin answers
        /\ call.at = "families" => issued
        /\ call.at = "table" /\ Again => issued
        /\ issued /\ ~alive => excuse # {}
        /\ call.op = "setup" /\ call.at = "oauth" => call.stage # "first"

\* The requests sent by the time the call has come where it is.  Only the
\* login that first falls back to GET is sent twice.
Budget ==
    /\ call.at = "oauth" => call.sent <= (IF Again THEN 3 ELSE 0) + Fallback
    /\ call.at = "families" => call.sent <= IF Again THEN 5 ELSE 1 + Fallback
    /\ call.at = "table" => call.sent <= IF Again THEN 6 ELSE 2 + Fallback
    /\ call.at \in {"families", "table"} => call.verb = client.method
    /\ call.sent <= 7

IInv ==
    /\ TypeOK
    /\ UnderWay
    /\ FailuresAreBlamedRightly
    /\ Budget

Position == {"idle", "oauth", "families", "table"}
Stage == {"setup", "first", "again"}
Verb == {"POST", "GET"}
Outcome == {"none", "ok", "failed", "auth_failed"}
-----------------------------------------------------------------------------
(* What the three ways to change the call make of it.  *)

LEMMA SentCounts ==
    ASSUME NEW n \in 0..MaxCount
    PROVE  Sent(n) \in 0..MaxCount /\ Sent(n) <= n + 1
BY DEF Sent, MaxCount

LEMMA BeginSetsCall ==
    ASSUME NEW op \in {"setup", "refresh"}, NEW at \in Position,
           NEW stage \in Stage, NEW verb \in Verb, Begin(op, at, stage, verb)
    PROVE  /\ call' \in Call
           /\ call'.op = op /\ call'.at = at /\ call'.stage = stage
           /\ call'.verb = verb /\ call'.sent = 0 /\ call'.outcome = "none"
           /\ excuse' = {} /\ answers' = {} /\ issued' = FALSE
BY DEF Begin, Call, Position, Stage, Verb, MaxCount

LEMMA ContinueMovesCall ==
    ASSUME call \in Call, NEW at \in Position, NEW stage \in Stage,
           NEW verb \in Verb, Continue(at, stage, verb)
    PROVE  /\ call' \in Call
           /\ call'.op = call.op /\ call'.outcome = call.outcome
           /\ call'.at = at /\ call'.stage = stage /\ call'.verb = verb
           /\ call'.sent \in Nat /\ call'.sent <= call.sent + 1
<1>1. /\ call.sent \in 0..MaxCount
      /\ call' = [op |-> call.op, at |-> at, stage |-> stage, verb |-> verb,
                  sent |-> Sent(call.sent), outcome |-> call.outcome]
  BY DEF Continue, Call
<1>2. QED
  BY <1>1, SentCounts DEF Call, Position, Stage, Verb

LEMMA EndEndsCall ==
    ASSUME call \in Call, NEW outcome \in Outcome, End(outcome)
    PROVE  /\ call' \in Call
           /\ call'.op = call.op /\ call'.stage = call.stage
           /\ call'.verb = call.verb
           /\ call'.at = "idle" /\ call'.outcome = outcome
           /\ call'.sent \in Nat /\ call'.sent <= call.sent + 1
<1>1. /\ call.sent \in 0..MaxCount
      /\ call' = [op |-> call.op, at |-> "idle", stage |-> call.stage,
                  verb |-> call.verb, sent |-> Sent(call.sent), outcome |-> outcome]
  BY DEF End, Call
<1>2. QED
  BY <1>1, SentCounts DEF Call, Outcome
-----------------------------------------------------------------------------
LEMMA InitEstablishes == Init => IInv
<1> SUFFICES ASSUME Init PROVE IInv
  OBVIOUS
<1>1. client \in Client
  BY DEF Init, NewClient, Client
<1>2. call \in Call
  BY DEF Init, Call, MaxCount
<1>3. TypeOK
  BY <1>1, <1>2 DEF Init, TypeOK
<1>4. UnderWay /\ FailuresAreBlamedRightly /\ Budget
  BY DEF Init, UnderWay, FailuresAreBlamedRightly, Budget
<1>5. QED
  BY <1>3, <1>4 DEF IInv

LEMMA StartSetupKeeps ==
    ASSUME IInv, StartSetup
    PROVE  IInv'
<1>1. /\ client \in Client /\ call \in Call /\ call.sent \in Nat
      /\ call.at \in Position /\ call.stage \in Stage /\ call.verb \in Verb
  BY DEF IInv, TypeOK, Call, Position, Stage, Verb, MaxCount
<1>2. /\ call' \in Call /\ call'.sent = 0 /\ call'.outcome = "none"
      /\ excuse' = {} /\ answers' = {} /\ issued' = FALSE
      /\ call'.op = "setup" /\ call'.at = "oauth" /\ call'.stage = "setup"
      /\ call'.verb = "POST"
  BY BeginSetsCall DEF StartSetup, Position, Stage, Verb
<1>3. TypeOK'
  <2>1. client' \in Client
    BY <1>1 DEF IInv, TypeOK, NewClient, StartSetup, Client, Verb
  <2>2. QED
    BY <1>1, <1>2, <2>1 DEF IInv, TypeOK, NewClient, StartSetup, server, Client
<1>4. UnderWay'
  BY <1>1, <1>2 DEF IInv, TypeOK, UnderWay, Again, StartSetup, server
<1>5. FailuresAreBlamedRightly'
  BY <1>1, <1>2 DEF IInv, TypeOK, UnderWay, Again, FailuresAreBlamedRightly, StartSetup, server
<1>6. Budget'
  BY <1>1, <1>2 DEF IInv, Budget, Again, Fallback, Position, Stage, Verb, Client, NewClient, StartSetup
<1>7. QED
  BY <1>3, <1>4, <1>5, <1>6 DEF IInv

LEMMA ReauthenticateKeeps ==
    ASSUME IInv, Reauthenticate
    PROVE  IInv'
<1>1. /\ client \in Client /\ call \in Call /\ call.sent \in Nat
      /\ call.at \in Position /\ call.stage \in Stage /\ call.verb \in Verb
  BY DEF IInv, TypeOK, Call, Position, Stage, Verb, MaxCount
<1>2. /\ call' \in Call /\ call'.sent = 0 /\ call'.outcome = "none"
      /\ excuse' = {} /\ answers' = {} /\ issued' = FALSE
      /\ call'.op = "setup" /\ call'.at = "oauth" /\ call'.stage = "setup"
      /\ call'.verb = "POST"
  BY BeginSetsCall DEF Reauthenticate, Position, Stage, Verb
<1>3. TypeOK'
  <2>1. client' \in Client
    BY <1>1 DEF IInv, TypeOK, NewClient, Reauthenticate, Client, Verb
  <2>2. QED
    BY <1>1, <1>2, <2>1 DEF IInv, TypeOK, NewClient, Reauthenticate, server, Client
<1>4. UnderWay'
  BY <1>1, <1>2 DEF IInv, TypeOK, UnderWay, Again, Reauthenticate, server
<1>5. FailuresAreBlamedRightly'
  BY <1>1, <1>2 DEF IInv, TypeOK, UnderWay, Again, FailuresAreBlamedRightly, Reauthenticate, server
<1>6. Budget'
  BY <1>1, <1>2 DEF IInv, Budget, Again, Fallback, Position, Stage, Verb, Client, NewClient, Reauthenticate
<1>7. QED
  BY <1>3, <1>4, <1>5, <1>6 DEF IInv

LEMMA StartRefreshKeeps ==
    ASSUME IInv, StartRefresh
    PROVE  IInv'
<1>1. /\ client \in Client /\ call \in Call /\ call.sent \in Nat
      /\ call.at \in Position /\ call.stage \in Stage /\ call.verb \in Verb
  BY DEF IInv, TypeOK, Call, Position, Stage, Verb, MaxCount
<1>2. /\ call' \in Call /\ call'.sent = 0 /\ call'.outcome = "none"
      /\ excuse' = {} /\ answers' = {} /\ issued' = FALSE
      /\ call'.op = "refresh" /\ call'.stage = "first"
      /\ call'.at \in {"oauth", "table"} /\ call'.verb = client.method
  BY <1>1, BeginSetsCall DEF StartRefresh, Client, Position, Stage, Verb
<1>3. TypeOK'
  <2>1. client' \in Client
    BY <1>1 DEF IInv, TypeOK, StartRefresh, Client, Verb
  <2>2. QED
    BY <1>1, <1>2, <2>1 DEF IInv, TypeOK, StartRefresh, server, Client
<1>4. UnderWay'
  BY <1>1, <1>2 DEF IInv, TypeOK, UnderWay, Again, StartRefresh, server
<1>5. FailuresAreBlamedRightly'
  BY <1>1, <1>2 DEF IInv, TypeOK, UnderWay, Again, FailuresAreBlamedRightly, StartRefresh, server
<1>6. Budget'
  BY <1>1, <1>2 DEF IInv, Budget, Again, Fallback, Position, Stage, Verb, Client, StartRefresh
<1>7. QED
  BY <1>3, <1>4, <1>5, <1>6 DEF IInv

LEMMA LoginFaultKeeps ==
    ASSUME IInv, NEW f \in Faults, LoginFault(f)
    PROVE  IInv'
<1>1. /\ client \in Client /\ call \in Call /\ call.sent \in Nat
      /\ call.at \in Position /\ call.stage \in Stage /\ call.verb \in Verb
  BY DEF IInv, TypeOK, Call, Position, Stage, Verb, MaxCount
<1>2. /\ call' \in Call /\ call'.op = call.op
      /\ call'.sent \in Nat /\ call'.sent <= call.sent + 1
      /\ call'.stage = call.stage
      /\ \/ /\ call.verb = "POST" /\ call'.verb = "GET"
            /\ call'.at = "oauth" /\ call'.outcome = call.outcome
         \/ call'.at = "idle" /\ call'.outcome = "failed" /\ call'.verb = call.verb
  BY <1>1, ContinueMovesCall, EndEndsCall
     DEF LoginFault, Reported, Position, Verb, Outcome
<1>3. TypeOK'
  <2>1. client' \in Client
    BY <1>1 DEF IInv, TypeOK, LoginFault, Client, Verb
  <2>2. QED
    BY <1>1, <1>2, <2>1 DEF IInv, TypeOK, LoginFault, server, Client
<1>4. UnderWay'
  BY <1>1, <1>2 DEF IInv, TypeOK, UnderWay, Again, LoginFault, server
<1>5. FailuresAreBlamedRightly'
  BY <1>1, <1>2 DEF IInv, TypeOK, UnderWay, Again, FailuresAreBlamedRightly, LoginFault, server
<1>6. Budget'
  BY <1>1, <1>2 DEF IInv, Budget, Again, Fallback, Position, Stage, Verb, Client, LoginFault
<1>7. QED
  BY <1>3, <1>4, <1>5, <1>6 DEF IInv

LEMMA LoginRejectedKeeps ==
    ASSUME IInv, LoginRejected
    PROVE  IInv'
<1>1. /\ client \in Client /\ call \in Call /\ call.sent \in Nat
      /\ call.at \in Position /\ call.stage \in Stage /\ call.verb \in Verb
  BY DEF IInv, TypeOK, Call, Position, Stage, Verb, MaxCount
<1>2. /\ call' \in Call /\ call'.op = call.op
      /\ call'.sent \in Nat /\ call'.sent <= call.sent + 1
      /\ call'.at = "idle" /\ call'.stage = call.stage /\ call'.verb = call.verb
      /\ call'.outcome = IF call.op = "refresh" \/ call.stage = "setup"
                         THEN "auth_failed" ELSE "failed"
  BY <1>1, EndEndsCall DEF LoginRejected, Reported, Outcome
<1>3. TypeOK'
  <2>1. client' \in Client
    BY <1>1 DEF IInv, TypeOK, LoginRejected, Client, Verb
  <2>2. QED
    BY <1>1, <1>2, <2>1 DEF IInv, TypeOK, LoginRejected, server, Client
<1>4. UnderWay'
  BY <1>1, <1>2 DEF IInv, TypeOK, UnderWay, Again, LoginRejected, server
<1>5. FailuresAreBlamedRightly'
  <2>1. /\ excuse' # {} /\ "login_rejected" \in answers'
        /\ call.op = "refresh" \/ call.stage = "setup"
           \/ (call.op = "setup" /\ call.stage = "again")
    BY <1>1 DEF LoginRejected, IInv, UnderWay, Stage
  <2>2. QED
    BY <1>2, <2>1 DEF FailuresAreBlamedRightly
<1>6. Budget'
  BY <1>1, <1>2 DEF IInv, Budget, Again, Fallback, Position, Stage, Verb, Client, LoginRejected
<1>7. QED
  BY <1>3, <1>4, <1>5, <1>6 DEF IInv

LEMMA LoginAcceptedKeeps ==
    ASSUME IInv, LoginAccepted
    PROVE  IInv'
<1>1. /\ client \in Client /\ call \in Call /\ call.sent \in Nat
      /\ call.at \in Position /\ call.stage \in Stage /\ call.verb \in Verb
  BY DEF IInv, TypeOK, Call, Position, Stage, Verb, MaxCount
<1>2. /\ call' \in Call /\ call'.op = call.op
      /\ call'.sent \in Nat /\ call'.sent <= call.sent + 1
      /\ call'.at = "families" /\ call'.stage = call.stage /\ call'.verb = call.verb
      /\ call'.outcome = call.outcome
  BY <1>1, ContinueMovesCall DEF LoginAccepted, Position
<1>3. TypeOK'
  <2>1. client' \in Client
    BY <1>1 DEF IInv, TypeOK, LoginAccepted, Client, Verb
  <2>2. QED
    BY <1>1, <1>2, <2>1 DEF IInv, TypeOK, LoginAccepted, server, Client
<1>4. UnderWay'
  BY <1>1, <1>2 DEF IInv, TypeOK, UnderWay, Again, LoginAccepted, server
<1>5. FailuresAreBlamedRightly'
  BY <1>1, <1>2 DEF IInv, TypeOK, UnderWay, Again, FailuresAreBlamedRightly, LoginAccepted, server
<1>6. Budget'
  BY <1>1, <1>2 DEF IInv, Budget, Again, Fallback, Position, Stage, Verb, Client, LoginAccepted
<1>7. QED
  BY <1>3, <1>4, <1>5, <1>6 DEF IInv

LEMMA FamiliesFaultKeeps ==
    ASSUME IInv, FamiliesFault
    PROVE  IInv'
<1>1. /\ client \in Client /\ call \in Call /\ call.sent \in Nat
      /\ call.at \in Position /\ call.stage \in Stage /\ call.verb \in Verb
  BY DEF IInv, TypeOK, Call, Position, Stage, Verb, MaxCount
<1>2. /\ call' \in Call /\ call'.op = call.op
      /\ call'.sent \in Nat /\ call'.sent <= call.sent + 1
      /\ call'.at = "idle" /\ call'.stage = call.stage /\ call'.verb = call.verb
      /\ call'.outcome = "failed"
  BY <1>1, EndEndsCall DEF FamiliesFault, Reported, Outcome
<1>3. TypeOK'
  <2>1. client' \in Client
    BY <1>1 DEF IInv, TypeOK, FamiliesFault, Client, Verb
  <2>2. QED
    BY <1>1, <1>2, <2>1 DEF IInv, TypeOK, FamiliesFault, server, Client
<1>4. UnderWay'
  BY <1>1, <1>2 DEF IInv, TypeOK, UnderWay, Again, FamiliesFault, server
<1>5. FailuresAreBlamedRightly'
  BY <1>1, <1>2 DEF IInv, TypeOK, UnderWay, Again, FailuresAreBlamedRightly, FamiliesFault, server
<1>6. Budget'
  BY <1>1, <1>2 DEF IInv, Budget, Again, Fallback, Position, Stage, Verb, Client, FamiliesFault
<1>7. QED
  BY <1>3, <1>4, <1>5, <1>6 DEF IInv

LEMMA FamiliesRejectedKeeps ==
    ASSUME IInv, FamiliesRejected
    PROVE  IInv'
<1>1. /\ client \in Client /\ call \in Call /\ call.sent \in Nat
      /\ call.at \in Position /\ call.stage \in Stage /\ call.verb \in Verb
  BY DEF IInv, TypeOK, Call, Position, Stage, Verb, MaxCount
<1>2. /\ call' \in Call /\ call'.op = call.op
      /\ call'.sent \in Nat /\ call'.sent <= call.sent + 1
      /\ call'.at = "idle" /\ call'.stage = call.stage /\ call'.verb = call.verb
      /\ call'.outcome = "failed"
  BY <1>1, EndEndsCall DEF FamiliesRejected, Reported, Outcome
<1>3. TypeOK'
  <2>1. client' \in Client
    BY <1>1 DEF IInv, TypeOK, FamiliesRejected, Client, Verb
  <2>2. QED
    BY <1>1, <1>2, <2>1 DEF IInv, TypeOK, FamiliesRejected, server, Client
<1>4. UnderWay'
  BY <1>1, <1>2 DEF IInv, TypeOK, UnderWay, Again, FamiliesRejected, server
<1>5. FailuresAreBlamedRightly'
  BY <1>1, <1>2 DEF IInv, TypeOK, UnderWay, Again, FailuresAreBlamedRightly, FamiliesRejected, server
<1>6. Budget'
  BY <1>1, <1>2 DEF IInv, Budget, Again, Fallback, Position, Stage, Verb, Client, FamiliesRejected
<1>7. QED
  BY <1>3, <1>4, <1>5, <1>6 DEF IInv

LEMMA FamiliesListedKeeps ==
    ASSUME IInv, NEW first \in Family \cup {None}, FamiliesListed(first)
    PROVE  IInv'
<1>1. /\ client \in Client /\ call \in Call /\ call.sent \in Nat
      /\ call.at \in Position /\ call.stage \in Stage /\ call.verb \in Verb
  BY DEF IInv, TypeOK, Call, Position, Stage, Verb, MaxCount
<1>2. /\ call' \in Call /\ call'.op = call.op
      /\ call'.sent \in Nat /\ call'.sent <= call.sent + 1
      /\ call'.at = "table" /\ call'.verb = call.verb
      /\ call'.stage = IF call.stage = "setup" THEN "first" ELSE call.stage
      /\ call'.outcome = call.outcome
  BY <1>1, ContinueMovesCall DEF FamiliesListed, Position, Stage
<1>3. TypeOK'
  <2>1. client' \in Client
    BY <1>1 DEF IInv, TypeOK, FamiliesListed, Client, Verb
  <2>2. QED
    BY <1>1, <1>2, <2>1 DEF IInv, TypeOK, FamiliesListed, server, Client
<1>4. UnderWay'
  BY <1>1, <1>2 DEF IInv, TypeOK, UnderWay, Again, FamiliesListed, server
<1>5. FailuresAreBlamedRightly'
  BY <1>1, <1>2 DEF IInv, TypeOK, UnderWay, Again, FailuresAreBlamedRightly, FamiliesListed, server
<1>6. Budget'
  BY <1>1, <1>2 DEF IInv, Budget, Again, Fallback, Position, Stage, Verb, Client, FamiliesListed
<1>7. QED
  BY <1>3, <1>4, <1>5, <1>6 DEF IInv

LEMMA TableFaultKeeps ==
    ASSUME IInv, TableFault
    PROVE  IInv'
<1>1. /\ client \in Client /\ call \in Call /\ call.sent \in Nat
      /\ call.at \in Position /\ call.stage \in Stage /\ call.verb \in Verb
  BY DEF IInv, TypeOK, Call, Position, Stage, Verb, MaxCount
<1>2. /\ call' \in Call /\ call'.op = call.op
      /\ call'.sent \in Nat /\ call'.sent <= call.sent + 1
      /\ call'.at = "idle" /\ call'.stage = call.stage /\ call'.verb = call.verb
      /\ call'.outcome = "failed"
  BY <1>1, EndEndsCall DEF TableFault, Reported, Outcome
<1>3. TypeOK'
  <2>1. client' \in Client
    BY <1>1 DEF IInv, TypeOK, TableFault, Client, Verb
  <2>2. QED
    BY <1>1, <1>2, <2>1 DEF IInv, TypeOK, TableFault, server, Client
<1>4. UnderWay'
  BY <1>1, <1>2 DEF IInv, TypeOK, UnderWay, Again, TableFault, server
<1>5. FailuresAreBlamedRightly'
  BY <1>1, <1>2 DEF IInv, TypeOK, UnderWay, Again, FailuresAreBlamedRightly, TableFault, server
<1>6. Budget'
  BY <1>1, <1>2 DEF IInv, Budget, Again, Fallback, Position, Stage, Verb, Client, TableFault
<1>7. QED
  BY <1>3, <1>4, <1>5, <1>6 DEF IInv

LEMMA TableRejectedKeeps ==
    ASSUME IInv, TableRejected
    PROVE  IInv'
<1>1. /\ client \in Client /\ call \in Call /\ call.sent \in Nat
      /\ call.at \in Position /\ call.stage \in Stage /\ call.verb \in Verb
  BY DEF IInv, TypeOK, Call, Position, Stage, Verb, MaxCount
<1>2. /\ call' \in Call /\ call'.op = call.op
      /\ call'.sent \in Nat /\ call'.sent <= call.sent + 1
      /\ \/ /\ call.stage # "again" /\ call'.stage = "again"
            /\ call'.at = "oauth" /\ call'.verb = client.method
            /\ call'.outcome = call.outcome
         \/ /\ call.stage = "again" /\ call'.stage = call.stage
            /\ call'.at = "idle" /\ call'.outcome = "failed"
            /\ call'.verb = call.verb
  BY <1>1, ContinueMovesCall, EndEndsCall
     DEF TableRejected, Client, Reported, Position, Stage, Verb, Outcome
<1>3. TypeOK'
  <2>1. client' \in Client
    BY <1>1 DEF IInv, TypeOK, TableRejected, Client, Verb
  <2>2. QED
    BY <1>1, <1>2, <2>1 DEF IInv, TypeOK, TableRejected, server, Client
<1>4. UnderWay'
  BY <1>1, <1>2 DEF IInv, TypeOK, UnderWay, Again, TableRejected, server
<1>5. FailuresAreBlamedRightly'
  BY <1>1, <1>2 DEF IInv, TypeOK, UnderWay, Again, FailuresAreBlamedRightly, TableRejected, server
<1>6. Budget'
  BY <1>1, <1>2 DEF IInv, Budget, Again, Fallback, Position, Stage, Verb, Client, TableRejected
<1>7. QED
  BY <1>3, <1>4, <1>5, <1>6 DEF IInv

LEMMA TableMalformedKeeps ==
    ASSUME IInv, NEW p \in Password \cup {None}, TableMalformed(p)
    PROVE  IInv'
<1>1. /\ client \in Client /\ call \in Call /\ call.sent \in Nat
      /\ call.at \in Position /\ call.stage \in Stage /\ call.verb \in Verb
  BY DEF IInv, TypeOK, Call, Position, Stage, Verb, MaxCount
<1>2. /\ call' \in Call /\ call'.op = call.op
      /\ call'.sent \in Nat /\ call'.sent <= call.sent + 1
      /\ call'.at = "idle" /\ call'.stage = call.stage /\ call'.verb = call.verb
      /\ call'.outcome = "failed"
  BY <1>1, EndEndsCall DEF TableMalformed, Reported, Outcome
<1>3. TypeOK'
  <2>1. client' \in Client
    BY <1>1 DEF IInv, TypeOK, TableMalformed, Client, Verb
  <2>2. QED
    BY <1>1, <1>2, <2>1 DEF IInv, TypeOK, TableMalformed, server, Client
<1>4. UnderWay'
  BY <1>1, <1>2 DEF IInv, TypeOK, UnderWay, Again, TableMalformed, server
<1>5. FailuresAreBlamedRightly'
  BY <1>1, <1>2 DEF IInv, TypeOK, UnderWay, Again, FailuresAreBlamedRightly, TableMalformed, server
<1>6. Budget'
  BY <1>1, <1>2 DEF IInv, Budget, Again, Fallback, Position, Stage, Verb, Client, TableMalformed
<1>7. QED
  BY <1>3, <1>4, <1>5, <1>6 DEF IInv

LEMMA TableAnsweredKeeps ==
    ASSUME IInv, NEW p \in Password \cup {None}, TableAnswered(p)
    PROVE  IInv'
<1>1. /\ client \in Client /\ call \in Call /\ call.sent \in Nat
      /\ call.at \in Position /\ call.stage \in Stage /\ call.verb \in Verb
  BY DEF IInv, TypeOK, Call, Position, Stage, Verb, MaxCount
<1>2. /\ call' \in Call /\ call'.op = call.op
      /\ call'.sent \in Nat /\ call'.sent <= call.sent + 1
      /\ call'.at = "idle" /\ call'.stage = call.stage /\ call'.verb = call.verb
      /\ call'.outcome = "ok"
  BY <1>1, EndEndsCall DEF TableAnswered, Reported, Outcome
<1>3. TypeOK'
  <2>1. client' \in Client
    BY <1>1 DEF IInv, TypeOK, TableAnswered, Client, Verb
  <2>2. QED
    BY <1>1, <1>2, <2>1 DEF IInv, TypeOK, TableAnswered, server, Client
<1>4. UnderWay'
  BY <1>1, <1>2 DEF IInv, TypeOK, UnderWay, Again, TableAnswered, server
<1>5. FailuresAreBlamedRightly'
  BY <1>1, <1>2 DEF IInv, TypeOK, UnderWay, Again, FailuresAreBlamedRightly, TableAnswered, server
<1>6. Budget'
  BY <1>1, <1>2 DEF IInv, Budget, Again, Fallback, Position, Stage, Verb, Client, TableAnswered
<1>7. QED
  BY <1>3, <1>4, <1>5, <1>6 DEF IInv

LEMMA TokenExpiresKeeps ==
    ASSUME IInv, TokenExpires
    PROVE  IInv'
<1>1. /\ client \in Client /\ call \in Call /\ call.sent \in Nat
      /\ call.at \in Position /\ call.stage \in Stage /\ call.verb \in Verb
  BY DEF IInv, TypeOK, Call, Position, Stage, Verb, MaxCount
<1>2. call' = call /\ client' = client
  BY DEF TokenExpires
<1>3. TypeOK'
  BY <1>1, <1>2 DEF IInv, TypeOK, TokenExpires, server
<1>4. UnderWay'
  BY <1>1, <1>2 DEF IInv, TypeOK, UnderWay, Again, TokenExpires, server
<1>5. FailuresAreBlamedRightly'
  BY <1>1, <1>2 DEF IInv, TypeOK, UnderWay, Again, FailuresAreBlamedRightly, TokenExpires, server
<1>6. Budget'
  BY <1>1, <1>2 DEF IInv, Budget, Again, Fallback, Position, Stage, Verb, Client, TokenExpires
<1>7. QED
  BY <1>3, <1>4, <1>5, <1>6 DEF IInv

LEMMA PasswordChangesKeeps ==
    ASSUME IInv, PasswordChanges
    PROVE  IInv'
<1>1. /\ client \in Client /\ call \in Call /\ call.sent \in Nat
      /\ call.at \in Position /\ call.stage \in Stage /\ call.verb \in Verb
  BY DEF IInv, TypeOK, Call, Position, Stage, Verb, MaxCount
<1>2. call' = call /\ client' = client
  BY DEF PasswordChanges
<1>3. TypeOK'
  BY <1>1, <1>2 DEF IInv, TypeOK, PasswordChanges, server
<1>4. UnderWay'
  BY <1>1, <1>2 DEF IInv, TypeOK, UnderWay, Again, PasswordChanges, server
<1>5. FailuresAreBlamedRightly'
  BY <1>1, <1>2 DEF IInv, TypeOK, UnderWay, Again, FailuresAreBlamedRightly, PasswordChanges, server
<1>6. Budget'
  BY <1>1, <1>2 DEF IInv, Budget, Again, Fallback, Position, Stage, Verb, Client, PasswordChanges
<1>7. QED
  BY <1>3, <1>4, <1>5, <1>6 DEF IInv

LEMMA StutteringKeeps ==
    ASSUME IInv, UNCHANGED vars
    PROVE  IInv'
BY DEF IInv, TypeOK, UnderWay, FailuresAreBlamedRightly, Budget, Again, Fallback, vars
-----------------------------------------------------------------------------
LEMMA IInvInvariant == Spec => []IInv
<1>1. ASSUME IInv, [Next]_vars
      PROVE  IInv'
  <2>1. CASE Answer
    BY <1>1, <2>1, LoginFaultKeeps, LoginRejectedKeeps, LoginAcceptedKeeps,
       FamiliesFaultKeeps, FamiliesRejectedKeeps, FamiliesListedKeeps,
       TableFaultKeeps, TableRejectedKeeps, TableMalformedKeeps, TableAnsweredKeeps
       DEF Answer
  <2>2. QED
    BY <1>1, <2>1, StartSetupKeeps, StartRefreshKeeps, ReauthenticateKeeps, TokenExpiresKeeps,
       PasswordChangesKeeps, StutteringKeeps DEF Next
<1>2. QED
  BY <1>1, InitEstablishes, PTL DEF Spec

\* The client's state stays well-typed; a token the server accepts is one the
\* client holds (login, fetch_devices).
THEOREM ClientTypeCorrect == Spec => []TypeOK
<1>1. IInv => TypeOK
  BY DEF IInv
<1>2. QED
  BY <1>1, IInvInvariant, PTL

\* For any account, and any order of faulty answers, refusals and expiries: a
\* call fails only for a reason of the server, and asks for a new password only
\* when the login was refused (async_setup, _async_update_data).
THEOREM ClientBlamesRightly == Spec => []FailuresAreBlamedRightly
<1>1. IInv => FailuresAreBlamedRightly
  BY DEF IInv
<1>2. QED
  BY <1>1, IInvInvariant, PTL

\* No answer makes a call send an eighth request (fetch_devices, login).
THEOREM CallsAreBounded == Spec => []AtMostSevenRequests
<1>1. IInv => AtMostSevenRequests
  BY DEF IInv, Budget, AtMostSevenRequests
<1>2. QED
  BY <1>1, IInvInvariant, PTL
=============================================================================
