----------------------- MODULE GatewayConnectionProofs -----------------------
(***************************************************************************)
(* TLAPS proofs about GatewayConnection, for any set of requests: the six  *)
(* safety invariants hold in every reachable state, and every step of the  *)
(* connection is a step of the abstract GatewaySession or leaves it alone. *)
(***************************************************************************)
EXTENDS GatewayConnection, TLAPS

(* How far the connection has got: the reader runs with the transport, the *)
(* writer is closed once, and the handshake has not been overtaken.        *)
Lifecycle ==
    /\ reader = active
    /\ active => tasksHeld
    /\ finishing => ~ active /\ ~ tasksHeld
    /\ connector.pc \in {"idle", "opening"} => ~ tasksHeld /\ ~ finishing /\ ~ open
    /\ connector.pc \in Handshaking \union {"idle"} => heartbeat = "none"
    /\ identityConfirmed => connector.pc = "up"

(* Which requests may exist when.                                          *)
RequestsInTurn ==
    /\ connector.pc \in {"idle", "opening"} => call[Hello].pc = "idle"
    /\ connector.pc \in {"idle", "opening", "hello"} => call[Login].pc = "idle"
    /\ heartbeat # "requesting" => call[Beat].pc \notin InFlight
    /\ \A u \in User : call[u].pc # "idle" \/ u \in written => connector.pc = "up"
    /\ \A r \in Request : call[r].pc \in {"draining", "waiting", "answered"} => r \in written

(* What the handshake has established about the peer.                      *)
PeerKnown ==
    LET uids == {connector.helloUid, connector.loginUid} IN
    /\ connector.pc \in {"idle", "opening", "hello", "login"} =>
         connector.helloUid # "other"
    /\ connector.pc = "up" =>
         "other" \notin uids /\ ("expected" \in uids \/ AllowMissingUid)
    /\ identityConfirmed => "expected" \in uids

(* Only requests without correlation fields take the single-flight path.   *)
SingleFlight ==
    /\ \A r \in Request : call[r].pc = "queued" => r \in Uncorrelated
    /\ single # None => single \in Uncorrelated

Inv ==
    /\ TypeOK /\ Lifecycle /\ RequestsInTurn /\ PeerKnown /\ SingleFlight
    /\ NoWaiterOnDeadTransport /\ NothingLeftBehind /\ AnswersMatch
    /\ NoOrphanTransport

---------------------------------------------------------------------------
(* Facts about the calls and about the operators the actions share.        *)

Progress == InFlight \union {"idle", "answered", "failed"}

LEMMA RequestFacts ==
    /\ None \notin Request /\ Stray \notin Request /\ None # Stray
    /\ {Hello, Login, Beat} \subseteq Request /\ User \subseteq Request
    /\ {Hello, Login, Beat} \intersect User = {}
    /\ Hello # Login /\ Hello # Beat /\ Login # Beat
BY ConnectionAssumption DEF Request, Hello, Login, Beat, Stray

LEMMA CallFields ==
    ASSUME NEW c \in CallState
    PROVE  /\ c.pc \in Progress
           /\ c.future \in {"undone", "result", "error"}
           /\ c.answer \in Request \union {Stray, None}
           /\ (c.future = "result") <=> (c.answer # None)
           /\ c = [pc |-> c.pc, future |-> c.future, answer |-> c.answer]
BY DEF CallState, Progress

LEMMA SetPc ==
    ASSUME NEW c \in CallState, NEW p \in Progress
    PROVE  LET d == [c EXCEPT !.pc = p] IN
           /\ d \in CallState
           /\ d.pc = p /\ d.future = c.future /\ d.answer = c.answer
BY DEF CallState, Progress

LEMMA FailFuture ==
    ASSUME NEW c \in CallState, c.future = "undone"
    PROVE  LET d == [c EXCEPT !.future = "error"] IN
           /\ d \in CallState
           /\ d.pc = c.pc /\ d.future = "error" /\ d.answer = c.answer
BY DEF CallState

LEMMA ResolveFuture ==
    ASSUME NEW c \in CallState, NEW a \in Request \union {Stray}
    PROVE  LET d == [c EXCEPT !.future = "result", !.answer = a] IN
           /\ d \in CallState
           /\ d.pc = c.pc /\ d.future = "result" /\ d.answer = a
BY RequestFacts DEF CallState

LEMMA FreshCalls ==
    /\ IdleCall \in CallState
    /\ IdleCall.pc = "idle" /\ IdleCall.future = "undone" /\ IdleCall.answer = None
    /\ RegisteredCall \in CallState
    /\ RegisteredCall.pc = "registered" /\ RegisteredCall.future = "undone"
    /\ RegisteredCall.answer = None
BY DEF IdleCall, RegisteredCall, CallState, InFlight, Registered

LEMMA RegisterFacts ==
    ASSUME TypeOK, NEW r \in Request, Register(r)
    PROVE  /\ call' \in [Request -> CallState]
           /\ pending' \in [Request -> SUBSET Field]
           /\ \A q \in Request \ {r} : call'[q] = call[q] /\ pending'[q] = pending[q]
           /\ call'[r] = RegisteredCall /\ pending'[r] # {}
<1>1. CorrelationKeys(r) \in SUBSET Field /\ CorrelationKeys(r) # {}
  BY DEF CorrelationKeys, Field
<1>2. QED
  BY <1>1, FreshCalls DEF TypeOK, Register

(* What ending the requests of R leaves of the calls.                      *)
LEMMA EndedFacts ==
    ASSUME NEW calls \in [Request -> CallState], NEW R, NEW outcome \in {"answered", "failed"}
    PROVE  LET ended == EndedCalls(calls, R, outcome) IN
           /\ ended \in [Request -> CallState]
           /\ \A q \in Request :
                /\ ended[q].future = calls[q].future
                /\ ended[q].answer = calls[q].answer
                /\ ended[q].pc = IF q \in R /\ calls[q].pc \in InFlight
                                 THEN outcome ELSE calls[q].pc
<1>1. outcome \in Progress
  BY DEF Progress
<1>2. ASSUME NEW q \in Request
      PROVE  LET c == IF q \in R /\ calls[q].pc \in InFlight
                      THEN [calls[q] EXCEPT !.pc = outcome] ELSE calls[q] IN
             /\ c \in CallState
             /\ c.future = calls[q].future /\ c.answer = calls[q].answer
             /\ c.pc = IF q \in R /\ calls[q].pc \in InFlight
                       THEN outcome ELSE calls[q].pc
  <2>1. calls[q] \in CallState
    OBVIOUS
  <2>2. QED
    BY <2>1, <1>1, SetPc
<1>3. QED
  BY <1>2 DEF EndedCalls

LEMMA FinishFacts ==
    ASSUME TypeOK, NEW R, NEW outcome \in {"answered", "failed"}, Finish(R, outcome)
    PROVE  /\ call' \in [Request -> CallState]
           /\ pending' \in [Request -> SUBSET Field]
           /\ single' \in User \union {None}
           /\ requestLock' \in User \union {None}
           /\ writeLock' \in Request \union {None}
           /\ single' = IF single \in R THEN None ELSE single
           /\ requestLock' = IF requestLock \in R THEN None ELSE requestLock
           /\ writeLock' = IF writeLock \in R THEN None ELSE writeLock
           /\ \A q \in Request :
                /\ pending'[q] = IF q \in R THEN {} ELSE pending[q]
                /\ call'[q].future = call[q].future
                /\ call'[q].answer = call[q].answer
                /\ call'[q].pc = IF q \in R /\ call[q].pc \in InFlight
                                 THEN outcome ELSE call[q].pc
<1>1. /\ call' \in [Request -> CallState]
      /\ \A q \in Request :
           /\ call'[q].future = call[q].future
           /\ call'[q].answer = call[q].answer
           /\ call'[q].pc = IF q \in R /\ call[q].pc \in InFlight
                            THEN outcome ELSE call[q].pc
  BY EndedFacts DEF Finish, TypeOK
<1>2. QED
  BY <1>1 DEF Finish, ReleaseLocks, TypeOK

(* Losing the transport resolves every future that may still be awaited.   *)
LEMMA LoseFacts ==
    ASSUME TypeOK, NoWaiterOnDeadTransport, NEW R, LoseTransport(R)
    PROVE  /\ active' = FALSE /\ ready' = FALSE /\ identityConfirmed' = FALSE
           /\ reader' = FALSE
           /\ call' \in [Request -> CallState]
           /\ pending' = [r \in Request |-> {}]
           /\ single' = None
           /\ requestLock' \in User \union {None}
           /\ writeLock' \in Request \union {None}
           /\ requestLock' = IF requestLock \in R THEN None ELSE requestLock
           /\ writeLock' = IF writeLock \in R THEN None ELSE writeLock
           /\ \A q \in Request :
                /\ call'[q].answer = call[q].answer
                /\ call'[q].pc = IF q \in R /\ call[q].pc \in InFlight
                                 THEN "failed" ELSE call[q].pc
                /\ call'[q].pc \in Registered => call'[q].future # "undone"
<1>1. /\ FailedFutures \in [Request -> CallState]
      /\ \A q \in Request :
           /\ FailedFutures[q].pc = call[q].pc
           /\ FailedFutures[q].answer = call[q].answer
           /\ call[q].pc \in Registered => FailedFutures[q].future # "undone"
  <2>1. ASSUME NEW q \in Request
        PROVE  LET c == IF (pending[q] # {} \/ single = q) /\ call[q].future = "undone"
                        THEN [call[q] EXCEPT !.future = "error"] ELSE call[q] IN
               /\ c \in CallState
               /\ c.pc = call[q].pc /\ c.answer = call[q].answer
               /\ call[q].pc \in Registered => c.future # "undone"
    <3>1. call[q] \in CallState
      BY DEF TypeOK
    <3>2. call[q].pc \in Registered /\ call[q].future = "undone" => pending[q] # {}
      BY DEF NoWaiterOnDeadTransport
    <3>3. QED
      BY <3>1, <3>2, FailFuture
  <2>2. QED
    BY <2>1 DEF FailedFutures
<1>2. /\ call' \in [Request -> CallState]
      /\ \A q \in Request :
           /\ call'[q].future = FailedFutures[q].future
           /\ call'[q].answer = call[q].answer
           /\ call'[q].pc = IF q \in R /\ call[q].pc \in InFlight
                            THEN "failed" ELSE call[q].pc
  BY <1>1, EndedFacts DEF LoseTransport
<1>3. "failed" \notin Registered
  BY DEF Registered
<1>4. QED
  BY <1>1, <1>2, <1>3 DEF LoseTransport, ReleaseLocks, TypeOK

(* A request may be registered when it is not being written.               *)
LEMMA RegisterLeavesNothing ==
    ASSUME TypeOK, NothingLeftBehind, NEW r \in Request, Register(r),
           call[r].pc # "draining", UNCHANGED writeLock,
           \/ UNCHANGED <<single, requestLock>>
           \/ single' = r /\ requestLock' = r
    PROVE  NothingLeftBehind'
<1>f. /\ \A q \in Request \ {r} : call'[q] = call[q] /\ pending'[q] = pending[q]
      /\ call'[r].pc = "registered"
  BY RegisterFacts, FreshCalls
<1>1. \A q \in Request : call[q].pc \in Registered => call'[q].pc \in Registered
  BY <1>f DEF Registered
<1>2. \A q \in Request : pending'[q] # {} => call'[q].pc \in Registered
  BY <1>f, <1>1 DEF NothingLeftBehind, Registered
<1>3. /\ single' # None => requestLock' = single'
      /\ requestLock' # None => call'[requestLock'].pc \in Registered
  BY <1>f, <1>1, RequestFacts DEF NothingLeftBehind, TypeOK, Registered
<1>4. \A q \in Request : writeLock' = q <=> call'[q].pc = "draining"
  BY <1>f DEF NothingLeftBehind
<1>5. QED
  BY <1>2, <1>3, <1>4 DEF NothingLeftBehind

(* Nor does a step leave anything behind that ends no request.             *)
LEMMA LeavesNothingMore ==
    ASSUME TypeOK, NothingLeftBehind, UNCHANGED <<pending, single, requestLock>>,
           \A q \in Request : call[q].pc \in Registered => call'[q].pc \in Registered,
           \A q \in Request : writeLock' = q <=> call'[q].pc = "draining"
    PROVE  NothingLeftBehind'
<1>1. requestLock # None => requestLock \in Request
  BY RequestFacts DEF TypeOK
<1>2. QED
  BY <1>1 DEF NothingLeftBehind
---------------------------------------------------------------------------
(* Steps that end requests and leave the transport alone.                  *)

LEMMA FinishKeepsInv ==
    ASSUME Inv, NEW R \in SUBSET Request, NEW outcome \in {"answered", "failed"},
           Finish(R, outcome),
           outcome = "answered" => \A r \in R : call[r].pc = "waiting",
           UNCHANGED <<connVars, written, taskVars, open>>,
           \/ UNCHANGED connector
           \/ lifecycleLocked /\ connector' = [connector EXCEPT !.pc = "cleanup"]
    PROVE  Inv'
<1> USE RequestFacts
<1>t. TypeOK
  BY DEF Inv
<1>f. /\ call' \in [Request -> CallState]
      /\ pending' \in [Request -> SUBSET Field]
      /\ single' \in User \union {None}
      /\ requestLock' \in User \union {None}
      /\ writeLock' \in Request \union {None}
      /\ single' = IF single \in R THEN None ELSE single
      /\ requestLock' = IF requestLock \in R THEN None ELSE requestLock
      /\ writeLock' = IF writeLock \in R THEN None ELSE writeLock
      /\ \A q \in Request :
           /\ pending'[q] = IF q \in R THEN {} ELSE pending[q]
           /\ call'[q].future = call[q].future
           /\ call'[q].answer = call[q].answer
           /\ call'[q].pc = IF q \in R /\ call[q].pc \in InFlight
                            THEN outcome ELSE call[q].pc
  BY <1>t, FinishFacts
<1>c. /\ connector' \in ConnectorState
      /\ connector'.helloUid = connector.helloUid
      /\ connector'.loginUid = connector.loginUid
      /\ connector'.pc = connector.pc \/ (lifecycleLocked /\ connector'.pc = "cleanup")
  BY <1>t DEF TypeOK, ConnectorState
<1>1. TypeOK'
  BY <1>t, <1>f, <1>c DEF TypeOK, connVars, taskVars
<1>2. Lifecycle'
  BY <1>c DEF Inv, Lifecycle, lifecycleLocked, Handshaking, connVars, taskVars
<1>3. RequestsInTurn'
  BY <1>f, <1>c DEF Inv, RequestsInTurn, lifecycleLocked, Handshaking, InFlight,
                    Registered, taskVars
<1>4. PeerKnown'
  BY <1>c DEF Inv, PeerKnown, lifecycleLocked, Handshaking, connVars
<1>5. SingleFlight'
  BY <1>f DEF Inv, SingleFlight
<1>6. NoWaiterOnDeadTransport'
  BY <1>f DEF Inv, NoWaiterOnDeadTransport, Registered, InFlight, connVars, taskVars
<1>7. NothingLeftBehind'
  BY <1>t, <1>f DEF Inv, NothingLeftBehind, Registered, InFlight
<1>8. AnswersMatch'
  BY <1>f DEF Inv, AnswersMatch, RequestsInTurn
<1>9. NoOrphanTransport'
  BY DEF Inv, NoOrphanTransport, connVars, taskVars
<1>10. QED
  BY <1>1, <1>2, <1>3, <1>4, <1>5, <1>6, <1>7, <1>8, <1>9 DEF Inv

(* Steps that lose the transport: the heartbeat's request ends with it,    *)
(* and the writer is closed or left to the close() that detached it.       *)
LEMMA LosingKeepsInv ==
    ASSUME Inv, NEW R, LoseTransport(R), Beat \in R,
           tasksHeld,
           open' => finishing',
           \/ UNCHANGED <<tasksHeld, finishing>> /\ active
           \/ tasksHeld' = FALSE /\ finishing' = active,
           heartbeat' \in {heartbeat, "none"},
           UNCHANGED <<written>>,
           open' \in {open, FALSE},
           \/ UNCHANGED connector
           \/ connector.pc = "closing" /\ connector' = [connector EXCEPT !.pc = "failed"]
    PROVE  Inv'
<1> USE RequestFacts
<1>t. TypeOK /\ NoWaiterOnDeadTransport
  BY DEF Inv
<1>f. /\ active' = FALSE /\ ready' = FALSE /\ identityConfirmed' = FALSE
      /\ reader' = FALSE
      /\ call' \in [Request -> CallState]
      /\ pending' = [r \in Request |-> {}]
      /\ single' = None
      /\ requestLock' \in User \union {None}
      /\ writeLock' \in Request \union {None}
      /\ requestLock' = IF requestLock \in R THEN None ELSE requestLock
      /\ writeLock' = IF writeLock \in R THEN None ELSE writeLock
      /\ \A q \in Request :
           /\ call'[q].answer = call[q].answer
           /\ call'[q].pc = IF q \in R /\ call[q].pc \in InFlight
                            THEN "failed" ELSE call[q].pc
           /\ call'[q].pc \in Registered => call'[q].future # "undone"
  BY <1>t, LoseFacts
<1>c. /\ connector' \in ConnectorState
      /\ connector'.helloUid = connector.helloUid
      /\ connector'.loginUid = connector.loginUid
      /\ connector'.pc = connector.pc \/ (connector.pc = "closing" /\ connector'.pc = "failed")
  BY <1>t DEF TypeOK, ConnectorState
<1>1. TypeOK'
  BY <1>t, <1>f, <1>c DEF TypeOK
<1>2. Lifecycle'
  BY <1>f, <1>c, <1>t DEF Inv, Lifecycle, Handshaking, TypeOK
<1>3. RequestsInTurn'
  BY <1>f, <1>c DEF Inv, RequestsInTurn, InFlight, Registered
<1>4. PeerKnown'
  BY <1>c, <1>f DEF Inv, PeerKnown
<1>5. SingleFlight'
  BY <1>f DEF Inv, SingleFlight
<1>6. NoWaiterOnDeadTransport'
  BY <1>f DEF NoWaiterOnDeadTransport
<1>7. NothingLeftBehind'
  BY <1>t, <1>f DEF Inv, NothingLeftBehind, Registered, InFlight, TypeOK
<1>8. AnswersMatch'
  BY <1>f DEF Inv, AnswersMatch
<1>9. NoOrphanTransport'
  BY DEF NoOrphanTransport
<1>10. QED
  BY <1>1, <1>2, <1>3, <1>4, <1>5, <1>6, <1>7, <1>8, <1>9 DEF Inv

(* close(), from whichever coroutine: void when there is nothing left.     *)
LEMMA DetachKeepsInv ==
    ASSUME Inv, Detach, connector.pc \notin Handshaking \union {"idle"},
           UNCHANGED <<written, open>>,
           \/ UNCHANGED connector
           \/ connector.pc = "closing" /\ connector' = [connector EXCEPT !.pc = "failed"]
    PROVE  Inv'
<1>1. CASE active \/ tasksHeld
  <2>1. /\ LoseTransport({Beat}) /\ tasksHeld' = FALSE
        /\ heartbeat' = "none" /\ finishing' = active
    BY <1>1 DEF Detach
  <2>2. tasksHeld /\ (open => active)
    BY <1>1 DEF Inv, Lifecycle, NoOrphanTransport
  <2>3. open' => finishing'
    BY <2>1, <2>2
  <2>4. heartbeat' \in {heartbeat, "none"} /\ open' \in {open, FALSE}
    BY <2>1
  <2>5. QED
    BY <2>1, <2>2, <2>3, <2>4, LosingKeepsInv
<1>2. CASE ~ active /\ ~ tasksHeld
  <2>1. UNCHANGED <<connVars, routeVars, call, lockVars, reader, finishing, written, open>>
    BY <1>2 DEF Detach
  <2>2. heartbeat' = heartbeat \/ (heartbeat = "closing" /\ heartbeat' = "none")
    BY <1>2 DEF Detach
  <2>3. /\ connector' \in ConnectorState
        /\ connector'.helloUid = connector.helloUid
        /\ connector'.loginUid = connector.loginUid
        /\ connector'.pc = connector.pc \/ (connector.pc = "closing" /\ connector'.pc = "failed")
    BY DEF Inv, TypeOK, ConnectorState
  <2> USE <2>1, <2>2, <2>3 DEF connVars, routeVars, lockVars
  <2>4. TypeOK'
    BY DEF Inv, TypeOK
  <2>5. Lifecycle'
    BY DEF Inv, Lifecycle, Handshaking
  <2>6. RequestsInTurn'
    BY DEF Inv, RequestsInTurn
  <2>7. PeerKnown'
    BY DEF Inv, PeerKnown
  <2>8. (SingleFlight /\ NoWaiterOnDeadTransport /\ NothingLeftBehind
           /\ AnswersMatch /\ NoOrphanTransport)'
    BY DEF Inv, SingleFlight, NoWaiterOnDeadTransport, NothingLeftBehind, AnswersMatch,
           NoOrphanTransport
  <2>9. QED
    BY <2>4, <2>5, <2>6, <2>7, <2>8 DEF Inv
<1>3. QED
  BY <1>1, <1>2 DEF Inv, TypeOK
---------------------------------------------------------------------------
(* The steps of connect().                                                 *)

LEMMA ConnectKeepsInv == ASSUME Inv, Connect PROVE Inv'
<1> USE RequestFacts DEF Connect, connVars, routeVars, lockVars, taskVars
<1>c. /\ connector' \in ConnectorState
      /\ connector'.pc = "opening"
      /\ connector'.helloUid = connector.helloUid
      /\ connector'.loginUid = connector.loginUid
  BY DEF Inv, TypeOK, ConnectorState, Handshaking
<1>1. TypeOK'
  BY <1>c DEF Inv, TypeOK
<1>2. Lifecycle'
  BY <1>c DEF Inv, Lifecycle, Handshaking
<1>3. RequestsInTurn'
  BY <1>c DEF Inv, RequestsInTurn
<1>4. PeerKnown'
  BY <1>c DEF Inv, PeerKnown
<1>5. SingleFlight'
  BY <1>c DEF Inv, SingleFlight
<1>6. NoWaiterOnDeadTransport'
  BY <1>c DEF Inv, NoWaiterOnDeadTransport
<1>7. NothingLeftBehind'
  BY <1>c DEF Inv, NothingLeftBehind
<1>8. AnswersMatch'
  BY <1>c DEF Inv, AnswersMatch
<1>9. NoOrphanTransport'
  BY <1>c DEF Inv, NoOrphanTransport
<1>10. QED
  BY <1>1, <1>2, <1>3, <1>4, <1>5, <1>6, <1>7, <1>8, <1>9 DEF Inv

LEMMA OpenTransportKeepsInv == ASSUME Inv, OpenTransport PROVE Inv'
<1> USE RequestFacts DEF OpenTransport, lockVars
<1>t. TypeOK /\ connector.pc = "opening"
  BY DEF Inv
<1>c. /\ connector' \in ConnectorState
      /\ connector'.pc = "hello"
      /\ connector'.helloUid = connector.helloUid
      /\ connector'.loginUid = connector.loginUid
  BY DEF Inv, TypeOK, ConnectorState, Handshaking
<1>f. /\ call' \in [Request -> CallState] /\ pending' \in [Request -> SUBSET Field]
      /\ \A q \in Request \ {Hello} : call'[q] = call[q] /\ pending'[q] = pending[q]
      /\ call'[Hello].pc = "registered" /\ call'[Hello].answer = None
      /\ pending'[Hello] # {}
      /\ call[Hello].pc = "idle"
  BY <1>t, RegisterFacts, FreshCalls DEF Inv, RequestsInTurn
<1>1. TypeOK'
  BY <1>t, <1>c, <1>f DEF Inv, TypeOK
<1>2. Lifecycle'
  BY <1>t, <1>c, <1>f DEF Inv, Lifecycle, Handshaking
<1>3. RequestsInTurn'
  BY <1>t, <1>c, <1>f DEF Inv, RequestsInTurn, InFlight, Registered
<1>4. PeerKnown'
  BY <1>t, <1>c, <1>f DEF Inv, PeerKnown
<1>5. SingleFlight'
  BY <1>t, <1>c, <1>f DEF Inv, SingleFlight
<1>6. NoWaiterOnDeadTransport'
  BY <1>t, <1>c, <1>f DEF Inv, NoWaiterOnDeadTransport, RequestsInTurn, Registered,
       Lifecycle, InFlight
<1>7. NothingLeftBehind'
  BY <1>t, <1>f, RegisterLeavesNothing DEF Inv, NothingLeftBehind
<1>8. AnswersMatch'
  BY <1>t, <1>c, <1>f DEF Inv, AnswersMatch, RequestsInTurn
<1>9. NoOrphanTransport'
  BY <1>t, <1>c, <1>f DEF Inv, NoOrphanTransport
<1>10. QED
  BY <1>1, <1>2, <1>3, <1>4, <1>5, <1>6, <1>7, <1>8, <1>9 DEF Inv

LEMMA HelloAnsweredKeepsInv ==
    ASSUME Inv, NEW uid \in Uid, NEW credentials \in BOOLEAN, HelloAnswered(uid, credentials)
    PROVE  Inv'
<1> USE RequestFacts DEF HelloAnswered, connVars, lockVars, taskVars
<1>t. TypeOK /\ connector.pc = "hello"
  BY DEF Inv
<1>1. CASE credentials /\ uid # "other" /\ active
  <2>c. /\ connector' \in ConnectorState
        /\ connector'.pc = "login" /\ connector'.helloUid = uid
        /\ connector'.loginUid = connector.loginUid
    BY <1>t, <1>1 DEF TypeOK, ConnectorState, Handshaking
  <2>f. /\ call' \in [Request -> CallState] /\ pending' \in [Request -> SUBSET Field]
        /\ \A q \in Request \ {Login} : call'[q] = call[q] /\ pending'[q] = pending[q]
        /\ call'[Login].pc = "registered" /\ call'[Login].answer = None
        /\ pending'[Login] # {}
        /\ call[Login].pc = "idle"
    BY <1>t, <1>1, RegisterFacts, FreshCalls DEF Inv, RequestsInTurn
  <2>1. TypeOK'
    BY <1>t, <1>1, <2>c, <2>f DEF Inv, TypeOK
  <2>2. Lifecycle'
    BY <1>t, <1>1, <2>c, <2>f DEF Inv, Lifecycle, Handshaking
  <2>3. RequestsInTurn'
    BY <1>t, <1>1, <2>c, <2>f DEF Inv, RequestsInTurn, InFlight, Registered
  <2>4. PeerKnown'
    BY <1>t, <1>1, <2>c, <2>f DEF Inv, PeerKnown, Lifecycle
  <2>5. SingleFlight'
    BY <1>t, <1>1, <2>c, <2>f DEF Inv, SingleFlight
  <2>6. NoWaiterOnDeadTransport'
    BY <1>t, <1>1, <2>c, <2>f DEF Inv, NoWaiterOnDeadTransport, Lifecycle
  <2>7. NothingLeftBehind'
    BY <1>t, <1>1, <2>f, RegisterLeavesNothing DEF Inv, NothingLeftBehind
  <2>8. AnswersMatch'
    BY <1>t, <1>1, <2>c, <2>f DEF Inv, AnswersMatch
  <2>9. NoOrphanTransport'
    BY <1>t, <1>1, <2>c, <2>f DEF Inv, NoOrphanTransport
  <2>10. QED
    BY <2>1, <2>2, <2>3, <2>4, <2>5, <2>6, <2>7, <2>8, <2>9 DEF Inv
<1>2. CASE ~ (credentials /\ uid # "other" /\ active)
  <2>c. /\ connector' \in ConnectorState
        /\ connector'.pc = "cleanup" /\ connector'.helloUid = connector.helloUid
        /\ connector'.loginUid = connector.loginUid
    BY <1>t, <1>2 DEF TypeOK, ConnectorState
  <2>f. UNCHANGED <<call, pending>>
    BY <1>2
  <2>1. TypeOK'
    BY <1>t, <2>c, <2>f DEF Inv, TypeOK
  <2>2. Lifecycle'
    BY <1>t, <2>c, <2>f DEF Inv, Lifecycle, Handshaking
  <2>3. RequestsInTurn'
    BY <1>t, <2>c, <2>f DEF Inv, RequestsInTurn
  <2>4. PeerKnown'
    BY <1>t, <2>c, <2>f DEF Inv, PeerKnown
  <2>5. SingleFlight'
    BY <1>t, <2>c, <2>f DEF Inv, SingleFlight
  <2>6. NoWaiterOnDeadTransport'
    BY <1>t, <2>c, <2>f DEF Inv, NoWaiterOnDeadTransport
  <2>7. NothingLeftBehind'
    BY <1>t, <2>c, <2>f DEF Inv, NothingLeftBehind
  <2>8. AnswersMatch'
    BY <1>t, <2>c, <2>f DEF Inv, AnswersMatch
  <2>9. NoOrphanTransport'
    BY <1>t, <2>c, <2>f DEF Inv, NoOrphanTransport
  <2>10. QED
    BY <2>1, <2>2, <2>3, <2>4, <2>5, <2>6, <2>7, <2>8, <2>9 DEF Inv
<1>3. QED
  BY <1>1, <1>2

(* Where the heartbeat starts, and where the peer is accepted.             *)
LEMMA LoginAnsweredKeepsInv ==
    ASSUME Inv, NEW uid \in Uid, NEW status \in {0, 1}, LoginAnswered(uid, status)
    PROVE  Inv'
<1> USE RequestFacts DEF LoginAnswered, routeVars, lockVars
<1>t. TypeOK /\ connector.pc = "login"
  BY DEF Inv
<1>h. /\ heartbeat = "none" /\ connector.helloUid # "other" /\ connector.helloUid \in Uid
      /\ ~ identityConfirmed
  BY <1>t DEF Inv, Lifecycle, Handshaking, PeerKnown, TypeOK, ConnectorState
<1>1. CASE LoginAccepted(status, connector.helloUid, uid)
  <2>c. /\ connector' \in ConnectorState
        /\ connector'.pc = "up" /\ connector'.helloUid = connector.helloUid
        /\ connector'.loginUid = uid
        /\ ready' = TRUE /\ heartbeat' = "sleeping"
        /\ identityConfirmed' = (PeerUid(connector.helloUid, uid) = "expected")
    BY <1>t, <1>1 DEF TypeOK, ConnectorState
  <2>u. /\ "other" \notin {connector.helloUid, uid}
        /\ "expected" \in {connector.helloUid, uid} \/ AllowMissingUid
        /\ identityConfirmed' => "expected" \in {connector.helloUid, uid}
    BY <1>1, <1>h, <2>c DEF LoginAccepted, PeerUid, Uid
  <2> HIDE DEF LoginAnswered
  <2>v. UNCHANGED <<active, tasksHeld, routeVars, call, written, lockVars,
                    reader, finishing, open>>
    BY DEF LoginAnswered
  <2>1. TypeOK'
    BY <1>t, <1>h, <2>c, <2>v DEF Inv, TypeOK
  <2>2. Lifecycle'
    BY <1>t, <1>h, <2>c, <2>v DEF Inv, Lifecycle, Handshaking
  <2>3. RequestsInTurn'
    BY <1>t, <1>h, <2>c, <2>v DEF Inv, RequestsInTurn
  <2>4. PeerKnown'
    BY <1>t, <2>c, <2>u DEF Inv, PeerKnown
  <2>5. SingleFlight'
    BY <1>t, <1>h, <2>c, <2>v DEF Inv, SingleFlight
  <2>6. NoWaiterOnDeadTransport'
    BY <1>t, <1>h, <2>c, <2>v DEF Inv, NoWaiterOnDeadTransport
  <2>7. NothingLeftBehind'
    BY <1>t, <1>h, <2>c, <2>v DEF Inv, NothingLeftBehind
  <2>8. AnswersMatch'
    BY <1>t, <1>h, <2>c, <2>v DEF Inv, AnswersMatch
  <2>9. NoOrphanTransport'
    BY <1>t, <1>h, <2>c, <2>v DEF Inv, NoOrphanTransport
  <2>10. QED
    BY <2>1, <2>2, <2>3, <2>4, <2>5, <2>6, <2>7, <2>8, <2>9 DEF Inv
<1>2. CASE ~ LoginAccepted(status, connector.helloUid, uid)
  <2>c. /\ connector' \in ConnectorState
        /\ connector'.pc = "cleanup" /\ connector'.helloUid = connector.helloUid
        /\ connector'.loginUid = connector.loginUid
        /\ UNCHANGED <<ready, identityConfirmed, heartbeat>>
    BY <1>t, <1>2 DEF TypeOK, ConnectorState
  <2>1. TypeOK'
    BY <1>t, <1>h, <2>c DEF Inv, TypeOK
  <2>2. Lifecycle'
    BY <1>t, <1>h, <2>c DEF Inv, Lifecycle, Handshaking
  <2>3. RequestsInTurn'
    BY <1>t, <1>h, <2>c DEF Inv, RequestsInTurn
  <2>4. PeerKnown'
    BY <1>t, <1>h, <2>c DEF Inv, PeerKnown
  <2>5. SingleFlight'
    BY <1>t, <1>h, <2>c DEF Inv, SingleFlight
  <2>6. NoWaiterOnDeadTransport'
    BY <1>t, <1>h, <2>c DEF Inv, NoWaiterOnDeadTransport
  <2>7. NothingLeftBehind'
    BY <1>t, <1>h, <2>c DEF Inv, NothingLeftBehind
  <2>8. AnswersMatch'
    BY <1>t, <1>h, <2>c DEF Inv, AnswersMatch
  <2>9. NoOrphanTransport'
    BY <1>t, <1>h, <2>c DEF Inv, NoOrphanTransport
  <2>10. QED
    BY <2>1, <2>2, <2>3, <2>4, <2>5, <2>6, <2>7, <2>8, <2>9 DEF Inv
<1>3. QED
  BY <1>1, <1>2

LEMMA ConnectFailsKeepsInv == ASSUME Inv, ConnectFails PROVE Inv'
BY FinishKeepsInv, RequestFacts DEF ConnectFails

LEMMA CleanUpConnectKeepsInv == ASSUME Inv, CleanUpConnect PROVE Inv'
<1> USE RequestFacts DEF CleanUpConnect, connVars, routeVars, lockVars, taskVars
<1>t. TypeOK /\ connector.pc = "cleanup"
  BY DEF Inv
<1>c. /\ connector' \in ConnectorState
      /\ connector'.pc \in {"closing", "failed"}
      /\ connector'.helloUid = connector.helloUid
      /\ connector'.loginUid = connector.loginUid
  BY <1>t DEF TypeOK, ConnectorState
<1>1. TypeOK'
  BY <1>t, <1>c DEF Inv, TypeOK
<1>2. Lifecycle'
  BY <1>t, <1>c DEF Inv, Lifecycle, Handshaking
<1>3. RequestsInTurn'
  BY <1>t, <1>c DEF Inv, RequestsInTurn
<1>4. PeerKnown'
  BY <1>t, <1>c DEF Inv, PeerKnown
<1>5. SingleFlight'
  BY <1>t, <1>c DEF Inv, SingleFlight
<1>6. NoWaiterOnDeadTransport'
  BY <1>t, <1>c DEF Inv, NoWaiterOnDeadTransport
<1>7. NothingLeftBehind'
  BY <1>t, <1>c DEF Inv, NothingLeftBehind
<1>8. AnswersMatch'
  BY <1>t, <1>c DEF Inv, AnswersMatch
<1>9. NoOrphanTransport'
  BY <1>t, <1>c DEF Inv, NoOrphanTransport
<1>10. QED
  BY <1>1, <1>2, <1>3, <1>4, <1>5, <1>6, <1>7, <1>8, <1>9 DEF Inv

LEMMA CloseFailedConnectKeepsInv == ASSUME Inv, CloseFailedConnect PROVE Inv'
BY DetachKeepsInv DEF CloseFailedConnect, Handshaking
---------------------------------------------------------------------------
(* The steps of a request.                                                 *)

(* A user's request is registered, alone in the slot or not.               *)
LEMMA RegisterUserKeepsInv ==
    ASSUME Inv, NEW u \in User, Register(u), active, connector.pc = "up",
           call[u].pc # "draining",
           UNCHANGED <<connVars, written, writeLock, connector, taskVars, open>>,
           \/ UNCHANGED <<single, requestLock>>
           \/ single' = u /\ requestLock' = u /\ u \in Uncorrelated
    PROVE  Inv'
<1> USE RequestFacts DEF connVars, taskVars
<1>t. TypeOK
  BY DEF Inv
<1>f. /\ call' \in [Request -> CallState] /\ pending' \in [Request -> SUBSET Field]
      /\ \A q \in Request \ {u} : call'[q] = call[q] /\ pending'[q] = pending[q]
      /\ call'[u].pc = "registered" /\ call'[u].answer = None
      /\ pending'[u] # {} /\ u \in Request /\ u \notin {Hello, Login, Beat}
  BY <1>t, RegisterFacts, FreshCalls
<1>1. TypeOK'
  BY <1>t, <1>f DEF Inv, TypeOK
<1>2. Lifecycle'
  BY <1>t, <1>f DEF Inv, Lifecycle
<1>3. RequestsInTurn'
  BY <1>t, <1>f DEF Inv, RequestsInTurn, InFlight, Registered
<1>4. PeerKnown'
  BY <1>t, <1>f DEF Inv, PeerKnown
<1>5. SingleFlight'
  BY <1>t, <1>f DEF Inv, SingleFlight
<1>6. NoWaiterOnDeadTransport'
  BY <1>t, <1>f DEF Inv, NoWaiterOnDeadTransport, Lifecycle
<1>7. NothingLeftBehind'
  BY <1>t, <1>f, RegisterLeavesNothing DEF Inv, NothingLeftBehind
<1>8. AnswersMatch'
  BY <1>t, <1>f DEF Inv, AnswersMatch
<1>9. NoOrphanTransport'
  BY <1>t, <1>f DEF Inv, NoOrphanTransport
<1>10. QED
  BY <1>1, <1>2, <1>3, <1>4, <1>5, <1>6, <1>7, <1>8, <1>9 DEF Inv

(* A request gets no further, before it was registered; or goes to wait.   *)
LEMMA SetUserPcKeepsInv ==
    ASSUME Inv, NEW u \in User, NEW p \in {"queued", "failed"},
           call' = [call EXCEPT ![u].pc = p],
           call[u].pc \in {"idle", "queued"}, connector.pc = "up",
           p = "queued" => u \in Uncorrelated,
           UNCHANGED <<connVars, routeVars, written, lockVars, connector, taskVars, open>>
    PROVE  Inv'
<1> USE RequestFacts DEF connVars, routeVars, lockVars, taskVars
<1>t. TypeOK
  BY DEF Inv
<1>f. /\ call' \in [Request -> CallState]
      /\ \A q \in Request \ {u} : call'[q] = call[q]
      /\ call'[u].pc = p /\ call'[u].answer = call[u].answer
      /\ u \in Request /\ u \notin {Hello, Login, Beat}
  <2>1. p \in Progress /\ u \in Request /\ call[u] \in CallState
    BY <1>t DEF Progress, InFlight, TypeOK
  <2>2. QED
    BY <1>t, <2>1, SetPc DEF TypeOK
<1>1. TypeOK'
  BY <1>t, <1>f DEF Inv, TypeOK
<1>2. Lifecycle'
  BY <1>t, <1>f DEF Inv, Lifecycle
<1>3. RequestsInTurn'
  BY <1>t, <1>f DEF Inv, RequestsInTurn, InFlight, Registered
<1>4. PeerKnown'
  BY <1>t, <1>f DEF Inv, PeerKnown
<1>5. SingleFlight'
  BY <1>t, <1>f DEF Inv, SingleFlight
<1>6. NoWaiterOnDeadTransport'
  BY <1>t, <1>f DEF Inv, NoWaiterOnDeadTransport, Registered
<1>7. NothingLeftBehind'
  BY <1>t, <1>f DEF Inv, NothingLeftBehind, Registered
<1>8. AnswersMatch'
  BY <1>t, <1>f DEF Inv, AnswersMatch
<1>9. NoOrphanTransport'
  BY <1>t, <1>f DEF Inv, NoOrphanTransport
<1>10. QED
  BY <1>1, <1>2, <1>3, <1>4, <1>5, <1>6, <1>7, <1>8, <1>9 DEF Inv

LEMMA SendKeepsInv == ASSUME Inv, NEW u \in User, Send(u) PROVE Inv'
<1>1. CASE Register(u) /\ connected
  BY <1>1, RegisterUserKeepsInv DEF Send, connected, lockVars
<1>2. CASE call' = [call EXCEPT ![u].pc = "failed"] /\ UNCHANGED pending
  BY <1>2, SetUserPcKeepsInv DEF Send, routeVars
<1>3. CASE call' = [call EXCEPT ![u].pc = "queued"] /\ UNCHANGED pending /\ u \in Uncorrelated
  BY <1>3, SetUserPcKeepsInv DEF Send, routeVars
<1>4. QED
  BY <1>1, <1>2, <1>3 DEF Send

LEMMA EnterSingleFlightKeepsInv == ASSUME Inv, NEW u \in User, EnterSingleFlight(u) PROVE Inv'
<1>1. call[u].pc = "queued" /\ connector.pc = "up" /\ u \in Uncorrelated
  BY RequestFacts DEF Inv, RequestsInTurn, SingleFlight, EnterSingleFlight
<1>2. CASE active
  BY <1>1, <1>2, RegisterUserKeepsInv DEF EnterSingleFlight
<1>3. CASE ~ active
  BY <1>1, <1>3, SetUserPcKeepsInv DEF EnterSingleFlight, routeVars, lockVars
<1>4. QED
  BY <1>2, <1>3

(* A request takes or leaves the write lock.                               *)
LEMMA WritingKeepsInv ==
    ASSUME Inv, NEW r \in Request,
           \/ /\ call[r].pc = "registered" /\ writeLock = None /\ active
              /\ call' = [call EXCEPT ![r].pc = "draining"]
              /\ writeLock' = r /\ written' = written \union {r}
           \/ /\ writeLock = r
              /\ call' = [call EXCEPT ![r].pc = "waiting"]
              /\ writeLock' = None /\ UNCHANGED written,
           UNCHANGED <<connVars, routeVars, requestLock, connector, taskVars, open>>
    PROVE  Inv'
<1> USE RequestFacts DEF connVars, routeVars, taskVars
<1>t. TypeOK
  BY DEF Inv
<1>f. /\ call' \in [Request -> CallState]
      /\ \A q \in Request \ {r} : call'[q] = call[q]
      /\ call'[r].future = call[r].future /\ call'[r].answer = call[r].answer
      /\ \/ call[r].pc = "registered" /\ call'[r].pc = "draining" /\ writeLock = None
            /\ writeLock' = r
         \/ call[r].pc = "draining" /\ call'[r].pc = "waiting" /\ writeLock = r
            /\ writeLock' = None
      /\ r \in written'
      /\ written \subseteq written' /\ written' \subseteq written \union {r}
  <2>1. call[r] \in CallState /\ {"draining", "waiting"} \subseteq Progress
    BY <1>t DEF Progress, InFlight, Registered, TypeOK
  <2>2. writeLock = r => call[r].pc = "draining" /\ r \in written
    BY DEF Inv, NothingLeftBehind, RequestsInTurn
  <2>3. CASE call[r].pc = "registered" /\ writeLock = None
    <3> DEFINE d == [call[r] EXCEPT !.pc = "draining"]
    <3>1. d \in CallState /\ d.pc = "draining" /\ d.future = call[r].future
          /\ d.answer = call[r].answer
      BY <2>1, SetPc
    <3>2. call' = [call EXCEPT ![r] = d] /\ writeLock' = r /\ written' = written \union {r}
      BY <2>3
    <3> HIDE DEF d
    <3>3. QED
      BY <1>t, <2>3, <3>1, <3>2 DEF TypeOK
  <2>4. CASE writeLock = r
    <3> DEFINE d == [call[r] EXCEPT !.pc = "waiting"]
    <3>1. d \in CallState /\ d.pc = "waiting" /\ d.future = call[r].future
          /\ d.answer = call[r].answer
      BY <2>1, SetPc
    <3>2. call' = [call EXCEPT ![r] = d] /\ writeLock' = None /\ written' = written
      BY <2>4
    <3> HIDE DEF d
    <3>3. QED
      BY <1>t, <2>2, <2>4, <3>1, <3>2 DEF TypeOK
  <2>5. QED
    BY <2>3, <2>4
<1>p. /\ call[r].pc \in InFlight /\ call[r].pc \in Registered
      /\ call'[r].pc \in Registered /\ call'[r].pc \in InFlight
      /\ call[r].pc # "idle" /\ call'[r].pc # "idle" /\ call'[r].pc # "queued"
      /\ call'[r].pc # "answered"
  BY <1>f DEF InFlight, Registered
<1>w. \A q \in Request : writeLock' = q <=> call'[q].pc = "draining"
  BY <1>f DEF Inv, NothingLeftBehind
<1>1. TypeOK'
  BY <1>t, <1>f, <1>p DEF Inv, TypeOK
<1>2. Lifecycle'
  BY <1>t, <1>f, <1>p DEF Inv, Lifecycle
<1>3. RequestsInTurn'
  BY <1>t, <1>f, <1>p DEF Inv, RequestsInTurn
<1>4. PeerKnown'
  BY <1>t, <1>f, <1>p DEF Inv, PeerKnown
<1>5. SingleFlight'
  BY <1>t, <1>f, <1>p DEF Inv, SingleFlight
<1>6. NoWaiterOnDeadTransport'
  BY <1>t, <1>f, <1>p DEF Inv, NoWaiterOnDeadTransport
<1>7. NothingLeftBehind'
  BY <1>t, <1>f, <1>p, <1>w, LeavesNothingMore DEF Inv, NothingLeftBehind
<1>8. AnswersMatch'
  BY <1>t, <1>f, <1>p DEF Inv, AnswersMatch
<1>9. NoOrphanTransport'
  BY <1>t, <1>f, <1>p DEF Inv, NoOrphanTransport
<1>10. QED
  BY <1>1, <1>2, <1>3, <1>4, <1>5, <1>6, <1>7, <1>8, <1>9 DEF Inv

LEMMA BeginWriteKeepsInv == ASSUME Inv, NEW r \in Request, BeginWrite(r) PROVE Inv'
<1>1. CASE active
  BY <1>1, WritingKeepsInv DEF BeginWrite
<1>2. CASE ~ active
  BY <1>2, FinishKeepsInv DEF BeginWrite
<1>3. QED
  BY <1>1, <1>2

LEMMA DrainDoneKeepsInv == ASSUME Inv, NEW r \in Request, DrainDone(r) PROVE Inv'
BY WritingKeepsInv DEF DrainDone

(* A disconnect happens while the transport is up, and closes it.          *)
LEMMA DisconnectKeepsInv ==
    ASSUME Inv, active, NEW r, Disconnect(r), UNCHANGED <<written, connector>>
    PROVE  Inv'
<1>1. tasksHeld /\ Beat \in {r, Beat} /\ heartbeat' \in {heartbeat, "none"}
  BY DEF Inv, Lifecycle, Disconnect
<1>2. QED
  BY <1>1, LosingKeepsInv DEF Disconnect

LEMMA DrainFailsKeepsInv == ASSUME Inv, NEW r \in Request, DrainFails(r) PROVE Inv'
<1>1. CASE active
  BY <1>1, DisconnectKeepsInv DEF DrainFails
<1>2. CASE ~ active
  BY <1>2, FinishKeepsInv DEF DrainFails
<1>3. QED
  BY <1>1, <1>2

LEMMA ResumeKeepsInv == ASSUME Inv, NEW r \in Request, Resume(r) PROVE Inv'
BY FinishKeepsInv DEF Resume

LEMMA TimeoutKeepsInv == ASSUME Inv, NEW r \in Request, Timeout(r) PROVE Inv'
BY FinishKeepsInv DEF Timeout
---------------------------------------------------------------------------
(* The reader.                                                             *)

(* Whom a packet answers: the request it is about, or the one in the slot. *)
LEMMA RoutedToFacts ==
    ASSUME Inv, NEW about \in Request \union {Stray}, NEW keys \in SUBSET Field
    PROVE  /\ RoutedTo(about, keys) \in Request \union {None}
           /\ RoutedTo(about, keys) # None => call[RoutedTo(about, keys)].pc \in Registered
           /\ \/ RoutedTo(about, keys) \in {about, None}
              \/ RoutedTo(about, keys) \in Uncorrelated
<1>1. /\ single \in Request \union {None}
      /\ single # None => single \in Uncorrelated /\ call[single].pc \in Registered
  BY RequestFacts DEF Inv, TypeOK, SingleFlight, NothingLeftBehind
<1>2. about \in Request /\ keys \intersect pending[about] # {} => call[about].pc \in Registered
  BY DEF Inv, NothingLeftBehind
<1>3. QED
  BY <1>1, <1>2, RequestFacts DEF RoutedTo

LEMMA ReceiveKeepsInv ==
    ASSUME Inv, NEW about \in Request \union {Stray}, NEW keys \in SUBSET Field,
           NEW stateUpdate \in BOOLEAN, NEW deviceId \in BOOLEAN,
           Receive(about, keys, stateUpdate, deviceId)
    PROVE  Inv'
<1> USE RequestFacts
<1>t. TypeOK
  BY DEF Inv
<1>v. UNCHANGED <<connVars, routeVars, written, lockVars, connector, taskVars, open>>
  BY <1>t DEF Receive, TypeOK
<1>f. /\ call' \in [Request -> CallState]
      /\ \A q \in Request :
           /\ call'[q].pc = call[q].pc
           /\ call[q].future # "undone" => call'[q].future # "undone"
           /\ \/ call'[q].answer = call[q].answer
              \/ call'[q].answer = q \/ q \in Uncorrelated
  <2> DEFINE r == RoutedTo(about, keys)
  <2>1. CASE r # None /\ call[r].future = "undone"
             /\ call' = [call EXCEPT ![r].future = "result", ![r].answer = about]
    <3>1. r \in Request /\ call[r] \in CallState
      BY <2>1, <1>t, RoutedToFacts DEF TypeOK
    <3> DEFINE d == [call[r] EXCEPT !.future = "result", !.answer = about]
    <3>2. d \in CallState /\ d.pc = call[r].pc /\ d.future = "result" /\ d.answer = about
      BY <3>1, ResolveFuture
    <3>3. call' = [call EXCEPT ![r] = d]
      BY <2>1, <3>1, <1>t DEF TypeOK
    <3>4. r = about \/ r \in Uncorrelated
      BY <2>1, RoutedToFacts
    <3> HIDE DEF d, r
    <3>5. QED
      BY <3>1, <3>2, <3>3, <3>4, <1>t DEF TypeOK
  <2>2. CASE UNCHANGED call
    BY <2>2, <1>t DEF TypeOK
  <2>3. QED
    BY <2>1, <2>2 DEF Receive
<1> USE <1>v DEF connVars, routeVars, lockVars, taskVars
<1>1. TypeOK'
  BY <1>t, <1>f DEF Inv, TypeOK
<1>2. Lifecycle'
  BY <1>t, <1>f DEF Inv, Lifecycle
<1>3. RequestsInTurn'
  BY <1>t, <1>f DEF Inv, RequestsInTurn
<1>4. PeerKnown'
  BY <1>t, <1>f DEF Inv, PeerKnown
<1>5. SingleFlight'
  BY <1>t, <1>f DEF Inv, SingleFlight
<1>6. NoWaiterOnDeadTransport'
  BY <1>t, <1>f DEF Inv, NoWaiterOnDeadTransport
<1>7. NothingLeftBehind'
  BY <1>t, <1>f, LeavesNothingMore DEF Inv, NothingLeftBehind
<1>8. AnswersMatch'
  BY <1>t, <1>f DEF Inv, AnswersMatch
<1>9. NoOrphanTransport'
  BY <1>t, <1>f DEF Inv, NoOrphanTransport
<1>10. QED
  BY <1>1, <1>2, <1>3, <1>4, <1>5, <1>6, <1>7, <1>8, <1>9 DEF Inv

LEMMA ReaderStopsKeepsInv == ASSUME Inv, ReaderStops PROVE Inv'
BY DisconnectKeepsInv DEF ReaderStops, Inv, Lifecycle
---------------------------------------------------------------------------
(* The heartbeat and close().                                              *)

LEMMA HeartbeatFiresKeepsInv == ASSUME Inv, HeartbeatFires PROVE Inv'
<1> USE RequestFacts DEF connVars, lockVars
<1>v. /\ heartbeat = "sleeping"
      /\ UNCHANGED <<connVars, single, written, lockVars, connector, reader, finishing,
                     open>>
  BY DEF HeartbeatFires
<1>t. TypeOK
  BY DEF Inv
<1>s. connector.pc \notin Handshaking \union {"idle"} /\ call[Beat].pc \notin InFlight
  BY <1>v DEF Inv, Lifecycle, RequestsInTurn
<1>1. CASE connected /\ heartbeat' = "requesting" /\ Register(Beat)
  <2>f. /\ call' \in [Request -> CallState] /\ pending' \in [Request -> SUBSET Field]
        /\ \A q \in Request \ {Beat} : call'[q] = call[q] /\ pending'[q] = pending[q]
        /\ call'[Beat].pc = "registered" /\ call'[Beat].answer = None
        /\ pending'[Beat] # {}
        /\ call[Beat].pc # "draining" /\ active /\ heartbeat' = "requesting"
    BY <1>t, <1>s, <1>1, RegisterFacts, FreshCalls DEF InFlight, Registered, connected
  <2>1. TypeOK'
    BY <1>t, <1>v, <1>s, <2>f DEF Inv, TypeOK
  <2>2. Lifecycle'
    BY <1>t, <1>v, <1>s, <2>f DEF Inv, Lifecycle
  <2>3. RequestsInTurn'
    BY <1>t, <1>v, <1>s, <2>f DEF Inv, RequestsInTurn, InFlight, Registered
  <2>4. PeerKnown'
    BY <1>t, <1>v, <1>s, <2>f DEF Inv, PeerKnown
  <2>5. SingleFlight'
    BY <1>t, <1>v, <1>s, <2>f DEF Inv, SingleFlight
  <2>6. NoWaiterOnDeadTransport'
    BY <1>t, <1>v, <1>s, <2>f DEF Inv, NoWaiterOnDeadTransport, Lifecycle
  <2>7. NothingLeftBehind'
    BY <1>t, <1>v, <1>1, <2>f, RegisterLeavesNothing DEF Inv, NothingLeftBehind
  <2>8. AnswersMatch'
    BY <1>t, <1>v, <1>s, <2>f DEF Inv, AnswersMatch
  <2>9. NoOrphanTransport'
    BY <1>t, <1>v, <1>s, <2>f DEF Inv, NoOrphanTransport
  <2>10. QED
    BY <2>1, <2>2, <2>3, <2>4, <2>5, <2>6, <2>7, <2>8, <2>9 DEF Inv
<1>2. CASE heartbeat' = "none" /\ UNCHANGED <<call, pending>>
  <2>1. TypeOK'
    BY <1>t, <1>v, <1>2, <1>s DEF Inv, TypeOK
  <2>2. Lifecycle'
    BY <1>t, <1>v, <1>2, <1>s DEF Inv, Lifecycle
  <2>3. RequestsInTurn'
    BY <1>t, <1>v, <1>2, <1>s DEF Inv, RequestsInTurn
  <2>4. PeerKnown'
    BY <1>t, <1>v, <1>2, <1>s DEF Inv, PeerKnown
  <2>5. SingleFlight'
    BY <1>t, <1>v, <1>2, <1>s DEF Inv, SingleFlight
  <2>6. NoWaiterOnDeadTransport'
    BY <1>t, <1>v, <1>2, <1>s DEF Inv, NoWaiterOnDeadTransport
  <2>7. NothingLeftBehind'
    BY <1>t, <1>v, <1>2, <1>s DEF Inv, NothingLeftBehind
  <2>8. AnswersMatch'
    BY <1>t, <1>v, <1>2, <1>s DEF Inv, AnswersMatch
  <2>9. NoOrphanTransport'
    BY <1>t, <1>v, <1>2, <1>s DEF Inv, NoOrphanTransport
  <2>10. QED
    BY <2>1, <2>2, <2>3, <2>4, <2>5, <2>6, <2>7, <2>8, <2>9 DEF Inv
<1>3. QED
  BY <1>1, <1>2 DEF HeartbeatFires

LEMMA HeartbeatEndsKeepsInv == ASSUME Inv, HeartbeatEnds PROVE Inv'
<1> USE RequestFacts DEF connVars, routeVars, lockVars
<1>t. TypeOK
  BY DEF Inv
<1>v. /\ heartbeat = "requesting"
      /\ UNCHANGED <<connVars, routeVars, lockVars, connector, reader, finishing,
                     open>>
      /\ heartbeat' \in {"none", "sleeping", "closing"}
      /\ written' = written \ {Beat}
  BY DEF HeartbeatEnds
<1>s. connector.pc \notin Handshaking \union {"idle"}
  BY <1>v DEF Inv, Lifecycle
<1>f. /\ call' \in [Request -> CallState]
      /\ \A q \in Request \ {Beat} : call'[q] = call[q]
      /\ call'[Beat].pc = "idle" /\ call'[Beat].answer = None
      /\ call[Beat].pc \in {"answered", "failed"}
  BY <1>t, FreshCalls DEF HeartbeatEnds, TypeOK
<1>1. TypeOK'
  BY <1>t, <1>v, <1>s, <1>f DEF Inv, TypeOK
<1>2. Lifecycle'
  BY <1>t, <1>v, <1>s, <1>f DEF Inv, Lifecycle
<1>3. RequestsInTurn'
  BY <1>t, <1>v, <1>s, <1>f DEF Inv, RequestsInTurn, InFlight, Registered
<1>4. PeerKnown'
  BY <1>t, <1>v, <1>s, <1>f DEF Inv, PeerKnown
<1>5. SingleFlight'
  BY <1>t, <1>v, <1>s, <1>f DEF Inv, SingleFlight
<1>6. NoWaiterOnDeadTransport'
  BY <1>t, <1>v, <1>s, <1>f DEF Inv, NoWaiterOnDeadTransport, Registered
<1>7. NothingLeftBehind'
  BY <1>t, <1>v, <1>f, LeavesNothingMore DEF Inv, NothingLeftBehind, Registered
<1>8. AnswersMatch'
  BY <1>t, <1>v, <1>s, <1>f DEF Inv, AnswersMatch
<1>9. NoOrphanTransport'
  BY <1>t, <1>v, <1>s, <1>f DEF Inv, NoOrphanTransport
<1>10. QED
  BY <1>1, <1>2, <1>3, <1>4, <1>5, <1>6, <1>7, <1>8, <1>9 DEF Inv

LEMMA HeartbeatClosesKeepsInv == ASSUME Inv, HeartbeatCloses PROVE Inv'
<1>1. connector.pc \notin Handshaking \union {"idle"}
  BY DEF Inv, Lifecycle, HeartbeatCloses
<1>2. QED
  BY <1>1, DetachKeepsInv DEF HeartbeatCloses

LEMMA CloseKeepsInv == ASSUME Inv, Close PROVE Inv'
BY DetachKeepsInv DEF Close, lifecycleLocked

LEMMA CloseWriterKeepsInv == ASSUME Inv, CloseWriter PROVE Inv'
<1> USE RequestFacts DEF CloseWriter, connVars, routeVars, lockVars
<1>t. TypeOK
  BY DEF Inv
<1>1. TypeOK'
  BY <1>t DEF Inv, TypeOK
<1>2. Lifecycle'
  BY <1>t DEF Inv, Lifecycle
<1>3. RequestsInTurn'
  BY <1>t DEF Inv, RequestsInTurn
<1>4. PeerKnown'
  BY <1>t DEF Inv, PeerKnown
<1>5. SingleFlight'
  BY <1>t DEF Inv, SingleFlight
<1>6. NoWaiterOnDeadTransport'
  BY <1>t DEF Inv, NoWaiterOnDeadTransport
<1>7. NothingLeftBehind'
  BY <1>t DEF Inv, NothingLeftBehind
<1>8. AnswersMatch'
  BY <1>t DEF Inv, AnswersMatch
<1>9. NoOrphanTransport'
  BY <1>t DEF Inv, NoOrphanTransport
<1>10. QED
  BY <1>1, <1>2, <1>3, <1>4, <1>5, <1>6, <1>7, <1>8, <1>9 DEF Inv
---------------------------------------------------------------------------
LEMMA InitInv == Init => Inv
<1> SUFFICES ASSUME Init PROVE Inv
  OBVIOUS
<1> USE RequestFacts, FreshCalls DEF Init
<1>1. connector \in ConnectorState
  BY DEF ConnectorState, Uid
<1>2. TypeOK
  BY <1>1 DEF TypeOK
<1>3. Lifecycle /\ PeerKnown /\ SingleFlight
  BY DEF Lifecycle, PeerKnown, SingleFlight
<1>4. RequestsInTurn
  BY DEF RequestsInTurn, InFlight, Registered
<1>5. NoWaiterOnDeadTransport /\ NothingLeftBehind /\ AnswersMatch /\ NoOrphanTransport
  BY DEF NoWaiterOnDeadTransport, NothingLeftBehind, AnswersMatch, NoOrphanTransport, Registered
<1>6. QED
  BY <1>2, <1>3, <1>4, <1>5 DEF Inv

LEMMA NextKeepsInv == Inv /\ [Next]_vars => Inv'
<1> SUFFICES ASSUME Inv, [Next]_vars PROVE Inv'
  OBVIOUS
<1>1. CASE HandshakeStep
  BY <1>1, ConnectKeepsInv, OpenTransportKeepsInv, HelloAnsweredKeepsInv,
     LoginAnsweredKeepsInv, ConnectFailsKeepsInv, CleanUpConnectKeepsInv,
     CloseFailedConnectKeepsInv DEF HandshakeStep
<1>2. ASSUME NEW u \in User, Send(u) \/ EnterSingleFlight(u) PROVE Inv'
  BY <1>2, SendKeepsInv, EnterSingleFlightKeepsInv
<1>3. ASSUME NEW r \in Request, RequestStep(r) PROVE Inv'
  BY <1>3, BeginWriteKeepsInv, DrainDoneKeepsInv, DrainFailsKeepsInv, ResumeKeepsInv,
     TimeoutKeepsInv DEF RequestStep
<1>4. CASE PeerStep
  BY <1>4, ReceiveKeepsInv, ReaderStopsKeepsInv DEF PeerStep
<1>5. CASE HeartbeatStep
  BY <1>5, HeartbeatFiresKeepsInv, HeartbeatEndsKeepsInv, HeartbeatClosesKeepsInv
  DEF HeartbeatStep
<1>6. CASE Close \/ CloseWriter
  BY <1>6, CloseKeepsInv, CloseWriterKeepsInv
<1>7. CASE UNCHANGED vars
  BY <1>7 DEF vars, connVars, routeVars, lockVars, taskVars, Inv, TypeOK, Lifecycle,
     RequestsInTurn, PeerKnown, SingleFlight, NoWaiterOnDeadTransport, NothingLeftBehind,
     AnswersMatch, NoOrphanTransport
<1>8. QED
  BY <1>1, <1>2, <1>3, <1>4, <1>5, <1>6, <1>7 DEF Next

LEMMA ConnectionInv == Spec => []Inv
<1>1. QED
  BY InitInv, NextKeepsInv, PTL DEF Spec

(* Every variable keeps its type, whatever the gateway sends and when      *)
(* gateway_connection.py:60-115).                                          *)
THEOREM ConnectionTypeCorrect == Spec => []TypeOK
<1>1. Inv => TypeOK
  BY DEF Inv
<1>2. QED
  BY <1>1, ConnectionInv, PTL

(* No request is left waiting for a response on a transport that is gone,  *)
(* for any number of concurrent requests (gateway_connection.py:424-437).  *)
THEOREM NoRequestIsStranded == Spec => []NoWaiterOnDeadTransport
<1>1. Inv => NoWaiterOnDeadTransport
  BY DEF Inv
<1>2. QED
  BY <1>1, ConnectionInv, PTL

(* A request that has ended leaves no route and no lock behind, for any    *)
(* number of concurrent requests (gateway_connection.py:339-346, 392-399). *)
THEOREM EndedRequestsLeaveNothing == Spec => []NothingLeftBehind
<1>1. Inv => NothingLeftBehind
  BY DEF Inv
<1>2. QED
  BY <1>1, ConnectionInv, PTL

(* A request with correlation fields of its own only ever gets its own     *)
(* response (gateway_connection.py:380-381, 552-597).                      *)
THEOREM RequestsGetTheirOwnAnswers == Spec => []AnswersMatch
<1>1. Inv => AnswersMatch
  BY DEF Inv
<1>2. QED
  BY <1>1, ConnectionInv, PTL

(* An open transport belongs to a live connection or to the close() that   *)
(* is about to close it (gateway_connection.py:414-450, 517-533).          *)
THEOREM TransportsHaveAnOwner == Spec => []NoOrphanTransport
<1>1. Inv => NoOrphanTransport
  BY DEF Inv
<1>2. QED
  BY <1>1, ConnectionInv, PTL

(* Commands only ever reach a gateway that has logged in and named the     *)
(* expected UID, or none where that is allowed, and identity_confirmed is  *)
(* never wrong (gateway_connection.py:210-215, 248-271, 406-411).          *)
THEOREM CommandsReachTheExpectedGateway == Spec => []OnlyTheExpectedGateway
<1>1. Inv => OnlyTheExpectedGateway
  <2> SUFFICES ASSUME Inv PROVE OnlyTheExpectedGateway
    OBVIOUS
  <2>1. written \intersect User # {} => connector.pc = "up"
    BY DEF Inv, RequestsInTurn
  <2>2. identityConfirmed => connector.pc = "up"
    BY DEF Inv, Lifecycle
  <2>3. QED
    BY <2>1, <2>2 DEF Inv, PeerKnown, OnlyTheExpectedGateway
<1>2. QED
  BY <1>1, ConnectionInv, PTL

---------------------------------------------------------------------------
(* The refinement of GatewaySession.                                       *)

(* What the mapping needs beyond Inv: the session serves from the login to *)
(* its loss, and a future is failed only by the loss.                      *)
ReadyWhenUp ==
    /\ ready => connector.pc = "up"
    /\ connector.pc = "up" /\ active => ready

FuturesFollow ==
    \A u \in User :
        /\ call[u].pc \in {"idle", "queued"} => call[u].future = "undone"
        /\ call[u].future = "error" => ~ active

SessionInv == Inv /\ ReadyWhenUp /\ FuturesFollow

Step == [Session!Next]_(Session!session)

---------------------------------------------------------------------------
(* What is seen of a request, and when nothing of it changes.              *)

LEMMA SeenFacts ==
    ASSUME TypeOK, NEW u \in User
    PROVE  /\ call[u].pc \in Progress
           /\ call[u].future \in {"undone", "result", "error"}
           /\ call[u].pc \notin InFlight => Seen(u) = call[u].pc
           /\ call[u].pc \in InFlight =>
                Seen(u) = IF call[u].future = "result" THEN "replied"
                          ELSE IF call[u].future = "undone" /\ connected THEN "waiting"
                          ELSE "doomed"
BY CallFields, RequestFacts DEF TypeOK, Seen

LEMMA SeenFactsNext ==
    ASSUME TypeOK', NEW u \in User
    PROVE  /\ call'[u].pc \in Progress
           /\ call'[u].future \in {"undone", "result", "error"}
           /\ call'[u].pc \notin InFlight => Seen(u)' = call'[u].pc
           /\ call'[u].pc \in InFlight =>
                Seen(u)' = IF call'[u].future = "result" THEN "replied"
                           ELSE IF call'[u].future = "undone" /\ connected' THEN "waiting"
                           ELSE "doomed"
<1>1. call'[u] \in CallState
  BY RequestFacts DEF TypeOK
<1>2. QED
  BY <1>1, CallFields DEF Seen

LEMMA Unseen ==
    ASSUME TypeOK, TypeOK', Link' = Link, connected' = connected,
           written' \intersect User = written \intersect User,
           \A u \in User : /\ call'[u].future = call[u].future
                           /\ \/ call'[u].pc = call[u].pc
                              \/ call'[u].pc \in InFlight /\ call[u].pc \in InFlight
    PROVE  Step
<1>1. \A u \in User : Seen(u)' = Seen(u)
  BY SeenFacts, SeenFactsNext
<1>2. [u \in User |-> Seen(u)]' = [u \in User |-> Seen(u)]
  BY <1>1
<1>3. QED
  BY <1>2 DEF Step, Session!session

(* A step that concerns one request only.                                  *)
LEMMA OneSeen ==
    ASSUME NEW u \in User, connected' = connected,
           \A v \in User \ {u} : call'[v].pc = call[v].pc /\ call'[v].future = call[v].future
    PROVE  /\ [v \in User |-> Seen(v)]' = [[v \in User |-> Seen(v)] EXCEPT ![u] = Seen(u)']
           /\ [v \in User |-> Seen(v)][u] = Seen(u)
<1>1. \A v \in User \ {u} : Seen(v)' = Seen(v)
  BY DEF Seen
<1>2. QED
  BY <1>1
---------------------------------------------------------------------------
(* Steps that leave the requests of users alone.                           *)

Alone ==
    /\ \A u \in User : call'[u] = call[u]
    /\ written' \intersect User = written \intersect User

LEMMA AloneIsUnseen ==
    ASSUME SessionInv, Inv', Alone, UNCHANGED <<active, ready>>, Link' = Link,
           connector'.pc = "up" <=> connector.pc = "up"
    PROVE  FuturesFollow' /\ ReadyWhenUp' /\ Step
<1>1. FuturesFollow' /\ ReadyWhenUp'
  BY DEF SessionInv, FuturesFollow, ReadyWhenUp, Alone
<1>2. connected' = connected
  BY DEF connected
<1>3. Step
  BY <1>2, Unseen DEF SessionInv, Inv, Alone
<1>4. QED
  BY <1>1, <1>3

LEMMA ConnectStep ==
    ASSUME SessionInv, Inv', Connect
    PROVE  FuturesFollow' /\ ReadyWhenUp' /\ Step
<1>1. connector.pc = "idle" /\ connector'.pc = "opening"
  BY DEF Connect, SessionInv, Inv, TypeOK, ConnectorState
<1>2. Link' = Link /\ Alone /\ UNCHANGED <<active, ready>>
  BY <1>1 DEF Connect, Link, Alone, connVars
<1>3. QED
  BY <1>1, <1>2, AloneIsUnseen

LEMMA OpenTransportStep ==
    ASSUME SessionInv, Inv', OpenTransport
    PROVE  FuturesFollow' /\ ReadyWhenUp' /\ Step
<1>1. connector.pc = "opening" /\ connector'.pc = "hello" /\ active' /\ ready' = ready
  BY DEF OpenTransport, SessionInv, Inv, TypeOK, ConnectorState
<1>2. ~ active /\ ~ ready
  BY <1>1 DEF SessionInv, Inv, Lifecycle, ReadyWhenUp
<1>3. \A u \in User : call[u].pc = "idle" /\ call'[u] = call[u]
  BY <1>1, RequestFacts DEF OpenTransport, Register, SessionInv, Inv, TypeOK, RequestsInTurn
<1>4. FuturesFollow' /\ ReadyWhenUp'
  BY <1>1, <1>2, <1>3 DEF SessionInv, FuturesFollow, ReadyWhenUp
<1>5. Link = "new" /\ Link' = "open"
  BY <1>1, <1>2 DEF Link
<1>6. \A u \in User : Seen(u)' = Seen(u)
  BY <1>3 DEF Seen, InFlight, Registered
<1>7. written' = written
  BY DEF OpenTransport
<1>8. Session!Open
  BY <1>5, <1>6, <1>7 DEF Session!Open
<1>9. QED
  BY <1>4, <1>8 DEF Step, Session!Next

LEMMA HelloAnsweredStep ==
    ASSUME SessionInv, Inv', NEW uid \in Uid, NEW credentials \in BOOLEAN,
           HelloAnswered(uid, credentials)
    PROVE  FuturesFollow' /\ ReadyWhenUp' /\ Step
<1>1. connector.pc = "hello" /\ connector'.pc \in {"login", "cleanup"}
  BY DEF HelloAnswered, SessionInv, Inv, TypeOK, ConnectorState
<1>2. Link' = Link /\ UNCHANGED <<active, ready>>
  BY <1>1 DEF HelloAnswered, Link, connVars
<1>3. Alone
  BY RequestFacts DEF HelloAnswered, Register, Alone, SessionInv, Inv, TypeOK
<1>4. QED
  BY <1>1, <1>2, <1>3, AloneIsUnseen

LEMMA LoginAnsweredStep ==
    ASSUME SessionInv, Inv', NEW uid \in Uid, NEW status \in {0, 1}, LoginAnswered(uid, status)
    PROVE  FuturesFollow' /\ ReadyWhenUp' /\ Step
<1>1. connector.pc = "login" /\ ~ ready /\ active' = active /\ UNCHANGED <<call, written>>
  BY DEF LoginAnswered, SessionInv, ReadyWhenUp, routeVars
<1>2. Alone
  BY <1>1 DEF Alone
<1>3. CASE ready' /\ connector'.pc = "up"
  <2>1. FuturesFollow' /\ ReadyWhenUp'
    BY <1>1, <1>3 DEF SessionInv, FuturesFollow, ReadyWhenUp
  <2>2. \A u \in User : call[u].pc = "idle"
    BY <1>1 DEF SessionInv, Inv, RequestsInTurn
  <2>3. \A u \in User : Seen(u)' = Seen(u)
    BY <1>1, <2>2 DEF Seen, InFlight, Registered
  <2>4. CASE active
    <3>1. Link = "open" /\ Link' = "serving"
      BY <1>1, <1>3, <2>4 DEF Link
    <3>2. Session!Serve
      BY <3>1, <2>3, <1>1 DEF Session!Serve
    <3>3. QED
      BY <2>1, <3>2 DEF Step, Session!Next
  <2>5. CASE ~ active
    <3>1. Link' = Link
      BY <1>1, <1>3, <2>5 DEF Link
    <3>2. QED
      BY <2>1, <2>3, <3>1, <1>1 DEF Step, Session!session
  <2>6. QED
    BY <2>4, <2>5 DEF SessionInv, Inv, TypeOK
<1>4. CASE ready' = ready /\ connector'.pc = "cleanup"
  <2>1. Link' = Link
    BY <1>1, <1>4 DEF Link
  <2>2. QED
    BY <1>1, <1>2, <1>4, <2>1, AloneIsUnseen
<1>5. QED
  BY <1>3, <1>4 DEF LoginAnswered, SessionInv, Inv, TypeOK, ConnectorState

LEMMA ConnectFailsStep ==
    ASSUME SessionInv, Inv', ConnectFails
    PROVE  FuturesFollow' /\ ReadyWhenUp' /\ Step
<1>1. /\ connector.pc \in Handshaking /\ connector'.pc = "cleanup"
      /\ UNCHANGED <<active, ready, written>>
  BY DEF ConnectFails, lifecycleLocked, SessionInv, Inv, TypeOK, ConnectorState, connVars
<1>2. \A u \in User : call'[u] = call[u]
  <2>1. \A u \in User : u \notin {Hello, Login}
    BY RequestFacts
  <2>2. QED
    BY <2>1, RequestFacts DEF ConnectFails, Finish, EndedCalls
<1>3. Alone
  BY <1>1, <1>2 DEF Alone
<1>4. CASE connector.pc = "opening"
  <2>1. ~ active /\ ~ ready /\ \A u \in User : call[u].pc = "idle"
    BY <1>4 DEF SessionInv, Inv, Lifecycle, ReadyWhenUp, RequestsInTurn
  <2>2. Link = "new" /\ Link' = "lost"
    BY <1>1, <1>4, <2>1 DEF Link
  <2>3. \A u \in User : Seen(u)' = Seen(u) /\ Seen(u) = "idle"
    BY <1>2, <2>1 DEF Seen, InFlight, Registered
  <2>4. Session!Lose({})
    BY <1>1, <2>2, <2>3 DEF Session!Lose
  <2>5. FuturesFollow' /\ ReadyWhenUp'
    BY <1>1, <1>2, <1>4 DEF SessionInv, FuturesFollow, ReadyWhenUp
  <2>6. {} \in SUBSET User
    OBVIOUS
  <2>7. QED
    BY <2>4, <2>5, <2>6 DEF Step, Session!Next
<1>5. CASE connector.pc # "opening"
  <2>1. Link' = Link
    BY <1>1, <1>5 DEF Link, Handshaking
  <2>2. QED
    BY <1>1, <1>3, <2>1, AloneIsUnseen DEF Handshaking
<1>6. QED
  BY <1>4, <1>5

LEMMA CleanUpConnectStep ==
    ASSUME SessionInv, Inv', CleanUpConnect
    PROVE  FuturesFollow' /\ ReadyWhenUp' /\ Step
<1>1. connector.pc = "cleanup" /\ connector'.pc \in {"closing", "failed"}
  BY DEF CleanUpConnect, SessionInv, Inv, TypeOK, ConnectorState
<1>2. Link' = Link /\ Alone /\ UNCHANGED <<active, ready>>
  BY <1>1 DEF CleanUpConnect, Link, Alone, connVars
<1>3. QED
  BY <1>1, <1>2, AloneIsUnseen
---------------------------------------------------------------------------
(* What ends a request, and what loses the transport.                      *)

LEMMA FinishStep ==
    ASSUME SessionInv, Inv', NEW r \in Request, NEW outcome \in {"answered", "failed"},
           Finish({r}, outcome), call[r].pc \in InFlight,
           outcome = "answered" => call[r].pc = "waiting" /\ call[r].future = "result",
           UNCHANGED <<active, ready, written, connector>>
    PROVE  FuturesFollow' /\ ReadyWhenUp' /\ Step
<1>1. /\ TypeOK /\ TypeOK' /\ connected' = connected /\ Link' = Link
      /\ User \subseteq Request
  BY RequestFacts DEF SessionInv, Inv, connected, Link
<1>2. \A q \in Request : /\ call'[q].future = call[q].future
                         /\ call'[q].pc = IF q = r THEN outcome ELSE call[q].pc
  BY <1>1, FinishFacts
<1>3. FuturesFollow' /\ ReadyWhenUp'
  BY <1>1, <1>2 DEF SessionInv, FuturesFollow, ReadyWhenUp
<1>4. CASE r \notin User
  <2>1. Step
    BY <1>1, <1>2, <1>4, Unseen
  <2>2. QED
    BY <1>3, <2>1
<1>5. CASE r \in User
  <2>1. Seen(r)' = outcome
    BY <1>1, <1>2, <1>5, SeenFactsNext DEF InFlight, Registered
  <2>2. /\ [v \in User |-> Seen(v)]' = [[v \in User |-> Seen(v)] EXCEPT ![r] = outcome]
        /\ [v \in User |-> Seen(v)][r] = Seen(r)
    BY <1>1, <1>2, <1>5, <2>1, OneSeen
  <2>3. Seen(r) \in {"waiting", "replied", "doomed"}
    BY <1>1, <1>5, SeenFacts
  <2>4. CASE outcome = "failed"
    <3>1. Session!Fail(r)
      BY <1>1, <2>2, <2>3, <2>4 DEF Session!Fail, Session!Become, Session!Pending
    <3>2. QED
      BY <1>3, <1>5, <3>1 DEF Step, Session!Next
  <2>5. CASE outcome = "answered"
    <3>1. Seen(r) = "replied" /\ r \in written
      BY <1>1, <1>5, <2>5, SeenFacts DEF SessionInv, Inv, RequestsInTurn
    <3>2. Session!Succeed(r)
      BY <1>1, <1>5, <2>2, <2>5, <3>1 DEF Session!Succeed, Session!Become
    <3>3. QED
      BY <1>3, <1>5, <3>2 DEF Step, Session!Next
  <2>6. QED
    BY <2>4, <2>5
<1>6. QED
  BY <1>4, <1>5

LEMMA LoseStep ==
    ASSUME SessionInv, Inv', NEW R, LoseTransport(R), UNCHANGED written,
           connector.pc \notin {"idle", "opening"}, connector'.pc \notin {"idle", "opening"},
           \A u, v \in R \intersect User : u = v /\ call[u].pc \in InFlight,
           R \intersect User # {} => active
    PROVE  FuturesFollow' /\ ReadyWhenUp' /\ Step
<1> DEFINE noticed == R \intersect User
<1>1. TypeOK /\ TypeOK' /\ NoWaiterOnDeadTransport /\ User \subseteq Request
  BY RequestFacts DEF SessionInv, Inv
<1>2. /\ ~ active' /\ ~ ready' /\ ~ connected'
      /\ call' \in [Request -> CallState]
      /\ \A q \in User : /\ call'[q].answer = call[q].answer
                         /\ call'[q].pc = IF q \in R /\ call[q].pc \in InFlight
                                          THEN "failed" ELSE call[q].pc
  BY <1>1, LoseFacts DEF connected
<1>3. \A q \in User : /\ (call[q].future = "result") <=> (call[q].answer # None)
                      /\ (call'[q].future = "result") <=> (call'[q].answer # None)
  <2>1. \A q \in User : call[q] \in CallState /\ call'[q] \in CallState
    BY <1>1, <1>2 DEF TypeOK
  <2>2. QED
    BY <2>1, CallFields
<1>4. \A u \in User : call[u].pc \in {"idle", "queued"} => call'[u].future = "undone"
  <2> SUFFICES ASSUME NEW u \in User, call[u].pc \in {"idle", "queued"}
               PROVE  call'[u].future = "undone"
    OBVIOUS
  <2>1. call[u].pc \notin Registered
    BY DEF Registered
  <2>2. pending[u] = {} /\ (single = u => FALSE)
    BY <1>1, <2>1, RequestFacts DEF SessionInv, Inv, NothingLeftBehind
  <2>3. FailedFutures[u] = call[u]
    BY <1>1, <2>2 DEF FailedFutures
  <2>4. call[u] \in CallState /\ call[u].future = "undone" /\ "failed" \in Progress
    BY <1>1 DEF TypeOK, SessionInv, FuturesFollow, Progress
  <2>5. call'[u] \in {call[u], [call[u] EXCEPT !.pc = "failed"]}
    BY <1>1, <2>3 DEF LoseTransport, EndedCalls
  <2>6. [call[u] EXCEPT !.pc = "failed"].future = "undone"
    BY <2>4, SetPc
  <2>7. QED
    BY <2>4, <2>5, <2>6
<1>5. FuturesFollow'
  BY <1>2, <1>4 DEF FuturesFollow
<1>6. ReadyWhenUp'
  BY <1>2 DEF ReadyWhenUp
<1>7. \A u \in User : Seen(u)' = IF u \in noticed THEN "failed"
                                ELSE IF Seen(u) = "waiting" THEN "doomed" ELSE Seen(u)
  <2> SUFFICES ASSUME NEW u \in User
               PROVE  Seen(u)' = IF u \in noticed THEN "failed"
                                 ELSE IF Seen(u) = "waiting" THEN "doomed" ELSE Seen(u)
    OBVIOUS
  <2>1. CASE call[u].pc \notin InFlight
    <3>1. u \notin noticed /\ call'[u].pc = call[u].pc /\ call[u].pc # "waiting"
      BY <1>2, <2>1 DEF InFlight, Registered
    <3>2. QED
      BY <1>1, <2>1, <3>1, SeenFacts, SeenFactsNext
  <2>2. CASE call[u].pc \in InFlight /\ u \in noticed
    <3>1. call'[u].pc = "failed" /\ "failed" \notin InFlight
      BY <1>2, <2>2 DEF InFlight, Registered
    <3>2. QED
      BY <1>1, <2>2, <3>1, SeenFactsNext
  <2>3. CASE call[u].pc \in InFlight /\ u \notin noticed
    <3>1. call'[u].pc = call[u].pc /\ call'[u].answer = call[u].answer
      BY <1>2, <2>3
    <3>2. call'[u].future = "result" <=> call[u].future = "result"
      BY <1>3, <3>1
    <3>3. Seen(u)' = IF call[u].future = "result" THEN "replied" ELSE "doomed"
      BY <1>1, <1>2, <2>3, <3>1, <3>2, SeenFactsNext
    <3>4. QED
      BY <1>1, <2>3, <3>3, SeenFacts
  <2>4. QED
    BY <2>1, <2>2, <2>3
<1>8. Link' = "lost"
  BY <1>2 DEF Link
<1>9. CASE active
  <2>1. Link # "lost"
    BY <1>9 DEF Link
  <2>2. \A u, v \in noticed : u = v /\ [w \in User |-> Seen(w)][u] \in {"waiting", "replied", "doomed"}
    BY <1>1, SeenFacts
  <2>3. Session!Lose(noticed)
    BY <1>7, <1>8, <2>1, <2>2 DEF Session!Lose, Session!Pending
  <2>4. noticed \in SUBSET User
    OBVIOUS
  <2>5. QED
    BY <1>5, <1>6, <2>3, <2>4 DEF Step, Session!Next
<1>10. CASE ~ active
  <2>1. Link = "lost" /\ noticed = {} /\ ~ connected
    BY <1>10 DEF Link, connected
  <2>2. \A u \in User : Seen(u)' = Seen(u)
    BY <1>1, <1>7, <2>1, SeenFacts DEF Progress, InFlight, Registered
  <2>3. QED
    BY <1>5, <1>6, <1>8, <2>1, <2>2 DEF Step, Session!session
<1>11. QED
  BY <1>9, <1>10 DEF SessionInv, Inv, TypeOK

LEMMA DetachStep ==
    ASSUME SessionInv, Inv', Detach, UNCHANGED written,
           connector.pc \notin Handshaking \union {"idle"},
           \/ UNCHANGED connector
           \/ connector.pc = "closing" /\ connector'.pc = "failed"
    PROVE  FuturesFollow' /\ ReadyWhenUp' /\ Step
<1>1. connector.pc \notin {"idle", "opening"} /\ connector'.pc \notin {"idle", "opening"}
  BY DEF Handshaking
<1>2. CASE active \/ tasksHeld
  <2>1. LoseTransport({Beat}) /\ {Beat} \intersect User = {}
    BY <1>2, RequestFacts DEF Detach
  <2>2. QED
    BY <1>1, <2>1, LoseStep
<1>3. CASE ~ active /\ ~ tasksHeld
  <2>1. Alone /\ UNCHANGED <<active, ready>>
    BY <1>3 DEF Detach, Alone, connVars
  <2>2. Link' = Link
    BY <1>1, <2>1 DEF Link
  <2>3. QED
    BY <2>1, <2>2, AloneIsUnseen
<1>4. QED
  BY <1>2, <1>3 DEF SessionInv, Inv, TypeOK

LEMMA DisconnectStep ==
    ASSUME SessionInv, Inv', NEW r \in Request \union {None}, Disconnect(r), active,
           r \in User => call[r].pc \in InFlight, UNCHANGED <<written, connector>>
    PROVE  FuturesFollow' /\ ReadyWhenUp' /\ Step
<1>1. {r, Beat} \intersect User \subseteq {r}
  BY RequestFacts
<1>2. connector.pc \notin {"idle", "opening"}
  BY DEF SessionInv, Inv, Lifecycle
<1>3. LoseTransport({r, Beat})
  BY DEF Disconnect
<1>4. QED
  BY <1>1, <1>2, <1>3, LoseStep
---------------------------------------------------------------------------
(* The steps of send() and request().                                      *)

LEMMA SendStep ==
    ASSUME SessionInv, Inv', NEW u \in User, Send(u)
    PROVE  FuturesFollow' /\ ReadyWhenUp' /\ Step
<1>1. /\ TypeOK /\ TypeOK' /\ User \subseteq Request /\ UNCHANGED <<active, ready, written, connector>>
      /\ connected' = connected /\ Link' = Link
  BY RequestFacts DEF SessionInv, Inv, Send, connVars, connected, Link
<1>2. /\ call[u] \in CallState /\ call[u].pc = "idle" /\ call[u].future = "undone"
      /\ connector.pc = "up"
  BY <1>1 DEF Send, TypeOK, SessionInv, FuturesFollow
<1>3. Seen(u) = "idle"
  BY <1>2 DEF Seen, InFlight, Registered
<1>4. ASSUME NEW p \in {"failed", "queued", "registered"}, call'[u].pc = p,
             call'[u].future = "undone", \A v \in User \ {u} : call'[v] = call[v],
             p = "failed" <=> ~ connected
      PROVE  FuturesFollow' /\ ReadyWhenUp' /\ Step
  <2>1. FuturesFollow' /\ ReadyWhenUp'
    BY <1>1, <1>2, <1>4 DEF SessionInv, FuturesFollow, ReadyWhenUp
  <2>2. /\ [v \in User |-> Seen(v)]' = [[v \in User |-> Seen(v)] EXCEPT ![u] = Seen(u)']
        /\ [v \in User |-> Seen(v)][u] = Seen(u)
    BY <1>1, <1>4, OneSeen
  <2>3. CASE connected
    <3>1. Link = "serving" /\ Seen(u)' = "waiting"
      BY <1>1, <1>4, <2>3, SeenFactsNext DEF Link, connected, InFlight, Registered
    <3>2. Session!Begin(u)
      BY <1>1, <1>3, <2>2, <3>1 DEF Session!Begin, Session!Become
    <3>3. QED
      BY <2>1, <3>2 DEF Step, Session!Next
  <2>4. CASE ~ connected
    <3>1. Link # "serving" /\ Seen(u)' = "failed"
      BY <1>1, <1>2, <1>4, <2>4, SeenFactsNext DEF Link, connected, InFlight, Registered
    <3>2. Session!Refuse(u)
      BY <1>1, <1>3, <2>2, <3>1 DEF Session!Refuse, Session!Become
    <3>3. QED
      BY <2>1, <3>2 DEF Step, Session!Next
  <2>5. QED
    BY <2>3, <2>4
<1>5. CASE ~ connected /\ call' = [call EXCEPT ![u].pc = "failed"]
  <2>1. "failed" \in Progress
    BY DEF Progress
  <2>2. call'[u].pc = "failed" /\ call'[u].future = "undone"
    BY <1>1, <1>2, <1>5, <2>1, SetPc DEF TypeOK
  <2>3. \A v \in User \ {u} : call'[v] = call[v]
    BY <1>1, <1>5 DEF TypeOK
  <2>4. QED
    BY <1>4, <1>5, <2>2, <2>3
<1>6. CASE connected /\ call' = [call EXCEPT ![u].pc = "queued"]
  <2>1. "queued" \in Progress
    BY DEF Progress, InFlight
  <2>2. call'[u].pc = "queued" /\ call'[u].future = "undone"
    BY <1>1, <1>2, <1>6, <2>1, SetPc DEF TypeOK
  <2>3. \A v \in User \ {u} : call'[v] = call[v]
    BY <1>1, <1>6 DEF TypeOK
  <2>4. QED
    BY <1>4, <1>6, <2>2, <2>3
<1>7. CASE connected /\ Register(u)
  <2>1. call'[u].pc = "registered" /\ call'[u].future = "undone"
    BY <1>1, <1>7, RegisterFacts, FreshCalls
  <2>2. \A v \in User \ {u} : call'[v] = call[v]
    BY <1>1, <1>7, RegisterFacts
  <2>3. QED
    BY <1>4, <1>7, <2>1, <2>2
<1>8. QED
  BY <1>5, <1>6, <1>7 DEF Send

LEMMA EnterSingleFlightStep ==
    ASSUME SessionInv, Inv', NEW u \in User, EnterSingleFlight(u)
    PROVE  FuturesFollow' /\ ReadyWhenUp' /\ Step
<1>1. /\ TypeOK /\ TypeOK' /\ User \subseteq Request /\ UNCHANGED <<active, ready, written, connector>>
      /\ connected' = connected /\ Link' = Link
  BY RequestFacts DEF SessionInv, Inv, EnterSingleFlight, connVars, connected, Link
<1>2. /\ call[u] \in CallState /\ call[u].pc = "queued" /\ call[u].future = "undone"
      /\ connector.pc = "up"
  BY <1>1 DEF EnterSingleFlight, TypeOK, SessionInv, FuturesFollow, Inv, RequestsInTurn
<1>3. CASE active /\ Register(u)
  <2>1. /\ call'[u].pc = "registered" /\ call'[u].future = "undone"
        /\ \A v \in User \ {u} : call'[v] = call[v]
    BY <1>1, <1>3, RegisterFacts, FreshCalls
  <2>2. FuturesFollow' /\ ReadyWhenUp'
    BY <1>1, <1>2, <2>1 DEF SessionInv, FuturesFollow, ReadyWhenUp
  <2>3. \A v \in User : /\ call'[v].future = call[v].future
                        /\ \/ call'[v].pc = call[v].pc
                           \/ call'[v].pc \in InFlight /\ call[v].pc \in InFlight
    BY <1>2, <2>1 DEF InFlight, Registered
  <2>4. Step
    BY <1>1, <2>3, Unseen
  <2>5. QED
    BY <2>2, <2>4
<1>4. CASE call' = [call EXCEPT ![u].pc = "failed"]
  <2>1. "failed" \in Progress
    BY DEF Progress
  <2>2. /\ call'[u].pc = "failed" /\ call'[u].future = "undone"
        /\ \A v \in User \ {u} : call'[v] = call[v]
    BY <1>1, <1>2, <1>4, <2>1, SetPc DEF TypeOK
  <2>3. FuturesFollow' /\ ReadyWhenUp'
    BY <1>1, <1>2, <2>2 DEF SessionInv, FuturesFollow, ReadyWhenUp
  <2>4. Seen(u)' = "failed"
    BY <1>1, <2>2, SeenFactsNext DEF InFlight, Registered
  <2>5. Seen(u) \in {"waiting", "doomed"}
    BY <1>1, <1>2, SeenFacts DEF InFlight
  <2>6. Session!Fail(u)
    BY <1>1, <2>2, <2>4, <2>5, OneSeen DEF Session!Fail, Session!Become, Session!Pending
  <2>7. QED
    BY <2>3, <2>6 DEF Step, Session!Next
<1>5. QED
  BY <1>3, <1>4 DEF EnterSingleFlight

LEMMA BeginWriteStep ==
    ASSUME SessionInv, Inv', NEW r \in Request, BeginWrite(r)
    PROVE  FuturesFollow' /\ ReadyWhenUp' /\ Step
<1>1. /\ TypeOK /\ TypeOK' /\ User \subseteq Request /\ UNCHANGED <<active, ready, connector>>
      /\ connected' = connected /\ Link' = Link
      /\ call[r] \in CallState /\ call[r].pc = "registered"
  BY RequestFacts DEF SessionInv, Inv, TypeOK, BeginWrite, connVars, connected, Link
<1>2. CASE ~ active
  <2>1. Finish({r}, "failed") /\ UNCHANGED written /\ call[r].pc \in InFlight
    BY <1>1, <1>2 DEF BeginWrite, InFlight, Registered
  <2>2. QED
    BY <1>1, <2>1, FinishStep
<1>3. CASE active
  <2>1. call' = [call EXCEPT ![r].pc = "draining"] /\ written' = written \union {r}
    BY <1>3 DEF BeginWrite
  <2>2. "draining" \in Progress
    BY DEF Progress, InFlight, Registered
  <2>3. \A q \in Request : /\ call'[q].pc = IF q = r THEN "draining" ELSE call[q].pc
                           /\ call'[q].future = call[q].future
    BY <1>1, <2>1, <2>2, SetPc DEF TypeOK
  <2>4. FuturesFollow' /\ ReadyWhenUp'
    BY <1>1, <2>3 DEF SessionInv, FuturesFollow, ReadyWhenUp
  <2>5. \A v \in User : /\ call'[v].future = call[v].future
                        /\ \/ call'[v].pc = call[v].pc
                           \/ call'[v].pc \in InFlight /\ call[v].pc \in InFlight
    BY <1>1, <2>3 DEF InFlight, Registered
  <2>6. CASE r \notin User
    <3>1. written' \intersect User = written \intersect User
      BY <2>1, <2>6
    <3>2. Step
      BY <1>1, <2>5, <3>1, Unseen
    <3>3. QED
      BY <2>4, <3>2
  <2>7. CASE r \in User
    <3>1. connector.pc = "up" /\ ready
      BY <1>1, <1>3, <2>7 DEF SessionInv, Inv, RequestsInTurn, ReadyWhenUp
    <3>2. Link = "serving"
      BY <1>3, <3>1 DEF Link
    <3>3. Seen(r) \in {"waiting", "replied"}
      BY <1>1, <1>3, <2>7, <3>1, SeenFacts
         DEF InFlight, Registered, connected, SessionInv, FuturesFollow
    <3>4. \A v \in User : Seen(v)' = Seen(v)
      BY <1>1, <2>5, SeenFacts, SeenFactsNext
    <3>5. /\ written' \intersect User = (written \intersect User) \cup {r}
          /\ [v \in User |-> Seen(v)]' = [v \in User |-> Seen(v)]
          /\ [v \in User |-> Seen(v)][r] = Seen(r)
      BY <2>1, <2>7, <3>4
    <3>6. Session!Transmit(r)
      BY <1>1, <3>2, <3>3, <3>5 DEF Session!Transmit
    <3>7. QED
      BY <2>4, <2>7, <3>6 DEF Step, Session!Next
  <2>8. QED
    BY <2>6, <2>7
<1>4. QED
  BY <1>2, <1>3 DEF SessionInv, Inv, TypeOK

LEMMA DrainDoneStep ==
    ASSUME SessionInv, Inv', NEW r \in Request, DrainDone(r)
    PROVE  FuturesFollow' /\ ReadyWhenUp' /\ Step
<1>1. /\ TypeOK /\ TypeOK' /\ User \subseteq Request
      /\ UNCHANGED <<active, ready, connector, written>>
      /\ connected' = connected /\ Link' = Link
      /\ call[r] \in CallState /\ call[r].pc = "draining"
  BY RequestFacts DEF SessionInv, Inv, TypeOK, DrainDone, connVars, connected, Link,
     NothingLeftBehind
<1>2. "waiting" \in Progress
  BY DEF Progress, InFlight, Registered
<1>3. \A q \in Request : /\ call'[q].pc = IF q = r THEN "waiting" ELSE call[q].pc
                         /\ call'[q].future = call[q].future
  BY <1>1, <1>2, SetPc DEF DrainDone, TypeOK
<1>4. FuturesFollow' /\ ReadyWhenUp'
  BY <1>1, <1>3 DEF SessionInv, FuturesFollow, ReadyWhenUp
<1>5. \A v \in User : /\ call'[v].future = call[v].future
                      /\ \/ call'[v].pc = call[v].pc
                         \/ call'[v].pc \in InFlight /\ call[v].pc \in InFlight
  BY <1>1, <1>3 DEF InFlight, Registered
<1>6. QED
  BY <1>1, <1>4, <1>5, Unseen

LEMMA DrainFailsStep ==
    ASSUME SessionInv, Inv', NEW r \in Request, DrainFails(r)
    PROVE  FuturesFollow' /\ ReadyWhenUp' /\ Step
<1>1. call[r].pc \in InFlight /\ UNCHANGED <<written, connector>>
  BY DEF DrainFails, SessionInv, Inv, NothingLeftBehind, InFlight, Registered
<1>2. CASE active
  BY <1>1, <1>2, DisconnectStep DEF DrainFails
<1>3. CASE ~ active
  BY <1>1, <1>3, FinishStep DEF DrainFails, connVars
<1>4. QED
  BY <1>2, <1>3 DEF SessionInv, Inv, TypeOK

LEMMA ResumeStep ==
    ASSUME SessionInv, Inv', NEW r \in Request, Resume(r)
    PROVE  FuturesFollow' /\ ReadyWhenUp' /\ Step
<1> DEFINE outcome == IF call[r].future = "result" THEN "answered" ELSE "failed"
<1>1. /\ outcome \in {"answered", "failed"} /\ Finish({r}, outcome)
      /\ call[r].pc \in InFlight /\ UNCHANGED <<active, ready, written, connector>>
  BY DEF Resume, InFlight, Registered, connVars
<1>2. outcome = "answered" => call[r].pc = "waiting" /\ call[r].future = "result"
  BY DEF Resume
<1> HIDE DEF outcome
<1>3. QED
  BY <1>1, <1>2, FinishStep

LEMMA TimeoutStep ==
    ASSUME SessionInv, Inv', NEW r \in Request, Timeout(r)
    PROVE  FuturesFollow' /\ ReadyWhenUp' /\ Step
BY FinishStep DEF Timeout, connVars
---------------------------------------------------------------------------
(* The steps of the gateway and of the tasks.                              *)

LEMMA ReceiveStep ==
    ASSUME SessionInv, Inv', NEW about \in Request \union {Stray}, NEW keys \in SUBSET Field,
           NEW stateUpdate \in BOOLEAN, NEW deviceId \in BOOLEAN,
           Receive(about, keys, stateUpdate, deviceId)
    PROVE  FuturesFollow' /\ ReadyWhenUp' /\ Step
<1> DEFINE r == RoutedTo(about, keys)
<1>1. /\ TypeOK /\ TypeOK' /\ User \subseteq Request /\ None \notin Request
      /\ UNCHANGED <<active, ready, connector, written>>
      /\ connected' = connected /\ Link' = Link
  BY RequestFacts DEF SessionInv, Inv, Receive, connVars, connected, Link
<1>2. CASE UNCHANGED call
  <2>1. Alone
    BY <1>1, <1>2 DEF Alone
  <2>2. QED
    BY <1>1, <2>1, AloneIsUnseen
<1>3. CASE /\ r # None /\ call[r].future = "undone"
           /\ call' = [call EXCEPT ![r].future = "result", ![r].answer = about]
  <2>1. r \in Request /\ call[r] \in CallState /\ call[r].pc \in Registered
    BY <1>1, <1>3, RoutedToFacts DEF SessionInv, TypeOK
  <2> DEFINE d == [call[r] EXCEPT !.future = "result", !.answer = about]
  <2>2. d.pc = call[r].pc /\ d.future = "result"
    BY <2>1, ResolveFuture
  <2>3. call' = [call EXCEPT ![r] = d]
    BY <1>1, <1>3, <2>1 DEF TypeOK
  <2> HIDE DEF d, r
  <2>4. \A q \in Request \ {r} : call'[q] = call[q]
    BY <1>1, <2>3 DEF TypeOK
  <2>5. call'[r].pc = call[r].pc /\ call'[r].future = "result"
    BY <1>1, <2>1, <2>2, <2>3 DEF TypeOK
  <2>6. FuturesFollow' /\ ReadyWhenUp'
    BY <1>1, <2>1, <2>4, <2>5 DEF SessionInv, FuturesFollow, ReadyWhenUp, Registered
  <2>7. CASE r \notin User
    <3>1. Alone
      BY <1>1, <2>4, <2>7 DEF Alone
    <3>2. QED
      BY <1>1, <3>1, AloneIsUnseen
  <2>8. CASE r \in User
    <3>1. active /\ connector.pc = "up"
      BY <2>1, <2>8 DEF Receive, SessionInv, Inv, Lifecycle, RequestsInTurn, Registered
    <3>2. Link = "serving" /\ connected
      BY <3>1 DEF Link, connected, SessionInv, ReadyWhenUp
    <3>3. PICK u \in User : u = r
      BY <2>8
    <3>4. Seen(u) = "waiting" /\ Seen(u)' = "replied"
      BY <1>1, <1>3, <2>1, <2>5, <3>2, <3>3, SeenFacts, SeenFactsNext DEF InFlight
    <3>5. \A v \in User \ {u} : call'[v] = call[v]
      BY <1>1, <2>4, <3>3
    <3>6. Session!Reply(u)
      BY <1>1, <3>2, <3>4, <3>5, OneSeen DEF Session!Reply, Session!Become
    <3>7. QED
      BY <2>6, <3>6 DEF Step, Session!Next
  <2>9. QED
    BY <2>7, <2>8
<1>4. QED
  BY <1>2, <1>3 DEF Receive

LEMMA ReaderStopsStep ==
    ASSUME SessionInv, Inv', ReaderStops
    PROVE  FuturesFollow' /\ ReadyWhenUp' /\ Step
<1>1. active /\ None \notin User
  BY RequestFacts DEF ReaderStops, SessionInv, Inv, Lifecycle
<1>2. QED
  BY <1>1, DisconnectStep DEF ReaderStops

LEMMA HeartbeatStepStep ==
    ASSUME SessionInv, Inv', HeartbeatStep
    PROVE  FuturesFollow' /\ ReadyWhenUp' /\ Step
<1>1. CASE HeartbeatFires \/ HeartbeatEnds
  <2>1. Alone
    BY <1>1, RequestFacts
       DEF HeartbeatFires, HeartbeatEnds, Register, Alone, SessionInv, Inv, TypeOK
  <2>2. Link' = Link /\ UNCHANGED <<active, ready, connector>>
    BY <1>1 DEF HeartbeatFires, HeartbeatEnds, connVars, Link
  <2>3. QED
    BY <2>1, <2>2, AloneIsUnseen
<1>2. CASE HeartbeatCloses
  <2>1. connector.pc \notin Handshaking \union {"idle"}
    BY <1>2 DEF HeartbeatCloses, SessionInv, Inv, Lifecycle
  <2>2. QED
    BY <1>2, <2>1, DetachStep DEF HeartbeatCloses
<1>3. QED
  BY <1>1, <1>2 DEF HeartbeatStep

LEMMA ClosingStep ==
    ASSUME SessionInv, Inv', Close \/ CloseWriter \/ CloseFailedConnect
    PROVE  FuturesFollow' /\ ReadyWhenUp' /\ Step
<1>1. CASE Close
  BY <1>1, DetachStep DEF Close, lifecycleLocked
<1>2. CASE CloseWriter
  <2>1. Alone /\ Link' = Link /\ UNCHANGED <<active, ready, connector>>
    BY <1>2 DEF CloseWriter, Alone, connVars, Link
  <2>2. QED
    BY <2>1, AloneIsUnseen
<1>3. CASE CloseFailedConnect
  <2>1. /\ connector.pc = "closing" /\ connector'.pc = "failed" /\ Detach /\ UNCHANGED written
        /\ connector.pc \notin Handshaking \union {"idle"}
    BY <1>3 DEF CloseFailedConnect, SessionInv, Inv, TypeOK, ConnectorState, Handshaking
  <2>2. QED
    BY <2>1, DetachStep
<1>4. QED
  BY <1>1, <1>2, <1>3
---------------------------------------------------------------------------
LEMMA SessionInit == Init => SessionInv /\ Session!Init
<1> SUFFICES ASSUME Init PROVE SessionInv /\ Session!Init
  OBVIOUS
<1>1. Inv
  BY InitInv
<1>2. \A u \in User : call[u].pc = "idle" /\ call[u].future = "undone"
  BY RequestFacts, FreshCalls DEF Init
<1>3. FuturesFollow /\ ReadyWhenUp
  BY <1>2 DEF Init, FuturesFollow, ReadyWhenUp
<1>4. Link = "new" /\ \A u \in User : Seen(u) = "idle"
  BY <1>2 DEF Init, Link, Seen, InFlight, Registered
<1>5. written = {}
  BY DEF Init
<1>6. QED
  BY <1>1, <1>3, <1>4, <1>5 DEF SessionInv, Session!Init

LEMMA SessionNext == SessionInv /\ [Next]_vars => SessionInv' /\ Step
<1> SUFFICES ASSUME SessionInv, [Next]_vars PROVE SessionInv' /\ Step
  OBVIOUS
<1>1. Inv'
  BY NextKeepsInv DEF SessionInv
<1>2. CASE HandshakeStep
  <2>1. CASE Connect \/ OpenTransport \/ ConnectFails \/ CleanUpConnect \/ CloseFailedConnect
    BY <1>1, <2>1, ConnectStep, OpenTransportStep, ConnectFailsStep, CleanUpConnectStep,
       ClosingStep DEF SessionInv
  <2>2. CASE \E uid \in Uid, credentials \in BOOLEAN : HelloAnswered(uid, credentials)
    BY <1>1, <2>2, HelloAnsweredStep DEF SessionInv
  <2>3. CASE \E uid \in Uid, status \in {0, 1} : LoginAnswered(uid, status)
    BY <1>1, <2>3, LoginAnsweredStep DEF SessionInv
  <2>4. QED
    BY <1>2, <2>1, <2>2, <2>3 DEF HandshakeStep
<1>3. CASE \E u \in User : Send(u) \/ EnterSingleFlight(u)
  BY <1>1, <1>3, SendStep, EnterSingleFlightStep DEF SessionInv
<1>4. CASE \E r \in Request : RequestStep(r)
  BY <1>1, <1>4, BeginWriteStep, DrainDoneStep, DrainFailsStep, ResumeStep, TimeoutStep
     DEF SessionInv, RequestStep
<1>5. CASE PeerStep
  BY <1>1, <1>5, ReceiveStep, ReaderStopsStep DEF SessionInv, PeerStep
<1>6. CASE HeartbeatStep \/ Close \/ CloseWriter
  BY <1>1, <1>6, HeartbeatStepStep, ClosingStep DEF SessionInv
<1>7. CASE UNCHANGED vars
  <2>1. Alone /\ Link' = Link /\ UNCHANGED <<active, ready, connector>>
    BY <1>7 DEF vars, connVars, Alone, Link
  <2>2. QED
    BY <1>1, <2>1, AloneIsUnseen DEF SessionInv
<1>8. QED
  BY <1>2, <1>3, <1>4, <1>5, <1>6, <1>7 DEF Next

(* A connection implements the abstract session: it is opened, serves and  *)
(* is lost once, and each request has one outcome, for any number of       *)
(* concurrent requests (gateway_connection.py:111-122, 401-463, 517-540).  *)
THEOREM ConnectionImplementsSession == Spec => ImplementsSession
<1>1. Step => [Session!Next]_(Session!session)
  BY DEF Step
<1>2. QED
  BY SessionInit, SessionNext, <1>1, PTL DEF Spec, ImplementsSession, Session!Spec
=============================================================================
