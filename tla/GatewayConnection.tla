------------------------- MODULE GatewayConnection -------------------------
(***************************************************************************)
(* The GatewayConnection class of lib/gateway_connection.py: one TCP       *)
(* session with a gateway, its handshake, the correlation of requests and  *)
(* responses, the heartbeat, and the two ways a transport goes away        *)
(* (close, and the disconnect of a failed reader or writer).               *)
(*                                                                         *)
(* Coroutines interleave at their awaits, so a step is the code between    *)
(* two awaits.  A cancelled task runs nothing more than its finally        *)
(* clauses, so cancelling it and ending it are one step.                   *)
(*                                                                         *)
(* GatewayManager creates an object for every connection attempt and calls *)
(* connect once, so generation is 0 before the transport is opened, 1      *)
(* until close() detaches it and 2 from then on.  reader, writer and       *)
(* _closed change together: `active' stands for all three, and with one    *)
(* transport per object the comparisons of generations reduce to it.       *)
(*                                                                         *)
(* The gateway may answer any request it was sent at any time, again, late *)
(* or never, with or without the correlation fields, and may push states.  *)
(***************************************************************************)
EXTENDS Integers, FiniteSets

CONSTANTS
    User,            \* calls of send(), one each
    Uncorrelated,    \* those whose payload has neither serial nor uniSerial
    AllowMissingUid, \* allow_missing_uid of connect()
    None

Hello == "hello"
Login == "login"
Beat  == "beat"
Request == User \union {Hello, Login, Beat}
Stray == "stray"     \* a packet that answers no request

ASSUME ConnectionAssumption ==
    /\ Uncorrelated \subseteq User
    /\ User \intersect {Hello, Login, Beat, Stray, None} = {}
    /\ None \notin {Hello, Login, Beat, Stray}
    /\ AllowMissingUid \in BOOLEAN

VARIABLES
    active,            \* _transport_active
    ready,             \* _ready
    identityConfirmed, \* identity_confirmed
    tasksHeld,         \* _reader_task is not None: generation is 1
    pending,           \* _pending: the fields each request is registered under
    single,            \* _single_pending
    call,              \* progress of each request, its future and its answer
    written,           \* the requests whose packet was written
    requestLock,       \* holder of _request_lock
    writeLock,         \* holder of _write_lock
    connector,         \* the coroutine in connect(), and the UIDs it was told
    heartbeat,         \* the task of _heartbeat_loop
    reader,            \* the task of _reader_loop runs
    finishing,         \* a close() has yet to close the detached writer
    open               \* the transport is open at the operating system

connVars == <<active, ready, identityConfirmed, tasksHeld>>
routeVars == <<pending, single>>
lockVars == <<requestLock, writeLock>>
taskVars == <<heartbeat, reader, finishing>>
vars == <<connVars, routeVars, call, written, lockVars, connector, taskVars, open>>

Field == {"serial", "uniSerial"}
Uid == {"expected", "other", "absent"}
Registered == {"registered", "draining", "waiting"}
InFlight == Registered \union {"queued"}
(* An answer is there exactly when the future was resolved with a result.  *)
CallState == { c \in [pc : InFlight \union {"idle", "answered", "failed"},
                     future : {"undone", "result", "error"},
                     answer : Request \union {Stray, None}] :
                 (c.future = "result") = (c.answer # None) }
Handshaking == {"opening", "hello", "login"}
ConnectorState == [pc : Handshaking \union {"idle", "up", "cleanup", "closing", "failed"},
                   helloUid : Uid, loginUid : Uid]

IdleCall == [pc |-> "idle", future |-> "undone", answer |-> None]
RegisteredCall == [IdleCall EXCEPT !.pc = "registered"]

connected == active /\ ready
lifecycleLocked == connector.pc \in Handshaking

(* The correlation fields of a request: hello, login and heartbeat carry a *)
(* serial only; a payload that has no field is given both.                 *)
CorrelationKeys(r) == IF r \in User THEN Field ELSE {"serial"}

Init ==
    /\ active = FALSE /\ ready = FALSE
    /\ identityConfirmed = FALSE /\ tasksHeld = FALSE
    /\ pending = [r \in Request |-> {}] /\ single = None
    /\ call = [r \in Request |-> IdleCall]
    /\ written = {}
    /\ requestLock = None /\ writeLock = None
    /\ connector = [pc |-> "idle", helloUid |-> "absent", loginUid |-> "absent"]
    /\ heartbeat = "none" /\ reader = FALSE /\ finishing = FALSE
    /\ open = FALSE
---------------------------------------------------------------------------
(* What several operations share.                                          *)

Register(r) ==
    /\ call' = [call EXCEPT ![r] = RegisteredCall]
    /\ pending' = [pending EXCEPT ![r] = CorrelationKeys(r)]

(* The finally clauses a request runs when it ends, answered, failed or    *)
(* cancelled: its routes are dropped and the locks it holds released.      *)
EndedCalls(calls, R, outcome) ==
    [r \in Request |-> IF r \in R /\ calls[r].pc \in InFlight
                       THEN [calls[r] EXCEPT !.pc = outcome] ELSE calls[r]]

ReleaseLocks(R) ==
    /\ requestLock' = IF requestLock \in R THEN None ELSE requestLock
    /\ writeLock' = IF writeLock \in R THEN None ELSE writeLock

(* Mutant: the single-flight slot is not vacated.                          *)
FinishKeepingSlot(R, outcome) ==
    /\ call' = EndedCalls(call, R, outcome)
    /\ pending' = [r \in Request |-> IF r \in R THEN {} ELSE pending[r]]
    /\ ReleaseLocks(R)
    /\ UNCHANGED single

Finish(R, outcome) ==
    /\ call' = EndedCalls(call, R, outcome)
    /\ pending' = [r \in Request |-> IF r \in R THEN {} ELSE pending[r]]
    /\ single' = IF single \in R THEN None ELSE single
    /\ ReleaseLocks(R)

(* Mutant: resolved futures are failed as well.                            *)
FailedEvenIfDone ==
    [r \in Request |-> IF pending[r] # {} \/ single = r
                       THEN [call[r] EXCEPT !.future = "error"]
                       ELSE call[r]]

(* _fail_pending: every registered future that is not done gets the error. *)
FailedFutures ==
    [r \in Request |->
        IF (pending[r] # {} \/ single = r) /\ call[r].future = "undone"
        THEN [call[r] EXCEPT !.future = "error"]
        ELSE call[r]]

(* The transport is given up: no operation may start, every registered     *)
(* future fails, and the requests R of the tasks ending with it end too.   *)
LoseTransport(R) ==
    /\ active' = FALSE /\ ready' = FALSE /\ identityConfirmed' = FALSE
    /\ call' = EndedCalls(FailedFutures, R, "failed")
    /\ pending' = [r \in Request |-> {}]
    /\ single' = None
    /\ ReleaseLocks(R)
    /\ reader' = FALSE

(* Mutant: the writer is forgotten but not closed.                         *)
DisconnectWithoutClosing(r) ==
    /\ LoseTransport({r, Beat})
    /\ heartbeat' = IF r = Beat THEN heartbeat ELSE "none"
    /\ UNCHANGED <<tasksHeld, finishing, open>>

(* _disconnect_generation by the reader or by the writer of request r; the *)
(* heartbeat is cancelled unless it is the current task.                   *)
Disconnect(r) ==
    /\ LoseTransport({r, Beat})
    /\ open' = FALSE
    /\ heartbeat' = IF r = Beat THEN heartbeat ELSE "none"
    /\ UNCHANGED <<tasksHeld, finishing>>

(* close() up to the cancellation of the tasks, which happens before its   *)
(* next await; the writer is closed later, by CloseWriter.                 *)
Detach ==
    IF ~ active /\ ~ tasksHeld
    THEN UNCHANGED <<connVars, routeVars, call, lockVars, reader, finishing>>
         /\ heartbeat' = IF heartbeat = "closing" THEN "none" ELSE heartbeat
    ELSE /\ LoseTransport({Beat})
         /\ tasksHeld' = FALSE
         /\ heartbeat' = "none"
         /\ finishing' = active
---------------------------------------------------------------------------
(* connect()                                                               *)

Connect ==
    /\ connector.pc = "idle"
    /\ connector' = [connector EXCEPT !.pc = "opening"]
    /\ UNCHANGED <<connVars, routeVars, call, written, lockVars, taskVars, open>>

OpenTransport ==
    /\ connector.pc = "opening"
    /\ active' = TRUE /\ tasksHeld' = TRUE
    /\ reader' = TRUE /\ open' = TRUE
    /\ Register(Hello)
    /\ connector' = [connector EXCEPT !.pc = "hello"]
    /\ UNCHANGED <<ready, identityConfirmed, single, written, lockVars,
                   heartbeat, finishing>>

(* The hello response: without credentials, or with a foreign UID, the     *)
(* attempt fails; otherwise the login is requested, if the transport is    *)
(* still there.                                                            *)
HelloAnswered(uid, credentials) ==
    /\ connector.pc = "hello" /\ call[Hello].pc = "answered"
    /\ IF credentials /\ uid # "other" /\ active
       THEN connector' = [connector EXCEPT !.pc = "login", !.helloUid = uid]
            /\ Register(Login)
       ELSE connector' = [connector EXCEPT !.pc = "cleanup"]
            /\ UNCHANGED <<call, pending>>
    /\ UNCHANGED <<connVars, single, written, lockVars, taskVars, open>>

PeerUid(helloUid, loginUid) == IF loginUid # "absent" THEN loginUid ELSE helloUid

(* Mutant: allow_missing_uid accepts a foreign UID too.                    *)
LoginAcceptedUnconfirmed(status, helloUid, loginUid) ==
    /\ status = 0
    /\ "absent" \in {helloUid, loginUid} \/ helloUid = loginUid
    /\ AllowMissingUid \/ PeerUid(helloUid, loginUid) = "expected"

LoginAccepted(status, helloUid, loginUid) ==
    /\ status = 0
    /\ "absent" \in {helloUid, loginUid} \/ helloUid = loginUid
    /\ \/ PeerUid(helloUid, loginUid) = "expected"
       \/ AllowMissingUid /\ PeerUid(helloUid, loginUid) = "absent"

(* The login response.  The code sets _ready and starts the heartbeat      *)
(* without looking at the transport again: it may be gone by now.          *)
LoginAnswered(uid, status) ==
    /\ connector.pc = "login" /\ call[Login].pc = "answered"
    /\ IF LoginAccepted(status, connector.helloUid, uid)
       THEN /\ connector' = [connector EXCEPT !.pc = "up", !.loginUid = uid]
            /\ ready' = TRUE
            /\ identityConfirmed' = (PeerUid(connector.helloUid, uid) = "expected")
            /\ heartbeat' = "sleeping"
       ELSE /\ connector' = [connector EXCEPT !.pc = "cleanup"]
            /\ UNCHANGED <<ready, identityConfirmed, heartbeat>>
    /\ UNCHANGED <<active, tasksHeld, routeVars, call, written, lockVars,
                   reader, finishing, open>>

(* The connection is refused, the deadline of connect() passes, or its     *)
(* current request failed: the lock is released and the clean-up begins.   *)
ConnectFails ==
    /\ lifecycleLocked
    /\ connector' = [connector EXCEPT !.pc = "cleanup"]
    /\ Finish({Hello, Login}, "failed")
    /\ UNCHANGED <<connVars, written, taskVars, open>>

(* _close_if_generation_changed.                                           *)
CleanUpConnect ==
    /\ connector.pc = "cleanup"
    /\ connector' = [connector EXCEPT !.pc = IF tasksHeld /\ ~ ready THEN "closing"
                                             ELSE "failed"]
    /\ UNCHANGED <<connVars, routeVars, call, written, lockVars, taskVars, open>>

CloseFailedConnect ==
    /\ connector.pc = "closing"
    /\ Detach
    /\ connector' = [connector EXCEPT !.pc = "failed"]
    /\ UNCHANGED <<written, open>>
---------------------------------------------------------------------------
(* send() and request()                                                    *)

Send(u) ==
    /\ call[u].pc = "idle"
    /\ connector.pc = "up"
    /\ \/ /\ ~ connected
          /\ call' = [call EXCEPT ![u].pc = "failed"]
          /\ UNCHANGED pending
       \/ /\ connected /\ u \in Uncorrelated
          /\ call' = [call EXCEPT ![u].pc = "queued"]
          /\ UNCHANGED pending
       \/ /\ connected /\ u \notin Uncorrelated
          /\ Register(u)
    /\ UNCHANGED <<connVars, single, written, lockVars, connector, taskVars, open>>

(* Mutant: the transport is not looked at again after the wait.            *)
EnterUnchecked(u) ==
    /\ call[u].pc = "queued" /\ requestLock = None
    /\ Register(u) /\ requestLock' = u /\ single' = u
    /\ UNCHANGED <<connVars, written, writeLock, connector, taskVars, open>>

(* A request without caller-supplied fields is alone between here and its  *)
(* end; the transport is checked again after the wait.                     *)
EnterSingleFlight(u) ==
    /\ call[u].pc = "queued" /\ requestLock = None
    /\ IF active
       THEN Register(u) /\ requestLock' = u /\ single' = u
       ELSE /\ call' = [call EXCEPT ![u].pc = "failed"]
            /\ UNCHANGED <<pending, requestLock, single>>
    /\ UNCHANGED <<connVars, written, writeLock, connector, taskVars, open>>

(* Mutant: the wait for the write lock is taken to change nothing.         *)
BeginWriteUnchecked(r) ==
    /\ call[r].pc = "registered" /\ writeLock = None
    /\ writeLock' = r
    /\ written' = written \union {r}
    /\ call' = [call EXCEPT ![r].pc = "draining"]
    /\ UNCHANGED <<routeVars, requestLock>>
    /\ UNCHANGED <<connVars, connector, taskVars, open>>

(* _write: the transport may have gone while the request waited for the    *)
(* write lock.                                                             *)
BeginWrite(r) ==
    /\ call[r].pc = "registered" /\ writeLock = None
    /\ IF active
       THEN /\ writeLock' = r
            /\ written' = written \union {r}
            /\ call' = [call EXCEPT ![r].pc = "draining"]
            /\ UNCHANGED <<routeVars, requestLock>>
       ELSE Finish({r}, "failed") /\ UNCHANGED written
    /\ UNCHANGED <<connVars, connector, taskVars, open>>

DrainDone(r) ==
    /\ writeLock = r
    /\ writeLock' = None
    /\ call' = [call EXCEPT ![r].pc = "waiting"]
    /\ UNCHANGED <<connVars, routeVars, written, requestLock, connector, taskVars,
                   open>>

(* drain() raises; the disconnect is void if the transport is gone.        *)
DrainFails(r) ==
    /\ writeLock = r
    /\ IF active
       THEN Disconnect(r)
       ELSE Finish({r}, "failed") /\ UNCHANGED <<connVars, taskVars, open>>
    /\ UNCHANGED <<written, connector>>

Resume(r) ==
    /\ call[r].pc = "waiting" /\ call[r].future # "undone"
    /\ Finish({r}, IF call[r].future = "result" THEN "answered" ELSE "failed")
    /\ UNCHANGED <<connVars, written, connector, taskVars, open>>

(* Mutant: the deadline covers the response only.                          *)
TimeoutOfResponse(r) ==
    /\ r \in User \union {Beat}
    /\ call[r].pc = "waiting"
    /\ Finish({r}, "failed")
    /\ UNCHANGED <<connVars, written, connector, taskVars, open>>

(* The deadline covers the lock waits, the write and the response.  That   *)
(* of hello and login is the deadline of connect(), in ConnectFails.       *)
Timeout(r) ==
    /\ r \in User \union {Beat}
    /\ call[r].pc \in InFlight
    /\ Finish({r}, "failed")
    /\ UNCHANGED <<connVars, written, connector, taskVars, open>>
---------------------------------------------------------------------------
(* _reader_loop and _route                                                 *)

(* Mutant: a packet without fields answers whichever request is pending.   *)
RoutedToAny(about, keys) ==
    IF about \in Request /\ keys \intersect pending[about] # {} THEN about
    ELSE IF keys = {} /\ \E r \in Request : pending[r] # {}
         THEN CHOOSE r \in Request : pending[r] # {}
         ELSE None

(* The request whose future a packet resolves: one of its fields names a   *)
(* registered request, or it has no field and a request is in the slot.    *)
RoutedTo(about, keys) ==
    IF about \in Request /\ keys \intersect pending[about] # {} THEN about
    ELSE IF keys = {} THEN single ELSE None

(* A packet of the gateway: about the request it answers, or Stray; keys   *)
(* are the correlation fields it echoes, and only a state update of the    *)
(* gateway's own (cmd 42) carries that command.                            *)
Receive(about, keys, stateUpdate, deviceId) ==
    /\ reader
    /\ about = Stray \/ about \in written
    /\ stateUpdate => about = Stray
    /\ LET r == RoutedTo(about, keys) IN
       IF stateUpdate \/ (r = None /\ deviceId)
       THEN UNCHANGED call
       ELSE call' = IF r # None /\ call[r].future = "undone"
                    THEN [call EXCEPT ![r].future = "result", ![r].answer = about]
                    ELSE call
    /\ UNCHANGED <<connVars, routeVars, written, lockVars, connector, taskVars, open>>

(* End of stream, a read error or a malformed frame.                       *)
ReaderStops ==
    /\ reader
    /\ Disconnect(None)
    /\ UNCHANGED <<written, connector>>
---------------------------------------------------------------------------
(* _heartbeat_loop and close()                                             *)

HeartbeatFires ==
    /\ heartbeat = "sleeping"
    /\ IF connected
       THEN heartbeat' = "requesting" /\ Register(Beat)
       ELSE heartbeat' = "none" /\ UNCHANGED <<call, pending>>
    /\ UNCHANGED <<connVars, single, written, lockVars, connector, reader, finishing,
                   open>>

(* Mutant: a failed heartbeat is tried again at the next interval.         *)
HeartbeatRetries ==
    /\ heartbeat = "requesting" /\ call[Beat].pc \in {"answered", "failed"}
    /\ heartbeat' = IF connected THEN "sleeping" ELSE "none"
    /\ call' = [call EXCEPT ![Beat] = IdleCall]
    /\ written' = written \ {Beat}
    /\ UNCHANGED <<connVars, routeVars, lockVars, connector, reader, finishing,
                   open>>

(* The heartbeat got its response, or a GatewayConnectionError.  The next  *)
(* heartbeat has a serial of its own: nothing is left of this one.         *)
HeartbeatEnds ==
    /\ heartbeat = "requesting" /\ call[Beat].pc \in {"answered", "failed"}
    /\ heartbeat' = IF call[Beat].pc = "failed" THEN "closing"
                    ELSE IF connected THEN "sleeping" ELSE "none"
    /\ call' = [call EXCEPT ![Beat] = IdleCall]
    /\ written' = written \ {Beat}
    /\ UNCHANGED <<connVars, routeVars, lockVars, connector, reader, finishing,
                   open>>

HeartbeatCloses ==
    /\ heartbeat = "closing" /\ ~ lifecycleLocked
    /\ Detach
    /\ UNCHANGED <<written, connector, open>>

(* close() called by the owner of the connection.                          *)
Close ==
    /\ connector.pc # "idle" /\ ~ lifecycleLocked
    /\ Detach
    /\ UNCHANGED <<written, connector, open>>

CloseWriter ==
    /\ finishing
    /\ finishing' = FALSE /\ open' = FALSE
    /\ UNCHANGED <<connVars, routeVars, call, written, lockVars, connector, heartbeat,
                   reader>>
---------------------------------------------------------------------------
HandshakeStep ==
    \/ Connect \/ OpenTransport
    \/ \E uid \in Uid, credentials \in BOOLEAN : HelloAnswered(uid, credentials)
    \/ \E uid \in Uid, status \in {0, 1} : LoginAnswered(uid, status)
    \/ ConnectFails \/ CleanUpConnect \/ CloseFailedConnect

RequestStep(r) ==
    \/ BeginWrite(r) \/ DrainDone(r) \/ DrainFails(r)
    \/ Resume(r) \/ Timeout(r)

PeerStep ==
    \/ \E about \in Request \union {Stray}, keys \in SUBSET Field,
          stateUpdate, deviceId \in BOOLEAN : Receive(about, keys, stateUpdate, deviceId)
    \/ ReaderStops

HeartbeatStep == HeartbeatFires \/ HeartbeatEnds \/ HeartbeatCloses

Next ==
    \/ HandshakeStep
    \/ \E u \in User : Send(u) \/ EnterSingleFlight(u)
    \/ \E r \in Request : RequestStep(r)
    \/ PeerStep
    \/ HeartbeatStep
    \/ Close \/ CloseWriter

Spec == Init /\ [][Next]_vars

(* Timers fire and runnable coroutines run.  Nothing is assumed of the     *)
(* gateway, of drain(), of the callers, or of a lock being handed over.    *)
Fairness ==
    /\ WF_vars(ConnectFails) /\ WF_vars(CleanUpConnect) /\ WF_vars(CloseFailedConnect)
    /\ WF_vars(HeartbeatFires) /\ WF_vars(HeartbeatEnds) /\ WF_vars(HeartbeatCloses)
    /\ WF_vars(CloseWriter)
    /\ \A r \in Request : WF_vars(Timeout(r))

FairSpec == Spec /\ Fairness
---------------------------------------------------------------------------
TypeOK ==
    /\ active \in BOOLEAN /\ ready \in BOOLEAN
    /\ identityConfirmed \in BOOLEAN /\ tasksHeld \in BOOLEAN
    /\ pending \in [Request -> SUBSET Field]
    /\ single \in User \union {None}
    /\ call \in [Request -> CallState]
    /\ written \subseteq Request
    /\ requestLock \in User \union {None}
    /\ writeLock \in Request \union {None}
    /\ connector \in ConnectorState
    /\ heartbeat \in {"none", "sleeping", "requesting", "closing"}
    /\ reader \in BOOLEAN /\ finishing \in BOOLEAN
    /\ open \in BOOLEAN
---------------------------------------------------------------------------
(* No request waits on a dead transport: one whose packet is on its way or *)
(* whose response is awaited has an unresolved future only while the       *)
(* transport is up, its reader runs and its routes are registered; every   *)
(* way of losing the transport fails all the others at once                *)
(* (gateway_connection.py:424-437, 523-530, 649-657).                      *)
NoWaiterOnDeadTransport ==
    \A r \in Request :
        (call[r].pc \in Registered /\ call[r].future = "undone") =>
            active /\ reader /\ pending[r] # {}

(* Whatever ends a request (answer, timeout, cancellation, disconnect), it *)
(* leaves no route and no lock behind that would misroute a later packet   *)
(* or block later requests (gateway_connection.py:339-346, 392-399, 454).  *)
NothingLeftBehind ==
    /\ \A r \in Request : pending[r] # {} => call[r].pc \in Registered
    /\ single # None => requestLock = single
    /\ requestLock # None => call[requestLock].pc \in Registered
    /\ \A r \in Request : writeLock = r <=> call[r].pc = "draining"

(* A request that carries its own correlation fields is answered by its    *)
(* own response or not at all, in whatever order, late or twice responses  *)
(* arrive; and no request is answered that was not sent                    *)
(* (gateway_connection.py:380-381, 552-597).                               *)
AnswersMatch ==
    \A r \in Request :
        /\ r \notin Uncorrelated => call[r].answer \in {r, None}
        /\ call[r].pc = "answered" => r \in written

(* A transport that is still open belongs to a live connection or is about *)
(* to be closed by the close() that detached it: no interleaving of        *)
(* connect, its clean-up, close, heartbeat, reader and writer loses one    *)
(* (gateway_connection.py:159-165, 414-450, 517-533).                      *)
NoOrphanTransport == open => active \/ finishing

(* No command reaches a gateway before its handshake is complete, nor one  *)
(* that named another UID; one that named none is accepted only where the  *)
(* caller allows it, and never counts as confirmed                         *)
(* (gateway_connection.py:210-215, 248-271, 406-411).                      *)
OnlyTheExpectedGateway ==
    LET uids == {connector.helloUid, connector.loginUid} IN
    /\ written \intersect User # {} =>
         /\ connector.pc = "up"
         /\ "other" \notin uids
         /\ "expected" \in uids \/ AllowMissingUid
    /\ identityConfirmed => "expected" \in uids /\ "other" \notin uids

(* A gateway that stops sending packets, without closing the stream, is    *)
(* noticed by the heartbeat: the connection does not stay connected        *)
(* (gateway_connection.py:624-647).                                        *)
PacketArrives ==
    \E about \in Request \union {Stray}, keys \in SUBSET Field,
       stateUpdate, deviceId \in BOOLEAN : Receive(about, keys, stateUpdate, deviceId)

SilentGatewayDetected == <>[][~ PacketArrives]_vars => []<>(~ connected)

(* What the owner of a connection and its users see of it: the session of  *)
(* the transport, and how far each request is.                             *)
Link ==
    IF active THEN IF ready THEN "serving" ELSE "open"
    ELSE IF connector.pc \in {"idle", "opening"} THEN "new" ELSE "lost"

Seen(u) ==
    IF call[u].pc \notin InFlight THEN call[u].pc
    ELSE IF call[u].future = "result" THEN "replied"
    ELSE IF call[u].future = "undone" /\ connected THEN "waiting" ELSE "doomed"

Session == INSTANCE GatewaySession WITH
    link <- Link, request <- [u \in User |-> Seen(u)], sent <- written \intersect User

(* The session is opened, serves and is lost once; requests begin and are  *)
(* sent only while it serves, and have one outcome: whichever task loses   *)
(* the transport, whatever waits for a lock, drains or awaits its response *)
(* then fails, unless its response has come before                         *)
(* (gateway_connection.py:111-122, 401-463, 517-540, 649-657).             *)
ImplementsSession == Session!Spec

(* Every call comes back, whatever the gateway, the write buffer and other *)
(* calls do: connect() with a login, or with nothing of its attempt left   *)
(* open or running (gateway_connection.py:138-165), and every request with *)
(* an answer or an error, since its deadline covers both lock waits, the   *)
(* write and the response (gateway_connection.py:300-321).                 *)
EveryCallEnds ==
    /\ connector.pc = "opening" ~>
         \/ connector.pc = "up"
         \/ connector.pc = "failed" /\ ~ open /\ ~ reader
    /\ \A u \in User :
         call[u].pc \in InFlight ~> call[u].pc \in {"answered", "failed"}
=============================================================================
