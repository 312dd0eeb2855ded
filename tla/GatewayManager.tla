--------------------------- MODULE GatewayManager ---------------------------
(***************************************************************************)
(* The GatewayManager class of gateway_manager.py for one gateway UID: the *)
(* record that holds its addresses and its connection, the lock that       *)
(* serialises its lifecycle, and the coroutines that contend for it:       *)
(* send, ensure and reconnect, the reconciliation and the ensure of a      *)
(* cloud refresh, discover and close.  UIDs share nothing but the flag     *)
(* _closed and the order in which the loops over them visit them.          *)
(*                                                                         *)
(* Steps end at the awaits that suspend.  Closing a connection detaches it *)
(* before its first suspension, so it happens with the step that calls it; *)
(* only the ensure that goes on afterwards has a step of its own.  How a   *)
(* connection behaves is taken from GatewayConnection: connect() returns   *)
(* or raises, leaves nothing open when it raises, and may return although  *)
(* the transport has gone meanwhile; a live connection may drop any time.  *)
(***************************************************************************)
EXTENDS Integers, Sequences, FiniteSets

CONSTANTS
    Sender,      \* callers of send, ensure and reconnect
    CloudHost,   \* the hosts a cloud snapshot may name for the gateway
    UdpHost,     \* the hosts a discovery reply may come from
    Network,     \* the surprises a behaviour may hold: sets of Surprise
    MaxObjects,  \* bound on the records, and the connections, alive at once
    None

Refresh == "refresh"
Discover == "discover"
Closer == "close"
Task == Sender \union {Refresh, Discover, Closer}
Host == CloudHost \union UdpHost
Object == 1..MaxObjects
(* The gateway is left out of a cloud snapshot; it is found over UDP.      *)
Surprise == {"vanish", "udp"}

ASSUME ManagerAssumption ==
    /\ Sender \intersect {Refresh, Discover, Closer} = {}
    /\ None \notin Host /\ None \notin Object
    /\ Network \subseteq SUBSET Surprise
    /\ MaxObjects \in Nat \ {0}

VARIABLES
    network,     \* the surprises of this behaviour, fixed at its start
    closed,      \* _closed
    current,     \* the record in _records, None when the UID is unknown
    records,     \* the _GatewayRecord objects
    connections, \* the GatewayConnection objects
    lock,        \* the queue of the UID's lock; its head holds the lock
    task,        \* where each coroutine is, and its local variables
    cloudNamed,  \* history: the hosts cloud snapshots have named
    confirmed    \* history: the hosts where a login confirmed the UID

vars == <<network, closed, current, records, connections, lock, task, cloudNamed, confirmed>>
history == <<network, cloudNamed, confirmed>>

(* pushes: a push callback is set; mayLackUid: allow_missing_uid.          *)
Connection == [state : {"unused", "connecting", "up", "down", "closed"},
               host : Host \union {None},
               identified : BOOLEAN, pushes : BOOLEAN, mayLackUid : BOOLEAN]
Record == [cloud_host : Host \union {None}, active_host : Host \union {None},
           connection : Object \union {None}]

Unused == [state |-> "unused", host |-> None,
           identified |-> FALSE, pushes |-> FALSE, mayLackUid |-> FALSE]
NoRecord == [cloud_host |-> None, active_host |-> None, connection |-> None]

Queued == {"ensure", "reconnect", "reopen", "connecting", "promote", "remove", "detach"}
TaskState == [pc : Queued \union {"idle", "named", "probing", "closing", "done"},
              record : Object \union {None}, connection : Object \union {None},
              host : Host \union {None},
              outcome : {"none", "connected", "dead", "failed"}]
IdleTask == [pc |-> "idle", record |-> None, connection |-> None, host |-> None,
             outcome |-> "none"]
Ended(outcome) == [IdleTask EXCEPT !.pc = "done", !.outcome = outcome]

Live(c) == connections[c].state \in {"connecting", "up"}
connected(c) == connections[c].state = "up"
Holds(t) == lock # << >> /\ Head(lock) = t

(* Objects nobody refers to any more are collected and used again.         *)
FreeRecords == { r \in Object : r # current /\ \A t \in Task : task[t].record # r }
FreeConnections ==
    { c \in Object : /\ ~ Live(c)
                     /\ \A r \in Object \ FreeRecords : records[r].connection # c
                     /\ \A t \in Task : task[t].connection # c }

Init ==
    /\ network \in Network
    /\ closed = FALSE
    /\ \E h \in CloudHost :
         /\ records = [r \in Object |->
                         IF r = 1 THEN [cloud_host |-> h, active_host |-> h, connection |-> None]
                         ELSE NoRecord]
         /\ cloudNamed = {h}
    /\ current = 1
    /\ connections = [c \in Object |-> Unused]
    /\ lock = << >>
    /\ task = [t \in Task |-> IdleTask]
    /\ confirmed = {}
---------------------------------------------------------------------------
Close(conns, c) ==
    IF c = None THEN conns
    ELSE [conns EXCEPT ![c] = [Unused EXCEPT !.state = "closed"]]

(* asyncio.Lock: taken at once, without suspending, when nobody holds it   *)
(* or waits for it; otherwise handed over in the order of the requests.    *)
Enters(t, operation, wanted) ==
    \/ wanted /\ lock = << >>
    \/ Holds(t) /\ task[t].pc = operation

Waits(t, operation) ==
    /\ lock # << >>
    /\ lock' = Append(lock, t)
    /\ task' = [task EXCEPT ![t] = [IdleTask EXCEPT !.pc = operation]]

Keep(t) == lock' = IF lock = << >> THEN <<t>> ELSE lock

(* Leaving the `async with' of the lock and ending the coroutine.          *)
Leave(t, outcome) ==
    /\ lock' = IF lock = << >> THEN << >> ELSE Tail(lock)
    /\ task' = [task EXCEPT ![t] = Ended(outcome)]

Without(queue, i) == [j \in 1..Len(queue) - 1 |-> queue[IF j < i THEN j ELSE j + 1]]

(* _connect up to the await of connect().                                  *)
Open(t, r, host, pushes, mayLackUid) ==
    \E c \in FreeConnections :
        /\ c = CHOOSE d \in FreeConnections : TRUE
        /\ connections' = [connections EXCEPT ![c] =
               [state |-> "connecting", host |-> host, identified |-> FALSE,
                pushes |-> pushes, mayLackUid |-> mayLackUid]]
        /\ task' = [task EXCEPT ![t] =
               [pc |-> "connecting", record |-> r, connection |-> c, host |-> host,
                outcome |-> "none"]]
        /\ Keep(t)

(* The connection of _reconnect_locked: only a host the cloud named may    *)
(* leave its UID out.                                                      *)
(* Mutant: any host may leave its UID out.                                 *)
OpenTrusting(t, r) == Open(t, r, records[r].active_host, TRUE, TRUE)

OpenActive(t, r) ==
    Open(t, r, records[r].active_host, TRUE,
         records[r].active_host = records[r].cloud_host)
---------------------------------------------------------------------------
(* ensure, reconnect, and send, which goes on with the connection returned *)
(* without suspending: a connection that is not connected fails it.        *)

(* A sender calls any of them; the refresh warms the connection up, in a   *)
(* task that gather starts.                                                *)
Calls(t, operation) ==
    \/ t \in Sender /\ task[t].pc \in {"idle", "done"}
    \/ t = Refresh /\ task[t].pc = "named" /\ operation = "ensure"

Refused(t, operation) ==
    /\ closed /\ Calls(t, operation)
    /\ task' = [task EXCEPT ![t] = Ended("failed")]
    /\ UNCHANGED <<closed, current, records, connections, lock, history>>

WaitForLock(t, operation) ==
    /\ ~ closed /\ Calls(t, operation)
    /\ Waits(t, operation)
    /\ UNCHANGED <<closed, current, records, connections, history>>

(* The lock is acquired: _ensure_locked, or _reconnect_locked at once.     *)
Enter(t, operation) ==
    /\ Enters(t, operation, ~ closed /\ Calls(t, operation))
    /\ LET c == records[current].connection IN
       IF closed \/ current = None
       THEN Leave(t, "failed") /\ UNCHANGED connections
       ELSE IF c = None
       THEN OpenActive(t, current)
       ELSE IF operation = "ensure" /\ connected(c)
       THEN Leave(t, "connected") /\ UNCHANGED connections
       ELSE /\ connections' = Close(connections, c)
            /\ task' = [task EXCEPT ![t] = [IdleTask EXCEPT !.pc = "reopen", !.record = current]]
            /\ Keep(t)
    /\ UNCHANGED <<closed, current, records, history>>

(* The old connection is closed; _closed is read again by _connect.        *)
Reopen(t) ==
    /\ task[t].pc = "reopen"
    /\ IF closed
       THEN Leave(t, "failed") /\ UNCHANGED connections
       ELSE OpenActive(t, task[t].record)
    /\ UNCHANGED <<closed, current, records, history>>

(* connect() returned: the login was accepted, the UID was confirmed or    *)
(* may be missing, and the transport is still up or gone again.            *)
LoggedIn(t, up, identified) ==
    /\ task[t].pc = "connecting"
    /\ identified \/ connections[task[t].connection].mayLackUid
    /\ confirmed' = IF identified
                    THEN confirmed \union {connections[task[t].connection].host}
                    ELSE confirmed

Arrived(c, up, identified) ==
    [connections EXCEPT ![c].state = IF up THEN "up" ELSE "down",
                        ![c].identified = identified]

Connected(t, up, identified) ==
    /\ t # Discover /\ LoggedIn(t, up, identified)
    /\ LET c == task[t].connection IN
       IF closed
       THEN /\ connections' = Close(connections, c)
            /\ Leave(t, "failed") /\ UNCHANGED records
       ELSE /\ connections' = Arrived(c, up, identified)
            /\ records' = [records EXCEPT ![task[t].record].connection = c]
            /\ Leave(t, IF up THEN "connected" ELSE "dead")
    /\ UNCHANGED <<network, closed, current, cloudNamed>>

(* Mutant: the lock is not released on an exception.                       *)
ConnectFailsHoldingLock(t) ==
    /\ task[t].pc = "connecting"
    /\ connections' = Close(connections, task[t].connection)
    /\ task' = [task EXCEPT ![t] = Ended("failed")]
    /\ UNCHANGED <<closed, current, records, lock, history>>

(* connect() raised, or the coroutine was cancelled in it: _connect closes *)
(* what it created, and the record keeps the connection it had.            *)
ConnectFails(t) ==
    /\ task[t].pc = "connecting"
    /\ connections' = Close(connections, task[t].connection)
    /\ Leave(t, "failed")
    /\ UNCHANGED <<closed, current, records, history>>

(* A coroutine is cancelled at any other await.                            *)
Cancel(t) ==
    /\ t # Closer
    /\ task[t].pc \in (Queued \ {"connecting"}) \union {"named", "probing"}
    /\ \/ \E i \in DOMAIN lock : lock[i] = t /\ lock' = Without(lock, i)
       \/ (\A i \in DOMAIN lock : lock[i] # t) /\ UNCHANGED lock
    /\ task' = [task EXCEPT ![t] = Ended("failed")]
    /\ UNCHANGED <<closed, current, records, connections, history>>
---------------------------------------------------------------------------
(* A cloud refresh: async_update_cloud_gateways, then the ensure of        *)
(* _connect_all_gateways unless the gateway is no longer reported.         *)

(* update_cloud_gateways: the active host follows the cloud's only while   *)
(* the two are equal.                                                      *)
Renamed(r, host) ==
    [cloud_host  |-> host,
     active_host |-> IF r.active_host = r.cloud_host THEN host ELSE r.active_host,
     connection  |-> r.connection]

RefreshNames(host) ==
    /\ task[Refresh].pc \in {"idle", "done"} /\ ~ closed
    /\ IF current # None
       THEN records' = [records EXCEPT ![current] = Renamed(@, host)] /\ UNCHANGED current
       ELSE \E r \in FreeRecords :
              /\ r = CHOOSE q \in FreeRecords : TRUE
              /\ records' = [records EXCEPT ![r] =
                     [cloud_host |-> host, active_host |-> host, connection |-> None]]
              /\ current' = r
    /\ task' = [task EXCEPT ![Refresh] = [IdleTask EXCEPT !.pc = "named"]]
    /\ cloudNamed' = cloudNamed \union {host}
    /\ UNCHANGED <<network, closed, connections, lock, confirmed>>

(* A gateway that is no longer reported loses its record and connection.   *)
Vanished == "vanish" \in network /\ ~ closed /\ current # None /\ task[Refresh].pc \in {"idle", "done"}

RefreshOmits ==
    /\ Vanished
    /\ Waits(Refresh, "remove")
    /\ UNCHANGED <<closed, current, records, connections, history>>

RemoveRecord ==
    /\ Enters(Refresh, "remove", Vanished)
    /\ IF current = None
       THEN UNCHANGED connections
       ELSE connections' = Close(connections, records[current].connection)
    /\ current' = None
    /\ Leave(Refresh, "none")
    /\ UNCHANGED <<closed, records, history>>
---------------------------------------------------------------------------
(* discover()                                                              *)

Probe ==
    /\ task[Discover].pc \in {"idle", "done"} /\ ~ closed
    /\ current # None /\ "udp" \in network
    /\ task' = [task EXCEPT ![Discover] = [IdleTask EXCEPT !.pc = "probing"]]
    /\ UNCHANGED <<closed, current, records, connections, lock, history>>

(* What discovery makes of the reply, if any: a host other than the active *)
(* one of a record that is still there is worth a login.                   *)
Candidate(host) ==
    /\ task[Discover].pc = "probing"
    /\ ~ closed /\ current # None
    /\ host \notin {None, records[current].active_host}

ProbeEnds(host) ==
    /\ task[Discover].pc = "probing" /\ ~ Candidate(host)
    /\ task' = [task EXCEPT ![Discover] = Ended("none")]
    /\ UNCHANGED <<closed, current, records, connections, lock, history>>

(* The record is looked up before the lock is asked for, and used after.   *)
WaitWithRecord(host) ==
    /\ Candidate(host) /\ lock # << >>
    /\ task' = [task EXCEPT ![Discover] = [IdleTask EXCEPT
                    !.pc = "promote", !.record = current, !.host = host]]
    /\ lock' = Append(lock, Discover)
    /\ UNCHANGED <<closed, current, records, connections, history>>

(* Mutant: the candidate may push before its login is complete.            *)
TryCandidatePushing(host) ==
    /\ Enters(Discover, "promote", Candidate(host))
    /\ LET waited == task[Discover].pc = "promote" IN
       /\ waited => host = task[Discover].host
       /\ IF closed
          THEN Leave(Discover, "failed") /\ UNCHANGED connections
          ELSE Open(Discover, IF waited THEN task[Discover].record ELSE current,
                    host, TRUE, FALSE)
    /\ UNCHANGED <<closed, current, records, history>>

TryCandidate(host) ==
    /\ Enters(Discover, "promote", Candidate(host))
    /\ LET waited == task[Discover].pc = "promote" IN
       /\ waited => host = task[Discover].host
       /\ IF closed
          THEN Leave(Discover, "failed") /\ UNCHANGED connections
          ELSE Open(Discover, IF waited THEN task[Discover].record ELSE current,
                    host, FALSE, FALSE)
    /\ UNCHANGED <<closed, current, records, history>>

(* Mutant: the previous connection is left alone.                          *)
PromoteKeepingPrevious(up) ==
    /\ LoggedIn(Discover, up, TRUE)
    /\ LET c == task[Discover].connection
           r == task[Discover].record IN
       IF closed
       THEN connections' = Close(connections, c) /\ UNCHANGED records
       ELSE /\ connections' = [Arrived(c, up, TRUE) EXCEPT ![c].pushes = TRUE]
            /\ records' = [records EXCEPT ![r].connection = c,
                                          ![r].active_host = task[Discover].host]
    /\ Leave(Discover, "none")
    /\ UNCHANGED <<network, closed, current, cloudNamed>>

(* The candidate confirmed the UID: it replaces the connection and the     *)
(* active host of the record, and may push from now on.                    *)
Promote(up) ==
    /\ LoggedIn(Discover, up, TRUE)
    /\ LET c == task[Discover].connection
           r == task[Discover].record IN
       IF closed
       THEN connections' = Close(connections, c) /\ UNCHANGED records
       ELSE /\ connections' = Close([Arrived(c, up, TRUE) EXCEPT ![c].pushes = TRUE],
                                    records[r].connection)
            /\ records' = [records EXCEPT ![r].connection = c,
                                          ![r].active_host = task[Discover].host]
    /\ Leave(Discover, "none")
    /\ UNCHANGED <<network, closed, current, cloudNamed>>
---------------------------------------------------------------------------
(* close()                                                                 *)

(* gather starts a task for the record known now.                          *)
BeginClose ==
    /\ task[Closer].pc = "idle"
    /\ closed' = TRUE
    /\ task' = [task EXCEPT ![Closer] = IF current = None THEN Ended("none")
                                        ELSE [IdleTask EXCEPT !.pc = "closing", !.record = current]]
    /\ UNCHANGED <<current, records, connections, lock, history>>

CloserWaits ==
    /\ task[Closer].pc = "closing" /\ lock # << >>
    /\ lock' = Append(lock, Closer)
    /\ task' = [task EXCEPT ![Closer].pc = "detach"]
    /\ UNCHANGED <<closed, current, records, connections, history>>

(* Mutant: the connection is detached without waiting for the lock.        *)
DetachUnlocked ==
    /\ task[Closer].pc = "closing"
    /\ LET r == task[Closer].record IN
         /\ connections' = Close(connections, records[r].connection)
         /\ records' = [records EXCEPT ![r].connection = None]
    /\ task' = [task EXCEPT ![Closer] = Ended("none")]
    /\ UNCHANGED <<closed, current, lock, history>>

Detach ==
    /\ Enters(Closer, "detach", task[Closer].pc = "closing")
    /\ LET r == task[Closer].record IN
         /\ connections' = Close(connections, records[r].connection)
         /\ records' = [records EXCEPT ![r].connection = None]
    /\ Leave(Closer, "none")
    /\ UNCHANGED <<closed, current, history>>

(* The transport of a live connection is lost.                             *)
Drop(c) ==
    /\ connections[c].state = "up"
    /\ connections' = [connections EXCEPT ![c].state = "down", ![c].identified = FALSE]
    /\ UNCHANGED <<closed, current, records, lock, task, history>>
---------------------------------------------------------------------------
EnsureStep(t) ==
    \/ \E operation \in {"ensure", "reconnect"} :
         Refused(t, operation) \/ WaitForLock(t, operation) \/ Enter(t, operation)
    \/ Reopen(t)
    \/ \E up, identified \in BOOLEAN : Connected(t, up, identified)

RefreshStep ==
    \/ \E host \in CloudHost : RefreshNames(host)
    \/ RefreshOmits \/ RemoveRecord

DiscoverStep ==
    \/ Probe
    \/ \E host \in UdpHost \union {None} : ProbeEnds(host)
    \/ \E host \in UdpHost : WaitWithRecord(host) \/ TryCandidate(host)
    \/ \E up \in BOOLEAN : Promote(up)

Next ==
    \/ \E t \in Sender \union {Refresh} : EnsureStep(t)
    \/ \E t \in Task : ConnectFails(t) \/ Cancel(t)
    \/ RefreshStep \/ DiscoverStep
    \/ BeginClose \/ CloserWaits \/ Detach
    \/ \E c \in Object : Drop(c)

Spec == Init /\ [][Next]_vars

(* The event loop runs what is runnable, connect() ends by its deadline,   *)
(* and a probe by the end of its listening window.                         *)
Fairness ==
    /\ \A t \in Task :
         /\ WF_vars(Holds(t) /\ EnsureStep(t))
         /\ WF_vars(ConnectFails(t))
    /\ WF_vars(Holds(Refresh) /\ RemoveRecord)
    /\ WF_vars(\E host \in UdpHost : Holds(Discover) /\ TryCandidate(host))
    /\ WF_vars(CloserWaits) /\ WF_vars(Detach)

FairSpec == Spec /\ Fairness
---------------------------------------------------------------------------
(* Types, and the shape of the lock's queue: the coroutines between        *)
(* asking for the lock and leaving it, each once, of which only the first  *)
(* has gone on; only it is connecting (gateway_manager.py:286-287).   *)
TypeOK ==
    /\ network \in Network
    /\ closed \in BOOLEAN
    /\ current \in Object \union {None}
    /\ records \in [Object -> Record]
    /\ connections \in [Object -> Connection]
    /\ task \in [Task -> TaskState]
    /\ lock \in Seq(Task)
    /\ \A i, j \in DOMAIN lock : lock[i] = lock[j] => i = j
    /\ \A t \in Task : task[t].pc \in Queued <=> \E i \in DOMAIN lock : lock[i] = t
    /\ \A t \in Task : task[t].pc \in {"reopen", "connecting"} => Holds(t)
    /\ cloudNamed \subseteq CloudHost /\ confirmed \subseteq Host

(* A live connection is never lost sight of: it is the connection of the   *)
(* record under this UID, where close() and the reconciliation find it, or *)
(* a coroutine is still connecting it (gateway_manager.py:112-118,         *)
(* 173-182, 193-195, 229-244).                                             *)
EveryConnectionOwned ==
    \A c \in Object : Live(c) =>
        \/ \E t \in Task : task[t].pc = "connecting" /\ task[t].connection = c
        \/ current # None /\ records[current].connection = c

(* One gateway never has two sessions that push: the old one is closed     *)
(* before a new one may deliver state, also while discovery promotes a     *)
(* candidate (gateway_manager.py:154, 173-182, 229-236).                   *)
OnePushingSession ==
    \A c, d \in Object :
        (Live(c) /\ Live(d) /\ connections[c].pushes /\ connections[d].pushes) => c = d

(* Once close() has returned, nothing is connected or being connected any  *)
(* more, whatever was under way when it was called                         *)
(* (gateway_manager.py:186-206, 237-242, 273-278).                         *)
ClosedForGood ==
    (closed /\ task[Closer].pc = "done") => \A c \in Object : ~ Live(c)

(* Addresses are trusted as far as they were confirmed: a session whose    *)
(* gateway named no UID exists only at a host that a cloud snapshot named, *)
(* and an active host that differs from the cloud's is one where a login   *)
(* has confirmed the UID, also when it is reconnected later                *)
(* (gateway_manager.py:135, 151-158, 232-236).                             *)
OnlyTrustedHosts ==
    /\ \A c \in Object : (connected(c) /\ ~ connections[c].identified) =>
         connections[c].host \in cloudNamed
    /\ (current # None /\ records[current].active_host # records[current].cloud_host)
         => records[current].active_host \in confirmed

(* Whoever asks for the lock gets an end: a result, an error or the lock   *)
(* and then one of them; nobody waits for ever on a coroutine that failed, *)
(* was cancelled or found the manager closed (gateway_manager.py:86-102,   *)
(* 142-182, 191-200).                                                      *)
EveryTaskEnds ==
    \A t \in Task : task[t].pc \in Queued ~> task[t].pc \notin Queued

=============================================================================
