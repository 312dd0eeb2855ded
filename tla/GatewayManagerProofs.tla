------------------------ MODULE GatewayManagerProofs ------------------------
(***************************************************************************)
(* TLAPS proofs about GatewayManager, for any senders, hosts and objects.  *)
(* The ownership of connections does not hold when a gateway vanishes from *)
(* the cloud while discovery waits for its lock (the run                   *)
(* gateway_manager_stale_record), so the theorems are about behaviours in  *)
(* which only one of the two happens.                                      *)
(***************************************************************************)
EXTENDS GatewayManager, SequenceTheorems, TLAPS

OneSurprise == \A surprises \in Network : surprises # Surprise

---------------------------------------------------------------------------
(* The inductive invariant.                                                *)

Types ==
    /\ network \in Network
    /\ closed \in BOOLEAN
    /\ current \in Object \union {None}
    /\ records \in [Object -> Record]
    /\ connections \in [Object -> Connection]
    /\ task \in [Task -> TaskState]
    /\ cloudNamed \subseteq CloudHost /\ confirmed \subseteq Host

Opening == {"reopen", "connecting"}

(* queue holds each member of who once, and nobody else.                   *)
QueueOf(queue, who) ==
    /\ queue \in Seq(Task)
    /\ \A i, j \in 1..Len(queue) : queue[i] = queue[j] => i = j
    /\ \A t \in Task : t \in who <=> \E i \in 1..Len(queue) : queue[i] = t

Queueing == { t \in Task : task[t].pc \in Queued }

(* Whoever asked for the lock is in its queue; only the first has gone on. *)
LockInOrder ==
    /\ QueueOf(lock, Queueing)
    /\ \A t \in Task : task[t].pc \in Opening => Holds(t)

(* Which coroutine can be where, and which surprise lets it.               *)
Roles ==
    /\ task[Closer].pc \in {"idle", "closing", "detach", "done"}
    /\ \A t \in Task \ {Closer} : task[t].pc \notin {"closing", "detach"}
    /\ \A t \in Task \ {Discover} : task[t].pc # "promote"
    /\ \A t \in Task \ {Refresh} : task[t].pc # "remove"
    /\ task[Discover].pc # "reopen"
    /\ "udp" \notin network => task[Discover].pc = "idle"
    /\ "vanish" \notin network => current # None /\ task[Refresh].pc # "remove"
    /\ task[Closer].pc # "idle" => closed

(* The record a coroutine keeps across its awaits is the current one.      *)
RecordsKept ==
    /\ \A t \in Task : task[t].pc \in Opening \union {"promote"} =>
         current # None /\ task[t].record = current
    /\ task[Closer].pc \in {"closing", "detach"} =>
         task[Closer].record \in Object /\ (current # None => task[Closer].record = current)

(* A connection being opened is new, and its record holds no other that is *)
(* alive, unless discovery opens it: that one may not push.                *)
OpenedAlone ==
    \A t \in Task :
        /\ task[t].pc = "connecting" =>
             /\ task[t].connection \in Object /\ task[t].host \in Host
             /\ connections[task[t].connection].state = "connecting"
             /\ connections[task[t].connection].host = task[t].host
             /\ records[current].connection # task[t].connection
             /\ t = Discover => /\ ~ connections[task[t].connection].pushes
                                /\ ~ connections[task[t].connection].mayLackUid
        /\ (task[t].pc \in Opening /\ t # Discover /\ records[current].connection # None)
             => ~ Live(records[current].connection)

HostsTrusted ==
    /\ OnlyTrustedHosts
    /\ current # None => records[current].cloud_host \in cloudNamed
                         /\ records[current].active_host \in Host
    /\ \A c \in Object : (Live(c) /\ connections[c].mayLackUid) => connections[c].host \in cloudNamed

Inv == /\ Types /\ LockInOrder /\ Roles /\ RecordsKept /\ OpenedAlone
       /\ EveryConnectionOwned /\ HostsTrusted /\ ClosedForGood

---------------------------------------------------------------------------
(* The lock's queue.                                                       *)

LEMMA TasksAreDistinct ==
    /\ Refresh \in Task /\ Discover \in Task /\ Closer \in Task
    /\ Refresh # Discover /\ Refresh # Closer /\ Discover # Closer
    /\ Refresh \notin Sender /\ Discover \notin Sender /\ Closer \notin Sender
    /\ \A t \in Sender : t \in Task
BY ManagerAssumption DEF Task, Refresh, Discover, Closer

LEMMA NothingQueued ==
    ASSUME NEW who \in SUBSET Task, QueueOf(<< >>, who)
    PROVE  who = {}
BY DEF QueueOf

LEMMA Enqueued ==
    ASSUME NEW who \in SUBSET Task, NEW queue, QueueOf(queue, who), NEW t \in Task \ who
    PROVE  QueueOf(Append(queue, t), who \union {t})
<1> DEFINE q == Append(queue, t)
<1>1. /\ queue \in Seq(Task) /\ Len(queue) \in Nat
      /\ \A i, j \in 1..Len(queue) : queue[i] = queue[j] => i = j
      /\ \A s \in Task : s \in who <=> \E i \in 1..Len(queue) : queue[i] = s
  BY DEF QueueOf
<1>2. /\ q \in Seq(Task) /\ Len(q) = Len(queue) + 1
      /\ \A i \in 1..Len(queue) : q[i] = queue[i] /\ q[i] # t
      /\ q[Len(queue) + 1] = t
  BY <1>1
<1>3. ASSUME NEW i \in 1..Len(q), NEW j \in 1..Len(q), q[i] = q[j] PROVE i = j
  <2>1. CASE i \in 1..Len(queue) /\ j \in 1..Len(queue)
    BY <1>1, <1>2, <1>3, <2>1
  <2>2. CASE i = Len(queue) + 1 \/ j = Len(queue) + 1
    BY <1>1, <1>2, <1>3, <2>2
  <2>3. QED
    BY <2>1, <2>2, <1>1, <1>2
<1>4. ASSUME NEW s \in Task
      PROVE  s \in who \union {t} <=> \E i \in 1..Len(q) : q[i] = s
  <2>1. CASE s = t
    BY <1>1, <1>2, <2>1
  <2>2. CASE s # t
    BY <1>1, <1>2, <2>2
  <2>3. QED
    BY <2>1, <2>2
<1>5. QED
  BY <1>2, <1>3, <1>4 DEF QueueOf

(* The queue without its i-th member; the first stays first unless it is   *)
(* the one that goes.                                                      *)
LEMMA Dequeued ==
    ASSUME NEW who \in SUBSET Task, NEW queue, QueueOf(queue, who),
           NEW i \in 1..Len(queue)
    PROVE  /\ QueueOf(Without(queue, i), who \ {queue[i]})
           /\ i # 1 => Without(queue, i) # << >> /\ Head(Without(queue, i)) = Head(queue)
<1> DEFINE q == Without(queue, i)
           at(j) == IF j < i THEN j ELSE j + 1
<1>1. /\ queue \in Seq(Task) /\ Len(queue) \in Nat /\ Len(queue) >= 1
      /\ \A j, k \in 1..Len(queue) : queue[j] = queue[k] => j = k
      /\ \A s \in Task : s \in who <=> \E j \in 1..Len(queue) : queue[j] = s
  BY DEF QueueOf
<1>2. \A j \in 1..Len(queue) - 1 : at(j) \in 1..Len(queue) /\ at(j) # i
  BY <1>1
<1>3. /\ q \in Seq(Task) /\ Len(q) = Len(queue) - 1
      /\ \A j \in 1..Len(q) : q[j] = queue[at(j)]
  BY <1>1, <1>2 DEF Without
<1>4. ASSUME NEW j \in 1..Len(q), NEW k \in 1..Len(q), q[j] = q[k] PROVE j = k
  <2>1. at(j) \in 1..Len(queue) /\ at(k) \in 1..Len(queue)
    BY <1>1, <1>2, <1>3
  <2>2. queue[at(j)] = queue[at(k)]
    BY <1>3, <1>4
  <2>3. at(j) = at(k)
    BY <1>1, <2>1, <2>2
  <2>4. QED
    BY <1>1, <1>3, <2>3
<1>5. ASSUME NEW s \in Task
      PROVE  s \in who \ {queue[i]} <=> \E j \in 1..Len(q) : q[j] = s
  <2>1. ASSUME s \in who, s # queue[i] PROVE \E j \in 1..Len(q) : q[j] = s
    <3>1. PICK k \in 1..Len(queue) : queue[k] = s
      BY <1>1, <2>1
    <3>2. k # i
      BY <2>1, <3>1
    <3>3. CASE k < i
      BY <1>1, <1>3, <3>1, <3>2, <3>3
    <3>4. CASE k > i
      <4>1. k - 1 \in 1..Len(q) /\ at(k - 1) = k
        BY <1>1, <1>3, <3>1, <3>4
      <4>2. QED
        BY <1>3, <3>1, <4>1
    <3>5. k < i \/ k > i
      BY <1>1, <3>2
    <3>6. QED
      BY <3>3, <3>4, <3>5
  <2>2. ASSUME NEW j \in 1..Len(q), q[j] = s PROVE s \in who /\ s # queue[i]
    <3>1. at(j) \in 1..Len(queue) /\ at(j) # i
      <4>1. j \in 1..Len(queue) - 1
        BY <1>3
      <4>2. QED
        BY <1>2, <4>1
    <3>2. queue[at(j)] = s
      BY <1>3, <2>2
    <3>3. s \in who
      BY <1>1, <3>1, <3>2
    <3>4. s # queue[i]
      BY <1>1, <3>1, <3>2
    <3>5. QED
      BY <3>3, <3>4
  <2>3. QED
    BY <2>1, <2>2
<1>6. i # 1 => q # << >> /\ Head(q) = Head(queue)
  <2>1. SUFFICES ASSUME i # 1 PROVE q # << >> /\ Head(q) = Head(queue)
    OBVIOUS
  <2>2. Len(q) >= 1 /\ q[1] = queue[1]
    BY <1>1, <1>3, <2>1
  <2>3. QED
    BY <1>1, <1>3, <2>2
<1>7. QED
  BY <1>3, <1>4, <1>5, <1>6 DEF QueueOf

LEMMA Served ==
    ASSUME NEW who \in SUBSET Task, NEW queue, QueueOf(queue, who), queue # << >>
    PROVE  QueueOf(Tail(queue), who \ {Head(queue)})
<1>1. queue \in Seq(Task) /\ Len(queue) \in Nat /\ Len(queue) >= 1
  BY DEF QueueOf
<1>2. /\ Without(queue, 1) \in Seq(Task) /\ QueueOf(Without(queue, 1), who \ {queue[1]})
      /\ Head(queue) = queue[1]
  <2>1. 1 \in 1..Len(queue)
    BY <1>1
  <2>2. QueueOf(Without(queue, 1), who \ {queue[1]})
    BY <2>1, Dequeued
  <2>3. Without(queue, 1) \in Seq(Task)
    BY <2>2 DEF QueueOf
  <2>4. QED
    BY <1>1, <2>2, <2>3
<1>3. /\ Len(Without(queue, 1)) = Len(queue) - 1
      /\ \A j \in 1..Len(queue) - 1 : Without(queue, 1)[j] = queue[j + 1]
  BY <1>1, <1>2 DEF Without
<1>4. /\ Tail(queue) \in Seq(Task) /\ Len(Tail(queue)) = Len(queue) - 1
      /\ \A j \in 1..Len(queue) - 1 : Tail(queue)[j] = queue[j + 1]
  BY <1>1
<1>5. Without(queue, 1) = Tail(queue)
  BY <1>2, <1>3, <1>4, SeqEqual
<1>6. QED
  BY <1>2, <1>5


LEMMA FirstQueued ==
    ASSUME NEW t \in Task
    PROVE  QueueOf(<<t>>, {t})
BY DEF QueueOf

(* Nobody but the holder has gone on.                                      *)
LEMMA OnlyTheHolderOpens ==
    ASSUME Types, LockInOrder, NEW t \in Task, lock = << >> \/ Holds(t)
    PROVE  \A q \in Task \ {t} : task[q].pc \notin Opening
<1>1. CASE lock = << >>
  BY <1>1 DEF LockInOrder, Holds
<1>2. CASE Holds(t)
  BY <1>2 DEF LockInOrder, Holds
<1>3. QED
  BY <1>1, <1>2

(* What asking for the lock, keeping it, leaving it and giving up do to    *)
(* the queue, and to the coroutines that have gone on.                     *)
Moves(t, state) == task' = [task EXCEPT ![t] = state]

LEMMA QueueingMoves ==
    ASSUME Types, NEW t \in Task, NEW state, Moves(t, state)
    PROVE  /\ Queueing' = IF state.pc \in Queued THEN Queueing \union {t} ELSE Queueing \ {t}
           /\ task'[t] = state /\ \A q \in Task \ {t} : task'[q] = task[q]
<1>1. task'[t] = state /\ \A q \in Task \ {t} : task'[q] = task[q]
  BY DEF Types, Moves
<1>2. QED
  BY <1>1 DEF Queueing

LEMMA KeepsLock ==
    ASSUME Types, LockInOrder, NEW t \in Task, NEW state, lock = << >> \/ Holds(t),
           state.pc \in Queued, Moves(t, state), Keep(t)
    PROVE  LockInOrder'
<1>1. /\ Queueing' = Queueing \union {t} /\ task'[t] = state
      /\ \A q \in Task \ {t} : task'[q] = task[q]
  BY QueueingMoves
<1>2. QueueOf(lock, Queueing) /\ Queueing \in SUBSET Task
  BY DEF LockInOrder, Queueing
<1>3. CASE lock = << >>
  <2>1. lock' = <<t>> /\ Queueing' = {t}
    BY <1>1, <1>2, <1>3, NothingQueued DEF Keep
  <2>2. QueueOf(lock', Queueing')
    BY <2>1, FirstQueued
  <2>3. \A q \in Task \ {t} : task'[q].pc \notin Opening
    BY <1>1, <1>3, OnlyTheHolderOpens
  <2>4. Holds(t)'
    BY <2>1 DEF Holds
  <2>5. QED
    BY <2>2, <2>3, <2>4 DEF LockInOrder
<1>4. CASE lock # << >>
  <2>1. lock' = lock /\ Holds(t)
    BY <1>4 DEF Keep
  <2>2. t \in Queueing
    <3>1. lock \in Seq(Task) /\ Head(lock) = t /\ lock # << >>
      BY <1>2, <2>1 DEF QueueOf, Holds
    <3>2. 1 \in 1..Len(lock) /\ lock[1] = t
      BY <3>1
    <3>3. QED
      BY <1>2, <3>2 DEF QueueOf
  <2>3. Queueing' = Queueing
    BY <1>1, <2>2
  <2>4. \A q \in Task \ {t} : task'[q].pc \notin Opening
    BY <1>1, <2>1, OnlyTheHolderOpens
  <2>5. Holds(t)'
    BY <2>1 DEF Holds
  <2>6. QED
    BY <1>2, <2>1, <2>3, <2>4, <2>5 DEF LockInOrder
<1>5. QED
  BY <1>3, <1>4

LEMMA LeavesLock ==
    ASSUME Types, LockInOrder, NEW t \in Task, NEW outcome, lock = << >> \/ Holds(t),
           Leave(t, outcome)
    PROVE  LockInOrder' /\ \A q \in Task : task'[q].pc \notin Opening
<1>1. Moves(t, Ended(outcome)) /\ Ended(outcome).pc = "done"
  BY DEF Leave, Moves, Ended, IdleTask
<1>2. /\ Queueing' = Queueing \ {t} /\ task'[t].pc = "done"
      /\ \A q \in Task \ {t} : task'[q] = task[q]
  BY <1>1, QueueingMoves DEF Queued
<1>3. QueueOf(lock, Queueing) /\ Queueing \in SUBSET Task
  BY DEF LockInOrder, Queueing
<1>4. \A q \in Task : task'[q].pc \notin Opening
  BY <1>2, OnlyTheHolderOpens DEF Opening
<1>5. QueueOf(lock', Queueing')
  <2>1. CASE lock = << >>
    <3>1. Queueing' = {} /\ Queueing = {} /\ lock' = << >>
      BY <1>2, <1>3, <2>1, NothingQueued DEF Leave
    <3>2. QED
      BY <1>3, <2>1, <3>1
  <2>2. CASE lock # << >>
    BY <1>2, <1>3, <2>2, Served DEF Leave, Holds
  <2>3. QED
    BY <2>1, <2>2
<1>6. QED
  BY <1>4, <1>5 DEF LockInOrder

LEMMA WaitsForLock ==
    ASSUME Types, LockInOrder, NEW t \in Task, NEW state, task[t].pc \notin Queued,
           state.pc \in Queued \ Opening, lock # << >>, Moves(t, state),
           lock' = Append(lock, t)
    PROVE  LockInOrder'
<1>1. /\ Queueing' = Queueing \union {t} /\ task'[t] = state
      /\ \A q \in Task \ {t} : task'[q] = task[q]
  BY QueueingMoves
<1>2. QueueOf(lock, Queueing) /\ Queueing \in SUBSET Task /\ t \notin Queueing
  BY DEF LockInOrder, Queueing
<1>3. QueueOf(lock', Queueing')
  BY <1>1, <1>2, Enqueued
<1>4. lock' # << >> /\ Head(lock') = Head(lock)
  BY <1>2 DEF QueueOf
<1>5. \A q \in Task : task'[q].pc \in Opening => Holds(q)'
  BY <1>1, <1>4 DEF LockInOrder, Holds
<1>6. QED
  BY <1>3, <1>5 DEF LockInOrder

LEMMA StaysOutside ==
    ASSUME Types, LockInOrder, NEW t \in Task, NEW state, task[t].pc \notin Queued,
           state.pc \notin Queued, Moves(t, state), UNCHANGED lock
    PROVE  LockInOrder'
<1>1. /\ Queueing' = Queueing \ {t} /\ task'[t] = state
      /\ \A q \in Task \ {t} : task'[q] = task[q]
  BY QueueingMoves
<1>2. Queueing' = Queueing
  BY <1>1 DEF Queueing
<1>3. \A q \in Task : task'[q].pc \in Opening => Holds(q)'
  BY <1>1 DEF LockInOrder, Holds, Opening, Queued
<1>4. QED
  BY <1>2, <1>3 DEF LockInOrder

LEMMA GivesUp ==
    ASSUME Types, LockInOrder, NEW t \in Task, NEW state, NEW i \in 1..Len(lock),
           lock[i] = t, state.pc \notin Queued, Moves(t, state), lock' = Without(lock, i)
    PROVE  LockInOrder'
<1>1. /\ Queueing' = Queueing \ {t} /\ task'[t] = state
      /\ \A q \in Task \ {t} : task'[q] = task[q]
  BY QueueingMoves
<1>2. QueueOf(lock, Queueing) /\ Queueing \in SUBSET Task
  BY DEF LockInOrder, Queueing
<1>3. QueueOf(lock', Queueing')
  BY <1>1, <1>2, Dequeued
<1>4. ASSUME NEW q \in Task, task'[q].pc \in Opening PROVE Holds(q)'
  <2>1. q # t
    BY <1>1, <1>4 DEF Opening, Queued
  <2>2. Holds(q)
    BY <1>1, <1>4, <2>1 DEF LockInOrder
  <2>3. i # 1
    BY <1>2, <2>1, <2>2 DEF Holds, QueueOf
  <2>4. lock' # << >> /\ Head(lock') = Head(lock)
    BY <1>2, <2>3, Dequeued
  <2>5. QED
    BY <2>2, <2>4 DEF Holds
<1>5. QED
  BY <1>3, <1>4 DEF LockInOrder

---------------------------------------------------------------------------
(* Coroutines and connections.                                             *)

LEMMA OneOfTheTwo ==
    ASSUME OneSurprise, network \in Network
    PROVE  ~ ("vanish" \in network /\ "udp" \in network)
<1>1. network \subseteq {"vanish", "udp"} /\ network # {"vanish", "udp"}
  BY ManagerAssumption DEF OneSurprise, Surprise
<1>2. QED
  BY <1>1

LEMMA EndedTask ==
    ASSUME NEW outcome \in {"none", "connected", "dead", "failed"}
    PROVE  /\ Ended(outcome) \in TaskState
           /\ Ended(outcome).pc = "done" /\ Ended(outcome).connection = None
           /\ Ended(outcome).record = None
<1>1. Ended(outcome).pc = "done" /\ Ended(outcome).connection = None
      /\ Ended(outcome).record = None
  BY DEF Ended, IdleTask
<1>2. Ended(outcome) \in TaskState
  BY DEF Ended, IdleTask, TaskState
<1>3. QED
  BY <1>1, <1>2

LEMMA PlacedTask ==
    ASSUME NEW pc \in Queued \union {"named", "probing", "closing"}
    PROVE  /\ [IdleTask EXCEPT !.pc = pc] \in TaskState
           /\ [IdleTask EXCEPT !.pc = pc].pc = pc
           /\ [IdleTask EXCEPT !.pc = pc].record = None
<1>1. [IdleTask EXCEPT !.pc = pc].pc = pc /\ [IdleTask EXCEPT !.pc = pc].record = None
  BY DEF IdleTask
<1>2. [IdleTask EXCEPT !.pc = pc] \in TaskState
  BY DEF IdleTask, TaskState
<1>3. QED
  BY <1>1, <1>2

LEMMA KeepingTask ==
    ASSUME NEW pc \in Queued \union {"named", "probing", "closing"}, NEW r \in Object \union {None}
    PROVE  /\ [IdleTask EXCEPT !.pc = pc, !.record = r] \in TaskState
           /\ [IdleTask EXCEPT !.pc = pc, !.record = r].pc = pc
           /\ [IdleTask EXCEPT !.pc = pc, !.record = r].record = r
<1>1. /\ [IdleTask EXCEPT !.pc = pc, !.record = r].pc = pc
      /\ [IdleTask EXCEPT !.pc = pc, !.record = r].record = r
  BY DEF IdleTask
<1>2. [IdleTask EXCEPT !.pc = pc, !.record = r] \in TaskState
  BY DEF IdleTask, TaskState
<1>3. QED
  BY <1>1, <1>2

LEMMA Closes ==
    ASSUME NEW conns \in [Object -> Connection], NEW c \in Object \union {None}
    PROVE  /\ Close(conns, c) \in [Object -> Connection]
           /\ c # None => Close(conns, c)[c].state = "closed"
           /\ \A d \in Object : d # c => Close(conns, c)[d] = conns[d]
<1>1. [Unused EXCEPT !.state = "closed"].state = "closed"
  BY DEF Unused
<1>2. [Unused EXCEPT !.state = "closed"] \in Connection
  BY DEF Connection, Unused
<1>3. CASE c = None
  BY <1>3, ManagerAssumption DEF Close
<1>4. CASE c # None
  BY <1>1, <1>2, <1>4 DEF Close
<1>5. QED
  BY <1>3, <1>4

(* Nothing but one coroutine's place changes, and it neither opens a       *)
(* connection before nor after.                                            *)
LEMMA OnlyMoves ==
    ASSUME Inv, NEW t \in Task, NEW state \in TaskState, Moves(t, state),
           UNCHANGED <<network, closed, current, records, connections, cloudNamed, confirmed>>,
           LockInOrder', Roles',
           task[t].pc # "connecting", state.pc \notin Opening,
           state.pc = "promote" => current # None /\ state.record = current,
           t = Closer => state.pc # "done" \/ current = None,
           state.pc \in {"closing", "detach"} => 
              state.record \in Object /\ (current # None => state.record = current)
    PROVE  Inv'
<1>1. task'[t] = state /\ \A q \in Task \ {t} : task'[q] = task[q]
  BY QueueingMoves DEF Inv
<1>2. Types'
  BY DEF Inv, Types, Moves
<1>3. RecordsKept'
  BY <1>1, TasksAreDistinct DEF Inv, RecordsKept, Opening
<1>4. OpenedAlone'
  BY <1>1 DEF Inv, OpenedAlone, Opening, Live
<1>5. EveryConnectionOwned'
  BY <1>1 DEF Inv, EveryConnectionOwned, Live
<1>6. HostsTrusted'
  BY DEF Inv, HostsTrusted, OnlyTrustedHosts, Live, connected
<1>7. ClosedForGood'
  <2>1. current = None => \A c \in Object : ~ Live(c)
    BY DEF Inv, EveryConnectionOwned, RecordsKept, Opening
  <2>2. QED
    BY <1>1, <2>1, TasksAreDistinct DEF Inv, ClosedForGood, Live
<1>8. QED
  BY <1>2, <1>3, <1>4, <1>5, <1>6, <1>7 DEF Inv

(* A coroutine that holds the lock starts to connect.                      *)
LEMMA Opens ==
    ASSUME Inv, OneSurprise, NEW t \in Task \ {Closer}, lock = << >> \/ Holds(t),
           task[t].pc # "connecting", NEW r, r = current, current # None, ~ closed,
           NEW host \in Host, NEW pushes \in BOOLEAN, NEW mayLackUid \in BOOLEAN,
           Open(t, r, host, pushes, mayLackUid),
           UNCHANGED <<closed, current, records, history>>,
           mayLackUid => host \in cloudNamed,
           t = Discover => ~ pushes /\ ~ mayLackUid /\ "udp" \in network,
           t # Discover /\ records[current].connection # None
               => ~ Live(records[current].connection)
    PROVE  Inv'
<1>1. PICK c \in FreeConnections :
        /\ connections' = [connections EXCEPT ![c] =
               [state |-> "connecting", host |-> host, identified |-> FALSE,
                pushes |-> pushes, mayLackUid |-> mayLackUid]]
        /\ task' = [task EXCEPT ![t] =
               [pc |-> "connecting", record |-> r, connection |-> c, host |-> host,
                outcome |-> "none"]]
        /\ Keep(t)
  BY DEF Open
<1> DEFINE state == [pc |-> "connecting", record |-> r, connection |-> c, host |-> host,
                     outcome |-> "none"]
           opened == [state |-> "connecting", host |-> host, identified |-> FALSE,
                      pushes |-> pushes, mayLackUid |-> mayLackUid]
<1>2. /\ c \in Object /\ ~ Live(c) /\ records[current].connection # c
      /\ \A q \in Task : task[q].connection # c
      /\ current \in Object
  BY DEF FreeConnections, FreeRecords, Inv, Types
<1>3. /\ task'[t] = state /\ \A q \in Task \ {t} : task'[q] = task[q]
      /\ connections'[c] = opened /\ \A d \in Object \ {c} : connections'[d] = connections[d]
  BY <1>1, <1>2 DEF Inv, Types
<1>4. \A q \in Task \ {t} : task[q].pc \notin Opening
  BY OnlyTheHolderOpens DEF Inv
<1>5. Types'
  <2>1. state \in TaskState
    BY <1>2 DEF TaskState, Queued
  <2>2. opened \in Connection
    BY DEF Connection
  <2>3. QED
    BY <1>1, <2>1, <2>2 DEF Inv, Types, history
<1>6. LockInOrder'
  BY <1>1, KeepsLock DEF Inv, Moves, Queued
<1>7. Roles'
  BY <1>3, TasksAreDistinct DEF Inv, Roles, history
<1>8. RecordsKept'
  BY <1>3, TasksAreDistinct DEF Inv, RecordsKept
<1>9. OpenedAlone'
  <2>1. task'[t].pc = "connecting" /\ task'[t].connection = c /\ task'[t].host = host
    BY <1>3
  <2>2. connections'[c].state = "connecting" /\ connections'[c].host = host
        /\ connections'[c].pushes = pushes /\ connections'[c].mayLackUid = mayLackUid
    BY <1>3
  <2>3. t # Discover /\ records[current].connection # None
          => ~ Live(records[current].connection)'
    BY <1>2, <1>3 DEF Live, Inv, Types, Record
  <2>4. \A q \in Task \ {t} : task'[q].pc \notin Opening
    BY <1>3, <1>4
  <2>5. QED
    BY <1>2, <2>1, <2>2, <2>3, <2>4 DEF OpenedAlone, Opening
<1>10. EveryConnectionOwned'
  <2>1. task'[t].pc = "connecting" /\ task'[t].connection = c
    BY <1>3
  <2>2. ASSUME NEW d \in Object, d # c, Live(d)'
        PROVE  current # None /\ records[current].connection = d
    BY <1>3, <1>4, <2>2, <1>2 DEF Inv, EveryConnectionOwned, Live, Opening, OpenedAlone
  <2>3. QED
    BY <2>1, <2>2 DEF EveryConnectionOwned
<1>11. HostsTrusted'
  <2>1. connections'[c].state = "connecting" /\ connections'[c].host = host
        /\ connections'[c].mayLackUid = mayLackUid
    BY <1>3
  <2>2. OnlyTrustedHosts'
    BY <1>3, <2>1 DEF Inv, HostsTrusted, OnlyTrustedHosts, connected, history
  <2>3. \A d \in Object : (Live(d)' /\ connections'[d].mayLackUid)
                             => connections'[d].host \in cloudNamed
    BY <1>3, <2>1 DEF Inv, HostsTrusted, Live
  <2>4. QED
    BY <2>2, <2>3 DEF Inv, HostsTrusted, history
<1>12. ClosedForGood'
  BY DEF ClosedForGood
<1>13. QED
  BY <1>5, <1>6, <1>7, <1>8, <1>9, <1>10, <1>11, <1>12 DEF Inv

(* The coroutine that was connecting gives its new connection up.          *)
LEMMA Aborts ==
    ASSUME Inv, NEW t \in Task, task[t].pc = "connecting",
           NEW outcome \in {"none", "connected", "dead", "failed"},
           connections' = Close(connections, task[t].connection), Leave(t, outcome),
           UNCHANGED <<network, closed, current, records, cloudNamed>>,
           confirmed \subseteq confirmed', confirmed' \subseteq Host
    PROVE  Inv'
<1>1. PICK c : c = task[t].connection
  OBVIOUS
<1>2. /\ c \in Object /\ records[current].connection # c
      /\ current # None
  BY <1>1 DEF Inv, OpenedAlone, RecordsKept, Opening
<1>3. /\ connections' \in [Object -> Connection] /\ connections'[c].state = "closed"
      /\ \A d \in Object : d # c => connections'[d] = connections[d]
  BY <1>1, <1>2, Closes, ManagerAssumption DEF Inv, Types
<1>4. /\ LockInOrder' /\ \A q \in Task : task'[q].pc \notin Opening
  <2>1. Holds(t)
    BY DEF Inv, LockInOrder, Opening
  <2>2. QED
    BY <2>1, LeavesLock DEF Inv
<1>5. Ended(outcome) \in TaskState /\ Ended(outcome).pc = "done"
  BY EndedTask
<1>6. task'[t] = Ended(outcome) /\ \A q \in Task \ {t} : task'[q] = task[q]
  BY DEF Inv, Types, Leave
<1>7. Types'
  BY <1>3, <1>5 DEF Inv, Types, Leave
<1>8. Roles'
  BY <1>5, <1>6, TasksAreDistinct DEF Inv, Roles
<1>9. RecordsKept'
  BY <1>4, <1>5, <1>6, TasksAreDistinct DEF Inv, RecordsKept, Opening
<1>10. OpenedAlone'
  BY <1>4 DEF OpenedAlone, Opening
<1>11. EveryConnectionOwned'
  <2>1. \A q \in Task \ {t} : task[q].pc \notin Opening
    BY <1>5, <1>6, <1>4
  <2>2. ASSUME NEW d \in Object, Live(d)' PROVE records[current].connection = d
    BY <1>1, <1>3, <2>1, <2>2 DEF Inv, EveryConnectionOwned, Live, Opening
  <2>3. QED
    BY <1>2, <2>2 DEF EveryConnectionOwned
<1>12. HostsTrusted'
  BY <1>3 DEF Inv, HostsTrusted, OnlyTrustedHosts, connected, Live
<1>13. ClosedForGood'
  <2>1. t # Closer
    BY TasksAreDistinct DEF Inv, Roles
  <2>2. QED
    BY <1>3, <1>6, <2>1, TasksAreDistinct DEF Inv, ClosedForGood, Live
<1>14. QED
  BY <1>4, <1>7, <1>8, <1>9, <1>10, <1>11, <1>12, <1>13 DEF Inv

---------------------------------------------------------------------------
(* The actions of ensure, reconnect and send.                              *)

LEMMA InitInv ==
    ASSUME Init
    PROVE  Inv
<1>1. \A t \in Task : task[t] = IdleTask /\ IdleTask.pc = "idle"
  BY DEF Init, IdleTask
<1>2. /\ IdleTask \in TaskState /\ Unused \in Connection /\ NoRecord \in Record
      /\ Unused.state = "unused"
  BY DEF IdleTask, TaskState, Unused, Connection, NoRecord, Record
<1>3. \A c \in Object : ~ Live(c) /\ ~ connected(c)
  BY <1>2 DEF Init, Live, connected
<1>4. PICK h \in CloudHost :
        /\ records = [r \in Object |->
                        IF r = 1 THEN [cloud_host |-> h, active_host |-> h, connection |-> None]
                        ELSE NoRecord]
        /\ cloudNamed = {h}
  BY DEF Init
<1>5. /\ records[1] = [cloud_host |-> h, active_host |-> h, connection |-> None]
      /\ 1 \in Object /\ None \notin Object /\ current = 1
  BY <1>4, ManagerAssumption DEF Object, Init
<1>6. Types
  <2>1. [cloud_host |-> h, active_host |-> h, connection |-> None] \in Record
    BY DEF Record, Host
  <2>2. records \in [Object -> Record]
    BY <1>2, <1>4, <2>1
  <2>3. QED
    BY <1>2, <1>4, <1>5, <2>2 DEF Init, Types
<1>7. LockInOrder
  <2>1. Queueing = {}
    BY <1>1 DEF Queueing, Queued
  <2>2. QueueOf(<< >>, {})
    BY DEF QueueOf
  <2>3. QED
    BY <1>1, <2>1, <2>2 DEF LockInOrder, Init, Opening
<1>8. Roles
  BY <1>1, <1>5, TasksAreDistinct DEF Roles
<1>9. RecordsKept
  BY <1>1, TasksAreDistinct DEF RecordsKept, Opening
<1>10. OpenedAlone
  BY <1>1 DEF OpenedAlone, Opening
<1>11. EveryConnectionOwned
  BY <1>3 DEF EveryConnectionOwned
<1>12. HostsTrusted
  BY <1>3, <1>4, <1>5 DEF HostsTrusted, OnlyTrustedHosts, Host
<1>13. ClosedForGood
  BY <1>3 DEF ClosedForGood
<1>14. QED
  BY <1>6, <1>7, <1>8, <1>9, <1>10, <1>11, <1>12, <1>13 DEF Inv

LEMMA RefusedKeeps ==
    ASSUME Inv, NEW t \in Sender \union {Refresh}, NEW operation, Refused(t, operation)
    PROVE  Inv'
<1>1. /\ t \in Task /\ t # Closer /\ task[t].pc \notin Queued
  BY TasksAreDistinct DEF Refused, Calls, Queued
<1>2. /\ Moves(t, Ended("failed")) /\ Ended("failed") \in TaskState
      /\ Ended("failed").pc = "done"
  BY EndedTask DEF Refused, Moves
<1>3. /\ UNCHANGED <<network, closed, current, records, connections, cloudNamed, confirmed, lock>>
  BY DEF Refused, history
<1>4. LockInOrder'
  BY <1>1, <1>2, <1>3, StaysOutside DEF Inv, Queued
<1>5. Roles'
  BY <1>1, <1>2, <1>3, QueueingMoves, TasksAreDistinct DEF Inv, Roles
<1>6. QED
  BY <1>1, <1>2, <1>3, <1>4, <1>5, OnlyMoves DEF Queued, Opening

LEMMA WaitForLockKeeps ==
    ASSUME Inv, NEW t \in Sender \union {Refresh}, NEW operation \in {"ensure", "reconnect"},
           WaitForLock(t, operation)
    PROVE  Inv'
<1>1. /\ t \in Task /\ t # Closer /\ t # Discover /\ task[t].pc \notin Queued
  BY TasksAreDistinct DEF WaitForLock, Calls, Queued
<1>2. PICK state : state = [IdleTask EXCEPT !.pc = operation]
  OBVIOUS
<1>3. state \in TaskState /\ state.pc = operation
  <2>1. operation \in Queued
    BY DEF Queued
  <2>2. QED
    BY <1>2, <2>1, PlacedTask
<1>4. /\ Moves(t, state) /\ lock # << >> /\ lock' = Append(lock, t)
      /\ UNCHANGED <<network, closed, current, records, connections, cloudNamed, confirmed>>
  BY <1>2 DEF WaitForLock, Waits, Moves, history
<1>5. LockInOrder'
  BY <1>1, <1>3, <1>4, WaitsForLock DEF Inv, Queued, Opening
<1>6. Roles'
  <2>1. task'[t] = state /\ \A q \in Task \ {t} : task'[q] = task[q]
    BY <1>1, <1>4, QueueingMoves DEF Inv
  <2>2. QED
    BY <1>1, <1>3, <1>4, <2>1, TasksAreDistinct DEF Inv, Roles
<1>7. QED
  BY <1>1, <1>3, <1>4, <1>5, <1>6, OnlyMoves DEF Queued, Opening

(* A coroutine with the lock leaves it without having opened anything.     *)
LEMMA Leaves ==
    ASSUME Inv, NEW t \in Task \ {Closer}, lock = << >> \/ Holds(t),
           task[t].pc # "connecting", t = Discover => "udp" \in network,
           NEW outcome \in {"none", "connected", "dead", "failed"}, Leave(t, outcome),
           UNCHANGED <<network, closed, current, records, connections, cloudNamed, confirmed>>
    PROVE  Inv'
<1>1. Moves(t, Ended(outcome)) /\ Ended(outcome) \in TaskState /\ Ended(outcome).pc = "done"
  BY EndedTask DEF Leave, Moves
<1>2. LockInOrder'
  BY LeavesLock DEF Inv
<1>3. Roles'
  <2>1. task'[t].pc = "done" /\ \A q \in Task \ {t} : task'[q] = task[q]
    BY <1>1, QueueingMoves DEF Inv
  <2>2. QED
    BY <2>1, TasksAreDistinct DEF Inv, Roles
<1>4. QED
  BY <1>1, <1>2, <1>3, OnlyMoves DEF Opening

(* The old connection is closed before the new one is opened.              *)
LEMMA ClosesToReopen ==
    ASSUME Inv, NEW t \in Task \ {Closer, Discover}, lock = << >> \/ Holds(t),
           task[t].pc # "connecting", ~ closed, current # None,
           connections' = Close(connections, records[current].connection),
           Moves(t, [IdleTask EXCEPT !.pc = "reopen", !.record = current]), Keep(t),
           UNCHANGED <<network, closed, current, records, cloudNamed, confirmed>>
    PROVE  Inv'
<1>1. PICK state : state = [IdleTask EXCEPT !.pc = "reopen", !.record = current]
  OBVIOUS
<1>2. current \in Object /\ records[current].connection \in Object \union {None}
  BY DEF Inv, Types, Record
<1>3. state \in TaskState /\ state.pc = "reopen" /\ state.record = current
  <2>1. "reopen" \in Queued
    BY DEF Queued
  <2>2. QED
    BY <1>1, <1>2, <2>1, KeepingTask
<1>4. task'[t] = state /\ \A q \in Task \ {t} : task'[q] = task[q]
  BY <1>1, QueueingMoves DEF Inv
<1>5. /\ connections' \in [Object -> Connection]
      /\ records[current].connection # None
           => connections'[records[current].connection].state = "closed"
      /\ \A d \in Object : d # records[current].connection => connections'[d] = connections[d]
  BY <1>2, Closes DEF Inv, Types
<1>6. \A q \in Task \ {t} : task'[q].pc \notin Opening
  BY <1>4, OnlyTheHolderOpens DEF Inv
<1>7. Types'
  BY <1>1, <1>3, <1>5 DEF Inv, Types, Moves
<1>8. LockInOrder'
  BY <1>1, <1>3, KeepsLock DEF Inv, Queued
<1>9. Roles'
  BY <1>3, <1>4, TasksAreDistinct DEF Inv, Roles
<1>10. RecordsKept'
  BY <1>3, <1>4, TasksAreDistinct DEF Inv, RecordsKept
<1>11. OpenedAlone'
  BY <1>2, <1>3, <1>4, <1>5, <1>6 DEF OpenedAlone, Opening, Live
<1>12. \A d \in Object : ~ Live(d)'
  <2>1. SUFFICES ASSUME NEW d \in Object, Live(d)' PROVE FALSE
    OBVIOUS
  <2>2. d # records[current].connection /\ Live(d)
    BY <1>2, <1>5, <2>1, ManagerAssumption DEF Live
  <2>3. PICK q \in Task : task[q].pc = "connecting"
    BY <2>2 DEF Inv, EveryConnectionOwned
  <2>4. QED
    BY <1>4, <1>6, <2>3 DEF Opening
<1>13. EveryConnectionOwned' /\ ClosedForGood'
  BY <1>12 DEF EveryConnectionOwned, ClosedForGood
<1>14. HostsTrusted'
  BY <1>12 DEF Inv, HostsTrusted, OnlyTrustedHosts, connected, Live
<1>15. QED
  BY <1>7, <1>8, <1>9, <1>10, <1>11, <1>13, <1>14 DEF Inv

(* The active host of the current record may lack a UID only when it is    *)
(* the one the cloud named.                                                *)
LEMMA OpensActive ==
    ASSUME Inv, OneSurprise, NEW t \in Task \ {Closer, Discover}, lock = << >> \/ Holds(t),
           task[t].pc # "connecting", NEW r, r = current, current # None, ~ closed,
           OpenActive(t, r), UNCHANGED <<closed, current, records, history>>,
           records[current].connection # None => ~ Live(records[current].connection)
    PROVE  Inv'
<1> DEFINE host == records[current].active_host
           trusted == (records[current].active_host = records[current].cloud_host)
<1>1. host \in Host /\ trusted \in BOOLEAN
  BY DEF Inv, HostsTrusted
<1>2. Open(t, r, host, TRUE, trusted)
  BY DEF OpenActive
<1>3. trusted => host \in cloudNamed
  BY DEF Inv, HostsTrusted
<1>4. QED
  BY <1>1, <1>2, <1>3, Opens

LEMMA EnterKeeps ==
    ASSUME Inv, OneSurprise, NEW t \in Sender \union {Refresh},
           NEW operation \in {"ensure", "reconnect"}, Enter(t, operation)
    PROVE  Inv'
<1>1. /\ t \in Task \ {Closer, Discover} /\ (lock = << >> \/ Holds(t))
      /\ task[t].pc # "connecting"
  BY TasksAreDistinct DEF Enter, Enters, Calls
<1>2. UNCHANGED <<network, closed, current, records, cloudNamed, confirmed>>
  BY DEF Enter, history
<1>3. CASE closed \/ current = None
  <2>1. Leave(t, "failed") /\ UNCHANGED connections
    BY <1>3 DEF Enter
  <2>2. UNCHANGED <<network, closed, current, records, connections, cloudNamed, confirmed>>
    BY <1>2, <2>1
  <2>3. t \in Task \ {Closer} /\ t # Discover
    BY <1>1
  <2>4. QED
    BY <1>1, <2>1, <2>2, <2>3, Leaves
<1>4. CASE ~ closed /\ current # None
  <2>1. PICK c : c = records[current].connection
    OBVIOUS
  <2>2. CASE c = None
    <3>1. OpenActive(t, current)
      BY <1>4, <2>1, <2>2 DEF Enter
    <3>2. QED
      BY <1>1, <1>2, <1>4, <2>1, <2>2, <3>1, OpensActive DEF history
  <2>3. CASE c # None /\ operation = "ensure" /\ connected(c)
    <3>1. Leave(t, "connected") /\ UNCHANGED connections
      BY <1>4, <2>1, <2>3 DEF Enter
    <3>2. QED
      BY <1>1, <1>2, <3>1, Leaves
  <2>4. CASE c # None /\ ~ (operation = "ensure" /\ connected(c))
    <3>1. /\ connections' = Close(connections, records[current].connection)
          /\ Moves(t, [IdleTask EXCEPT !.pc = "reopen", !.record = current]) /\ Keep(t)
      BY <1>4, <2>1, <2>4 DEF Enter, Moves
    <3>2. QED
      BY <1>1, <1>2, <1>4, <3>1, ClosesToReopen
  <2>5. QED
    BY <2>2, <2>3, <2>4
<1>5. QED
  BY <1>3, <1>4

LEMMA ReopenKeeps ==
    ASSUME Inv, OneSurprise, NEW t \in Sender \union {Refresh}, Reopen(t)
    PROVE  Inv'
<1>1. /\ t \in Task \ {Closer, Discover} /\ task[t].pc = "reopen"
  BY TasksAreDistinct DEF Reopen
<1>2. /\ Holds(t) /\ current # None /\ task[t].record = current
      /\ records[current].connection # None => ~ Live(records[current].connection)
  BY <1>1 DEF Inv, LockInOrder, RecordsKept, OpenedAlone, Opening
<1>3. UNCHANGED <<network, closed, current, records, cloudNamed, confirmed>>
  BY DEF Reopen, history
<1>4. CASE closed
  <2>1. Leave(t, "failed") /\ UNCHANGED connections
    BY <1>4 DEF Reopen
  <2>2. QED
    BY <1>1, <1>2, <1>3, <2>1, Leaves
<1>5. CASE ~ closed
  <2>1. OpenActive(t, current)
    BY <1>2, <1>5 DEF Reopen
  <2>2. QED
    BY <1>1, <1>2, <1>3, <1>5, <2>1, OpensActive DEF history
<1>6. QED
  BY <1>4, <1>5

(* A login is complete: the record gets the connection, and its previous   *)
(* one, if any, is not alive.                                              *)
LEMMA Installs ==
    ASSUME Inv, NEW t \in Task, task[t].pc = "connecting", ~ closed,
           NEW outcome \in {"none", "connected", "dead", "failed"}, Leave(t, outcome),
           NEW c, c = task[t].connection,
           UNCHANGED <<network, closed, current, cloudNamed>>,
           confirmed \subseteq confirmed', confirmed' \subseteq Host,
           connections' \in [Object -> Connection],
           connections'[c].state \in {"up", "down"},
           connections'[c].host = connections[c].host,
           connections'[c].mayLackUid = connections[c].mayLackUid,
           connections'[c].identified \/ connections[c].mayLackUid,
           \A d \in Object : d # c => connections'[d] = connections[d] \/ connections'[d].state = "closed",
           NEW old, old = records[current].connection, old # None => ~ Live(old)',
           records' \in [Object -> Record],
           records'[current].connection = c,
           records'[current].cloud_host = records[current].cloud_host,
           \/ records'[current].active_host = records[current].active_host
           \/ records'[current].active_host \in confirmed'
    PROVE  Inv'
<1>1. /\ c \in Object /\ connections[c].state = "connecting"
      /\ current # None /\ current \in Object
  BY DEF Inv, Types, OpenedAlone, RecordsKept, Opening
<1>2. LockInOrder' /\ \A q \in Task : task'[q].pc \notin Opening
  <2>1. Holds(t)
    BY DEF Inv, LockInOrder, Opening
  <2>2. QED
    BY <2>1, LeavesLock DEF Inv
<1>3. Ended(outcome) \in TaskState /\ Ended(outcome).pc = "done"
  BY EndedTask
<1>4. task'[t] = Ended(outcome) /\ \A q \in Task \ {t} : task'[q] = task[q]
  BY DEF Inv, Types, Leave
<1>5. Types'
  BY <1>3 DEF Inv, Types, Leave
<1>6. Roles'
  BY <1>3, <1>4, TasksAreDistinct DEF Inv, Roles
<1>7. RecordsKept'
  BY <1>2, <1>3, <1>4, TasksAreDistinct DEF Inv, RecordsKept, Opening
<1>8. OpenedAlone'
  BY <1>2 DEF OpenedAlone, Opening
<1>9. EveryConnectionOwned'
  <2>1. \A q \in Task \ {t} : task[q].pc \notin Opening
    BY <1>2, <1>4
  <2>2. ASSUME NEW d \in Object, Live(d)', d # c PROVE FALSE
    <3>1. Live(d)
      BY <1>1, <2>2 DEF Live
    <3>2. ~ \E q \in Task : task[q].pc = "connecting" /\ task[q].connection = d
      BY <2>1, <2>2 DEF Opening
    <3>3. records[current].connection = d
      BY <2>2, <3>1, <3>2 DEF Inv, EveryConnectionOwned
    <3>4. QED
      BY <2>2, <3>3, ManagerAssumption
  <2>3. QED
    BY <1>1, <2>2 DEF EveryConnectionOwned
<1>10. HostsTrusted'
  <2>1. connections[c].mayLackUid => connections[c].host \in cloudNamed
    BY <1>1 DEF Inv, HostsTrusted, Live
  <2>2. \A d \in Object : (connected(d)' /\ ~ connections'[d].identified)
                             => connections'[d].host \in cloudNamed
    BY <2>1 DEF Inv, HostsTrusted, OnlyTrustedHosts, connected
  <2>3. \A d \in Object : (Live(d)' /\ connections'[d].mayLackUid)
                             => connections'[d].host \in cloudNamed
    BY <2>1 DEF Inv, HostsTrusted, Live
  <2>4. OnlyTrustedHosts'
    BY <2>2, <1>1 DEF Inv, HostsTrusted, OnlyTrustedHosts
  <2>5. QED
    BY <1>1, <2>3, <2>4 DEF Inv, HostsTrusted
<1>11. ClosedForGood'
  BY DEF ClosedForGood
<1>12. QED
  BY <1>2, <1>5, <1>6, <1>7, <1>8, <1>9, <1>10, <1>11 DEF Inv

(* What connect() leaves of the connection.                                *)
LEMMA Arrives ==
    ASSUME Types, NEW c \in Object, NEW up \in BOOLEAN, NEW identified \in BOOLEAN
    PROVE  /\ Arrived(c, up, identified) \in [Object -> Connection]
           /\ Arrived(c, up, identified)[c].state \in {"up", "down"}
           /\ Arrived(c, up, identified)[c].host = connections[c].host
           /\ Arrived(c, up, identified)[c].mayLackUid = connections[c].mayLackUid
           /\ Arrived(c, up, identified)[c].identified = identified
           /\ \A d \in Object : d # c => Arrived(c, up, identified)[d] = connections[d]
<1>1. connections \in [Object -> Connection]
  BY DEF Types
<1>2. PICK s, t : s = connections[c] /\ t = [s EXCEPT !.state = IF up THEN "up" ELSE "down",
                                                      !.identified = identified]
  OBVIOUS
<1>3. s \in Connection
  BY <1>1, <1>2
<1>4. /\ t \in Connection /\ t.state \in {"up", "down"} /\ t.host = s.host
      /\ t.mayLackUid = s.mayLackUid /\ t.identified = identified
  BY <1>2, <1>3 DEF Connection
<1>5. Arrived(c, up, identified) = [connections EXCEPT ![c] = t]
  BY <1>1, <1>2 DEF Arrived
<1>6. QED
  BY <1>1, <1>2, <1>4, <1>5

LEMMA LoggedInFacts ==
    ASSUME Inv, NEW t \in Task, NEW up \in BOOLEAN, NEW identified \in BOOLEAN,
           LoggedIn(t, up, identified)
    PROVE  /\ task[t].pc = "connecting" /\ task[t].connection \in Object
           /\ identified \/ connections[task[t].connection].mayLackUid
           /\ confirmed \subseteq confirmed' /\ confirmed' \subseteq Host
           /\ identified => task[t].host \in confirmed'
           /\ current \in Object /\ task[t].record = current
           /\ records[current].connection # task[t].connection
<1>1. /\ task[t].pc = "connecting" /\ task[t].connection \in Object
      /\ task[t].host \in Host
      /\ connections[task[t].connection].host = task[t].host
      /\ records[current].connection # task[t].connection
      /\ current \in Object /\ task[t].record = current
  BY DEF LoggedIn, Inv, OpenedAlone, RecordsKept, Opening, Types
<1>2. /\ confirmed \subseteq confirmed' /\ confirmed' \subseteq Host
      /\ identified => task[t].host \in confirmed'
  BY <1>1 DEF LoggedIn, Inv, Types
<1>3. QED
  BY <1>1, <1>2 DEF LoggedIn

LEMMA ConnectedKeeps ==
    ASSUME Inv, NEW t \in Sender \union {Refresh}, NEW up \in BOOLEAN, NEW identified \in BOOLEAN,
           Connected(t, up, identified)
    PROVE  Inv'
<1>1. /\ t \in Task /\ t # Discover /\ LoggedIn(t, up, identified)
      /\ UNCHANGED <<network, closed, current, cloudNamed>>
  BY TasksAreDistinct DEF Connected
<1>2. PICK c : c = task[t].connection
  OBVIOUS
<1>3. /\ task[t].pc = "connecting" /\ c \in Object
      /\ identified \/ connections[c].mayLackUid
      /\ confirmed \subseteq confirmed' /\ confirmed' \subseteq Host
      /\ current \in Object /\ task[t].record = current
      /\ records[current].connection # c
  BY <1>1, <1>2, LoggedInFacts
<1>4. CASE closed
  <2>1. connections' = Close(connections, task[t].connection) /\ Leave(t, "failed")
        /\ UNCHANGED records
    BY <1>4 DEF Connected
  <2>2. QED
    BY <1>1, <1>3, <2>1, Aborts
<1>5. CASE ~ closed
  <2>1. PICK outcome \in {"connected", "dead"} : Leave(t, outcome)
    BY <1>5 DEF Connected
  <2>2. /\ connections' = Arrived(c, up, identified)
        /\ records' = [records EXCEPT ![current].connection = c]
    BY <1>2, <1>3, <1>5 DEF Connected
  <2>3. /\ connections' \in [Object -> Connection]
        /\ connections'[c].state \in {"up", "down"}
        /\ connections'[c].host = connections[c].host
        /\ connections'[c].mayLackUid = connections[c].mayLackUid
        /\ connections'[c].identified = identified
        /\ \A d \in Object : d # c => connections'[d] = connections[d]
    BY <1>3, <2>2, Arrives DEF Inv
  <2>4. /\ records' \in [Object -> Record]
        /\ records'[current].connection = c
        /\ records'[current].cloud_host = records[current].cloud_host
        /\ records'[current].active_host = records[current].active_host
    BY <1>3, <2>2 DEF Inv, Types, Record
  <2>5. PICK old : old = records[current].connection
    OBVIOUS
  <2>6. old # None => ~ Live(old)'
    <3>1. old # None => ~ Live(old)
      BY <1>1, <1>3, <2>5 DEF Inv, OpenedAlone, Opening
    <3>2. old \in Object \union {None} /\ old # c
      BY <1>3, <2>5 DEF Inv, Types, Record
    <3>3. QED
      BY <2>3, <3>1, <3>2 DEF Live
  <2>7. /\ connections'[c].identified \/ connections[c].mayLackUid
        /\ \A d \in Object : d # c => connections'[d] = connections[d] \/ connections'[d].state = "closed"
        /\ outcome \in {"none", "connected", "dead", "failed"}
        /\ \/ records'[current].active_host = records[current].active_host
           \/ records'[current].active_host \in confirmed'
    BY <1>3, <2>1, <2>3, <2>4
  <2>8. QED
    BY <1>1, <1>2, <1>3, <1>5, <2>1, <2>3, <2>4, <2>5, <2>6, <2>7, Installs
<1>6. QED
  BY <1>4, <1>5

LEMMA ConnectFailsKeeps ==
    ASSUME Inv, NEW t \in Task, ConnectFails(t)
    PROVE  Inv'
<1>1. confirmed \subseteq confirmed' /\ confirmed' \subseteq Host
  BY DEF Inv, Types, ConnectFails, history
<1>2. QED
  BY <1>1, Aborts DEF ConnectFails, history

LEMMA CancelKeeps ==
    ASSUME Inv, NEW t \in Task, Cancel(t)
    PROVE  Inv'
<1>1. /\ t # Closer /\ task[t].pc # "connecting" /\ task[t].pc # "idle"
      /\ Moves(t, Ended("failed"))
      /\ UNCHANGED <<network, closed, current, records, connections, cloudNamed, confirmed>>
  BY DEF Cancel, Moves, history, Queued
<1>2. Ended("failed") \in TaskState /\ Ended("failed").pc = "done"
  BY EndedTask
<1>3. QueueOf(lock, Queueing) /\ DOMAIN lock = 1..Len(lock)
  BY DEF Inv, LockInOrder, QueueOf
<1>4. LockInOrder'
  <2>1. CASE \E i \in DOMAIN lock : lock[i] = t /\ lock' = Without(lock, i)
    <3>1. PICK i \in 1..Len(lock) : lock[i] = t /\ lock' = Without(lock, i)
      BY <1>3, <2>1
    <3>2. QED
      BY <1>1, <1>2, <3>1, GivesUp DEF Inv, Queued
  <2>2. CASE (\A i \in DOMAIN lock : lock[i] # t) /\ UNCHANGED lock
    <3>1. task[t].pc \notin Queued
      BY <1>3, <2>2 DEF QueueOf, Queueing
    <3>2. QED
      BY <1>1, <1>2, <2>2, <3>1, StaysOutside DEF Inv, Queued
  <2>3. QED
    BY <2>1, <2>2 DEF Cancel
<1>5. Roles'
  <2>1. task'[t].pc = "done" /\ \A q \in Task \ {t} : task'[q] = task[q]
    BY <1>1, <1>2, QueueingMoves DEF Inv
  <2>2. QED
    BY <1>1, <2>1, TasksAreDistinct DEF Inv, Roles
<1>6. QED
  BY <1>1, <1>2, <1>4, <1>5, OnlyMoves DEF Opening

---------------------------------------------------------------------------
(* The actions of a cloud refresh.                                         *)

LEMMA RefreshNamesKeeps ==
    ASSUME Inv, NEW host \in CloudHost, RefreshNames(host)
    PROVE  Inv'
<1>1. PICK state : state = [IdleTask EXCEPT !.pc = "named"]
  OBVIOUS
<1>2. state \in TaskState /\ state.pc = "named"
  BY <1>1, PlacedTask
<1>3. /\ task[Refresh].pc \in {"idle", "done"} /\ ~ closed /\ Moves(Refresh, state)
      /\ UNCHANGED <<network, closed, connections, lock, confirmed>>
      /\ cloudNamed' = cloudNamed \union {host}
  BY <1>1 DEF RefreshNames, Moves
<1>4. /\ task'[Refresh].pc = "named" /\ \A q \in Task \ {Refresh} : task'[q] = task[q]
      /\ task' \in [Task -> TaskState]
  BY <1>2, <1>3, TasksAreDistinct DEF Inv, Types, Moves
<1>5. /\ records' \in [Object -> Record]
      /\ current' \in Object
      /\ current # None => current' = current
      /\ current # None => records'[current].connection = records[current].connection
      /\ current = None => records'[current'].connection = None
      /\ records'[current'].active_host \in Host
      /\ records'[current'].cloud_host \in cloudNamed'
      /\ records'[current'].active_host # records'[current'].cloud_host
           => records'[current'].active_host \in confirmed
  <2>1. CASE current # None
    <3>1. current \in Object /\ current' = current
          /\ records' = [records EXCEPT ![current] = Renamed(records[current], host)]
      BY <2>1 DEF RefreshNames, Inv, Types
    <3>2. /\ Renamed(records[current], host) \in Record
          /\ Renamed(records[current], host).cloud_host = host
          /\ Renamed(records[current], host).connection = records[current].connection
          /\ Renamed(records[current], host).active_host \in Host
          /\ Renamed(records[current], host).active_host # host
               => Renamed(records[current], host).active_host \in confirmed
      <4>1. host \in Host /\ records[current].active_host \in Host /\ records[current] \in Record
        BY <2>1, <3>1 DEF Host, Inv, Types, HostsTrusted
      <4>2. /\ Renamed(records[current], host).cloud_host = host
            /\ Renamed(records[current], host).connection = records[current].connection
            /\ Renamed(records[current], host).active_host =
                 IF records[current].active_host = records[current].cloud_host THEN host
                 ELSE records[current].active_host
        BY DEF Renamed
      <4>3. Renamed(records[current], host) \in Record
        BY <4>1 DEF Renamed, Record
      <4>4. QED
        BY <2>1, <4>1, <4>2, <4>3 DEF Inv, HostsTrusted, OnlyTrustedHosts
    <3>3. /\ records' \in [Object -> Record]
          /\ records'[current] = Renamed(records[current], host)
      BY <3>1, <3>2 DEF Inv, Types
    <3>4. QED
      BY <1>3, <2>1, <3>1, <3>2, <3>3
  <2>2. CASE current = None
    <3>1. PICK r \in FreeRecords :
            /\ records' = [records EXCEPT ![r] =
                 [cloud_host |-> host, active_host |-> host, connection |-> None]]
            /\ current' = r
      BY <2>2 DEF RefreshNames
    <3>2. r \in Object /\ host \in Host
      BY DEF FreeRecords, Host
    <3>3. [cloud_host |-> host, active_host |-> host, connection |-> None] \in Record
      BY <3>2 DEF Record
    <3>4. QED
      BY <1>3, <2>2, <3>1, <3>2, <3>3 DEF Inv, Types
  <2>3. QED
    BY <2>1, <2>2
<1>6. current = None => \A q \in Task : task[q].pc \notin Opening \union {"promote"}
  BY DEF Inv, RecordsKept
<1>7. Types'
  BY <1>3, <1>4, <1>5 DEF Inv, Types
<1>8. LockInOrder'
  BY <1>2, <1>3, StaysOutside, TasksAreDistinct DEF Inv, Queued
<1>9. Roles'
  BY <1>3, <1>4, <1>5, TasksAreDistinct, ManagerAssumption DEF Inv, Roles
<1>10. RecordsKept'
  BY <1>3, <1>4, <1>5, <1>6, TasksAreDistinct, ManagerAssumption DEF Inv, RecordsKept, Opening, Roles
<1>11. OpenedAlone'
  <2>1. CASE current = None
    BY <1>4, <1>6, <2>1 DEF OpenedAlone, Opening
  <2>2. CASE current # None
    BY <1>3, <1>4, <1>5, <2>2 DEF Inv, OpenedAlone, Opening, Live
  <2>3. QED
    BY <2>1, <2>2
<1>12. EveryConnectionOwned'
  <2>1. ASSUME NEW c \in Object, Live(c)'
        PROVE  \/ \E t \in Task : task'[t].pc = "connecting" /\ task'[t].connection = c
               \/ current' # None /\ records'[current'].connection = c
    <3>1. Live(c)
      BY <1>3, <2>1 DEF Live
    <3>2. CASE \E t \in Task : task[t].pc = "connecting" /\ task[t].connection = c
      BY <1>3, <1>4, <3>2
    <3>3. CASE current # None /\ records[current].connection = c
      BY <1>5, <3>3
    <3>4. QED
      BY <3>1, <3>2, <3>3 DEF Inv, EveryConnectionOwned
  <2>2. QED
    BY <2>1 DEF EveryConnectionOwned
<1>13. HostsTrusted'
  <2>1. OnlyTrustedHosts'
    BY <1>3, <1>5 DEF Inv, HostsTrusted, OnlyTrustedHosts, connected
  <2>2. QED
    BY <1>3, <1>5, <2>1 DEF Inv, HostsTrusted, Live
<1>14. ClosedForGood'
  BY <1>3 DEF ClosedForGood
<1>15. QED
  BY <1>7, <1>8, <1>9, <1>10, <1>11, <1>12, <1>13, <1>14 DEF Inv

LEMMA RefreshOmitsKeeps ==
    ASSUME Inv, RefreshOmits
    PROVE  Inv'
<1>1. PICK state : state = [IdleTask EXCEPT !.pc = "remove"]
  OBVIOUS
<1>2. state \in TaskState /\ state.pc = "remove"
  BY <1>1, PlacedTask DEF Queued
<1>3. /\ task[Refresh].pc \in {"idle", "done"} /\ "vanish" \in network /\ Moves(Refresh, state)
      /\ UNCHANGED <<network, closed, current, records, connections, cloudNamed, confirmed>>
      /\ lock # << >> /\ lock' = Append(lock, Refresh)
  BY <1>1 DEF RefreshOmits, Vanished, Waits, Moves, history
<1>4. LockInOrder'
  BY <1>2, <1>3, WaitsForLock, TasksAreDistinct DEF Inv, Queued, Opening
<1>5. Roles'
  <2>1. task'[Refresh] = state /\ \A q \in Task \ {Refresh} : task'[q] = task[q]
    BY <1>3, QueueingMoves, TasksAreDistinct DEF Inv
  <2>2. QED
    BY <1>2, <1>3, <2>1, TasksAreDistinct DEF Inv, Roles
<1>6. QED
  BY <1>2, <1>3, <1>4, <1>5, OnlyMoves, TasksAreDistinct DEF Opening

LEMMA RemoveRecordKeeps ==
    ASSUME Inv, OneSurprise, RemoveRecord
    PROVE  Inv'
<1>1. /\ (lock = << >> \/ Holds(Refresh)) /\ task[Refresh].pc # "connecting"
      /\ "vanish" \in network /\ Leave(Refresh, "none") /\ current' = None
      /\ UNCHANGED <<network, closed, records, cloudNamed, confirmed>>
  BY DEF RemoveRecord, Enters, Vanished, history, Inv, Roles
<1>2. Ended("none") \in TaskState /\ Ended("none").pc = "done"
  BY EndedTask
<1>3. task'[Refresh] = Ended("none") /\ \A q \in Task \ {Refresh} : task'[q] = task[q]
  BY <1>1, TasksAreDistinct DEF Leave, Inv, Types
<1>4. task[Discover].pc = "idle"
  BY <1>1, OneOfTheTwo DEF Inv, Types, Roles
<1>5. /\ LockInOrder' /\ \A q \in Task : task'[q].pc \notin Opening
  BY <1>1, LeavesLock, TasksAreDistinct DEF Inv
<1>6. /\ connections' \in [Object -> Connection]
      /\ \A d \in Object : ~ Live(d)'
  <2>1. \A d \in Object : Live(d) => current # None /\ records[current].connection = d
    BY <1>1, <1>3, <1>5 DEF Inv, EveryConnectionOwned, Opening
  <2>2. CASE current = None
    BY <2>1, <2>2 DEF RemoveRecord, Live, Inv, Types
  <2>3. CASE current # None
    <3>1. PICK old : old = records[current].connection
      OBVIOUS
    <3>2. old \in Object \union {None} /\ connections' = Close(connections, old)
      BY <2>3, <3>1 DEF RemoveRecord, Inv, Types, Record
    <3>3. /\ connections' \in [Object -> Connection]
          /\ old # None => connections'[old].state = "closed"
          /\ \A d \in Object : d # old => connections'[d] = connections[d]
      BY <3>2, Closes DEF Inv, Types
    <3>4. QED
      BY <2>1, <3>1, <3>2, <3>3, ManagerAssumption DEF Live
  <2>4. QED
    BY <2>2, <2>3
<1>7. Types'
  BY <1>1, <1>2, <1>6 DEF Inv, Types, Leave
<1>8. Roles'
  BY <1>1, <1>2, <1>3, <1>4, TasksAreDistinct DEF Inv, Roles
<1>9. RecordsKept'
  <2>1. \A q \in Task : task'[q].pc # "promote"
    BY <1>2, <1>3, <1>4, TasksAreDistinct DEF Inv, Roles
  <2>2. QED
    BY <1>1, <1>3, <1>5, <2>1, TasksAreDistinct DEF Inv, RecordsKept
<1>10. OpenedAlone'
  BY <1>5 DEF OpenedAlone, Opening
<1>11. EveryConnectionOwned' /\ ClosedForGood'
  BY <1>6 DEF EveryConnectionOwned, ClosedForGood
<1>12. HostsTrusted'
  BY <1>1, <1>6 DEF HostsTrusted, OnlyTrustedHosts, connected, Live
<1>13. QED
  BY <1>5, <1>7, <1>8, <1>9, <1>10, <1>11, <1>12 DEF Inv

---------------------------------------------------------------------------
(* The actions of discovery.                                               *)

LEMMA ProbeKeeps ==
    ASSUME Inv, Probe
    PROVE  Inv'
<1>1. PICK state : state = [IdleTask EXCEPT !.pc = "probing"]
  OBVIOUS
<1>2. state \in TaskState /\ state.pc = "probing"
  BY <1>1, PlacedTask
<1>3. /\ task[Discover].pc \in {"idle", "done"} /\ "udp" \in network /\ Moves(Discover, state)
      /\ UNCHANGED <<network, closed, current, records, connections, lock, cloudNamed, confirmed>>
  BY <1>1 DEF Probe, Moves, history
<1>4. LockInOrder'
  BY <1>2, <1>3, StaysOutside, TasksAreDistinct DEF Inv, Queued
<1>5. Roles'
  <2>1. task'[Discover] = state /\ \A q \in Task \ {Discover} : task'[q] = task[q]
    BY <1>3, QueueingMoves, TasksAreDistinct DEF Inv
  <2>2. QED
    BY <1>2, <1>3, <2>1, TasksAreDistinct DEF Inv, Roles
<1>6. QED
  BY <1>2, <1>3, <1>4, <1>5, OnlyMoves, TasksAreDistinct DEF Opening

LEMMA ProbeEndsKeeps ==
    ASSUME Inv, NEW host, ProbeEnds(host)
    PROVE  Inv'
<1>1. /\ task[Discover].pc = "probing" /\ Moves(Discover, Ended("none"))
      /\ UNCHANGED <<network, closed, current, records, connections, lock, cloudNamed, confirmed>>
  BY DEF ProbeEnds, Moves, history
<1>2. Ended("none") \in TaskState /\ Ended("none").pc = "done"
  BY EndedTask
<1>3. LockInOrder'
  BY <1>1, <1>2, StaysOutside, TasksAreDistinct DEF Inv, Queued
<1>4. Roles'
  <2>1. task'[Discover].pc = "done" /\ \A q \in Task \ {Discover} : task'[q] = task[q]
    BY <1>1, <1>2, QueueingMoves, TasksAreDistinct DEF Inv
  <2>2. QED
    BY <1>1, <2>1, TasksAreDistinct DEF Inv, Roles
<1>5. QED
  BY <1>1, <1>2, <1>3, <1>4, OnlyMoves, TasksAreDistinct DEF Opening

LEMMA WaitWithRecordKeeps ==
    ASSUME Inv, NEW host \in UdpHost, WaitWithRecord(host)
    PROVE  Inv'
<1>1. PICK state : state = [IdleTask EXCEPT !.pc = "promote", !.record = current, !.host = host]
  OBVIOUS
<1>2. current \in Object /\ host \in Host /\ current # None
  BY DEF WaitWithRecord, Candidate, Inv, Types, Host
<1>3. state.pc = "promote" /\ state.record = current
  BY <1>1 DEF IdleTask
<1>4. state \in TaskState
  BY <1>1, <1>2 DEF IdleTask, TaskState, Queued
<1>5. /\ task[Discover].pc = "probing" /\ Moves(Discover, state)
      /\ UNCHANGED <<network, closed, current, records, connections, cloudNamed, confirmed>>
      /\ lock # << >> /\ lock' = Append(lock, Discover)
  BY <1>1 DEF WaitWithRecord, Candidate, Moves, history
<1>6. LockInOrder'
  BY <1>3, <1>5, WaitsForLock, TasksAreDistinct DEF Inv, Queued, Opening
<1>7. Roles'
  <2>1. task'[Discover] = state /\ \A q \in Task \ {Discover} : task'[q] = task[q]
    BY <1>5, QueueingMoves, TasksAreDistinct DEF Inv
  <2>2. QED
    BY <1>3, <1>5, <2>1, TasksAreDistinct DEF Inv, Roles
<1>8. QED
  BY <1>2, <1>3, <1>4, <1>5, <1>6, <1>7, OnlyMoves, TasksAreDistinct DEF Opening

LEMMA TryCandidateKeeps ==
    ASSUME Inv, OneSurprise, NEW host \in UdpHost, TryCandidate(host)
    PROVE  Inv'
<1>1. /\ (lock = << >> \/ Holds(Discover)) /\ task[Discover].pc \in {"probing", "promote"}
      /\ UNCHANGED <<network, closed, current, records, cloudNamed, confirmed>>
      /\ host \in Host /\ Discover \in Task \ {Closer}
  BY TasksAreDistinct DEF TryCandidate, Enters, Candidate, history, Host
<1>2. "udp" \in network
  BY <1>1 DEF Inv, Roles
<1>3. CASE closed
  <2>1. Leave(Discover, "failed") /\ UNCHANGED connections
    BY <1>3 DEF TryCandidate
  <2>2. QED
    BY <1>1, <1>2, <2>1, Leaves
<1>4. CASE ~ closed
  <2>1. current # None
    BY <1>1 DEF TryCandidate, Enters, Candidate, Inv, RecordsKept
  <2>2. Open(Discover, current, host, FALSE, FALSE)
    BY <1>1, <1>4 DEF TryCandidate, Inv, RecordsKept
  <2>3. QED
    BY <1>1, <1>2, <1>4, <2>1, <2>2, Opens DEF history
<1>5. QED
  BY <1>3, <1>4

LEMMA PromoteKeeps ==
    ASSUME Inv, NEW up \in BOOLEAN, Promote(up)
    PROVE  Inv'
<1>1. /\ Discover \in Task /\ LoggedIn(Discover, up, TRUE) /\ Leave(Discover, "none")
      /\ UNCHANGED <<network, closed, current, cloudNamed>>
  BY TasksAreDistinct DEF Promote
<1>2. PICK c, host, old : /\ c = task[Discover].connection /\ host = task[Discover].host
                          /\ old = records[current].connection
  OBVIOUS
<1>3. /\ task[Discover].pc = "connecting" /\ c \in Object
      /\ confirmed \subseteq confirmed' /\ confirmed' \subseteq Host
      /\ host \in confirmed'
      /\ current \in Object /\ task[Discover].record = current /\ old # c
  BY <1>1, <1>2, LoggedInFacts
<1>4. CASE closed
  <2>1. connections' = Close(connections, task[Discover].connection) /\ UNCHANGED records
    BY <1>4 DEF Promote
  <2>2. QED
    BY <1>1, <1>3, <2>1, Aborts
<1>5. CASE ~ closed
  <2>1. PICK conns : conns = [Arrived(c, up, TRUE) EXCEPT ![c].pushes = TRUE]
    OBVIOUS
  <2>2. /\ connections' = Close(conns, old)
        /\ records' = [records EXCEPT ![current].connection = c, ![current].active_host = host]
    BY <1>2, <1>3, <1>5, <2>1 DEF Promote
  <2>3. /\ conns \in [Object -> Connection]
        /\ conns[c].state \in {"up", "down"}
        /\ conns[c].host = connections[c].host
        /\ conns[c].mayLackUid = connections[c].mayLackUid
        /\ conns[c].identified
        /\ \A d \in Object : d # c => conns[d] = connections[d]
    <3>1. /\ Arrived(c, up, TRUE) \in [Object -> Connection]
          /\ Arrived(c, up, TRUE)[c].state \in {"up", "down"}
          /\ Arrived(c, up, TRUE)[c].host = connections[c].host
          /\ Arrived(c, up, TRUE)[c].mayLackUid = connections[c].mayLackUid
          /\ Arrived(c, up, TRUE)[c].identified = TRUE
          /\ \A d \in Object : d # c => Arrived(c, up, TRUE)[d] = connections[d]
      <4>1. Types /\ c \in Object /\ TRUE \in BOOLEAN
        BY <1>3 DEF Inv
      <4>2. QED
        BY <4>1, Arrives
    <3>2. conns = [Arrived(c, up, TRUE) EXCEPT
                      ![c] = [Arrived(c, up, TRUE)[c] EXCEPT !.pushes = TRUE]]
      BY <2>1
    <3>3. PICK s, t : s = Arrived(c, up, TRUE)[c] /\ t = [s EXCEPT !.pushes = TRUE]
      OBVIOUS
    <3>4. s \in Connection /\ c \in Object
      BY <1>3, <3>1, <3>3
    <3>5. /\ t \in Connection /\ t.state = s.state /\ t.host = s.host
          /\ t.mayLackUid = s.mayLackUid /\ t.identified = s.identified
      BY <3>3, <3>4 DEF Connection
    <3>6. conns \in [Object -> Connection] /\ conns[c] = t
          /\ \A d \in Object : d # c => conns[d] = Arrived(c, up, TRUE)[d]
      BY <3>1, <3>2, <3>3, <3>4, <3>5
    <3>7. QED
      BY <3>1, <3>3, <3>5, <3>6
  <2>4. old \in Object \union {None}
    BY <1>2, <1>3 DEF Inv, Types, Record
  <2>5. /\ connections' \in [Object -> Connection]
        /\ old # None => connections'[old].state = "closed"
        /\ \A d \in Object : d # old => connections'[d] = conns[d]
    BY <2>2, <2>3, <2>4, Closes
  <2>6. /\ connections'[c] = conns[c]
        /\ \A d \in Object : d # c => connections'[d] = connections[d] \/ connections'[d].state = "closed"
        /\ old # None => ~ Live(old)'
    BY <1>3, <2>3, <2>4, <2>5, ManagerAssumption DEF Live
  <2>7. /\ records' \in [Object -> Record]
        /\ records'[current].connection = c
        /\ records'[current].cloud_host = records[current].cloud_host
        /\ records'[current].active_host = host
    <3>1. records \in [Object -> Record] /\ current \in Object /\ c \in Object
      BY <1>3 DEF Inv, Types
    <3>2. host \in Host
      BY <1>3 DEF Inv, OpenedAlone
    <3>3. records' = [records EXCEPT ![current] =
              [records[current] EXCEPT !.connection = c, !.active_host = host]]
      BY <2>2, <3>1
    <3>4. [records[current] EXCEPT !.connection = c, !.active_host = host] \in Record
      BY <3>1, <3>2 DEF Record
    <3>5. QED
      BY <3>1, <3>3, <3>4 DEF Record
  <2>8. /\ connections'[c].state \in {"up", "down"}
        /\ connections'[c].host = connections[c].host
        /\ connections'[c].mayLackUid = connections[c].mayLackUid
        /\ connections'[c].identified \/ connections[c].mayLackUid
        /\ \/ records'[current].active_host = records[current].active_host
           \/ records'[current].active_host \in confirmed'
        /\ "none" \in {"none", "connected", "dead", "failed"}
    BY <1>3, <2>3, <2>6, <2>7
  <2>9. QED
    BY <1>1, <1>2, <1>3, <1>5, <2>5, <2>6, <2>7, <2>8, Installs
<1>6. QED
  BY <1>4, <1>5

---------------------------------------------------------------------------
(* The actions of close, and a lost transport.                             *)

LEMMA BeginCloseKeeps ==
    ASSUME Inv, BeginClose
    PROVE  Inv'
<1>1. PICK state : state = IF current = None THEN Ended("none")
                           ELSE [IdleTask EXCEPT !.pc = "closing", !.record = current]
  OBVIOUS
<1>2. /\ state \in TaskState
      /\ current = None => state.pc = "done"
      /\ current # None => state.pc = "closing" /\ state.record = current
      /\ current \in Object \union {None}
  BY <1>1, EndedTask, KeepingTask DEF Inv, Types
<1>3. /\ task[Closer].pc = "idle" /\ closed' /\ Moves(Closer, state)
      /\ UNCHANGED <<network, current, records, connections, lock, cloudNamed, confirmed>>
  BY <1>1 DEF BeginClose, Moves, history
<1>4. /\ task'[Closer] = state /\ \A q \in Task \ {Closer} : task'[q] = task[q]
      /\ closed' = TRUE
  BY <1>3, QueueingMoves, TasksAreDistinct DEF Inv, BeginClose
<1>5. Types'
  BY <1>2, <1>3, <1>4 DEF Inv, Types, Moves
<1>6. LockInOrder'
  BY <1>2, <1>3, StaysOutside, TasksAreDistinct DEF Inv, Queued
<1>7. Roles'
  BY <1>2, <1>3, <1>4, TasksAreDistinct DEF Inv, Roles
<1>8. RecordsKept'
  BY <1>2, <1>3, <1>4, TasksAreDistinct DEF Inv, RecordsKept, Opening
<1>9. OpenedAlone'
  BY <1>2, <1>3, <1>4 DEF Inv, OpenedAlone, Opening, Live
<1>10. EveryConnectionOwned'
  BY <1>3, <1>4 DEF Inv, EveryConnectionOwned, Live
<1>11. HostsTrusted'
  BY <1>3 DEF Inv, HostsTrusted, OnlyTrustedHosts, Live, connected
<1>12. ClosedForGood'
  <2>1. current = None => \A c \in Object : ~ Live(c)
    BY DEF Inv, EveryConnectionOwned, RecordsKept, Opening
  <2>2. QED
    BY <1>2, <1>3, <1>4, <2>1 DEF ClosedForGood, Live
<1>13. QED
  BY <1>5, <1>6, <1>7, <1>8, <1>9, <1>10, <1>11, <1>12 DEF Inv

LEMMA CloserWaitsKeeps ==
    ASSUME Inv, CloserWaits
    PROVE  Inv'
<1>1. PICK state : state = [task[Closer] EXCEPT !.pc = "detach"]
  OBVIOUS
<1>2. task[Closer] \in TaskState
  BY TasksAreDistinct DEF Inv, Types
<1>3. state \in TaskState /\ state.pc = "detach" /\ state.record = task[Closer].record
  BY <1>1, <1>2 DEF TaskState, Queued
<1>4. /\ task[Closer].pc = "closing"
      /\ UNCHANGED <<network, closed, current, records, connections, cloudNamed, confirmed>>
      /\ lock # << >> /\ lock' = Append(lock, Closer)
  BY DEF CloserWaits, history
<1>5. Moves(Closer, state)
  BY <1>1, TasksAreDistinct DEF CloserWaits, Moves, Inv, Types
<1>6. LockInOrder'
  BY <1>3, <1>4, <1>5, WaitsForLock, TasksAreDistinct DEF Inv, Queued, Opening
<1>7. Roles'
  <2>1. task'[Closer] = state /\ \A q \in Task \ {Closer} : task'[q] = task[q]
    BY <1>5, QueueingMoves, TasksAreDistinct DEF Inv
  <2>2. QED
    BY <1>3, <1>4, <2>1, TasksAreDistinct DEF Inv, Roles
<1>8. state.record \in Object /\ (current # None => state.record = current)
  BY <1>3, <1>4 DEF Inv, RecordsKept
<1>9. QED
  BY <1>3, <1>4, <1>5, <1>6, <1>7, <1>8, OnlyMoves, TasksAreDistinct DEF Opening

LEMMA DetachKeeps ==
    ASSUME Inv, Detach
    PROVE  Inv'
<1>1. PICK r, old : r = task[Closer].record /\ old = records[r].connection
  OBVIOUS
<1>2. /\ (lock = << >> \/ Holds(Closer)) /\ task[Closer].pc \in {"closing", "detach"}
      /\ connections' = Close(connections, old)
      /\ records' = [records EXCEPT ![r].connection = None]
      /\ Leave(Closer, "none")
      /\ UNCHANGED <<network, closed, current, cloudNamed, confirmed>>
  BY <1>1 DEF Detach, Enters, history
<1>3. /\ r \in Object /\ (current # None => r = current) /\ old \in Object \union {None}
      /\ current \in Object \union {None}
  BY <1>1, <1>2 DEF Inv, RecordsKept, Types, Record
<1>4. Ended("none") \in TaskState /\ Ended("none").pc = "done"
  BY EndedTask
<1>5. task'[Closer] = Ended("none") /\ \A q \in Task \ {Closer} : task'[q] = task[q]
  BY <1>2, TasksAreDistinct DEF Leave, Inv, Types
<1>6. LockInOrder' /\ \A q \in Task : task'[q].pc \notin Opening
  BY <1>2, LeavesLock, TasksAreDistinct DEF Inv
<1>7. /\ connections' \in [Object -> Connection]
      /\ old # None => connections'[old].state = "closed"
      /\ \A d \in Object : d # old => connections'[d] = connections[d]
  BY <1>2, <1>3, Closes DEF Inv, Types
<1>8. /\ records' \in [Object -> Record]
      /\ \A q \in Object : /\ records'[q].active_host = records[q].active_host
                           /\ records'[q].cloud_host = records[q].cloud_host
  BY <1>2, <1>3 DEF Inv, Types, Record
<1>9. \A d \in Object : ~ Live(d)'
  <2>1. \A q \in Task : task[q].pc \notin Opening
    BY <1>2, <1>5, <1>6, TasksAreDistinct DEF Opening
  <2>2. \A d \in Object : Live(d) => d = old
    BY <1>1, <1>3, <2>1 DEF Inv, EveryConnectionOwned, Opening
  <2>3. QED
    BY <1>7, <2>2, ManagerAssumption DEF Live
<1>10. Types'
  BY <1>2, <1>4, <1>7, <1>8 DEF Inv, Types, Leave
<1>11. Roles'
  BY <1>2, <1>4, <1>5, TasksAreDistinct DEF Inv, Roles
<1>12. RecordsKept'
  BY <1>2, <1>4, <1>5, TasksAreDistinct DEF Inv, RecordsKept, Opening
<1>13. OpenedAlone'
  BY <1>6 DEF OpenedAlone, Opening
<1>14. EveryConnectionOwned' /\ ClosedForGood'
  BY <1>9 DEF EveryConnectionOwned, ClosedForGood
<1>15. HostsTrusted'
  BY <1>2, <1>3, <1>8, <1>9, ManagerAssumption DEF Inv, HostsTrusted, OnlyTrustedHosts, connected, Live
<1>16. QED
  BY <1>6, <1>10, <1>11, <1>12, <1>13, <1>14, <1>15 DEF Inv

LEMMA DropKeeps ==
    ASSUME Inv, NEW c \in Object, Drop(c)
    PROVE  Inv'
<1>1. /\ connections[c].state = "up"
      /\ connections' = [connections EXCEPT ![c].state = "down", ![c].identified = FALSE]
      /\ UNCHANGED <<network, closed, current, records, lock, task, cloudNamed, confirmed>>
  BY DEF Drop, history
<1>2. /\ connections' \in [Object -> Connection]
      /\ connections'[c].state = "down"
      /\ \A d \in Object : d # c => connections'[d] = connections[d]
  <2>1. connections \in [Object -> Connection]
    BY DEF Inv, Types
  <2>2. connections' = [connections EXCEPT
            ![c] = [connections[c] EXCEPT !.state = "down", !.identified = FALSE]]
    BY <1>1, <2>1
  <2>3. [connections[c] EXCEPT !.state = "down", !.identified = FALSE] \in Connection
    BY <2>1 DEF Connection
  <2>4. [connections[c] EXCEPT !.state = "down", !.identified = FALSE].state = "down"
    BY <2>1 DEF Connection
  <2>5. QED
    BY <2>1, <2>2, <2>3, <2>4
<1>3. Types' /\ Roles' /\ RecordsKept'
  BY <1>1, <1>2 DEF Inv, Types, Roles, RecordsKept
<1>4. LockInOrder'
  BY <1>1 DEF Inv, LockInOrder, Queueing, Holds
<1>5. \A d \in Object : (Live(d)' => Live(d)) /\ (connected(d)' => connected(d) /\ d # c)
  BY <1>1, <1>2 DEF Live, connected
<1>6. OpenedAlone'
  <2>1. \A t \in Task : task[t].pc = "connecting" => task[t].connection # c
    BY <1>1 DEF Inv, OpenedAlone
  <2>2. \A t \in Task : task[t].pc \in Opening => records[current].connection \in Object \union {None}
    BY DEF Inv, RecordsKept, Types, Record
  <2>3. QED
    BY <1>1, <1>2, <1>5, <2>1, <2>2 DEF Inv, OpenedAlone
<1>7. EveryConnectionOwned' /\ ClosedForGood'
  BY <1>1, <1>5 DEF Inv, EveryConnectionOwned, ClosedForGood
<1>8. HostsTrusted'
  BY <1>1, <1>2, <1>5 DEF Inv, HostsTrusted, OnlyTrustedHosts, Live
<1>9. QED
  BY <1>3, <1>4, <1>6, <1>7, <1>8 DEF Inv

---------------------------------------------------------------------------
(* Every step.                                                             *)

LEMMA NextInv ==
    ASSUME Inv, OneSurprise, Next
    PROVE  Inv'
<1>1. ASSUME NEW t \in Sender \union {Refresh}, EnsureStep(t) PROVE Inv'
  <2>1. CASE \E operation \in {"ensure", "reconnect"} :
               Refused(t, operation) \/ WaitForLock(t, operation) \/ Enter(t, operation)
    BY <2>1, RefusedKeeps, WaitForLockKeeps, EnterKeeps
  <2>2. CASE Reopen(t)
    BY <2>2, ReopenKeeps
  <2>3. CASE \E up, identified \in BOOLEAN : Connected(t, up, identified)
    BY <2>3, ConnectedKeeps
  <2>4. QED
    BY <1>1, <2>1, <2>2, <2>3 DEF EnsureStep
<1>2. ASSUME NEW t \in Task, ConnectFails(t) \/ Cancel(t) PROVE Inv'
  BY <1>2, ConnectFailsKeeps, CancelKeeps
<1>3. CASE RefreshStep
  BY <1>3, RefreshNamesKeeps, RefreshOmitsKeeps, RemoveRecordKeeps DEF RefreshStep
<1>4. CASE DiscoverStep
  BY <1>4, ProbeKeeps, ProbeEndsKeeps, WaitWithRecordKeeps, TryCandidateKeeps, PromoteKeeps
     DEF DiscoverStep
<1>5. CASE BeginClose \/ CloserWaits \/ Detach
  BY <1>5, BeginCloseKeeps, CloserWaitsKeeps, DetachKeeps
<1>6. CASE \E c \in Object : Drop(c)
  BY <1>6, DropKeeps
<1>7. QED
  BY <1>1, <1>2, <1>3, <1>4, <1>5, <1>6 DEF Next

LEMMA StutterInv ==
    ASSUME Inv, UNCHANGED vars
    PROVE  Inv'
<1>1. Types' /\ Roles' /\ RecordsKept'
  BY DEF Inv, vars, Types, Roles, RecordsKept
<1>2. LockInOrder'
  BY DEF Inv, vars, LockInOrder, Queueing, Holds
<1>3. OpenedAlone'
  BY DEF Inv, vars, OpenedAlone, Live
<1>4. EveryConnectionOwned' /\ ClosedForGood'
  BY DEF Inv, vars, EveryConnectionOwned, ClosedForGood, Live
<1>5. HostsTrusted'
  BY DEF Inv, vars, HostsTrusted, OnlyTrustedHosts, Live, connected
<1>6. QED
  BY <1>1, <1>2, <1>3, <1>4, <1>5 DEF Inv

LEMMA InvHolds ==
    ASSUME OneSurprise
    PROVE  Spec => []Inv
<1>1. Inv /\ [Next]_vars => Inv'
  BY NextInv, StutterInv
<1>2. Init => Inv
  BY InitInv
<1>3. QED
  BY <1>1, <1>2, PTL DEF Spec

LEMMA TypesFollow ==
    ASSUME Inv
    PROVE  TypeOK
<1>1. QueueOf(lock, Queueing) /\ DOMAIN lock = 1..Len(lock)
  BY DEF Inv, LockInOrder, QueueOf
<1>2. /\ lock \in Seq(Task)
      /\ \A i, j \in DOMAIN lock : lock[i] = lock[j] => i = j
      /\ \A t \in Task : task[t].pc \in Queued <=> \E i \in DOMAIN lock : lock[i] = t
  BY <1>1 DEF QueueOf, Queueing
<1>3. QED
  BY <1>2 DEF Inv, Types, LockInOrder, Opening, TypeOK

LEMMA OnePushing ==
    ASSUME Inv
    PROVE  OnePushingSession
<1>1. SUFFICES ASSUME NEW c \in Object, NEW d \in Object, Live(c), Live(d),
                      connections[c].pushes, connections[d].pushes
               PROVE  c = d
  BY DEF OnePushingSession
<1>2. ASSUME NEW t \in Task, NEW e \in Object, task[t].pc = "connecting",
             task[t].connection = e, connections[e].pushes
      PROVE  /\ Holds(t) /\ t # Discover /\ current # None
             /\ records[current].connection # None => ~ Live(records[current].connection)
  BY <1>2 DEF Inv, LockInOrder, OpenedAlone, RecordsKept, Opening
<1>3. ASSUME NEW e \in Object, Live(e)
      PROVE  \/ \E t \in Task : task[t].pc = "connecting" /\ task[t].connection = e
             \/ current # None /\ records[current].connection = e /\ e # None
  BY <1>3, ManagerAssumption DEF Inv, EveryConnectionOwned
<1>4. CASE \E t \in Task : task[t].pc = "connecting" /\ task[t].connection = c
  <2>1. PICK t \in Task : task[t].pc = "connecting" /\ task[t].connection = c
    BY <1>4
  <2>2. CASE \E q \in Task : task[q].pc = "connecting" /\ task[q].connection = d
    BY <1>1, <1>2, <2>1, <2>2 DEF Holds
  <2>3. CASE current # None /\ records[current].connection = d /\ d # None
    BY <1>1, <1>2, <2>1, <2>3
  <2>4. QED
    BY <1>1, <1>3, <2>2, <2>3
<1>5. CASE current # None /\ records[current].connection = c /\ c # None
  <2>1. ~ \E q \in Task : task[q].pc = "connecting" /\ task[q].connection = d
    BY <1>1, <1>2, <1>5
  <2>2. QED
    BY <1>1, <1>3, <1>5, <2>1
<1>6. QED
  BY <1>1, <1>3, <1>4, <1>5

---------------------------------------------------------------------------
(* The types hold, and the queue of the lock contains the coroutines       *)
(* between asking for the lock and leaving it, each once; only its first   *)
(* connects (gateway_manager.py:86-102, 142-182, 191-200).                 *)
THEOREM ManagerTypeCorrect ==
    ASSUME OneSurprise
    PROVE  Spec => []TypeOK
<1>1. Inv => TypeOK
  BY TypesFollow
<1>2. QED
  BY <1>1, InvHolds, PTL

(* A live connection is the one of the record, or is being opened by the   *)
(* coroutine that holds the lock: none is left behind                      *)
(* (gateway_manager.py:112-118, 173-182, 193-195, 229-244).                *)
THEOREM ConnectionsOwned ==
    ASSUME OneSurprise
    PROVE  Spec => []EveryConnectionOwned
<1>1. Inv => EveryConnectionOwned
  BY DEF Inv
<1>2. QED
  BY <1>1, InvHolds, PTL

(* No two live connections of the gateway push: the previous one is closed *)
(* before another may (gateway_manager.py:154, 173-182, 229-236).          *)
THEOREM OneSessionPushes ==
    ASSUME OneSurprise
    PROVE  Spec => []OnePushingSession
<1>1. Inv => OnePushingSession
  BY OnePushing
<1>2. QED
  BY <1>1, InvHolds, PTL

(* After close() nothing is connected or being connected any more          *)
(* (gateway_manager.py:186-206, 237-242, 273-278).                         *)
THEOREM ClosedMeansClosed ==
    ASSUME OneSurprise
    PROVE  Spec => []ClosedForGood
<1>1. Inv => ClosedForGood
  BY DEF Inv
<1>2. QED
  BY <1>1, InvHolds, PTL

(* A session whose gateway named no UID is at a host the cloud named, and  *)
(* an active host other than the cloud's is one where a login confirmed    *)
(* the UID (gateway_manager.py:135, 151-158, 232-236).                     *)
THEOREM HostsAreTrusted ==
    ASSUME OneSurprise
    PROVE  Spec => []OnlyTrustedHosts
<1>1. Inv => OnlyTrustedHosts
  BY DEF Inv, HostsTrusted
<1>2. QED
  BY <1>1, InvHolds, PTL

=============================================================================
