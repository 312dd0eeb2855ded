------------------------------ MODULE CloudPush ------------------------------
(***************************************************************************)
(* The event stream of the cloud's door locks: CloudPushClient of          *)
(* lib/cloud_push.py, its task, and the coordinator that starts a client,  *)
(* rotates its credentials and stops it (coordinator.py:329-378), from a   *)
(* refresh or from async_cleanup.                                          *)
(*                                                                         *)
(* Steps end at the awaits that suspend.  A closed stream still hands out  *)
(* what it has received, and then ends.  The server may send the response  *)
(* to hello or to login, or an event, at any time, or nothing; a frame may *)
(* arrive in two parts.  Drains are taken not to suspend: what is sent is  *)
(* far smaller than the write buffer.                                      *)
(***************************************************************************)
EXTENDS Integers, Sequences

CONSTANTS
    Client,      \* CloudPushClient objects, used again once nobody refers to them
    Credentials, \* what readtable may return for the stream
    MaxEvents,   \* bound on the events the server sends
    MaxInbox,    \* bound on the packets received and not yet read
    None

Refresh == "refresh"
Cleanup == "cleanup"
Owner == {Refresh, Cleanup}

ASSUME CloudPushAssumption ==
    /\ None \notin Client /\ None \notin Credentials
    /\ MaxEvents \in Nat /\ MaxInbox \in Nat \ {0}

VARIABLES
    client,     \* the clients: their attributes, run(), and their stream
    cloud_push, \* the coordinator's current client
    owner,      \* the coroutines that use _configure_ and _stop_cloud_push
    closed,     \* _closed of the coordinator
    sent,       \* the server: the number of the latest event
    delivered   \* the number of the latest event the callback was given

vars == <<client, cloud_push, owner, closed, sent, delivered>>

Reading == {"handshake", "login", "stream", "heartbeat"}
Running == Reading \union {"connecting", "closing", "backoff"}
Packet == [kind : {"hello", "login", "event", "head", "rest"}, event : 0..MaxEvents]

(* pc is the await of run(); writer tells that _writer is set, and so that *)
(* its transport is open; head, that the first half of a frame was read;   *)
(* owed, that its second half has yet to come.                             *)
ClientState ==
    [pc : Running \union {"done"}, credentials : Credentials \union {None},
     stop : BOOLEAN, cancelled : BOOLEAN, writer : BOOLEAN, connected : BOOLEAN,
     loginAs : Credentials \union {None},
     inbox : Seq(Packet), head : BOOLEAN, owed : BOOLEAN]

NoClient ==
    [pc |-> "done", credentials |-> None, stop |-> FALSE, cancelled |-> FALSE,
     writer |-> FALSE, connected |-> FALSE, loginAs |-> None,
     inbox |-> << >>, head |-> FALSE, owed |-> FALSE]

NewClient(credentials) ==
    [NoClient EXCEPT !.pc = "connecting", !.credentials = credentials]

OwnerState == [pc : {"idle", "rotating", "stopping", "awaiting", "done"},
               client : Client \union {None}]
IdleOwner == [pc |-> "idle", client |-> None]

Init ==
    /\ client = [c \in Client |-> NoClient]
    /\ cloud_push = None
    /\ owner = [o \in Owner |-> IdleOwner]
    /\ closed = FALSE
    /\ sent = 0 /\ delivered = 0
---------------------------------------------------------------------------
(* run() and _run_once()                                                   *)

Becomes(c, state) ==
    /\ client' = [client EXCEPT ![c] = state]
    /\ UNCHANGED <<cloud_push, owner, closed, sent>>

(* After _run_once: run() ends if it was cancelled or stopped, otherwise   *)
(* it waits before the next attempt.                                       *)
AfterRun(s) ==
    [s EXCEPT !.pc = IF s.cancelled \/ s.stop THEN "done" ELSE "backoff"]

(* Mutant: the closed writer is kept.                                      *)
EndedKeepingWriter(s) ==
    [s EXCEPT !.pc = "closing", !.connected = FALSE, !.loginAs = None,
              !.inbox = << >>, !.head = FALSE, !.owed = FALSE]

(* The finally clause of _run_once, up to the await of wait_closed.        *)
Ended(s) ==
    [s EXCEPT !.pc = "closing", !.writer = FALSE, !.connected = FALSE, !.loginAs = None,
              !.inbox = << >>, !.head = FALSE, !.owed = FALSE]

(* open_connection returns, with the pinned certificate or another one.    *)
Opened(c, pinned) ==
    /\ client[c].pc = "connecting"
    /\ LET s == client[c] IN
       Becomes(c, IF s.stop \/ ~ pinned THEN Ended(s)
                  ELSE [s EXCEPT !.pc = "handshake", !.writer = TRUE])
    /\ UNCHANGED delivered

OpenFails(c) ==
    /\ client[c].pc = "connecting"
    /\ Becomes(c, AfterRun(client[c]))
    /\ UNCHANGED delivered

WriterClosed(c) ==
    /\ client[c].pc = "closing"
    /\ Becomes(c, AfterRun(client[c]))
    /\ UNCHANGED delivered

(* The delay passes, or the client is stopped.                             *)
BackoffEnds(c) ==
    /\ client[c].pc = "backoff"
    /\ Becomes(c, [client[c] EXCEPT !.pc = IF client[c].stop THEN "done" ELSE "connecting"])
    /\ UNCHANGED delivered
---------------------------------------------------------------------------
(* The stream: _handshake, _login, _stream and _read_packet                *)

(* A complete packet has been read, and accepted where that matters: the   *)
(* key of the hello response is usable, the login status is 0.  Whatever   *)
(* does not answer the command is ignored during hello and login.          *)
Handled(s, kind, accepted) ==
    CASE s.pc = "handshake" /\ kind = "hello" ->
           IF accepted THEN [s EXCEPT !.pc = "login", !.loginAs = s.credentials] ELSE Ended(s)
      [] s.pc = "login" /\ kind = "login" ->
           IF accepted /\ ~ s.stop THEN [s EXCEPT !.pc = "stream", !.connected = TRUE]
           ELSE Ended(s)
      [] s.pc \in {"stream", "heartbeat"} ->
           IF s.stop THEN Ended(s) ELSE [s EXCEPT !.pc = "stream"]
      [] OTHER -> s

(* _read_packet reads on.  A second half without its first is no frame.    *)
Read(c, accepted) ==
    /\ client[c].pc \in Reading /\ client[c].inbox # << >>
    /\ LET packet == Head(client[c].inbox)
           s == [client[c] EXCEPT !.inbox = Tail(@), !.head = FALSE]
           kind == IF packet.kind = "rest" THEN "event" ELSE packet.kind
       IN  CASE packet.kind = "head" ->
                  Becomes(c, [s EXCEPT !.head = TRUE]) /\ UNCHANGED delivered
             [] packet.kind = "rest" /\ ~ client[c].head ->
                  Becomes(c, Ended(s)) /\ UNCHANGED delivered
             [] OTHER ->
                  /\ Becomes(c, Handled(s, kind, accepted))
                  /\ delivered' = IF kind = "event" /\ s.pc \in {"stream", "heartbeat"}
                                  THEN packet.event ELSE delivered

(* Nothing complete for an interval: the read is cancelled, with the half  *)
(* of a frame it may have taken, and a heartbeat is sent.                  *)
Idle(c) ==
    /\ client[c].pc = "stream"
    /\ Becomes(c, [client[c] EXCEPT !.pc = "heartbeat", !.head = FALSE])
    /\ UNCHANGED delivered

(* Mutant: nobody looks whether the heartbeat is answered.                 *)
ExpiresWhenLoggingIn(c) ==
    /\ client[c].pc \in {"handshake", "login"}
    /\ Becomes(c, Ended(client[c]))
    /\ UNCHANGED delivered

(* No answer to hello, login or heartbeat in time.                         *)
Expires(c) ==
    /\ client[c].pc \in {"handshake", "login", "heartbeat"}
    /\ Becomes(c, Ended(client[c]))
    /\ UNCHANGED delivered

(* The stream ends or fails; it ends when this side has closed it.         *)
StreamEnds(c) ==
    /\ client[c].pc \in Reading
    /\ Becomes(c, Ended(client[c]))
    /\ UNCHANGED delivered
---------------------------------------------------------------------------
(* The server (external): it sends whole frames, or one half of a frame    *)
(* and later the other.                                                    *)

Arrives(c, kind) ==
    /\ client[c].writer /\ Len(client[c].inbox) < MaxInbox
    /\ client[c].owed <=> kind = "rest"
    /\ kind \in {"event", "head"} => sent < MaxEvents
    /\ sent' = IF kind \in {"event", "head"} THEN sent + 1 ELSE sent
    /\ client' = [client EXCEPT
                    ![c].inbox = Append(@, [kind |-> kind, event |-> sent']),
                    ![c].owed = (kind = "head")]
    /\ UNCHANGED <<cloud_push, owner, closed, delivered>>
---------------------------------------------------------------------------
(* _configure_cloud_push and _stop_cloud_push of the coordinator           *)

WriterUnset(s) == [s EXCEPT !.writer = FALSE, !.connected = FALSE]

(* task.cancel(), and what the task does up to its next suspension.        *)
Cancelled(s) ==
    CASE s.pc \in Reading -> [Ended(s) EXCEPT !.cancelled = TRUE]
      [] OTHER -> [s EXCEPT !.pc = "done", !.writer = FALSE]

Finished(o) == [IdleOwner EXCEPT !.pc = IF o = Cleanup THEN "done" ELSE "idle"]

(* Mutant: the client is closed, its task is left alone.                   *)
StopWithoutTask(o) ==
    /\ cloud_push' = None
    /\ owner' = [owner EXCEPT ![o] = Finished(o)]
    /\ client' = IF cloud_push = None THEN client
                 ELSE [client EXCEPT ![cloud_push] = WriterUnset([@ EXCEPT !.stop = TRUE])]

(* Mutant: the writer is closed as for a rotation, and the task awaited.   *)
StopByClosing(o) ==
    /\ cloud_push' = None
    /\ IF cloud_push = None
       THEN owner' = [owner EXCEPT ![o] = Finished(o)] /\ UNCHANGED client
       ELSE /\ client' = [client EXCEPT ![cloud_push] = WriterUnset(@)]
            /\ owner' = [owner EXCEPT ![o] = [pc |-> "awaiting", client |-> cloud_push]]

(* The client is taken from the coordinator, stopped and its writer        *)
(* closed; its task is cancelled at once if there was no writer to await.  *)
Stop(o) ==
    /\ cloud_push' = None
    /\ IF cloud_push = None
       THEN owner' = [owner EXCEPT ![o] = Finished(o)] /\ UNCHANGED client
       ELSE LET s == WriterUnset([client[cloud_push] EXCEPT !.stop = TRUE])
                waits == client[cloud_push].writer IN
            /\ client' = [client EXCEPT ![cloud_push] = IF waits THEN s ELSE Cancelled(s)]
            /\ owner' = [owner EXCEPT ![o] =
                           [pc |-> IF waits THEN "stopping" ELSE "awaiting",
                            client |-> cloud_push]]

CancelTask(o) ==
    /\ owner[o].pc = "stopping"
    /\ client' = [client EXCEPT ![owner[o].client] = Cancelled(@)]
    /\ owner' = [owner EXCEPT ![o].pc = "awaiting"]
    /\ UNCHANGED <<cloud_push, closed, sent, delivered>>

TaskEnded(o) ==
    /\ owner[o].pc = "awaiting" /\ client[owner[o].client].pc = "done"
    /\ owner' = [owner EXCEPT ![o] = Finished(o)]
    /\ UNCHANGED <<client, cloud_push, closed, sent, delivered>>

(* Objects nobody refers to any more are collected and used again.         *)
Free == { c \in Client : /\ c # cloud_push /\ client[c].pc = "done"
                         /\ \A o \in Owner : owner[o].client # c }

(* A refresh that finds no lock or no credentials, or comes too late.      *)
RefreshStops ==
    /\ owner[Refresh].pc = "idle"
    /\ Stop(Refresh)
    /\ UNCHANGED <<closed, sent, delivered>>

(* Mutant: a refresh that comes after the clean-up starts a client.        *)
RefreshStartsAnyway(credentials) ==
    /\ owner[Refresh].pc = "idle" /\ cloud_push = None
    /\ \E c \in Free :
         /\ client' = [client EXCEPT ![c] = NewClient(credentials)]
         /\ cloud_push' = c
    /\ UNCHANGED <<owner, closed, sent, delivered>>

RefreshStarts(credentials) ==
    /\ owner[Refresh].pc = "idle" /\ ~ closed /\ cloud_push = None
    /\ \E c \in Free :
         /\ client' = [client EXCEPT ![c] = NewClient(credentials)]
         /\ cloud_push' = c
    /\ UNCHANGED <<owner, closed, sent, delivered>>

(* Mutant: only a connection that has a stream is given up.                *)
RotateIfConnected(credentials) ==
    /\ owner[Refresh].pc = "idle" /\ ~ closed /\ cloud_push # None
    /\ credentials # client[cloud_push].credentials
    /\ LET s == [client[cloud_push] EXCEPT !.credentials = credentials] IN
       client' = [client EXCEPT ![cloud_push] = IF s.connected THEN WriterUnset(s) ELSE s]
    /\ UNCHANGED <<owner, cloud_push, closed, sent, delivered>>

(* async_update_credentials: whatever the current connection was opened    *)
(* with, it is given up.                                                   *)
Rotate(credentials) ==
    /\ owner[Refresh].pc = "idle" /\ ~ closed /\ cloud_push # None
    /\ credentials # client[cloud_push].credentials
    /\ client' = [client EXCEPT ![cloud_push] =
                    WriterUnset([@ EXCEPT !.credentials = credentials])]
    /\ owner' = IF client[cloud_push].writer
                THEN [owner EXCEPT ![Refresh].pc = "rotating"] ELSE owner
    /\ UNCHANGED <<cloud_push, closed, sent, delivered>>

RotationEnds ==
    /\ owner[Refresh].pc = "rotating"
    /\ owner' = [owner EXCEPT ![Refresh] = IdleOwner]
    /\ UNCHANGED <<client, cloud_push, closed, sent, delivered>>

BeginCleanup ==
    /\ ~ closed /\ closed' = TRUE
    /\ Stop(Cleanup)
    /\ UNCHANGED <<sent, delivered>>
---------------------------------------------------------------------------
ClientStep(c) ==
    \/ \E pinned \in BOOLEAN : Opened(c, pinned)
    \/ OpenFails(c) \/ WriterClosed(c) \/ BackoffEnds(c)
    \/ \E accepted \in BOOLEAN : Read(c, accepted)
    \/ Idle(c) \/ Expires(c) \/ StreamEnds(c)

ServerStep(c) == \E kind \in {"hello", "login", "event", "head", "rest"} : Arrives(c, kind)

OwnerStep ==
    \/ RefreshStops \/ RotationEnds \/ BeginCleanup
    \/ \E credentials \in Credentials : RefreshStarts(credentials) \/ Rotate(credentials)
    \/ \E o \in Owner : CancelTask(o) \/ TaskEnded(o)

Next == \/ \E c \in Client : ClientStep(c) \/ ServerStep(c)
        \/ OwnerStep

Spec == Init /\ [][Next]_vars

(* Timers fire, closed streams end and runnable coroutines run.  Nothing   *)
(* is assumed of the server.                                               *)
Fairness ==
    /\ \A c \in Client :
         /\ WF_vars(OpenFails(c)) /\ WF_vars(WriterClosed(c)) /\ WF_vars(BackoffEnds(c))
         /\ WF_vars(Idle(c) \/ \E accepted \in BOOLEAN : Read(c, accepted))
         /\ WF_vars(Expires(c))
         /\ WF_vars(~ client[c].writer /\ client[c].inbox = << >> /\ StreamEnds(c))
    /\ WF_vars(RotationEnds)
    /\ \A o \in Owner : WF_vars(CancelTask(o)) /\ WF_vars(TaskEnded(o))

FairSpec == Spec /\ Fairness
---------------------------------------------------------------------------
(* Types; a client that is connecting, waiting or done has no writer.      *)
TypeOK ==
    /\ client \in [Client -> ClientState]
    /\ \A c \in Client : client[c].writer => client[c].pc \in Reading
    /\ cloud_push \in Client \union {None}
    /\ owner \in [Owner -> OwnerState]
    /\ closed \in BOOLEAN
    /\ sent \in 0..MaxEvents /\ delivered \in 0..sent

(* A connection that is in use was logged in with the current credentials, *)
(* whenever they were rotated: while it was opened, in the handshake, in   *)
(* the login or later (cloud_push.py:295-307, 431-441).                    *)
SessionUsesCurrentCredentials ==
    \A c \in Client : (client[c].writer /\ client[c].loginAs # None) =>
        client[c].loginAs = client[c].credentials

(* "Close the cloud stream and wait for its managed task to exit"          *)
(* (coordinator.py:366): a client that runs is the coordinator's, or a     *)
(* refresh or clean-up that stopped it still waits for it; after the       *)
(* clean-up only such a one is left (coordinator.py:339-348, 365-378).     *)
NoOrphanClient ==
    \A c \in Client : client[c].pc \in Running =>
        \/ cloud_push = c /\ owner[Cleanup].pc # "done"
        \/ client[c].stop /\ \E o \in Owner : owner[o].client = c

(* Events reach the coordinator in the order the server sent them, across  *)
(* reconnections, rotations and changes of the client; events are lost,    *)
(* never repeated or overtaken (cloud_push.py:446-466).                    *)
EventsInOrder == [][delivered' >= delivered]_delivered

(* As long as it is not stopped, the client tries to connect again and     *)
(* again unless it has a stream (cloud_push.py:271-293), and a server that *)
(* falls silent without closing the stream is noticed (:451-466).          *)
PacketArrives == \E c \in Client : ServerStep(c)
KeepsReconnecting ==
    /\ \A c \in Client : []<>(\/ cloud_push # c
                              \/ client[c].pc \in {"connecting", "stream"})
    /\ <>[][~ PacketArrives]_vars => \A c \in Client : []<>(~ client[c].connected)

(* The stop of a client and the rotation of its credentials return,        *)
(* wherever the client's task is (coordinator.py:365-378).                 *)
OwnersReturn ==
    \A o \in Owner :
        owner[o].pc \in {"rotating", "stopping", "awaiting"} ~> owner[o].pc \in {"idle", "done"}

=============================================================================
