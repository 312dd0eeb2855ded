--------------------------- MODULE GatewaySession ---------------------------
(***************************************************************************)
(* What a GatewayConnection promises to its owner (lib/gateway_connection  *)
(* .py), without locks, futures, routes, tasks and heartbeat: a session is *)
(* opened once, serves once and is lost once; a request begins and is sent *)
(* only while the session serves, one outcome is its last, and when the    *)
(* session is lost only a request whose response is already there can      *)
(* still succeed.  GatewayConnection implements it.                        *)
(***************************************************************************)
CONSTANT User       \* calls of send(), one each

VARIABLES
    link,       \* the session: new, open, serving or lost
    request,    \* how far each request is
    sent        \* the requests whose packet was written

session == <<link, request, sent>>

Pending == {"waiting", "replied", "doomed"}

Init ==
    /\ link = "new"
    /\ request = [u \in User |-> "idle"]
    /\ sent = {}

Become(u, state) ==
    /\ request' = [request EXCEPT ![u] = state]
    /\ UNCHANGED link

Open ==
    /\ link = "new" /\ link' = "open"
    /\ UNCHANGED <<request, sent>>

Serve ==
    /\ link = "open" /\ link' = "serving"
    /\ UNCHANGED <<request, sent>>

\* The session is lost, or never comes about; of the requests that wait none
\* can succeed any more, and the one that noticed the loss ends.
Lose(noticed) ==
    /\ link # "lost" /\ link' = "lost"
    /\ \A u, v \in noticed : u = v /\ request[u] \in Pending
    /\ request' = [u \in User |-> IF u \in noticed THEN "failed"
                                  ELSE IF request[u] = "waiting" THEN "doomed"
                                  ELSE request[u]]
    /\ UNCHANGED sent

Begin(u) ==
    /\ request[u] = "idle" /\ link = "serving"
    /\ Become(u, "waiting") /\ UNCHANGED sent

Refuse(u) ==
    /\ request[u] = "idle" /\ link # "serving"
    /\ Become(u, "failed") /\ UNCHANGED sent

Transmit(u) ==
    /\ request[u] \in {"waiting", "replied"} /\ link = "serving"
    /\ sent' = sent \cup {u}
    /\ UNCHANGED <<link, request>>

Reply(u) ==
    /\ request[u] = "waiting" /\ link = "serving"
    /\ Become(u, "replied") /\ UNCHANGED sent

Succeed(u) ==
    /\ request[u] = "replied" /\ u \in sent
    /\ Become(u, "answered") /\ UNCHANGED sent

Fail(u) ==
    /\ request[u] \in Pending
    /\ Become(u, "failed") /\ UNCHANGED sent

Next ==
    \/ Open
    \/ Serve
    \/ \E noticed \in SUBSET User : Lose(noticed)
    \/ \E u \in User : \/ Begin(u) \/ Refuse(u) \/ Transmit(u)
                       \/ Reply(u) \/ Succeed(u) \/ Fail(u)

Spec == Init /\ [][Next]_session
=============================================================================
