----------------------------- MODULE CloudClient -----------------------------
(***************************************************************************)
(* The cloud client of one coordinator: login, family list and device       *)
(* table (lib/cloud_client.py), as async_setup and _async_update_data of    *)
(* the coordinator call them.  Calls follow each other: Home Assistant      *)
(* starts refreshes after the set-up, one at a time.  Each step is one      *)
(* HTTPS request with its answer; a session has a total timeout, so every   *)
(* request is answered, if only by a transport error.                       *)
(***************************************************************************)
EXTENDS Naturals

CONSTANTS
    Family,     \* families of the account
    Password,   \* passwords of the cloud stream that the server gives out
    None        \* no family, no password, no call

ASSUME CloudClientAssumption == None \notin Family \cup Password

VARIABLES
    configured, \* the family of the config entry, None in a migrated one
    client,     \* the CloudClient of the present coordinator
    ready,      \* its set-up has succeeded
    call,       \* the call under way, or the last one
    pushed,     \* the stream password the coordinator last configured
    alive,      \* server: the token of the client is accepted
    accepted,   \* server: the account's password is accepted
    issued,     \* the token was issued during the present call
    excuse,     \* history: what a failure of the call could be blamed on
    answers     \* history: kinds of rejection the call has met

vars == <<configured, client, ready, call, pushed, alive, accepted, issued,
          excuse, answers>>
server == <<alive, accepted>>

\* The answers after which a POST login is tried again as GET.
Incompatible == {"http_4xx", "json", "schema"}
Faults == {"transport", "http_5xx"} \cup Incompatible

\* MaxCount is where the count of requests stops.
MaxCount == 8

NewClient(f) == [method |-> "POST", token |-> FALSE, family |-> f, binary |-> None]

Client == [method: {"POST", "GET"}, token: BOOLEAN,
           family: Family \cup {None}, binary: Password \cup {None}]

Call == [op: {"setup", "refresh", None},
         at: {"idle", "oauth", "families", "table"},
         stage: {"setup", "first", "again"},
         verb: {"POST", "GET"},
         sent: 0..MaxCount,
         outcome: {"none", "ok", "failed", "auth_failed"}]

TypeOK ==
    /\ configured \in Family \cup {None}
    /\ client \in Client
    /\ ready \in BOOLEAN
    /\ call \in Call
    /\ pushed \in Password \cup {None}
    /\ alive \in BOOLEAN /\ accepted \in BOOLEAN /\ issued \in BOOLEAN
    /\ excuse \subseteq {"fault", "password", "expired"}
    /\ answers \subseteq {"login_rejected", "table_rejected"}
    /\ alive => client.token

Init ==
    /\ configured \in Family \cup {None}
    /\ client = NewClient(configured)
    /\ ready = FALSE
    /\ call = [op |-> None, at |-> "idle", stage |-> "setup", verb |-> "POST",
               sent |-> 0, outcome |-> "none"]
    /\ pushed = None
    /\ alive = FALSE /\ accepted \in BOOLEAN /\ issued = FALSE
    /\ excuse = {} /\ answers = {}
-----------------------------------------------------------------------------
(* What a step does to the call.  *)

Sent(n) == IF n = MaxCount THEN n ELSE n + 1

Begin(op, at, stage, verb) ==
    /\ call' = [op |-> op, at |-> at, stage |-> stage, verb |-> verb,
                sent |-> 0, outcome |-> "none"]
    /\ excuse' = {} /\ answers' = {} /\ issued' = FALSE

Continue(at, stage, verb) ==
    call' = [call EXCEPT !.at = at, !.stage = stage, !.verb = verb,
                         !.sent = Sent(@)]

\* Mutant: every failure of a refresh asks for a new password.
ReportedAsAuthentication(authentication) ==
    IF call.op = "refresh" \/ authentication THEN "auth_failed" ELSE "failed"

\* How async_setup and _async_update_data report an exception.  The refresh
\* inside a set-up raises as it is, and async_setup_entry turns that into
\* ConfigEntryNotReady.
Reported(authentication) ==
    IF authentication /\ (call.op = "refresh" \/ call.stage = "setup")
    THEN "auth_failed" ELSE "failed"

End(outcome) ==
    call' = [call EXCEPT !.at = "idle", !.outcome = outcome, !.sent = Sent(@)]
-----------------------------------------------------------------------------
(* The calls of the coordinator.  *)

\* A coordinator is made for every attempt to set the entry up.
StartSetup ==
    /\ call.at = "idle" /\ ~ready
    /\ client' = NewClient(configured)
    /\ alive' = FALSE
    /\ pushed' = None
    /\ Begin("setup", "oauth", "setup", "POST")
    /\ UNCHANGED <<configured, ready, accepted>>

\* fetch_devices logs in only without a token.
StartRefresh ==
    /\ call.at = "idle" /\ ready
    /\ Begin("refresh", IF client.token THEN "table" ELSE "oauth", "first",
             client.method)
    /\ UNCHANGED <<configured, client, ready, pushed, server>>
\* The user gives the reauthentication flow a password that the server accepts:
\* the entry is loaded again, with a new coordinator.
Reauthenticate ==
    /\ call.at = "idle" /\ call.op # None
    /\ accepted' = TRUE
    /\ ready' = FALSE
    /\ client' = NewClient(configured)
    /\ alive' = FALSE
    /\ pushed' = None
    /\ Begin("setup", "oauth", "setup", "POST")
    /\ UNCHANGED configured
-----------------------------------------------------------------------------
(* login(): POST, and GET when the answer is that of an older server.  *)

LoginFault(f) ==
    /\ call.at = "oauth"
    /\ excuse' = excuse \cup {"fault"}
    /\ IF call.verb = "POST" /\ f \in Incompatible
       THEN Continue("oauth", call.stage, "GET")
       ELSE End(Reported(FALSE))
    /\ UNCHANGED <<configured, client, ready, pushed, server, issued, answers>>

\* Any status other than 0 counts as a refused password.
LoginRejected ==
    /\ call.at = "oauth"
    /\ excuse' = excuse \cup {IF accepted THEN "fault" ELSE "password"}
    /\ answers' = answers \cup {"login_rejected"}
    /\ End(Reported(TRUE))
    /\ UNCHANGED <<configured, client, ready, pushed, server, issued>>

\* Mutant: the method that worked is forgotten.
LoginForgetsMethod ==
    /\ call.at = "oauth" /\ accepted
    /\ client' = [client EXCEPT !.token = TRUE]
    /\ alive' = TRUE /\ issued' = TRUE
    /\ Continue("families", call.stage, call.verb)
    /\ UNCHANGED <<configured, ready, pushed, accepted, excuse, answers>>

LoginAccepted ==
    /\ call.at = "oauth" /\ accepted
    /\ client' = [client EXCEPT !.method = call.verb, !.token = TRUE]
    /\ alive' = TRUE /\ issued' = TRUE
    /\ Continue("families", call.stage, call.verb)
    /\ UNCHANGED <<configured, ready, pushed, accepted, excuse, answers>>

(* fetch_family_list(), which ends login().  *)

FamiliesFault ==
    /\ call.at = "families"
    /\ excuse' = excuse \cup {"fault"}
    /\ End(Reported(FALSE))
    /\ UNCHANGED <<configured, client, ready, pushed, server, issued, answers>>

\* The server refuses what carries a token it does not know, and may refuse
\* anything.
FamiliesRejected ==
    /\ call.at = "families"
    /\ excuse' = IF alive THEN excuse \cup {"fault"} ELSE excuse
    /\ End(Reported(FALSE))
    /\ UNCHANGED <<configured, client, ready, pushed, server, issued, answers>>

\* first is the family listed first; the list may be empty.
FamiliesListed(first) ==
    /\ call.at = "families" /\ alive
    /\ client' = IF client.family = None
                 THEN [client EXCEPT !.family = first] ELSE client
    /\ Continue("table", IF call.stage = "setup" THEN "first" ELSE call.stage,
                call.verb)
    /\ UNCHANGED <<configured, ready, pushed, server, issued, excuse, answers>>

(* _fetch_readtable() and its repetition in fetch_devices().  *)

TableFault ==
    /\ call.at = "table"
    /\ excuse' = excuse \cup {"fault"}
    /\ End(Reported(FALSE))
    /\ UNCHANGED <<configured, client, ready, pushed, server, issued, answers>>

\* Mutant: a rejected token is kept and the table not asked for again.
TableRejectedFinally ==
    /\ call.at = "table"
    /\ excuse' = IF alive THEN excuse \cup {"fault"} ELSE excuse
    /\ answers' = answers \cup {"table_rejected"}
    /\ End(Reported(FALSE))
    /\ UNCHANGED <<configured, client, ready, pushed, server, issued>>

TableRejected ==
    /\ call.at = "table"
    /\ excuse' = IF alive THEN excuse \cup {"fault"} ELSE excuse
    /\ answers' = answers \cup {"table_rejected"}
    /\ IF call.stage = "again"
       THEN /\ End(Reported(FALSE))
            /\ UNCHANGED <<client, alive>>
       ELSE /\ client' = [client EXCEPT !.token = FALSE]
            /\ alive' = FALSE
            /\ Continue("oauth", "again", client.method)
    /\ UNCHANGED <<configured, ready, pushed, accepted, issued>>

\* The stream credentials are stored before the rest of the table is parsed.
TableMalformed(p) ==
    /\ call.at = "table" /\ alive
    /\ client' = [client EXCEPT !.binary = p]
    /\ excuse' = excuse \cup {"fault"}
    /\ End(Reported(FALSE))
    /\ UNCHANGED <<configured, ready, pushed, server, issued, answers>>

\* Mutant: the account of any user is taken.
TableAnsweredForAnyUser(p) ==
    /\ call.at = "table" /\ alive
    /\ client' = [client EXCEPT !.binary = <<p, "another user">>]
    /\ pushed' = client'.binary
    /\ ready' = TRUE
    /\ End("ok")
    /\ UNCHANGED <<configured, server, issued, excuse, answers>>

\* The table goes to the coordinator, which merges it and hands the
\* credentials to the cloud stream, which needs a family.
TableAnswered(p) ==
    /\ call.at = "table" /\ alive
    /\ client' = [client EXCEPT !.binary = p]
    /\ pushed' = IF client.family = None THEN None ELSE p
    /\ ready' = TRUE
    /\ End("ok")
    /\ UNCHANGED <<configured, server, issued, excuse, answers>>
-----------------------------------------------------------------------------
(* The server.  *)

TokenExpires ==
    /\ alive
    /\ alive' = FALSE
    /\ excuse' = IF call.at # "idle" /\ issued
                 THEN excuse \cup {"expired"} ELSE excuse
    /\ UNCHANGED <<configured, client, ready, call, pushed, accepted, issued, answers>>

PasswordChanges ==
    /\ accepted' = ~accepted
    /\ UNCHANGED <<configured, client, ready, call, pushed, alive, issued,
                   excuse, answers>>
-----------------------------------------------------------------------------
Answer ==
    \/ \E f \in Faults : LoginFault(f)
    \/ LoginRejected
    \/ LoginAccepted
    \/ FamiliesFault
    \/ FamiliesRejected
    \/ \E first \in Family \cup {None} : FamiliesListed(first)
    \/ TableFault
    \/ TableRejected
    \/ \E p \in Password \cup {None} : TableMalformed(p) \/ TableAnswered(p)

Next ==
    \/ StartSetup
    \/ StartRefresh
    \/ Reauthenticate
    \/ Answer
    \/ TokenExpires
    \/ PasswordChanges

Spec == Init /\ [][Next]_vars

\* Home Assistant repeats set-ups and refreshes, but not after a refused password:
\* then it waits for the user, or for somebody who asks for a refresh.
Repeated(start) == call.outcome # "auth_failed" /\ start

\* Requests end by their timeout.  Nobody has to reauthenticate.
FairSpec ==
    /\ Spec
    /\ WF_vars(Answer)
    /\ WF_vars(Repeated(StartSetup)) /\ WF_vars(Repeated(StartRefresh))
-----------------------------------------------------------------------------
(* Properties.  *)

\* Failures are blamed on what caused them.  A call fails only for a reason of
\* the server: a faulty answer, a refused password, or the expiry of a token
\* issued during the very same call; a token that expired since the last refresh,
\* or during this one, is replaced on the way (fetch_devices).  The user is asked
\* for a new password only after the server has refused the login in this call,
\* never for a network error or an expired token; and always then, but for one
\* case: the repeated login of a set-up whose own login has succeeded is refused
\* (async_setup converts only the errors of its own login).
FailuresAreBlamedRightly ==
    /\ call.outcome \in {"failed", "auth_failed"} => excuse # {}
    /\ call.outcome = "auth_failed" => "login_rejected" \in answers
    /\ call.outcome = "failed" /\ "login_rejected" \in answers =>
         call.op = "setup" /\ call.stage = "again"

\* However the server answers, a call takes at most seven requests: two logins,
\* two family lists, two tables, and one repetition as GET, because a login that
\* fell back to GET does not try POST again.
AtMostSevenRequests == call.sent <= 7

\* A step of a behaviour in which the server serves whoever has a valid token or
\* the right password.
ServedStep ==
    \/ StartSetup \/ StartRefresh \/ Reauthenticate
    \/ LoginAccepted
    \/ \E first \in Family \cup {None} : FamiliesListed(first)
    \/ ~alive /\ (FamiliesRejected \/ TableRejected)
    \/ \E p \in Password \cup {None} : TableAnswered(p)

\* Whatever state failures have left the client in, with its token, its family
\* or its credentials missing or stale, calls succeed again once the server
\* serves, and the cloud stream gets the credentials that the client holds
\* (login, fetch_devices, _configure_cloud_push); unless the last call ended with
\* a refused password, which nothing repeats, and the user does not give another
\* (ConfigEntryAuthFailed, coordinator.py:134-135, 165-166).
RecoversWithServer ==
    <>[][ServedStep]_vars =>
        \/ <>[](call.at # "idle" \/ /\ call.outcome = "ok"
                                    /\ client.family # None => pushed = client.binary)
        \/ <>[](call.at = "idle" /\ call.outcome = "auth_failed")

=============================================================================
