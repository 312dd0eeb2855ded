--------------------------- MODULE EntryLifecycle ---------------------------
(***************************************************************************)
(* Config entries of the integration (__init__.py) with the coordinators    *)
(* they set up and clean up (async_setup, _async_update_data and             *)
(* async_cleanup of coordinator.py).  Home Assistant runs at most one set-up *)
(* or unload of an entry at a time (its set-up lock), and starts refreshes   *)
(* of a coordinator one at a time; everything else interleaves.  Steps end   *)
(* at the awaits that can suspend.                                           *)
(***************************************************************************)
EXTENDS Naturals, FiniteSets

CONSTANTS
    Entry,      \* config entries
    Busy,       \* those that may be reconfigured, have devices, await the start of
                \* Home Assistant, load some platforms and fail, and whose
                \* coordinators are refreshed and pushed to
    Coord,      \* the coordinator objects of an entry, used in turn
    MaxReloads, \* bound: reloads of one entry requested and not begun
    None

ASSUME EntryAssumption ==
    /\ IsFiniteSet(Entry) /\ IsFiniteSet(Coord) /\ Busy \subseteq Entry
    /\ None \notin Coord /\ MaxReloads \in Nat \ {0}

VARIABLES
    pc,         \* where the set-up or unload of an entry stands
    plan,       \* why the entry is cleaned up
    cur,        \* the coordinator of the entry, from set-up to clean-up
    co,         \* the coordinators of the entry
    runtime,    \* hass.data[DOMAIN] and entry.runtime_data
    entities,   \* coordinators that entities of the entry listen to and act on
    listeners,  \* coordinators whose update listener the entry holds
    start,      \* the listener for the start of Home Assistant and its job
    reloads,    \* reloads requested and not begun
    service,    \* the service refresh_devices is registered
    running     \* Home Assistant has started

vars == <<pc, plan, cur, co, runtime, entities, listeners, start,
          reloads, service, running>>
house == <<runtime, entities, listeners, start, service>>
requests == <<reloads, running>>

SettingUp == {"login", "fetch", "connect", "forward", "undo"}
CleaningUp == {"push", "tasks", "close"}

\* The stream, the tasks, the manager, the state (filled: it has devices), whether
\* async_setup has ended (known), whether the entry was set up with it (loaded),
\* and a refresh under way.
Coordinator ==
    [closed: BOOLEAN, push: BOOLEAN, discover: {"none", "running", "cancelled"},
     notify: BOOLEAN, manager: BOOLEAN, filled: BOOLEAN, known: BOOLEAN,
     loaded: BOOLEAN, refresh: BOOLEAN]

New == [closed |-> FALSE, push |-> FALSE, discover |-> "none",
        notify |-> FALSE, manager |-> FALSE, filled |-> FALSE,
        known |-> FALSE, loaded |-> FALSE, refresh |-> FALSE]

TypeOK ==
    /\ pc \in [Entry -> {"down", "loaded", "unload", "stuck"}
                          \cup SettingUp \cup CleaningUp]
    /\ plan \in [Entry -> {"retry", "unload"}]
    /\ cur \in [Entry -> Coord \cup {None}]
    /\ co \in [Entry -> [Coord -> Coordinator]]
    /\ runtime \in [Entry -> Coord \cup {None}]
    /\ entities \in [Entry -> SUBSET Coord]
    /\ listeners \in [Entry -> SUBSET Coord]
    /\ start \in [Entry -> {"none", "armed", "fired", "scheduled"}]
    /\ reloads \in [Entry -> 0..MaxReloads]
    /\ service \in BOOLEAN /\ running \in BOOLEAN
    /\ \A e \in Entry : cur[e] = None <=> pc[e] = "down"

Init ==
    /\ pc = [e \in Entry |-> "down"]
    /\ plan = [e \in Entry |-> "retry"]
    /\ cur = [e \in Entry |-> None]
    /\ co = [e \in Entry |-> [c \in Coord |-> New]]
    /\ runtime = [e \in Entry |-> None]
    /\ entities = [e \in Entry |-> {}]
    /\ listeners = [e \in Entry |-> {}]
    /\ start = [e \in Entry |-> "none"]
    /\ reloads = [e \in Entry |-> 0]
    /\ service = FALSE
    /\ running \in BOOLEAN
-----------------------------------------------------------------------------
(* Helpers.  *)

Works(c) == c.push \/ c.manager \/ c.discover # "none"
Quiet(c) == ~Works(c) /\ ~c.notify /\ ~c.refresh

\* An object that nobody refers to any more stands for a new one.
Free(e) == {c \in Coord : cur[e] # c /\ runtime[e] # c /\ c \notin entities[e]
                            /\ Quiet(co[e][c])}

\* One that was cleaned up and is quiet and empty is forgotten at once.
Kept(e, c, s) ==
    IF s.closed /\ Quiet(s) /\ ~s.filled /\ c \notin entities[e] THEN New ELSE s

Goes(e, to) == pc' = [pc EXCEPT ![e] = to]

\* The synchronous start of async_cleanup, up to the stop of the cloud push.
CleansUp(e) ==
    /\ co' = [co EXCEPT ![e][cur[e]].closed = TRUE]
    /\ Goes(e, "push")
    /\ UNCHANGED <<plan, cur>>

Served(rt) == \E e \in Entry : rt[e] # None

\* Mutant: the service goes with any entry.
ForgetsService(e) ==
    /\ runtime' = [runtime EXCEPT ![e] = None]
    /\ service' = FALSE

\* hass.data loses the entry; the service goes with the last one.
Forgets(e) ==
    /\ runtime' = [runtime EXCEPT ![e] = None]
    /\ service' = (service /\ Served(runtime'))
-----------------------------------------------------------------------------
(* async_setup_entry.  *)

\* Home Assistant sets the entry up, for the first time, again after a failure,
\* or because of a reload, with a new coordinator.
Setup(e) ==
    /\ pc[e] = "down"
    /\ Free(e) # {}
    /\ LET c == CHOOSE d \in Free(e) : TRUE
       IN /\ cur' = [cur EXCEPT ![e] = c]
          /\ co' = [co EXCEPT ![e] =
               [d \in Coord |-> IF d \in Free(e) THEN New ELSE @[d]]]
    /\ Goes(e, "login")
    /\ reloads' = [reloads EXCEPT ![e] = IF @ = 0 THEN 0 ELSE @ - 1]
    /\ UNCHANGED <<plan, house, running>>

LoggedIn(e) ==
    /\ pc[e] = "login"
    /\ Goes(e, "fetch")
    /\ UNCHANGED <<plan, cur, co, house, requests>>

\* The first snapshot; lock: it has a cloud lock and its credentials.
Fetched(e, devices, lock) ==
    /\ pc[e] = "fetch"
    /\ (lock => devices) /\ (devices => e \in Busy)
    /\ Goes(e, "connect")
    /\ co' = [co EXCEPT ![e][cur[e]].filled = devices, ![e][cur[e]].push = lock,
                        ![e][cur[e]].manager = TRUE]
    /\ UNCHANGED <<plan, cur, house, requests>>

\* The login or the first snapshot fails.
SetupFails(e) ==
    /\ pc[e] \in {"login", "fetch"}
    /\ CleansUp(e)
    /\ UNCHANGED <<house, requests>>

\* async_setup ends; the entry gets its update listener, its runtime data and
\* the service, and the platforms begin to load.
Connected(e) ==
    /\ pc[e] = "connect"
    /\ co' = [co EXCEPT ![e][cur[e]].discover = "running", ![e][cur[e]].known = TRUE]
    /\ listeners' = [listeners EXCEPT ![e] = @ \cup {cur[e]}]
    /\ runtime' = [runtime EXCEPT ![e] = cur[e]]
    /\ service' = TRUE
    /\ Goes(e, "forward")
    /\ UNCHANGED <<plan, cur, entities, start, requests>>

\* The platforms are loaded; areas are assigned now or when Home Assistant
\* has started.
Forwarded(e) ==
    /\ pc[e] = "forward"
    /\ entities' = [entities EXCEPT ![e] = @ \cup {cur[e]}]
    /\ co' = [co EXCEPT ![e][cur[e]].loaded = TRUE]
    /\ start' = [start EXCEPT ![e] = IF running \/ e \notin Busy THEN @ ELSE "armed"]
    /\ Goes(e, "loaded")
    /\ UNCHANGED <<plan, cur, runtime, listeners, service, requests>>

\* The registration of the devices, a platform or the assignment of areas raises,
\* before or after some platforms were loaded.
ForwardFails(e, some) ==
    /\ pc[e] = "forward"
    /\ some => e \in Busy
    /\ entities' = IF some THEN [entities EXCEPT ![e] = @ \cup {cur[e]}] ELSE entities
    /\ Goes(e, "undo")
    /\ UNCHANGED <<plan, cur, co, runtime, listeners, start, service, requests>>

\* Mutant: the coordinator is left alone.
UndoneWithoutCleanUp(e, remains) ==
    /\ pc[e] = "undo"
    /\ entities' = IF remains THEN entities ELSE [entities EXCEPT ![e] = {}]
    /\ listeners' = [listeners EXCEPT ![e] = @ \ {cur[e]}]
    /\ Forgets(e)
    /\ Goes(e, "down")
    /\ cur' = [cur EXCEPT ![e] = None]
    /\ UNCHANGED <<plan, co, start, requests>>

\* The platforms are unloaded, or entities remain: an exception is suppressed, and
\* nobody looks whether a platform refused.
Undone(e, remains) ==
    /\ pc[e] = "undo"
    /\ entities' = IF remains THEN entities ELSE [entities EXCEPT ![e] = {}]
    /\ listeners' = [listeners EXCEPT ![e] = @ \ {cur[e]}]
    /\ Forgets(e)
    /\ CleansUp(e)
    /\ UNCHANGED <<start, requests>>
-----------------------------------------------------------------------------
(* async_unload_entry.  *)

\* Home Assistant unloads the entry for good, or reloads it as its update
\* listener or the reauthentication asked.
Unload(e, reload) ==
    /\ pc[e] = "loaded"
    /\ reload => reloads[e] > 0
    /\ Goes(e, "unload")
    /\ plan' = [plan EXCEPT ![e] = "unload"]
    /\ reloads' = [reloads EXCEPT ![e] = IF reload THEN @ - 1 ELSE @]
    /\ UNCHANGED <<cur, co, house, running>>

\* A platform refuses: everything stays, and Home Assistant will not unload or
\* reload the entry any more.
UnloadRefused(e) ==
    /\ pc[e] = "unload"
    /\ Goes(e, "stuck")
    /\ UNCHANGED <<plan, cur, co, house, requests>>

\* Mutant: the unload goes on whether or not the platforms are gone.
PlatformsUnloadedOrNot(e) ==
    /\ pc[e] = "unload"
    /\ entities' \in {entities, [entities EXCEPT ![e] = {}]}
    /\ start' = [start EXCEPT ![e] = IF @ = "armed" THEN "none" ELSE @]
    /\ listeners' = [listeners EXCEPT ![e] = @ \ {cur[e]}]
    /\ CleansUp(e)
    /\ UNCHANGED <<runtime, service, requests>>

\* The platforms are gone; both listeners are removed before the clean-up.  The
\* start listener cannot be removed once it was fired.
PlatformsUnloaded(e) ==
    /\ pc[e] = "unload"
    /\ entities' = [entities EXCEPT ![e] = {}]
    /\ start' = [start EXCEPT ![e] = IF @ = "armed" THEN "none" ELSE @]
    /\ listeners' = [listeners EXCEPT ![e] = @ \ {cur[e]}]
    /\ CleansUp(e)
    /\ UNCHANGED <<runtime, service, requests>>
-----------------------------------------------------------------------------
(* async_cleanup.  *)

\* The cloud push has stopped; both tasks are taken from their fields and
\* cancelled.
PushStopped(e) ==
    /\ pc[e] = "push"
    /\ co' = [co EXCEPT ![e][cur[e]].push = FALSE, ![e][cur[e]].notify = FALSE,
                        ![e][cur[e]].discover = IF @ = "none" THEN @ ELSE "cancelled"]
    /\ Goes(e, "tasks")
    /\ UNCHANGED <<plan, cur, house, requests>>

\* The tasks have ended; the manager is taken, and closes its connections.
TasksEnded(e) ==
    /\ pc[e] = "tasks"
    /\ co' = [co EXCEPT ![e][cur[e]].discover = "none", ![e][cur[e]].manager = FALSE]
    /\ Goes(e, "close")
    /\ UNCHANGED <<plan, cur, house, requests>>

\* Mutant: the entry keeps its coordinator.
CleanedUpKeeping(e) ==
    /\ pc[e] = "close"
    /\ co' = [co EXCEPT ![e][cur[e]].filled = FALSE]
    /\ Forgets(e)
    /\ Goes(e, "down")
    /\ UNCHANGED <<plan, cur, entities, listeners, start, requests>>

\* The connections are closed and the state is cleared.  An unloaded entry
\* leaves hass.data now, one that failed to load has left it before.
CleanedUp(e) ==
    /\ pc[e] = "close"
    /\ co' = [co EXCEPT ![e][cur[e]] = Kept(e, cur[e], [@ EXCEPT !.filled = FALSE])]
    /\ IF plan[e] = "unload" THEN Forgets(e) ELSE UNCHANGED <<runtime, service>>
    /\ Goes(e, "down")
    /\ plan' = [plan EXCEPT ![e] = "retry"]
    /\ cur' = [cur EXCEPT ![e] = None]
    /\ UNCHANGED <<entities, listeners, start, requests>>
-----------------------------------------------------------------------------
(* What runs beside the set-ups and unloads.  *)

Steps(e, c, s) ==
    /\ co' = [co EXCEPT ![e][c] = IF cur[e] = c THEN s ELSE Kept(e, c, s)]
    /\ UNCHANGED <<pc, plan, cur, house, requests>>

\* Entities and the service ask for refreshes, at once or debounced, from the
\* set-up of the platforms until Home Assistant has seen the end of the unload;
\* entities that a failed set-up left ask for refreshes of their coordinator.
StartRefresh(e, c) ==
    /\ e \in Busy /\ (cur[e] = c \/ c \in entities[e])
    /\ co[e][c].known /\ ~co[e][c].refresh
    /\ Steps(e, c, [co[e][c] EXCEPT !.refresh = TRUE])

\* Mutant: nobody looks whether the coordinator is closed.
RefreshEndsRegardless(e, c, devices, lock) ==
    /\ co[e][c].refresh
    /\ lock => devices
    /\ Steps(e, c, [co[e][c] EXCEPT !.filled = devices, !.push = lock, !.refresh = FALSE])

\* The snapshot is merged whether or not the coordinator was cleaned up
\* meanwhile; a closed one starts no cloud push.
RefreshEnds(e, c, devices, lock) ==
    /\ co[e][c].refresh
    /\ lock => devices
    /\ Steps(e, c, [co[e][c] EXCEPT !.filled = devices,
                              !.push = IF co[e][c].closed THEN @ ELSE lock,
                              !.refresh = FALSE])

RefreshFails(e, c) ==
    /\ co[e][c].refresh
    /\ Steps(e, c, [co[e][c] EXCEPT !.refresh = FALSE])

\* A managed connection delivers the state of a known device, until the manager
\* has closed it; the publication is debounced.
LanPush(e) ==
    /\ e \in Busy /\ cur[e] # None
    /\ co[e][cur[e]].manager \/ pc[e] = "close"
    /\ co[e][cur[e]].filled
    /\ Steps(e, cur[e], [co[e][cur[e]] EXCEPT !.notify = TRUE])

DebounceEnds(e, c) ==
    /\ co[e][c].notify
    /\ Steps(e, c, [co[e][c] EXCEPT !.notify = FALSE])

\* The options flow changes the entry, which calls its update listeners; the
\* reauthentication reloads the entry besides.
Reconfigure(e, reauth) ==
    LET asked == Cardinality(listeners[e]) + (IF reauth THEN 1 ELSE 0)
    IN /\ e \in Busy
       /\ reloads[e] + asked <= MaxReloads
       /\ reloads' = [reloads EXCEPT ![e] = @ + asked]
       /\ UNCHANGED <<pc, plan, cur, co, house, running>>

\* Home Assistant starts and fires the listeners, which run in a thread ...
Started ==
    /\ ~running
    /\ running' = TRUE
    /\ start' = [e \in Entry |-> IF start[e] = "armed" THEN "fired" ELSE start[e]]
    /\ UNCHANGED <<pc, plan, cur, co, runtime, entities, listeners,
                   reloads, service>>

\* ... and leave the assignment of areas to the event loop, where
AreasScheduled(e) ==
    /\ start[e] = "fired"
    /\ start' = [start EXCEPT ![e] = "scheduled"]
    /\ UNCHANGED <<pc, plan, cur, co, runtime, entities, listeners, service, requests>>

\* it uses the runtime data of the entry, and fails if there is none.
AreasAssigned(e) ==
    /\ start[e] = "scheduled"
    /\ start' = [start EXCEPT ![e] = "none"]
    /\ UNCHANGED <<pc, plan, cur, co, runtime, entities, listeners, service, requests>>
-----------------------------------------------------------------------------
Progress(e) ==
    \/ LoggedIn(e)
    \/ \E devices, lock \in BOOLEAN : Fetched(e, devices, lock)
    \/ SetupFails(e)
    \/ Connected(e)
    \/ Forwarded(e)
    \/ \E some \in BOOLEAN : ForwardFails(e, some)
    \/ \E remains \in BOOLEAN : Undone(e, remains)
    \/ UnloadRefused(e)
    \/ PlatformsUnloaded(e)
    \/ PushStopped(e)
    \/ TasksEnded(e)
    \/ CleanedUp(e)

Background(e, c) ==
    \/ \E devices, lock \in BOOLEAN : RefreshEnds(e, c, devices, lock)
    \/ RefreshFails(e, c)

Next ==
    \/ \E e \in Entry :
         \/ Setup(e)
         \/ Progress(e)
         \/ \E reload \in BOOLEAN : Unload(e, reload)
         \/ LanPush(e)
         \/ \E reauth \in BOOLEAN : Reconfigure(e, reauth)
         \/ AreasScheduled(e)
         \/ AreasAssigned(e)
         \/ \E c \in Coord : StartRefresh(e, c) \/ Background(e, c) \/ DebounceEnds(e, c)
    \/ Started

Spec == Init /\ [][Next]_vars

-----------------------------------------------------------------------------
(* Properties.  *)

\* Whatever has run for an entry, a coordinator with a cloud stream, a discovery
\* task, a manager or a connection belongs to a set-up, a loaded entry or a
\* clean-up under way: failed set-ups and unloads leave nothing behind
\* (async_setup_entry, async_cleanup).
NoOrphanCoordinator ==
    \A e \in Entry, c \in Coord : Works(co[e][c]) => cur[e] = c

\* In whatever order the entries come, fail and go, the service exists exactly
\* while some entry is in hass.data (_register_services,
\* _unregister_services_if_unused); each entry has at most one update listener,
\* and none before it is registered or after its removal began, so that one change
\* causes one reload, and the start listener is gone by then too.  The coordinator
\* that entities use is the one in runtime_data, and neither it nor its manager is
\* closed, except for entities of a set-up that failed: its undo ignores a failed
\* unload of the platforms, and closes the coordinator of the entities that remain
\* (__init__.py:204-221).  Once a set-up has succeeded, no unload closes the
\* coordinator while entities use it (async_unload_entry).
RegistrationsFollowLoad ==
    /\ service <=> Served(runtime)
    /\ \A e \in Entry :
         /\ listeners[e] \subseteq {cur[e]}
         /\ pc[e] \notin {"forward", "undo", "loaded", "unload", "stuck"}
              => listeners[e] = {} /\ start[e] # "armed"
         /\ \A c \in entities[e] :
              \/ c = cur[e] /\ c = runtime[e] /\ ~co[e][c].closed /\ co[e][c].manager
              \/ co[e][c].closed /\ ~co[e][c].loaded

\* A closed coordinator never starts a stream, a discovery task or a manager
\* again, not even through a refresh that began before; and when its clean-up has
\* returned, it starts nothing at all, but for the refreshes that entities ask for
\* which a failed set-up has left (async_cleanup, _configure_cloud_push).
ClosedStartsNothing ==
    [][\A e \in Entry, c \in Coord :
        LET old == co[e][c]  new == co'[e][c]
        IN old.closed /\ new.closed =>
             /\ new.push => old.push
             /\ new.manager => old.manager
             /\ new.discover = "running" => old.discover = "running"
             /\ cur[e] # c =>
                  /\ new.notify => old.notify
                  /\ new.refresh => old.refresh \/ (c \in entities[e] /\ ~old.loaded)]_vars

=============================================================================
