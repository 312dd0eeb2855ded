------------------------ MODULE EntryLifecycleProofs ------------------------
(***************************************************************************)
(* TLAPS proofs about EntryLifecycle, for any entries, any number of        *)
(* coordinator objects and any number of reloads: nothing survives the      *)
(* entry it was set up for, registrations follow the load state, and a      *)
(* closed coordinator starts nothing.                                       *)
(***************************************************************************)
EXTENDS EntryLifecycle, FiniteSetTheorems, TLAPS

Registered == {"forward", "undo", "loaded", "unload", "stuck"}
WithPlatforms == {"loaded", "unload", "stuck"}
Places == {"down", "loaded", "unload", "stuck"} \cup SettingUp \cup CleaningUp

\* What an entry has registered where its set-up or unload stands.  Only the
\* clean-up of an unload still has its runtime data.
HouseOf(e) ==
    /\ listeners[e] = IF pc[e] \in Registered THEN {cur[e]} ELSE {}
    /\ runtime[e] = IF pc[e] \in Registered \/ (pc[e] \in CleaningUp /\ plan[e] = "unload")
                    THEN cur[e] ELSE None
    /\ start[e] = "armed" => pc[e] \in WithPlatforms
    /\ pc[e] \in {"unload", "stuck"} => plan[e] = "unload"
    /\ plan[e] = "unload" => pc[e] \in {"unload", "stuck"} \cup CleaningUp

\* Where an entry may have entities of its present coordinator, and where its
\* set-up with it has succeeded.
HasEntities(p, why) ==
    p \in WithPlatforms \cup {"undo"} \/ (p \in CleaningUp /\ why = "retry")
IsLoaded(p, why) == p \in WithPlatforms \/ (p \in CleaningUp /\ why = "unload")

\* The other coordinators with entities are those of set-ups that failed.
EntitiesOf(e) ==
    /\ cur[e] \in entities[e] => HasEntities(pc[e], plan[e])
    /\ \A c \in Coord :
         /\ c \in entities[e] /\ c # cur[e] => co[e][c].closed /\ ~co[e][c].loaded
         /\ c = cur[e] /\ co[e][c].loaded => IsLoaded(pc[e], plan[e])

\* What its coordinators have: the present one is closed from the start of its
\* clean-up, which takes the stream, the tasks and the manager from it one after
\* the other; of the others only a refresh that overlapped their clean-up can be
\* left, and that finds them closed.
CoordinatorsOf(e) ==
    \A c \in Coord :
        LET k == co[e][c]
        IN  /\ cur[e] # c => ~Works(k) /\ (k.refresh => k.closed)
            /\ cur[e] = c =>
                 /\ (k.closed <=> pc[e] \in CleaningUp)
                 /\ pc[e] \in Registered \cup {"connect"} => k.manager
                 /\ pc[e] \in {"tasks", "close"} => ~k.push
                 /\ pc[e] = "close" => ~k.manager /\ k.discover = "none"

Inv ==
    /\ TypeOK
    /\ \A e \in Entry : HouseOf(e) /\ CoordinatorsOf(e) /\ EntitiesOf(e)
    /\ service = Served(runtime)
-----------------------------------------------------------------------------
(* A step of one entry.  *)

\* Nothing of entry f changes but the start of Home Assistant passing it by.
Same(f) ==
    /\ pc'[f] = pc[f] /\ plan'[f] = plan[f] /\ cur'[f] = cur[f] /\ co'[f] = co[f]
    /\ runtime'[f] = runtime[f] /\ entities'[f] = entities[f]
    /\ listeners'[f] = listeners[f]
    /\ start'[f] = start[f] \/ start'[f] # "armed"

LEMMA SameKeeps ==
    ASSUME NEW f \in Entry, Same(f), HouseOf(f), CoordinatorsOf(f), EntitiesOf(f)
    PROVE  HouseOf(f)' /\ CoordinatorsOf(f)' /\ EntitiesOf(f)'
<1>1. HouseOf(f)'
  BY DEF Same, HouseOf
<1>2. CoordinatorsOf(f)'
  BY DEF Same, CoordinatorsOf
<1>3. EntitiesOf(f)'
  BY DEF Same, EntitiesOf, HasEntities, IsLoaded
<1>4. QED
  BY <1>1, <1>2, <1>3

LEMMA OneEntryMoves ==
    ASSUME Inv, NEW e \in Entry, TypeOK', \A f \in Entry \ {e} : Same(f),
           HouseOf(e)', CoordinatorsOf(e)', EntitiesOf(e)', service' = Served(runtime')
    PROVE  Inv'
<1>1. ASSUME NEW f \in Entry PROVE HouseOf(f)' /\ CoordinatorsOf(f)' /\ EntitiesOf(f)'
  BY SameKeeps DEF Inv
<1>2. Served(runtime)' = Served(runtime')
  BY DEF Served
<1>3. QED
  BY <1>1, <1>2 DEF Inv

\* What a step that takes entry e to a place does to pc, cur and co, whatever it
\* does to the registrations.
MovedTo(e, to) ==
    /\ pc' \in [Entry -> Places] /\ pc'[e] = to
    /\ \A f \in Entry \ {e} : pc'[f] = pc[f] /\ co'[f] = co[f] /\ cur'[f] = cur[f]
    /\ co' \in [Entry -> [Coord -> Coordinator]]
    /\ \A d \in Coord \ {cur[e]} : co'[e][d] = co[e][d]
    /\ co'[e][cur[e]].loaded => co[e][cur[e]].loaded \/ to = "loaded"
    /\ cur' \in [Entry -> Coord \cup {None}]
    /\ \A f \in Entry : cur'[f] = None <=> pc'[f] = "down"
    /\ CoordinatorsOf(e)'

\* A step that moves the entry on and leaves its coordinators alone.
LEMMA MovesOn ==
    ASSUME Inv, NEW e \in Entry, NEW to \in Places \ {"down"}, pc[e] # "down",
           Goes(e, to), UNCHANGED <<cur, co>>,
           pc[e] \in CleaningUp <=> to \in CleaningUp,
           to \in Registered \cup {"connect"} => pc[e] \in Registered \cup {"connect"},
           to \in {"tasks", "close"} => pc[e] = to
    PROVE  MovedTo(e, to)
<1>1. /\ pc' \in [Entry -> Places] /\ pc'[e] = to
      /\ \A f \in Entry \ {e} : pc'[f] = pc[f]
  BY DEF Goes, Inv, TypeOK, Places
<1>2. CoordinatorsOf(e)'
  BY <1>1 DEF Inv, CoordinatorsOf
<1>3. \A f \in Entry : cur'[f] = None <=> pc'[f] = "down"
  BY <1>1 DEF Inv, TypeOK
<1>4. QED
  BY <1>1, <1>2, <1>3 DEF MovedTo, Inv, TypeOK

\* The coordinators but for c of entry e, which becomes k.
Becomes(e, c, k) ==
    /\ co' \in [Entry -> [Coord -> Coordinator]]
    /\ co'[e][c] = k
    /\ \A d \in Coord \ {c} : co'[e][d] = co[e][d]
    /\ \A f \in Entry \ {e} : co'[f] = co[f]

LEMMA ExceptBecomes ==
    ASSUME Inv, NEW e \in Entry, NEW c \in Coord, NEW k \in Coordinator,
           co' = [co EXCEPT ![e][c] = k]
    PROVE  Becomes(e, c, k)
BY DEF Inv, TypeOK, Becomes

\* An entry that is not down has a coordinator, closed in a clean-up.
LEMMA Present ==
    ASSUME Inv, NEW e \in Entry, pc[e] # "down"
    PROVE  /\ cur[e] \in Coord /\ co[e][cur[e]] \in Coordinator
           /\ co[e][cur[e]].closed <=> pc[e] \in CleaningUp
           /\ pc[e] \in Registered \cup {"connect"} => co[e][cur[e]].manager
           /\ pc[e] \in {"tasks", "close"} => ~co[e][cur[e]].push
           /\ pc[e] = "close" => ~co[e][cur[e]].manager /\ co[e][cur[e]].discover = "none"
<1>1. cur[e] \in Coord /\ co[e][cur[e]] \in Coordinator
  BY DEF Inv, TypeOK
<1>2. CoordinatorsOf(e)
  BY DEF Inv
<1>3. QED
  BY <1>1, <1>2 DEF CoordinatorsOf

\* A step that moves the entry on and changes its present coordinator.
LEMMA MovesWith ==
    ASSUME Inv, NEW e \in Entry, NEW to \in Places \ {"down"}, pc[e] # "down",
           Goes(e, to), UNCHANGED cur, NEW k \in Coordinator, Becomes(e, cur[e], k),
           k.closed <=> to \in CleaningUp,
           to \in Registered \cup {"connect"} => k.manager,
           to \in {"tasks", "close"} => ~k.push,
           to = "close" => ~k.manager /\ k.discover = "none",
           k.loaded => co[e][cur[e]].loaded \/ to = "loaded"
    PROVE  MovedTo(e, to)
<1>1. /\ pc' \in [Entry -> Places] /\ pc'[e] = to
      /\ \A f \in Entry \ {e} : pc'[f] = pc[f]
  BY DEF Goes, Inv, TypeOK, Places
<1>2. CoordinatorsOf(e)'
  BY <1>1, Present DEF Inv, CoordinatorsOf, Becomes
<1>3. \A f \in Entry : cur'[f] = None <=> pc'[f] = "down"
  BY <1>1 DEF Inv, TypeOK
<1>4. QED
  BY <1>1, <1>2, <1>3 DEF MovedTo, Inv, TypeOK, Becomes

\* A step that moves the entry on and gives its coordinator no entities.
LEMMA MovedEntities ==
    ASSUME Inv, NEW e \in Entry, NEW to, MovedTo(e, to), cur'[e] = cur[e], pc[e] # "down",
           entities'[e] \subseteq entities[e], to # "loaded",
           cur[e] \in entities'[e] /\ HasEntities(pc[e], plan[e]) => HasEntities(to, plan'[e]),
           IsLoaded(pc[e], plan[e]) => IsLoaded(to, plan'[e])
    PROVE  EntitiesOf(e)'
<1>1. EntitiesOf(e) /\ cur[e] \in Coord /\ pc'[e] = to
  BY Present DEF Inv, MovedTo
<1>2. cur'[e] \in entities'[e] => HasEntities(to, plan'[e])
  BY <1>1 DEF EntitiesOf
<1>3. ASSUME NEW c \in Coord, c \in entities'[e], c # cur[e]
      PROVE  co'[e][c].closed /\ ~co'[e][c].loaded
  BY <1>1, <1>3 DEF EntitiesOf, MovedTo
<1>4. co'[e][cur[e]].loaded => IsLoaded(to, plan'[e])
  BY <1>1 DEF EntitiesOf, MovedTo
<1>5. QED
  BY <1>1, <1>2, <1>3, <1>4 DEF EntitiesOf, HasEntities, IsLoaded

\* The start of a clean-up closes the present coordinator.
LEMMA CleansUpMoves ==
    ASSUME Inv, NEW e \in Entry, pc[e] # "down", CleansUp(e)
    PROVE  MovedTo(e, "push") /\ UNCHANGED <<plan, cur>>
<1> DEFINE k == [co[e][cur[e]] EXCEPT !.closed = TRUE]
<1>1. k \in Coordinator /\ k.closed /\ k.loaded = co[e][cur[e]].loaded
  <2>1. co[e][cur[e]] \in Coordinator
    BY Present
  <2>2. QED
    BY <2>1 DEF Coordinator
<1>2. co' = [co EXCEPT ![e][cur[e]] = k]
  BY DEF CleansUp
<1> HIDE DEF k
<1>3. Becomes(e, cur[e], k)
  BY <1>1, <1>2, Present, ExceptBecomes
<1>4. /\ "push" \in Places \ {"down"} /\ "push" \in CleaningUp
      /\ "push" \notin Registered \cup {"connect"}
  BY DEF Places, CleaningUp, Registered
<1>5. MovedTo(e, "push")
  BY <1>1, <1>3, <1>4, MovesWith DEF CleansUp
<1>6. QED
  BY <1>5 DEF CleansUp

LEMMA LoggedInKeeps ==
    ASSUME Inv, NEW e \in Entry, LoggedIn(e)
    PROVE  Inv'
<1>1. MovedTo(e, "fetch")
  BY MovesOn DEF LoggedIn, Registered, CleaningUp, SettingUp, Places
<1>2a. TypeOK'
  BY <1>1 DEF MovedTo, LoggedIn, Inv, TypeOK, Places, house, requests, Registered,
              WithPlatforms, CleaningUp, SettingUp
<1>2b. HouseOf(e)'
  BY <1>1 DEF MovedTo, LoggedIn, Inv, TypeOK, HouseOf, Places, house, requests,
              Registered, WithPlatforms, CleaningUp, SettingUp
<1>2c. \A f \in Entry \ {e} : Same(f)
  BY <1>1 DEF MovedTo, LoggedIn, Inv, TypeOK, Same, house, requests
<1>3. service' = Served(runtime')
  BY DEF LoggedIn, house, Inv
<1>4. EntitiesOf(e)'
  BY <1>1, MovedEntities
     DEF MovedTo, LoggedIn, Inv, HouseOf, HasEntities, IsLoaded, WithPlatforms,
         Registered, CleaningUp, SettingUp, house, TypeOK
<1>5. QED
  BY <1>4, <1>1, <1>2a, <1>2b, <1>2c, <1>3, OneEntryMoves DEF MovedTo

LEMMA FetchedKeeps ==
    ASSUME Inv, NEW e \in Entry, NEW devices \in BOOLEAN, NEW lock \in BOOLEAN,
           Fetched(e, devices, lock)
    PROVE  Inv'
<1> DEFINE k == [co[e][cur[e]] EXCEPT !.filled = devices, !.push = lock, !.manager = TRUE]
<1>1. cur[e] \in Coord /\ co[e][cur[e]] \in Coordinator /\ ~co[e][cur[e]].closed
  BY Present DEF Fetched, CleaningUp
<1>2. k \in Coordinator /\ ~k.closed /\ k.manager /\ k.loaded = co[e][cur[e]].loaded
  <2>1. co[e][cur[e]] \in Coordinator /\ ~co[e][cur[e]].closed
    BY <1>1
  <2>2. QED
    BY <2>1 DEF Coordinator
<1>3. co' = [co EXCEPT ![e][cur[e]] = k]
  BY DEF Fetched
<1> HIDE DEF k
<1>4. MovedTo(e, "connect")
  <2>1. Becomes(e, cur[e], k)
    BY <1>1, <1>2, <1>3, ExceptBecomes
  <2>2. "connect" \in Places \ {"down"} /\ "connect" \notin CleaningUp
    BY DEF Places, SettingUp, CleaningUp
  <2>3. QED
    BY <1>2, <2>1, <2>2, MovesWith DEF Fetched
<1>5a. TypeOK'
  BY <1>4 DEF MovedTo, Fetched, Inv, TypeOK, Places, house, requests, Registered,
              WithPlatforms, CleaningUp, SettingUp
<1>5b. HouseOf(e)'
  BY <1>4 DEF MovedTo, Fetched, Inv, TypeOK, HouseOf, Places, house, requests,
              Registered, WithPlatforms, CleaningUp, SettingUp
<1>5c. \A f \in Entry \ {e} : Same(f)
  BY <1>4 DEF MovedTo, Fetched, Inv, TypeOK, Same, house, requests
<1>6. service' = Served(runtime')
  BY DEF Fetched, house, Inv
<1>7. EntitiesOf(e)'
  BY <1>4, MovedEntities
     DEF MovedTo, Fetched, Inv, HouseOf, HasEntities, IsLoaded, WithPlatforms,
         Registered, CleaningUp, SettingUp, house, TypeOK
<1>8. QED
  BY <1>7, <1>4, <1>5a, <1>5b, <1>5c, <1>6, OneEntryMoves DEF MovedTo

LEMMA SetupFailsKeeps ==
    ASSUME Inv, NEW e \in Entry, SetupFails(e)
    PROVE  Inv'
<1>1. MovedTo(e, "push") /\ UNCHANGED <<plan, cur>>
  BY CleansUpMoves DEF SetupFails
<1>2a. TypeOK'
  BY <1>1 DEF MovedTo, SetupFails, Inv, TypeOK, Places, house, requests, Registered,
              WithPlatforms, CleaningUp, SettingUp
<1>2b. HouseOf(e)'
  BY <1>1 DEF MovedTo, SetupFails, Inv, TypeOK, HouseOf, Places, house, requests,
              Registered, WithPlatforms, CleaningUp, SettingUp
<1>2c. \A f \in Entry \ {e} : Same(f)
  BY <1>1 DEF MovedTo, SetupFails, Inv, TypeOK, Same, house, requests
<1>3. service' = Served(runtime')
  BY DEF SetupFails, house, Inv
<1>4. EntitiesOf(e)'
  BY <1>1, MovedEntities
     DEF MovedTo, SetupFails, Inv, HouseOf, HasEntities, IsLoaded, WithPlatforms,
         Registered, CleaningUp, SettingUp, house, TypeOK
<1>5. QED
  BY <1>4, <1>1, <1>2a, <1>2b, <1>2c, <1>3, OneEntryMoves DEF MovedTo

LEMMA ConnectedKeeps ==
    ASSUME Inv, NEW e \in Entry, Connected(e)
    PROVE  Inv'
<1> DEFINE k == [co[e][cur[e]] EXCEPT !.discover = "running", !.known = TRUE]
<1>1. /\ cur[e] \in Coord /\ co[e][cur[e]] \in Coordinator
      /\ ~co[e][cur[e]].closed /\ co[e][cur[e]].manager
  BY Present DEF Connected, CleaningUp
<1>2. k \in Coordinator /\ ~k.closed /\ k.manager /\ k.loaded = co[e][cur[e]].loaded
  BY <1>1 DEF Coordinator
<1>3. co' = [co EXCEPT ![e][cur[e]] = k]
  BY DEF Connected
<1> HIDE DEF k
<1>4. MovedTo(e, "forward")
  <2>1. Becomes(e, cur[e], k)
    BY <1>1, <1>2, <1>3, ExceptBecomes
  <2>2. "forward" \in Places \ {"down"} /\ "forward" \notin CleaningUp
    BY DEF Places, SettingUp, CleaningUp
  <2>3. QED
    BY <1>2, <2>1, <2>2, MovesWith DEF Connected
<1>5. runtime'[e] = cur[e] /\ listeners'[e] = {cur[e]}
  BY DEF Connected, Inv, TypeOK, HouseOf, Registered
<1>6a. TypeOK'
  BY <1>1, <1>4, <1>5 DEF MovedTo, Connected, Inv, TypeOK, Places, requests, Registered,
              WithPlatforms, CleaningUp, SettingUp
<1>6b. HouseOf(e)'
  BY <1>1, <1>4, <1>5 DEF MovedTo, Connected, Inv, TypeOK, HouseOf, Places, requests,
              Registered, WithPlatforms, CleaningUp, SettingUp
<1>6c. \A f \in Entry \ {e} : Same(f)
  BY <1>1, <1>4, <1>5 DEF MovedTo, Connected, Inv, TypeOK, Same, requests
<1>7. service' = Served(runtime')
  BY <1>1, <1>5, EntryAssumption DEF Connected, Served
<1>8. EntitiesOf(e)'
  BY <1>4, MovedEntities
     DEF MovedTo, Connected, Inv, HouseOf, HasEntities, IsLoaded, WithPlatforms,
         Registered, CleaningUp, SettingUp, house, TypeOK
<1>9. QED
  BY <1>8, <1>4, <1>6a, <1>6b, <1>6c, <1>7, OneEntryMoves DEF MovedTo

LEMMA ForwardedKeeps ==
    ASSUME Inv, NEW e \in Entry, Forwarded(e)
    PROVE  Inv'
<1> DEFINE k == [co[e][cur[e]] EXCEPT !.loaded = TRUE]
<1>1. /\ cur[e] \in Coord /\ co[e][cur[e]] \in Coordinator
      /\ ~co[e][cur[e]].closed /\ co[e][cur[e]].manager
  BY Present DEF Forwarded, CleaningUp, Registered
<1>2. k \in Coordinator /\ ~k.closed /\ k.manager
  BY <1>1 DEF Coordinator
<1>3. co' = [co EXCEPT ![e][cur[e]] = k]
  BY DEF Forwarded
<1> HIDE DEF k
<1>4. MovedTo(e, "loaded")
  <2>1. Becomes(e, cur[e], k)
    BY <1>1, <1>2, <1>3, ExceptBecomes
  <2>2. "loaded" \in Places \ {"down"} /\ "loaded" \notin CleaningUp
    BY DEF Places, CleaningUp
  <2>3. QED
    BY <1>2, <2>1, <2>2, MovesWith DEF Forwarded
<1>5. TypeOK'
  BY <1>1, <1>4 DEF MovedTo, Forwarded, Inv, TypeOK, Places, requests, Registered,
                    WithPlatforms, CleaningUp, SettingUp
<1>6. HouseOf(e)'
  <2>1. /\ pc[e] = "forward" /\ pc'[e] = "loaded" /\ HouseOf(e)
        /\ UNCHANGED <<plan, cur, runtime, listeners>>
    BY <1>4 DEF MovedTo, Forwarded, Inv
  <2>2. QED
    BY <2>1 DEF HouseOf, Registered, WithPlatforms, CleaningUp
<1>7. EntitiesOf(e)'
  <2>1. /\ cur' = cur /\ plan' = plan /\ pc'[e] = "loaded"
        /\ entities'[e] = entities[e] \cup {cur[e]}
        /\ \A d \in Coord \ {cur[e]} : co'[e][d] = co[e][d]
    BY <1>4 DEF MovedTo, Forwarded, Inv, TypeOK
  <2>2. EntitiesOf(e)
    BY DEF Inv
  <2>3. QED
    BY <2>1, <2>2 DEF EntitiesOf, HasEntities, IsLoaded, WithPlatforms
<1>8. \A f \in Entry \ {e} : Same(f)
  BY <1>4 DEF MovedTo, Forwarded, Inv, TypeOK, Same, requests
<1>9. service' = Served(runtime')
  BY DEF Forwarded, Inv
<1>10. QED
  BY <1>4, <1>5, <1>6, <1>7, <1>8, <1>9, OneEntryMoves DEF MovedTo

LEMMA ForwardFailsKeeps ==
    ASSUME Inv, NEW e \in Entry, NEW some \in BOOLEAN, ForwardFails(e, some)
    PROVE  Inv'
<1>1. MovedTo(e, "undo")
  BY MovesOn DEF ForwardFails, Registered, CleaningUp, SettingUp, Places
<1>2. /\ pc[e] = "forward" /\ pc'[e] = "undo" /\ cur[e] \in Coord
      /\ UNCHANGED <<plan, cur, co, runtime, listeners, start, service, requests>>
      /\ entities' \in [Entry -> SUBSET Coord]
      /\ entities'[e] \subseteq entities[e] \cup {cur[e]}
      /\ \A f \in Entry \ {e} : entities'[f] = entities[f]
  BY <1>1, Present DEF MovedTo, ForwardFails, Inv, TypeOK
<1>3. TypeOK'
  BY <1>1, <1>2 DEF MovedTo, Inv, TypeOK, Places, requests
<1>4. HouseOf(e)'
  BY <1>2 DEF Inv, HouseOf, Registered, WithPlatforms, CleaningUp
<1>5. EntitiesOf(e)'
  <2>1. EntitiesOf(e)
    BY DEF Inv
  <2>2. QED
    BY <1>2, <2>1 DEF EntitiesOf, HasEntities, IsLoaded, WithPlatforms, CleaningUp
<1>6. \A f \in Entry \ {e} : Same(f)
  BY <1>1, <1>2 DEF MovedTo, Same
<1>7. service' = Served(runtime')
  BY <1>2 DEF Inv
<1>8. QED
  BY <1>1, <1>3, <1>4, <1>5, <1>6, <1>7, OneEntryMoves DEF MovedTo

\* The service goes exactly with the last entry of hass.data.
LEMMA ForgetsServes ==
    ASSUME Inv, NEW e \in Entry, Forgets(e)
    PROVE  service' = Served(runtime')
BY DEF Inv, TypeOK, Forgets, Served

LEMMA UndoneKeeps ==
    ASSUME Inv, NEW e \in Entry, NEW remains \in BOOLEAN, Undone(e, remains)
    PROVE  Inv'
<1>1. MovedTo(e, "push") /\ UNCHANGED <<plan, cur>>
  BY CleansUpMoves DEF Undone
<1>2. service' = Served(runtime')
  BY ForgetsServes DEF Undone
<1>3. service' \in BOOLEAN
  BY <1>2 DEF Served
<1>4. listeners'[e] = {} /\ runtime'[e] = None
  BY DEF Undone, Forgets, Inv, TypeOK, HouseOf, Registered
<1>5a. TypeOK'
  BY <1>1, <1>3, <1>4 DEF MovedTo, Undone, Forgets, Inv, TypeOK, Places, requests,
              Registered, WithPlatforms, CleaningUp, SettingUp
<1>5b. HouseOf(e)'
  BY <1>1, <1>3, <1>4 DEF MovedTo, Undone, Forgets, Inv, TypeOK, HouseOf, Places,
              requests, Registered, WithPlatforms, CleaningUp, SettingUp
<1>5c. \A f \in Entry \ {e} : Same(f)
  BY <1>1, <1>3, <1>4 DEF MovedTo, Undone, Forgets, Inv, TypeOK, Same, requests
<1>6. EntitiesOf(e)'
  <2>1. /\ pc[e] = "undo" /\ plan[e] = "retry" /\ plan' = plan
        /\ entities'[e] \subseteq entities[e]
    BY <1>1 DEF Undone, Inv, TypeOK, HouseOf, CleaningUp
  <2>2. /\ ~IsLoaded("undo", plan[e]) /\ HasEntities("push", plan[e])
        /\ pc[e] # "down" /\ "push" # "loaded"
    BY <2>1 DEF IsLoaded, HasEntities, WithPlatforms, CleaningUp
  <2>3. QED
    BY <1>1, <2>1, <2>2, MovedEntities
<1>7. QED
  BY <1>6, <1>1, <1>2, <1>5a, <1>5b, <1>5c, OneEntryMoves DEF MovedTo

LEMMA UnloadKeeps ==
    ASSUME Inv, NEW e \in Entry, NEW reload \in BOOLEAN, Unload(e, reload)
    PROVE  Inv'
<1>1. MovedTo(e, "unload")
  BY MovesOn DEF Unload, Registered, CleaningUp, SettingUp, Places
<1>2. reloads' \in [Entry -> 0..MaxReloads]
  BY EntryAssumption DEF Unload, Inv, TypeOK
<1>3. TypeOK'
  BY <1>1, <1>2 DEF MovedTo, Unload, Inv, TypeOK, Places, house
<1>4. HouseOf(e)'
  BY <1>1 DEF MovedTo, Unload, Inv, TypeOK, HouseOf, house, Registered, WithPlatforms,
              CleaningUp
<1>5. \A f \in Entry \ {e} : Same(f)
  BY <1>1 DEF MovedTo, Unload, Inv, TypeOK, Same, house
<1>6. service' = Served(runtime')
  BY DEF Unload, house, Inv
<1>7. EntitiesOf(e)'
  BY <1>1, MovedEntities
     DEF MovedTo, Unload, Inv, HouseOf, HasEntities, IsLoaded, WithPlatforms,
         Registered, CleaningUp, SettingUp, house, TypeOK
<1>8. QED
  BY <1>7, <1>1, <1>3, <1>4, <1>5, <1>6, OneEntryMoves DEF MovedTo

LEMMA UnloadRefusedKeeps ==
    ASSUME Inv, NEW e \in Entry, UnloadRefused(e)
    PROVE  Inv'
<1>1. MovedTo(e, "stuck")
  BY MovesOn DEF UnloadRefused, Registered, CleaningUp, SettingUp, Places
<1>2. TypeOK'
  BY <1>1 DEF MovedTo, UnloadRefused, Inv, TypeOK, Places, house, requests
<1>3. HouseOf(e)'
  BY <1>1 DEF MovedTo, UnloadRefused, Inv, TypeOK, HouseOf, house, Registered,
              WithPlatforms, CleaningUp
<1>4. \A f \in Entry \ {e} : Same(f)
  BY <1>1 DEF MovedTo, UnloadRefused, Inv, TypeOK, Same, house
<1>5. service' = Served(runtime')
  BY DEF UnloadRefused, house, Inv
<1>6. EntitiesOf(e)'
  BY <1>1, MovedEntities
     DEF MovedTo, UnloadRefused, Inv, HouseOf, HasEntities, IsLoaded, WithPlatforms,
         Registered, CleaningUp, SettingUp, house, TypeOK
<1>7. QED
  BY <1>6, <1>1, <1>2, <1>3, <1>4, <1>5, OneEntryMoves DEF MovedTo

LEMMA PlatformsUnloadedKeeps ==
    ASSUME Inv, NEW e \in Entry, PlatformsUnloaded(e)
    PROVE  Inv'
<1>1. MovedTo(e, "push") /\ UNCHANGED <<plan, cur>>
  BY CleansUpMoves DEF PlatformsUnloaded
<1>2. listeners'[e] = {}
  BY DEF PlatformsUnloaded, Inv, TypeOK, HouseOf, Registered
<1>3. TypeOK'
  BY <1>1 DEF MovedTo, PlatformsUnloaded, Inv, TypeOK, Places, requests
<1>4. HouseOf(e)'
  BY <1>1, <1>2 DEF MovedTo, PlatformsUnloaded, Inv, TypeOK, HouseOf, Registered,
              WithPlatforms, CleaningUp
<1>5. \A f \in Entry \ {e} : Same(f)
  BY <1>1 DEF MovedTo, PlatformsUnloaded, Inv, TypeOK, Same
<1>6. service' = Served(runtime')
  BY DEF PlatformsUnloaded, Inv
<1>7. EntitiesOf(e)'
  <2>1. pc[e] = "unload" /\ plan[e] = "unload" /\ plan' = plan /\ entities'[e] = {}
    BY <1>1 DEF PlatformsUnloaded, Inv, TypeOK, HouseOf
  <2>2. IsLoaded("push", plan[e]) /\ pc[e] # "down" /\ "push" # "loaded"
    BY <2>1 DEF IsLoaded, CleaningUp
  <2>3. QED
    BY <1>1, <2>1, <2>2, MovedEntities
<1>8. QED
  BY <1>7, <1>1, <1>3, <1>4, <1>5, <1>6, OneEntryMoves DEF MovedTo

LEMMA PushStoppedKeeps ==
    ASSUME Inv, NEW e \in Entry, PushStopped(e)
    PROVE  Inv'
<1> DEFINE old == co[e][cur[e]]
           k == [old EXCEPT !.push = FALSE, !.notify = FALSE,
                            !.discover = IF @ = "none" THEN @ ELSE "cancelled"]
<1>1. cur[e] \in Coord /\ old \in Coordinator /\ old.closed
  BY Present DEF PushStopped, CleaningUp
<1>2. k \in Coordinator /\ k.closed /\ ~k.push /\ k.loaded = old.loaded
  BY <1>1 DEF Coordinator
<1>3. co' = [co EXCEPT ![e][cur[e]] = k]
  BY DEF PushStopped
<1> HIDE DEF k
<1>4. MovedTo(e, "tasks")
  <2>1. Becomes(e, cur[e], k)
    BY <1>1, <1>2, <1>3, ExceptBecomes
  <2>2. /\ "tasks" \in Places \ {"down"} /\ "tasks" \in CleaningUp
        /\ "tasks" \notin Registered \cup {"connect"}
    BY DEF Places, Registered, CleaningUp
  <2>3. QED
    BY <1>2, <2>1, <2>2, MovesWith DEF PushStopped
<1>5. TypeOK'
  BY <1>4 DEF MovedTo, PushStopped, Inv, TypeOK, Places, house, requests
<1>6. HouseOf(e)'
  BY <1>4 DEF MovedTo, PushStopped, Inv, TypeOK, HouseOf, house, Registered,
              WithPlatforms, CleaningUp
<1>7. \A f \in Entry \ {e} : Same(f)
  BY <1>4 DEF MovedTo, PushStopped, Inv, TypeOK, Same, house
<1>8. service' = Served(runtime')
  BY DEF PushStopped, house, Inv
<1>9. EntitiesOf(e)'
  BY <1>4, MovedEntities
     DEF MovedTo, PushStopped, Inv, HouseOf, HasEntities, IsLoaded, WithPlatforms,
         Registered, CleaningUp, SettingUp, house, TypeOK
<1>10. QED
  BY <1>9, <1>4, <1>5, <1>6, <1>7, <1>8, OneEntryMoves DEF MovedTo

LEMMA TasksEndedKeeps ==
    ASSUME Inv, NEW e \in Entry, TasksEnded(e)
    PROVE  Inv'
<1> DEFINE k == [co[e][cur[e]] EXCEPT !.discover = "none", !.manager = FALSE]
<1>1. /\ cur[e] \in Coord /\ co[e][cur[e]] \in Coordinator
      /\ co[e][cur[e]].closed /\ ~co[e][cur[e]].push
  BY Present DEF TasksEnded, CleaningUp
<1>2. /\ k \in Coordinator /\ k.closed /\ ~k.push /\ ~k.manager /\ k.discover = "none"
      /\ k.loaded = co[e][cur[e]].loaded
  BY <1>1 DEF Coordinator
<1>3. co' = [co EXCEPT ![e][cur[e]] = k]
  BY DEF TasksEnded
<1> HIDE DEF k
<1>4. MovedTo(e, "close")
  <2>1. Becomes(e, cur[e], k)
    BY <1>1, <1>2, <1>3, ExceptBecomes
  <2>2. /\ "close" \in Places \ {"down"} /\ "close" \in CleaningUp
        /\ "close" \notin Registered \cup {"connect"}
    BY DEF Places, Registered, CleaningUp
  <2>3. QED
    BY <1>2, <2>1, <2>2, MovesWith DEF TasksEnded
<1>5. TypeOK'
  BY <1>4 DEF MovedTo, TasksEnded, Inv, TypeOK, Places, house, requests
<1>6. HouseOf(e)'
  BY <1>4 DEF MovedTo, TasksEnded, Inv, TypeOK, HouseOf, house, Registered,
              WithPlatforms, CleaningUp
<1>7. \A f \in Entry \ {e} : Same(f)
  BY <1>4 DEF MovedTo, TasksEnded, Inv, TypeOK, Same, house
<1>8. service' = Served(runtime')
  BY DEF TasksEnded, house, Inv
<1>9. EntitiesOf(e)'
  BY <1>4, MovedEntities
     DEF MovedTo, TasksEnded, Inv, HouseOf, HasEntities, IsLoaded, WithPlatforms,
         Registered, CleaningUp, SettingUp, house, TypeOK
<1>10. QED
  BY <1>9, <1>4, <1>5, <1>6, <1>7, <1>8, OneEntryMoves DEF MovedTo

\* What is forgotten of a coordinator does no work.
LEMMA KeptFacts ==
    ASSUME NEW e \in Entry, NEW c \in Coord, NEW k \in Coordinator
    PROVE  /\ Kept(e, c, k) \in Coordinator
           /\ Works(Kept(e, c, k)) => Works(k)
           /\ Kept(e, c, k).refresh => k.refresh /\ Kept(e, c, k).closed = k.closed
           /\ c \in entities[e] => Kept(e, c, k) = k
<1>1. CASE Kept(e, c, k) = k
  BY <1>1
<1>2. CASE Kept(e, c, k) # k
  <2>1. Kept(e, c, k) = New /\ k.closed /\ c \notin entities[e]
    BY <1>2 DEF Kept
  <2>2. New \in Coordinator /\ ~Works(New) /\ ~New.refresh
    BY DEF New, Coordinator, Works
  <2>3. ~New.closed
    BY DEF New
  <2>4. QED
    BY <2>1, <2>2, <2>3
<1>3. QED
  BY <1>1, <1>2

LEMMA CleanedUpKeeps ==
    ASSUME Inv, NEW e \in Entry, CleanedUp(e)
    PROVE  Inv'
<1> DEFINE emptied == [co[e][cur[e]] EXCEPT !.filled = FALSE]
           k == Kept(e, cur[e], emptied)
<1>1. /\ cur[e] \in Coord /\ co[e][cur[e]] \in Coordinator /\ co[e][cur[e]].closed
      /\ ~Works(co[e][cur[e]])
  BY Present DEF CleanedUp, CleaningUp, Works
<1>2. /\ emptied \in Coordinator /\ emptied.closed /\ ~Works(emptied)
      /\ emptied.loaded = co[e][cur[e]].loaded
  BY <1>1 DEF Coordinator, Works
<1>3. /\ k \in Coordinator /\ ~Works(k) /\ (k.refresh => k.closed)
      /\ cur[e] \in entities[e] => k.closed /\ k.loaded = co[e][cur[e]].loaded
  BY <1>1, <1>2, KeptFacts
<1>4. co' = [co EXCEPT ![e][cur[e]] = k]
  BY DEF CleanedUp
<1> HIDE DEF k, emptied
<1>5. Becomes(e, cur[e], k)
  BY <1>1, <1>3, <1>4, ExceptBecomes
<1>6. pc'[e] = "down" /\ cur'[e] = None /\ plan'[e] = "retry"
  BY DEF CleanedUp, Goes, Inv, TypeOK
<1>7. CoordinatorsOf(e)'
  <2> SUFFICES ASSUME NEW c \in Coord
               PROVE  ~Works(co'[e][c]) /\ (co'[e][c].refresh => co'[e][c].closed)
    BY <1>6, EntryAssumption DEF CoordinatorsOf, Works
  <2>1. CASE c = cur[e]
    BY <1>3, <1>5, <2>1 DEF Becomes
  <2>2. CASE c # cur[e]
    BY <1>5, <2>2 DEF Becomes, Inv, CoordinatorsOf
  <2>3. QED
    BY <2>1, <2>2
<1>8. service' = Served(runtime')
  BY ForgetsServes DEF CleanedUp, Inv
<1>9. runtime' \in [Entry -> Coord \cup {None}] /\ runtime'[e] = None
  <2>1. runtime \in [Entry -> Coord \cup {None}] /\ HouseOf(e) /\ pc[e] = "close"
    BY DEF CleanedUp, Inv, TypeOK
  <2>2. CASE plan[e] = "unload"
    BY <2>1, <2>2 DEF CleanedUp, Forgets
  <2>3. CASE plan[e] # "unload"
    BY <2>1, <2>3 DEF CleanedUp, HouseOf, Registered
  <2>4. QED
    BY <2>2, <2>3
<1>10. service' \in BOOLEAN
  BY <1>8 DEF Served
<1>11. TypeOK'
  BY <1>5, <1>9, <1>10 DEF Becomes, CleanedUp, Goes, Inv, TypeOK, requests
<1>12. HouseOf(e)'
  BY <1>6, <1>9 DEF CleanedUp, Inv, TypeOK, HouseOf, Registered, WithPlatforms, CleaningUp
<1>13. \A f \in Entry \ {e} : Same(f)
  BY <1>5 DEF Becomes, CleanedUp, Forgets, Goes, Inv, TypeOK, Same
<1>14. EntitiesOf(e)'
  <2>1. entities' = entities /\ EntitiesOf(e) /\ pc[e] = "close" /\ plan[e] \in {"retry", "unload"}
    BY DEF CleanedUp, Inv, TypeOK
  <2>2. ASSUME NEW c \in Coord, c \in entities[e]
        PROVE  co'[e][c].closed /\ ~co'[e][c].loaded
    <3>1. CASE c = cur[e]
      <4>1. ~co[e][c].loaded
        BY <2>1, <2>2, <3>1 DEF EntitiesOf, HasEntities, IsLoaded, WithPlatforms
      <4>2. QED
        BY <1>3, <1>5, <2>2, <3>1, <4>1 DEF Becomes
    <3>2. CASE c # cur[e]
      BY <1>5, <2>1, <2>2, <3>2 DEF Becomes, EntitiesOf
    <3>3. QED
      BY <3>1, <3>2
  <2>3. entities[e] \subseteq Coord /\ None \notin Coord
    BY EntryAssumption DEF Inv, TypeOK
  <2>4. QED
    BY <1>6, <2>1, <2>2, <2>3 DEF EntitiesOf
<1>15. QED
  BY <1>7, <1>8, <1>11, <1>12, <1>13, <1>14, OneEntryMoves

LEMMA SetupKeeps ==
    ASSUME Inv, NEW e \in Entry, Setup(e)
    PROVE  Inv'
<1>1. PICK c \in Free(e) :
        /\ cur' = [cur EXCEPT ![e] = c]
        /\ co' = [co EXCEPT ![e] =
             [d \in Coord |-> IF d \in Free(e) THEN New ELSE @[d]]]
  BY DEF Setup
<1>2. cur[e] = None /\ c \in Coord
  BY DEF Setup, Inv, TypeOK, Free
<1>3. New \in Coordinator /\ ~New.closed /\ ~Works(New) /\ ~New.refresh /\ ~New.loaded
  BY DEF New, Coordinator, Works
<1>4. /\ co' \in [Entry -> [Coord -> Coordinator]]
      /\ \A f \in Entry \ {e} : co'[f] = co[f]
      /\ \A d \in Coord : co'[e][d] = IF d \in Free(e) THEN New ELSE co[e][d]
  BY <1>1, <1>3 DEF Inv, TypeOK
<1>5. /\ pc' \in [Entry -> Places] /\ pc'[e] = "login" /\ cur'[e] = c
      /\ \A f \in Entry \ {e} : pc'[f] = pc[f] /\ cur'[f] = cur[f]
  BY <1>1 DEF Setup, Goes, Inv, TypeOK, Places, SettingUp
<1>6. CoordinatorsOf(e)'
  <2> SUFFICES ASSUME NEW d \in Coord
               PROVE  /\ cur'[e] # d =>
                           ~Works(co'[e][d]) /\ (co'[e][d].refresh => co'[e][d].closed)
                      /\ cur'[e] = d => ~co'[e][d].closed
    BY <1>5 DEF CoordinatorsOf, Works, CleaningUp, Registered
  <2>1. CASE d \in Free(e)
    BY <1>3, <1>4, <2>1
  <2>2. CASE d \notin Free(e)
    BY <1>2, <1>4, <1>5, <2>2, EntryAssumption DEF Inv, CoordinatorsOf
  <2>3. QED
    BY <2>1, <2>2
<1>7. reloads' \in [Entry -> 0..MaxReloads]
  <2>1. reloads' = [reloads EXCEPT ![e] = IF @ = 0 THEN 0 ELSE @ - 1]
    BY DEF Setup
  <2>2. reloads \in [Entry -> 0..MaxReloads]
    BY DEF Inv, TypeOK
  <2>3. QED
    BY <2>1, <2>2, EntryAssumption
<1>8. pc[e] = "down" /\ UNCHANGED <<plan, house, running>>
  BY DEF Setup
<1>9. /\ cur' \in [Entry -> Coord \cup {None}]
      /\ \A f \in Entry : cur'[f] = None <=> pc'[f] = "down"
  BY <1>1, <1>2, <1>5, EntryAssumption DEF Inv, TypeOK
<1>10. TypeOK'
  BY <1>4, <1>5, <1>7, <1>8, <1>9 DEF Inv, TypeOK, Places, house
<1>11. HouseOf(e)'
  BY <1>5, <1>8 DEF Inv, HouseOf, house, Registered, WithPlatforms, CleaningUp
<1>12. \A f \in Entry \ {e} : Same(f)
  BY <1>4, <1>5, <1>8 DEF Inv, TypeOK, Same, house
<1>13. service' = Served(runtime')
  BY <1>8 DEF house, Inv
<1>14. EntitiesOf(e)'
  <2>1. entities' = entities /\ EntitiesOf(e) /\ c \notin entities[e]
    BY <1>1, <1>8 DEF house, Free, Inv
  <2>2. ASSUME NEW d \in Coord, d \in entities[e]
        PROVE  co'[e][d].closed /\ ~co'[e][d].loaded
    <3>1. d \notin Free(e) /\ d # cur[e]
      BY <1>2, <2>2, EntryAssumption DEF Free
    <3>2. QED
      BY <1>4, <2>1, <2>2, <3>1 DEF EntitiesOf
  <2>3. ~co'[e][c].loaded
    BY <1>1, <1>2, <1>3, <1>4
  <2>4. QED
    BY <1>5, <2>1, <2>2, <2>3 DEF EntitiesOf
<1>15. QED
  BY <1>6, <1>10, <1>11, <1>12, <1>13, <1>14, OneEntryMoves

-----------------------------------------------------------------------------
(* Steps beside the set-ups and unloads.  *)

\* A refresh, a push or the end of a publication of one coordinator: it closes
\* nothing, and gives a coordinator without an entry no work.
LEMMA StepsKeep ==
    ASSUME Inv, NEW e \in Entry, NEW c \in Coord, NEW s \in Coordinator, Steps(e, c, s),
           s.closed <=> co[e][c].closed,
           s.manager <=> co[e][c].manager,
           s.discover = co[e][c].discover, s.loaded = co[e][c].loaded,
           s.closed => (s.push => co[e][c].push),
           s.push => co[e][c].push \/ ~s.closed,
           cur[e] # c => ~Works(s) /\ (s.refresh => s.closed)
    PROVE  Inv'
<1> DEFINE k == IF cur[e] = c THEN s ELSE Kept(e, c, s)
<1>1. k \in Coordinator /\ co' = [co EXCEPT ![e][c] = k]
  BY KeptFacts DEF Steps
<1>2. cur[e] # c => ~Works(k) /\ (k.refresh => k.closed)
  BY KeptFacts
<1>3. cur[e] = c \/ c \in entities[e] => k = s
  BY KeptFacts
<1> HIDE DEF k
<1>4. Becomes(e, c, k)
  BY <1>1, ExceptBecomes
<1>5. UNCHANGED <<pc, plan, cur, house, requests>>
  BY DEF Steps
<1>6. CoordinatorsOf(e)'
  <2> SUFFICES ASSUME NEW d \in Coord
               PROVE  LET x == co'[e][d]
                      IN  /\ cur[e] # d => ~Works(x) /\ (x.refresh => x.closed)
                          /\ cur[e] = d =>
                              /\ x.closed <=> pc[e] \in CleaningUp
                              /\ pc[e] \in Registered \cup {"connect"} => x.manager
                              /\ pc[e] \in {"tasks", "close"} => ~x.push
                              /\ pc[e] = "close" => ~x.manager /\ x.discover = "none"
    BY <1>5 DEF CoordinatorsOf, Works
  <2>1. CASE d = c /\ cur[e] = c
    <3>1. pc[e] # "down"
      BY <2>1, EntryAssumption DEF Inv, TypeOK
    <3>2. co'[e][d] = s
      BY <1>3, <1>4, <2>1 DEF Becomes
    <3>3. QED
      BY <2>1, <3>1, <3>2, Present DEF CleaningUp
  <2>2. CASE d = c /\ cur[e] # c
    BY <1>2, <1>4, <2>2 DEF Becomes
  <2>3. CASE d # c
    BY <1>4, <2>3 DEF Becomes, Inv, CoordinatorsOf
  <2>4. QED
    BY <2>1, <2>2, <2>3
<1>7. TypeOK'
  BY <1>4, <1>5 DEF Becomes, Inv, TypeOK, house, requests
<1>8. HouseOf(e)' /\ \A f \in Entry \ {e} : Same(f)
  BY <1>4, <1>5 DEF Becomes, Inv, HouseOf, Same, house
<1>9. service' = Served(runtime')
  BY <1>5 DEF house, Inv
<1>10. EntitiesOf(e)'
  <2>1. EntitiesOf(e) /\ entities' = entities
    BY <1>5 DEF Inv, house
  <2>2. \A d \in Coord : d = cur[e] \/ d \in entities[e] =>
          (co'[e][d].closed <=> co[e][d].closed) /\ (co'[e][d].loaded <=> co[e][d].loaded)
    BY <1>3, <1>4 DEF Becomes
  <2>3. QED
    BY <1>5, <2>1, <2>2 DEF EntitiesOf
<1>11. QED
  BY <1>6, <1>7, <1>8, <1>9, <1>10, OneEntryMoves

\* A coordinator without an entry does no work, and only refreshes closed.
LEMMA Absent ==
    ASSUME Inv, NEW e \in Entry, NEW c \in Coord
    PROVE  /\ co[e][c] \in Coordinator
           /\ cur[e] # c => ~Works(co[e][c]) /\ (co[e][c].refresh => co[e][c].closed)
           /\ cur[e] # c /\ c \in entities[e] => co[e][c].closed /\ ~co[e][c].loaded
BY DEF Inv, TypeOK, CoordinatorsOf, EntitiesOf

LEMMA BesideKeeps ==
    ASSUME Inv, NEW e \in Entry, NEW c \in Coord,
           \/ StartRefresh(e, c)
           \/ \E devices, lock \in BOOLEAN : RefreshEnds(e, c, devices, lock)
           \/ RefreshFails(e, c)
           \/ LanPush(e)
           \/ DebounceEnds(e, c)
    PROVE  Inv'
<1>0. co[e][c] \in Coordinator
  BY Absent
<1>1. CASE StartRefresh(e, c)
  <2> DEFINE s == [co[e][c] EXCEPT !.refresh = TRUE]
  <2>1. /\ s \in Coordinator /\ s.closed = co[e][c].closed
        /\ s.manager = co[e][c].manager /\ s.discover = co[e][c].discover
        /\ s.push = co[e][c].push /\ s.loaded = co[e][c].loaded
    BY <1>0 DEF Coordinator
  <2>2. Steps(e, c, s) /\ (cur[e] = c \/ c \in entities[e])
    BY <1>1 DEF StartRefresh
  <2> HIDE DEF s
  <2>3. cur[e] # c => ~Works(s) /\ s.closed
    BY <2>1, <2>2, Absent DEF Works
  <2>4. QED
    BY <2>1, <2>2, <2>3, StepsKeep
<1>2. CASE \E devices, lock \in BOOLEAN : RefreshEnds(e, c, devices, lock)
  <2> PICK devices \in BOOLEAN, lock \in BOOLEAN : RefreshEnds(e, c, devices, lock)
    BY <1>2
  <2> DEFINE s == [co[e][c] EXCEPT !.filled = devices,
                                   !.push = IF co[e][c].closed THEN @ ELSE lock,
                                   !.refresh = FALSE]
  <2>1. /\ s \in Coordinator /\ s.closed = co[e][c].closed
        /\ s.manager = co[e][c].manager /\ s.discover = co[e][c].discover
        /\ s.closed => s.push = co[e][c].push
        /\ ~s.refresh /\ s.loaded = co[e][c].loaded
    BY <1>0 DEF Coordinator
  <2>2. Steps(e, c, s) /\ co[e][c].refresh
    BY DEF RefreshEnds
  <2> HIDE DEF s
  <2>3. cur[e] # c => ~Works(s)
    BY <2>1, <2>2, Absent DEF Works
  <2>4. QED
    BY <2>1, <2>2, <2>3, StepsKeep
<1>3. CASE RefreshFails(e, c)
  <2> DEFINE s == [co[e][c] EXCEPT !.refresh = FALSE]
  <2>1. /\ s \in Coordinator /\ s.closed = co[e][c].closed
        /\ s.manager = co[e][c].manager /\ s.discover = co[e][c].discover
        /\ s.push = co[e][c].push /\ ~s.refresh /\ s.loaded = co[e][c].loaded
    BY <1>0 DEF Coordinator
  <2>2. Steps(e, c, s)
    BY <1>3 DEF RefreshFails
  <2> HIDE DEF s
  <2>3. cur[e] # c => ~Works(s)
    BY <2>1, Absent DEF Works
  <2>4. QED
    BY <2>1, <2>2, <2>3, StepsKeep
<1>4. CASE LanPush(e)
  <2> DEFINE s == [co[e][cur[e]] EXCEPT !.notify = TRUE]
  <2>1. cur[e] \in Coord /\ co[e][cur[e]] \in Coordinator
    BY <1>4 DEF LanPush, Inv, TypeOK
  <2>2. /\ s \in Coordinator /\ s.closed = co[e][cur[e]].closed
        /\ s.manager = co[e][cur[e]].manager /\ s.discover = co[e][cur[e]].discover
        /\ s.push = co[e][cur[e]].push /\ s.loaded = co[e][cur[e]].loaded
    BY <2>1 DEF Coordinator
  <2>3. Steps(e, cur[e], s)
    BY <1>4 DEF LanPush
  <2> HIDE DEF s
  <2>4. QED
    BY <2>1, <2>2, <2>3, StepsKeep
<1>5. CASE DebounceEnds(e, c)
  <2> DEFINE s == [co[e][c] EXCEPT !.notify = FALSE]
  <2>1. /\ s \in Coordinator /\ s.closed = co[e][c].closed
        /\ s.manager = co[e][c].manager /\ s.discover = co[e][c].discover
        /\ s.push = co[e][c].push /\ s.refresh = co[e][c].refresh
        /\ s.loaded = co[e][c].loaded
    BY <1>0 DEF Coordinator
  <2>2. Steps(e, c, s)
    BY <1>5 DEF DebounceEnds
  <2> HIDE DEF s
  <2>3. cur[e] # c => ~Works(s) /\ (s.refresh => s.closed)
    BY <2>1, Absent DEF Works
  <2>4. QED
    BY <2>1, <2>2, <2>3, StepsKeep
<1>6. QED
  BY <1>1, <1>2, <1>3, <1>4, <1>5

\* Only requests or the start of Home Assistant change.
LEMMA ApartKeeps ==
    ASSUME Inv, UNCHANGED <<pc, plan, cur, co, runtime, entities, listeners, service>>,
           reloads' \in [Entry -> 0..MaxReloads], running' \in BOOLEAN,
           start' \in [Entry -> {"none", "armed", "fired", "scheduled"}],
           \A f \in Entry : start'[f] = start[f] \/ start'[f] # "armed"
    PROVE  Inv'
<1>1. TypeOK' /\ service' = Served(runtime')
  BY DEF Inv, TypeOK
<1>2. \A f \in Entry : Same(f)
  BY DEF Same
<1>3. \A f \in Entry : HouseOf(f)' /\ CoordinatorsOf(f)' /\ EntitiesOf(f)'
  BY <1>2, SameKeeps DEF Inv
<1>4. Served(runtime)' = Served(runtime')
  BY DEF Served
<1>5. QED
  BY <1>1, <1>3, <1>4 DEF Inv

LEMMA ReconfigureKeeps ==
    ASSUME Inv, NEW e \in Entry, NEW reauth \in BOOLEAN, Reconfigure(e, reauth)
    PROVE  Inv'
<1>1. Cardinality(listeners[e]) \in Nat
  <2>1. listeners[e] \subseteq Coord
    BY DEF Inv, TypeOK
  <2>2. QED
    BY <2>1, EntryAssumption, FS_Subset, FS_CardinalityType
<1>2. reloads' \in [Entry -> 0..MaxReloads]
  BY <1>1, EntryAssumption DEF Reconfigure, Inv, TypeOK
<1>3. UNCHANGED <<pc, plan, cur, co, house, running>>
  BY DEF Reconfigure
<1>4. running' \in BOOLEAN /\ start' = start
      /\ start \in [Entry -> {"none", "armed", "fired", "scheduled"}]
  BY <1>3 DEF house, Inv, TypeOK
<1>5. QED
  BY <1>2, <1>3, <1>4, ApartKeeps DEF house

LEMMA StartKeeps ==
    ASSUME Inv,
           Started \/ \E e \in Entry : AreasScheduled(e) \/ AreasAssigned(e)
    PROVE  Inv'
<1>1. /\ UNCHANGED <<pc, plan, cur, co, runtime, entities, listeners, service>>
      /\ reloads' = reloads /\ running' \in BOOLEAN
  BY DEF Started, AreasScheduled, AreasAssigned, requests, Inv, TypeOK
<1>2. /\ start' \in [Entry -> {"none", "armed", "fired", "scheduled"}]
      /\ \A f \in Entry : start'[f] = start[f] \/ start'[f] # "armed"
  BY DEF Started, AreasScheduled, AreasAssigned, Inv, TypeOK
<1>3. reloads' \in [Entry -> 0..MaxReloads]
  BY <1>1 DEF Inv, TypeOK
<1>4. QED
  BY <1>1, <1>2, <1>3, ApartKeeps
-----------------------------------------------------------------------------
(* The invariant holds.  *)

LEMMA InitEstablishes == Init => Inv
<1> SUFFICES ASSUME Init PROVE Inv
  OBVIOUS
<1>1. New \in Coordinator /\ ~Works(New) /\ ~New.refresh
  BY DEF New, Coordinator, Works
<1>2. TypeOK
  <2>1. co \in [Entry -> [Coord -> Coordinator]]
    BY <1>1 DEF Init
  <2>2. reloads \in [Entry -> 0..MaxReloads]
    BY EntryAssumption DEF Init
  <2>3. \A e \in Entry : cur[e] = None <=> pc[e] = "down"
    BY DEF Init
  <2>4. QED
    BY <2>1, <2>2, <2>3 DEF Init, TypeOK
<1>3. ASSUME NEW e \in Entry PROVE HouseOf(e) /\ CoordinatorsOf(e) /\ EntitiesOf(e)
  <2>1. HouseOf(e)
    BY DEF Init, HouseOf, Registered, CleaningUp, WithPlatforms
  <2>2. ASSUME NEW c \in Coord PROVE co[e][c] = New /\ cur[e] # c
    BY EntryAssumption DEF Init
  <2>3. EntitiesOf(e)
    BY <2>2, EntryAssumption DEF Init, EntitiesOf
  <2>4. QED
    BY <1>1, <2>1, <2>2, <2>3 DEF CoordinatorsOf
<1>4. service = Served(runtime)
  BY DEF Init, Served
<1>5. QED
  BY <1>2, <1>3, <1>4 DEF Inv

LEMMA ProgressKeeps ==
    ASSUME Inv, NEW e \in Entry, Progress(e)
    PROVE  Inv'
<1>1. CASE \E devices, lock \in BOOLEAN : Fetched(e, devices, lock)
  BY <1>1, FetchedKeeps
<1>2. CASE \/ LoggedIn(e) \/ SetupFails(e) \/ Connected(e) \/ Forwarded(e)
          \/ \E some \in BOOLEAN : ForwardFails(e, some)
  BY <1>2, LoggedInKeeps, SetupFailsKeeps, ConnectedKeeps, ForwardedKeeps, ForwardFailsKeeps
<1>3. CASE \/ \E remains \in BOOLEAN : Undone(e, remains)
          \/ UnloadRefused(e) \/ PlatformsUnloaded(e)
  BY <1>3, UndoneKeeps, UnloadRefusedKeeps, PlatformsUnloadedKeeps
<1>4. CASE PushStopped(e) \/ TasksEnded(e) \/ CleanedUp(e)
  BY <1>4, PushStoppedKeeps, TasksEndedKeeps, CleanedUpKeeps
<1>5. QED
  BY <1>1, <1>2, <1>3, <1>4 DEF Progress

LEMMA NextKeeps == Inv /\ [Next]_vars => Inv'
<1> SUFFICES ASSUME Inv, [Next]_vars PROVE Inv'
  OBVIOUS
<1>1. CASE UNCHANGED vars
  <2>1. TypeOK' /\ service' = Served(runtime')
    BY <1>1 DEF vars, Inv, TypeOK
  <2>2. \A f \in Entry : Same(f)
    BY <1>1 DEF vars, Same
  <2>3. \A f \in Entry : HouseOf(f)' /\ CoordinatorsOf(f)' /\ EntitiesOf(f)'
    BY <2>2, SameKeeps DEF Inv
  <2>4. Served(runtime)' = Served(runtime')
    BY DEF Served
  <2>5. QED
    BY <2>1, <2>3, <2>4 DEF Inv
<1>2. ASSUME NEW e \in Entry, Setup(e) \/ Progress(e) PROVE Inv'
  BY <1>2, SetupKeeps, ProgressKeeps
<1>3. ASSUME NEW e \in Entry, NEW reload \in BOOLEAN, Unload(e, reload) PROVE Inv'
  BY <1>3, UnloadKeeps
<1>4. ASSUME NEW e \in Entry, NEW reauth \in BOOLEAN, Reconfigure(e, reauth) PROVE Inv'
  BY <1>4, ReconfigureKeeps
<1>5. ASSUME NEW e \in Entry, LanPush(e) PROVE Inv'
  <2>1. PICK c \in Coord : TRUE
    BY <1>5 DEF LanPush, Inv, TypeOK
  <2>2. QED
    BY <1>5, <2>1, BesideKeeps
<1>6. ASSUME NEW e \in Entry, NEW c \in Coord,
             StartRefresh(e, c) \/ Background(e, c) \/ DebounceEnds(e, c)
      PROVE  Inv'
  BY <1>6, BesideKeeps DEF Background
<1>7. CASE Started \/ \E e \in Entry : AreasScheduled(e) \/ AreasAssigned(e)
  BY <1>7, StartKeeps
<1>8. QED
  BY <1>1, <1>2, <1>3, <1>4, <1>5, <1>6, <1>7 DEF Next

THEOREM InvHolds == Spec => []Inv
BY InitEstablishes, NextKeeps, PTL DEF Spec
-----------------------------------------------------------------------------
(* Where every set-up, unload and clean-up stands is one of the places the *)
(* code suspends at, and reloads stay within their bound                    *)
(* (__init__.py:164-241).                                                   *)
THEOREM EntriesTypeCorrect == Spec => []TypeOK
<1>1. Inv => TypeOK
  BY DEF Inv
<1>2. QED
  BY <1>1, InvHolds, PTL

(* However set-ups fail and unloads are refused, whatever refreshes overlap *)
(* a clean-up, a coordinator that has a stream, a task or a manager is the  *)
(* one of its entry (coordinator.py:323-376, 716-747,                       *)
(* __init__.py:164-241).                                                    *)
THEOREM NothingOrphaned == Spec => []NoOrphanCoordinator
<1>1. Inv => NoOrphanCoordinator
  BY DEF Inv, CoordinatorsOf, NoOrphanCoordinator
<1>2. QED
  BY <1>1, InvHolds, PTL

(* The service, the update listener and the start listener of every entry   *)
(* agree with where its set-up or unload stands, and its entities use its    *)
(* open coordinator, or a closed one whose set-up failed                     *)
(* (__init__.py:118-241).                                                    *)
THEOREM RegistrationsFollow == Spec => []RegistrationsFollowLoad
<1>1. Inv => RegistrationsFollowLoad
  <2> SUFFICES ASSUME Inv PROVE RegistrationsFollowLoad
    OBVIOUS
  <2>1. service <=> Served(runtime)
    BY DEF Inv
  <2> SUFFICES ASSUME NEW e \in Entry
               PROVE  /\ listeners[e] \subseteq {cur[e]}
                      /\ pc[e] \notin Registered => listeners[e] = {} /\ start[e] # "armed"
                      /\ \A c \in entities[e] :
                           \/ c = cur[e] /\ c = runtime[e] /\ ~co[e][c].closed
                                /\ co[e][c].manager
                           \/ co[e][c].closed /\ ~co[e][c].loaded
    BY <2>1 DEF RegistrationsFollowLoad, Registered
  <2>2. HouseOf(e) /\ EntitiesOf(e) /\ entities[e] \subseteq Coord
    BY DEF Inv, TypeOK
  <2>3. ASSUME NEW c \in entities[e]
        PROVE  \/ c = cur[e] /\ c = runtime[e] /\ ~co[e][c].closed /\ co[e][c].manager
               \/ co[e][c].closed /\ ~co[e][c].loaded
    <3>1. CASE c # cur[e]
      BY <2>2, <3>1 DEF EntitiesOf
    <3>2. CASE c = cur[e] /\ pc[e] \in WithPlatforms \cup {"undo"}
      <4>1. pc[e] \in Registered /\ pc[e] \notin CleaningUp /\ pc[e] # "down"
        BY <3>2 DEF WithPlatforms, Registered, CleaningUp
      <4>2. QED
        BY <2>2, <3>2, <4>1, Present DEF HouseOf
    <3>3. CASE c = cur[e] /\ pc[e] \in CleaningUp /\ plan[e] = "retry"
      <4>1. pc[e] \notin WithPlatforms /\ pc[e] # "down"
        BY <3>3 DEF WithPlatforms, CleaningUp
      <4>2. QED
        BY <2>2, <3>3, <4>1, Present DEF EntitiesOf, IsLoaded
    <3>4. QED
      BY <2>2, <3>1, <3>2, <3>3 DEF EntitiesOf, HasEntities
  <2>4. QED
    BY <2>2, <2>3 DEF HouseOf, WithPlatforms, Registered
<1>2. QED
  BY <1>1, InvHolds, PTL
-----------------------------------------------------------------------------
(* What a closed coordinator may still do.  *)

\* From old to new, a coordinator of an entry or not, with entities left or not.
Calm(old, new, absent, left) ==
    old.closed /\ new.closed =>
        /\ new.push => old.push
        /\ new.manager => old.manager
        /\ new.discover = "running" => old.discover = "running"
        /\ absent => /\ new.notify => old.notify
                     /\ new.refresh => old.refresh \/ (left /\ ~old.loaded)

AllCalm ==
    \A e \in Entry, c \in Coord :
        Calm(co[e][c], co'[e][c], cur[e] # c, c \in entities[e])

LEMMA SameIsCalm == UNCHANGED co => AllCalm
BY DEF AllCalm, Calm

\* It is enough that the one coordinator a step changes stays calm.
LEMMA OneCalm ==
    ASSUME Inv, NEW e \in Entry, NEW c \in Coord, NEW k,
           co' = [co EXCEPT ![e][c] = k],
           Calm(co[e][c], k, cur[e] # c, c \in entities[e])
    PROVE  AllCalm
<1>1. co \in [Entry -> [Coord -> Coordinator]]
  BY DEF Inv, TypeOK
<1>2. ASSUME NEW f \in Entry, NEW d \in Coord
      PROVE  Calm(co[f][d], co'[f][d], cur[f] # d, d \in entities[f])
  <2>1. CASE f = e /\ d = c
    BY <1>1, <2>1
  <2>2. CASE ~(f = e /\ d = c)
    <3>1. co'[f][d] = co[f][d]
      BY <1>1, <2>2
    <3>2. QED
      BY <3>1 DEF Calm
  <2>3. QED
    BY <2>1, <2>2
<1>3. QED
  BY <1>2 DEF AllCalm

\* The steps of a set-up act on an open coordinator.
LEMMA SetupCalm ==
    ASSUME Inv, NEW e \in Entry,
           \/ Setup(e)
           \/ \E devices, lock \in BOOLEAN : Fetched(e, devices, lock)
           \/ Connected(e) \/ Forwarded(e)
    PROVE  AllCalm
<1>1. CASE Setup(e)
  <2>1. PICK c \in Free(e) :
          co' = [co EXCEPT ![e] = [d \in Coord |-> IF d \in Free(e) THEN New ELSE @[d]]]
    BY <1>1 DEF Setup
  <2>2. ASSUME NEW f \in Entry, NEW d \in Coord
        PROVE  co'[f][d] = co[f][d] \/ ~co'[f][d].closed
    BY <2>1 DEF Inv, TypeOK, New
  <2>3. QED
    BY <2>2 DEF AllCalm, Calm
<1>2. CASE \E devices, lock \in BOOLEAN : Fetched(e, devices, lock)
  <2> PICK devices \in BOOLEAN, lock \in BOOLEAN : Fetched(e, devices, lock)
    BY <1>2
  <2> DEFINE k == [co[e][cur[e]] EXCEPT !.filled = devices, !.push = lock, !.manager = TRUE]
  <2>1. co' = [co EXCEPT ![e][cur[e]] = k]
    BY DEF Fetched
  <2>2. cur[e] \in Coord /\ ~co[e][cur[e]].closed
    BY Present DEF Fetched, CleaningUp
  <2> HIDE DEF k
  <2>3. Calm(co[e][cur[e]], k, cur[e] # cur[e], cur[e] \in entities[e])
    BY <2>2 DEF Calm
  <2>4. QED
    BY <2>1, <2>2, <2>3, OneCalm
<1>3. CASE Connected(e)
  <2> DEFINE k == [co[e][cur[e]] EXCEPT !.discover = "running", !.known = TRUE]
  <2>1. co' = [co EXCEPT ![e][cur[e]] = k]
    BY <1>3 DEF Connected
  <2>2. cur[e] \in Coord /\ ~co[e][cur[e]].closed
    BY <1>3, Present DEF Connected, CleaningUp
  <2> HIDE DEF k
  <2>3. Calm(co[e][cur[e]], k, cur[e] # cur[e], cur[e] \in entities[e])
    BY <2>2 DEF Calm
  <2>4. QED
    BY <2>1, <2>2, <2>3, OneCalm
<1>4. CASE Forwarded(e)
  <2> DEFINE k == [co[e][cur[e]] EXCEPT !.loaded = TRUE]
  <2>1. co' = [co EXCEPT ![e][cur[e]] = k]
    BY <1>4 DEF Forwarded
  <2>2. cur[e] \in Coord /\ ~co[e][cur[e]].closed
    BY <1>4, Present DEF Forwarded, CleaningUp
  <2> HIDE DEF k
  <2>3. Calm(co[e][cur[e]], k, cur[e] # cur[e], cur[e] \in entities[e])
    BY <2>2 DEF Calm
  <2>4. QED
    BY <2>1, <2>2, <2>3, OneCalm
<1>5. QED
  BY <1>1, <1>2, <1>3, <1>4

\* The start of a clean-up closes an open coordinator.
LEMMA CleansUpCalm ==
    ASSUME Inv, NEW e \in Entry, CleansUp(e), pc[e] # "down", pc[e] \notin CleaningUp
    PROVE  AllCalm
<1> DEFINE k == [co[e][cur[e]] EXCEPT !.closed = TRUE]
<1>1. co' = [co EXCEPT ![e][cur[e]] = k]
  BY DEF CleansUp
<1>2. cur[e] \in Coord /\ ~co[e][cur[e]].closed
  BY Present
<1> HIDE DEF k
<1>3. Calm(co[e][cur[e]], k, cur[e] # cur[e], cur[e] \in entities[e])
  BY <1>2 DEF Calm
<1>4. QED
  BY <1>1, <1>2, <1>3, OneCalm

\* The others only take from it.
LEMMA CleanUpCalm ==
    ASSUME Inv, NEW e \in Entry, PushStopped(e) \/ TasksEnded(e) \/ CleanedUp(e)
    PROVE  AllCalm
<1>1. cur[e] \in Coord /\ co[e][cur[e]] \in Coordinator
  BY Present DEF PushStopped, TasksEnded, CleanedUp
<1>2. CASE PushStopped(e)
  <2> DEFINE k == [co[e][cur[e]] EXCEPT !.push = FALSE, !.notify = FALSE,
                                        !.discover = IF @ = "none" THEN @ ELSE "cancelled"]
  <2>1. co' = [co EXCEPT ![e][cur[e]] = k]
    BY <1>2 DEF PushStopped
  <2>2. Calm(co[e][cur[e]], k, cur[e] # cur[e], cur[e] \in entities[e])
    BY <1>1 DEF Calm, Coordinator
  <2> HIDE DEF k
  <2>3. QED
    BY <1>1, <2>1, <2>2, OneCalm
<1>3. CASE TasksEnded(e)
  <2> DEFINE k == [co[e][cur[e]] EXCEPT !.discover = "none", !.manager = FALSE]
  <2>1. co' = [co EXCEPT ![e][cur[e]] = k]
    BY <1>3 DEF TasksEnded
  <2>2. Calm(co[e][cur[e]], k, cur[e] # cur[e], cur[e] \in entities[e])
    BY <1>1 DEF Calm, Coordinator
  <2> HIDE DEF k
  <2>3. QED
    BY <1>1, <2>1, <2>2, OneCalm
<1>4. CASE CleanedUp(e)
  <2> DEFINE k == Kept(e, cur[e], [co[e][cur[e]] EXCEPT !.filled = FALSE])
  <2>1. co' = [co EXCEPT ![e][cur[e]] = k]
    BY <1>4 DEF CleanedUp
  <2>2. Calm(co[e][cur[e]], k, cur[e] # cur[e], cur[e] \in entities[e])
    BY <1>1 DEF Calm, Coordinator, Kept, New
  <2> HIDE DEF k
  <2>3. QED
    BY <1>1, <2>1, <2>2, OneCalm
<1>5. QED
  BY <1>2, <1>3, <1>4

\* A step beside them starts nothing in a closed coordinator.
LEMMA StepsCalm ==
    ASSUME Inv, NEW e \in Entry, NEW c \in Coord, NEW s \in Coordinator, Steps(e, c, s),
           Calm(co[e][c], s, cur[e] # c, c \in entities[e])
    PROVE  AllCalm
<1> DEFINE k == IF cur[e] = c THEN s ELSE Kept(e, c, s)
<1>1. co' = [co EXCEPT ![e][c] = k]
  BY DEF Steps
<1>2. k = s \/ ~k.closed
  BY DEF Kept, New
<1> HIDE DEF k
<1>3. Calm(co[e][c], k, cur[e] # c, c \in entities[e])
  BY <1>2 DEF Calm
<1>4. QED
  BY <1>1, <1>3, OneCalm

LEMMA BesideCalm ==
    ASSUME Inv, NEW e \in Entry, NEW c \in Coord,
           \/ StartRefresh(e, c)
           \/ \E devices, lock \in BOOLEAN : RefreshEnds(e, c, devices, lock)
           \/ RefreshFails(e, c)
           \/ LanPush(e)
           \/ DebounceEnds(e, c)
    PROVE  AllCalm
<1>1. CASE StartRefresh(e, c)
  <2> DEFINE s == [co[e][c] EXCEPT !.refresh = TRUE]
  <2>1. /\ co[e][c] \in Coordinator /\ Steps(e, c, s)
        /\ cur[e] # c => c \in entities[e] /\ ~co[e][c].loaded
    BY <1>1, Absent DEF StartRefresh
  <2>2. s \in Coordinator /\ Calm(co[e][c], s, cur[e] # c, c \in entities[e])
    BY <2>1 DEF Calm, Coordinator
  <2> HIDE DEF s
  <2>3. QED
    BY <2>1, <2>2, StepsCalm
<1>2. CASE \E devices, lock \in BOOLEAN : RefreshEnds(e, c, devices, lock)
  <2> PICK devices \in BOOLEAN, lock \in BOOLEAN : RefreshEnds(e, c, devices, lock)
    BY <1>2
  <2> DEFINE s == [co[e][c] EXCEPT !.filled = devices,
                                   !.push = IF co[e][c].closed THEN @ ELSE lock,
                                   !.refresh = FALSE]
  <2>1. co[e][c] \in Coordinator /\ Steps(e, c, s)
    BY DEF RefreshEnds, Inv, TypeOK
  <2>2. s \in Coordinator /\ Calm(co[e][c], s, cur[e] # c, c \in entities[e])
    BY <2>1 DEF Calm, Coordinator
  <2> HIDE DEF s
  <2>3. QED
    BY <2>1, <2>2, StepsCalm
<1>3. CASE RefreshFails(e, c)
  <2> DEFINE s == [co[e][c] EXCEPT !.refresh = FALSE]
  <2>1. co[e][c] \in Coordinator /\ Steps(e, c, s)
    BY <1>3 DEF RefreshFails, Inv, TypeOK
  <2>2. s \in Coordinator /\ Calm(co[e][c], s, cur[e] # c, c \in entities[e])
    BY <2>1 DEF Calm, Coordinator
  <2> HIDE DEF s
  <2>3. QED
    BY <2>1, <2>2, StepsCalm
<1>4. CASE LanPush(e)
  <2> DEFINE s == [co[e][cur[e]] EXCEPT !.notify = TRUE]
  <2>1. cur[e] \in Coord /\ co[e][cur[e]] \in Coordinator /\ Steps(e, cur[e], s)
    BY <1>4 DEF LanPush, Inv, TypeOK
  <2>2. s \in Coordinator /\ Calm(co[e][cur[e]], s, cur[e] # cur[e], cur[e] \in entities[e])
    BY <2>1 DEF Calm, Coordinator
  <2> HIDE DEF s
  <2>3. QED
    BY <2>1, <2>2, StepsCalm
<1>5. CASE DebounceEnds(e, c)
  <2> DEFINE s == [co[e][c] EXCEPT !.notify = FALSE]
  <2>1. co[e][c] \in Coordinator /\ Steps(e, c, s)
    BY <1>5 DEF DebounceEnds, Inv, TypeOK
  <2>2. s \in Coordinator /\ Calm(co[e][c], s, cur[e] # c, c \in entities[e])
    BY <2>1 DEF Calm, Coordinator
  <2> HIDE DEF s
  <2>3. QED
    BY <2>1, <2>2, StepsCalm
<1>6. QED
  BY <1>1, <1>2, <1>3, <1>4, <1>5

LEMMA ProgressCalm ==
    ASSUME Inv, NEW e \in Entry, Progress(e)
    PROVE  AllCalm
<1>1. CASE \E devices, lock \in BOOLEAN : Fetched(e, devices, lock)
  BY <1>1, SetupCalm
<1>2. CASE Connected(e)
  BY <1>2, SetupCalm
<1>3. CASE \/ SetupFails(e) \/ PlatformsUnloaded(e)
          \/ \E remains \in BOOLEAN : Undone(e, remains)
  BY <1>3, CleansUpCalm DEF SetupFails, Undone, PlatformsUnloaded, CleaningUp
<1>4. CASE PushStopped(e) \/ TasksEnded(e) \/ CleanedUp(e)
  BY <1>4, CleanUpCalm
<1>5. CASE \/ LoggedIn(e) \/ UnloadRefused(e)
          \/ \E some \in BOOLEAN : ForwardFails(e, some)
  BY <1>5, SameIsCalm DEF LoggedIn, ForwardFails, UnloadRefused
<1>6. CASE Forwarded(e)
  BY <1>6, SetupCalm
<1>7. QED
  BY <1>1, <1>2, <1>3, <1>4, <1>5, <1>6 DEF Progress

(* A closed coordinator starts no stream, discovery or manager, whatever    *)
(* refresh was under way, and after its clean-up nothing at all but the      *)
(* refreshes that entities ask for which a failed set-up left               *)
(* (coordinator.py:329-376, 716-747).                                       *)
THEOREM ClosedStaysQuiet == Spec => ClosedStartsNothing
<1>1. Inv /\ [Next]_vars => AllCalm
  <2> SUFFICES ASSUME Inv, [Next]_vars PROVE AllCalm
    OBVIOUS
  <2>1. CASE UNCHANGED vars
    BY <2>1, SameIsCalm DEF vars
  <2>2. ASSUME NEW e \in Entry, Setup(e) \/ Progress(e) PROVE AllCalm
    BY <2>2, SetupCalm, ProgressCalm
  <2>3. ASSUME NEW e \in Entry, LanPush(e) PROVE AllCalm
    <3>1. PICK c \in Coord : TRUE
      BY <2>3 DEF LanPush, Inv, TypeOK
    <3>2. QED
      BY <2>3, <3>1, BesideCalm
  <2>4. ASSUME NEW e \in Entry, NEW c \in Coord,
               StartRefresh(e, c) \/ Background(e, c) \/ DebounceEnds(e, c)
        PROVE  AllCalm
    BY <2>4, BesideCalm DEF Background
  <2>5. ASSUME NEW e \in Entry,
               \/ \E reload \in BOOLEAN : Unload(e, reload)
               \/ \E reauth \in BOOLEAN : Reconfigure(e, reauth)
               \/ AreasScheduled(e) \/ AreasAssigned(e)
        PROVE  AllCalm
    BY <2>5, SameIsCalm DEF Unload, Reconfigure, AreasScheduled, AreasAssigned
  <2>6. CASE Started
    BY <2>6, SameIsCalm DEF Started
  <2>7. QED
    BY <2>1, <2>2, <2>3, <2>4, <2>5, <2>6 DEF Next
<1>2. Spec => [][AllCalm]_vars
  <2>1. Inv /\ [Next]_vars => [AllCalm]_vars
    BY <1>1
  <2>2. QED
    BY <2>1, InvHolds, PTL DEF Spec
<1>3. QED
  BY <1>2 DEF AllCalm, Calm, ClosedStartsNothing
=============================================================================
