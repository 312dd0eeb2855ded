-------------------------- MODULE CoordinatorState --------------------------
(***************************************************************************)
(* How coordinator.py merges the three sources of state of one device: the *)
(* cloud snapshot of a refresh, the events of the cloud's lock stream and  *)
(* the pushes of the gateway.  Between two awaits the coordinator runs     *)
(* alone: a refresh is the start of the fetch, the merge of what it        *)
(* returned and, after the awaits on the stream and the gateways, its      *)
(* return to Home Assistant; a push or an event is one step.               *)
(*                                                                         *)
(* The device has a field the cloud reports in both ways, its door, and a  *)
(* field the gateway and the snapshot report, its level.  A door value is  *)
(* the number of the door change it shows, so that old and new can be told *)
(* apart; the server stamps every change with its second (updateTimeSec).  *)
(* Other devices may exist; an empty snapshot drops the whole store.       *)
(***************************************************************************)
EXTENDS StateMerge, Sequences

CONSTANTS
    Door, Level,
    MaxChanges,  \* bound on the door changes
    MaxTime      \* bound on the reception times

ASSUME CoordinatorAssumption ==
    /\ Path = {Door, Level} /\ Door # Level /\ Clash = {}
    /\ MaxChanges \in Nat \ {0} /\ MaxTime \in Nat
    /\ Value = 0..MaxChanges

VARIABLES
    stamped,         \* the server: do snapshots and events carry updateTimeSec?
    seconds,         \* the server: the second of each door change
    stream,          \* the door changes on their way in the lock stream
    refresh,         \* a refresh under way, and the snapshot it gets
    known,           \* the device is in self.devices and in the store
    entry,           \* the device's entry in the store
    cloudGeneration, \* _cloud_generation
    lanGeneration,   \* _lan_generation
    eventTime,       \* _cloud_event_times of the device
    now,             \* monotonic(): later receptions have later times
    debouncing,      \* _notify_task sleeps
    notified,        \* the state Home Assistant was last given
    succeeded        \* last_update_success

serverVars == <<stamped, seconds, stream>>
storeVars == <<known, entry, cloudGeneration, lanGeneration, eventTime>>
published == <<notified, succeeded>>
vars == <<serverVars, refresh, storeVars, now, debouncing, published>>

NoTime == -1
NoRefresh == [pc |-> "idle", started |-> 0, door |-> 0, level |-> 0,
              present |-> FALSE, others |-> FALSE, previous |-> FALSE]

door == Len(seconds)
SecondOf(n) == IF n = 0 THEN 0 ELSE seconds[n]
StampOf(n) == IF stamped THEN SecondOf(n) ELSE NoTime

(* _sync_public_states, which follows every change of the store.           *)
device_states(isKnown, e) == IF isKnown THEN e.values ELSE EmptyEntry.values

(* async_set_updated_data, and the return of a refresh: the entities read  *)
(* what is shown, and the last update counts as a success.                 *)
Publish ==
    /\ notified' = device_states(known', entry')
    /\ succeeded' = TRUE

(* Home Assistant takes the exception of a refresh; it tells the entities  *)
(* unless the last update before the refresh had failed as well.           *)
Fail ==
    /\ notified' = IF refresh.previous THEN device_states(known', entry') ELSE notified
    /\ succeeded' = FALSE

CloudUpdate(leaves, monotonic) ==
    [device |-> CHOOSE d \in Device : TRUE, leaves |-> leaves, source |-> Cloud,
     monotonic |-> monotonic, generation |-> cloudGeneration + 1]

Init ==
    /\ stamped \in BOOLEAN /\ seconds = << >> /\ stream = << >>
    /\ refresh = NoRefresh
    /\ known = FALSE /\ entry = EmptyEntry
    /\ cloudGeneration = 0 /\ lanGeneration = 0
    /\ eventTime = NoTime
    /\ now = 0 /\ debouncing = FALSE
    /\ notified = EmptyEntry.values /\ succeeded = TRUE
---------------------------------------------------------------------------
(* The server and the stream (external).                                   *)

DoorChanges ==
    /\ door < MaxChanges
    /\ \E later \in {0, 1} : seconds' = Append(seconds, SecondOf(door) + later)
    /\ stream' = Append(stream, door + 1)
    /\ UNCHANGED <<stamped, refresh, storeVars, now, debouncing, published>>

(* The stream is reconnected: what was on its way is lost.                 *)
StreamDrops ==
    /\ stream # << >> /\ stream' = << >>
    /\ UNCHANGED <<stamped, seconds, refresh, storeVars, now, debouncing, published>>

(* The server answers a fetch with the door state it knows, which may be   *)
(* an older one; the device may have been removed from the account.        *)
Serve(n, level, present, others) ==
    /\ refresh.pc = "fetching"
    /\ refresh' = [refresh EXCEPT !.pc = "answered", !.door = n, !.level = level,
                                  !.present = present, !.others = others]
    /\ UNCHANGED <<serverVars, storeVars, now, debouncing, published>>

FetchFails ==
    /\ refresh.pc = "fetching"
    /\ refresh' = NoRefresh
    /\ UNCHANGED <<serverVars, storeVars, now, debouncing>>
    /\ Fail
---------------------------------------------------------------------------
(* _refresh_devices_from_cloud                                             *)

BeginRefresh ==
    /\ refresh.pc = "idle" /\ now < MaxTime
    /\ now' = now + 1
    /\ refresh' = [NoRefresh EXCEPT !.pc = "fetching", !.started = now + 1,
                                    !.previous = succeeded]
    /\ UNCHANGED <<serverVars, storeVars, debouncing, published>>

(* Mutant: stamps are not compared.                                        *)
NeverOutdated(stamp) == FALSE

(* Mutant: equal stamps count as outdated.                                 *)
OutdatedOrSame(stamp) == stamp # NoTime /\ eventTime # NoTime /\ stamp <= eventTime

(* A snapshot older, by its stamp, than an event already received leaves   *)
(* the properties out.                                                     *)
Outdated(stamp) == stamp # NoTime /\ eventTime # NoTime /\ stamp < eventTime

SnapshotLeaves ==
    IF Outdated(StampOf(refresh.door))
    THEN [p \in {Level} |-> refresh.level]
    ELSE [p \in Path |-> IF p = Door THEN refresh.door ELSE refresh.level]

(* The state of a snapshot counts as received when its fetch began.        *)
SnapshotTime == refresh.started

Later(stamp) == IF stamp > eventTime THEN stamp ELSE eventTime

Empty(snapshot) == ~ snapshot.present /\ ~ snapshot.others

(* retain_devices, the merge and the publication.  A snapshot without any  *)
(* device discards the store, uses no generation, and leaves the           *)
(* publication to the return of the refresh.                               *)
ApplySnapshot ==
    /\ refresh.pc = "answered"
    /\ known' = refresh.present
    /\ entry' = IF refresh.present
                THEN Merge(entry, CloudUpdate(SnapshotLeaves, SnapshotTime))
                ELSE EmptyEntry
    /\ eventTime' = IF refresh.present THEN Later(StampOf(refresh.door)) ELSE NoTime
    /\ cloudGeneration' = IF Empty(refresh) THEN cloudGeneration ELSE cloudGeneration + 1
    /\ refresh' = [refresh EXCEPT !.pc = "returning", !.started = 0, !.door = 0, !.level = 0]
    /\ UNCHANGED <<serverVars, lanGeneration, now, debouncing>>
    /\ IF Empty(refresh) THEN UNCHANGED published ELSE Publish

(* The cloud stream is configured and the gateways are reconciled and      *)
(* connected, and the refresh returns, or one of them raises.              *)
RefreshReturns ==
    /\ refresh.pc = "returning"
    /\ refresh' = NoRefresh
    /\ UNCHANGED <<serverVars, storeVars, now, debouncing>>
    /\ Publish

RefreshRaises ==
    /\ refresh.pc = "returning"
    /\ refresh' = NoRefresh
    /\ UNCHANGED <<serverVars, storeVars, now, debouncing>>
    /\ Fail
---------------------------------------------------------------------------
(* Mutant: the generation used is not remembered.                          *)
LockEventSameGeneration ==
    /\ stream # << >> /\ now < MaxTime
    /\ stream' = Tail(stream)
    /\ LET n == Head(stream)
           u == CloudUpdate([p \in {Door} |-> n], now + 1) IN
       IF ~ known \/ Outdated(StampOf(n))
       THEN UNCHANGED <<storeVars, now, published>>
       ELSE /\ eventTime' = Later(StampOf(n))
            /\ entry' = Merge(entry, u)
            /\ now' = now + 1
            /\ UNCHANGED <<known, cloudGeneration, lanGeneration>>
            /\ IF Changed(entry, u) THEN Publish ELSE UNCHANGED published
    /\ UNCHANGED <<stamped, seconds, refresh, debouncing>>

(* _on_cloud_lock_event for the next event of the stream.                  *)
LockEvent ==
    /\ stream # << >> /\ now < MaxTime
    /\ stream' = Tail(stream)
    /\ LET n == Head(stream)
           u == CloudUpdate([p \in {Door} |-> n], now + 1) IN
       IF ~ known \/ Outdated(StampOf(n))
       THEN UNCHANGED <<storeVars, now, published>>
       ELSE /\ eventTime' = Later(StampOf(n))
            /\ cloudGeneration' = cloudGeneration + 1
            /\ entry' = Merge(entry, u)
            /\ now' = now + 1
            /\ UNCHANGED <<known, lanGeneration>>
            /\ IF Changed(entry, u) THEN Publish ELSE UNCHANGED published
    /\ UNCHANGED <<stamped, seconds, refresh, debouncing>>

(* Mutant: a running debounce is cancelled and not started again.          *)
LanPushCancelling(level) ==
    /\ known /\ now < MaxTime
    /\ LET u == [device |-> CHOOSE d \in Device : TRUE, leaves |-> [p \in {Level} |-> level],
                 source |-> Lan, monotonic |-> now + 1, generation |-> lanGeneration + 1] IN
       /\ entry' = Merge(entry, u)
       /\ debouncing' = IF Changed(entry, u) THEN ~ debouncing ELSE debouncing
    /\ lanGeneration' = lanGeneration + 1
    /\ now' = now + 1
    /\ UNCHANGED <<serverVars, refresh, known, cloudGeneration, eventTime, published>>

(* _on_status_update for a push that passes its checks: the publication    *)
(* waits, and the wait begins anew with every push that changes something. *)
LanPush(level) ==
    /\ known /\ now < MaxTime
    /\ LET u == [device |-> CHOOSE d \in Device : TRUE, leaves |-> [p \in {Level} |-> level],
                 source |-> Lan, monotonic |-> now + 1, generation |-> lanGeneration + 1] IN
       /\ entry' = Merge(entry, u)
       /\ debouncing' = (debouncing \/ Changed(entry, u))
    /\ lanGeneration' = lanGeneration + 1
    /\ now' = now + 1
    /\ UNCHANGED <<serverVars, refresh, known, cloudGeneration, eventTime, published>>

(* _debounced_notify publishes what is there when its sleep ends.          *)
DebounceEnds ==
    /\ debouncing
    /\ debouncing' = FALSE
    /\ UNCHANGED <<serverVars, refresh, storeVars, now>>
    /\ Publish
---------------------------------------------------------------------------
Next ==
    \/ DoorChanges \/ StreamDrops \/ FetchFails
    \/ \E n \in 0..door, level \in {0, 1}, present, others \in BOOLEAN :
         Serve(n, level, present, others)
    \/ BeginRefresh \/ ApplySnapshot \/ RefreshReturns \/ RefreshRaises
    \/ LockEvent
    \/ \E level \in {0, 1} : LanPush(level)
    \/ DebounceEnds

Spec == Init /\ [][Next]_vars
---------------------------------------------------------------------------
(* Types; the generations handed out are never behind those the store has  *)
(* seen, so that apply never refuses an update as stale: a refresh takes   *)
(* its generation after the fetch, not before (coordinator.py:227, 405).   *)
TypeOK ==
    /\ stamped \in BOOLEAN
    /\ \A n \in DOMAIN seconds : seconds[n] \in 0..MaxChanges
    /\ \A i \in DOMAIN stream : stream[i] \in 1..door
    /\ refresh.pc \in {"idle", "fetching", "answered", "returning"}
    /\ refresh.started \in 0..now /\ refresh.door \in 0..door
    /\ known \in BOOLEAN /\ debouncing \in BOOLEAN /\ succeeded \in BOOLEAN
    /\ entry \in [values : [Path -> Value \union {Missing}],
                  versions : [Path -> [source : Source, monotonic : 0..MaxTime, generation : Nat]
                                         \union {NoVersion}],
                  generations : [Source -> Nat \union {NoGeneration}]]
    /\ entry.generations[Cloud] <= cloudGeneration
    /\ entry.generations[Lan] <= lanGeneration
    /\ eventTime \in 0..MaxChanges \union {NoTime}

Shown == entry.values[Door]

(* While the device is known, the door it shows never goes back to a       *)
(* change of an earlier second: neither an event that was delayed, nor a   *)
(* snapshot that was fetched before an event and merged after it, nor one  *)
(* the server answered with old data, undoes what was already received     *)
(* (coordinator.py:232-246, 396-403).  Nor, with or without the stamps of  *)
(* the server, does a fetch undo the event received while it was under     *)
(* way: "reception order keeps an old snapshot in flight from rolling back *)
(* a live event" (ARCHITECTURE.md:60; coordinator.py:174, 253, 415).       *)
DoorNeverRollsBack ==
    [][ /\ (stamped /\ known /\ known' /\ Shown # Missing) =>
             /\ Shown' # Missing
             /\ SecondOf(Shown') >= SecondOf(Shown)
        /\ (ApplySnapshot /\ refresh.present
              /\ entry.versions[Door].monotonic > refresh.started)
             => Shown' = Shown ]_vars

(* Events may be lost and the watermark may run ahead of the door that is  *)
(* shown, because a snapshot advances it even when the store rejects its   *)
(* properties as received too early: the next undisturbed refresh repairs  *)
(* it (coordinator.py:234-246).                                            *)
RefreshRepairs ==
    [][ (ApplySnapshot /\ refresh.present /\ refresh.door = door
           /\ entry.versions[Door].monotonic <= refresh.started)
          => Shown' = door ]_vars

(* Home Assistant lacks a state the coordinator shows only while the       *)
(* debounce of LAN pushes is running, or because a snapshot without any    *)
(* device has discarded the store: that is published by the return of the  *)
(* refresh, not by the merge, and if the refresh raises instead, only if   *)
(* the update before it had succeeded (coordinator.py:201-214, 426-430,    *)
(* 561-582, 786-798, 858-861).                                             *)
UnpublishedOnlyInDebounce ==
    notified # device_states(known, entry) =>
        \/ debouncing
        \/ refresh.pc = "returning" /\ Empty(refresh)
        \/ ~ known /\ ~ succeeded
=============================================================================
