---------------------------- MODULE StateStore ----------------------------
(***************************************************************************)
(* The StateStore class of state_store.py: a whitelist of devices and, per *)
(* device, the merged fields with the version that wrote each of them.     *)
(* Every operation is synchronous, hence one step.  The callers choose the *)
(* updates: the CONSTANT Update is the set of updates they may pass.       *)
(***************************************************************************)
EXTENDS StateMerge, FiniteSets

CONSTANTS
    Update,     \* the updates callers may apply
    MaxWrites   \* bound on the writes recorded per device

ASSUME UpdateAssumption == Update \subseteq StateUpdate

VARIABLES
    deviceIds,  \* _device_ids, the whitelist
    store,      \* _values, _versions and _generations of each device
    log         \* history: every write offered since the device was added

vars == <<deviceIds, store, log>>

Write == [path : Path, version : Version, value : Value]

WritesOf(u) == { [path |-> p, version |-> VersionOf(u), value |-> u.leaves[p]]
                   : p \in DOMAIN u.leaves }

Init ==
    /\ deviceIds \in SUBSET Device \ {{}}
    /\ store = [d \in Device |-> EmptyEntry]
    /\ log = [d \in Device |-> {}]

AddDevices(ids) ==
    /\ deviceIds' = deviceIds \union ids
    /\ store' = [d \in Device |-> IF d \in ids \ deviceIds THEN EmptyEntry
                                  ELSE store[d]]
    /\ UNCHANGED log

(* Mutant: the whitelist shrinks, the state of the removed devices stays.  *)
RetainWhitelistOnly(ids) ==
    /\ deviceIds' = deviceIds \intersect ids
    /\ UNCHANGED store
    /\ log' = [d \in Device |-> IF d \in ids THEN log[d] ELSE {}]

RetainDevices(ids) ==
    /\ deviceIds' = deviceIds \intersect ids
    /\ store' = [d \in Device |-> IF d \in deviceIds \ ids THEN EmptyEntry
                                  ELSE store[d]]
    /\ log' = [d \in Device |-> IF d \in ids THEN log[d] ELSE {}]

(* An update for an unknown device or of a stale generation raises before  *)
(* it touches anything.                                                    *)
Apply(u) ==
    /\ u.device \in deviceIds
    /\ ~ StaleGeneration(store[u.device], u)
    /\ Cardinality(log[u.device] \union WritesOf(u)) <= MaxWrites
    /\ store' = [store EXCEPT ![u.device] = Merge(@, u)]
    /\ log' = [log EXCEPT ![u.device] = @ \union WritesOf(u)]
    /\ UNCHANGED deviceIds

Next ==
    \/ \E ids \in SUBSET Device : AddDevices(ids) \/ RetainDevices(ids)
    \/ \E u \in Update : Apply(u)

Spec == Init /\ [][Next]_vars
---------------------------------------------------------------------------
(* Type correctness of the whitelist and the per-device dictionaries; a    *)
(* device outside the whitelist has no trace of state (retain_devices).    *)
TypeOK ==
    /\ deviceIds \subseteq Device
    /\ store \in [Device -> Entry]
    /\ log \in [Device -> SUBSET Write]
    /\ \A d \in Device \ deviceIds : store[d] = EmptyEntry /\ log[d] = {}

(* Whatever the order in which cloud and LAN updates arrive, the version   *)
(* of a field is a maximum, in the LAN-first order, of all the writes of   *)
(* that field since the device was added: apply loses no newer write and   *)
(* keeps no older one (state_store.py:90-99).                              *)
FieldsHoldNewest ==
    \A d \in Device : \A w \in log[d] :
        /\ store[d].versions[w.path] # NoVersion
        /\ \/ store[d].versions[w.path] = w.version
           \/ ~ IsNewer(w.version, store[d].versions[w.path])

(* Nothing is invented: a version held comes from a write offered for that *)
(* field, and the value shown is that write's.  A field that was written   *)
(* is blank only when a field of the other shape was written; and since    *)
(* the values are the leaves of one dictionary, two shapes of one property *)
(* are never shown together (state_store.py:94-99, 173-181).               *)
ValuesComeFromWrites ==
    \A d \in Device, p \in Path :
        /\ store[d].versions[p] # NoVersion =>
             \/ \E w \in log[d] : /\ w.path = p
                                  /\ w.version = store[d].versions[p]
                                  /\ w.value = store[d].values[p]
             \/ /\ store[d].values[p] = Missing
                /\ \E q \in Path : /\ <<q, p>> \in Clash
                                   /\ store[d].versions[q] # NoVersion
        /\ store[d].values[p] # Missing =>
             \A q \in Path : <<p, q>> \in Clash => store[d].values[q] = Missing

(* What ARCHITECTURE.md:60 and test_older_cloud_cannot_roll_back_lan_field *)
(* promise: a cloud update never alters the value of a field that the LAN  *)
(* reported.  It fails for fields of clashing shape.                       *)
LanOutranksCloud ==
    [][ \A u \in Update : (u.source = Cloud /\ Apply(u)) =>
            \A p \in Path : store[u.device].versions[p].source = Lan =>
                store'[u.device].values[p] = store[u.device].values[p] ]_vars
=============================================================================
