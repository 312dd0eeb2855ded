---------------------------- MODULE StateMerge ----------------------------
(***************************************************************************)
(* The field-level merge of state_store.py as operators on the entry of    *)
(* one device: which incoming fields win, and what they do to the values   *)
(* and versions already held.                                              *)
(*                                                                         *)
(* A field is a path of the device's nested state dictionary.  Two paths   *)
(* CLASH when one is a strict prefix of the other: "properties.onoff" and  *)
(* "properties.onoff.status" cannot both be leaves of one dictionary, so   *)
(* writing one removes the other's value.  Both shapes of a property are   *)
(* legal (device_profiles.property_value accepts a scalar and a mapping).  *)
(***************************************************************************)
EXTENDS Integers

CONSTANTS
    Device,   \* device identifiers
    Path,     \* paths of leaves of a device's state
    Clash,    \* pairs of paths of which one is a strict prefix of the other
    Value,    \* leaf values
    Missing   \* no leaf at this path (_MISSING)

ASSUME ClashAssumption ==
    /\ Clash \subseteq Path \X Path
    /\ \A p \in Path : <<p, p>> \notin Clash
    /\ \A p, q \in Path : <<p, q>> \in Clash => <<q, p>> \in Clash

ASSUME MissingAssumption == Missing \notin Value

Cloud == "cloud"
Lan   == "lan"
Source == {Cloud, Lan}

Version   == [source : Source, monotonic : Nat, generation : Nat]
NoVersion == [source |-> "none", monotonic |-> 0, generation |-> 0]

NoGeneration == -1

(* The leaves of an update are those of one dictionary: no two clash.      *)
Leaves == { leaves \in UNION { [P -> Value] : P \in SUBSET Path } :
              \A p, q \in DOMAIN leaves : <<p, q>> \notin Clash }

StateUpdate == [device : Device, leaves : Leaves,
                source : Source, monotonic : Nat, generation : Nat]

Entry == [values      : [Path -> Value \union {Missing}],
          versions    : [Path -> Version \union {NoVersion}],
          generations : [Source -> Nat \union {NoGeneration}]]

EmptyEntry == [values      |-> [p \in Path |-> Missing],
               versions    |-> [p \in Path |-> NoVersion],
               generations |-> [s \in Source |-> NoGeneration]]

VersionOf(u) == [source     |-> u.source,
                 monotonic  |-> u.monotonic,
                 generation |-> u.generation]

(* LAN beats the cloud whatever the clocks say; within one source the      *)
(* later reception wins and equal receptions go by generation.             *)
IsNewer(incoming, current) ==
    IF incoming.source # current.source
    THEN incoming.source = Lan
    ELSE IF incoming.monotonic # current.monotonic
         THEN incoming.monotonic > current.monotonic
         ELSE incoming.generation >= current.generation

(* apply raises StaleGenerationError, and changes nothing, in this case.   *)
StaleGeneration(e, u) == u.generation < e.generations[u.source]

(* Mutant: every field of the update wins.                                 *)
AcceptedAll(e, u) == DOMAIN u.leaves

Accepted(e, u) ==
    { p \in DOMAIN u.leaves : \/ e.versions[p] = NoVersion
                              \/ IsNewer(VersionOf(u), e.versions[p]) }

(* Mutant: only the leaf itself is written.                                *)
SetLeafOnly(values, leaves, written) ==
    [p \in Path |-> IF p \in written THEN leaves[p] ELSE values[p]]

(* _set_path: the leaf is written, and a leaf above or below it is gone.   *)
SetLeaves(values, leaves, written) ==
    [p \in Path |-> IF p \in written THEN leaves[p]
                    ELSE IF \E q \in written : <<q, p>> \in Clash THEN Missing
                    ELSE values[p]]

Merge(e, u) ==
    LET accepted == Accepted(e, u) IN
    [values      |-> SetLeaves(e.values, u.leaves, accepted),
     versions    |-> [p \in Path |-> IF p \in accepted THEN VersionOf(u)
                                     ELSE e.versions[p]],
     generations |-> [e.generations EXCEPT ![u.source] = u.generation]]

(* The Boolean apply returns: did an accepted leaf alter what is shown?    *)
Changed(e, u) == \E p \in Accepted(e, u) : e.values[p] # u.leaves[p]
=============================================================================
