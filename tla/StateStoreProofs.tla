-------------------------- MODULE StateStoreProofs --------------------------
(***************************************************************************)
(* TLAPS proofs about StateStore, for every set of devices, paths, values  *)
(* and updates.                                                            *)
(***************************************************************************)
EXTENDS StateStore, TLAPS

(* The strongest invariant used below: well-typed, and every field holds   *)
(* the newest of the writes it was offered.                                *)
StoreInv == TypeOK /\ FieldsHoldNewest

LEMMA UpdateFields ==
    ASSUME NEW u \in Update
    PROVE  /\ u.device \in Device
           /\ u.source \in Source
           /\ u.monotonic \in Nat
           /\ u.generation \in Nat
           /\ DOMAIN u.leaves \subseteq Path
           /\ \A p \in DOMAIN u.leaves : u.leaves[p] \in Value
           /\ VersionOf(u) \in Version
<1>1. u \in StateUpdate
  BY UpdateAssumption
<1>2. u.leaves \in Leaves
  BY <1>1 DEF StateUpdate
<1>3. PICK P \in SUBSET Path : u.leaves \in [P -> Value]
  BY <1>2 DEF Leaves
<1>4. QED
  BY <1>1, <1>3 DEF StateUpdate, VersionOf, Version

LEMMA NoVersionIsNotAVersion == NoVersion \notin Version
BY DEF NoVersion, Version, Source, Cloud, Lan

(* IsNewer, with equality, is a total preorder on the versions.            *)
LEMMA NewerOrSameIsTransitive ==
    ASSUME NEW a \in Version, NEW b \in Version, NEW c \in Version,
           a = b \/ ~ IsNewer(a, b),
           IsNewer(c, b)
    PROVE  a = c \/ ~ IsNewer(a, c)
BY DEF Version, Source, Cloud, Lan, IsNewer

LEMMA EmptyEntryType == EmptyEntry \in Entry
BY DEF EmptyEntry, Entry, Source

LEMMA MergeType ==
    ASSUME NEW e \in Entry, NEW u \in Update
    PROVE  Merge(e, u) \in Entry
<1>1. Accepted(e, u) \subseteq DOMAIN u.leaves
  BY DEF Accepted
<1>2. SetLeaves(e.values, u.leaves, Accepted(e, u)) \in [Path -> Value \union {Missing}]
  BY <1>1, UpdateFields DEF SetLeaves, Entry
<1>3. [p \in Path |-> IF p \in Accepted(e, u) THEN VersionOf(u) ELSE e.versions[p]]
        \in [Path -> Version \union {NoVersion}]
  BY UpdateFields DEF Entry
<1>4. [e.generations EXCEPT ![u.source] = u.generation]
        \in [Source -> Nat \union {NoGeneration}]
  BY UpdateFields DEF Entry
<1>5. QED
  BY <1>2, <1>3, <1>4 DEF Merge, Entry

(* After a merge, each field holds either what it held or the incoming     *)
(* version, whichever wins; every field of the update holds some version.  *)
LEMMA MergeKeepsWinner ==
    ASSUME NEW e \in Entry, NEW u \in Update, NEW p \in Path
    PROVE  /\ p \in Accepted(e, u) => Merge(e, u).versions[p] = VersionOf(u)
           /\ p \notin Accepted(e, u) => Merge(e, u).versions[p] = e.versions[p]
BY DEF Merge

LEMMA WritesType ==
    ASSUME NEW u \in Update
    PROVE  WritesOf(u) \in SUBSET Write
BY UpdateFields DEF WritesOf, Write

---------------------------------------------------------------------------
LEMMA InitStoreInv == Init => StoreInv
BY EmptyEntryType DEF Init, StoreInv, TypeOK, FieldsHoldNewest

LEMMA AddPreservesStoreInv ==
    ASSUME StoreInv, NEW ids \in SUBSET Device, AddDevices(ids)
    PROVE  StoreInv'
<1>1. \A d \in Device : store'[d] = store[d]
  <2> TAKE d \in Device
  <2>1. CASE d \in ids \ deviceIds
    BY <2>1 DEF AddDevices, StoreInv, TypeOK
  <2>2. CASE d \notin ids \ deviceIds
    BY <2>2 DEF AddDevices
  <2> QED BY <2>1, <2>2
<1>2. store' = store
  BY <1>1 DEF AddDevices, StoreInv, TypeOK
<1>3. QED
  BY <1>2 DEF AddDevices, StoreInv, TypeOK, FieldsHoldNewest

LEMMA RetainPreservesStoreInv ==
    ASSUME StoreInv, NEW ids \in SUBSET Device, RetainDevices(ids)
    PROVE  StoreInv'
<1>1. TypeOK'
  BY EmptyEntryType DEF RetainDevices, StoreInv, TypeOK
<1>2. \A d \in Device : d \in ids => store'[d] = store[d] /\ log'[d] = log[d]
  BY DEF RetainDevices, StoreInv, TypeOK
<1>3. \A d \in Device : d \notin ids => log'[d] = {}
  BY DEF RetainDevices
<1>4. FieldsHoldNewest'
  BY <1>2, <1>3 DEF StoreInv, FieldsHoldNewest
<1>5. QED
  BY <1>1, <1>4 DEF StoreInv

LEMMA ApplyPreservesStoreInv ==
    ASSUME StoreInv, NEW u \in Update, Apply(u)
    PROVE  StoreInv'
<1> DEFINE e == store[u.device]
<1>1. u.device \in Device /\ e \in Entry
  BY UpdateFields DEF StoreInv, TypeOK
<1>2. /\ store' \in [Device -> Entry]
      /\ store'[u.device] = Merge(e, u)
      /\ \A d \in Device \ {u.device} : store'[d] = store[d]
  BY <1>1, MergeType DEF Apply, StoreInv, TypeOK
<1>3. /\ log' \in [Device -> SUBSET Write]
      /\ log'[u.device] = log[u.device] \union WritesOf(u)
      /\ \A d \in Device \ {u.device} : log'[d] = log[d]
  BY <1>1, WritesType DEF Apply, StoreInv, TypeOK
<1>4. TypeOK'
  BY <1>2, <1>3 DEF Apply, StoreInv, TypeOK
<1>5. FieldsHoldNewest'
  <2>1. SUFFICES ASSUME NEW w \in log'[u.device]
                 PROVE  /\ store'[u.device].versions[w.path] # NoVersion
                        /\ \/ store'[u.device].versions[w.path] = w.version
                           \/ ~ IsNewer(w.version, store'[u.device].versions[w.path])
    BY <1>2, <1>3 DEF StoreInv, FieldsHoldNewest
  <2>2. w \in Write /\ w.path \in Path /\ w.version \in Version
    BY <1>1, <1>3 DEF Write
  <2> DEFINE new == Merge(e, u).versions[w.path]
  <2>3. VersionOf(u) \in Version /\ VersionOf(u) # NoVersion
    BY UpdateFields, NoVersionIsNotAVersion
  <2>4. CASE w \in WritesOf(u)
    <3>1. w.path \in DOMAIN u.leaves /\ w.version = VersionOf(u)
      BY <2>4 DEF WritesOf
    <3>2. CASE w.path \in Accepted(e, u)
      BY <3>1, <3>2, <2>2, <2>3, <1>1, <1>2, MergeKeepsWinner
    <3>3. CASE w.path \notin Accepted(e, u)
      <4>1. e.versions[w.path] # NoVersion
            /\ ~ IsNewer(VersionOf(u), e.versions[w.path])
        BY <3>1, <3>3 DEF Accepted
      <4>2. QED
        BY <4>1, <3>1, <3>3, <2>2, <1>1, <1>2, MergeKeepsWinner
    <3>4. QED BY <3>2, <3>3
  <2>5. CASE w \in log[u.device]
    <3>1. /\ e.versions[w.path] # NoVersion
          /\ \/ e.versions[w.path] = w.version
             \/ ~ IsNewer(w.version, e.versions[w.path])
      BY <2>5, <1>1 DEF StoreInv, FieldsHoldNewest
    <3>2. CASE w.path \notin Accepted(e, u)
      BY <3>1, <3>2, <2>2, <1>1, <1>2, MergeKeepsWinner
    <3>3. CASE w.path \in Accepted(e, u)
      <4>1. IsNewer(VersionOf(u), e.versions[w.path])
        BY <3>1, <3>3 DEF Accepted
      <4>2. e.versions[w.path] \in Version
        BY <3>1, <2>2, <1>1 DEF Entry
      <4>3. w.version = VersionOf(u) \/ ~ IsNewer(w.version, VersionOf(u))
        BY <4>1, <4>2, <3>1, <2>2, <2>3, NewerOrSameIsTransitive
      <4>4. QED
        BY <4>3, <3>3, <2>2, <2>3, <1>1, <1>2, MergeKeepsWinner
    <3>4. QED BY <3>2, <3>3
  <2>6. QED
    BY <2>4, <2>5, <1>3
<1>6. QED
  BY <1>4, <1>5 DEF StoreInv

LEMMA NextPreservesStoreInv == StoreInv /\ [Next]_vars => StoreInv'
<1> SUFFICES ASSUME StoreInv, [Next]_vars PROVE StoreInv'
  OBVIOUS
<1>1. ASSUME NEW ids \in SUBSET Device, AddDevices(ids) PROVE StoreInv'
  BY <1>1, AddPreservesStoreInv
<1>2. ASSUME NEW ids \in SUBSET Device, RetainDevices(ids) PROVE StoreInv'
  BY <1>2, RetainPreservesStoreInv
<1>3. ASSUME NEW u \in Update, Apply(u) PROVE StoreInv'
  BY <1>3, ApplyPreservesStoreInv
<1>4. CASE UNCHANGED vars
  BY <1>4 DEF vars, StoreInv, TypeOK, FieldsHoldNewest
<1>5. QED
  BY <1>1, <1>2, <1>3, <1>4 DEF Next

(* The store's dictionaries are well-formed in every reachable state.      *)
THEOREM StoreTypeCorrect == Spec => []TypeOK
<1>1. StoreInv => TypeOK
  BY DEF StoreInv
<1>2. QED
  BY <1>1, InitStoreInv, NextPreservesStoreInv, PTL DEF Spec

(* Every field of every device holds the newest, LAN first, of the writes  *)
(* it was offered, in whatever order cloud and LAN updates arrived.        *)
THEOREM StoreHoldsNewest == Spec => []FieldsHoldNewest
<1>1. StoreInv => FieldsHoldNewest
  BY DEF StoreInv
<1>2. QED
  BY <1>1, InitStoreInv, NextPreservesStoreInv, PTL DEF Spec

---------------------------------------------------------------------------
LEMMA LeavesDoNotClash ==
    ASSUME NEW u \in Update
    PROVE  \A p, q \in DOMAIN u.leaves : <<p, q>> \notin Clash
<1>1. u \in StateUpdate
  BY UpdateAssumption
<1>2. u.leaves \in Leaves
  BY <1>1 DEF StateUpdate
<1>3. QED
  BY <1>2 DEF Leaves

(* What a merge shows: a written leaf, nothing where one clashes, or what  *)
(* was shown before.                                                       *)
LEMMA MergeValues ==
    ASSUME NEW e \in Entry, NEW u \in Update, NEW p \in Path
    PROVE  /\ p \in Accepted(e, u) => Merge(e, u).values[p] = u.leaves[p]
           /\ (/\ p \notin Accepted(e, u)
               /\ \E q \in Accepted(e, u) : <<q, p>> \in Clash)
                => Merge(e, u).values[p] = Missing
           /\ (/\ p \notin Accepted(e, u)
               /\ \A q \in Accepted(e, u) : <<q, p>> \notin Clash)
                => Merge(e, u).values[p] = e.values[p]
BY DEF Merge, SetLeaves

(* The two parts of ValuesComeFromWrites for one field of an entry, whose  *)
(* log is given.                                                           *)
HasSource(e, offered, p) ==
    e.versions[p] # NoVersion =>
        \/ \E w \in offered : /\ w.path = p
                              /\ w.version = e.versions[p]
                              /\ w.value = e.values[p]
        \/ /\ e.values[p] = Missing
           /\ \E q \in Path : <<q, p>> \in Clash /\ e.versions[q] # NoVersion

OneShape(e, p) ==
    e.values[p] # Missing =>
        \A q \in Path : <<p, q>> \in Clash => e.values[q] = Missing

LEMMA ValuesByField ==
    ValuesComeFromWrites <=>
        \A d \in Device, p \in Path :
            HasSource(store[d], log[d], p) /\ OneShape(store[d], p)
BY DEF ValuesComeFromWrites, HasSource, OneShape

LEMMA ValuesByFieldPrime ==
    ValuesComeFromWrites' <=>
        \A d \in Device, p \in Path :
            HasSource(store'[d], log'[d], p) /\ OneShape(store'[d], p)
BY DEF ValuesComeFromWrites, HasSource, OneShape

LEMMA EmptyEntryShowsNothing ==
    ASSUME NEW p \in Path
    PROVE  HasSource(EmptyEntry, {}, p) /\ OneShape(EmptyEntry, p)
BY DEF HasSource, OneShape, EmptyEntry

LEMMA MergeHasSource ==
    ASSUME NEW e \in Entry, NEW u \in Update, NEW offered, NEW p \in Path,
           HasSource(e, offered, p)
    PROVE  HasSource(Merge(e, u), offered \union WritesOf(u), p)
<1> DEFINE m == Merge(e, u)
<1>1. \A q \in Path : e.versions[q] # NoVersion => m.versions[q] # NoVersion
  BY MergeKeepsWinner, UpdateFields, NoVersionIsNotAVersion
<1>2. CASE p \in Accepted(e, u)
  <2>1. p \in DOMAIN u.leaves
    BY <1>2 DEF Accepted
  <2> DEFINE w == [path |-> p, version |-> VersionOf(u), value |-> u.leaves[p]]
  <2>2. w \in WritesOf(u)
    BY <2>1 DEF WritesOf
  <2>3. w.version = m.versions[p] /\ w.value = m.values[p] /\ w.path = p
    BY <1>2, MergeKeepsWinner, MergeValues
  <2>4. QED
    BY <2>2, <2>3 DEF HasSource
<1>3. CASE p \notin Accepted(e, u) /\ \E q \in Accepted(e, u) : <<q, p>> \in Clash
  <2>1. PICK q \in Accepted(e, u) : <<q, p>> \in Clash
    BY <1>3
  <2>2. q \in Path
    BY <2>1, UpdateFields DEF Accepted
  <2>3. m.versions[q] # NoVersion
    BY <2>1, <2>2, MergeKeepsWinner, UpdateFields, NoVersionIsNotAVersion
  <2>4. m.values[p] = Missing
    BY <1>3, MergeValues
  <2>5. QED
    BY <2>1, <2>2, <2>3, <2>4 DEF HasSource
<1>4. CASE p \notin Accepted(e, u) /\ \A q \in Accepted(e, u) : <<q, p>> \notin Clash
  <2>1. m.values[p] = e.values[p] /\ m.versions[p] = e.versions[p]
    BY <1>4, MergeValues, MergeKeepsWinner
  <2>2. QED
    BY <2>1, <1>1 DEF HasSource
<1>5. QED
  BY <1>2, <1>3, <1>4

LEMMA MergeOneShape ==
    ASSUME NEW e \in Entry, NEW u \in Update, NEW p \in Path, OneShape(e, p)
    PROVE  OneShape(Merge(e, u), p)
<1> DEFINE m == Merge(e, u)
<1> SUFFICES ASSUME m.values[p] # Missing, NEW q \in Path, <<p, q>> \in Clash
             PROVE  m.values[q] = Missing
  BY DEF OneShape
<1>1. <<q, p>> \in Clash
  BY ClashAssumption
<1>2. q \notin Accepted(e, u)
  <2>1. SUFFICES ASSUME q \in Accepted(e, u) PROVE FALSE
    OBVIOUS
  <2>2. p \in Accepted(e, u)
    BY <1>1, <2>1, MergeValues
  <2>3. QED
    BY <2>1, <2>2, LeavesDoNotClash DEF Accepted
<1>3. CASE p \in Accepted(e, u)
  BY <1>2, <1>3, MergeValues
<1>4. CASE p \notin Accepted(e, u)
  <2>1. m.values[p] = e.values[p]
    BY <1>4, MergeValues
  <2>2. e.values[q] = Missing
    BY <2>1 DEF OneShape
  <2>3. QED
    BY <1>2, <2>2, MergeValues
<1>5. QED
  BY <1>3, <1>4

LEMMA ApplyInventsNothing ==
    ASSUME TypeOK, ValuesComeFromWrites, NEW u \in Update, Apply(u)
    PROVE  ValuesComeFromWrites'
<1>1. u.device \in Device /\ store[u.device] \in Entry
  BY UpdateFields DEF TypeOK
<1>2. /\ store'[u.device] = Merge(store[u.device], u)
      /\ \A d \in Device \ {u.device} : store'[d] = store[d]
      /\ log'[u.device] = log[u.device] \union WritesOf(u)
      /\ \A d \in Device \ {u.device} : log'[d] = log[d]
  BY <1>1 DEF Apply, TypeOK
<1>3. SUFFICES ASSUME NEW d \in Device, NEW p \in Path
               PROVE  HasSource(store'[d], log'[d], p) /\ OneShape(store'[d], p)
  BY ValuesByFieldPrime
<1>4. HasSource(store[d], log[d], p) /\ OneShape(store[d], p)
  BY ValuesByField
<1>5. CASE d = u.device
  BY <1>1, <1>2, <1>4, <1>5, MergeHasSource, MergeOneShape
<1>6. CASE d # u.device
  BY <1>2, <1>4, <1>6
<1>7. QED
  BY <1>5, <1>6

LEMMA WhitelistInventsNothing ==
    ASSUME TypeOK, ValuesComeFromWrites, NEW ids \in SUBSET Device,
           AddDevices(ids) \/ RetainDevices(ids)
    PROVE  ValuesComeFromWrites'
<1>1. SUFFICES ASSUME NEW d \in Device, NEW p \in Path
               PROVE  HasSource(store'[d], log'[d], p) /\ OneShape(store'[d], p)
  BY ValuesByFieldPrime
<1>2. \/ store'[d] = store[d] /\ log'[d] = log[d]
      \/ store'[d] = EmptyEntry /\ log'[d] = {}
  BY DEF AddDevices, RetainDevices, TypeOK
<1>3. QED
  BY <1>2, ValuesByField, EmptyEntryShowsNothing

(* Every value shown comes from a write of its field since the device was  *)
(* added, and of two clashing shapes of a property at most one is shown.   *)
THEOREM StoreInventsNothing == Spec => []ValuesComeFromWrites
<1>1. Init => ValuesComeFromWrites
  BY EmptyEntryShowsNothing, ValuesByField DEF Init
<1>2. StoreInv /\ ValuesComeFromWrites /\ [Next]_vars => ValuesComeFromWrites'
  <2> SUFFICES ASSUME StoreInv, ValuesComeFromWrites, [Next]_vars
               PROVE  ValuesComeFromWrites'
    OBVIOUS
  <2>1. CASE Next
    BY <2>1, ApplyInventsNothing, WhitelistInventsNothing DEF Next, StoreInv
  <2>2. CASE UNCHANGED vars
    BY <2>2 DEF vars, ValuesComeFromWrites
  <2>3. QED
    BY <2>1, <2>2
<1>3. QED
  BY <1>1, <1>2, InitStoreInv, NextPreservesStoreInv, PTL DEF Spec
=============================================================================
