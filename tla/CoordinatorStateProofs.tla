---------------------- MODULE CoordinatorStateProofs ----------------------
(***************************************************************************)
(* TLAPS proofs about CoordinatorState, for any number of door changes and *)
(* receptions, and any order of snapshots, events, pushes and losses.      *)
(***************************************************************************)
EXTENDS CoordinatorState, TLAPS

---------------------------------------------------------------------------
(* The inductive invariant.                                                *)

(* The server stamps door changes in order, none later than its number.    *)
ServerOrdered ==
    /\ stamped \in BOOLEAN
    /\ seconds \in Seq(Nat) /\ door <= MaxChanges
    /\ \A n \in 1..door : seconds[n] <= n
    /\ \A m, n \in 1..door : m <= n => seconds[m] <= seconds[n]
    /\ stream \in Seq(Nat)
    /\ \A i \in 1..Len(stream) : stream[i] \in 1..door

(* A fetch brings a state that existed, and began in the past.             *)
Refreshes(time, changes) ==
    [pc : {"idle", "fetching", "answered", "returning"}, started : 0..time,
     door : 0..changes, level : {0, 1},
     present : BOOLEAN, others : BOOLEAN, previous : BOOLEAN]

FetchOfThePast ==
    /\ now \in 0..MaxTime
    /\ refresh \in Refreshes(now, door)

(* A refresh that has merged its snapshot returns with the devices it left *)
(* in the store: only another refresh could change them.                   *)
ReturnsWhatItMerged ==
    /\ succeeded \in BOOLEAN
    /\ refresh.pc = "returning" => known = refresh.present

StoredVersion == [source : Source, monotonic : 0..MaxTime, generation : Nat]

StoredEntry == [values : [Path -> Value \union {Missing}],
                versions : [Path -> StoredVersion \union {NoVersion}],
                generations : [Source -> Nat \union {NoGeneration}]]

(* The store: nothing is later than now, the door comes from the cloud, no *)
(* generation is ahead, and a device that is not known has left nothing.   *)
StoreBehind ==
    /\ known \in BOOLEAN /\ debouncing \in BOOLEAN
    /\ cloudGeneration \in Nat /\ lanGeneration \in Nat
    /\ entry \in StoredEntry
    /\ entry.generations[Cloud] <= cloudGeneration
    /\ entry.generations[Lan] <= lanGeneration
    /\ entry.versions[Door] # NoVersion =>
         /\ entry.versions[Door].source = Cloud
         /\ entry.versions[Door].monotonic <= now
         /\ entry.versions[Door].generation <= cloudGeneration
         /\ Shown \in 0..door
    /\ entry.versions[Door] = NoVersion => Shown = Missing
    /\ ~ known => entry = EmptyEntry /\ eventTime = NoTime

(* The watermark is between the door that is shown and the server's last   *)
(* change.                                                                 *)
WatermarkBetween ==
    /\ eventTime \in Nat \union {NoTime}
    /\ eventTime <= SecondOf(door)
    /\ (stamped /\ known) => /\ entry.versions[Door] # NoVersion
                             /\ SecondOf(Shown) <= eventTime

Inv == ServerOrdered /\ FetchOfThePast /\ StoreBehind /\ WatermarkBetween
         /\ ReturnsWhatItMerged /\ UnpublishedOnlyInDebounce

---------------------------------------------------------------------------
(* Versions, updates and seconds.                                          *)

LEMMA DoorIsAPath == Door \in Path /\ Level \in Path /\ Door # Level
BY CoordinatorAssumption

LEMMA DoorsAreValues == ASSUME NEW n \in 0..MaxChanges PROVE n \in Value /\ n # Missing
BY CoordinatorAssumption, MissingAssumption

LEMMA LevelsAreValues == \A level \in {0, 1} : level \in Value
BY CoordinatorAssumption

LEMMA EmptyEntryStored == EmptyEntry \in StoredEntry
BY DEF EmptyEntry, StoredEntry, Source

(* What a merge of a well-typed update does to an entry: no two fields     *)
(* clash, so the accepted leaves are written and the others are kept.      *)
Legal(u) ==
    /\ u.source \in Source /\ u.monotonic \in 0..MaxTime /\ u.generation \in Nat
    /\ \A p \in DOMAIN u.leaves : p \in Path /\ u.leaves[p] \in Value

LEMMA MergeStored ==
    ASSUME NEW e \in StoredEntry, NEW u, Legal(u)
    PROVE  /\ Merge(e, u) \in StoredEntry
           /\ \A p \in Accepted(e, u) : /\ Merge(e, u).values[p] = u.leaves[p]
                                        /\ Merge(e, u).versions[p] = VersionOf(u)
           /\ \A p \in Path \ Accepted(e, u) :
                 /\ Merge(e, u).values[p] = e.values[p]
                 /\ Merge(e, u).versions[p] = e.versions[p]
           /\ \A s \in Source : Merge(e, u).generations[s] =
                                  IF s = u.source THEN u.generation ELSE e.generations[s]
<1>1. Accepted(e, u) \subseteq DOMAIN u.leaves /\ Accepted(e, u) \subseteq Path
  BY DEF Accepted, Legal
<1>2. \A p \in Path : SetLeaves(e.values, u.leaves, Accepted(e, u))[p] =
                        IF p \in Accepted(e, u) THEN u.leaves[p] ELSE e.values[p]
  BY CoordinatorAssumption DEF SetLeaves
<1>3. SetLeaves(e.values, u.leaves, Accepted(e, u)) \in [Path -> Value \union {Missing}]
  BY <1>1, CoordinatorAssumption DEF SetLeaves, StoredEntry, Legal
<1>4. VersionOf(u) \in StoredVersion
  BY DEF VersionOf, Legal, StoredVersion
<1>5. [p \in Path |-> IF p \in Accepted(e, u) THEN VersionOf(u) ELSE e.versions[p]]
        \in [Path -> StoredVersion \union {NoVersion}]
  BY <1>4 DEF StoredEntry
<1>6. [e.generations EXCEPT ![u.source] = u.generation] \in [Source -> Nat \union {NoGeneration}]
  BY DEF StoredEntry, Legal
<1>7. Merge(e, u) \in StoredEntry
  BY <1>3, <1>5, <1>6 DEF Merge, StoredEntry
<1>8. QED
  BY <1>1, <1>2, <1>7 DEF Merge, Legal, StoredEntry

LEMMA UnchangedValues ==
    ASSUME NEW e \in StoredEntry, NEW u, Legal(u), ~ Changed(e, u)
    PROVE  Merge(e, u).values = e.values
<1>1. \A p \in Path : Merge(e, u).values[p] = e.values[p]
  BY MergeStored DEF Changed
<1>2. Merge(e, u).values \in [Path -> Value \union {Missing}]
        /\ e.values \in [Path -> Value \union {Missing}]
  BY MergeStored DEF StoredEntry
<1>3. QED
  BY <1>1, <1>2

LEMMA TimePasses ==
    ASSUME NEW time \in Nat, NEW changes \in Nat, NEW r \in Refreshes(time, changes)
    PROVE  r \in Refreshes(time + 1, changes)
<1>1. r.started \in 0..(time + 1)
  BY DEF Refreshes
<1>2. QED
  BY <1>1 DEF Refreshes

LEMMA SecondsRise ==
    ASSUME ServerOrdered
    PROVE  /\ door \in Nat
           /\ \A n \in 0..door : SecondOf(n) \in 0..n
           /\ \A m, n \in 0..door : m <= n => SecondOf(m) <= SecondOf(n)
BY DEF ServerOrdered, SecondOf, door

---------------------------------------------------------------------------
(* One lemma per kind of step.                                             *)

LEMMA InitInv == Init => Inv
<1> SUFFICES ASSUME Init PROVE Inv
  OBVIOUS
<1>1. seconds = << >> /\ stream = << >> /\ door = 0
  BY DEF Init, door
<1>2. ServerOrdered
  BY <1>1, CoordinatorAssumption DEF Init, ServerOrdered
<1>3. FetchOfThePast
  BY <1>1, CoordinatorAssumption DEF Init, FetchOfThePast, Refreshes, NoRefresh
<1>4. StoreBehind
  <2>1. /\ EmptyEntry.versions[Door] = NoVersion /\ EmptyEntry.values[Door] = Missing
        /\ EmptyEntry.generations[Cloud] = -1 /\ EmptyEntry.generations[Lan] = -1
    BY DoorIsAPath DEF EmptyEntry, NoGeneration, Source
  <2>2. /\ known = FALSE /\ entry = EmptyEntry /\ eventTime = NoTime /\ debouncing = FALSE
        /\ cloudGeneration = 0 /\ lanGeneration = 0
    BY DEF Init
  <2>3. entry \in StoredEntry /\ Shown = Missing /\ entry.versions[Door] = NoVersion
    BY <2>1, <2>2, EmptyEntryStored DEF Shown
  <2>4. entry.generations[Cloud] <= cloudGeneration /\ entry.generations[Lan] <= lanGeneration
    BY <2>1, <2>2
  <2>5. QED
    BY <2>2, <2>3, <2>4 DEF StoreBehind
<1>5. WatermarkBetween
  BY <1>1 DEF Init, WatermarkBetween, SecondOf, NoTime
<1>6. UnpublishedOnlyInDebounce
  BY DEF Init, UnpublishedOnlyInDebounce, device_states
<1>7. ReturnsWhatItMerged
  BY DEF Init, ReturnsWhatItMerged, NoRefresh
<1>8. QED
  BY <1>2, <1>3, <1>4, <1>5, <1>6, <1>7 DEF Inv

(* A door change, the only step that extends the server's history.         *)
LEMMA DoorChangesKeepsInv == ASSUME Inv, DoorChanges PROVE Inv'
<1>1. PICK later \in {0, 1} : seconds' = Append(seconds, SecondOf(door) + later)
  BY DEF DoorChanges
<1> DEFINE s == SecondOf(door) + later
<1>2. door \in Nat /\ SecondOf(door) \in 0..door /\ s \in Nat /\ s <= door + 1
  BY SecondsRise DEF Inv
<1>3. /\ seconds' \in Seq(Nat) /\ door' = door + 1
      /\ \A n \in 1..door : seconds'[n] = seconds[n]
      /\ seconds'[door + 1] = s
  BY <1>1, <1>2 DEF Inv, ServerOrdered, door
<1>4. \A n \in 1..door : seconds[n] <= s /\ seconds[n] \in Nat
  <2> SUFFICES ASSUME NEW n \in 1..door PROVE seconds[n] <= s /\ seconds[n] \in Nat
    OBVIOUS
  <2>1. SecondOf(n) <= SecondOf(door) /\ SecondOf(n) = seconds[n] /\ SecondOf(n) \in Nat
    BY <1>2, SecondsRise DEF Inv, SecondOf
  <2>2. QED
    BY <1>2, <2>1
<1>5. ServerOrdered'
  <2>1. door' <= MaxChanges
    BY <1>2, <1>3, CoordinatorAssumption DEF DoorChanges
  <2>2. ASSUME NEW n \in 1..door' PROVE seconds'[n] <= n
    <3>1. CASE n \in 1..door
      BY <3>1, <1>3 DEF Inv, ServerOrdered
    <3>2. CASE n = door + 1
      BY <3>2, <1>2, <1>3
    <3>3. QED
      BY <3>1, <3>2, <1>2, <1>3
  <2>3. ASSUME NEW m \in 1..door', NEW n \in 1..door', m <= n
        PROVE  seconds'[m] <= seconds'[n]
    <3>1. CASE n \in 1..door
      <4>1. m \in 1..door
        BY <3>1, <2>3, <1>2, <1>3
      <4>2. QED
        BY <3>1, <4>1, <2>3, <1>3 DEF Inv, ServerOrdered
    <3>2. CASE n = door + 1
      <4>1. CASE m \in 1..door
        BY <3>2, <4>1, <1>3, <1>4
      <4>2. CASE m = door + 1
        BY <3>2, <4>2, <1>2, <1>3
      <4>3. QED
        BY <4>1, <4>2, <1>2, <1>3
    <3>3. QED
      BY <3>1, <3>2, <1>2, <1>3
  <2>4. stream' \in Seq(Nat) /\ \A i \in 1..Len(stream') : stream'[i] \in 1..door'
    <3>1. /\ stream' = Append(stream, door + 1) /\ stream \in Seq(Nat) /\ door + 1 \in Nat
          /\ \A i \in 1..Len(stream) : stream[i] \in 1..door
      BY <1>2 DEF DoorChanges, Inv, ServerOrdered
    <3>2. /\ stream' \in Seq(Nat) /\ Len(stream') = Len(stream) + 1
          /\ \A i \in 1..Len(stream) : stream'[i] = stream[i]
          /\ stream'[Len(stream) + 1] = door + 1
      BY <3>1
    <3>3. Len(stream) \in Nat
      BY <3>1
    <3>4. ASSUME NEW i \in 1..Len(stream') PROVE stream'[i] \in 1..door'
      <4>1. CASE i \in 1..Len(stream)
        <5>1. stream'[i] \in 1..door
          BY <3>1, <3>2, <4>1
        <5>2. QED
          BY <1>2, <1>3, <5>1
      <4>2. CASE i = Len(stream) + 1
        BY <1>2, <1>3, <3>2, <4>2
      <4>3. QED
        BY <3>2, <3>3, <4>1, <4>2
    <3>5. QED
      BY <3>2, <3>4
  <2>5. QED
    BY <1>3, <2>1, <2>2, <2>3, <2>4 DEF ServerOrdered, DoorChanges, Inv
<1>6. FetchOfThePast' /\ ReturnsWhatItMerged'
  BY <1>2, <1>3
     DEF FetchOfThePast, Refreshes, ReturnsWhatItMerged, DoorChanges, Inv, storeVars, published
<1>7. StoreBehind'
  <2>1. UNCHANGED <<storeVars, now, debouncing>> /\ Shown' = Shown
    BY DEF DoorChanges, storeVars, Shown
  <2>2. Shown \in 0..door => Shown \in 0..door'
    BY <1>2, <1>3
  <2>3. QED
    BY <2>1, <2>2 DEF StoreBehind, Inv, storeVars
<1>8. WatermarkBetween'
  <2>1. /\ SecondOf(door)' = s /\ SecondOf(door) <= s
        /\ \A n \in 0..door : (IF n = 0 THEN 0 ELSE seconds'[n]) = SecondOf(n)
    BY <1>2, <1>3 DEF SecondOf
  <2>2. Shown' = Shown /\ (entry.versions[Door] # NoVersion => Shown \in 0..door)
    BY DEF Inv, StoreBehind, DoorChanges, storeVars, Shown
  <2>3. entry.versions[Door] # NoVersion => SecondOf(Shown)' = SecondOf(Shown)
    BY <2>1, <2>2 DEF SecondOf
  <2>4. eventTime' <= s
    BY <1>2, <2>1 DEF Inv, WatermarkBetween, DoorChanges, storeVars, NoTime
  <2>5. QED
    BY <2>1, <2>3, <2>4 DEF Inv, WatermarkBetween, DoorChanges, storeVars
<1>9. UnpublishedOnlyInDebounce'
  BY DEF Inv, UnpublishedOnlyInDebounce, DoorChanges, storeVars, published, device_states, Empty
<1>10. QED
  BY <1>5, <1>6, <1>7, <1>8, <1>9 DEF Inv

(* Steps that only move the stream, the fetch or the clock forward.        *)
LEMMA ServerUnchanged ==
    ASSUME ServerOrdered, UNCHANGED <<stamped, seconds>>,
           stream' \in Seq(Nat), \A i \in 1..Len(stream') : stream'[i] \in 1..door
    PROVE  ServerOrdered' /\ door' = door
BY DEF ServerOrdered, door, SecondOf

LEMMA StoreUnchanged ==
    ASSUME Inv, UNCHANGED <<stamped, seconds, storeVars, debouncing>>,
           now' \in 0..MaxTime, now <= now'
    PROVE  StoreBehind' /\ WatermarkBetween'
<1>1. StoreBehind'
  <2>1. UNCHANGED <<storeVars, debouncing>> /\ Shown' = Shown /\ door' = door
    BY DEF storeVars, Shown, door
  <2>2. entry.versions[Door] # NoVersion => entry.versions[Door].monotonic <= now'
    <3>1. entry.versions[Door] # NoVersion => entry.versions[Door].monotonic \in 0..MaxTime
      BY DoorIsAPath DEF Inv, StoreBehind, StoredEntry, StoredVersion
    <3>2. QED
      BY <3>1, CoordinatorAssumption DEF Inv, StoreBehind, FetchOfThePast
  <2>3. QED
    BY <2>1, <2>2 DEF Inv, StoreBehind, storeVars
<1>2. WatermarkBetween'
  BY DEF Inv, WatermarkBetween, storeVars, door, SecondOf, Shown
<1>3. QED
  BY <1>1, <1>2

(* What is shown and what is published stay, and no refresh returns.       *)
LEMMA StillUnpublished ==
    ASSUME Inv, UNCHANGED <<known, entry, debouncing, published>>,
           UNCHANGED refresh \/ refresh.pc # "returning"
    PROVE  UnpublishedOnlyInDebounce'
BY DEF Inv, UnpublishedOnlyInDebounce, published, device_states, Empty

LEMMA StreamDropsKeepsInv == ASSUME Inv, StreamDrops PROVE Inv'
<1>1. ServerOrdered' /\ door' = door
  BY ServerUnchanged DEF Inv, StreamDrops
<1>2. FetchOfThePast' /\ ReturnsWhatItMerged'
  BY <1>1 DEF Inv, StreamDrops, FetchOfThePast, ReturnsWhatItMerged, storeVars, published
<1>3. UnpublishedOnlyInDebounce'
  BY StillUnpublished DEF StreamDrops, storeVars
<1>4. QED
  BY <1>1, <1>2, <1>3, StoreUnchanged DEF Inv, StreamDrops, FetchOfThePast

(* Steps of the refresh that leave the store alone.                        *)
LEMMA FetchKeepsInv ==
    ASSUME Inv, UNCHANGED <<serverVars, storeVars, debouncing>>,
           now' \in 0..MaxTime, now <= now',
           refresh' \in Refreshes(now', door), succeeded' \in BOOLEAN,
           UNCHANGED refresh \/ refresh'.pc # "returning",
           UnpublishedOnlyInDebounce'
    PROVE  Inv'
<1>1. ServerOrdered' /\ door' = door
  BY ServerUnchanged DEF Inv, ServerOrdered, serverVars
<1>2. FetchOfThePast'
  BY <1>1 DEF FetchOfThePast
<1>3. ReturnsWhatItMerged'
  BY DEF Inv, ReturnsWhatItMerged, storeVars
<1>4. QED
  BY <1>1, <1>2, <1>3, StoreUnchanged DEF Inv, serverVars

LEMMA ServeKeepsInv ==
    ASSUME Inv, NEW n \in 0..door, NEW level \in {0, 1},
           NEW present \in BOOLEAN, NEW others \in BOOLEAN,
           Serve(n, level, present, others)
    PROVE  Inv'
<1>1. refresh' \in Refreshes(now, door) /\ refresh'.pc = "answered"
  BY DEF Inv, FetchOfThePast, Refreshes, Serve
<1>2. now' = now /\ now \in 0..MaxTime /\ now <= now
  BY CoordinatorAssumption DEF Inv, FetchOfThePast, Serve
<1>3. UnpublishedOnlyInDebounce' /\ succeeded' \in BOOLEAN
  BY StillUnpublished DEF Inv, ReturnsWhatItMerged, Serve, storeVars, published
<1>4. QED
  BY <1>1, <1>2, <1>3, FetchKeepsInv DEF Serve

LEMMA IdleRefresh == ASSUME Inv PROVE NoRefresh \in Refreshes(now, door)
<1>1. door \in Nat /\ now \in Nat
  BY SecondsRise, CoordinatorAssumption DEF Inv, FetchOfThePast
<1>2. QED
  BY <1>1 DEF NoRefresh, Refreshes

(* A refresh that has failed leaves what it discarded unpublished only if  *)
(* the update before it had failed too, and the update now counts as one.  *)
LEMMA FailKeepsInv ==
    ASSUME Inv, UNCHANGED <<serverVars, storeVars, now, debouncing>>,
           refresh' = NoRefresh, Fail
    PROVE  Inv'
<1>1. now \in 0..MaxTime /\ now <= now /\ refresh' \in Refreshes(now, door)
  BY IdleRefresh, CoordinatorAssumption DEF Inv, FetchOfThePast
<1>2. refresh'.pc # "returning" /\ succeeded' = FALSE
  BY DEF NoRefresh, Fail
<1>3. UnpublishedOnlyInDebounce'
  <2>1. known' = known /\ entry' = entry /\ debouncing' = debouncing
    BY DEF storeVars
  <2>2. CASE refresh.previous
    BY <2>1, <2>2 DEF Fail, UnpublishedOnlyInDebounce
  <2>3. CASE ~ refresh.previous
    <3>1. notified' = notified
      BY <2>3 DEF Fail
    <3>2. refresh.pc = "returning" /\ Empty(refresh) => ~ known
      BY DEF Inv, ReturnsWhatItMerged, Empty
    <3>3. QED
      BY <1>2, <2>1, <3>1, <3>2 DEF Inv, UnpublishedOnlyInDebounce, device_states
  <2>4. QED
    BY <2>2, <2>3
<1>4. QED
  BY <1>1, <1>2, <1>3, FetchKeepsInv

LEMMA FetchFailsKeepsInv == ASSUME Inv, FetchFails PROVE Inv'
BY FailKeepsInv DEF FetchFails

LEMMA RefreshRaisesKeepsInv == ASSUME Inv, RefreshRaises PROVE Inv'
BY FailKeepsInv DEF RefreshRaises

LEMMA RefreshReturnsKeepsInv == ASSUME Inv, RefreshReturns PROVE Inv'
<1>1. now' = now /\ now \in 0..MaxTime /\ now <= now /\ refresh' \in Refreshes(now, door)
  BY IdleRefresh, CoordinatorAssumption DEF Inv, FetchOfThePast, RefreshReturns
<1>2. refresh'.pc # "returning" /\ succeeded' = TRUE
  BY DEF NoRefresh, RefreshReturns, Publish
<1>3. UnpublishedOnlyInDebounce'
  BY DEF RefreshReturns, Publish, UnpublishedOnlyInDebounce
<1>4. QED
  BY <1>1, <1>2, <1>3, FetchKeepsInv DEF RefreshReturns

LEMMA BeginRefreshKeepsInv == ASSUME Inv, BeginRefresh PROVE Inv'
<1>1. door \in Nat
  BY SecondsRise DEF Inv
<1>2. now' \in 0..MaxTime /\ now <= now' /\ now' = now + 1
  BY CoordinatorAssumption DEF Inv, FetchOfThePast, BeginRefresh
<1>3. refresh' \in Refreshes(now', door) /\ refresh'.pc = "fetching"
  <2>1. refresh' = [pc |-> "fetching", started |-> now', door |-> 0, level |-> 0,
                    present |-> FALSE, others |-> FALSE, previous |-> succeeded]
    BY <1>2 DEF BeginRefresh, NoRefresh
  <2>2. now' \in 0..now' /\ succeeded \in BOOLEAN
    BY <1>2, CoordinatorAssumption DEF Inv, ReturnsWhatItMerged
  <2>3. QED
    BY <1>1, <2>1, <2>2 DEF Refreshes
<1>4. UnpublishedOnlyInDebounce' /\ succeeded' \in BOOLEAN
  BY StillUnpublished DEF Inv, ReturnsWhatItMerged, BeginRefresh, storeVars, published
<1>5. QED
  BY <1>2, <1>3, <1>4, FetchKeepsInv DEF BeginRefresh

LEMMA DebounceEndsKeepsInv == ASSUME Inv, DebounceEnds PROVE Inv'
<1>1. ServerOrdered' /\ door' = door
  BY ServerUnchanged DEF Inv, ServerOrdered, DebounceEnds, serverVars
<1>2. FetchOfThePast' /\ ReturnsWhatItMerged'
  BY <1>1 DEF Inv, FetchOfThePast, ReturnsWhatItMerged, DebounceEnds, storeVars, Publish
<1>3. StoreBehind'
  BY <1>1 DEF Inv, StoreBehind, DebounceEnds, storeVars, Shown
<1>4. WatermarkBetween'
  BY DEF Inv, WatermarkBetween, DebounceEnds, storeVars, serverVars, door, SecondOf, Shown
<1>5. UnpublishedOnlyInDebounce'
  BY DEF UnpublishedOnlyInDebounce, DebounceEnds, Publish
<1>6. QED
  BY <1>1, <1>2, <1>3, <1>4, <1>5 DEF Inv

(* What follows from a merge of a legal update of the door or the level,   *)
(* and from the values that are kept.                                      *)
LEMMA MergeKeepsStore ==
    ASSUME Inv, NEW u, Legal(u), u.monotonic <= now',
           entry' = Merge(entry, u),
           now' \in 0..MaxTime, now <= now',
           \/ /\ u.source = Cloud /\ u.generation = cloudGeneration'
              /\ cloudGeneration' = cloudGeneration + 1 /\ lanGeneration' = lanGeneration
              /\ Door \in DOMAIN u.leaves => u.leaves[Door] \in 0..door
           \/ /\ u.source = Lan /\ u.generation = lanGeneration'
              /\ lanGeneration' = lanGeneration + 1 /\ cloudGeneration' = cloudGeneration
              /\ Door \notin DOMAIN u.leaves,
           known' = TRUE, debouncing' \in BOOLEAN, door' = door
    PROVE  StoreBehind'
<1> DEFINE e == Merge(entry, u)
<1>1. /\ entry \in StoredEntry /\ cloudGeneration \in Nat /\ lanGeneration \in Nat
      /\ entry.generations[Cloud] <= cloudGeneration
      /\ entry.generations[Lan] <= lanGeneration
  BY DEF Inv, StoreBehind
<1>2. /\ cloudGeneration' \in Nat /\ lanGeneration' \in Nat
      /\ cloudGeneration <= cloudGeneration' /\ lanGeneration <= lanGeneration'
  BY <1>1
<1>3. e \in StoredEntry
  BY <1>1, MergeStored
<1>4. entry.generations[Cloud] \in Int /\ entry.generations[Lan] \in Int
  BY <1>1 DEF StoredEntry, NoGeneration, Source
<1>5. Cloud \in Source /\ Lan \in Source /\ Cloud # Lan
  BY DEF Source, Cloud, Lan
<1>6. e.generations[Cloud] <= cloudGeneration' /\ e.generations[Lan] <= lanGeneration'
  BY <1>1, <1>2, <1>4, <1>5, MergeStored
<1>7. CASE Door \in Accepted(entry, u)
  <2>1. u.source = Cloud /\ u.leaves[Door] \in 0..door /\ u.generation = cloudGeneration'
    BY <1>7 DEF Accepted
  <2>2. e.versions[Door] = VersionOf(u) /\ e.values[Door] = u.leaves[Door]
    BY <1>1, <1>7, MergeStored
  <2>3. /\ e.versions[Door] # NoVersion /\ e.versions[Door].source = Cloud
        /\ e.versions[Door].monotonic = u.monotonic
        /\ e.versions[Door].generation = cloudGeneration'
    BY <2>1, <2>2 DEF VersionOf, NoVersion, Cloud
  <2>4. QED
    BY <1>2, <1>3, <1>6, <2>1, <2>2, <2>3 DEF StoreBehind, Shown
<1>8. CASE Door \notin Accepted(entry, u)
  <2>1. e.versions[Door] = entry.versions[Door] /\ e.values[Door] = entry.values[Door]
    BY <1>1, <1>8, MergeStored, DoorIsAPath
  <2>2. entry.versions[Door] # NoVersion =>
          /\ entry.versions[Door].source = Cloud
          /\ entry.versions[Door].monotonic <= now
          /\ entry.versions[Door].monotonic \in Nat
          /\ entry.versions[Door].generation <= cloudGeneration
          /\ entry.versions[Door].generation \in Nat
          /\ entry.values[Door] \in 0..door
    BY DoorIsAPath DEF Inv, StoreBehind, StoredEntry, StoredVersion, Shown
  <2>3. entry.versions[Door] = NoVersion => entry.values[Door] = Missing
    BY DEF Inv, StoreBehind, Shown
  <2>4. now \in Nat /\ now' \in Nat
    BY CoordinatorAssumption DEF Inv, FetchOfThePast
  <2>5. entry.versions[Door] # NoVersion =>
          /\ e.versions[Door].monotonic <= now'
          /\ e.versions[Door].generation <= cloudGeneration'
    BY <1>1, <1>2, <2>1, <2>2, <2>4
  <2>6. QED
    BY <1>2, <1>3, <1>6, <2>1, <2>2, <2>3, <2>5 DEF StoreBehind, Shown
<1>9. QED
  BY <1>7, <1>8

(* Which cloud updates of the door the store takes.                        *)
LEMMA LaterDoorAccepted ==
    ASSUME Inv, NEW u, Legal(u), u.source = Cloud, Door \in DOMAIN u.leaves,
           u.monotonic >= entry.versions[Door].monotonic,
           u.generation > cloudGeneration
    PROVE  Door \in Accepted(entry, u)
<1>1. CASE entry.versions[Door] = NoVersion
  BY <1>1 DEF Accepted
<1>2. CASE entry.versions[Door] # NoVersion
  <2>1. /\ entry.versions[Door].source = Cloud
        /\ entry.versions[Door].generation <= cloudGeneration
        /\ entry.versions[Door].generation \in Nat /\ cloudGeneration \in Nat
        /\ entry.versions[Door].monotonic \in 0..MaxTime
    BY <1>2, DoorIsAPath DEF Inv, StoreBehind, StoredEntry, StoredVersion
  <2>2. IsNewer(VersionOf(u), entry.versions[Door])
    BY <2>1, CoordinatorAssumption DEF IsNewer, VersionOf, Legal
  <2>3. QED
    BY <2>2 DEF Accepted
<1>3. QED
  BY <1>1, <1>2

LEMMA EarlierDoorRefused ==
    ASSUME Inv, NEW u, Legal(u), u.source = Cloud,
           entry.versions[Door].monotonic > u.monotonic
    PROVE  Door \notin Accepted(entry, u)
<1>1. entry.versions[Door] # NoVersion
  BY DEF NoVersion, Legal
<1>2. /\ entry.versions[Door].source = Cloud
      /\ entry.versions[Door].monotonic \in 0..MaxTime
  BY <1>1, DoorIsAPath DEF Inv, StoreBehind, StoredEntry, StoredVersion
<1>3. ~ IsNewer(VersionOf(u), entry.versions[Door])
  BY <1>2, CoordinatorAssumption DEF IsNewer, VersionOf, Legal
<1>4. QED
  BY <1>1, <1>3 DEF Accepted

---------------------------------------------------------------------------
(* A LAN push.                                                             *)

LanUpdate(level) ==
    [device |-> CHOOSE d \in Device : TRUE, leaves |-> [p \in {Level} |-> level],
     source |-> Lan, monotonic |-> now + 1, generation |-> lanGeneration + 1]

LEMMA LanUpdateLegal ==
    ASSUME Inv, NEW level \in {0, 1}, now < MaxTime
    PROVE  /\ Legal(LanUpdate(level)) /\ DOMAIN LanUpdate(level).leaves = {Level}
           /\ LanUpdate(level).source = Lan /\ LanUpdate(level).monotonic = now + 1
           /\ LanUpdate(level).generation = lanGeneration + 1
<1>1. lanGeneration \in Nat /\ now \in 0..MaxTime /\ level \in Value
  BY LevelsAreValues DEF Inv, StoreBehind, FetchOfThePast
<1>2. /\ DOMAIN LanUpdate(level).leaves = {Level} /\ LanUpdate(level).leaves[Level] = level
      /\ LanUpdate(level).source = Lan /\ LanUpdate(level).monotonic = now + 1
      /\ LanUpdate(level).generation = lanGeneration + 1
  BY DEF LanUpdate
<1>3. now + 1 \in 0..MaxTime /\ lanGeneration + 1 \in Nat /\ Lan \in Source
  BY <1>1, CoordinatorAssumption DEF Source
<1>4. QED
  BY <1>1, <1>2, <1>3, DoorIsAPath DEF Legal

LEMMA LanPushKeepsInv ==
    ASSUME Inv, NEW level \in {0, 1}, LanPush(level)
    PROVE  Inv' /\ Shown' = Shown
<1> DEFINE u == LanUpdate(level)
<1>1. /\ known = TRUE /\ now < MaxTime /\ entry \in StoredEntry
      /\ entry' = Merge(entry, u) /\ debouncing' = (debouncing \/ Changed(entry, u))
      /\ lanGeneration' = lanGeneration + 1 /\ now' = now + 1
      /\ UNCHANGED <<stamped, seconds, stream, refresh, known, cloudGeneration, eventTime, published>>
  BY DEF LanPush, LanUpdate, serverVars, Inv, StoreBehind
<1>2. /\ Legal(u) /\ DOMAIN u.leaves = {Level}
      /\ u.source = Lan /\ u.monotonic = now + 1 /\ u.generation = lanGeneration + 1
  BY <1>1, LanUpdateLegal
<1>3. now' \in 0..MaxTime /\ now <= now'
  BY <1>1, CoordinatorAssumption DEF Inv, FetchOfThePast
<1>4. ServerOrdered' /\ door' = door
  BY <1>1, ServerUnchanged DEF Inv, ServerOrdered
<1>5. FetchOfThePast' /\ ReturnsWhatItMerged'
  <2>1. now \in Nat /\ door \in Nat
    BY SecondsRise, CoordinatorAssumption DEF Inv, FetchOfThePast
  <2>2. refresh \in Refreshes(now + 1, door)
    BY <2>1, TimePasses DEF Inv, FetchOfThePast
  <2>3. QED
    BY <1>1, <1>3, <1>4, <2>2
       DEF Inv, FetchOfThePast, ReturnsWhatItMerged, published
<1>6. Door \notin Accepted(entry, u)
  BY <1>2, DoorIsAPath DEF Accepted
<1>7. entry'.values[Door] = entry.values[Door] /\ entry'.versions[Door] = entry.versions[Door]
  BY <1>1, <1>2, <1>6, MergeStored, DoorIsAPath
<1>8. debouncing' \in BOOLEAN
  BY <1>1
<1>9. StoreBehind'
  BY <1>1, <1>2, <1>3, <1>4, <1>8, DoorIsAPath, MergeKeepsStore
<1>10. WatermarkBetween'
  BY <1>1, <1>7 DEF Inv, WatermarkBetween, SecondOf, door, Shown
<1>11. UnpublishedOnlyInDebounce'
  <2>1. CASE Changed(entry, u)
    BY <1>1, <2>1 DEF UnpublishedOnlyInDebounce
  <2>2. CASE ~ Changed(entry, u)
    <3>1. entry'.values = entry.values
      BY <1>1, <1>2, <2>2, UnchangedValues
    <3>2. QED
      BY <1>1, <2>2, <3>1
         DEF Inv, UnpublishedOnlyInDebounce, device_states, published, Empty
  <2>3. QED
    BY <2>1, <2>2
<1>12. QED
  BY <1>4, <1>5, <1>7, <1>9, <1>10, <1>11 DEF Inv, Shown

---------------------------------------------------------------------------
(* An event of the lock stream.                                            *)

EventUpdate == CloudUpdate([p \in {Door} |-> Head(stream)], now + 1)

LEMMA EventUpdateLegal ==
    ASSUME Inv, stream # << >>, now < MaxTime
    PROVE  /\ Head(stream) \in 1..door
           /\ Legal(EventUpdate) /\ DOMAIN EventUpdate.leaves = {Door}
           /\ EventUpdate.leaves[Door] = Head(stream)
           /\ EventUpdate.source = Cloud /\ EventUpdate.monotonic = now + 1
           /\ EventUpdate.generation = cloudGeneration + 1
<1>1. /\ cloudGeneration \in Nat /\ now \in 0..MaxTime /\ door <= MaxChanges
      /\ stream \in Seq(Nat) /\ \A i \in 1..Len(stream) : stream[i] \in 1..door
  BY DEF Inv, StoreBehind, FetchOfThePast, ServerOrdered
<1>2. Head(stream) = stream[1] /\ 1 \in 1..Len(stream)
  BY <1>1
<1>3. Head(stream) \in 1..door /\ Head(stream) \in 0..MaxChanges
  BY <1>1, <1>2, SecondsRise, CoordinatorAssumption DEF Inv
<1>4. /\ DOMAIN EventUpdate.leaves = {Door} /\ EventUpdate.leaves[Door] = Head(stream)
      /\ EventUpdate.source = Cloud /\ EventUpdate.monotonic = now + 1
      /\ EventUpdate.generation = cloudGeneration + 1
  BY DEF EventUpdate, CloudUpdate
<1>5. now + 1 \in 0..MaxTime /\ cloudGeneration + 1 \in Nat /\ Cloud \in Source
  BY <1>1, CoordinatorAssumption DEF Source
<1>6. QED
  BY <1>3, <1>4, <1>5, DoorIsAPath, DoorsAreValues DEF Legal

(* The watermark after a reception of the door change n.                   *)
LEMMA WatermarkRises ==
    ASSUME Inv, NEW n \in 0..door
    PROVE  /\ Later(StampOf(n)) \in Nat \union {NoTime}
           /\ eventTime <= Later(StampOf(n)) /\ Later(StampOf(n)) <= SecondOf(door)
           /\ stamped => SecondOf(n) <= Later(StampOf(n))
<1>1. eventTime \in Nat \union {-1} /\ eventTime <= SecondOf(door)
  BY DEF Inv, WatermarkBetween, NoTime
<1>2. /\ SecondOf(n) \in Nat /\ SecondOf(door) \in Nat /\ SecondOf(n) <= SecondOf(door)
  BY SecondsRise DEF Inv
<1>3. StampOf(n) = IF stamped THEN SecondOf(n) ELSE -1
  BY DEF StampOf, NoTime
<1>4. QED
  BY <1>1, <1>2, <1>3 DEF Later, NoTime

LEMMA LockEventKeepsInv ==
    ASSUME Inv, LockEvent
    PROVE  /\ Inv'
           /\ \/ Shown' = Shown
              \/ Shown' \in 0..door /\ ~ Outdated(StampOf(Shown'))
<1>1. /\ stream # << >> /\ now < MaxTime /\ stream' = Tail(stream)
      /\ UNCHANGED <<stamped, seconds, refresh, debouncing>>
  BY DEF LockEvent
<1>2. ServerOrdered' /\ door' = door
  <2>1. stream' \in Seq(Nat) /\ \A i \in 1..Len(stream') : stream'[i] \in 1..door
    BY <1>1 DEF Inv, ServerOrdered
  <2>2. QED
    BY <1>1, <2>1, ServerUnchanged DEF Inv
<1>3. CASE ~ known \/ Outdated(StampOf(Head(stream)))
  <2>1. UNCHANGED <<storeVars, now, published>>
    BY <1>3 DEF LockEvent
  <2>2. FetchOfThePast' /\ ReturnsWhatItMerged'
    BY <1>1, <1>2, <2>1 DEF Inv, FetchOfThePast, ReturnsWhatItMerged, storeVars, published
  <2>3. now' \in 0..MaxTime /\ now <= now'
    BY <2>1, CoordinatorAssumption DEF Inv, FetchOfThePast
  <2>4. StoreBehind' /\ WatermarkBetween' /\ UnpublishedOnlyInDebounce'
    BY <1>1, <2>1, <2>3, StoreUnchanged, StillUnpublished DEF storeVars
  <2>5. QED
    BY <1>2, <2>1, <2>2, <2>4 DEF Inv, Shown, storeVars
<1>4. CASE known /\ ~ Outdated(StampOf(Head(stream)))
  <2> DEFINE u == EventUpdate
             n == Head(stream)
  <2>1. /\ known' = known /\ eventTime' = Later(StampOf(n))
        /\ cloudGeneration' = cloudGeneration + 1 /\ lanGeneration' = lanGeneration
        /\ entry' = Merge(entry, u) /\ now' = now + 1
        /\ IF Changed(entry, u) THEN Publish ELSE UNCHANGED published
    BY <1>4 DEF LockEvent, EventUpdate
  <2>2. /\ n \in 1..door /\ Legal(u) /\ DOMAIN u.leaves = {Door} /\ u.leaves[Door] = n
        /\ u.source = Cloud /\ u.monotonic = now + 1 /\ u.generation = cloudGeneration + 1
    BY <1>1, EventUpdateLegal
  <2>3. /\ now' \in 0..MaxTime /\ now <= now' /\ now \in Nat /\ n \in 0..door
        /\ entry \in StoredEntry /\ known = TRUE /\ debouncing' \in BOOLEAN
        /\ cloudGeneration \in Nat
    BY <1>1, <1>4, <2>1, <2>2, CoordinatorAssumption DEF Inv, FetchOfThePast, StoreBehind
  <2>4. FetchOfThePast' /\ ReturnsWhatItMerged'
    <3>1. refresh \in Refreshes(now + 1, door)
      BY <2>3, SecondsRise, TimePasses DEF Inv, FetchOfThePast
    <3>2. succeeded' \in BOOLEAN
      BY <2>1 DEF Inv, ReturnsWhatItMerged, Publish, published
    <3>3. QED
      BY <1>1, <1>2, <2>3, <2>1, <3>1, <3>2
         DEF Inv, FetchOfThePast, ReturnsWhatItMerged
  <2>5. StoreBehind'
    BY <1>2, <2>1, <2>2, <2>3, MergeKeepsStore
  <2>6. Door \in Accepted(entry, u)
    <3>1. entry.versions[Door].monotonic <= now
      BY <2>3 DEF Inv, StoreBehind, NoVersion
    <3>2. entry.versions[Door].monotonic \in Nat
      BY DoorIsAPath, CoordinatorAssumption
         DEF Inv, StoreBehind, StoredEntry, StoredVersion, NoVersion
    <3>3. QED
      BY <2>2, <2>3, <3>1, <3>2, LaterDoorAccepted
  <2>7. Shown' = n /\ entry'.versions[Door] # NoVersion
    <3>1. Shown' = n /\ entry'.versions[Door] = VersionOf(u)
      BY <2>1, <2>2, <2>3, <2>6, MergeStored DEF Shown
    <3>2. QED
      BY <2>2, <3>1 DEF VersionOf, NoVersion, Cloud
  <2>8. WatermarkBetween'
    <3>1. SecondOf(door)' = SecondOf(door) /\ SecondOf(Shown)' = SecondOf(n)
      BY <1>1, <1>2, <2>7 DEF SecondOf
    <3>2. QED
      BY <1>1, <2>1, <2>3, <2>7, <3>1, WatermarkRises DEF WatermarkBetween
  <2>9. UnpublishedOnlyInDebounce'
    <3>1. CASE Changed(entry, u)
      BY <2>1, <3>1 DEF UnpublishedOnlyInDebounce, Publish
    <3>2. CASE ~ Changed(entry, u)
      <4>1. entry'.values = entry.values
        BY <2>1, <2>2, <2>3, <3>2, UnchangedValues
      <4>2. QED
        BY <1>1, <2>1, <2>3, <3>2, <4>1
           DEF Inv, UnpublishedOnlyInDebounce, device_states, published, Empty
    <3>3. QED
      BY <3>1, <3>2
  <2>10. QED
    BY <1>2, <1>4, <2>3, <2>4, <2>5, <2>7, <2>8, <2>9 DEF Inv
<1>5. QED
  BY <1>3, <1>4 DEF Inv, StoreBehind

---------------------------------------------------------------------------
(* The merge of a snapshot.                                                *)

SnapshotUpdate == CloudUpdate(SnapshotLeaves, SnapshotTime)

LEMMA SnapshotUpdateLegal ==
    ASSUME Inv
    PROVE  /\ Legal(SnapshotUpdate)
           /\ SnapshotUpdate.source = Cloud /\ SnapshotUpdate.monotonic = refresh.started
           /\ SnapshotUpdate.generation = cloudGeneration + 1
           /\ Outdated(StampOf(refresh.door)) => Door \notin DOMAIN SnapshotUpdate.leaves
           /\ ~ Outdated(StampOf(refresh.door)) =>
                 Door \in DOMAIN SnapshotUpdate.leaves
                 /\ SnapshotUpdate.leaves[Door] = refresh.door
<1>1. /\ cloudGeneration \in Nat /\ now \in 0..MaxTime /\ door <= MaxChanges /\ door \in Nat
      /\ refresh.started \in 0..now /\ refresh.door \in 0..door /\ refresh.level \in {0, 1}
  BY SecondsRise DEF Inv, StoreBehind, FetchOfThePast, Refreshes, ServerOrdered
<1>2. refresh.door \in Value /\ refresh.level \in Value
  BY <1>1, CoordinatorAssumption, DoorsAreValues, LevelsAreValues
<1>3. /\ SnapshotUpdate.leaves = SnapshotLeaves /\ SnapshotUpdate.source = Cloud
      /\ SnapshotUpdate.monotonic = refresh.started
      /\ SnapshotUpdate.generation = cloudGeneration + 1
  BY DEF SnapshotUpdate, CloudUpdate, SnapshotTime
<1>4. refresh.started \in 0..MaxTime /\ cloudGeneration + 1 \in Nat /\ Cloud \in Source
  BY <1>1, CoordinatorAssumption DEF Source
<1>5. \A p \in DOMAIN SnapshotLeaves : p \in Path /\ SnapshotLeaves[p] \in Value
  BY <1>2, DoorIsAPath DEF SnapshotLeaves
<1>6. /\ Outdated(StampOf(refresh.door)) => Door \notin DOMAIN SnapshotLeaves
      /\ ~ Outdated(StampOf(refresh.door)) =>
            Door \in DOMAIN SnapshotLeaves /\ SnapshotLeaves[Door] = refresh.door
  BY DoorIsAPath DEF SnapshotLeaves
<1>7. QED
  BY <1>3, <1>4, <1>5, <1>6 DEF Legal

LEMMA ApplySnapshotKeepsInv ==
    ASSUME Inv, ApplySnapshot
    PROVE  /\ Inv'
           /\ known' => \/ Shown' = Shown
                        \/ Shown' \in 0..door /\ ~ Outdated(StampOf(Shown'))
<1> DEFINE u == SnapshotUpdate
           n == refresh.door
<1>1. /\ UNCHANGED <<stamped, seconds, stream, lanGeneration, now, debouncing>>
      /\ known' = refresh.present
      /\ refresh' = [refresh EXCEPT !.pc = "returning", !.started = 0,
                                    !.door = 0, !.level = 0]
      /\ IF Empty(refresh) THEN UNCHANGED published ELSE Publish
  BY DEF ApplySnapshot, serverVars
<1>2. ServerOrdered' /\ door' = door
  BY <1>1, ServerUnchanged DEF Inv, ServerOrdered
<1>3. /\ now \in 0..MaxTime /\ refresh.present \in BOOLEAN /\ refresh.started \in 0..now
      /\ n \in 0..door /\ door \in Nat /\ cloudGeneration \in Nat /\ lanGeneration \in Nat
      /\ entry \in StoredEntry /\ known \in BOOLEAN /\ debouncing \in BOOLEAN
  BY SecondsRise DEF Inv, FetchOfThePast, Refreshes, StoreBehind
<1>4. FetchOfThePast' /\ ReturnsWhatItMerged'
  <2>1. now \in Nat /\ refresh \in Refreshes(now, door)
    BY <1>3, CoordinatorAssumption DEF Inv, FetchOfThePast
  <2>2. refresh' \in Refreshes(now, door) /\ refresh'.present = refresh.present
    <3>1. 0 \in 0..now /\ 0 \in 0..door /\ 0 \in {0, 1}
      BY <1>3, <2>1
    <3>2. QED
      BY <1>1, <2>1, <3>1 DEF Refreshes
  <2>3. succeeded' \in BOOLEAN
    BY <1>1 DEF Inv, ReturnsWhatItMerged, Publish, published
  <2>4. QED
    BY <1>1, <1>2, <1>3, <2>2, <2>3 DEF FetchOfThePast, ReturnsWhatItMerged
<1>5. UnpublishedOnlyInDebounce'
  <2>1. CASE Empty(refresh)
    <3>1. Empty(refresh') /\ refresh'.pc = "returning"
      BY <1>1, <2>1 DEF Empty, Inv, FetchOfThePast, Refreshes
    <3>2. QED
      BY <3>1 DEF UnpublishedOnlyInDebounce
  <2>2. CASE ~ Empty(refresh)
    BY <1>1, <2>2 DEF UnpublishedOnlyInDebounce, Publish
  <2>3. QED
    BY <2>1, <2>2
<1>6. CASE ~ refresh.present
  <2>1. /\ known' = FALSE /\ entry' = EmptyEntry /\ eventTime' = NoTime
        /\ cloudGeneration' \in Nat
    BY <1>1, <1>3, <1>6 DEF ApplySnapshot
  <2>2. /\ EmptyEntry.versions[Door] = NoVersion /\ EmptyEntry.values[Door] = Missing
        /\ EmptyEntry.generations[Cloud] = -1 /\ EmptyEntry.generations[Lan] = -1
    BY DoorIsAPath DEF EmptyEntry, NoGeneration, Source
  <2>3. entry' \in StoredEntry /\ Shown' = Missing /\ entry'.versions[Door] = NoVersion
    BY <2>1, <2>2, EmptyEntryStored DEF Shown
  <2>4. entry'.generations[Cloud] <= cloudGeneration' /\ entry'.generations[Lan] <= lanGeneration'
    BY <1>1, <1>3, <2>1, <2>2
  <2>5. StoreBehind'
    BY <1>1, <1>3, <2>1, <2>3, <2>4 DEF StoreBehind
  <2>6. SecondOf(door)' = SecondOf(door) /\ SecondOf(door) \in Nat
    BY <1>1, <1>2, <1>3, SecondsRise DEF SecondOf, Inv
  <2>7. WatermarkBetween'
    BY <2>1, <2>6 DEF WatermarkBetween, NoTime
  <2>8. QED
    BY <1>2, <1>4, <1>5, <2>1, <2>5, <2>7 DEF Inv
<1>7. CASE refresh.present
  <2>1. /\ known' = TRUE /\ eventTime' = Later(StampOf(n))
        /\ cloudGeneration' = cloudGeneration + 1 /\ lanGeneration' = lanGeneration
        /\ entry' = Merge(entry, u)
    BY <1>1, <1>7 DEF ApplySnapshot, SnapshotUpdate, Empty
  <2>2. /\ Legal(u) /\ u.source = Cloud /\ u.monotonic = refresh.started
        /\ u.generation = cloudGeneration + 1
        /\ Outdated(StampOf(n)) => Door \notin DOMAIN u.leaves
        /\ ~ Outdated(StampOf(n)) => Door \in DOMAIN u.leaves /\ u.leaves[Door] = n
    BY SnapshotUpdateLegal
  <2>3. u.monotonic <= now' /\ now' \in 0..MaxTime /\ now <= now' /\ debouncing' \in BOOLEAN
    BY <1>1, <1>3, <2>2, CoordinatorAssumption
  <2>4. StoreBehind'
    BY <1>2, <1>3, <2>1, <2>2, <2>3, MergeKeepsStore
  <2>5. /\ eventTime' \in Nat \union {NoTime} /\ eventTime <= eventTime'
        /\ eventTime' <= SecondOf(door)
        /\ stamped => SecondOf(n) <= eventTime'
    BY <1>3, <2>1, WatermarkRises
  <2>6. SecondOf(door)' = SecondOf(door)
    BY <1>1, <1>2 DEF SecondOf
  <2>7. CASE Door \in Accepted(entry, u)
    <3>1. ~ Outdated(StampOf(n))
      BY <2>2, <2>7 DEF Accepted
    <3>2. Shown' = n /\ entry'.versions[Door] = VersionOf(u)
      BY <1>3, <2>1, <2>2, <2>7, <3>1, MergeStored DEF Shown
    <3>3. entry'.versions[Door] # NoVersion
      BY <2>2, <3>2 DEF VersionOf, NoVersion, Cloud
    <3>4. SecondOf(Shown)' = SecondOf(n)
      BY <1>1, <3>2 DEF SecondOf
    <3>5. WatermarkBetween'
      BY <1>1, <2>5, <2>6, <3>3, <3>4 DEF WatermarkBetween
    <3>6. QED
      BY <1>2, <1>3, <1>4, <1>5, <2>4, <3>1, <3>2, <3>5 DEF Inv
  <2>8. CASE Door \notin Accepted(entry, u)
    <3>1. Shown' = Shown /\ entry'.versions[Door] = entry.versions[Door]
      BY <1>3, <2>1, <2>2, <2>8, MergeStored, DoorIsAPath DEF Shown
    <3>2. known
      <4>1. SUFFICES ASSUME ~ known PROVE FALSE
        OBVIOUS
      <4>2. entry = EmptyEntry /\ eventTime = NoTime
        BY <4>1 DEF Inv, StoreBehind
      <4>3. entry.versions[Door] = NoVersion
        BY <4>2, DoorIsAPath DEF EmptyEntry
      <4>4. Door \in DOMAIN u.leaves
        BY <2>2, <4>2 DEF Outdated
      <4>5. QED
        BY <2>8, <4>3, <4>4 DEF Accepted
    <3>3. stamped => entry.versions[Door] # NoVersion /\ SecondOf(Shown) <= eventTime
                       /\ SecondOf(Shown) \in Nat
      BY <3>2, <1>3, SecondsRise DEF Inv, WatermarkBetween, StoreBehind
    <3>4. SecondOf(Shown)' = SecondOf(Shown)
      BY <1>1, <3>1 DEF SecondOf
    <3>5. eventTime \in Int /\ eventTime' \in Int
      BY <2>5 DEF Inv, WatermarkBetween, NoTime
    <3>6. WatermarkBetween'
      BY <1>1, <2>5, <2>6, <3>1, <3>3, <3>4, <3>5 DEF WatermarkBetween
    <3>7. QED
      BY <1>2, <1>4, <1>5, <2>4, <3>1, <3>6 DEF Inv
  <2>9. QED
    BY <2>7, <2>8
<1>8. QED
  BY <1>3, <1>6, <1>7

---------------------------------------------------------------------------
(* The theorems.                                                           *)

LEMMA NextKeepsInv == Inv /\ [Next]_vars => Inv'
<1> SUFFICES ASSUME Inv, [Next]_vars PROVE Inv'
  OBVIOUS
<1>1. CASE \/ DoorChanges \/ StreamDrops \/ FetchFails \/ BeginRefresh
          \/ RefreshReturns \/ RefreshRaises \/ DebounceEnds
  BY <1>1, DoorChangesKeepsInv, StreamDropsKeepsInv, FetchFailsKeepsInv,
     BeginRefreshKeepsInv, RefreshReturnsKeepsInv, RefreshRaisesKeepsInv, DebounceEndsKeepsInv
<1>2. ASSUME NEW n \in 0..door, NEW level \in {0, 1}, NEW present \in BOOLEAN,
             NEW others \in BOOLEAN, Serve(n, level, present, others)
      PROVE  Inv'
  BY <1>2, ServeKeepsInv
<1>3. CASE ApplySnapshot
  BY <1>3, ApplySnapshotKeepsInv
<1>4. CASE LockEvent
  BY <1>4, LockEventKeepsInv
<1>5. ASSUME NEW level \in {0, 1}, LanPush(level) PROVE Inv'
  BY <1>5, LanPushKeepsInv
<1>6. CASE UNCHANGED vars
  <2>1. UNCHANGED <<serverVars, storeVars, debouncing, published, now, refresh>>
    BY <1>6 DEF vars
  <2>2. UnpublishedOnlyInDebounce' /\ succeeded' \in BOOLEAN
    BY <2>1, StillUnpublished DEF Inv, ReturnsWhatItMerged, storeVars, published
  <2>3. QED
    BY <2>1, <2>2, FetchKeepsInv, CoordinatorAssumption DEF Inv, FetchOfThePast
<1>7. QED
  BY <1>1, <1>2, <1>3, <1>4, <1>5, <1>6 DEF Next

LEMMA InvTypes == Inv => TypeOK
<1> SUFFICES ASSUME Inv PROVE TypeOK
  OBVIOUS
<1>1. \A n \in DOMAIN seconds : seconds[n] \in 0..MaxChanges
  BY SecondsRise, CoordinatorAssumption DEF Inv, ServerOrdered, door
<1>2. \A i \in DOMAIN stream : stream[i] \in 1..door
  BY DEF Inv, ServerOrdered
<1>3. /\ refresh.pc \in {"idle", "fetching", "answered", "returning"}
      /\ refresh.started \in 0..now /\ refresh.door \in 0..door
  BY DEF Inv, FetchOfThePast, Refreshes
<1>4. eventTime \in 0..MaxChanges \union {NoTime}
  BY SecondsRise, CoordinatorAssumption DEF Inv, WatermarkBetween, ServerOrdered
<1>5. QED
  BY <1>1, <1>2, <1>3, <1>4
     DEF Inv, TypeOK, StoreBehind, ServerOrdered, ReturnsWhatItMerged,
         StoredEntry, StoredVersion

(* Types, and generations that are never behind those the store has seen,  *)
(* so that no update is refused as stale (coordinator.py:227, 405).        *)
THEOREM CoordinatorTypeCorrect == Spec => []TypeOK
<1>1. QED
  BY InitInv, NextKeepsInv, InvTypes, PTL DEF Spec

(* Whatever order pushes, events and refreshes come in, a state that is    *)
(* shown and not published will be by a debounce that is running or by the *)
(* return of the refresh that has discarded the store, or that refresh has *)
(* failed and so had the update before it (coordinator.py:157-214,         *)
(* 561-582, 786-798).                                                      *)
THEOREM ShownGetsPublished == Spec => []UnpublishedOnlyInDebounce
<1>1. Inv => UnpublishedOnlyInDebounce
  BY DEF Inv
<1>2. QED
  BY <1>1, InitInv, NextKeepsInv, PTL DEF Spec

(* DoorNeverRollsBack in two parts, for one step.                          *)
LEMMA StampedDoorAdvances ==
    ASSUME Inv, [Next]_vars, stamped, known, known'
    PROVE  Shown' # Missing /\ SecondOf(Shown') >= SecondOf(Shown)
<1>1. /\ Shown \in 0..door /\ SecondOf(Shown) <= eventTime
      /\ eventTime \in Nat \union {-1} /\ door \in Nat /\ door <= MaxChanges
      /\ \A n \in 0..door : SecondOf(n) \in Nat
  BY SecondsRise DEF Inv, WatermarkBetween, StoreBehind, NoTime, ServerOrdered
<1>2. \A n \in 0..door : n # Missing
  BY <1>1, DoorsAreValues, CoordinatorAssumption
<1>3. CASE Shown' = Shown
  BY <1>1, <1>2, <1>3
<1>4. CASE Shown' \in 0..door /\ ~ Outdated(StampOf(Shown'))
  <2>1. SecondOf(Shown') >= eventTime
    BY <1>1, <1>4 DEF Outdated, StampOf, NoTime
  <2>2. QED
    BY <1>1, <1>2, <1>4, <2>1
<1>5. Shown' = Shown \/ (Shown' \in 0..door /\ ~ Outdated(StampOf(Shown')))
  <2>1. CASE LockEvent
    BY <2>1, LockEventKeepsInv
  <2>2. CASE ApplySnapshot
    BY <2>2, ApplySnapshotKeepsInv
  <2>3. ASSUME NEW level \in {0, 1}, LanPush(level) PROVE Shown' = Shown
    BY <2>3, LanPushKeepsInv
  <2>4. CASE \/ DoorChanges \/ StreamDrops \/ FetchFails \/ BeginRefresh \/ DebounceEnds
            \/ RefreshReturns \/ RefreshRaises
            \/ UNCHANGED vars
            \/ \E n \in 0..door, level \in {0, 1}, present, others \in BOOLEAN :
                  Serve(n, level, present, others)
    <3>1. entry' = entry
      BY <2>4 DEF DoorChanges, StreamDrops, FetchFails, BeginRefresh, DebounceEnds, Serve,
                  RefreshReturns, RefreshRaises, vars, storeVars
    <3>2. QED
      BY <3>1 DEF Shown
  <2>5. QED
    BY <2>1, <2>2, <2>3, <2>4 DEF Next
<1>6. QED
  BY <1>3, <1>4, <1>5

LEMMA EventInFlightStays ==
    ASSUME Inv, ApplySnapshot, refresh.present,
           entry.versions[Door].monotonic > refresh.started
    PROVE  Shown' = Shown
<1>1. entry' = Merge(entry, SnapshotUpdate) /\ entry \in StoredEntry
  BY DEF ApplySnapshot, SnapshotUpdate, Inv, StoreBehind
<1>2. Door \notin Accepted(entry, SnapshotUpdate)
  BY SnapshotUpdateLegal, EarlierDoorRefused
<1>3. QED
  BY <1>1, <1>2, SnapshotUpdateLegal, MergeStored, DoorIsAPath DEF Shown

LEMMA UndisturbedRefreshShows ==
    ASSUME Inv, ApplySnapshot, refresh.present, refresh.door = door,
           entry.versions[Door].monotonic <= refresh.started
    PROVE  Shown' = door
<1> DEFINE u == SnapshotUpdate
<1>1. entry' = Merge(entry, u) /\ entry \in StoredEntry /\ cloudGeneration \in Nat
  BY DEF ApplySnapshot, SnapshotUpdate, Inv, StoreBehind
<1>2. ~ Outdated(StampOf(refresh.door))
  <2>1. /\ eventTime \in Nat \union {-1} /\ eventTime <= SecondOf(door)
        /\ SecondOf(door) \in Nat
    BY SecondsRise DEF Inv, WatermarkBetween, NoTime
  <2>2. StampOf(refresh.door) = IF stamped THEN SecondOf(door) ELSE -1
    BY DEF StampOf, NoTime
  <2>3. QED
    BY <2>1, <2>2 DEF Outdated, NoTime
<1>3. Door \in Accepted(entry, u)
  BY <1>1, <1>2, SnapshotUpdateLegal, LaterDoorAccepted
<1>4. QED
  BY <1>1, <1>2, <1>3, SnapshotUpdateLegal, MergeStored DEF Shown

(* However long the history, an older snapshot or event never rolls back   *)
(* the door that is shown (coordinator.py:232-246, 396-403), and reception *)
(* order protects an event that came during a fetch from its snapshot      *)
(* (coordinator.py:174, 253, 415).                                         *)
THEOREM TheDoorNeverRollsBack == Spec => DoorNeverRollsBack
<1> DEFINE Forward ==
        /\ (stamped /\ known /\ known' /\ Shown # Missing) =>
             /\ Shown' # Missing
             /\ SecondOf(Shown') >= SecondOf(Shown)
        /\ (ApplySnapshot /\ refresh.present
              /\ entry.versions[Door].monotonic > refresh.started)
             => Shown' = Shown
<1>1. Inv /\ [Next]_vars => Forward
  BY StampedDoorAdvances, EventInFlightStays
<1>2. Inv /\ [Next]_vars => [Forward]_vars
  BY <1>1
<1> HIDE DEF Forward
<1>3. Spec => [][Forward]_vars
  BY <1>2, InitInv, NextKeepsInv, PTL DEF Spec
<1>4. QED
  BY <1>3 DEF Forward, DoorNeverRollsBack

(* Whatever was lost before, a refresh that no event disturbs shows the    *)
(* door as it is: the watermark never shuts a current snapshot out         *)
(* (coordinator.py:234-246).                                               *)
THEOREM RefreshesRepair == Spec => RefreshRepairs
<1> DEFINE Repaired ==
        (ApplySnapshot /\ refresh.present /\ refresh.door = door
           /\ entry.versions[Door].monotonic <= refresh.started)
          => Shown' = door
<1>1. Inv /\ [Next]_vars => [Repaired]_vars
  BY UndisturbedRefreshShows
<1> HIDE DEF Repaired
<1>2. Spec => [][Repaired]_vars
  BY <1>1, InitInv, NextKeepsInv, PTL DEF Spec
<1>3. QED
  BY <1>2 DEF Repaired, RefreshRepairs
=============================================================================
