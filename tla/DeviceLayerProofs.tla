------------------------- MODULE DeviceLayerProofs -------------------------
(***************************************************************************)
(* Calls of the device abstraction reach the objects of their handles, for  *)
(* any machines, numbers of devices and of handles, and whatever            *)
(* enumerations fail.  The inductive invariant: the entry of a bus, once a  *)
(* handle has been made through it, is reconciled and changes only by an    *)
(* override, so that the handle's copy of it stays the same.  Then where    *)
(* the handles and the map point: every entry at its card, every buffer on  *)
(* the card of its device, and one enumeration for each entry reconciled.   *)
(* The last part is about PrimeCache, the device memory which the slab      *)
(* engine keeps without the device layer.                                   *)
(***************************************************************************)
EXTENDS DeviceLayer, PrimeCache, ListLemmas

Entry(bus) == busMap[bus]

MapShape ==
  /\ busMap = [bus \in DOMAIN busMap |-> busMap[bus]]
  /\ \A bus \in DOMAIN busMap :
       /\ Entry(bus) = [backend |-> Entry(bus).backend, index |-> Entry(bus).index,
                        remapped |-> Entry(bus).remapped]
       /\ Entry(bus).remapped \in BOOLEAN
  /\ \A d \in DOMAIN devs : devs[d].bus \in DOMAIN busMap

Placed(h) ==
  /\ handles[h].device \in DOMAIN devs
  /\ handles[h].place[1] = handles[h].backend
  /\ handles[h].kind = "memory" => handles[h].place = Selected(handles[h])

Agrees(h) ==
  LET e == Entry(devs[handles[h].device].bus)
  IN e.remapped /\ e.backend = handles[h].backend /\ e.index = handles[h].index

HandlesOK ==
  /\ handles = [h \in SlotIds |-> handles[h]]
  /\ \A h \in SlotIds : handles[h] # NoHandle =>
       Placed(h) /\ (forced = {} => Agrees(h))

NothingYet == initialized = "no" => \A h \in SlotIds : handles[h] = NoHandle

Inv == MapShape /\ HandlesOK /\ NothingYet /\ CallsReachTheirObjects

USE DEF Entry

LEMMA InitInv == Init => Inv
  <1>. SUFFICES ASSUME Init PROVE Inv
    OBVIOUS
  <1>1. MapShape
    BY DEF Init, MapShape
  <1>2. HandlesOK /\ NothingYet
    BY DEF Init, HandlesOK, NothingYet
  <1>. QED BY <1>1, <1>2 DEF Init, Inv, CallsReachTheirObjects

\* The map of a list has an entry for every device of it.
LEMMA MapOfShape ==
  ASSUME NEW list, NEW remapped \in BOOLEAN
  PROVE  LET m == MapOf(list, remapped)
         IN /\ m = [bus \in DOMAIN m |-> m[bus]]
            /\ \A d \in DOMAIN list : list[d].bus \in DOMAIN m
            /\ \A bus \in DOMAIN m :
                 /\ m[bus] = [backend |-> m[bus].backend, index |-> m[bus].index,
                              remapped |-> m[bus].remapped]
                 /\ m[bus].remapped \in BOOLEAN
  BY DEF MapOf

\* Both initialisations start the map anew while there are no handles.
LEMMA InitialisationInv ==
  ASSUME Inv, DevInit \/ DevInitFromDevices
  PROVE  Inv'
  <1>1. PICK remapped \in BOOLEAN : busMap' = MapOf(devs', remapped)
    BY DEF DevInit, DevInitFromDevices
  <1>2. /\ initialized = "no" /\ initialized' # "no"
        /\ handles' = handles /\ forced' = forced /\ stray' = stray
    BY DEF DevInit, DevInitFromDevices, overrides
  <1>3. MapShape'
    BY <1>1, MapOfShape DEF MapShape
  <1>4. \A h \in SlotIds : handles[h] = NoHandle
    BY <1>2 DEF Inv, NothingYet
  <1>5. HandlesOK' /\ NothingYet'
    BY <1>2, <1>4 DEF Inv, HandlesOK, NothingYet, SlotIds
  <1>. QED BY <1>2, <1>3, <1>5 DEF Inv, CallsReachTheirObjects

\* What resolving a device leaves: its entry reconciled, with the backend it
\* had, and unchanged if it was reconciled before.
LEMMA ResolveInv ==
  ASSUME MapShape, NEW d \in DOMAIN devs, NEW e \in Entries(d), Resolve(d, e),
         devs' = devs
  PROVE  /\ MapShape'
         /\ e.remapped /\ busMap'[devs[d].bus] = e
         /\ e.backend = Entry(devs[d].bus).backend
         /\ Entry(devs[d].bus).remapped => e = Entry(devs[d].bus)
         /\ \A bus \in DOMAIN busMap : Entry(bus).remapped => busMap'[bus] = busMap[bus]
  <1>. DEFINE bus == devs[d].bus
              old == busMap[bus]
  <1>1. /\ bus \in DOMAIN busMap /\ old.remapped \in BOOLEAN
        /\ old = [backend |-> old.backend, index |-> old.index, remapped |-> old.remapped]
    BY DEF MapShape
  <1>2. \/ old.remapped /\ e = old
        \/ ~old.remapped /\ \E i : e = [old EXCEPT !.index = i, !.remapped = TRUE]
    BY DEF Entries
  <1>3. /\ e.remapped = TRUE /\ e.backend = old.backend
        /\ e = [backend |-> e.backend, index |-> e.index, remapped |-> e.remapped]
        /\ old.remapped => e = old
    BY <1>1, <1>2
  <1>4. busMap' = [busMap EXCEPT ![bus] = e]
    BY DEF Resolve
  <1>5. busMap'[bus] = e /\ DOMAIN busMap' = DOMAIN busMap
    BY <1>1, <1>4
  <1>6. \A b \in DOMAIN busMap : b # bus => busMap'[b] = busMap[b]
    BY <1>4
  <1>7. MapShape'
    <2>1. busMap' = [b \in DOMAIN busMap' |-> busMap'[b]]
      BY <1>4
    <2>2. \A b \in DOMAIN busMap' :
            /\ busMap'[b] = [backend |-> busMap'[b].backend, index |-> busMap'[b].index,
                             remapped |-> busMap'[b].remapped]
            /\ busMap'[b].remapped \in BOOLEAN
      <3>1. TAKE b \in DOMAIN busMap'
      <3>2. CASE b = bus
        BY <1>3, <1>5, <3>2
      <3>3. CASE b # bus
        BY <1>5, <1>6, <3>3 DEF MapShape
      <3>. QED BY <3>2, <3>3
    <2>. QED BY <1>5, <2>1, <2>2 DEF MapShape
  <1>. QED BY <1>3, <1>5, <1>6, <1>7

\* Resolving a device disturbs no handle.
LEMMA ResolveKeepsHandles ==
  ASSUME MapShape, HandlesOK, NEW d \in DOMAIN devs, NEW e \in Entries(d),
         Resolve(d, e), devs' = devs, handles' = handles, forced' = forced
  PROVE  HandlesOK'
  <1>1. \A bus \in DOMAIN busMap : Entry(bus).remapped => busMap'[bus] = busMap[bus]
    BY ResolveInv
  <1>2. ASSUME NEW h \in SlotIds, handles[h] # NoHandle
        PROVE  Placed(h)' /\ (forced' = {} => Agrees(h)')
    <2>1. Placed(h) /\ (forced = {} => Agrees(h))
      BY <1>2 DEF HandlesOK
    <2>2. devs[handles[h].device].bus \in DOMAIN busMap
      BY <2>1 DEF Placed, MapShape
    <2>3. Placed(h)'
      BY <2>1 DEF Placed, Selected
    <2>4. forced' = {} => Agrees(h)'
      BY <1>1, <2>1, <2>2 DEF Agrees
    <2>. QED BY <2>3, <2>4
  <1>. QED BY <1>2 DEF HandlesOK, SlotIds

\* A new handle agrees with the entry it was made through.
LEMMA CreateKeepsHandles ==
  ASSUME MapShape, HandlesOK, NEW d \in DOMAIN devs, NEW e \in Entries(d),
         Resolve(d, e), devs' = devs, forced' = forced,
         NEW new \in SlotIds, NEW kind, NEW place, place[1] = e.backend,
         kind = "memory" => place = Selected(e),
         handles' = [handles EXCEPT ![new] = Handle(kind, d, e, place)]
  PROVE  HandlesOK'
  <1>1. \A bus \in DOMAIN busMap : Entry(bus).remapped => busMap'[bus] = busMap[bus]
    BY ResolveInv
  <1>2. /\ handles'[new] = Handle(kind, d, e, place)
        /\ \A h \in SlotIds \ {new} : handles'[h] = handles[h]
        /\ handles' = [h \in SlotIds |-> handles'[h]]
    BY DEF HandlesOK
  <1>3. Placed(new)'
    BY <1>2 DEF Placed, Handle, Selected
  <1>4. Agrees(new)'
    BY <1>2, ResolveInv DEF Agrees, Handle
  <1>5. ASSUME NEW h \in SlotIds \ {new}, handles[h] # NoHandle
        PROVE  Placed(h)' /\ (forced' = {} => Agrees(h)')
    <2>1. Placed(h) /\ (forced = {} => Agrees(h))
      BY <1>5 DEF HandlesOK
    <2>2. devs[handles[h].device].bus \in DOMAIN busMap
      BY <2>1 DEF Placed, MapShape
    <2>3. Placed(h)'
      BY <1>2, <2>1 DEF Placed, Selected
    <2>4. forced' = {} => Agrees(h)'
      BY <1>1, <1>2, <2>1, <2>2 DEF Agrees
    <2>. QED BY <2>3, <2>4
  <1>. QED BY <1>2, <1>3, <1>4, <1>5 DEF HandlesOK, SlotIds

\* An override leaves every other entry, and is remembered.
LEMMA ForceInv ==
  ASSUME Inv, NEW bus \in DOMAIN busMap, NEW b \in Backends,
         DevForceBackendForBus(bus, b)
  PROVE  Inv'
  <1>1. /\ initialized' = initialized /\ devs' = devs /\ handles' = handles
        /\ stray' = stray
    BY DEF DevForceBackendForBus, known
  <1>2. \/ busMap' = busMap /\ forced' = forced
        \/ /\ forced' # {}
           /\ \E i : busMap' = [busMap EXCEPT ![bus] =
                                [backend |-> b, index |-> i, remapped |-> TRUE]]
    BY DEF DevForceBackendForBus
  <1>3. CASE busMap' = busMap /\ forced' = forced
    BY <1>1, <1>3 DEF Inv, MapShape, HandlesOK, NothingYet, CallsReachTheirObjects,
                      Placed, Agrees, Selected, SlotIds
  <1>4. ASSUME forced' # {},
               NEW i, busMap' = [busMap EXCEPT ![bus] =
                                   [backend |-> b, index |-> i, remapped |-> TRUE]]
        PROVE  Inv'
    <2>1. MapShape'
      BY <1>1, <1>4 DEF Inv, MapShape
    <2>2. HandlesOK'
      BY <1>1, <1>4 DEF Inv, HandlesOK, Placed, Selected, SlotIds
    <2>3. NothingYet'
      BY <1>1 DEF Inv, NothingYet, SlotIds
    <2>4. CallsReachTheirObjects'
      BY <1>1, <1>4 DEF Inv, CallsReachTheirObjects
    <2>. QED BY <2>1, <2>2, <2>3, <2>4 DEF Inv
  <1>. QED BY <1>2, <1>3, <1>4

\* Two live handles of one device have the backend of its entry.
LEMMA SameBackend ==
  ASSUME HandlesOK, forced = {}, NEW g \in SlotIds, NEW h \in SlotIds,
         handles[g] # NoHandle, handles[h] # NoHandle,
         handles[g].device = handles[h].device
  PROVE  handles[g].place[1] = handles[h].backend
  <1>1. Placed(g) /\ Placed(h) /\ Agrees(g) /\ Agrees(h)
    BY DEF HandlesOK
  <1>. QED BY <1>1 DEF Placed, Agrees

\* A live handle is one that is not free.
LEMMA LiveHandle ==
  ASSUME NEW kind \in {"memory", "stream", "event"}, NEW h \in Live(kind)
  PROVE  h \in SlotIds /\ handles[h] # NoHandle /\ handles[h].kind = kind
  BY DEF Live, NoHandle

LEMMA LaunchReaches ==
  ASSUME Inv, NEW d \in DOMAIN devs, NEW buf \in Live("memory"),
         NEW s \in Live("stream") \union {0}, DevLaunch(d, buf, s)
  PROVE  CallsReachTheirObjects'
  <1>1. /\ forced' = forced /\ handles[buf].device = d
        /\ s # 0 => handles[s].device = d
    BY DEF DevLaunch, overrides
  <1>. DEFINE place(e) == IF s = 0 THEN Selected(e) ELSE handles[s].place
              refused(e) == place(e)[1] = e.backend /\ place(e) # Selected(e)
              reaches(e) == refused(e) \/ (place(e) = Selected(e) /\ handles[buf].place = place(e))
  <1>2. PICK e \in Entries(d) : Resolve(d, e) /\ Call("launch", reaches(e))
    BY DEF DevLaunch
  <1>3. CASE forced = {}
    <2>1. buf \in SlotIds /\ Placed(buf) /\ Agrees(buf) /\ handles[buf].kind = "memory"
      BY <1>3, LiveHandle DEF Inv, HandlesOK
    <2>2. e = Entry(devs[d].bus) /\ Selected(e) = handles[buf].place
      <3>1. Entry(devs[d].bus).remapped
        BY <1>1, <2>1 DEF Agrees
      <3>2. e = Entry(devs[d].bus)
        BY <3>1 DEF Entries
      <3>. QED BY <1>1, <2>1, <3>2 DEF Agrees, Placed, Selected
    <2>3. CASE s = 0
      BY <1>2, <1>3, <2>2, <2>3 DEF Call, Inv, CallsReachTheirObjects
    <2>4. CASE s # 0
      <3>1. s \in SlotIds /\ Placed(s) /\ Agrees(s)
        BY <1>3, <2>4, LiveHandle DEF Inv, HandlesOK
      <3>2. handles[s].place[1] = e.backend
        BY <1>1, <2>2, <2>4, <3>1 DEF Placed, Agrees
      <3>3. reaches(e)
        BY <2>2, <2>4, <3>2
      <3>. QED BY <1>2, <1>3, <3>3 DEF Call, Inv, CallsReachTheirObjects
    <2>. QED BY <2>3, <2>4
  <1>4. CASE forced # {}
    BY <1>1, <1>2, <1>4 DEF Call, Inv, CallsReachTheirObjects
  <1>. QED BY <1>3, <1>4

\* A call on the objects of live handles changes neither the map nor the
\* handles, but for the one it may drop.
LEMMA CallInv ==
  ASSUME Inv, devs' = devs, busMap' = busMap, forced' = forced,
         initialized' = initialized, NEW h \in SlotIds, CallsReachTheirObjects',
         handles' \in {handles, [handles EXCEPT ![h] = NoHandle]}
  PROVE  Inv'
  <1>1. MapShape'
    BY DEF Inv, MapShape
  <1>2. /\ handles' = [g \in SlotIds |-> handles'[g]]
        /\ \A g \in SlotIds : handles'[g] # NoHandle => handles'[g] = handles[g]
        /\ \A g \in SlotIds : handles[g] = NoHandle => handles'[g] = NoHandle
    BY DEF Inv, HandlesOK
  <1>3. HandlesOK'
    <2>1. ASSUME NEW g \in SlotIds, handles'[g] # NoHandle
          PROVE  Placed(g)' /\ (forced' = {} => Agrees(g)')
      <3>1. handles'[g] = handles[g] /\ Placed(g) /\ (forced = {} => Agrees(g))
        BY <1>2, <2>1 DEF Inv, HandlesOK
      <3>. QED BY <3>1 DEF Placed, Agrees, Selected
    <2>. QED BY <1>2, <2>1 DEF HandlesOK, SlotIds
  <1>4. NothingYet'
    BY <1>2 DEF Inv, NothingYet, SlotIds
  <1>. QED BY <1>1, <1>3, <1>4 DEF Inv

\* A device that has been resolved for one of the calls means devices are known.
LEMMA KnownInv ==
  ASSUME Inv, NEW d \in DOMAIN devs, NEW e \in Entries(d), Resolve(d, e),
         UNCHANGED known, HandlesOK', CallsReachTheirObjects',
         initialized = "no" => handles' = handles
  PROVE  Inv'
  <1>1. MapShape'
    BY ResolveInv DEF Inv, known
  <1>2. NothingYet'
    BY DEF Inv, NothingYet, known, SlotIds
  <1>. QED BY <1>1, <1>2 DEF Inv

\* Before the initialisation there is no device to call.
NoDevices == initialized = "no" => devs = << >>

LEMMA CreateInv ==
  ASSUME Inv, NoDevices, NEW d \in DOMAIN devs, NEW new \in SlotIds,
         \/ DevAlloc(d, new) \/ DevStreamCreate(d, new) \/ DevEventCreate(d, new)
  PROVE  Inv'
  <1>1. UNCHANGED known /\ forced' = forced /\ stray' = stray
    BY DEF DevAlloc, DevStreamCreate, DevEventCreate, Create, overrides
  <1>2. initialized # "no"
    BY DEF NoDevices
  <1>3. ASSUME NEW kind, NEW e \in Entries(d), NEW place,
               Resolve(d, e), place[1] = e.backend, kind = "memory" => place = Selected(e),
               handles' = [handles EXCEPT ![new] = Handle(kind, d, e, place)]
        PROVE  Inv'
    <2>1. HandlesOK'
      BY <1>1, <1>3, CreateKeepsHandles DEF Inv, known
    <2>2. CallsReachTheirObjects'
      BY <1>1 DEF Inv, CallsReachTheirObjects
    <2>. QED BY <1>1, <1>2, <1>3, <2>1, <2>2, KnownInv
  <1>4. CASE DevAlloc(d, new)
    <2>1. PICK e \in Entries(d) :
            /\ Resolve(d, e)
            /\ handles' = [handles EXCEPT ![new] = Handle("memory", d, e, Selected(e))]
      BY <1>4 DEF DevAlloc
    <2>2. Selected(e)[1] = e.backend
      BY DEF Selected
    <2>. QED BY <1>3, <2>1, <2>2
  <1>5. ASSUME NEW kind \in {"stream", "event"}, Create(kind, d, new) PROVE Inv'
    <2>. DEFINE place(e) == <<e.backend, current[e.backend]>>
    <2>1. PICK e \in Entries(d) :
            /\ Resolve(d, e)
            /\ handles' = [handles EXCEPT ![new] = Handle(kind, d, e, place(e))]
      BY <1>5 DEF Create
    <2>2. place(e)[1] = e.backend /\ kind # "memory"
      OBVIOUS
    <2>. HIDE DEF place
    <2>. QED BY <1>3, <2>1, <2>2
  <1>. QED BY <1>4, <1>5 DEF DevStreamCreate, DevEventCreate

\* DevGetDeviceProperties and the like, and the launches.
LEMMA QueryInv ==
  ASSUME Inv, NEW d \in DOMAIN devs, NEW e \in Entries(d), Resolve(d, e),
         UNCHANGED known, handles' = handles, forced' = forced, CallsReachTheirObjects'
  PROVE  Inv'
  <1>1. HandlesOK'
    BY ResolveKeepsHandles DEF Inv, known
  <1>. QED BY <1>1, KnownInv

LEMMA StepInv == Inv /\ NoDevices /\ [Next]_vars => Inv' /\ NoDevices'
  <1>. SUFFICES ASSUME Inv, NoDevices, [Next]_vars PROVE Inv' /\ NoDevices'
    OBVIOUS
  <1>1. CASE DevInit \/ DevInitFromDevices
    <2>1. NoDevices'
      BY <1>1 DEF DevInit, DevInitFromDevices, NoDevices
    <2>. QED BY <1>1, <2>1, InitialisationInv
  <1>2. ASSUME ~(DevInit \/ DevInitFromDevices) PROVE NoDevices'
    BY <1>2 DEF NoDevices, Next, vars, known, Query, DevAlloc, DevStreamCreate,
      DevEventCreate, Create, DevLaunch, DevCopy, DevFree, DevStreamDestroy,
      DevEventDestroy, Drop, DevStreamSync, DevEventSync, Sync, DevEventRecord,
      DevEventElapsedMs, DevForceBackendForBus, PoolOp
  <1>3. ASSUME NEW d \in DOMAIN devs, Query(d) PROVE Inv'
    <2>1. CallsReachTheirObjects'
      BY <1>3 DEF Query, overrides, Inv, CallsReachTheirObjects
    <2>2. PICK e \in Entries(d) : Resolve(d, e)
      BY <1>3 DEF Query
    <2>. QED BY <1>3, <2>1, <2>2, QueryInv DEF Query, overrides
  <1>4. ASSUME NEW d \in DOMAIN devs, NEW h \in Free,
               DevAlloc(d, h) \/ DevStreamCreate(d, h) \/ DevEventCreate(d, h)
        PROVE  Inv'
    BY <1>4, CreateInv DEF Free
  <1>5. ASSUME NEW d \in DOMAIN devs, NEW buf \in Live("memory"),
               NEW s \in Live("stream") \union {0}, DevLaunch(d, buf, s)
        PROVE  Inv'
    <2>1. CallsReachTheirObjects'
      BY <1>5, LaunchReaches
    <2>2. PICK e \in Entries(d) : Resolve(d, e)
      BY <1>5 DEF DevLaunch
    <2>. QED BY <1>5, <2>1, <2>2, QueryInv DEF DevLaunch, overrides
  <1>6. ASSUME NEW h \in Live("memory"), DevCopy(h) \/ Drop(h) PROVE Inv'
    <2>1. h \in SlotIds /\ Placed(h) /\ handles[h].kind = "memory"
      BY LiveHandle DEF Inv, HandlesOK
    <2>2. CallsReachTheirObjects'
      BY <1>6, <2>1 DEF DevCopy, Drop, Call, Placed, Inv, CallsReachTheirObjects, overrides
    <2>. QED BY <1>6, <2>1, <2>2, CallInv DEF DevCopy, Drop, known, overrides
  <1>7. ASSUME NEW h \in Live("stream") \union Live("event"), Sync(h) \/ Drop(h)
        PROVE  Inv'
    <2>1. h \in SlotIds /\ Placed(h)
      BY LiveHandle DEF Inv, HandlesOK
    <2>2. CallsReachTheirObjects'
      BY <1>7, <2>1 DEF Sync, Drop, Call, Placed, Inv, CallsReachTheirObjects, overrides
    <2>. QED BY <1>7, <2>1, <2>2, CallInv DEF Sync, Drop, known, overrides
  <1>8. ASSUME NEW ev \in Live("event"), NEW s \in Live("stream"), DevEventRecord(ev, s)
        PROVE  Inv'
    <2>1. ev \in SlotIds /\ s \in SlotIds /\ handles[ev] # NoHandle /\ handles[s] # NoHandle
      BY LiveHandle
    <2>2. CallsReachTheirObjects'
      <3>1. CASE forced = {}
        <4>1. handles[s].place[1] = handles[ev].backend
          BY <1>8, <2>1, <3>1, SameBackend DEF DevEventRecord, Inv
        <4>. QED BY <1>8, <3>1, <4>1 DEF DevEventRecord, Call, Inv, CallsReachTheirObjects, overrides
      <3>2. CASE forced # {}
        BY <1>8, <3>2 DEF DevEventRecord, Call, Inv, CallsReachTheirObjects, overrides
      <3>. QED BY <3>1, <3>2
    <2>. QED BY <1>8, <2>1, <2>2, CallInv DEF DevEventRecord, known, overrides
  <1>9. ASSUME NEW first \in Live("event"), NEW last \in Live("event"),
               DevEventElapsedMs(first, last)
        PROVE  Inv'
    <2>1. /\ first \in SlotIds /\ last \in SlotIds /\ Placed(first) /\ Placed(last)
      BY LiveHandle DEF Inv, HandlesOK
    <2>2. CallsReachTheirObjects'
      BY <1>9, <2>1 DEF DevEventElapsedMs, Call, Placed, Inv, CallsReachTheirObjects, overrides
    <2>. QED BY <1>9, <2>1, <2>2, CallInv DEF DevEventElapsedMs, known, overrides
  <1>10. ASSUME NEW b \in Backends, NEW i, PoolOp(b, i) PROVE Inv'
    BY <1>10 DEF PoolOp, known, overrides, Inv, MapShape, HandlesOK, NothingYet,
      CallsReachTheirObjects, Placed, Agrees, Selected, SlotIds
  <1>11. ASSUME UNCHANGED vars PROVE Inv'
    <2>1. MapShape' /\ NothingYet' /\ CallsReachTheirObjects'
      BY <1>11 DEF vars, known, overrides, Inv, MapShape, NothingYet,
        CallsReachTheirObjects, SlotIds
    <2>2. HandlesOK'
      BY <1>11 DEF vars, known, overrides, Inv, HandlesOK, Placed, Agrees, Selected, SlotIds
    <2>. QED BY <2>1, <2>2 DEF Inv
  <1>. QED
    BY <1>1, <1>2, <1>3, <1>4, <1>5, <1>6, <1>7, <1>8, <1>9, <1>10, <1>11, ForceInv
      DEF Next, DevFree, DevStreamDestroy, DevEventDestroy, DevStreamSync, DevEventSync

\* In every reachable state the calls made so far have reached the object their
\* handle stands for, launches and records at least until the backend of a bus
\* is overridden (devabstraction.cpp:247-503).
THEOREM CallsReach == Spec => []CallsReachTheirObjects
  <1>1. Init => Inv /\ NoDevices
    BY InitInv DEF Init, NoDevices
  <1>2. Inv /\ NoDevices /\ [Next]_vars => (Inv /\ NoDevices)'
    BY StepInv
  <1>3. Inv => CallsReachTheirObjects
    BY DEF Inv
  <1>. QED BY <1>1, <1>2, <1>3, PTL DEF Spec

-----------------------------------------------------------------------------
(* What the handles and the map stand for *)

\* A list with what is true of the devices an enumeration reports.
Reports(list) ==
  \A i \in DOMAIN list :
    /\ list[i].vendor \in Backends /\ list[i].index \in DOMAIN sees[list[i].vendor]
    /\ list[i].bus = sees[list[i].vendor][list[i].index]

\* Whatever an enumeration leaves behind, it lists cards where they are.
LEMMA EnumerationReports ==
  ASSUME sees \in Machines, NEW b \in Backends, NEW r \in Enumerations(b)
  PROVE  /\ \E n \in 0 .. Len(sees[b]) : r.list = Infos(b, n) \/ r.list = << >>
         /\ Reports(r.list)
         /\ \A i \in DOMAIN r.list : r.list[i].vendor = b /\ r.list[i].index = i
  <1>1. sees[b] \in Seq(Buses)
    BY MachinesAssumption
  <1>2. Len(sees[b]) \in Nat /\ DOMAIN sees[b] = 1 .. Len(sees[b])
    BY <1>1
  <1>3. PICK n \in 0 .. Len(sees[b]) : r.list = Infos(b, n) \/ r.list = << >>
    <2>. DEFINE m == IF Len(sees[b]) > MaxDevices THEN MaxDevices ELSE Len(sees[b])
    <2>1. m \in 0 .. Len(sees[b])
      BY <1>2, BoundsAssumption
    <2>2. \/ r = [ok |-> TRUE, list |-> Infos(b, m)]
          \/ r = [ok |-> FALSE, list |-> << >>]
          \/ \E k \in 0 .. m - 1 : r = [ok |-> FALSE, list |-> Infos(b, k)]
      BY DEF Enumerations
    <2>. HIDE DEF m
    <2>. QED BY <1>2, <2>1, <2>2
  <1>4. ASSUME NEW i \in DOMAIN r.list
        PROVE  /\ r.list[i] = [vendor |-> b, bus |-> sees[b][i], index |-> i]
               /\ i \in DOMAIN sees[b]
    BY <1>2, <1>3, <1>4 DEF Infos
  <1>5. ASSUME NEW i \in DOMAIN r.list
        PROVE  /\ r.list[i].vendor = b /\ r.list[i].index = i /\ i \in DOMAIN sees[b]
               /\ r.list[i].bus = sees[b][i]
    <2>. DEFINE d == r.list[i]
                card == sees[b][i]
    <2>1. d = [vendor |-> b, bus |-> card, index |-> i] /\ i \in DOMAIN sees[b]
      BY <1>4
    <2>. HIDE DEF d, card
    <2>2. d.vendor = b /\ d.index = i /\ d.bus = card
      BY <2>1
    <2>. QED BY <2>1, <2>2 DEF d, card
  <1>6. Reports(r.list)
    BY <1>5 DEF Reports
  <1>7. \E k \in 0 .. Len(sees[b]) : r.list = Infos(b, k) \/ r.list = << >>
    BY <1>3
  <1>. QED BY <1>5, <1>6, <1>7

\* The merge of two lists is a list of some of their devices.
LEMMA MergeReports ==
  ASSUME NEW p, NEW q, NEW a \in Nat, NEW b \in Nat, DOMAIN p = 1 .. a, DOMAIN q = 1 .. b,
         p \in Seq({p[i] : i \in DOMAIN p}), q \in Seq({q[i] : i \in DOMAIN q}),
         Reports(p), Reports(q)
  PROVE  /\ Reports(MergeAndDedupe(p, q))
         /\ \E n \in Nat : DOMAIN MergeAndDedupe(p, q) = 1 .. n
  <1>. DEFINE all == p \o q
              first == {i \in DOMAIN all : \A j \in 1 .. i - 1 : all[j].bus # all[i].bus}
              kth(k) == CHOOSE i \in first : Cardinality({j \in first : j < i}) = k - 1
  <1>1. /\ DOMAIN all = 1 .. a + b
        /\ \A i \in 1 .. a + b : all[i] = IF i <= a THEN p[i] ELSE q[i - a]
    <2>1. Len(p) = a /\ Len(q) = b
      OBVIOUS
    <2>2. Len(all) = a + b /\ DOMAIN all = 1 .. Len(all)
      BY <2>1
    <2>3. ASSUME NEW i \in 1 .. a + b PROVE all[i] = IF i <= a THEN p[i] ELSE q[i - a]
      BY <2>1
    <2>. QED BY <2>2, <2>3
  <1>2. Reports(all)
    <2>1. ASSUME NEW i \in 1 .. a + b
          PROVE  \/ i \in DOMAIN p /\ all[i] = p[i]
                 \/ i - a \in DOMAIN q /\ all[i] = q[i - a]
      BY <1>1
    <2>. HIDE DEF all
    <2>. QED BY <1>1, <2>1 DEF Reports
  <1>. HIDE DEF all
  <1>3. first \in SUBSET Nat /\ IsFiniteSet(first) /\ first \subseteq DOMAIN all
    <2>1. IsFiniteSet(1 .. a + b)
      BY FS_Interval
    <2>. QED BY <1>1, <2>1, FS_Subset
  <1>. HIDE DEF first
  <1>4. Cardinality(first) \in Nat
    BY <1>3, FS_CardinalityType
  <1>5. ASSUME NEW k \in 1 .. Cardinality(first) PROVE kth(k) \in first
    <2>1. \E i \in first : Cardinality(Below(first, i)) = k - 1
      BY <1>3, RankTaken
    <2>. QED BY <2>1 DEF Below
  <1>. HIDE DEF kth
  <1>6. MergeAndDedupe(p, q) = [k \in 1 .. Cardinality(first) |-> all[kth(k)]]
    BY DEF MergeAndDedupe, all, first, kth
  <1>. DEFINE merged == MergeAndDedupe(p, q)
  <1>7. DOMAIN merged = 1 .. Cardinality(first) /\ \A k \in DOMAIN merged : merged[k] = all[kth(k)] /\ kth(k) \in DOMAIN all
    BY <1>3, <1>5, <1>6
  <1>. HIDE DEF merged
  <1>8. Reports(merged)
    BY <1>2, <1>7 DEF Reports
  <1>. QED BY <1>4, <1>7, <1>8 DEF merged

\* The search for a bus finds a card of that bus.
LEMMA SearchFinds ==
  ASSUME NEW list, Reports(list), NEW bus, \E i \in DOMAIN list : list[i].bus = bus
  PROVE  LET d == list[IndexOfBus(list, bus)]
         IN /\ IndexOfBus(list, bus) \in DOMAIN list /\ d.bus = bus
            /\ d.vendor \in Backends /\ CardAt(<<d.vendor, d.index>>) = bus
  <1>1. IndexOfBus(list, bus) \in DOMAIN list /\ list[IndexOfBus(list, bus)].bus = bus
    BY DEF IndexOfBus
  <1>. QED BY <1>1 DEF Reports, CardAt

-----------------------------------------------------------------------------
(* The cards of the map, the buffers, and the count of the enumerations *)

\* The backend of a bus knows the card by that index.
CardsInv ==
  /\ sees \in Machines
  /\ \A bus \in DOMAIN busMap : Entry(bus).backend \in Backends
  /\ ReachesItsCard

\* A buffer is on the card of the device it was allocated for.
Kept(h) == CardAt(handles[h].place) = devs[handles[h].device].bus
BuffersInv == \A h \in SlotIds : handles[h].kind = "memory" => Kept(h)

\* An enumeration after the first two is paid for by an entry that is
\* reconciled by it for good, or by an attempt to override.
Reconciled == {bus \in DOMAIN busMap : Entry(bus).remapped}
EnumsInv ==
  /\ enums \in Nat /\ attempts \in Nat
  /\ IsFiniteSet(DOMAIN busMap)
  /\ initialized \in {"no", "enumerated", "seeded"}
  /\ initialized = "no" => enums = 0 /\ DOMAIN busMap = {}
  /\ initialized = "seeded" => Reconciled = DOMAIN busMap
  /\ enums <= attempts + (IF initialized = "enumerated" THEN 2 + Cardinality(Reconciled) ELSE 0)

PlaceInv == Inv /\ NoDevices /\ CardsInv /\ BuffersInv /\ EnumsInv

LEMMA InitPlaceInv == Init => PlaceInv
  <1>. SUFFICES ASSUME Init PROVE PlaceInv
    OBVIOUS
  <1>1. Inv /\ NoDevices
    BY InitInv DEF Init, NoDevices
  <1>2. DOMAIN busMap = {}
    BY DEF Init
  <1>3. CardsInv
    BY <1>2 DEF Init, CardsInv, ReachesItsCard
  <1>4. BuffersInv
    BY DEF Init, BuffersInv, NoHandle
  <1>5. EnumsInv
    BY <1>2, FS_EmptySet DEF Init, EnumsInv
  <1>. QED BY <1>1, <1>3, <1>4, <1>5 DEF PlaceInv

\* Both initialisations take the list from enumerations of the backends.
LEMMA InitialisedFrom ==
  ASSUME sees \in Machines, DevInit \/ DevInitFromDevices
  PROVE  /\ Reports(devs') /\ \E n \in Nat : DOMAIN devs' = 1 .. n
         /\ \E remapped \in BOOLEAN :
              /\ busMap' = MapOf(devs', remapped)
              /\ DevInitFromDevices => remapped
  <1>1. ASSUME NEW b \in Backends, NEW r \in Enumerations(b), NEW p \in {r.list, << >>}
        PROVE  /\ Reports(p) /\ p \in Seq({p[i] : i \in DOMAIN p})
               /\ \E n \in Nat : DOMAIN p = 1 .. n
    <2>1. PICK n \in 0 .. Len(sees[b]) : r.list = Infos(b, n) \/ r.list = << >>
      BY EnumerationReports
    <2>2. n \in Nat
      <3>1. sees[b] \in Seq(Buses)
        BY MachinesAssumption
      <3>. QED BY <3>1
    <2>3. Reports(r.list) /\ Reports(<< >>)
      BY EnumerationReports DEF Reports
    <2>4. CASE p = Infos(b, n)
      <3>1. DOMAIN p = 1 .. n
        BY <2>4 DEF Infos
      <3>2. p = [i \in 1 .. n |-> p[i]]
        BY <2>4 DEF Infos
      <3>. QED BY <1>1, <2>2, <2>3, <2>4, <3>1, <3>2
    <2>5. CASE p = << >>
      <3>1. DOMAIN p = 1 .. 0 /\ p \in Seq({p[i] : i \in DOMAIN p})
        BY <2>5
      <3>. QED BY <2>3, <2>5, <3>1
    <2>. QED BY <1>1, <2>1, <2>4, <2>5
  <1>2. ASSUME NEW a \in Enumerations("amd"), NEW n \in Enumerations("nvidia"),
               NEW p \in {a.list, << >>}, NEW q \in {n.list, << >>}
        PROVE  /\ Reports(MergeAndDedupe(p, q))
               /\ \E k \in Nat : DOMAIN MergeAndDedupe(p, q) = 1 .. k
    <2>1. Reports(p) /\ p \in Seq({p[i] : i \in DOMAIN p}) /\ \E k \in Nat : DOMAIN p = 1 .. k
      BY <1>1 DEF Backends
    <2>2. Reports(q) /\ q \in Seq({q[i] : i \in DOMAIN q}) /\ \E k \in Nat : DOMAIN q = 1 .. k
      BY <1>1 DEF Backends
    <2>. QED BY <2>1, <2>2, MergeReports
  <1>3. CASE DevInit
    <2>1. PICK a \in Enumerations("amd"), n \in Enumerations("nvidia") :
            devs' = MergeAndDedupe(a.list, n.list) /\ busMap' = MapOf(devs', FALSE)
      BY <1>3 DEF DevInit
    <2>2. ~DevInitFromDevices
      BY <1>3 DEF DevInit, DevInitFromDevices
    <2>. QED BY <1>2, <2>1, <2>2
  <1>4. CASE DevInitFromDevices
    <2>1. PICK wanted \in SUBSET Backends, a \in Enumerations("amd"), n \in Enumerations("nvidia") :
            LET list == MergeAndDedupe(IF "amd" \in wanted THEN a.list ELSE << >>,
                                       IF "nvidia" \in wanted THEN n.list ELSE << >>)
            IN devs' = list /\ busMap' = MapOf(list, TRUE)
      BY <1>4 DEF DevInitFromDevices
    <2>. DEFINE p == IF "amd" \in wanted THEN a.list ELSE << >>
                q == IF "nvidia" \in wanted THEN n.list ELSE << >>
    <2>2. devs' = MergeAndDedupe(p, q) /\ busMap' = MapOf(devs', TRUE)
      BY <2>1
    <2>3. p \in {a.list, << >>} /\ q \in {n.list, << >>}
      OBVIOUS
    <2>. HIDE DEF p, q
    <2>. QED BY <1>2, <2>2, <2>3
  <1>. QED BY <1>3, <1>4

LEMMA InitialisationPlaces ==
  ASSUME PlaceInv, DevInit \/ DevInitFromDevices
  PROVE  CardsInv' /\ BuffersInv' /\ EnumsInv'
  <1>1. /\ sees' = sees /\ sees \in Machines /\ handles' = handles
        /\ attempts' = attempts /\ initialized = "no"
    BY DEF DevInit, DevInitFromDevices, overrides, PlaceInv, CardsInv
  <1>2. Reports(devs') /\ \E n \in Nat : DOMAIN devs' = 1 .. n
    BY <1>1, InitialisedFrom
  <1>3. PICK remapped \in BOOLEAN :
          busMap' = MapOf(devs', remapped) /\ (DevInitFromDevices => remapped)
    BY <1>1, InitialisedFrom
  <1>4. DOMAIN busMap' = {devs'[i].bus : i \in DOMAIN devs'}
    BY <1>3 DEF MapOf
  <1>5. ASSUME NEW bus \in DOMAIN busMap'
        PROVE  /\ busMap'[bus].backend \in Backends
               /\ CardAt(Selected(busMap'[bus])) = bus
               /\ busMap'[bus].remapped = remapped
    <2>1. \E i \in DOMAIN devs' : devs'[i].bus = bus
      BY <1>4
    <2>. DEFINE d == devs'[IndexOfBus(devs', bus)]
    <2>2. d.vendor \in Backends /\ CardAt(<<d.vendor, d.index>>) = bus
      BY <1>2, <2>1, SearchFinds
    <2>3. busMap'[bus] = [backend |-> d.vendor, index |-> d.index, remapped |-> remapped]
      BY <1>3, <1>4 DEF MapOf
    <2>. HIDE DEF d
    <2>. QED BY <2>2, <2>3 DEF Selected
  <1>6. CardsInv'
    <2>1. ReachesItsCard'
      BY <1>1, <1>5 DEF ReachesItsCard, CardAt, Selected
    <2>. QED BY <1>1, <1>5, <2>1 DEF CardsInv
  <1>7. BuffersInv'
    <2>1. \A h \in SlotIds : handles[h] = NoHandle
      BY <1>1 DEF PlaceInv, Inv, NothingYet
    <2>. QED BY <1>1, <2>1 DEF BuffersInv, NoHandle, SlotIds
  <1>8. IsFiniteSet(DOMAIN busMap')
    <2>1. PICK n \in Nat : DOMAIN devs' = 1 .. n
      BY <1>2
    <2>. DEFINE f == [i \in 1 .. n |-> devs'[i].bus]
    <2>2. f \in Surjection(1 .. n, DOMAIN busMap')
      BY <1>4, <2>1 DEF Surjection
    <2>. QED BY <2>2, FS_Surjection, FS_Interval
  <1>9. EnumsInv'
    <2>1. enums = 0 /\ attempts \in Nat
      BY <1>1 DEF PlaceInv, EnumsInv
    <2>2. Reconciled' \subseteq DOMAIN busMap'
      BY DEF Reconciled
    <2>3. Cardinality(Reconciled') \in Nat
      BY <1>8, <2>2, FS_Subset, FS_CardinalityType
    <2>4. CASE DevInit
      <3>1. enums' = 2 /\ initialized' = "enumerated"
        BY <2>1, <2>4 DEF DevInit
      <3>. QED BY <1>1, <1>8, <2>1, <2>3, <3>1 DEF EnumsInv
    <2>5. CASE DevInitFromDevices
      <3>1. enums' = 0 /\ initialized' = "seeded"
        BY <2>1, <2>5 DEF DevInitFromDevices
      <3>2. Reconciled' = DOMAIN busMap'
        BY <1>3, <1>5, <2>5 DEF Reconciled
      <3>. QED BY <1>1, <1>8, <2>1, <3>1, <3>2 DEF EnumsInv
    <2>. QED BY <2>4, <2>5
  <1>. QED BY <1>6, <1>7, <1>9

\* A device is resolved to its card, and an entry that was not reconciled is now.
LEMMA ResolvePlaces ==
  ASSUME PlaceInv, NEW d \in DOMAIN devs, NEW e \in Entries(d), Resolve(d, e),
         UNCHANGED known, attempts' = attempts
  PROVE  CardsInv' /\ EnumsInv' /\ CardAt(Selected(e)) = devs[d].bus
  <1>. DEFINE bus == devs[d].bus
              old == Entry(bus)
  <1>1. /\ devs' = devs /\ sees' = sees /\ initialized' = initialized
        /\ sees \in Machines /\ bus \in DOMAIN busMap /\ MapShape /\ initialized # "no"
    BY DEF known, PlaceInv, CardsInv, Inv, MapShape, NoDevices
  <1>2. /\ old.backend \in Backends /\ CardAt(Selected(old)) = bus
        /\ old.remapped \in BOOLEAN
    BY <1>1 DEF PlaceInv, CardsInv, ReachesItsCard, MapShape
  <1>3. /\ MapShape' /\ e.remapped = TRUE /\ e.backend = old.backend /\ busMap'[bus] = e
        /\ old.remapped => e = old
    <2>1. MapShape' /\ e.remapped /\ e.backend = old.backend /\ busMap'[bus] = e
          /\ (old.remapped => e = old)
      BY <1>1, ResolveInv
    <2>2. bus \in DOMAIN busMap'
      BY <1>1, <2>1 DEF MapShape
    <2>3. e.remapped \in BOOLEAN
      BY <2>1, <2>2 DEF MapShape
    <2>. QED BY <2>1, <2>3
  <1>4. busMap' = [busMap EXCEPT ![bus] = e]
    BY DEF Resolve
  <1>5. CardAt(Selected(e)) = bus
    <2>1. CASE old.remapped
      BY <1>2, <1>3, <2>1
    <2>2. CASE ~old.remapped
      <3>1. PICK i \in FindVendorIndexFor(bus, old.backend) :
              e = [old EXCEPT !.index = IF i = 0 THEN @ ELSE i, !.remapped = TRUE]
        BY <2>2 DEF Entries
      <3>2. old = [backend |-> old.backend, index |-> old.index, remapped |-> old.remapped]
        BY <1>1 DEF MapShape
      <3>3. e.index = IF i = 0 THEN old.index ELSE i
        <4>. HIDE DEF old
        <4>. QED BY <3>1, <3>2
      <3>4. CASE i = 0
        BY <1>2, <1>3, <3>3, <3>4 DEF Selected
      <3>5. CASE i # 0
        <4>1. PICK r \in Enumerations(old.backend) :
                i = IF r.ok THEN IndexOfBus(r.list, bus) ELSE 0
          BY <3>1 DEF FindVendorIndexFor
        <4>2. i = IndexOfBus(r.list, bus) /\ \E k \in DOMAIN r.list : r.list[k].bus = bus
          BY <3>5, <4>1 DEF IndexOfBus
        <4>3. /\ Reports(r.list)
              /\ \A k \in DOMAIN r.list : r.list[k].vendor = old.backend /\ r.list[k].index = k
          BY <1>1, <1>2, EnumerationReports
        <4>4. CardAt(<<old.backend, i>>) = bus
          <5>. DEFINE found == r.list[IndexOfBus(r.list, bus)]
          <5>1. IndexOfBus(r.list, bus) \in DOMAIN r.list
                /\ CardAt(<<found.vendor, found.index>>) = bus
            BY <4>2, <4>3, SearchFinds
          <5>2. found.vendor = old.backend /\ found.index = i
            BY <4>2, <4>3, <5>1
          <5>. HIDE DEF found
          <5>. QED BY <5>1, <5>2
        <4>. QED BY <1>3, <3>3, <3>5, <4>4 DEF Selected
      <3>. QED BY <3>4, <3>5
    <2>. QED BY <2>1, <2>2
  <1>. HIDE DEF old
  <1>6. CardsInv'
    <2>1. ASSUME NEW b \in DOMAIN busMap'
          PROVE  busMap'[b].backend \in Backends /\ CardAt(Selected(busMap'[b])) = b
      <3>1. CASE b = bus
        BY <1>2, <1>3, <1>5, <3>1
      <3>2. CASE b # bus
        <4>1. b \in DOMAIN busMap /\ busMap'[b] = busMap[b]
          BY <1>4, <3>2
        <4>. QED BY <4>1 DEF PlaceInv, CardsInv, ReachesItsCard
      <3>. QED BY <3>1, <3>2
    <2>2. ReachesItsCard'
      BY <1>1, <2>1 DEF ReachesItsCard, CardAt, Selected
    <2>. QED BY <1>1, <2>1, <2>2 DEF CardsInv
  <1>7. EnumsInv'
    <2>1. DOMAIN busMap' = DOMAIN busMap /\ IsFiniteSet(DOMAIN busMap)
      BY <1>4 DEF PlaceInv, EnumsInv
    <2>2. Reconciled' = Reconciled \union {bus}
      BY <1>1, <1>3, <1>4, <2>1 DEF Reconciled
    <2>3. IsFiniteSet(Reconciled) /\ Cardinality(Reconciled) \in Nat
      <3>1. Reconciled \subseteq DOMAIN busMap
        BY DEF Reconciled
      <3>. QED BY <2>1, <3>1, FS_Subset, FS_CardinalityType
    <2>4. Cardinality(Reconciled') = IF old.remapped THEN Cardinality(Reconciled)
                                                     ELSE Cardinality(Reconciled) + 1
      <3>1. bus \in Reconciled <=> old.remapped
        BY <1>1 DEF Reconciled, old
      <3>. QED BY <2>2, <2>3, <3>1, FS_AddElement
    <2>5. enums' = IF old.remapped THEN enums ELSE enums + 1
      BY DEF Resolve, old
    <2>6. initialized = "seeded" => old.remapped
      BY <1>1 DEF PlaceInv, EnumsInv, Reconciled, old
    <2>7. initialized = "seeded" => Reconciled' = DOMAIN busMap'
      BY <1>1, <2>1, <2>2 DEF PlaceInv, EnumsInv
    <2>8. /\ enums \in Nat /\ attempts \in Nat /\ initialized \in {"enumerated", "seeded"}
          /\ enums <= attempts + (IF initialized = "enumerated"
                                  THEN 2 + Cardinality(Reconciled) ELSE 0)
      BY <1>1 DEF PlaceInv, EnumsInv
    <2>9. CASE initialized = "enumerated"
      BY <1>1, <2>1, <2>3, <2>4, <2>5, <2>8, <2>9 DEF EnumsInv
    <2>10. CASE initialized = "seeded"
      BY <1>1, <2>1, <2>5, <2>6, <2>7, <2>8, <2>10 DEF EnumsInv
    <2>. QED BY <2>8, <2>9, <2>10
  <1>. QED BY <1>5, <1>6, <1>7

\* Buffers stay where they are while the devices keep their numbers.
LEMMA KeepBuffers ==
  ASSUME BuffersInv, UNCHANGED known,
         \A h \in SlotIds : handles'[h].kind = "memory" =>
           handles'[h] = handles[h] \/ Kept(h)'
  PROVE  BuffersInv'
  <1>1. ASSUME NEW h \in SlotIds, handles'[h].kind = "memory", handles'[h] = handles[h]
        PROVE  Kept(h)'
    BY <1>1 DEF BuffersInv, Kept, CardAt, known
  <1>. QED BY <1>1 DEF BuffersInv, SlotIds

LEMMA ForcePlaces ==
  ASSUME PlaceInv, NEW bus \in DOMAIN busMap, NEW b \in Backends,
         DevForceBackendForBus(bus, b)
  PROVE  CardsInv' /\ BuffersInv' /\ EnumsInv'
  <1>1. /\ UNCHANGED known /\ handles' = handles /\ sees' = sees /\ devs' = devs
        /\ initialized' = initialized /\ initialized # "no"
        /\ attempts' = attempts + 1 /\ enums' = enums + 1
    BY DEF DevForceBackendForBus, known
  <1>2. \/ busMap' = busMap
        \/ \E r \in Enumerations(b) :
             LET i == IndexOfBus(r.list, bus)
             IN /\ i # 0
                /\ busMap' = [busMap EXCEPT ![bus] =
                                [backend |-> b, index |-> i, remapped |-> TRUE]]
    BY DEF DevForceBackendForBus
  <1>3. BuffersInv'
    BY <1>1, KeepBuffers DEF PlaceInv
  <1>4. CardsInv'
    <2>1. CASE busMap' = busMap
      BY <1>1, <2>1 DEF PlaceInv, CardsInv, ReachesItsCard, CardAt, Selected
    <2>2. ASSUME NEW r \in Enumerations(b), IndexOfBus(r.list, bus) # 0,
                 busMap' = [busMap EXCEPT ![bus] =
                              [backend |-> b, index |-> IndexOfBus(r.list, bus),
                               remapped |-> TRUE]]
          PROVE  CardsInv'
      <3>. DEFINE i == IndexOfBus(r.list, bus)
                  found == r.list[i]
      <3>1. \E k \in DOMAIN r.list : r.list[k].bus = bus
        BY <2>2 DEF IndexOfBus
      <3>2. /\ Reports(r.list)
            /\ \A k \in DOMAIN r.list : r.list[k].vendor = b /\ r.list[k].index = k
        BY EnumerationReports DEF PlaceInv, CardsInv
      <3>3. i \in DOMAIN r.list /\ CardAt(<<found.vendor, found.index>>) = bus
        BY <3>1, <3>2, SearchFinds
      <3>4. found.vendor = b /\ found.index = i
        BY <3>2, <3>3
      <3>5. CardAt(<<b, i>>) = bus
        <4>. HIDE DEF found, i
        <4>. QED BY <3>3, <3>4
      <3>6. busMap' = [busMap EXCEPT ![bus] = [backend |-> b, index |-> i, remapped |-> TRUE]]
        BY <2>2
      <3>. HIDE DEF found, i
      <3>7. ASSUME NEW c \in DOMAIN busMap'
            PROVE  busMap'[c].backend \in Backends /\ CardAt(Selected(busMap'[c])) = c
        <4>1. CASE c = bus
          BY <3>5, <3>6, <4>1 DEF Selected
        <4>2. CASE c # bus
          BY <3>6, <4>2 DEF PlaceInv, CardsInv, ReachesItsCard
        <4>. QED BY <4>1, <4>2
      <3>8. ReachesItsCard'
        BY <1>1, <3>7 DEF ReachesItsCard, CardAt, Selected
      <3>. QED BY <1>1, <3>7, <3>8 DEF PlaceInv, CardsInv
    <2>. QED BY <1>2, <2>1, <2>2
  <1>5. EnumsInv'
    <2>1. DOMAIN busMap' = DOMAIN busMap /\ Reconciled \subseteq Reconciled'
          /\ Reconciled' \subseteq DOMAIN busMap
      BY <1>2 DEF Reconciled
    <2>2. IsFiniteSet(DOMAIN busMap)
      BY DEF PlaceInv, EnumsInv
    <2>3. IsFiniteSet(Reconciled') /\ IsFiniteSet(Reconciled)
      BY <2>1, <2>2, FS_Subset
    <2>4. /\ Cardinality(Reconciled) <= Cardinality(Reconciled')
          /\ Cardinality(Reconciled) \in Nat /\ Cardinality(Reconciled') \in Nat
      BY <2>1, <2>3, FS_Subset, FS_CardinalityType
    <2>5. initialized = "seeded" => Reconciled' = DOMAIN busMap'
      BY <2>1 DEF PlaceInv, EnumsInv
    <2>6. /\ enums \in Nat /\ attempts \in Nat /\ initialized \in {"enumerated", "seeded"}
          /\ enums <= attempts + (IF initialized = "enumerated"
                                  THEN 2 + Cardinality(Reconciled) ELSE 0)
      BY <1>1 DEF PlaceInv, EnumsInv
    <2>. QED BY <1>1, <2>1, <2>2, <2>4, <2>5, <2>6 DEF EnumsInv
  <1>. QED BY <1>3, <1>4, <1>5

\* A call that resolves no device changes neither the map nor the count.
LEMMA CallPlaces ==
  ASSUME PlaceInv, UNCHANGED <<known, busMap, enums, overrides>>,
         \A h \in SlotIds : handles'[h].kind = "memory" => handles'[h] = handles[h]
  PROVE  CardsInv' /\ BuffersInv' /\ EnumsInv'
  <1>1. CardsInv'
    BY DEF PlaceInv, CardsInv, ReachesItsCard, CardAt, Selected, known
  <1>2. EnumsInv'
    BY DEF PlaceInv, EnumsInv, Reconciled, known, overrides
  <1>. QED BY <1>1, <1>2, KeepBuffers DEF PlaceInv

LEMMA PlaceStep == PlaceInv /\ [Next]_vars => PlaceInv'
  <1>. SUFFICES ASSUME PlaceInv, [Next]_vars PROVE CardsInv' /\ BuffersInv' /\ EnumsInv'
    BY StepInv DEF PlaceInv
  <1>1. CASE DevInit \/ DevInitFromDevices
    BY <1>1, InitialisationPlaces
  <1>2. ASSUME NEW d \in DOMAIN devs, NEW e \in Entries(d), Resolve(d, e),
               UNCHANGED <<known, overrides, handles>>
        PROVE  CardsInv' /\ BuffersInv' /\ EnumsInv'
    <2>1. CardsInv' /\ EnumsInv'
      BY <1>2, ResolvePlaces DEF overrides
    <2>2. BuffersInv'
      BY <1>2, KeepBuffers DEF PlaceInv
    <2>. QED BY <2>1, <2>2
  <1>3. ASSUME NEW d \in DOMAIN devs, NEW h \in Free,
               DevAlloc(d, h) \/ DevStreamCreate(d, h) \/ DevEventCreate(d, h)
        PROVE  CardsInv' /\ BuffersInv' /\ EnumsInv'
    <2>1. UNCHANGED <<known, overrides>> /\ h \in SlotIds
      BY <1>3 DEF DevAlloc, DevStreamCreate, DevEventCreate, Create, Free
    <2>2. \E e \in Entries(d), kind \in {"memory", "stream", "event"} : \E place :
            /\ Resolve(d, e) /\ (kind = "memory" => place = Selected(e))
            /\ handles' = [handles EXCEPT ![h] = Handle(kind, d, e, place)]
      BY <1>3 DEF DevAlloc, DevStreamCreate, DevEventCreate, Create
    <2>3. PICK e \in Entries(d), kind \in {"memory", "stream", "event"} : \E place :
            /\ Resolve(d, e) /\ (kind = "memory" => place = Selected(e))
            /\ handles' = [handles EXCEPT ![h] = Handle(kind, d, e, place)]
      BY <2>2
    <2>4. PICK place :
            /\ Resolve(d, e) /\ (kind = "memory" => place = Selected(e))
            /\ handles' = [handles EXCEPT ![h] = Handle(kind, d, e, place)]
      BY <2>3
    <2>5. CardsInv' /\ EnumsInv' /\ CardAt(Selected(e)) = devs[d].bus
      BY <2>1, <2>4, ResolvePlaces DEF overrides
    <2>6. /\ handles'[h] = Handle(kind, d, e, place)
          /\ \A g \in SlotIds \ {h} : handles'[g] = handles[g]
      BY <2>1, <2>4 DEF PlaceInv, Inv, HandlesOK
    <2>7. handles'[h].kind = "memory" => Kept(h)'
      BY <2>1, <2>4, <2>5, <2>6 DEF Handle, Kept, CardAt, known
    <2>8. BuffersInv'
      BY <2>1, <2>6, <2>7, KeepBuffers DEF PlaceInv
    <2>. QED BY <2>5, <2>8
  <1>4. ASSUME UNCHANGED <<known, busMap, enums, overrides>>,
               \/ handles' = handles
               \/ \E h \in SlotIds : handles' = [handles EXCEPT ![h] = NoHandle]
        PROVE  CardsInv' /\ BuffersInv' /\ EnumsInv'
    <2>1. \A h \in SlotIds : handles'[h].kind = "memory" => handles'[h] = handles[h]
      BY <1>4 DEF PlaceInv, Inv, HandlesOK, NoHandle
    <2>. QED BY <1>4, <2>1, CallPlaces
  <1>5. ASSUME NEW d \in DOMAIN devs, Query(d)
        PROVE  CardsInv' /\ BuffersInv' /\ EnumsInv'
    BY <1>2, <1>5 DEF Query
  <1>6. ASSUME NEW d \in DOMAIN devs, NEW buf, NEW s, DevLaunch(d, buf, s)
        PROVE  CardsInv' /\ BuffersInv' /\ EnumsInv'
    BY <1>2, <1>6 DEF DevLaunch
  <1>7. ASSUME NEW h \in SlotIds, DevCopy(h) \/ Drop(h) \/ Sync(h)
        PROVE  CardsInv' /\ BuffersInv' /\ EnumsInv'
    BY <1>4, <1>7 DEF DevCopy, Drop, Sync
  <1>8. ASSUME NEW g, NEW h, DevEventRecord(g, h) \/ DevEventElapsedMs(g, h)
        PROVE  CardsInv' /\ BuffersInv' /\ EnumsInv'
    BY <1>4, <1>8 DEF DevEventRecord, DevEventElapsedMs
  <1>9. ASSUME NEW b \in Backends, NEW i, PoolOp(b, i)
        PROVE  CardsInv' /\ BuffersInv' /\ EnumsInv'
    BY <1>4, <1>9 DEF PoolOp
  <1>10. ASSUME UNCHANGED vars PROVE CardsInv' /\ BuffersInv' /\ EnumsInv'
    BY <1>4, <1>10 DEF vars, known, overrides
  <1>11. \A kind \in {"memory", "stream", "event"} : Live(kind) \subseteq SlotIds
    BY DEF Live
  <1>. QED
    BY <1>1, <1>3, <1>5, <1>6, <1>7, <1>8, <1>9, <1>10, <1>11, ForcePlaces
      DEF Next, DevFree, DevStreamDestroy, DevEventDestroy, DevStreamSync, DevEventSync

LEMMA PlaceInvariance == Spec => []PlaceInv
  <1>. QED BY InitPlaceInv, PlaceStep, PTL DEF Spec

\* The entry of a bus names its card in the numbering of its backend, whichever
\* enumerations fail or are cut short and whichever buses are overridden
\* (devabstraction.cpp:95-106, 532-561).
THEOREM BusesReachTheirCards == Spec => []ReachesItsCard
  <1>1. PlaceInv => ReachesItsCard
    BY DEF PlaceInv, CardsInv
  <1>. QED BY <1>1, PlaceInvariance, PTL

\* A buffer lives on the card of the device it was allocated for, overrides of
\* the backend of its bus included (devabstraction.cpp:131, 167).
THEOREM BuffersStay == Spec => []BuffersKeepTheirDevice
  <1>1. PlaceInv => BuffersKeepTheirDevice
    BY LiveHandle DEF PlaceInv, BuffersInv, Kept, Inv, HandlesOK, Placed,
      BuffersKeepTheirDevice
  <1>. QED BY <1>1, PlaceInvariance, PTL

\* No sequence of calls makes the abstraction enumerate a backend more often
\* than twice at the start, once for each bus, and once for each override
\* (devabstraction.cpp:45-47, 182-185).
THEOREM EnumerationsBounded == Spec => []EnumerationsAreBounded
  <1>1. ASSUME PlaceInv PROVE EnumerationsAreBounded
    <2>1. /\ IsFiniteSet(DOMAIN busMap) /\ Reconciled \subseteq DOMAIN busMap
          /\ enums \in Nat /\ attempts \in Nat
          /\ enums <= attempts + (IF initialized = "enumerated"
                                  THEN 2 + Cardinality(Reconciled) ELSE 0)
      BY <1>1 DEF PlaceInv, EnumsInv, Reconciled
    <2>2. /\ Cardinality(Reconciled) <= Cardinality(DOMAIN busMap)
          /\ Cardinality(Reconciled) \in Nat /\ Cardinality(DOMAIN busMap) \in Nat
      BY <2>1, FS_Subset, FS_CardinalityType
    <2>. QED BY <2>1, <2>2 DEF EnumerationsAreBounded
  <1>. QED BY <1>1, PlaceInvariance, PTL

-----------------------------------------------------------------------------
(* The small-prime cache of the slab engine, which its threads keep in device *)
(* memory without the device layer, in module PrimeCache: its inductive        *)
(* invariant.                                                                 *)

\* The block a unit caches was allocated by a device of that unit.
CachedByOwner ==
  \A u \in Units : ptr[u] # Null =>
    /\ block[ptr[u]].is # "unused"
    /\ block[ptr[u]].on \in Devices
    /\ unitOf[block[ptr[u]].on] = u

\* A device that has its unit to itself allocates one block when it first calls,
\* and has it cached and never freed from then on; until the first upload has
\* ended no kernel of it runs.
KeepsBlock(d) ==
  LET p == Cached(d) IN
  /\ pc[d] \notin {"free", "clear"}
  /\ \A b \in Blocks : block[b].on = d => b = p
  /\ p # Null => block[p].on = d /\ block[p].is \in {"garbage", "primes"}
  /\ p = Null => pc[d] \in {"check", "malloc", "stopped", "uploadFailed"} /\ reading[d] = {}
  /\ reading[d] \subseteq {p}
  /\ reading[d] # {} => block[p].is = "primes"

\* And it is uploaded when its thread has passed the upload, and stays valid.
KeepsUpload(d) ==
  LET p == Cached(d) IN
  /\ pc[d] = "malloc" => p = Null
  /\ pc[d] \in {"count", "vendor", "launch"} => block[p].is = "primes"
  /\ pc[d] \in {"vendor", "launch"} => counted[unitOf[d]]
  /\ pc[d] = "launch" => vendor[unitOf[d]] = d
  /\ pc[d] = "check" /\ p # Null => block[p].is = "primes" /\ Hit(d)

LoneInv == \A d \in Devices : Alone(d) => KeepsBlock(d) /\ KeepsUpload(d)

\* A thread inside a call has calls left.
CallsLeft == \A d \in Devices : pc[d] \notin {"check", "stopped", "uploadFailed"} => left[d] > 0

CacheInv == CacheTypeOK /\ CallsLeft /\ CachedByOwner /\ LoneInv

-----------------------------------------------------------------------------
(* The small-prime cache: types *)

Places == {"check", "free", "clear", "malloc", "copy", "count", "vendor", "launch",
           "stopped", "uploadFailed"}

\* There are blocks 1, 2, ..., and the null pointer is none of them.
LEMMA BlocksAreNumbers ==
  Blocks \subseteq Nat \ {Null}
  BY DEF Blocks, Null

\* Every statement on the cache keeps the variables typed.
LEMMA TypeStep ==
  ASSUME CacheTypeOK, CallsLeft, [CacheNext]_cacheVars
  PROVE  CacheTypeOK' /\ CallsLeft' /\ UNCHANGED unitOf
<1> USE DEF CacheTypeOK
<1>1. ASSUME NEW d \in Devices, ComputeSlab(d) PROVE UNCHANGED unitOf
  BY <1>1 DEF ComputeSlab, Check, FreeStale, Clear, Malloc, Copy,
      SetCount, SetVendor, Launch
<1>2. ASSUME NEW d \in Devices, ComputeSlab(d) PROVE pc' \in [Devices -> Places]
  <2>1. \A x \in Places : Goto(d, x) => pc' \in [Devices -> Places]
    BY DEF Goto, Places
  <2>2. \A x \in {"check", "free", "clear", "malloc", "copy", "count", "vendor",
                  "launch", "stopped", "uploadFailed"} : x \in Places
    BY DEF Places
  <2>3. QED BY <1>2, <2>1, <2>2 DEF ComputeSlab, Check, FreeStale, Clear,
      Malloc, Copy, SetCount, SetVendor, Launch
<1>3. ASSUME NEW d \in Devices, Check(d) PROVE CacheTypeOK'
  BY <1>2, <1>3 DEF Check, ComputeSlab, cache, Places
<1>4. ASSUME NEW d \in Devices, FreeStale(d) PROVE CacheTypeOK'
  <2>1. block' \in [Blocks -> [on : Devices \union {NoDevice}, is : BlockStates]]
    <3>1. CASE UNCHANGED block
      BY <3>1
    <3>2. CASE ~UNCHANGED block
      <4>1. Cached(d) \in Blocks
        BY <1>4, <3>2 DEF FreeStale, Cached
      <4>2. \E x \in {"freed", "freedTwice"} : block' = [block EXCEPT ![Cached(d)].is = x]
        BY <1>4, <3>2 DEF FreeStale
      <4>3. QED BY <4>1, <4>2 DEF BlockStates
    <3>3. QED BY <3>1, <3>2
  <2>2. QED BY <1>2, <1>4, <2>1 DEF FreeStale, ComputeSlab, cache, Places
<1>5. ASSUME NEW d \in Devices, Clear(d) PROVE CacheTypeOK'
  BY <1>2, <1>5 DEF Clear, ComputeSlab, Places
<1>6. ASSUME NEW d \in Devices, Malloc(d) PROVE CacheTypeOK'
  <2>1. /\ block' \in [Blocks -> [on : Devices \union {NoDevice}, is : BlockStates]]
        /\ ptr' \in [Units -> Blocks \union {Null}]
    <3>1. CASE UNCHANGED <<ptr, block>>
      BY <3>1
    <3>2. CASE ~UNCHANGED <<ptr, block>>
      <4>1. PICK b \in Blocks : /\ block' = [block EXCEPT ![b] = [on |-> d, is |-> "garbage"]]
                                /\ ptr' = [ptr EXCEPT ![unitOf[d]] = b]
        BY <1>6, <3>2 DEF Malloc
      <4>2. [on |-> d, is |-> "garbage"] \in [on : Devices \union {NoDevice}, is : BlockStates]
        BY DEF BlockStates
      <4>3. QED BY <4>1, <4>2
    <3>3. QED BY <3>1, <3>2
  <2>2. QED BY <1>2, <1>6, <2>1 DEF Malloc, ComputeSlab, Places
<1>7. ASSUME NEW d \in Devices, Copy(d) PROVE CacheTypeOK'
  <2>1. block' \in [Blocks -> [on : Devices \union {NoDevice}, is : BlockStates]]
    <3>1. CASE UNCHANGED block
      BY <3>1
    <3>2. CASE ~UNCHANGED block
      <4>1. Cached(d) \in Blocks /\ block' = [block EXCEPT ![Cached(d)].is = "primes"]
        BY <1>7, <3>2 DEF Copy, Cached
      <4>2. QED BY <4>1 DEF BlockStates
    <3>3. QED BY <3>1, <3>2
  <2>2. QED BY <1>2, <1>7, <2>1 DEF Copy, ComputeSlab, cache, Places
<1>8. ASSUME NEW d \in Devices, SetCount(d) \/ SetVendor(d) PROVE CacheTypeOK'
  BY <1>2, <1>8 DEF SetCount, SetVendor, ComputeSlab, Places
<1>9. ASSUME NEW d \in Devices, Launch(d) PROVE CacheTypeOK'
  <2>1. Cached(d) \in Blocks \union {Null}
    BY DEF Cached
  <2>2. reading' \in [Devices -> SUBSET (Blocks \union {Null})]
    BY <1>9, <2>1 DEF Launch
  <2>3. left' \in [Devices -> 0 .. Calls]
    <3>1. left[d] \in 0 .. Calls
      OBVIOUS
    <3>2. left[d] > 0
      BY <1>9 DEF Launch, CallsLeft
    <3>3. QED BY <1>9, <3>1, <3>2, CallsAssumption DEF Launch
  <2>4. QED BY <1>2, <1>9, <2>2, <2>3 DEF Launch, ComputeSlab, cache, Places
<1>10. ASSUME NEW d \in Devices, KernelsEnd(d) PROVE CacheTypeOK' /\ UNCHANGED unitOf
  BY <1>10 DEF KernelsEnd, cache
<1>11. ASSUME UNCHANGED cacheVars PROVE CacheTypeOK' /\ UNCHANGED unitOf
  BY <1>11 DEF cacheVars
<1>12. CallsLeft'
  <2>1. ASSUME NEW d \in Devices, ComputeSlab(d)
        PROVE  /\ \A e \in Devices \ {d} : pc'[e] = pc[e] /\ left'[e] = left[e]
               /\ pc'[d] \notin {"check", "stopped", "uploadFailed"} => left'[d] = left[d] /\ left[d] > 0
    <3>1. CASE Launch(d)
      BY <3>1 DEF Launch, Goto
    <3>2. CASE Check(d)
      BY <3>2 DEF Check, Goto
    <3>3. CASE ~Launch(d) /\ ~Check(d)
      BY <2>1, <3>3 DEF ComputeSlab, FreeStale, Clear, Malloc, Copy,
          SetCount, SetVendor, Goto, CallsLeft
    <3>4. QED BY <3>1, <3>2, <3>3
  <2>2. ASSUME NEW d \in Devices, KernelsEnd(d) PROVE UNCHANGED <<pc, left>>
    BY <2>2 DEF KernelsEnd
  <2>3. QED BY <2>1, <2>2 DEF CacheNext, Idle, cacheVars, CallsLeft
<1>13. QED
  BY <1>1, <1>3, <1>4, <1>5, <1>6, <1>7, <1>8, <1>9, <1>10, <1>11, <1>12 DEF CacheNext,
      ComputeSlab, Idle

-----------------------------------------------------------------------------
(* The small-prime cache: what a step changes *)

\* What a step does to the blocks: it allocates an unused one and caches it, or
\* changes the state of the one its unit has cached.
LEMMA BlockStep ==
  ASSUME CacheTypeOK, NEW d \in Devices, ComputeSlab(d)
  PROVE  /\ \A u \in Units \ {unitOf[d]} : /\ ptr'[u] = ptr[u]
                                          /\ counted'[u] = counted[u]
                                          /\ vendor'[u] = vendor[u]
         /\ \A e \in Devices \ {d} : pc'[e] = pc[e] /\ reading'[e] = reading[e]
         /\ UNCHANGED unitOf
         /\ \/ /\ UNCHANGED block
               /\ ptr'[unitOf[d]] \in {ptr[unitOf[d]], Null}
            \/ \E b \in Blocks : /\ block[b].is = "unused"
                                 /\ block' = [block EXCEPT ![b] = [on |-> d, is |-> "garbage"]]
                                 /\ ptr'[unitOf[d]] = b
            \/ /\ Cached(d) # Null /\ UNCHANGED ptr
               /\ \E x \in {"freed", "freedTwice", "primes"} :
                    block' = [block EXCEPT ![Cached(d)].is = x]
<1> USE DEF CacheTypeOK
<1>1. /\ \A e \in Devices \ {d} : pc'[e] = pc[e] /\ reading'[e] = reading[e]
      /\ UNCHANGED unitOf
  BY DEF ComputeSlab, Check, FreeStale, Clear, Malloc, Copy,
      SetCount, SetVendor, Launch, Goto
<1>2. \A u \in Units \ {unitOf[d]} : /\ ptr'[u] = ptr[u]
                                     /\ counted'[u] = counted[u]
                                     /\ vendor'[u] = vendor[u]
  <2>1. CASE Check(d) \/ FreeStale(d) \/ Copy(d) \/ Launch(d)
    BY <2>1 DEF Check, FreeStale, Copy, Launch, cache
  <2>2. CASE Clear(d) \/ Malloc(d) \/ SetCount(d) \/ SetVendor(d)
    BY <2>2 DEF Clear, Malloc, SetCount, SetVendor
  <2>3. QED BY <2>1, <2>2 DEF ComputeSlab
<1>3. CASE Check(d) \/ Launch(d) \/ SetCount(d) \/ SetVendor(d)
  BY <1>1, <1>2, <1>3 DEF Check, Launch, SetCount, SetVendor,
      cache
<1>4. CASE FreeStale(d)
  BY <1>1, <1>2, <1>4 DEF FreeStale, cache
<1>5. CASE Clear(d)
  BY <1>1, <1>2, <1>5 DEF Clear
<1>6. CASE Malloc(d)
  BY <1>1, <1>2, <1>6 DEF Malloc
<1>7. CASE Copy(d)
  BY <1>1, <1>2, <1>7 DEF Copy, cache
<1>8. QED BY <1>3, <1>4, <1>5, <1>6, <1>7 DEF ComputeSlab

\* CachedByOwner is kept by every step.
LEMMA OwnerStep ==
  ASSUME CacheTypeOK, CachedByOwner, [CacheNext]_cacheVars
  PROVE  CachedByOwner'
<1> USE DEF CacheTypeOK
<1>1. ASSUME NEW d \in Devices, ComputeSlab(d) PROVE CachedByOwner'
  <2>1. SUFFICES ASSUME NEW u \in Units, ptr'[u] # Null
                 PROVE  /\ block'[ptr'[u]].is # "unused"
                        /\ block'[ptr'[u]].on \in Devices
                        /\ unitOf[block'[ptr'[u]].on] = u
    BY <1>1, BlockStep DEF CachedByOwner
  <2>2. u # unitOf[d] => ptr'[u] = ptr[u]
    BY <1>1, BlockStep
  <2>3. CASE UNCHANGED block /\ ptr'[unitOf[d]] \in {ptr[unitOf[d]], Null}
    BY <2>1, <2>2, <2>3 DEF CachedByOwner
  <2>4. ASSUME NEW b \in Blocks, block[b].is = "unused",
               block' = [block EXCEPT ![b] = [on |-> d, is |-> "garbage"]],
               ptr'[unitOf[d]] = b
        PROVE  /\ block'[ptr'[u]].is # "unused"
               /\ block'[ptr'[u]].on \in Devices
               /\ unitOf[block'[ptr'[u]].on] = u
    <3>1. CASE u = unitOf[d]
      BY <2>4, <3>1
    <3>2. CASE u # unitOf[d]
      <4>1. /\ ptr'[u] \in Blocks /\ ptr'[u] # b
            /\ block[ptr[u]].is # "unused" /\ block[ptr[u]].on \in Devices
            /\ unitOf[block[ptr[u]].on] = u
        BY <2>1, <2>2, <2>4, <3>2 DEF CachedByOwner
      <4>2. QED BY <2>2, <2>4, <3>2, <4>1
    <3>3. QED BY <3>1, <3>2
  <2>5. ASSUME Cached(d) # Null, UNCHANGED ptr,
               NEW x \in {"freed", "freedTwice", "primes"},
               block' = [block EXCEPT ![Cached(d)].is = x]
        PROVE  /\ block'[ptr'[u]].is # "unused"
               /\ block'[ptr'[u]].on \in Devices
               /\ unitOf[block'[ptr'[u]].on] = u
    <3>1. /\ ptr[u] \in Blocks /\ block[ptr[u]].is # "unused"
          /\ block[ptr[u]].on \in Devices /\ unitOf[block[ptr[u]].on] = u
      BY <2>1, <2>5 DEF CachedByOwner
    <3>2. block'[ptr[u]].on = block[ptr[u]].on
      BY <2>5, <3>1
    <3>3. block'[ptr[u]].is # "unused"
      BY <2>5, <3>1
    <3>4. QED BY <2>5, <3>1, <3>2, <3>3
  <2>6. QED
    BY <1>1, <2>3, <2>4, <2>5, BlockStep
<1>2. ASSUME NEW d \in Devices, KernelsEnd(d) PROVE CachedByOwner'
  BY <1>2 DEF KernelsEnd, cache, CachedByOwner
<1>3. CASE UNCHANGED cacheVars \/ Idle
  BY <1>3 DEF Idle, cacheVars, CachedByOwner
<1>4. QED BY <1>1, <1>2, <1>3 DEF CacheNext

\* A step of a thread of another unit leaves a lone device's cache and blocks alone.
LEMMA OthersLeaveAlone ==
  ASSUME CacheTypeOK, CachedByOwner,
         NEW d \in Devices, Alone(d), KeepsBlock(d), KeepsUpload(d),
         NEW e \in Devices \ {d}, ComputeSlab(e)
  PROVE  KeepsBlock(d)' /\ KeepsUpload(d)'
<1> USE DEF CacheTypeOK
<1> DEFINE u == unitOf[d]
           p == ptr[u]
<1>1. u \in Units /\ unitOf[e] # u /\ p \in Blocks \union {Null}
  BY DEF Alone
<1>2. /\ ptr'[u] = p /\ counted'[u] = counted[u] /\ vendor'[u] = vendor[u]
      /\ pc'[d] = pc[d] /\ reading'[d] = reading[d] /\ UNCHANGED unitOf
  BY <1>1, BlockStep
<1>3. Cached(d) = p /\ Cached(d)' = p
  BY <1>2 DEF Cached
<1>4. /\ p # Null => block'[p] = block[p]
      /\ \A b \in Blocks : block'[b].on = d => block[b].on = d
  <2>1. CASE UNCHANGED block
    BY <2>1
  <2>2. ASSUME NEW b \in Blocks, block[b].is = "unused",
               block' = [block EXCEPT ![b] = [on |-> e, is |-> "garbage"]]
        PROVE  /\ p # Null => block'[p] = block[p]
               /\ \A c \in Blocks : block'[c].on = d => block[c].on = d
    <3>1. p # Null => p \in Blocks /\ p # b
      BY <1>1, <2>2 DEF CachedByOwner
    <3>2. \A c \in Blocks : c # b => block'[c] = block[c]
      BY <2>2
    <3>3. block'[b].on = e
      BY <2>2
    <3>4. QED BY <3>1, <3>2, <3>3
  <2>3. ASSUME Cached(e) # Null, NEW x \in {"freed", "freedTwice", "primes"},
               block' = [block EXCEPT ![Cached(e)].is = x]
        PROVE  /\ p # Null => block'[p] = block[p]
               /\ \A c \in Blocks : block'[c].on = d => block[c].on = d
    <3>1. Cached(e) \in Blocks /\ unitOf[block[Cached(e)].on] = unitOf[e]
      BY <2>3 DEF Cached, CachedByOwner
    <3>2. p # Null => p \in Blocks /\ p # Cached(e)
      BY <1>1, <1>3, <3>1 DEF KeepsBlock
    <3>3. \A c \in Blocks : c # Cached(e) => block'[c] = block[c]
      BY <2>3
    <3>4. block'[Cached(e)].on = block[Cached(e)].on
      BY <2>3, <3>1
    <3>5. QED BY <3>2, <3>3, <3>4
  <2>4. QED BY <2>1, <2>2, <2>3, BlockStep
<1>5. KeepsBlock(d)'
  BY <1>1, <1>2, <1>3, <1>4 DEF KeepsBlock
<1>6. KeepsUpload(d)'
  BY <1>1, <1>2, <1>3, <1>4 DEF KeepsUpload, KeepsBlock, Hit
<1>7. QED BY <1>5, <1>6

\* A lone device allocates once, uploads what it allocated and never frees it.
LEMMA LoneCall ==
  ASSUME CacheTypeOK, CachedByOwner,
         NEW d \in Devices, Alone(d), KeepsBlock(d), KeepsUpload(d),
         ComputeSlab(d)
  PROVE  KeepsBlock(d)' /\ KeepsUpload(d)'
<1> USE DEF CacheTypeOK
<1> DEFINE u == unitOf[d]
           p == ptr[u]
<1>1. u \in Units /\ p \in Blocks \union {Null} /\ UNCHANGED unitOf
  BY BlockStep
<1>2. Cached(d) = p /\ Cached(d)' = ptr'[u]
  BY <1>1 DEF Cached
<1>3. Null \notin Blocks
  BY BlocksAreNumbers
<1>4. CASE Check(d)
  BY <1>1, <1>2, <1>4 DEF Check, Goto, Hit, KeepsBlock, KeepsUpload,
      cache
<1>5. CASE Malloc(d)
  <2>1. p = Null /\ reading[d] = {} /\ \A b \in Blocks : block[b].on # d
    BY <1>2, <1>3, <1>5 DEF Malloc, KeepsBlock, KeepsUpload
  <2>2. CASE Goto(d, "stopped") /\ UNCHANGED <<unitOf, ptr, block>>
    BY <1>1, <1>2, <1>5, <2>1, <2>2 DEF Malloc, Goto, KeepsBlock,
        KeepsUpload
  <2>3. ASSUME NEW b \in Blocks,
               block' = [block EXCEPT ![b] = [on |-> d, is |-> "garbage"]],
               ptr' = [ptr EXCEPT ![unitOf[d]] = b],
               Goto(d, "copy")
        PROVE  KeepsBlock(d)' /\ KeepsUpload(d)'
    <3>1. ptr'[u] = b /\ b # Null /\ pc'[d] = "copy" /\ reading'[d] = {}
      BY <1>1, <1>3, <1>5, <2>1, <2>3 DEF Malloc, Goto
    <3>2. block'[b].on = d /\ block'[b].is = "garbage"
      BY <2>3
    <3>3. \A c \in Blocks : block'[c].on = d => c = b
      BY <2>1, <2>3
    <3>4. QED BY <1>2, <3>1, <3>2, <3>3 DEF KeepsBlock, KeepsUpload
  <2>4. QED BY <1>5, <2>2, <2>3 DEF Malloc
<1>6. CASE Copy(d)
  <2>1. /\ p \in Blocks /\ block[p].on = d /\ pc[d] = "copy"
        /\ \A b \in Blocks : block[b].on = d => b = p
        /\ reading[d] \subseteq {p}
    BY <1>1, <1>2, <1>6 DEF Copy, KeepsBlock
  <2>2. UNCHANGED <<ptr, counted, vendor, reading>>
    BY <1>6 DEF Copy, cache
  <2>3. CASE Goto(d, "uploadFailed") /\ UNCHANGED block
    BY <1>1, <1>2, <2>1, <2>2, <2>3 DEF Goto, KeepsBlock, KeepsUpload
  <2>4. CASE block' = [block EXCEPT ![Cached(d)].is = "primes"] /\ Goto(d, "count")
    <3>1. block'[p].is = "primes" /\ block'[p].on = d
      BY <1>2, <2>1, <2>4
    <3>2. \A b \in Blocks : block'[b].on = d => b = p
      BY <1>2, <2>1, <2>4
    <3>3. pc'[d] = "count" /\ p # Null
      BY <1>3, <2>1, <2>4 DEF Goto
    <3>4. QED BY <1>1, <1>2, <2>1, <2>2, <3>1, <3>2, <3>3 DEF KeepsBlock, KeepsUpload
  <2>5. QED BY <1>6, <2>3, <2>4 DEF Copy
<1>7. CASE SetCount(d)
  BY <1>1, <1>2, <1>7 DEF SetCount, Goto, KeepsBlock, KeepsUpload
<1>8. CASE SetVendor(d)
  BY <1>1, <1>2, <1>8 DEF SetVendor, Goto, KeepsBlock, KeepsUpload
<1>9. CASE Launch(d)
  BY <1>1, <1>2, <1>9 DEF Launch, Goto, Hit, KeepsBlock, KeepsUpload,
      cache
<1>10. CASE FreeStale(d) \/ Clear(d)
  BY <1>10 DEF FreeStale, Clear, KeepsBlock
<1>11. QED
  BY <1>4, <1>5, <1>6, <1>7, <1>8, <1>9, <1>10 DEF ComputeSlab

\* LoneInv is kept by every step.
LEMMA LoneStep ==
  ASSUME CacheTypeOK, CachedByOwner, LoneInv, [CacheNext]_cacheVars
  PROVE  LoneInv'
<1> SUFFICES ASSUME NEW d \in Devices, Alone(d)'
             PROVE  KeepsBlock(d)' /\ KeepsUpload(d)'
  BY DEF LoneInv
<1>1. ASSUME NEW e \in Devices, ComputeSlab(e)
      PROVE  KeepsBlock(d)' /\ KeepsUpload(d)'
  <2>1. Alone(d)
    BY <1>1, BlockStep DEF Alone
  <2>2. KeepsBlock(d) /\ KeepsUpload(d)
    BY <2>1 DEF LoneInv
  <2>3. CASE e = d
    BY <1>1, <2>1, <2>2, <2>3, LoneCall
  <2>4. CASE e # d
    BY <1>1, <2>1, <2>2, <2>4, OthersLeaveAlone
  <2>5. QED BY <2>3, <2>4
<1>2. ASSUME NEW e \in Devices, KernelsEnd(e)
      PROVE  KeepsBlock(d)' /\ KeepsUpload(d)'
  <2>1. Alone(d) /\ KeepsBlock(d) /\ KeepsUpload(d)
    BY <1>2 DEF KernelsEnd, Alone, LoneInv
  <2>2. /\ UNCHANGED <<unitOf, ptr, counted, vendor, block, pc>>
        /\ reading'[d] = reading[d] \/ reading'[d] = {}
    BY <1>2 DEF KernelsEnd, cache, CacheTypeOK
  <2>3. QED BY <2>1, <2>2 DEF KeepsBlock, KeepsUpload, Cached, Hit
<1>3. CASE UNCHANGED cacheVars
  BY <1>3 DEF cacheVars, Alone, LoneInv, KeepsBlock, KeepsUpload, Cached, Hit
<1>4. QED BY <1>1, <1>2, <1>3 DEF CacheNext, Idle

-----------------------------------------------------------------------------
(* The small-prime cache: the theorems *)

LEMMA InitCacheInv ==
  ASSUME CacheInit
  PROVE  CacheInv
<1>1. CacheTypeOK
  BY CallsAssumption DEF CacheInit, CacheTypeOK, BlockStates
<1>2. CallsLeft /\ CachedByOwner
  BY DEF CacheInit, CallsLeft, CachedByOwner
<1>3. ASSUME NEW d \in Devices PROVE KeepsBlock(d) /\ KeepsUpload(d)
  <2>1. Cached(d) = Null /\ pc[d] = "check" /\ reading[d] = {}
    BY DEF CacheInit, Cached
  <2>2. \A b \in Blocks : block[b].on = NoDevice
    BY DEF CacheInit
  <2>3. QED BY <2>1, <2>2, SentinelAssumption DEF KeepsBlock, KeepsUpload
<1>4. QED BY <1>1, <1>2, <1>3 DEF CacheInv, LoneInv

\* The inductive invariant holds whatever the devices share.
THEOREM CacheInvariance == CacheSpec => []CacheInv
<1>1. CacheInv /\ [CacheNext]_cacheVars => CacheInv'
  BY TypeStep, OwnerStep, LoneStep DEF CacheInv
<1>2. QED BY InitCacheInv, <1>1, PTL DEF CacheSpec

\* The variables stay typed.
THEOREM CacheTyped == CacheSpec => []CacheTypeOK
<1>1. CacheInv => CacheTypeOK
  BY DEF CacheInv
<1>2. QED BY CacheInvariance, <1>1, PTL

\* A device with a translation unit to itself reads uploaded primes of its own,
\* never freed, and is given at most one block however many slabs it sieves
\* (sieve_slab_engine.cpp:434-473), whatever the devices of other units do.
THEOREM LoneDeviceIsSafe == CacheSpec => []LoneDeviceKeepsItsPrimes
<1>1. ASSUME CacheInv PROVE LoneDeviceKeepsItsPrimes
  <2> SUFFICES ASSUME NEW d \in Devices, Alone(d)
               PROVE  /\ ReadsItsPrimes(d)
                      /\ \A b, c \in Blocks : block[b].on = d /\ block[c].on = d => b = c
    BY DEF LoneDeviceKeepsItsPrimes
  <2>1. KeepsBlock(d) /\ CacheTypeOK
    BY <1>1 DEF CacheInv, LoneInv
  <2>2. ReadsItsPrimes(d)
    <3> SUFFICES ASSUME NEW b \in reading[d]
                 PROVE  b # Null /\ block[b] = [on |-> d, is |-> "primes"]
      BY DEF ReadsItsPrimes
    <3>1. b = Cached(d) /\ b # Null
      BY <2>1 DEF KeepsBlock
    <3>2. b \in Blocks
      BY <2>1, <3>1 DEF CacheTypeOK
    <3>3. block[b] \in [on : Devices \union {NoDevice}, is : BlockStates]
      BY <2>1, <3>2 DEF CacheTypeOK
    <3>4. block[b].on = d /\ block[b].is = "primes"
      BY <2>1, <3>1 DEF KeepsBlock
    <3>5. QED BY <3>1, <3>3, <3>4
  <2>3. \A b, c \in Blocks : block[b].on = d /\ block[c].on = d => b = c
    BY <2>1 DEF KeepsBlock
  <2>4. QED BY <2>2, <2>3
<1>2. QED BY CacheInvariance, <1>1, PTL

-----------------------------------------------------------------------------
(* The small-prime cache, its calls made in turn: the inductive invariant.   *)

\* What a unit has cached is allocated, but between the two statements that
\* free it and forget it; and it is all the unit has allocated.
TurnOK(d) ==
  /\ pc[d] = "free" => Cached(d) # Null
  /\ pc[d] = "clear" => Cached(d) # Null /\ block[Cached(d)].is = "freed"
  /\ pc[d] = "malloc" => Cached(d) = Null

Forgetting(u) == \E d \in Devices : unitOf[d] = u /\ pc[d] = "clear"

HeldInv ==
  /\ \A d \in Devices : TurnOK(d)
  /\ \A u \in Units : ptr[u] # Null /\ ~Forgetting(u) => ptr[u] \in Held(u)
  /\ \A u \in Units : \A b \in Held(u) : b = ptr[u]
  /\ \A b \in Blocks : block[b].is # "freedTwice"

\* The primes of device e are in block b.
PrimesOf(e, b) == b # Null /\ block[b] = [on |-> e, is |-> "primes"]

\* The place in a call says what is in the block that it replaces; outside the
\* replacement the identity that is cached is that of the block.
FillOK(d) ==
  /\ pc[d] = "copy" => Cached(d) # Null /\ block[Cached(d)] = [on |-> d, is |-> "garbage"]
  /\ pc[d] \in {"count", "vendor"} => PrimesOf(d, Cached(d))
  /\ pc[d] = "launch" => Cached(d) # Null /\ vendor[unitOf[d]] = d

Replacing(u) ==
  \E d \in Devices : unitOf[d] = u /\ pc[d] \in {"clear", "copy", "count", "vendor"}

ReadInv ==
  /\ \A d \in Devices : FillOK(d)
  /\ \A u \in Units : ptr[u] # Null /\ ~Replacing(u) => PrimesOf(vendor[u], ptr[u])
  /\ \A d \in Devices : \A b \in reading[d] : b = Cached(d) /\ PrimesOf(d, b)

-----------------------------------------------------------------------------
(* The small-prime cache, its calls made in turn: the steps                  *)

\* While a device is in a call the others of its unit are not.
LEMMA OthersWait ==
  ASSUME CacheTypeOK, OneAtATime, OneAtATime', NEW d \in Devices, ComputeSlab(d),
         NEW e \in Devices \ {d}, unitOf[e] = unitOf[d]
  PROVE  pc[e] \in {"check", "stopped", "uploadFailed"} /\ pc'[e] = pc[e]
<1>1. pc'[e] = pc[e] /\ unitOf' = unitOf
  BY BlockStep
<1>2. CASE Check(d)
  <2>1. pc'[d] \in {"launch", "free", "malloc"}
    BY <1>2 DEF Check, Goto, CacheTypeOK
  <2>2. QED BY <1>1, <2>1 DEF OneAtATime, InCall
<1>3. CASE ~Check(d)
  <2>1. InCall(d)
    BY <1>3 DEF ComputeSlab, FreeStale, Clear, Malloc, Copy, SetCount, SetVendor, Launch, InCall
  <2>2. QED BY <1>1, <2>1 DEF OneAtATime, InCall
<1>4. QED BY <1>2, <1>3

\* A call leaves the blocks and the cache of other units alone.
LEMMA OtherUnits ==
  ASSUME CacheTypeOK, CachedByOwner, NEW d \in Devices, ComputeSlab(d),
         NEW u \in Units \ {unitOf[d]}
  PROVE  /\ ptr'[u] = ptr[u] /\ vendor'[u] = vendor[u]
         /\ ptr[u] # Null => block'[ptr[u]] = block[ptr[u]]
         /\ Held(u)' = Held(u)
         /\ Forgetting(u)' = Forgetting(u) /\ Replacing(u)' = Replacing(u)
<1> USE DEF CacheTypeOK
<1>1. /\ ptr'[u] = ptr[u] /\ vendor'[u] = vendor[u] /\ UNCHANGED unitOf
      /\ \A e \in Devices \ {d} : pc'[e] = pc[e]
  BY BlockStep
<1>2. Forgetting(u)' = Forgetting(u) /\ Replacing(u)' = Replacing(u)
  BY <1>1 DEF Forgetting, Replacing
<1>3. /\ ptr[u] # Null => block'[ptr[u]] = block[ptr[u]]
      /\ Held(u)' = Held(u)
  <2>1. CASE UNCHANGED block
    BY <1>1, <2>1 DEF Held
  <2>2. ASSUME NEW b \in Blocks, block[b].is = "unused",
               block' = [block EXCEPT ![b] = [on |-> d, is |-> "garbage"]]
        PROVE  /\ ptr[u] # Null => block'[ptr[u]] = block[ptr[u]]
               /\ Held(u)' = Held(u)
    <3>1. block'[b].on = d /\ \A c \in Blocks \ {b} : block'[c] = block[c]
      BY <2>2
    <3>2. ptr[u] # Null => ptr[u] \in Blocks \ {b}
      BY <2>2 DEF CachedByOwner
    <3>3. b \notin Held(u) /\ b \notin Held(u)'
      BY <1>1, <2>2, <3>1 DEF Held
    <3>4. \A c \in Blocks : c \in Held(u)' <=> c \in Held(u)
      BY <1>1, <3>1, <3>3 DEF Held
    <3>5. Held(u)' = Held(u)
      BY <3>4 DEF Held
    <3>6. QED BY <3>1, <3>2, <3>5
  <2>3. ASSUME Cached(d) # Null, NEW x \in {"freed", "freedTwice", "primes"},
               block' = [block EXCEPT ![Cached(d)].is = x]
        PROVE  /\ ptr[u] # Null => block'[ptr[u]] = block[ptr[u]]
               /\ Held(u)' = Held(u)
    <3> DEFINE b == Cached(d)
    <3>1. b \in Blocks /\ unitOf[block[b].on] = unitOf[d]
      BY <2>3 DEF Cached, CachedByOwner
    <3>2. block'[b].on = block[b].on /\ \A c \in Blocks \ {b} : block'[c] = block[c]
      BY <2>3, <3>1
    <3>3. ptr[u] # Null => ptr[u] \in Blocks \ {b}
      BY <3>1 DEF CachedByOwner
    <3>4. b \notin Held(u) /\ b \notin Held(u)'
      BY <1>1, <3>1, <3>2 DEF Held
    <3>5. \A c \in Blocks : c \in Held(u)' <=> c \in Held(u)
      BY <1>1, <3>2, <3>4 DEF Held
    <3>6. Held(u)' = Held(u)
      BY <3>5 DEF Held
    <3>7. QED BY <3>2, <3>3, <3>6
  <2>4. QED BY <2>1, <2>2, <2>3, BlockStep
<1>4. QED BY <1>1, <1>2, <1>3

\* What a device outside a call has of both invariants does not depend on a step.
LEMMA NotInCall ==
  ASSUME NEW d \in Devices, pc[d] \in {"check", "stopped", "uploadFailed"}
  PROVE  TurnOK(d) /\ FillOK(d)
BY DEF TurnOK, FillOK

\* Each step of a call keeps what the unit has allocated to one cached block.
LEMMA HeldCall ==
  ASSUME CacheTypeOK, NEW d \in Devices, TurnOK(d), ComputeSlab(d),
         NEW u \in Units, u = unitOf[d],
         pc[d] # "clear" /\ ptr[u] # Null => ptr[u] \in Held(u),
         \A b \in Held(u) : b = ptr[u],
         \A b \in Blocks : block[b].is # "freedTwice"
  PROVE  /\ TurnOK(d)'
         /\ pc'[d] # "clear" /\ ptr'[u] # Null => ptr'[u] \in Held(u)'
         /\ \A b \in Held(u)' : b = ptr'[u]
         /\ \A b \in Blocks : block'[b].is # "freedTwice"
<1> USE DEF CacheTypeOK
<1> DEFINE p == ptr[u]
           Goal == /\ TurnOK(d)'
                   /\ pc'[d] # "clear" /\ ptr'[u] # Null => ptr'[u] \in Held(u)'
                   /\ \A b \in Held(u)' : b = ptr'[u]
                   /\ \A b \in Blocks : block'[b].is # "freedTwice"
<1>1. /\ p \in Blocks \union {Null} /\ unitOf' = unitOf
      /\ Cached(d) = p /\ Cached(d)' = ptr'[u] /\ Null \notin Blocks
  BY BlockStep, BlocksAreNumbers DEF Cached
<1>2. CASE UNCHANGED <<ptr, block>> /\ pc[d] # "clear" /\ TurnOK(d)'
  <2>1. Held(u)' = Held(u)
    BY <1>1, <1>2 DEF Held
  <2>2. QED BY <1>2, <2>1
<1>3. CASE Check(d)
  <2>1. TurnOK(d)'
    BY <1>1, <1>3 DEF Check, Goto, TurnOK, cache, Hit
  <2>2. QED BY <1>2, <1>3, <2>1 DEF Check, cache
<1>4. CASE SetCount(d) \/ SetVendor(d) \/ Launch(d)
  <2>1. TurnOK(d)' /\ UNCHANGED <<ptr, block>> /\ pc[d] # "clear"
    BY <1>1, <1>4 DEF SetCount, SetVendor, Launch, Goto, TurnOK, cache
  <2>2. QED BY <1>2, <2>1
<1>5. CASE FreeStale(d)
  <2>1. /\ pc[d] = "free" /\ p # Null /\ p \in Blocks /\ p \in Held(u)
        /\ block[p].is \in {"garbage", "primes"}
    BY <1>1, <1>5 DEF FreeStale, TurnOK, Held
  <2>2. /\ block' = [block EXCEPT ![p].is = "freed"]
        /\ UNCHANGED ptr /\ pc'[d] = "clear"
    <3>1. block' = [block EXCEPT ![p].is =
                      IF @ \in {"freed", "freedTwice"} THEN "freedTwice" ELSE "freed"]
      BY <1>1, <1>5, <2>1 DEF FreeStale
    <3>2. block[p].is \notin {"freed", "freedTwice"}
      BY <2>1
    <3>3. QED BY <1>5, <3>1, <3>2 DEF FreeStale, Goto, cache
  <2>3. /\ block'[p].is = "freed"
        /\ \A b \in Blocks \ {p} : block'[b] = block[b]
    BY <2>1, <2>2
  <2>4. Held(u)' = {}
    BY <1>1, <2>3 DEF Held
  <2>5. QED BY <1>1, <2>1, <2>2, <2>3, <2>4 DEF TurnOK
<1>6. CASE Clear(d)
  <2>1. pc[d] = "clear" /\ p # Null /\ block[p].is = "freed"
    BY <1>1, <1>6 DEF Clear, TurnOK
  <2>2. Held(u) = {}
    BY <2>1 DEF Held
  <2>3. ptr'[u] = Null /\ UNCHANGED block /\ pc'[d] = "malloc"
    BY <1>1, <1>6 DEF Clear, Goto
  <2>4. Held(u)' = {}
    BY <1>1, <2>2, <2>3 DEF Held
  <2>5. QED BY <1>1, <2>3, <2>4 DEF TurnOK
<1>7. CASE Malloc(d)
  <2>1. p = Null /\ Held(u) = {}
    <3>1. p = Null
      BY <1>1, <1>7 DEF Malloc, TurnOK
    <3>2. Held(u) \subseteq Blocks
      BY DEF Held
    <3>3. QED BY <1>1, <3>1, <3>2
  <2>2. CASE Goto(d, "stopped") /\ UNCHANGED <<unitOf, ptr, block>>
    <3>1. TurnOK(d)' /\ pc[d] # "clear"
      BY <1>7, <2>2 DEF Malloc, Goto, TurnOK
    <3>2. QED BY <1>2, <2>2, <3>1
  <2>3. ASSUME NEW b \in Blocks, block[b].is = "unused",
               block' = [block EXCEPT ![b] = [on |-> d, is |-> "garbage"]],
               ptr' = [ptr EXCEPT ![unitOf[d]] = b], Goto(d, "copy")
        PROVE  Goal
    <3>1. /\ block'[b] = [on |-> d, is |-> "garbage"]
          /\ \A c \in Blocks \ {b} : block'[c] = block[c]
          /\ ptr'[u] = b /\ pc'[d] = "copy"
      BY <1>1, <2>3 DEF Goto
    <3>2. Held(u)' = {b}
      BY <1>1, <2>1, <3>1 DEF Held
    <3>3. \A c \in Blocks : block'[c].is # "freedTwice"
      BY <3>1
    <3>4. TurnOK(d)'
      BY <3>1 DEF TurnOK
    <3>5. QED BY <3>1, <3>2, <3>3, <3>4
  <2>4. QED BY <1>7, <2>2, <2>3 DEF Malloc
<1>8. CASE Copy(d)
  <2>1. pc[d] = "copy" /\ UNCHANGED ptr
    BY <1>8 DEF Copy, cache
  <2>2. CASE UNCHANGED block /\ Goto(d, "uploadFailed")
    <3>1. TurnOK(d)'
      BY <1>8, <2>2 DEF Copy, Goto, TurnOK
    <3>2. QED BY <1>2, <2>1, <2>2, <3>1
  <2>3. CASE /\ p # Null /\ block[p].is \in {"garbage", "primes"}
             /\ block' = [block EXCEPT ![p].is = "primes"] /\ Goto(d, "count")
    <3>1. /\ block'[p].is = "primes" /\ block'[p].on = block[p].on
          /\ \A c \in Blocks \ {p} : block'[c] = block[c]
          /\ p \in Blocks /\ pc'[d] = "count"
      BY <1>1, <2>3 DEF Goto
    <3>2. Held(u)' = Held(u)
      BY <1>1, <2>3, <3>1 DEF Held
    <3>3. \A c \in Blocks : block'[c].is # "freedTwice"
      BY <3>1
    <3>4. TurnOK(d)'
      BY <3>1 DEF TurnOK
    <3>5. QED BY <2>1, <3>2, <3>3, <3>4
  <2>4. QED BY <1>1, <1>8, <2>2, <2>3 DEF Copy
<1>9. QED
  BY <1>3, <1>4, <1>5, <1>6, <1>7, <1>8 DEF ComputeSlab

\* HeldInv is kept by every step of a call.
LEMMA HeldStep ==
  ASSUME CacheTypeOK, CachedByOwner, OneAtATime, OneAtATime', HeldInv,
         NEW d \in Devices, ComputeSlab(d)
  PROVE  HeldInv'
<1> USE DEF CacheTypeOK
<1> PICK u \in Units : u = unitOf[d]
  OBVIOUS
<1>1. unitOf' = unitOf
  BY BlockStep
<1>2. \A e \in Devices \ {d} : pc'[e] = pc[e]
  BY BlockStep
<1>3. pc[d] # "clear" /\ ptr[u] # Null => ptr[u] \in Held(u)
  <2> SUFFICES ASSUME pc[d] # "clear", ptr[u] # Null PROVE ~Forgetting(u)
    BY <1>1 DEF HeldInv
  <2>1. \A e \in Devices \ {d} : unitOf[e] = u => pc[e] \in {"check", "stopped", "uploadFailed"}
    BY OthersWait
  <2>2. QED BY <2>1 DEF Forgetting
<1>4. /\ TurnOK(d)'
      /\ pc'[d] # "clear" /\ ptr'[u] # Null => ptr'[u] \in Held(u)'
      /\ \A b \in Held(u)' : b = ptr'[u]
      /\ \A b \in Blocks : block'[b].is # "freedTwice"
  BY <1>1, <1>3, HeldCall DEF HeldInv
<1>5. ASSUME NEW e \in Devices \ {d} PROVE TurnOK(e)'
  <2>1. CASE unitOf[e] = u
    <3>1. pc'[e] \in {"check", "stopped", "uploadFailed"}
      BY <2>1, OthersWait
    <3>2. QED BY <3>1 DEF TurnOK
  <2>2. CASE unitOf[e] # u
    <3> DEFINE v == unitOf[e]
    <3>1. v \in Units \ {unitOf[d]}
      BY <2>2
    <3>2. /\ ptr'[v] = ptr[v]
          /\ ptr[v] # Null => block'[ptr[v]] = block[ptr[v]]
      BY <3>1, OtherUnits
    <3>3. Cached(e) = ptr[v] /\ Cached(e)' = ptr[v] /\ pc'[e] = pc[e]
      BY <1>1, <1>2, <3>2 DEF Cached
    <3>4. TurnOK(e)
      BY DEF HeldInv
    <3>5. QED BY <3>2, <3>3, <3>4 DEF TurnOK
  <2>3. QED BY <2>1, <2>2
<1>6. \A v \in Units : ptr'[v] # Null /\ ~Forgetting(v)' => ptr'[v] \in Held(v)'
  <2> SUFFICES ASSUME NEW v \in Units, ptr'[v] # Null, ~Forgetting(v)'
               PROVE  ptr'[v] \in Held(v)'
    OBVIOUS
  <2>1. CASE v = u
    <3>1. pc'[d] # "clear"
      BY <1>1, <2>1 DEF Forgetting
    <3>2. QED BY <1>4, <2>1, <3>1
  <2>2. CASE v # u
    <3>1. /\ ptr'[v] = ptr[v] /\ Held(v)' = Held(v)
          /\ Forgetting(v)' = Forgetting(v)
      BY <2>2, OtherUnits
    <3>2. QED BY <3>1 DEF HeldInv
  <2>3. QED BY <2>1, <2>2
<1>7. \A v \in Units : \A b \in Held(v)' : b = ptr'[v]
  <2> SUFFICES ASSUME NEW v \in Units, NEW b \in Held(v)' PROVE b = ptr'[v]
    OBVIOUS
  <2>1. CASE v = u
    BY <1>4, <2>1
  <2>2. CASE v # u
    <3>1. /\ ptr'[v] = ptr[v] /\ Held(v)' = Held(v)
      BY <2>2, OtherUnits
    <3>2. QED BY <3>1 DEF HeldInv
  <2>3. QED BY <2>1, <2>2
<1>8. QED
  BY <1>4, <1>5, <1>6, <1>7 DEF HeldInv

\* What the record says, part by part.
LEMMA PrimesAreOn ==
  ASSUME NEW e, NEW b, PrimesOf(e, b)
  PROVE  b # Null /\ block[b].on = e /\ block[b].is = "primes"
BY DEF PrimesOf

\* Each step of a call that no upload fails in keeps the primes of the device
\* whose identity is cached under the identity, and under the kernels.
LEMMA ReadCall ==
  ASSUME CacheTypeOK, NEW d \in Devices, pc'[d] # "uploadFailed",
         TurnOK(d), FillOK(d), ComputeSlab(d),
         NEW u \in Units, u = unitOf[d],
         /\ pc[d] \notin {"clear", "copy", "count", "vendor"} /\ ptr[u] # Null
         => PrimesOf(vendor[u], ptr[u]),
         \A e \in Devices : unitOf[e] = u =>
           \A b \in reading[e] : b = ptr[u] /\ PrimesOf(e, b)
  PROVE  /\ FillOK(d)'
         /\ (/\ pc'[d] \notin {"clear", "copy", "count", "vendor"} /\ ptr'[u] # Null
             => PrimesOf(vendor[u], ptr[u])')
         /\ \A e \in Devices : unitOf[e] = u =>
              \A b \in reading'[e] : b = ptr'[u] /\ PrimesOf(e, b)'
<1> USE DEF CacheTypeOK
<1> DEFINE p == ptr[u]
           Filling == {"clear", "copy", "count", "vendor"}
           Goal == /\ FillOK(d)'
                   /\ (/\ pc'[d] \notin Filling /\ ptr'[u] # Null
                       => PrimesOf(vendor[u], ptr[u])')
                   /\ \A e \in Devices : unitOf[e] = u =>
                        \A b \in reading'[e] : b = ptr'[u] /\ PrimesOf(e, b)'
<1>1. /\ p \in Blocks \union {Null} /\ unitOf' = unitOf
      /\ Cached(d) = p /\ Cached(d)' = ptr'[u] /\ Null \notin Blocks
      /\ \A e \in Devices \ {d} : reading'[e] = reading[e]
  BY BlockStep, BlocksAreNumbers DEF Cached
<1>2. ASSUME ~(p # Null /\ block[p].is = "primes")
      PROVE  \A e \in Devices : unitOf[e] = u => reading[e] = {}
  <2> SUFFICES ASSUME NEW e \in Devices, unitOf[e] = u, NEW b \in reading[e] PROVE FALSE
    OBVIOUS
  <2>1. b = p /\ PrimesOf(e, b)
    OBVIOUS
  <2>2. b # Null /\ block[b].is = "primes"
    BY <2>1, PrimesAreOn
  <2>3. QED BY <1>2, <2>1, <2>2
<1>3. CASE Check(d)
  <2>1. UNCHANGED <<ptr, block, vendor, reading>>
    BY <1>3 DEF Check, cache
  <2>2. pc[d] = "check" /\ pc'[d] \in {"launch", "free", "malloc"}
    BY <1>3 DEF Check, Goto
  <2>3. pc'[d] = "launch" => p # Null /\ vendor[u] = d
    BY <1>1, <1>3 DEF Check, Goto, Hit
  <2>4. FillOK(d)'
    BY <1>1, <2>1, <2>2, <2>3 DEF FillOK
  <2>5. QED BY <2>1, <2>2, <2>4 DEF PrimesOf
<1>4. CASE FreeStale(d)
  <2>1. /\ pc[d] = "free" /\ p # Null /\ pc'[d] = "clear"
        /\ \A e \in Devices : block[p].on = e => reading[e] = {}
        /\ UNCHANGED <<ptr, reading>>
    BY <1>1, <1>4 DEF FreeStale, TurnOK, Goto, cache
  <2>2. \A e \in Devices : unitOf[e] = u => reading[e] = {}
    <3> SUFFICES ASSUME NEW e \in Devices, unitOf[e] = u, NEW b \in reading[e] PROVE FALSE
      OBVIOUS
    <3>1. b = p /\ PrimesOf(e, b)
      OBVIOUS
    <3>2. block[p].on = e
      BY <3>1, PrimesAreOn
    <3>3. QED BY <2>1, <3>2
  <2>3. FillOK(d)'
    BY <2>1 DEF FillOK
  <2>4. QED BY <2>1, <2>2, <2>3
<1>5. CASE Clear(d)
  <2>1. /\ pc'[d] = "malloc" /\ ptr'[u] = Null /\ UNCHANGED reading
        /\ block[p].is = "freed"
    BY <1>1, <1>5 DEF Clear, TurnOK, Goto
  <2>2. \A e \in Devices : unitOf[e] = u => reading[e] = {}
    BY <1>2, <2>1
  <2>3. FillOK(d)'
    BY <2>1 DEF FillOK
  <2>4. QED BY <2>1, <2>2, <2>3
<1>6. CASE Malloc(d)
  <2>1. p = Null /\ UNCHANGED <<reading, vendor>>
    BY <1>1, <1>6 DEF Malloc, TurnOK
  <2>2. \A e \in Devices : unitOf[e] = u => reading[e] = {}
    BY <1>2, <2>1
  <2>3. CASE Goto(d, "stopped") /\ UNCHANGED <<unitOf, ptr, block>>
    <3>1. FillOK(d)' /\ ptr'[u] = Null
      BY <1>6, <2>1, <2>3 DEF Malloc, Goto, FillOK
    <3>2. QED BY <2>1, <2>2, <3>1
  <2>4. ASSUME NEW b \in Blocks, block' = [block EXCEPT ![b] = [on |-> d, is |-> "garbage"]],
               ptr' = [ptr EXCEPT ![unitOf[d]] = b], Goto(d, "copy")
        PROVE  Goal
    <3>1. /\ block'[b] = [on |-> d, is |-> "garbage"]
          /\ ptr'[u] = b /\ b # Null /\ pc'[d] = "copy"
      BY <1>1, <2>4 DEF Goto
    <3>2. FillOK(d)'
      BY <1>1, <3>1 DEF FillOK
    <3>3. QED BY <2>1, <2>2, <3>1, <3>2
  <2>5. QED BY <1>6, <2>3, <2>4 DEF Malloc
<1>7. CASE Copy(d)
  <2>1. /\ pc[d] = "copy" /\ p # Null /\ p \in Blocks
        /\ block[p] = [on |-> d, is |-> "garbage"]
        /\ UNCHANGED <<ptr, vendor, reading>>
    BY <1>1, <1>7 DEF Copy, FillOK, cache
  <2>2. \A e \in Devices : unitOf[e] = u => reading[e] = {}
    BY <1>2, <2>1
  <2>3. block' = [block EXCEPT ![p].is = "primes"] /\ pc'[d] = "count"
    BY <1>1, <1>7, <2>1 DEF Copy, Goto
  <2>4. block'[p] = [on |-> d, is |-> "primes"]
    BY <2>1, <2>3
  <2>5. FillOK(d)'
    BY <1>1, <2>1, <2>3, <2>4 DEF FillOK, PrimesOf
  <2>6. QED BY <2>1, <2>2, <2>3, <2>5
<1>8. CASE SetCount(d)
  <2>1. /\ pc[d] = "count" /\ pc'[d] = "vendor"
        /\ UNCHANGED <<ptr, vendor, block, reading>>
    BY <1>8 DEF SetCount, Goto
  <2>2. FillOK(d)'
    BY <1>1, <2>1 DEF FillOK, PrimesOf
  <2>3. QED BY <2>1, <2>2 DEF PrimesOf
<1>9. CASE SetVendor(d)
  <2>1. /\ pc[d] = "vendor" /\ pc'[d] = "launch" /\ vendor'[u] = d
        /\ UNCHANGED <<ptr, block, reading>>
    BY <1>9 DEF SetVendor, Goto
  <2>2. PrimesOf(d, p)
    BY <1>1, <2>1 DEF FillOK
  <2>3. FillOK(d)'
    BY <1>1, <2>1, <2>2 DEF FillOK, PrimesOf
  <2>4. QED BY <2>1, <2>2, <2>3 DEF PrimesOf
<1>10. CASE Launch(d)
  <2>1. /\ pc[d] = "launch" /\ pc'[d] = "check"
        /\ UNCHANGED <<ptr, vendor, block>>
        /\ reading'[d] = reading[d] \union {p}
    BY <1>1, <1>10 DEF Launch, Goto, cache
  <2>2. vendor[u] = d /\ PrimesOf(d, p)
    BY <1>1, <2>1 DEF FillOK
  <2>3. FillOK(d)'
    BY <2>1 DEF FillOK
  <2>4. QED BY <1>1, <2>1, <2>2, <2>3 DEF PrimesOf
<1>11. QED
  BY <1>3, <1>4, <1>5, <1>6, <1>7, <1>8, <1>9, <1>10 DEF ComputeSlab

\* ReadInv is kept by every step of a call that no upload fails in.
LEMMA ReadStep ==
  ASSUME CacheTypeOK, CachedByOwner, OneAtATime, OneAtATime', HeldInv, ReadInv,
         NEW d \in Devices, ComputeSlab(d), pc'[d] # "uploadFailed"
  PROVE  ReadInv'
<1> USE DEF CacheTypeOK
<1> DEFINE Filling == {"clear", "copy", "count", "vendor"}
<1> PICK u \in Units : u = unitOf[d]
  OBVIOUS
<1>1. /\ unitOf' = unitOf
      /\ \A e \in Devices \ {d} : pc'[e] = pc[e] /\ reading'[e] = reading[e]
  BY BlockStep
<1>2. /\ pc[d] \notin Filling /\ ptr[u] # Null
      => PrimesOf(vendor[u], ptr[u])
  <2> SUFFICES ASSUME pc[d] \notin Filling, ptr[u] # Null PROVE ~Replacing(u)
    BY DEF ReadInv
  <2>1. \A e \in Devices \ {d} : unitOf[e] = u => pc[e] \in {"check", "stopped", "uploadFailed"}
    BY OthersWait
  <2>2. QED BY <2>1 DEF Replacing
<1>3. \A e \in Devices : unitOf[e] = u =>
        \A b \in reading[e] : b = ptr[u] /\ PrimesOf(e, b)
  BY DEF ReadInv, Cached
<1>4. TurnOK(d) /\ FillOK(d)
  BY DEF HeldInv, ReadInv
<1>5. /\ FillOK(d)'
      /\ (/\ pc'[d] \notin Filling /\ ptr'[u] # Null
          => PrimesOf(vendor[u], ptr[u])')
      /\ \A e \in Devices : unitOf[e] = u =>
           \A b \in reading'[e] : b = ptr'[u] /\ PrimesOf(e, b)'
  BY <1>2, <1>3, <1>4, ReadCall
<1>6. ASSUME NEW v \in Units \ {u}
      PROVE  /\ ptr'[v] = ptr[v] /\ vendor'[v] = vendor[v]
             /\ ptr[v] # Null => block'[ptr[v]] = block[ptr[v]]
             /\ Replacing(v)' = Replacing(v)
  BY OtherUnits
<1>7. ASSUME NEW e \in Devices \ {d} PROVE FillOK(e)'
  <2>1. CASE unitOf[e] = u
    <3>1. pc'[e] \in {"check", "stopped", "uploadFailed"}
      BY <2>1, OthersWait
    <3>2. QED BY <3>1 DEF FillOK
  <2>2. CASE unitOf[e] # u
    <3> PICK v \in Units : v = unitOf[e]
      OBVIOUS
    <3>1. /\ ptr'[v] = ptr[v] /\ vendor'[v] = vendor[v]
          /\ ptr[v] # Null => block'[ptr[v]] = block[ptr[v]]
      BY <1>6, <2>2
    <3>2. Cached(e) = ptr[v] /\ Cached(e)' = ptr[v] /\ pc'[e] = pc[e] /\ unitOf'[e] = v
      BY <1>1, <3>1 DEF Cached
    <3>3. FillOK(e)
      BY DEF ReadInv
    <3>4. QED BY <3>1, <3>2, <3>3 DEF FillOK, PrimesOf
  <2>3. QED BY <2>1, <2>2
<1>8. ASSUME NEW v \in Units, ptr'[v] # Null, ~Replacing(v)'
      PROVE  PrimesOf(vendor[v], ptr[v])'
  <2>1. CASE v = u
    <3>1. pc'[d] \notin Filling
      BY <1>1, <1>8, <2>1 DEF Replacing
    <3>2. QED BY <1>5, <1>8, <2>1, <3>1
  <2>2. CASE v # u
    <3>1. /\ ptr'[v] = ptr[v] /\ vendor'[v] = vendor[v]
          /\ block'[ptr[v]] = block[ptr[v]]
          /\ Replacing(v)' = Replacing(v)
      BY <1>6, <1>8, <2>2
    <3>2. PrimesOf(vendor[v], ptr[v])
      BY <1>8, <3>1 DEF ReadInv
    <3>3. QED BY <3>1, <3>2 DEF PrimesOf
  <2>3. QED BY <2>1, <2>2
<1>9. ASSUME NEW e \in Devices, NEW b \in reading'[e]
      PROVE  b = Cached(e)' /\ PrimesOf(e, b)'
  <2>1. CASE unitOf[e] = u
    BY <1>1, <1>5, <1>9, <2>1 DEF Cached
  <2>2. CASE unitOf[e] # u
    <3> PICK v \in Units : v = unitOf[e]
      OBVIOUS
    <3>1. e # d /\ b \in reading[e]
      BY <1>1, <2>2
    <3>2. b = ptr[v] /\ PrimesOf(e, b)
      BY <3>1 DEF ReadInv, Cached
    <3>3. ptr'[v] = ptr[v] /\ block'[b] = block[b]
      BY <1>6, <2>2, <3>2 DEF PrimesOf
    <3>4. QED BY <1>1, <3>2, <3>3 DEF Cached, PrimesOf
  <2>3. QED BY <2>1, <2>2
<1>10. QED
  BY <1>5, <1>7, <1>8, <1>9 DEF ReadInv

-----------------------------------------------------------------------------
(* The small-prime cache, its calls made in turn: the theorems               *)

SerialInv == CacheTypeOK /\ CallsLeft /\ CachedByOwner /\ OneAtATime /\ HeldInv

LEMMA InitSerialInv ==
  ASSUME CacheInit
  PROVE  SerialInv /\ ReadInv
<1>1. CacheTypeOK /\ CallsLeft /\ CachedByOwner
  BY InitCacheInv DEF CacheInv
<1>2. /\ \A d \in Devices : pc[d] = "check" /\ reading[d] = {}
      /\ \A u \in Units : ptr[u] = Null
      /\ \A b \in Blocks : block[b].is = "unused"
  BY DEF CacheInit
<1>3. \A u \in Units : Held(u) = {}
  BY <1>2 DEF Held
<1>4. OneAtATime
  BY <1>2 DEF OneAtATime, InCall
<1>5. HeldInv
  BY <1>2, <1>3 DEF HeldInv, TurnOK
<1>6. ReadInv
  BY <1>2 DEF ReadInv, FillOK
<1>7. QED BY <1>1, <1>4, <1>5, <1>6 DEF SerialInv

\* A step that is no step of a call changes at most what kernels still read.
LEMMA QuietStep ==
  ASSUME CacheTypeOK, HeldInv, [CacheNext]_cacheVars,
         ~\E d \in Devices : ComputeSlab(d)
  PROVE  HeldInv' /\ (ReadInv => ReadInv')
<1>1. /\ UNCHANGED <<unitOf, ptr, counted, vendor, block, pc>>
      /\ \A d \in Devices : reading'[d] \subseteq reading[d]
  BY DEF CacheNext, KernelsEnd, Idle, cache, cacheVars, CacheTypeOK
<1>2. HeldInv'
  BY <1>1 DEF HeldInv, TurnOK, Held, Forgetting, Cached
<1>3. ASSUME ReadInv PROVE ReadInv'
  BY <1>1, <1>3 DEF ReadInv, FillOK, PrimesOf, Replacing, Cached
<1>4. QED BY <1>2, <1>3

\* No upload has failed so far.
Uploaded == \A d \in Devices : pc[d] # "uploadFailed"

\* An upload that has failed stays failed.
LEMMA FailureLasts ==
  ASSUME CacheTypeOK, [CacheNext]_cacheVars, Uploaded'
  PROVE  Uploaded
<1> SUFFICES ASSUME NEW e \in Devices, pc[e] = "uploadFailed" PROVE FALSE
  BY DEF Uploaded
<1>1. ASSUME NEW d \in Devices, ComputeSlab(d) PROVE pc'[e] = pc[e]
  <2>1. CASE d = e
    BY <1>1, <2>1 DEF ComputeSlab, Check, FreeStale, Clear, Malloc, Copy, SetCount,
       SetVendor, Launch
  <2>2. CASE d # e
    BY <1>1, <2>2, BlockStep
  <2>3. QED BY <2>1, <2>2
<1>2. ASSUME ~\E d \in Devices : ComputeSlab(d) PROVE pc' = pc
  BY <1>2 DEF CacheNext, KernelsEnd, Idle, cacheVars
<1>3. pc'[e] = "uploadFailed"
  BY <1>1, <1>2
<1>4. QED BY <1>3 DEF Uploaded

LEMMA SerialStep ==
  ASSUME SerialInv, [CacheNext /\ OneAtATime']_cacheVars
  PROVE  SerialInv' /\ ((Uploaded => ReadInv) => (Uploaded' => ReadInv'))
<1>1. [CacheNext]_cacheVars /\ OneAtATime'
  BY DEF SerialInv, OneAtATime, InCall, cacheVars
<1>2. CacheTypeOK' /\ CallsLeft' /\ CachedByOwner'
  BY <1>1, TypeStep, OwnerStep DEF SerialInv
<1>3. HeldInv'
  BY <1>1, HeldStep, QuietStep DEF SerialInv
<1>4. ASSUME Uploaded => ReadInv, Uploaded' PROVE ReadInv'
  <2>1. ReadInv
    BY <1>1, <1>4, FailureLasts DEF SerialInv
  <2>2. \A d \in Devices : pc'[d] # "uploadFailed"
    BY <1>4 DEF Uploaded
  <2>3. CASE \E d \in Devices : ComputeSlab(d)
    BY <1>1, <2>1, <2>2, <2>3, ReadStep DEF SerialInv
  <2>4. CASE ~\E d \in Devices : ComputeSlab(d)
    BY <1>1, <2>1, <2>4, QuietStep DEF SerialInv
  <2>5. QED BY <2>3, <2>4
<1>5. QED BY <1>1, <1>2, <1>3, <1>4 DEF SerialInv

\* With the calls into a unit made in turn, no cached block is freed twice and
\* each unit has one block at most, however often the cache changes hands and
\* whichever allocation or upload fails (sieve_slab_engine.cpp:455-470).
THEOREM SerialCallsHoldOneBlock == SerialSpec => []OneBlockHeld
<1>1. SerialInv /\ [CacheNext /\ OneAtATime']_cacheVars => SerialInv'
  BY SerialStep
<1>2. SerialInv => OneBlockHeld
  BY DEF SerialInv, HeldInv, OneBlockHeld
<1>3. CacheInit => SerialInv
  BY InitSerialInv
<1>4. QED BY <1>1, <1>2, <1>3, PTL DEF SerialSpec

\* With the calls into a unit made in turn a kernel reads primes of its own device
\* that nobody frees before it ends, whoever shares the cache, whenever kernels end
\* and whichever allocation fails, until an upload does
\* (sieve_slab_engine.cpp:455-472): what the code misses is the lock and the handling
\* of the failed upload, nothing else.
THEOREM SerialCallsAreSafe == SerialSpec => []MisledByFailedUploadOnly
<1> DEFINE Safe == SerialInv /\ (Uploaded => ReadInv)
<1>1. Safe /\ [CacheNext /\ OneAtATime']_cacheVars => Safe'
  BY SerialStep
<1>2. Safe => MisledByFailedUploadOnly
  BY DEF ReadInv, PrimesOf, KernelsReadTheirPrimes, ReadsItsPrimes, Uploaded,
     MisledByFailedUploadOnly
<1>3. CacheInit => Safe
  BY InitSerialInv
<1>4. QED BY <1>1, <1>2, <1>3, PTL DEF SerialSpec
=============================================================================
