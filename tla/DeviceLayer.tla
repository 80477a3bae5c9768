---------------------------- MODULE DeviceLayer ----------------------------
(***************************************************************************)
(* The device abstraction (source/devabstraction.cpp) over its two backends *)
(* (hip_devabstraction.cpp, compiled once per vendor): logical devices, the *)
(* map from a card's PCI bus to a backend and an index in its runtime, the  *)
(* one-time remap of that index, the override of the backend, and the       *)
(* handles that calls hand out.  Runtimes number their cards from 1 here.   *)
(***************************************************************************)
EXTENDS Integers, Sequences, SequencesExt, FiniteSets

CONSTANTS
  Buses,        \* the cards, by PCI bus
  Machines,     \* what each runtime sees: its cards, in its own order
  MaxDevices,   \* kMaxDevices
  Slots,        \* as many handles are live at once
  MaxForces     \* bound on DevForceBackendForBus

Backends == {"amd", "nvidia"}

ASSUME MachinesAssumption ==
  \A m \in Machines : /\ DOMAIN m = Backends
                      /\ \A b \in Backends : m[b] \in Seq(Buses) /\ IsInjective(m[b])
ASSUME BoundsAssumption == MaxDevices \in Nat \ {0} /\ Slots \in Nat /\ MaxForces \in Nat

VARIABLES
  sees,         \* the machine the process runs on
  initialized,  \* "no", "enumerated" by DevInit or "seeded" by the caller
  devs,         \* g_devices
  busMap,       \* g_busMap
  enums,        \* g_enumCalls
  current,      \* the current device of the calling thread in each runtime
  handles,      \* DevHandle, DevStream and DevEvent objects, with where they live
  attempts,     \* calls of DevForceBackendForBus that enumerated
  forced,       \* the buses it has overridden
  stray         \* the calls that did not reach their objects

vars == <<sees, initialized, devs, busMap, enums, current, handles, attempts,
          forced, stray>>
known == <<sees, initialized, devs>>
overrides == <<attempts, forced>>

NoHandle == [kind |-> "none"]
SlotIds == 1 .. Slots
Live(kind) == {h \in SlotIds : handles[h].kind = kind}
\* A new handle takes the first free slot.
Free == {h \in SlotIds : handles[h] = NoHandle /\ \A g \in 1 .. h - 1 : handles[g] # NoHandle}

-----------------------------------------------------------------------------
(* Enumeration *)

Infos(b, n) == [i \in 1 .. n |-> [vendor |-> b, bus |-> sees[b][i], index |-> i]]

\* What enumerating a backend can yield: its cards up to MaxDevices, or a
\* failure, which leaves the cards filled in so far.
Enumerations(b) ==
  LET n == IF Len(sees[b]) > MaxDevices THEN MaxDevices ELSE Len(sees[b])
  IN {[ok |-> TRUE, list |-> Infos(b, n)], [ok |-> FALSE, list |-> << >>]}
       \union {[ok |-> FALSE, list |-> Infos(b, k)] : k \in 0 .. n - 1}

\* The first device of every bus, in order.
MergeAndDedupe(amd, nvidia) ==
  LET all == amd \o nvidia
      first == {i \in DOMAIN all : \A j \in 1 .. i - 1 : all[j].bus # all[i].bus}
  IN [k \in 1 .. Cardinality(first) |->
        all[CHOOSE i \in first : Cardinality({j \in first : j < i}) = k - 1]]

IndexOfBus(list, bus) ==
  IF \E i \in DOMAIN list : list[i].bus = bus
  THEN CHOOSE i \in DOMAIN list : list[i].bus = bus ELSE 0

FindVendorIndexFor(bus, b) ==
  {IF r.ok THEN IndexOfBus(r.list, bus) ELSE 0 : r \in Enumerations(b)}

MapOf(list, remapped) ==
  [bus \in {list[i].bus : i \in DOMAIN list} |->
     LET d == list[IndexOfBus(list, bus)]
     IN [backend |-> d.vendor, index |-> d.index, remapped |-> remapped]]

-----------------------------------------------------------------------------
(* Initialisation *)

Init ==
  /\ sees \in Machines
  /\ initialized = "no" /\ devs = << >> /\ busMap = << >> /\ enums = 0
  /\ current = [b \in Backends |-> 1]
  /\ handles = [h \in SlotIds |-> NoHandle]
  /\ attempts = 0 /\ forced = {} /\ stray = {}

\* Idempotent: once initialised, the call changes nothing.
MutDevInit ==
  /\ enums < 4
  /\ \E a \in Enumerations("amd"), n \in Enumerations("nvidia") :
       /\ devs' = MergeAndDedupe(a.list, n.list)
       /\ busMap' = MapOf(devs', FALSE)
  /\ enums' = enums + 2
  /\ initialized' = "enumerated"
  /\ UNCHANGED <<sees, current, handles, overrides, stray>>
DevInit ==
  /\ initialized = "no"
  /\ \E a \in Enumerations("amd"), n \in Enumerations("nvidia") :
       /\ devs' = MergeAndDedupe(a.list, n.list)
       /\ busMap' = MapOf(devs', FALSE)
  /\ enums' = enums + 2
  /\ initialized' = "enumerated"
  /\ UNCHANGED <<sees, current, handles, overrides, stray>>

\* The driver hands over its own enumeration, of the vendors it wants.
DevInitFromDevices ==
  /\ initialized = "no"
  /\ \E wanted \in SUBSET Backends, a \in Enumerations("amd"), n \in Enumerations("nvidia") :
       LET list == MergeAndDedupe(IF "amd" \in wanted THEN a.list ELSE << >>,
                                  IF "nvidia" \in wanted THEN n.list ELSE << >>)
       IN list # << >> /\ devs' = list /\ busMap' = MapOf(list, TRUE)
  /\ initialized' = "seeded"
  /\ UNCHANGED <<sees, enums, current, handles, overrides, stray>>

-----------------------------------------------------------------------------
(* Resolving a logical device *)

\* The entries resolveLogical can return: the first time it reconciles the
\* index with the backend's enumeration, and when that fails keeps it.
Entries(d) ==
  LET old == busMap[devs[d].bus]
  IN IF old.remapped THEN {old}
     ELSE {[old EXCEPT !.index = IF i = 0 THEN @ ELSE i, !.remapped = TRUE] :
             i \in FindVendorIndexFor(devs[d].bus, old.backend)}

Resolve(d, e) ==
  /\ busMap' = [busMap EXCEPT ![devs[d].bus] = e]
  /\ enums' = IF busMap[devs[d].bus].remapped THEN enums ELSE enums + 1

\* DevGetDeviceProperties, DevGetMemInfo and DevBackendOf, and any call below
\* that fails once its device is resolved: the backend selects the device and
\* restores the one before.
Query(d) ==
  /\ \E e \in Entries(d) : Resolve(d, e)
  /\ UNCHANGED <<known, current, handles, overrides, stray>>

-----------------------------------------------------------------------------
(* Objects and calls *)

Selected(e) == <<e.backend, e.index>>
Handle(kind, d, e, place) ==
  [kind |-> kind, device |-> d, backend |-> e.backend, index |-> e.index,
   place |-> place]

DevAlloc(d, h) ==
  /\ \E e \in Entries(d) :
       /\ Resolve(d, e)
       /\ handles' = [handles EXCEPT ![h] = Handle("memory", d, e, Selected(e))]
  /\ UNCHANGED <<known, current, overrides, stray>>

\* The entry points that create a stream or an event select no device: the
\* object is of the device that is current.
Create(kind, d, h) ==
  /\ \E e \in Entries(d) :
       /\ Resolve(d, e)
       /\ handles' = [handles EXCEPT ![h] =
                        Handle(kind, d, e, <<e.backend, current[e.backend]>>)]
  /\ UNCHANGED <<known, current, overrides, stray>>
DevStreamCreate(d, h) == Create("stream", d, h)
DevEventCreate(d, h) == Create("event", d, h)

Call(name, reaches) ==
  stray' = IF reaches THEN stray ELSE stray \union {name}

\* The device of a buffer's handle is selected for a copy.
MutDevCopy(h) ==
  /\ \E e \in Entries(handles[h].device) :
       /\ Resolve(handles[h].device, e)
       /\ Call("copy", handles[h].place = Selected(e))
  /\ UNCHANGED <<known, current, handles, overrides>>
DevCopy(h) ==
  /\ Call("copy", handles[h].place = Selected(handles[h]))
  /\ UNCHANGED <<known, busMap, enums, current, handles, overrides>>

\* A call that fails keeps the object.
Drop(h) ==
  /\ Call("free", handles[h].place[1] = handles[h].backend)
  /\ handles' \in {handles, [handles EXCEPT ![h] = NoHandle]}
  /\ UNCHANGED <<known, busMap, enums, current, overrides>>
DevFree(h) == Drop(h)
DevStreamDestroy(h) == Drop(h)
DevEventDestroy(h) == Drop(h)

Sync(h) ==
  /\ Call("sync", handles[h].place[1] = handles[h].backend)
  /\ UNCHANGED <<known, busMap, enums, current, handles, overrides>>
DevStreamSync(h) == Sync(h)
DevEventSync(h) == Sync(h)

\* The stream is passed to the event's runtime whatever runtime it is of; a
\* stream of another device of that runtime is refused there.
DevEventRecord(ev, s) ==
  /\ handles[ev].device = handles[s].device
  /\ Call("record", handles[s].place[1] = handles[ev].backend)
  /\ UNCHANGED <<known, busMap, enums, current, handles, overrides>>

DevEventElapsedMs(first, last) ==
  /\ handles[first].backend = handles[last].backend
  /\ handles[first].device = handles[last].device
  /\ Call("elapsed", handles[last].place[1] = handles[first].place[1])
  /\ UNCHANGED <<known, busMap, enums, current, handles, overrides>>

\* DevLaunch and DevLaunchM0, on a buffer of the same logical device and on one
\* of its streams or (s = 0) on the default one.  A stream of another device of
\* the runtime is refused there.
DevLaunch(d, buf, s) ==
  /\ handles[buf].device = d /\ (s # 0 => handles[s].device = d)
  /\ \E e \in Entries(d) :
       LET place == IF s = 0 THEN Selected(e) ELSE handles[s].place
           refused == place[1] = e.backend /\ place # Selected(e)
       IN /\ Resolve(d, e)
          /\ Call("launch", refused \/ (place = Selected(e) /\ handles[buf].place = place))
  /\ UNCHANGED <<known, current, handles, overrides>>

\* Only a backend that sees the card itself, in an enumeration of its own.
MutDevForceBackendForBus(bus, b) ==
  /\ initialized # "no" /\ attempts < MaxForces
  /\ attempts' = attempts + 1 /\ enums' = enums + 1
  /\ \E r \in Enumerations(b) :
       LET i == IndexOfBus(r.list, bus)
       IN IF r.ok /\ i # 0
          THEN /\ busMap' = [busMap EXCEPT ![bus].backend = b]
               /\ forced' = forced \union {bus}
          ELSE UNCHANGED <<busMap, forced>>
  /\ UNCHANGED <<known, current, handles, stray>>
DevForceBackendForBus(bus, b) ==
  /\ initialized # "no" /\ attempts < MaxForces
  /\ attempts' = attempts + 1 /\ enums' = enums + 1
  /\ \E r \in Enumerations(b) :
       LET i == IndexOfBus(r.list, bus)
       IN IF r.ok /\ i # 0
          THEN /\ busMap' = [busMap EXCEPT ![bus] =
                               [backend |-> b, index |-> i, remapped |-> TRUE]]
               /\ forced' = forced \union {bus}
          ELSE UNCHANGED <<busMap, forced>>
  /\ UNCHANGED <<known, current, handles, stray>>

\* An operation of the slab engine's pool selects its device and, unlike the
\* calls above, leaves it selected (sieve_slab_engine.cpp).
PoolOp(b, i) ==
  /\ current' = [current EXCEPT ![b] = i]
  /\ UNCHANGED <<known, busMap, enums, handles, overrides, stray>>

Next ==
  \/ DevInit
  \/ DevInitFromDevices
  \/ \E d \in DOMAIN devs :
       \/ Query(d)
       \/ \E h \in Free : DevAlloc(d, h) \/ DevStreamCreate(d, h) \/ DevEventCreate(d, h)
       \/ \E buf \in Live("memory"), s \in Live("stream") \union {0} : DevLaunch(d, buf, s)
  \/ \E h \in Live("memory") : DevCopy(h) \/ DevFree(h)
  \/ \E h \in Live("stream") : DevStreamSync(h) \/ DevStreamDestroy(h)
  \/ \E h \in Live("event") : DevEventSync(h) \/ DevEventDestroy(h)
  \/ \E ev \in Live("event"), s \in Live("stream") : DevEventRecord(ev, s)
  \/ \E first, last \in Live("event") : DevEventElapsedMs(first, last)
  \/ \E bus \in DOMAIN busMap, b \in Backends : DevForceBackendForBus(bus, b)
  \/ \E b \in Backends : \E i \in DOMAIN sees[b] : PoolOp(b, i)

Spec == Init /\ [][Next]_vars

-----------------------------------------------------------------------------
(* Properties *)

CardAt(place) ==
  IF place[2] \in DOMAIN sees[place[1]] THEN sees[place[1]][place[2]] ELSE "none"

\* The backend and the index of every bus are those of its card in that
\* backend's runtime, whichever enumeration failed or was cut short, and after
\* the remap and an override as before (devabstraction.cpp:95-106, 532-561).
ReachesItsCard ==
  \A bus \in DOMAIN busMap : CardAt(Selected(busMap[bus])) = bus

\* A buffer stays on the card of the logical device its handle names: a second
\* initialisation renumbers nothing (devabstraction.cpp:131, 167).
BuffersKeepTheirDevice ==
  \A h \in Live("memory") :
    handles[h].device \in DOMAIN devs /\ CardAt(handles[h].place) = devs[handles[h].device].bus

\* Copies, frees and synchronisation reach the object of their handle; launches
\* and records do too unless the backend of a bus has been overridden, which
\* re-resolves the device of a buffer but does not move the buffer
\* (devabstraction.cpp:268-307, 407-486).
CallsReachTheirObjects ==
  stray \subseteq IF forced = {} THEN {} ELSE {"launch", "record"}

\* The backends are enumerated twice at initialisation, or not at all if the
\* caller seeds the list, and then once for every bus at most, whatever fails
\* (devabstraction.cpp:45-47, 182-185).
EnumerationsAreBounded ==
  enums <= attempts + (IF initialized = "enumerated"
                       THEN 2 + Cardinality(DOMAIN busMap) ELSE 0)
=============================================================================
