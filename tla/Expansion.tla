----------------------------- MODULE Expansion -----------------------------
(***************************************************************************)
(* expandSieveMapToCanonical (source/pull_scheduler.cpp:704-1025): the host *)
(* map, left by the sieve with 30 values to a byte, is widened in place to  *)
(* 16 values to a byte.  A group of 8 source bytes becomes 15 bytes; the    *)
(* sources of a slab sit at the start of the window they become.            *)
(*                                                                          *)
(* Slabs larger than a tile are cut into tiles and widened by a pool of     *)
(* threads in two epochs with a join between them: the first copies the     *)
(* sources of every tile to an arena, the second widens them from there.    *)
(* Smaller slabs, and all of them when the arena cannot be allocated, are   *)
(* widened backwards within their own window.                               *)
(*                                                                          *)
(* The contents are kept as sets of positions: the bytes of the map that    *)
(* are still the source byte the sieve left there, and those that are the   *)
(* canonical byte that belongs there, made from intact sources.             *)
(***************************************************************************)
EXTENDS Integers, FiniteSets, Sequences

CONSTANTS
  MapBytes,     \* g.mapBytes, the canonical map
  SlabBytes,    \* source bytes of a slab
  TileBytes,    \* kExpandTileBytes
  Threads,      \* the pool
  Faults        \* "arena": its allocation may fail

ASSUME SizesAssumption ==
  /\ MapBytes \in Nat \ {0}
  /\ SlabBytes \in Nat \ {0} /\ SlabBytes % 8 = 0
  /\ TileBytes \in Nat \ {0} /\ TileBytes % 8 = 0
ASSUME ThreadsAssumption == IsFiniteSet(Threads) /\ Threads # {}
ASSUME FaultsAssumption == Faults \subseteq {"arena"}

Bytes == 0 .. MapBytes - 1
Span == 16 * MapBytes

Smaller(x, y) == IF x <= y THEN x ELSE y
CeilDiv(x, y) == (x + y - 1) \div y

\* ceil(span / 30), computeLegGeometry.
InternalBytes == CeilDiv(Span, 30)

NumSlabs == CeilDiv(InternalBytes, SlabBytes)

(* The geometry of slab s: where its source bytes start in the source map, how *)
(* many they are, where its window starts and how many values it stands for.  *)
Offset(s) == s * SlabBytes
Sources(s) == Smaller(SlabBytes, InternalBytes - Offset(s))
Base(s) == (Offset(s) \div 8) * 15
Values(s) == Smaller(30 * Offset(s) + 30 * SlabBytes, Span) - 30 * Offset(s)

Item(s, inPlace, src, len, values) ==
  [region |-> s, inPlace |-> inPlace, src |-> src, len |-> len,
   win |-> Base(s) + (src \div 8) * 15, size |-> CeilDiv(values, 16)]

Whole(s) == Item(s, TRUE, 0, Sources(s), Values(s))

Tile(s, t) ==
  LET src == t * TileBytes
      len == Smaller(TileBytes, Sources(s) - src)
  IN Item(s, FALSE, src, len, Smaller(30 * (src + len), Values(s)) - 30 * src)

\* A slab is one item, or one for each of its tiles; only the last slab can be
\* short of sources.
Tiles(bytes) == CeilDiv(bytes, TileBytes)

Items ==
  [n \in 1 .. (NumSlabs - 1) * Tiles(SlabBytes) + Tiles(Sources(NumSlabs - 1)) |->
     LET s == (n - 1) \div Tiles(SlabBytes)
     IN IF Sources(s) <= TileBytes THEN Whole(s) ELSE Tile(s, (n - 1) % Tiles(SlabBytes))]
Regions == [s \in 1 .. NumSlabs |-> Whole(s - 1)]

VARIABLES
  phase,        \* the calling thread
  next,         \* nextItem, or nextRegion of the fallback
  pc,           \* pc[t]: what thread t does
  owned,        \* owned[t]: the items t claimed in the first epoch
  at,           \* at[t]: the position in its list of the item t is on
  group,        \* group[t]: the groups of that item it has widened
  head,         \* head[t]: are the 16 bytes it staged intact sources?
  raw, canon,   \* bytes of the map that are intact sources, or canonical
  arena,        \* bytes of the arena that are intact sources
  structural    \* are 3 and 5 marked in byte 0?

vars == <<phase, next, pc, owned, at, group, head, raw, canon, arena, structural>>

work == <<at, group, head>>
mapVars == <<raw, canon, structural>>

List == IF phase = "inPlace" THEN Regions ELSE Items

TypeOK ==
  /\ phase \in {"begin", "fill", "widen", "inPlace", "finish", "done"}
  /\ next \in 1 .. Len(Items) + Cardinality(Threads) + 1
  /\ pc \in [Threads -> {"claim", "copy", "item", "tail", "head", "groups", "ended"}]
  /\ \A t \in Threads : \A i \in DOMAIN owned[t] : owned[t][i] \in DOMAIN Items
  /\ at \in [Threads -> Nat]
  /\ group \in [Threads -> Nat]
  /\ head \in [Threads -> BOOLEAN]
  /\ raw \subseteq Bytes /\ canon \subseteq Bytes /\ raw \intersect canon = {}
  /\ arena \subseteq 0 .. InternalBytes - 1
  /\ structural \in BOOLEAN

Init ==
  /\ phase = "begin"
  /\ next = 1
  /\ pc = [t \in Threads |-> "ended"]
  /\ owned = [t \in Threads |-> << >>]
  /\ at = [t \in Threads |-> 0]
  /\ group = [t \in Threads |-> 0]
  /\ head = [t \in Threads |-> FALSE]
  /\ raw = UNION {Base(s) .. Base(s) + Sources(s) - 1 : s \in 0 .. NumSlabs - 1}
  /\ canon = {} /\ arena = {}
  /\ structural = FALSE

-----------------------------------------------------------------------------
(* An item *)

Groups(i) == i.len \div 8
HasTail(i) == i.len % 8 # 0

\* Positions of the sources of group q, in the map and in the arena; the
\* group one past the last is the tail.
SourceAt(i, q) == {p \in 8 * q .. 8 * q + 7 : p < i.len}
InMap(i, q) == {Base(i.region) + i.src + p : p \in SourceAt(i, q)}
InArena(i, q) == {Offset(i.region) + i.src + p : p \in SourceAt(i, q)}

\* A full group writes 15 bytes, the tail what is left of the window.
MutTarget(i, q) ==
  IF q < Groups(i) THEN i.win + 15 * q .. i.win + 15 * q + 15
  ELSE i.win + 15 * q .. i.win + i.size - 1
Target(i, q) ==
  IF q < Groups(i) THEN i.win + 15 * q .. i.win + 15 * q + 14
  ELSE i.win + 15 * q .. i.win + i.size - 1

Window(i) == i.win .. i.win + i.size - 1

\* Write a group whose sources were, or were not, intact.
Write(i, q, intact) ==
  LET target == Target(i, q) \intersect Bytes
  IN /\ raw' = raw \ target
     /\ canon' = IF intact THEN canon \union target ELSE canon \ target
     /\ structural' = (structural /\ 0 \notin target)

Goto(t, step) == pc' = [pc EXCEPT ![t] = step]

Claimed(t) == List[owned[t][at[t]]]

-----------------------------------------------------------------------------
(* The calling thread *)

Start(step) == pc' = [t \in Threads |-> step]

\* The arena, or the schedule that needs none.
Begin ==
  /\ phase = "begin"
  /\ \/ phase' = "fill"
     \/ "arena" \in Faults /\ phase' = "inPlace"
  /\ Start("claim")
  /\ UNCHANGED <<next, owned, work, mapVars, arena>>

Joined == \A t \in Threads : pc[t] = "ended"

\* The barrier between the two epochs: join, and spawn again.
NextEpoch ==
  /\ phase = "fill" /\ Joined
  /\ phase' = "widen"
  /\ next' = 1
  /\ Start("item")
  /\ at' = [t \in Threads |-> 1]
  /\ UNCHANGED <<owned, group, head, mapVars, arena>>

Join ==
  /\ phase \in {"widen", "inPlace"} /\ Joined
  /\ phase' = "finish"
  /\ UNCHANGED <<next, pc, owned, work, mapVars, arena>>

\* hostMap[0] |= 0x60
Finish ==
  /\ phase = "finish"
  /\ structural' = TRUE
  /\ phase' = "done"
  /\ UNCHANGED <<next, pc, owned, work, raw, canon, arena>>

-----------------------------------------------------------------------------
(* A thread of the pool *)

\* fetch_add on the counter of items, or of regions in the fallback.
MutClaimOn(t) ==
  /\ pc[t] = "claim"
  /\ next' = next + 1
  /\ IF next > Len(List)
     THEN Goto(t, "item") /\ at' = [at EXCEPT ![t] = 1] /\ UNCHANGED owned
     ELSE /\ owned' = [owned EXCEPT ![t] = Append(@, next)]
          /\ at' = [at EXCEPT ![t] = @ + 1]
          /\ Goto(t, IF phase = "fill" THEN "copy" ELSE "tail")
  /\ UNCHANGED <<phase, group, head, mapVars, arena>>
Claim(t) ==
  /\ pc[t] = "claim"
  /\ next' = next + 1
  /\ IF next > Len(List)
     THEN Goto(t, "ended") /\ UNCHANGED <<owned, at>>
     ELSE /\ owned' = [owned EXCEPT ![t] = Append(@, next)]
          /\ at' = [at EXCEPT ![t] = @ + 1]
          /\ Goto(t, IF phase = "fill" THEN "copy" ELSE "tail")
  /\ UNCHANGED <<phase, group, head, mapVars, arena>>

\* The first epoch: a tile's sources go to its own slot of the arena.
CopyTile(t) ==
  /\ pc[t] = "copy"
  /\ LET i == Claimed(t)
         slot == UNION {InArena(i, q) : q \in 0 .. Groups(i)}
     IN arena' = IF i.inPlace THEN arena
                 ELSE arena \union {p \in slot :
                        p - Offset(i.region) + Base(i.region) \in raw}
  /\ Goto(t, "claim")
  /\ UNCHANGED <<phase, next, owned, work, mapVars>>

\* The second epoch: each thread replays the items it claimed.
NextItem(t) ==
  /\ pc[t] = "item"
  /\ Goto(t, IF at[t] > Len(owned[t]) THEN "ended" ELSE "tail")
  /\ UNCHANGED <<phase, next, owned, work, mapVars, arena>>

Intact(i, q) ==
  IF i.inPlace THEN InMap(i, q) \subseteq raw ELSE InArena(i, q) \subseteq arena

\* The partial group comes first: nothing has been written over its source.
PartialGroup(t) ==
  /\ pc[t] = "tail"
  /\ LET i == Claimed(t)
     IN IF HasTail(i) THEN Write(i, Groups(i), Intact(i, Groups(i)))
                      ELSE UNCHANGED mapVars
  /\ Goto(t, "head")
  /\ UNCHANGED <<phase, next, owned, work, arena>>

\* In place, groups 0 and 1 are staged.
StageHead(t) ==
  /\ pc[t] = "head"
  /\ LET i == Claimed(t)
         staged == {q \in {0, 1} : q < Groups(i)}
     IN /\ head' = [head EXCEPT ![t] =
              i.inPlace /\ \A q \in staged : InMap(i, q) \subseteq raw]
        /\ group' = [group EXCEPT ![t] = 0]
  /\ Goto(t, "groups")
  /\ UNCHANGED <<phase, next, owned, at, mapVars, arena>>

\* In place the groups go down from the last, from the arena up from the first.
MutTurn(i, n) == n
Turn(i, n) == IF i.inPlace THEN Groups(i) - 1 - n ELSE n

WidenGroup(t) ==
  /\ pc[t] = "groups" /\ group[t] < Groups(Claimed(t))
  /\ LET i == Claimed(t)
         q == Turn(i, group[t])
     IN Write(i, q, IF i.inPlace /\ q < 2 THEN head[t] ELSE Intact(i, q))
  /\ group' = [group EXCEPT ![t] = @ + 1]
  /\ UNCHANGED <<phase, next, pc, owned, at, head, arena>>

ItemDone(t) ==
  /\ pc[t] = "groups" /\ group[t] = Groups(Claimed(t))
  /\ IF phase = "inPlace" THEN Goto(t, "claim") /\ UNCHANGED at
     ELSE Goto(t, "item") /\ at' = [at EXCEPT ![t] = @ + 1]
  /\ UNCHANGED <<phase, next, owned, group, head, mapVars, arena>>

Thread(t) ==
  \/ Claim(t) \/ CopyTile(t) \/ NextItem(t)
  \/ PartialGroup(t) \/ StageHead(t) \/ WidenGroup(t) \/ ItemDone(t)

Main == Begin \/ NextEpoch \/ Join \/ Finish

Idle == phase = "done" /\ UNCHANGED vars

Next == Main \/ (\E t \in Threads : Thread(t)) \/ Idle

Spec == Init /\ [][Next]_vars

-----------------------------------------------------------------------------
(* Properties *)

\* On return every byte of the map is the canonical one, made from sources that
\* nobody had overwritten, whichever threads did the items and whether or not
\* the arena could be had; and 3 and 5, which the wheel does not store, are
\* marked (pull_scheduler.h:133-136, pull_scheduler.cpp:1021-1024).
MapIsCanonical == phase = "done" => canon = Bytes /\ structural

\* While one thread is on an item, the bytes it reads and writes in the map are
\* written by no other thread (pull_scheduler.cpp:800-807).
Writes(t) ==
  IF pc[t] \in {"tail", "head", "groups"} THEN Window(Claimed(t)) ELSE {}
Reads(t) ==
  IF pc[t] = "copy" /\ ~Claimed(t).inPlace
    THEN UNION {InMap(Claimed(t), q) : q \in 0 .. Groups(Claimed(t))}
  ELSE IF pc[t] \in {"tail", "head", "groups"} /\ Claimed(t).inPlace
    THEN UNION {InMap(Claimed(t), q) : q \in 0 .. Groups(Claimed(t))}
  ELSE {}
NoSharedBytes ==
  \A t \in Threads : \A u \in Threads \ {t} :
    Writes(t) \intersect (Writes(u) \union Reads(u)) = {}

\* What is written next stays in the window of its item: the windows partition
\* the map (pull_scheduler.h:130-131, pull_scheduler.cpp:802-804).
WritesStayInWindow ==
  \A t \in Threads :
    /\ pc[t] = "tail" /\ HasTail(Claimed(t)) =>
         Target(Claimed(t), Groups(Claimed(t))) \subseteq Window(Claimed(t))
    /\ pc[t] = "groups" /\ group[t] < Groups(Claimed(t)) =>
         Target(Claimed(t), Turn(Claimed(t), group[t])) \subseteq Window(Claimed(t))
=============================================================================
