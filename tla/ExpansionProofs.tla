-------------------------- MODULE ExpansionProofs --------------------------
(***************************************************************************)
(* Theorems about Expansion, for every map, slab, tile and pool.  First the *)
(* arithmetic of the plan: the windows of the items, and those of the       *)
(* slabs, cut the map, and an item's sources lie where its window starts.   *)
(* Then the pool: no item is on two lists, and what an item will still read *)
(* is intact until it has read it.                                          *)
(***************************************************************************)
EXTENDS Expansion, ListLemmas

-----------------------------------------------------------------------------
(* The plan *)

LEMMA DivMod ==
  ASSUME NEW x \in Nat, NEW d \in Nat, d > 0
  PROVE  x \div d \in Int /\ x % d \in Nat /\ x % d < d /\ x = d * (x \div d) + (x % d)
  OBVIOUS

LEMMA CeilBounds ==
  ASSUME NEW x \in Nat, NEW y \in Nat, y > 0
  PROVE  /\ CeilDiv(x, y) \in Nat
         /\ y * CeilDiv(x, y) - y < x /\ x <= y * CeilDiv(x, y)
<1> DEFINE c == CeilDiv(x, y)
           z == x + y - 1
<1>1. z \in Nat /\ z = x + y - 1
  OBVIOUS
<1>2. c = z \div y
  BY DEF CeilDiv
<1> HIDE DEF z
<1>3. c \in Int /\ y * c <= z /\ z < y * c + y
  BY <1>1, <1>2, DivBounds
<1> HIDE DEF c
<1>4. c >= 0
  <2> SUFFICES ASSUME c < 0 PROVE FALSE
    BY <1>3
  <2>1. -1 - c \in Nat
    BY <1>3
  <2>2. y * (-1 - c) \in Nat
    BY <2>1
  <2>3. y * (-1 - c) = -y - y * c
    BY <1>3
  <2>4. y * c \in Int
    BY <1>3
  <2>5. QED BY <1>1, <1>3, <2>2, <2>3, <2>4
<1>5. y * c \in Int
  BY <1>3
<1>6. c \in Nat /\ y * c - y < x /\ x <= y * c
  BY <1>1, <1>3, <1>4, <1>5
<1>7. QED BY <1>6 DEF c

\* A smaller quotient by the same divisor.
LEMMA FactorLess ==
  ASSUME NEW y \in Nat, NEW a \in Int, NEW b \in Int, y * a < y * b
  PROVE  a < b
<1> SUFFICES ASSUME b <= a PROVE FALSE
  OBVIOUS
<1>1. a - b \in Nat
  OBVIOUS
<1>2. y * (a - b) \in Nat
  BY <1>1
<1>3. y * (a - b) = y * a - y * b
  OBVIOUS
<1>4. y * a \in Int /\ y * b \in Int
  OBVIOUS
<1>5. QED BY <1>2, <1>3, <1>4

\* Groups of 8 source bytes in a slab, and in a tile.
SlabGroups == SlabBytes \div 8
TileGroups == TileBytes \div 8

LEMMA WholeGroups ==
  /\ SlabGroups \in Nat \ {0} /\ SlabBytes = 8 * SlabGroups
  /\ TileGroups \in Nat \ {0} /\ TileBytes = 8 * TileGroups
  /\ MapBytes \in Nat \ {0}
  BY SizesAssumption DEF SlabGroups, TileGroups

\* The sources are as many as it takes to hold the span, the slabs as many as
\* it takes to hold the sources.
LEMMA Counts ==
  /\ InternalBytes \in Nat \ {0} /\ NumSlabs \in Nat \ {0}
  /\ 30 * InternalBytes - 30 < 16 * MapBytes /\ 16 * MapBytes <= 30 * InternalBytes
  /\ 8 * (SlabGroups * NumSlabs) - 8 * SlabGroups < InternalBytes
  /\ InternalBytes <= 8 * (SlabGroups * NumSlabs)
<1>1. Span \in Nat /\ Span = 16 * MapBytes /\ Span > 0
  BY WholeGroups DEF Span
<1>2. /\ InternalBytes \in Nat
      /\ 30 * InternalBytes - 30 < Span /\ Span <= 30 * InternalBytes
  <2>1. /\ CeilDiv(Span, 30) \in Nat
        /\ 30 * CeilDiv(Span, 30) - 30 < Span /\ Span <= 30 * CeilDiv(Span, 30)
    <3>1. 30 \in Nat /\ 30 > 0
      OBVIOUS
    <3>2. QED BY <1>1, <3>1, CeilBounds
  <2>2. QED BY <2>1 DEF InternalBytes
<1>3. InternalBytes > 0
  BY <1>1, <1>2
<1>4. /\ NumSlabs \in Nat
      /\ SlabBytes * NumSlabs - SlabBytes < InternalBytes
      /\ InternalBytes <= SlabBytes * NumSlabs
  BY <1>2, WholeGroups, CeilBounds DEF NumSlabs
<1>5. SlabBytes * NumSlabs = 8 * (SlabGroups * NumSlabs)
  BY <1>4, WholeGroups
<1>6. NumSlabs > 0
  <2> SUFFICES ASSUME NumSlabs = 0 PROVE FALSE
    BY <1>4
  <2>1. SlabBytes * NumSlabs = 0
    BY WholeGroups
  <2>2. QED BY <1>2, <1>3, <1>4, <2>1
<1>7. QED BY <1>1, <1>2, <1>3, <1>4, <1>5, <1>6, WholeGroups

\* Where a slab is: its sources are the groups from SlabGroups * s on, its window
\* what they become, and only the last slab is short.
LEMMA SlabPlace ==
  ASSUME NEW s \in 0 .. NumSlabs - 1
  PROVE  /\ SlabGroups * s \in Nat
         /\ Offset(s) = 8 * (SlabGroups * s)
         /\ Base(s) = 15 * (SlabGroups * s)
         /\ s < NumSlabs - 1 =>
              /\ Sources(s) = 8 * SlabGroups /\ Values(s) = 240 * SlabGroups
              /\ 15 * (SlabGroups * s) + 15 * SlabGroups < MapBytes
         /\ s = NumSlabs - 1 =>
              /\ Sources(s) = InternalBytes - Offset(s)
              /\ Values(s) = 16 * MapBytes - 30 * Offset(s)
         /\ Sources(s) \in Nat \ {0} /\ Sources(s) <= 8 * SlabGroups
<1> DEFINE g == SlabGroups
           N == NumSlabs
           p == g * s
<1>1. s \in Nat /\ N \in Nat /\ s <= N - 1 /\ g \in Nat /\ g > 0
  BY Counts, WholeGroups
<1>2. p \in Nat /\ g * N \in Nat
  BY <1>1
<1>3. s * (8 * g) = 8 * p
  BY <1>1
<1>4. Offset(s) = 8 * p
  BY <1>3, WholeGroups DEF Offset
<1>5. Base(s) = 15 * p
  <2> HIDE DEF p
  <2>1. (8 * p) \div 8 = p
    BY <1>2
  <2>2. QED BY <1>2, <1>4, <2>1 DEF Base
<1>6. p + g <= g * N /\ (s < N - 1 => p + 2 * g <= g * N)
  <2>1. N - 1 - s \in Nat
    BY <1>1
  <2>2. g * (N - 1 - s) = g * N - g - p
    BY <1>1
  <2>3. g * (N - 1 - s) \in Nat
    BY <1>1, <2>1
  <2>4. s < N - 1 => g * (N - 1 - s) >= g
    <3> SUFFICES ASSUME s < N - 1 PROVE g * (N - 1 - s) >= g
      OBVIOUS
    <3>1. N - 2 - s \in Nat
      BY <1>1
    <3>2. g * (N - 2 - s) \in Nat
      BY <1>1, <3>1
    <3>3. g * (N - 2 - s) = g * (N - 1 - s) - g
      BY <1>1
    <3>4. QED BY <1>1, <2>3, <3>2, <3>3
  <2> HIDE DEF p
  <2>5. QED BY <1>1, <1>2, <2>2, <2>3, <2>4
<1>7. s = N - 1 => p + g = g * N
  BY <1>1
<1>8. /\ 30 * InternalBytes - 30 < 16 * MapBytes /\ 16 * MapBytes <= 30 * InternalBytes
      /\ 8 * (g * N) - 8 * g < InternalBytes /\ InternalBytes <= 8 * (g * N)
      /\ InternalBytes \in Nat /\ MapBytes \in Nat
  BY Counts, WholeGroups
<1>9. SlabBytes = 8 * g
  BY WholeGroups
<1> DEFINE W == g * N
<1>10. W \in Nat /\ g * N = W
  BY <1>2
<1> HIDE DEF p, W
<1>11. /\ s < N - 1 => /\ Sources(s) = 8 * g /\ Values(s) = 240 * g
                       /\ 15 * p + 15 * g < MapBytes
       /\ s = N - 1 => /\ Sources(s) = InternalBytes - Offset(s)
                       /\ Values(s) = 16 * MapBytes - 30 * Offset(s)
       /\ Sources(s) \in Nat \ {0} /\ Sources(s) <= 8 * g
  <2>1. CASE s < N - 1
    <3>1. 8 * p + 16 * g <= 8 * W
      BY <1>1, <1>2, <1>6, <1>10, <2>1
    <3>2. 8 * p + 8 * g < InternalBytes
      BY <1>1, <1>2, <1>8, <1>10, <3>1
    <3>3. Sources(s) = 8 * g
      BY <1>1, <1>2, <1>4, <1>8, <1>9, <3>2 DEF Sources, Smaller
    <3>4. 240 * p + 240 * g < 16 * MapBytes
      BY <1>1, <1>2, <1>8, <3>2
    <3>5. Values(s) = 240 * g
      BY <1>1, <1>2, <1>4, <1>8, <1>9, <3>4 DEF Values, Smaller, Span
    <3>6. QED BY <1>1, <1>2, <1>8, <2>1, <3>3, <3>4, <3>5
  <2>2. CASE s = N - 1
    <3>1. 8 * p + 8 * g = 8 * W
      BY <1>1, <1>2, <1>7, <1>10, <2>2
    <3>2. InternalBytes - 8 * p <= 8 * g /\ InternalBytes - 8 * p > 0
      BY <1>1, <1>2, <1>8, <1>10, <3>1
    <3>3. Sources(s) = InternalBytes - Offset(s)
      BY <1>1, <1>2, <1>4, <1>8, <1>9, <3>2 DEF Sources, Smaller
    <3>4. 16 * MapBytes <= 240 * p + 240 * g
      BY <1>1, <1>2, <1>8, <3>2
    <3>5. Values(s) = 16 * MapBytes - 30 * Offset(s)
      BY <1>1, <1>2, <1>4, <1>8, <1>9, <3>4 DEF Values, Smaller, Span
    <3>6. QED BY <1>1, <1>2, <1>4, <1>8, <2>2, <3>2, <3>3, <3>5
  <2>3. QED BY <1>1, <2>1, <2>2
<1>12. QED BY <1>2, <1>4, <1>5, <1>11 DEF p

\* The item of the sources src .. src + len - 1 of slab s.  Its window is as large
\* as its groups become, or reaches to the end of the slab's, or of the map.
Piece(s, here, src, len) ==
  Item(s, here, src, len, Smaller(30 * (src + len), Values(s)) - 30 * src)

LEMMA PieceShape ==
  ASSUME NEW s \in 0 .. NumSlabs - 1, NEW here \in BOOLEAN,
         NEW q \in Nat, NEW len \in Nat \ {0}, 8 * q + len <= Sources(s),
         8 * q + len < Sources(s) => len = TileBytes
  PROVE  LET i == Piece(s, here, 8 * q, len)
         IN /\ i.win = 15 * (SlabGroups * s) + 15 * q /\ i.size \in Nat /\ len <= i.size
            /\ 8 * q + len < Sources(s) => i.size = 15 * TileGroups
            /\ 8 * q + len = Sources(s) /\ s < NumSlabs - 1 =>
                 15 * q + i.size = 15 * SlabGroups
            /\ 8 * q + len = Sources(s) /\ s = NumSlabs - 1 =>
                 i.win + i.size = MapBytes
<1> DEFINE i == Piece(s, here, 8 * q, len)
           p == SlabGroups * s
           g == SlabGroups
           v == Smaller(30 * (8 * q + len), Values(s)) - 30 * (8 * q)
           S == Sources(s)
<1>1. /\ p \in Nat /\ g \in Nat /\ TileGroups \in Nat /\ TileBytes = 8 * TileGroups
      /\ MapBytes \in Nat /\ InternalBytes \in Nat /\ s \in Nat /\ NumSlabs \in Nat
      /\ s <= NumSlabs - 1
  BY SlabPlace, WholeGroups, Counts
<1>2. /\ s < NumSlabs - 1 => S = 8 * g /\ Values(s) = 240 * g
      /\ s = NumSlabs - 1 => /\ S = InternalBytes - 8 * p
                             /\ Values(s) = 16 * MapBytes - 240 * p
      /\ S \in Nat
  <2>1. Offset(s) = 8 * p
    BY SlabPlace
  <2> HIDE DEF p
  <2>2. Offset(s) = 8 * p => 30 * Offset(s) = 240 * p
    BY <1>1
  <2>3. /\ s < NumSlabs - 1 => S = 8 * g /\ Values(s) = 240 * g
        /\ s = NumSlabs - 1 => /\ S = InternalBytes - Offset(s)
                               /\ Values(s) = 16 * MapBytes - 30 * Offset(s)
        /\ S \in Nat
    BY SlabPlace
  <2>4. QED BY <2>1, <2>2, <2>3
<1>3. i.win = 15 * p + 15 * q /\ i.size = (v + 15) \div 16
  <2>1. Base(s) = 15 * p
    BY SlabPlace
  <2>2. (8 * q) \div 8 = q
    OBVIOUS
  <2>3. i.size = CeilDiv(v, 16)
    BY DEF Piece, Item
  <2>4. i.win = Base(s) + ((8 * q) \div 8) * 15
    BY DEF Piece, Item
  <2> HIDE DEF p, v, i
  <2>5. v \in Int => CeilDiv(v, 16) = (v + 15) \div 16
    BY DEF CeilDiv
  <2>6. v \in Int
    <3>1. Values(s) \in Int
      BY <1>1, <1>2
    <3>2. QED BY <3>1 DEF v, Smaller
  <2>7. QED BY <1>1, <2>1, <2>2, <2>3, <2>4, <2>5, <2>6
<1>4. 30 * InternalBytes - 30 < 16 * MapBytes /\ 16 * MapBytes <= 30 * InternalBytes
  BY Counts
<1> HIDE DEF p, i, g, S
<1>5. CASE 8 * q + len < S \/ s < NumSlabs - 1
  <2>1. v = 30 * len
    <3>1. 30 * (8 * q + len) <= Values(s)
      <4>1. CASE s < NumSlabs - 1
        BY <1>1, <1>2, <4>1 DEF S
      <4>2. CASE s = NumSlabs - 1 /\ 8 * q + len < S
        <5>1. 8 * q + len <= InternalBytes - 8 * p - 1
          BY <1>1, <1>2, <4>2
        <5>2. 240 * q + 30 * len <= 30 * InternalBytes - 240 * p - 30
          BY <1>1, <5>1
        <5>3. 240 * q + 30 * len <= 16 * MapBytes - 240 * p
          BY <1>1, <1>4, <5>2
        <5>4. QED BY <1>1, <1>2, <4>2, <5>3
      <4>3. QED BY <1>1, <1>5, <4>1, <4>2
    <3>2. QED BY <3>1 DEF Smaller
  <2>2. \E k \in Nat : len = 8 * k /\ (8 * q + len < S => k = TileGroups)
                       /\ (8 * q + len = S => q + k = g)
    <3>1. CASE 8 * q + len < S
      BY <1>1, <3>1 DEF S
    <3>2. CASE 8 * q + len = S /\ s < NumSlabs - 1
      <4>1. len = 8 * (g - q)
        BY <1>1, <1>2, <3>2
      <4>2. g - q \in Nat
        BY <1>1, <4>1
      <4>3. QED BY <1>1, <3>2, <4>1, <4>2
    <3>3. QED BY <1>2, <1>5, <3>1, <3>2 DEF S
  <2>3. PICK k \in Nat : len = 8 * k /\ (8 * q + len < S => k = TileGroups)
                         /\ (8 * q + len = S => q + k = g)
    BY <2>2
  <2> HIDE DEF v
  <2>4. i.size = 15 * k
    <3>1. v + 15 = 16 * (15 * k) + 15
      BY <2>1, <2>3
    <3>2. (16 * (15 * k) + 15) \div 16 = 15 * k
      OBVIOUS
    <3>3. QED BY <1>3, <3>1, <3>2
  <2>5. QED BY <1>1, <1>3, <1>5, <2>3, <2>4 DEF S, i, p, g
<1>6. CASE 8 * q + len = S /\ s = NumSlabs - 1
  <2>1. 8 * q + len = InternalBytes - 8 * p
    BY <1>2, <1>6
  <2>2. v = 16 * MapBytes - 240 * p - 240 * q
    <3>1. Values(s) <= 30 * (8 * q + len)
      BY <1>1, <1>2, <1>4, <1>6, <2>1
    <3>2. v = Values(s) - 240 * q
      BY <1>1, <1>2, <1>6, <3>1 DEF Smaller
    <3>3. QED BY <1>1, <1>2, <1>6, <3>2
  <2> HIDE DEF v
  <2> DEFINE m == MapBytes - 15 * p - 15 * q
  <2>3. i.size = m
    <3>1. v + 15 = 16 * m + 15 /\ m \in Int
      BY <1>1, <2>2
    <3> HIDE DEF m
    <3>2. (16 * m + 15) \div 16 = m
      BY <3>1
    <3>3. QED BY <1>3, <3>1, <3>2
  <2>4. m >= len
    <3>1. 30 * (8 * p + 8 * q + len) - 30 < 16 * MapBytes
      BY <1>1, <1>4, <2>1
    <3>2. QED BY <1>1, <3>1
  <2>5. m \in Nat /\ 15 * p + 15 * q + m = MapBytes
    BY <1>1, <2>4
  <2> HIDE DEF m
  <2>6. QED BY <1>1, <1>3, <1>6, <2>3, <2>4, <2>5 DEF S, i, p, g
<1>7. QED BY <1>1, <1>2, <1>5, <1>6 DEF S

\* What an item must be: its sources are those of its slab, at the start of its
\* window if it is widened in place, and its window holds what they become.
Shape(i) ==
  /\ i.region \in 0 .. NumSlabs - 1 /\ i.inPlace \in BOOLEAN
  /\ i.src \in Nat /\ i.len \in Nat \ {0} /\ i.win \in Nat /\ i.size \in Nat
  /\ i.src + i.len <= Sources(i.region)
  /\ i.inPlace => i.src = 0 /\ i.win = Base(i.region)
  /\ i.len <= i.size /\ i.win + i.size <= MapBytes
  /\ MapBytes % 15 # 14 =>
       /\ 15 * Groups(i) <= i.size
       /\ ~HasTail(i) => i.size = 15 * Groups(i)

LEMMA PieceIsShaped ==
  ASSUME NEW s \in 0 .. NumSlabs - 1, NEW here \in BOOLEAN,
         NEW q \in Nat, NEW len \in Nat \ {0}, 8 * q + len <= Sources(s),
         8 * q + len < Sources(s) => len = TileBytes, here => q = 0
  PROVE  Shape(Piece(s, here, 8 * q, len))
<1> DEFINE i == Piece(s, here, 8 * q, len)
           p == SlabGroups * s
           g == SlabGroups
           S == Sources(s)
<1>1. /\ p \in Nat /\ g \in Nat /\ TileGroups \in Nat /\ TileBytes = 8 * TileGroups
      /\ MapBytes \in Nat /\ InternalBytes \in Nat /\ s \in Nat /\ NumSlabs \in Nat
      /\ s <= NumSlabs - 1 /\ S \in Nat
  BY SlabPlace, WholeGroups, Counts
<1>2. /\ i.region = s /\ i.inPlace = here /\ i.src = 8 * q /\ i.len = len
      /\ Groups(i) = len \div 8 /\ HasTail(i) = (len % 8 # 0)
  BY DEF Piece, Item, Groups, HasTail
<1>3. /\ i.win = 15 * p + 15 * q /\ i.size \in Nat /\ len <= i.size
      /\ 8 * q + len < S => i.size = 15 * TileGroups
      /\ 8 * q + len = S /\ s < NumSlabs - 1 => 15 * q + i.size = 15 * g
      /\ 8 * q + len = S /\ s = NumSlabs - 1 => i.win + i.size = MapBytes
  BY PieceShape
<1>4. /\ Base(s) = 15 * p /\ Offset(s) = 8 * p
      /\ s < NumSlabs - 1 => S = 8 * g /\ 15 * p + 15 * g < MapBytes
      /\ s = NumSlabs - 1 => S = InternalBytes - Offset(s)
  BY SlabPlace
<1>5. 30 * InternalBytes - 30 < 16 * MapBytes /\ 16 * MapBytes <= 30 * InternalBytes
  BY Counts
<1> DEFINE G == len \div 8
           r == len % 8
<1>6. G \in Nat /\ r \in 0 .. 7 /\ len = 8 * G + r
  OBVIOUS
<1> HIDE DEF p, i, g, S, G, r
<1>7. s = NumSlabs - 1 => S = InternalBytes - 8 * p
  BY <1>4
<1>8. i.win + i.size <= MapBytes
  <2>1. CASE s < NumSlabs - 1
    <3>1. i.size <= 15 * g - 15 * q
      BY <1>1, <1>3, <1>4, <2>1 DEF S
    <3>2. QED BY <1>1, <1>3, <1>4, <2>1, <3>1
  <2>2. CASE s = NumSlabs - 1 /\ 8 * q + len < S
    <3>1. 8 * q + 8 * TileGroups + 8 * p <= InternalBytes - 1
      BY <1>1, <1>7, <2>2 DEF S
    <3>2. QED BY <1>1, <1>3, <1>5, <2>2, <3>1
  <2>3. CASE s = NumSlabs - 1 /\ 8 * q + len = S
    BY <1>1, <1>3, <2>3
  <2>4. QED BY <1>1, <2>1, <2>2, <2>3 DEF S
<1>9. ASSUME MapBytes % 15 # 14
      PROVE  15 * G <= i.size /\ (r = 0 => i.size = 15 * G)
  <2>1. CASE 8 * q + len < S
    <3>1. len = 8 * TileGroups
      BY <1>1, <2>1 DEF S
    <3>2. G = TileGroups
      BY <1>1, <1>6, <3>1
    <3>3. QED BY <1>1, <1>3, <2>1, <3>2
  <2>2. CASE 8 * q + len = S /\ s < NumSlabs - 1
    <3>1. 8 * q + 8 * G + r = 8 * g
      BY <1>4, <1>6, <2>2
    <3>2. q + G = g
      BY <1>1, <1>6, <3>1
    <3>3. QED BY <1>1, <1>3, <1>6, <2>2, <3>2
  <2>3. CASE 8 * q + len = S /\ s = NumSlabs - 1
    <3>1. 8 * q + 8 * G + r + 8 * p = InternalBytes
      BY <1>1, <1>6, <1>7, <2>3
    <3> DEFINE a == p + q + G
    <3>2. a \in Nat /\ 8 * a + r = InternalBytes
      BY <1>1, <1>6, <3>1
    <3>3. MapBytes = 15 * p + 15 * q + i.size
      BY <1>3, <2>3
    <3> HIDE DEF a
    <3>4. 15 * a - 1 <= MapBytes /\ (r = 0 => MapBytes <= 15 * a)
          /\ (r > 0 => MapBytes >= 15 * a)
      BY <1>1, <1>5, <1>6, <3>2
    <3>5. MapBytes # 15 * a - 1
      <4> SUFFICES ASSUME MapBytes = 15 * (a - 1) + 14 PROVE FALSE
        BY <3>2
      <4>1. (15 * (a - 1) + 14) % 15 = 14
        BY <3>2
      <4>2. QED BY <1>9, <4>1
    <3>6. MapBytes >= 15 * a /\ (r = 0 => MapBytes = 15 * a)
      BY <1>1, <1>6, <3>2, <3>4, <3>5
    <3>7. QED BY <1>1, <1>3, <1>6, <3>3, <3>6 DEF a
  <2>4. QED BY <1>1, <2>1, <2>2, <2>3 DEF S
<1>10. here => i.win = Base(s)
  BY <1>1, <1>3, <1>4
<1>11. i.win \in Nat /\ i.src \in Nat
  BY <1>1, <1>2, <1>3
<1>12. MapBytes % 15 # 14 =>
        15 * Groups(i) <= i.size /\ (~HasTail(i) => i.size = 15 * Groups(i))
  BY <1>2, <1>9 DEF G, r
<1>13. Shape(i)
  BY <1>1, <1>2, <1>3, <1>8, <1>10, <1>11, <1>12 DEF Shape, S
<1>14. QED BY <1>13 DEF i

\* The t-th tile of slab s, or the whole slab if it is no larger than a tile.
TileOf(s, t) ==
  Piece(s, Sources(s) <= TileBytes, 8 * (TileGroups * t),
        Smaller(TileBytes, Sources(s) - TileBytes * t))

\* Tile t of slab s is the item after those of the slabs before it and the tiles
\* before it.
Position(s, t) == Tiles(SlabBytes) * s + t + 1

LEMMA WholeIsPiece ==
  ASSUME NEW s \in 0 .. NumSlabs - 1
  PROVE  Whole(s) = Piece(s, TRUE, 0, Sources(s))
<1>1. Values(s) <= 30 * Sources(s) /\ Values(s) \in Int /\ Sources(s) \in Int
  <2>1. /\ 30 * InternalBytes - 30 < 16 * MapBytes /\ 16 * MapBytes <= 30 * InternalBytes
        /\ InternalBytes \in Nat /\ MapBytes \in Nat /\ SlabGroups \in Nat
        /\ s \in Nat /\ NumSlabs \in Nat
    BY Counts, WholeGroups
  <2>2. /\ Offset(s) \in Int
        /\ s < NumSlabs - 1 => Sources(s) = 8 * SlabGroups /\ Values(s) = 240 * SlabGroups
        /\ s = NumSlabs - 1 => /\ Sources(s) = InternalBytes - Offset(s)
                               /\ Values(s) = 16 * MapBytes - 30 * Offset(s)
    BY SlabPlace
  <2>3. QED BY <2>1, <2>2
<1>2. Smaller(30 * (0 + Sources(s)), Values(s)) - 30 * 0 = Values(s)
  BY <1>1 DEF Smaller
<1>3. QED BY <1>2 DEF Whole, Piece

LEMMA TileCounts ==
  /\ Tiles(SlabBytes) \in Nat \ {0}
  /\ \A s \in 0 .. NumSlabs - 1 :
       /\ Tiles(Sources(s)) \in Nat \ {0} /\ Tiles(Sources(s)) <= Tiles(SlabBytes)
       /\ s < NumSlabs - 1 => Tiles(Sources(s)) = Tiles(SlabBytes)
       /\ \A t \in Nat : t < Tiles(Sources(s)) <=> TileBytes * t < Sources(s)
<1>1. /\ TileBytes \in Nat /\ TileBytes > 0 /\ SlabBytes \in Nat /\ SlabBytes > 0
      /\ SlabBytes = 8 * SlabGroups
  BY SizesAssumption, WholeGroups
<1>2. ASSUME NEW x \in Nat, x > 0
      PROVE  Tiles(x) \in Nat \ {0} /\ \A t \in Nat : t < Tiles(x) <=> TileBytes * t < x
  <2> DEFINE c == CeilDiv(x, TileBytes)
  <2>1. c \in Nat /\ TileBytes * c - TileBytes < x /\ x <= TileBytes * c
    BY <1>1, CeilBounds
  <2> HIDE DEF c
  <2>2. c # 0
    BY <1>1, <1>2, <2>1
  <2>3. ASSUME NEW t \in Nat PROVE t < c <=> TileBytes * t < x
    <3>1. CASE t < c
      <4>1. c - 1 - t \in Nat
        BY <2>1, <3>1
      <4>2. TileBytes * (c - 1 - t) \in Nat
        BY <1>1, <4>1
      <4>3. TileBytes * (c - 1 - t) = TileBytes * c - TileBytes - TileBytes * t
        BY <1>1, <2>1
      <4>4. TileBytes * c \in Int /\ TileBytes * t \in Int
        BY <1>1, <2>1
      <4>5. QED BY <1>1, <1>2, <2>1, <3>1, <4>2, <4>3, <4>4
    <3>2. CASE c <= t
      <4>1. t - c \in Nat
        BY <2>1, <3>2
      <4>2. TileBytes * (t - c) \in Nat
        BY <1>1, <4>1
      <4>3. TileBytes * (t - c) = TileBytes * t - TileBytes * c
        BY <1>1, <2>1
      <4>4. TileBytes * c \in Int /\ TileBytes * t \in Int
        BY <1>1, <2>1
      <4>5. QED BY <1>1, <1>2, <2>1, <3>2, <4>2, <4>3, <4>4
    <3>3. QED BY <2>1, <3>1, <3>2
  <2>4. Tiles(x) = c
    BY DEF Tiles, c
  <2>5. QED BY <2>1, <2>2, <2>3, <2>4
<1>3. Tiles(SlabBytes) \in Nat \ {0}
  BY <1>1, <1>2
<1>4. ASSUME NEW s \in 0 .. NumSlabs - 1
      PROVE  /\ Tiles(Sources(s)) \in Nat \ {0} /\ Tiles(Sources(s)) <= Tiles(SlabBytes)
             /\ s < NumSlabs - 1 => Tiles(Sources(s)) = Tiles(SlabBytes)
             /\ \A t \in Nat : t < Tiles(Sources(s)) <=> TileBytes * t < Sources(s)
  <2>1. /\ Sources(s) \in Nat /\ Sources(s) > 0 /\ Sources(s) <= SlabBytes
        /\ s < NumSlabs - 1 => Sources(s) = SlabBytes
    BY <1>1, SlabPlace
  <2>2. /\ Tiles(Sources(s)) \in Nat \ {0}
        /\ \A t \in Nat : t < Tiles(Sources(s)) <=> TileBytes * t < Sources(s)
    BY <1>2, <2>1
  <2>3. Tiles(Sources(s)) <= Tiles(SlabBytes)
    <3> DEFINE c == Tiles(SlabBytes)
    <3>1. c \in Nat /\ ~(c < c)
      BY <1>3
    <3>2. ~(TileBytes * c < SlabBytes)
      BY <1>1, <1>2, <3>1
    <3>3. TileBytes * c \in Int
      BY <1>1, <3>1
    <3>4. ~(TileBytes * c < Sources(s))
      BY <1>1, <2>1, <3>2, <3>3
    <3>5. ~(c < Tiles(Sources(s)))
      BY <2>2, <3>1, <3>4
    <3>6. QED BY <2>2, <3>1, <3>5
  <2>4. QED BY <2>1, <2>2, <2>3
<1>5. QED BY <1>3, <1>4

\* Every item is a tile of a slab, and every tile an item.
LEMMA ItemsAreTiles ==
  /\ Len(Items) \in Nat /\ DOMAIN Items = 1 .. Len(Items)
  /\ \A n \in 1 .. Len(Items) : \E s \in 0 .. NumSlabs - 1, t \in Nat :
       n = Position(s, t) /\ t < Tiles(Sources(s)) /\ Items[n] = TileOf(s, t)
  /\ \A s \in 0 .. NumSlabs - 1, t \in Nat : t < Tiles(Sources(s)) =>
       Position(s, t) \in 1 .. Len(Items) /\ Items[Position(s, t)] = TileOf(s, t)
<1> DEFINE P == Tiles(SlabBytes)
           last == NumSlabs - 1
           Q == Tiles(Sources(last))
           L == last * P + Q
<1>1. /\ P \in Nat \ {0} /\ last \in Nat /\ last \in 0 .. NumSlabs - 1 /\ NumSlabs \in Nat
      /\ Q \in Nat \ {0} /\ Q <= P
  BY Counts, TileCounts
<1>2. P * last \in Nat /\ L = P * last + Q /\ L \in Nat
  BY <1>1
<1>3. /\ Len(Items) = L /\ DOMAIN Items = 1 .. L
      /\ \A n \in 1 .. L : LET s == (n - 1) \div P IN
           Items[n] = IF Sources(s) <= TileBytes THEN Whole(s) ELSE Tile(s, (n - 1) % P)
  <2>1. Items = [n \in 1 .. L |->
           LET s == (n - 1) \div P
           IN IF Sources(s) <= TileBytes THEN Whole(s) ELSE Tile(s, (n - 1) % P)]
    BY DEF Items
  <2> HIDE DEF L, P
  <2>2. QED BY <1>2, <2>1
<1>4. ASSUME NEW s \in 0 .. NumSlabs - 1, NEW t \in Nat, t < Tiles(Sources(s))
      PROVE  (IF Sources(s) <= TileBytes THEN Whole(s) ELSE Tile(s, t)) = TileOf(s, t)
  <2>1. /\ Sources(s) \in Nat /\ TileBytes \in Nat \ {0} /\ TileGroups \in Nat
        /\ TileBytes = 8 * TileGroups /\ TileBytes * t < Sources(s)
    BY WholeGroups, SlabPlace, TileCounts, <1>4
  <2>2. CASE Sources(s) <= TileBytes
    <3>1. t = 0
      <4> SUFFICES ASSUME t > 0 PROVE FALSE
        OBVIOUS
      <4>1. t - 1 \in Nat
        OBVIOUS
      <4>2. TileBytes * (t - 1) \in Nat
        BY <2>1, <4>1
      <4>3. TileBytes * (t - 1) = TileBytes * t - TileBytes
        BY <2>1
      <4>4. TileBytes * t \in Int
        BY <2>1
      <4>5. QED BY <2>1, <2>2, <4>2, <4>3, <4>4
    <3>2. 8 * (TileGroups * t) = 0 /\ Smaller(TileBytes, Sources(s) - TileBytes * t) = Sources(s)
      BY <2>1, <2>2, <3>1 DEF Smaller
    <3>3. TileOf(s, t) = Piece(s, TRUE, 0, Sources(s))
      BY <2>2, <3>2 DEF TileOf
    <3>4. QED BY <2>2, <3>3, WholeIsPiece
  <2>3. CASE ~(Sources(s) <= TileBytes)
    <3>1. t * TileBytes = 8 * (TileGroups * t) /\ t * TileBytes = TileBytes * t
      BY <2>1
    <3>2. (Sources(s) <= TileBytes) = FALSE
      BY <2>3
    <3>3. QED BY <2>3, <3>1, <3>2 DEF TileOf, Piece, Tile
  <2>4. QED BY <2>2, <2>3
<1>5. ASSUME NEW n \in 1 .. L
      PROVE  \E s \in 0 .. NumSlabs - 1, t \in Nat :
               n = Position(s, t) /\ t < Tiles(Sources(s)) /\ Items[n] = TileOf(s, t)
  <2> DEFINE s == (n - 1) \div P
             t == (n - 1) % P
  <2>1. s \in Nat /\ t \in Nat /\ t < P /\ n - 1 = P * s + t
    <3>1. n - 1 \in Int /\ n - 1 >= 0
      BY <1>2
    <3>2. s \in Int /\ P * s <= n - 1 /\ n - 1 < P * s + P
      BY <1>1, <3>1, DivBounds
    <3>3. t \in Nat /\ t < P /\ n - 1 = P * s + t
      BY <1>1, <3>1
    <3>4. s >= 0
      <4> SUFFICES ASSUME s < 0 PROVE FALSE
        BY <3>2
      <4> HIDE DEF s, t
      <4>1. -1 - s \in Nat
        BY <3>2
      <4>2. P * (-1 - s) \in Nat
        BY <1>1, <4>1
      <4>3. P * (-1 - s) = -P - P * s
        BY <1>1, <3>2
      <4>4. P * s \in Int
        BY <1>1, <3>2
      <4>5. QED BY <1>1, <3>1, <3>2, <4>2, <4>3, <4>4
    <3>5. QED BY <3>2, <3>3, <3>4
  <2>2. Items[n] = IF Sources(s) <= TileBytes THEN Whole(s) ELSE Tile(s, t)
    BY <1>3
  <2> HIDE DEF s, t, L
  <2>3. s <= last
    <3>1. P * s < P * (last + 1)
      <4>1. n <= P * last + Q
        BY <1>2
      <4>2. P * s \in Int /\ P * last \in Int
        BY <1>1, <2>1
      <4>3. P * s < P * last + P
        BY <1>1, <2>1, <4>1, <4>2
      <4>4. P * (last + 1) = P * last + P
        BY <1>1
      <4>5. QED BY <4>3, <4>4
    <3>2. QED BY <1>1, <2>1, <3>1, FactorLess
  <2>4. s \in 0 .. NumSlabs - 1
    BY <1>1, <2>1, <2>3
  <2>5. t < Tiles(Sources(s))
    <3>1. CASE s < NumSlabs - 1
      BY <2>1, <2>4, <3>1, TileCounts
    <3>2. CASE s = last
      <4>1. n - 1 < P * last + Q
        BY <1>2
      <4>2. QED BY <1>1, <1>2, <2>1, <3>2, <4>1
    <3>3. QED BY <1>1, <2>1, <2>3, <3>1, <3>2
  <2>6. n = Position(s, t)
    BY <1>1, <2>1 DEF Position
  <2>7. QED BY <1>4, <2>1, <2>2, <2>4, <2>5, <2>6
<1>6. ASSUME NEW s \in 0 .. NumSlabs - 1, NEW t \in Nat, t < Tiles(Sources(s))
      PROVE  Position(s, t) \in 1 .. L /\ Items[Position(s, t)] = TileOf(s, t)
  <2> DEFINE n == Position(s, t)
  <2>1. s \in Nat /\ P * s \in Nat /\ n = P * s + t + 1 /\ t < P
    BY <1>1, <1>6, TileCounts DEF Position
  <2>2. n <= L
    <3>1. CASE s = last
      BY <1>1, <1>2, <1>6, <2>1, <3>1
    <3>2. CASE s < last
      <4>1. last - 1 - s \in Nat
        BY <1>1, <2>1, <3>2
      <4>2. P * (last - 1 - s) \in Nat
        BY <1>1, <4>1
      <4>3. P * (last - 1 - s) = P * last - P - P * s
        BY <1>1, <2>1
      <4> HIDE DEF L, n
      <4>4. QED BY <1>1, <1>2, <2>1, <4>2, <4>3
    <3>3. QED BY <1>1, <3>1, <3>2
  <2>3. (n - 1) \div P = s /\ (n - 1) % P = t
    <3>1. n - 1 = P * s + t
      BY <1>1, <2>1
    <3> HIDE DEF n, P
    <3>2. (n - 1) \div P = s
      BY <1>1, <2>1, <3>1, DivUnique
    <3>3. (n - 1) % P = n - 1 - P * ((n - 1) \div P)
      <4> DEFINE x == n - 1
      <4>1. x \in Int /\ x >= 0 /\ P \in Nat \ {0}
        BY <1>1, <2>1, <3>1
      <4> HIDE DEF x
      <4>2. x \div P \in Int /\ x % P \in Int
        BY <4>1
      <4>6. x = P * (x \div P) + (x % P)
        BY <4>1, DivMod
      <4>3. P * (x \div P) \in Int
        BY <4>1, <4>2
      <4>4. x % P = x - P * (x \div P)
        BY <4>1, <4>2, <4>3, <4>6
      <4>5. QED BY <4>4 DEF x
    <3>4. QED BY <1>1, <2>1, <3>1, <3>2, <3>3
  <2>4. n \in 1 .. L
    BY <1>2, <2>1, <2>2
  <2> HIDE DEF n, L
  <2>5. Items[n] = IF Sources(s) <= TileBytes THEN Whole(s) ELSE Tile(s, t)
    BY <1>3, <2>3, <2>4
  <2>6. QED BY <1>4, <1>6, <2>4, <2>5 DEF n
<1> HIDE DEF L
<1>7. QED BY <1>2, <1>3, <1>5, <1>6

\* A tile's window follows the windows of the tiles before it and ends where the
\* next one starts, or with the slab's, or with the map.
LEMMA TileShape ==
  ASSUME NEW s \in 0 .. NumSlabs - 1, NEW t \in Nat, t < Tiles(Sources(s))
  PROVE  LET i == TileOf(s, t)
             p == SlabGroups * s
             q == TileGroups * t
         IN /\ Shape(i) /\ q \in Nat /\ 8 * q < Sources(s)
            /\ i.win = 15 * p + 15 * q
            /\ 8 * q + TileBytes < Sources(s) => i.size = 15 * TileGroups
            /\ 8 * q + TileBytes >= Sources(s) =>
                 i.win + i.size = IF s < NumSlabs - 1 THEN 15 * p + 15 * SlabGroups
                                                      ELSE MapBytes
<1> DEFINE i == TileOf(s, t)
           q == TileGroups * t
           p == SlabGroups * s
           S == Sources(s)
           len == Smaller(TileBytes, S - TileBytes * t)
           here == S <= TileBytes
<1>1. /\ S \in Nat /\ TileBytes \in Nat \ {0} /\ TileGroups \in Nat \ {0} /\ SlabGroups \in Nat
      /\ TileBytes = 8 * TileGroups /\ TileBytes * t < S /\ MapBytes \in Nat
      /\ s \in Nat /\ NumSlabs \in Nat /\ s <= NumSlabs - 1 /\ p \in Nat
  BY WholeGroups, SlabPlace, TileCounts, Counts
<1>2. q \in Nat /\ TileBytes * t = 8 * q
  BY <1>1
<1>3. i = Piece(s, here, 8 * q, len)
  BY <1>2 DEF TileOf
<1> HIDE DEF q, p, S
<1>4. /\ len \in Nat \ {0} /\ 8 * q + len <= S /\ (8 * q + len < S => len = TileBytes)
      /\ (8 * q + TileBytes < S => 8 * q + len < S)
      /\ (8 * q + TileBytes >= S => 8 * q + len = S)
  BY <1>1, <1>2 DEF Smaller
<1>5. here => q = 0
  <2> SUFFICES ASSUME S <= TileBytes, t > 0 PROVE FALSE
    BY <1>1 DEF q
  <2>1. t - 1 \in Nat
    OBVIOUS
  <2>2. TileBytes * (t - 1) \in Nat
    BY <1>1, <2>1
  <2>3. TileBytes * (t - 1) = TileBytes * t - TileBytes
    BY <1>1
  <2>4. QED BY <1>1, <1>2, <2>2, <2>3
<1> HIDE DEF len, i
<1>6. here \in BOOLEAN
  OBVIOUS
<1> HIDE DEF here
<1>7. Shape(i)
  <2>1. 8 * q + len <= Sources(s) /\ (8 * q + len < Sources(s) => len = TileBytes)
    BY <1>4 DEF S
  <2>2. Shape(Piece(s, here, 8 * q, len))
    BY <1>2, <1>4, <1>5, <1>6, <2>1, PieceIsShaped
  <2>3. QED BY <1>3, <2>2
<1>8. /\ i.win = 15 * p + 15 * q /\ i.size \in Nat
      /\ 8 * q + len < S => i.size = 15 * TileGroups
      /\ 8 * q + len = S /\ s < NumSlabs - 1 => 15 * q + i.size = 15 * SlabGroups
      /\ 8 * q + len = S /\ s = NumSlabs - 1 => i.win + i.size = MapBytes
  <2>1. 8 * q + len <= Sources(s) /\ (8 * q + len < Sources(s) => len = TileBytes)
    BY <1>4 DEF S
  <2>2. QED BY <1>2, <1>3, <1>4, <1>6, <2>1, PieceShape DEF S, p
<1>9. 8 * q + TileBytes >= S =>
        i.win + i.size = IF s < NumSlabs - 1 THEN 15 * p + 15 * SlabGroups ELSE MapBytes
  BY <1>1, <1>2, <1>4, <1>8
<1>10. QED BY <1>1, <1>2, <1>4, <1>7, <1>8, <1>9 DEF i, q, p, S

\* A list of items cuts the map: every byte is in one window, and later items
\* have later windows.
Layout(L) ==
  /\ Len(L) \in Nat /\ DOMAIN L = 1 .. Len(L)
  /\ \A n \in 1 .. Len(L) : Shape(L[n])
  /\ \A n, m \in 1 .. Len(L) : n < m => L[n].win + L[n].size <= L[m].win
  /\ \A b \in Bytes : \E n \in 1 .. Len(L) : b \in Window(L[n])

\* Slabs follow one another.
LEMMA SlabsAscend ==
  ASSUME NEW r \in 0 .. NumSlabs - 1, NEW s \in 0 .. NumSlabs - 1, r < s
  PROVE  SlabGroups * r + SlabGroups <= SlabGroups * s
<1>1. r \in Nat /\ s \in Nat /\ SlabGroups \in Nat /\ s - r - 1 \in Nat
  BY WholeGroups, Counts
<1>2. SlabGroups * (s - r - 1) \in Nat
  BY <1>1
<1>3. SlabGroups * (s - r - 1) = SlabGroups * s - SlabGroups * r - SlabGroups
  BY <1>1
<1>4. SlabGroups * s \in Int /\ SlabGroups * r \in Int
  BY <1>1
<1>5. QED BY <1>1, <1>2, <1>3, <1>4

\* The slab a byte of the map is in.
LEMMA SlabOfByte ==
  ASSUME NEW b \in Bytes
  PROVE  \E s \in 0 .. NumSlabs - 1 :
           /\ 15 * (SlabGroups * s) <= b
           /\ s < NumSlabs - 1 => b < 15 * (SlabGroups * s) + 15 * SlabGroups
<1> DEFINE g == SlabGroups
           d == 15 * g
           s == b \div d
<1>1. /\ b \in Nat /\ b <= MapBytes - 1 /\ MapBytes \in Nat /\ g \in Nat \ {0}
      /\ NumSlabs \in Nat \ {0} /\ InternalBytes \in Nat
      /\ 16 * MapBytes <= 30 * InternalBytes /\ InternalBytes <= 8 * (g * NumSlabs)
  BY WholeGroups, Counts DEF Bytes
<1>2. d \in Nat /\ d > 0
  BY <1>1
<1>3. s \in Int /\ d * s <= b /\ b < d * s + d
  BY <1>1, <1>2, DivBounds
<1> HIDE DEF s
<1>4. d * s = 15 * (g * s) /\ g * s \in Int /\ g * NumSlabs \in Int
  BY <1>1, <1>3
<1>5. s >= 0
  <2> SUFFICES ASSUME s < 0 PROVE FALSE
    BY <1>3
  <2>1. -1 - s \in Nat
    BY <1>3
  <2>2. g * (-1 - s) \in Nat
    BY <1>1, <2>1
  <2>3. g * (-1 - s) = -g - g * s
    BY <1>1, <1>3
  <2>4. QED BY <1>1, <1>3, <1>4, <2>2, <2>3
<1>6. s < NumSlabs
  <2>1. 15 * (g * s) < 15 * (g * NumSlabs)
    BY <1>1, <1>3, <1>4
  <2>2. g * s < g * NumSlabs
    BY <1>4, <2>1
  <2>3. QED BY <1>1, <1>3, <2>2, FactorLess
<1>7. 15 * (g * s) <= b /\ b < 15 * (g * s) + 15 * g
  BY <1>3, <1>4
<1>8. s \in 0 .. NumSlabs - 1
  BY <1>1, <1>3, <1>5, <1>6
<1>9. 15 * (SlabGroups * s) <= b /\ (s < NumSlabs - 1 => b < 15 * (SlabGroups * s) + 15 * SlabGroups)
  BY <1>7
<1>10. QED BY <1>8, <1>9

LEMMA RegionsCut ==
  Layout(Regions) /\ \A n \in 1 .. Len(Regions) : Regions[n].inPlace
<1>1. Len(Regions) = NumSlabs /\ NumSlabs \in Nat /\ DOMAIN Regions = 1 .. NumSlabs
  BY Counts DEF Regions
<1>2. ASSUME NEW s \in 0 .. NumSlabs - 1
      PROVE  LET i == Whole(s) IN
             /\ i.inPlace /\ Shape(i) /\ i.size \in Nat
             /\ i.win = 15 * (SlabGroups * s) /\ SlabGroups * s \in Nat
             /\ s < NumSlabs - 1 => i.win + i.size = 15 * (SlabGroups * s) + 15 * SlabGroups
             /\ s = NumSlabs - 1 => i.win + i.size = MapBytes
  <2> DEFINE i == Piece(s, TRUE, 8 * 0, Sources(s))
  <2>1. /\ Sources(s) \in Nat \ {0} /\ SlabGroups * s \in Nat /\ SlabGroups \in Nat
    BY SlabPlace, WholeGroups
  <2>2. 0 \in Nat /\ TRUE \in BOOLEAN /\ 8 * 0 + Sources(s) = Sources(s) /\ 8 * 0 = 0
    BY <2>1
  <2>3. ~(8 * 0 + Sources(s) < Sources(s)) /\ 8 * 0 + Sources(s) <= Sources(s)
    BY <2>1, <2>2
  <2>4. Shape(i)
    BY <2>1, <2>2, <2>3, PieceIsShaped
  <2>5. /\ i.win = 15 * (SlabGroups * s) + 15 * 0 /\ i.size \in Nat
        /\ 8 * 0 + Sources(s) = Sources(s) /\ s < NumSlabs - 1 => 15 * 0 + i.size = 15 * SlabGroups
        /\ 8 * 0 + Sources(s) = Sources(s) /\ s = NumSlabs - 1 => i.win + i.size = MapBytes
    BY <2>1, <2>2, <2>3, PieceShape
  <2>6. i = Whole(s)
    BY <2>2, WholeIsPiece
  <2>7. i.inPlace
    BY DEF Piece, Item
  <2> HIDE DEF i
  <2>8. QED BY <2>1, <2>2, <2>4, <2>5, <2>6, <2>7
<1>3. \A n \in 1 .. NumSlabs : Regions[n] = Whole(n - 1) /\ n - 1 \in 0 .. NumSlabs - 1
  BY <1>1 DEF Regions
<1>4. ASSUME NEW n \in 1 .. NumSlabs, NEW m \in 1 .. NumSlabs, n < m
      PROVE  Regions[n].win + Regions[n].size <= Regions[m].win
  <2>1. SlabGroups * (n - 1) + SlabGroups <= SlabGroups * (m - 1)
    BY <1>1, <1>3, <1>4, SlabsAscend
  <2>2. n - 1 < NumSlabs - 1
    BY <1>1, <1>4
  <2>3. /\ Regions[n].win + Regions[n].size = 15 * (SlabGroups * (n - 1)) + 15 * SlabGroups
        /\ Regions[m].win = 15 * (SlabGroups * (m - 1))
    BY <1>2, <1>3, <2>2
  <2>4. SlabGroups * (n - 1) \in Nat /\ SlabGroups * (m - 1) \in Nat /\ SlabGroups \in Nat
    BY <1>2, <1>3, WholeGroups
  <2>5. QED BY <2>1, <2>3, <2>4
<1>5. ASSUME NEW b \in Bytes PROVE \E n \in 1 .. NumSlabs : b \in Window(Regions[n])
  <2>1. PICK s \in 0 .. NumSlabs - 1 :
          /\ 15 * (SlabGroups * s) <= b
          /\ s < NumSlabs - 1 => b < 15 * (SlabGroups * s) + 15 * SlabGroups
    BY SlabOfByte
  <2>2. s + 1 \in 1 .. NumSlabs /\ Regions[s + 1] = Whole(s)
    BY <1>1, <1>3
  <2>3. b \in Nat /\ b < MapBytes /\ MapBytes \in Nat
    BY WholeGroups DEF Bytes
  <2>4. Whole(s).win <= b /\ b < Whole(s).win + Whole(s).size
    BY <1>1, <1>2, <2>1, <2>3
  <2>5. Whole(s).win \in Nat /\ Whole(s).size \in Nat
    BY <1>2
  <2>6. b \in Window(Whole(s))
    BY <2>3, <2>4, <2>5 DEF Window
  <2>7. QED BY <2>2, <2>6
<1>6. QED BY <1>1, <1>2, <1>3, <1>4, <1>5 DEF Layout

LEMMA ItemsCut ==
  Layout(Items)
<1>1. /\ Len(Items) \in Nat /\ DOMAIN Items = 1 .. Len(Items)
      /\ \A n \in 1 .. Len(Items) : \E s \in 0 .. NumSlabs - 1, t \in Nat :
           n = Position(s, t) /\ t < Tiles(Sources(s)) /\ Items[n] = TileOf(s, t)
      /\ \A s \in 0 .. NumSlabs - 1, t \in Nat : t < Tiles(Sources(s)) =>
           Position(s, t) \in 1 .. Len(Items) /\ Items[Position(s, t)] = TileOf(s, t)
  BY ItemsAreTiles
<1>2. \A n \in 1 .. Len(Items) : Shape(Items[n])
  BY <1>1, TileShape
<1>3. ASSUME NEW n \in 1 .. Len(Items), NEW m \in 1 .. Len(Items), n < m
      PROVE  Items[n].win + Items[n].size <= Items[m].win
  <2>1. PICK s \in 0 .. NumSlabs - 1, t \in Nat :
          n = Position(s, t) /\ t < Tiles(Sources(s)) /\ Items[n] = TileOf(s, t)
    BY <1>1
  <2>2. PICK r \in 0 .. NumSlabs - 1, u \in Nat :
          m = Position(r, u) /\ u < Tiles(Sources(r)) /\ Items[m] = TileOf(r, u)
    BY <1>1
  <2> DEFINE i == TileOf(s, t)
             k == TileOf(r, u)
             p == SlabGroups * s
             q == TileGroups * t
             v == TileGroups * u
             a == SlabGroups * r
  <2>3. /\ Shape(i) /\ q \in Nat /\ 8 * q < Sources(s) /\ i.win = 15 * p + 15 * q
        /\ 8 * q + TileBytes < Sources(s) => i.size = 15 * TileGroups
        /\ 8 * q + TileBytes >= Sources(s) =>
             i.win + i.size = IF s < NumSlabs - 1 THEN 15 * p + 15 * SlabGroups ELSE MapBytes
    BY <2>1, TileShape
  <2>4. Shape(k) /\ v \in Nat /\ 8 * v < Sources(r) /\ k.win = 15 * a + 15 * v
    BY <2>2, TileShape
  <2>5. /\ SlabGroups \in Nat \ {0} /\ TileGroups \in Nat \ {0} /\ TileBytes = 8 * TileGroups
        /\ p \in Nat /\ a \in Nat /\ Sources(s) \in Nat /\ Sources(s) <= 8 * SlabGroups
        /\ NumSlabs \in Nat /\ s \in Nat /\ r \in Nat /\ s <= NumSlabs - 1 /\ r <= NumSlabs - 1
    BY WholeGroups, SlabPlace, Counts
  <2> HIDE DEF i, k, p, q, v, a
  <2>6. s <= r
    <3> SUFFICES ASSUME r < s PROVE FALSE
      BY <2>5
    <3>1. Tiles(SlabBytes) * (s - r - 1) \in Nat
      <4>1. s - r - 1 \in Nat /\ Tiles(SlabBytes) \in Nat
        BY <2>5, TileCounts
      <4>2. QED BY <4>1
    <3>2. Tiles(SlabBytes) \in Nat /\ u < Tiles(SlabBytes)
      BY <2>2, TileCounts
    <3>3. Tiles(SlabBytes) * (s - r - 1)
            = Tiles(SlabBytes) * s - Tiles(SlabBytes) * r - Tiles(SlabBytes)
      BY <2>5, <3>2
    <3>4. Tiles(SlabBytes) * s \in Int /\ Tiles(SlabBytes) * r \in Int
      BY <2>5, <3>2
    <3> DEFINE P == Tiles(SlabBytes)
               X == P * s
               Y == P * r
    <3>5. n = X + t + 1 /\ m = Y + u + 1
      BY <2>1, <2>2 DEF Position
    <3>6. X - Y - P >= 0 /\ X \in Int /\ Y \in Int /\ P \in Nat /\ u < P
      BY <3>1, <3>2, <3>3, <3>4
    <3> HIDE DEF X, Y, P
    <3>7. m < n
      BY <3>5, <3>6
    <3>8. n \in Int /\ m \in Int
      BY <1>1
    <3>9. QED BY <1>3, <3>7, <3>8
  <2>7. CASE s < r
    <3>1. p + SlabGroups <= a
      BY <2>7, SlabsAscend DEF p, a
    <3>2. i.win + i.size <= 15 * p + 15 * SlabGroups
      <4>1. CASE 8 * q + TileBytes < Sources(s)
        BY <2>3, <2>5, <4>1
      <4>2. CASE ~(8 * q + TileBytes < Sources(s))
        <5>1. s < NumSlabs - 1
          BY <2>5, <2>7
        <5>2. 8 * q + TileBytes >= Sources(s)
          BY <2>3, <2>5, <4>2
        <5>3. QED BY <2>3, <2>5, <5>1, <5>2
      <4>3. QED BY <4>1, <4>2
    <3>3. i.win \in Nat /\ i.size \in Nat
      BY <2>3 DEF Shape
    <3>4. QED BY <2>1, <2>2, <2>4, <2>5, <3>1, <3>2, <3>3 DEF i, k
  <2>8. CASE s = r
    <3>1. t < u
      <4> DEFINE X == Tiles(SlabBytes) * s
      <4>1. n = X + t + 1 /\ m = X + u + 1
        BY <2>1, <2>2, <2>8 DEF Position
      <4>2. X \in Int
        BY <2>5, TileCounts
      <4> HIDE DEF X
      <4>3. QED BY <1>3, <4>1, <4>2
    <3>2. u - t - 1 \in Nat
      BY <3>1
    <3>3. TileGroups * (u - t - 1) \in Nat
      BY <2>5, <3>2
    <3>4. TileGroups * (u - t - 1) = TileGroups * u - TileGroups * t - TileGroups
      BY <2>5
    <3>5. q + TileGroups <= v
      BY <2>3, <2>4, <2>5, <3>3, <3>4 DEF q, v
    <3>6. 8 * q + TileBytes < Sources(s)
      BY <2>3, <2>4, <2>5, <2>8, <3>5
    <3>7. i.win = 15 * p + 15 * q /\ i.size = 15 * TileGroups /\ k.win = 15 * p + 15 * v
      BY <2>3, <2>4, <2>8, <3>6 DEF p, a
    <3>8. QED BY <2>1, <2>2, <2>3, <2>4, <2>5, <3>5, <3>7 DEF i, k
  <2>9. QED BY <2>5, <2>6, <2>7, <2>8
<1>4. ASSUME NEW b \in Bytes PROVE \E n \in 1 .. Len(Items) : b \in Window(Items[n])
  <2>1. PICK s \in 0 .. NumSlabs - 1 :
          /\ 15 * (SlabGroups * s) <= b
          /\ s < NumSlabs - 1 => b < 15 * (SlabGroups * s) + 15 * SlabGroups
    BY SlabOfByte
  <2> DEFINE p == SlabGroups * s
             T == TileGroups
             x == b - 15 * p
             t == x \div (15 * T)
             S == Sources(s)
             q == T * t
  <2>2. /\ SlabGroups \in Nat \ {0} /\ T \in Nat \ {0} /\ TileBytes = 8 * T
        /\ p \in Nat /\ S \in Nat /\ NumSlabs \in Nat /\ s \in Nat /\ s <= NumSlabs - 1
        /\ InternalBytes \in Nat /\ 16 * MapBytes <= 30 * InternalBytes
        /\ MapBytes \in Nat /\ b \in Nat /\ b < MapBytes
        /\ s < NumSlabs - 1 => S = 8 * SlabGroups
        /\ s = NumSlabs - 1 => S = InternalBytes - 8 * p
    BY WholeGroups, SlabPlace, Counts DEF Bytes
  <2>3. x \in Nat
    BY <2>1, <2>2
  <2> HIDE DEF x, p, S
  <2>4. 15 * T \in Nat /\ 15 * T > 0
    BY <2>2
  <2>5. t \in Int /\ (15 * T) * t <= x /\ x < (15 * T) * t + 15 * T
    BY <2>3, <2>4, DivBounds
  <2>6. t >= 0
    <3> SUFFICES ASSUME t < 0 PROVE FALSE
      BY <2>5
    <3> HIDE DEF t
    <3>1. -1 - t \in Nat
      BY <2>5
    <3>2. (15 * T) * (-1 - t) \in Nat
      BY <2>4, <3>1
    <3>3. (15 * T) * (-1 - t) = -(15 * T) - (15 * T) * t
      BY <2>4, <2>5
    <3>4. (15 * T) * t \in Int
      BY <2>4, <2>5
    <3>5. QED BY <2>3, <2>4, <2>5, <3>2, <3>3, <3>4
  <2> HIDE DEF t
  <2>7. q \in Nat /\ 15 * q <= x /\ x < 15 * q + 15 * T /\ TileBytes * t = 8 * q
    <3>1. (15 * T) * t = 15 * (T * t) /\ T * t \in Nat
      BY <2>2, <2>5, <2>6
    <3>2. QED BY <2>2, <2>5, <2>6, <3>1
  <2> HIDE DEF q, T
  <2>8. 8 * q < S
    <3>1. CASE s < NumSlabs - 1
      <4>1. x < 15 * SlabGroups
        BY <2>1, <2>2, <3>1 DEF x, p
      <4>2. QED BY <2>2, <2>3, <2>7, <3>1, <4>1
    <3>2. CASE s = NumSlabs - 1
      <4>1. 15 * p + 15 * q <= b
        BY <2>2, <2>3, <2>7 DEF x
      <4>2. QED BY <2>2, <2>7, <3>2, <4>1
    <3>3. QED BY <2>2, <3>1, <3>2
  <2>9. t \in Nat /\ t < Tiles(Sources(s))
    BY <2>5, <2>6, <2>7, <2>8, TileCounts DEF S
  <2>10. Position(s, t) \in 1 .. Len(Items) /\ Items[Position(s, t)] = TileOf(s, t)
    BY <1>1, <2>9
  <2> DEFINE i == TileOf(s, t)
  <2>11. /\ Shape(i) /\ i.win = 15 * p + 15 * q
         /\ 8 * q + TileBytes < S => i.size = 15 * T
         /\ 8 * q + TileBytes >= S =>
              i.win + i.size = IF s < NumSlabs - 1 THEN 15 * p + 15 * SlabGroups ELSE MapBytes
    BY <2>9, TileShape DEF p, q, S, T
  <2> HIDE DEF i
  <2>12. i.win <= b /\ b < i.win + i.size /\ i.win \in Nat /\ i.size \in Nat
    <3>1. i.win \in Nat /\ i.size \in Nat
      BY <2>11 DEF Shape
    <3>2. b = 15 * p + x
      BY <2>2, <2>3 DEF x
    <3>3. CASE 8 * q + TileBytes < S
      BY <2>2, <2>3, <2>7, <2>11, <3>1, <3>2, <3>3
    <3>4. CASE 8 * q + TileBytes >= S
      <4>1. s < NumSlabs - 1 => b < 15 * p + 15 * SlabGroups
        BY <2>1 DEF p
      <4>2. QED BY <2>2, <2>3, <2>7, <2>11, <3>1, <3>2, <3>4, <4>1
    <3>5. QED BY <2>2, <2>7, <3>3, <3>4
  <2>13. b \in Window(i)
    BY <2>2, <2>12 DEF Window
  <2>14. QED BY <2>10, <2>13 DEF i
<1>5. QED BY <1>1, <1>2, <1>3, <1>4 DEF Layout

-----------------------------------------------------------------------------
(* The inductive invariant *)

Typed ==
  /\ phase \in {"begin", "fill", "widen", "inPlace", "finish", "done"}
  /\ next \in Nat \ {0}
  /\ pc \in [Threads -> {"claim", "copy", "item", "tail", "head", "groups", "ended"}]
  /\ owned \in [Threads -> Seq(Nat)]
  /\ at \in [Threads -> Nat] /\ group \in [Threads -> Nat]
  /\ head \in [Threads -> BOOLEAN]
  /\ raw \subseteq Bytes /\ canon \subseteq Bytes

Busy == {"tail", "head", "groups"}

\* A thread that claims is on the last item of its list, and leaves when none is
\* left; in the second epoch it walks its list from the first item to the last.
Place(t) ==
  /\ phase = "begin" => owned[t] = << >> /\ at[t] = 0
  /\ phase \in {"begin", "finish", "done"} => pc[t] = "ended"
  /\ phase \in {"fill", "inPlace"} =>
       /\ at[t] = Len(owned[t])
       /\ pc[t] \in {"claim", "ended"} \union (IF phase = "fill" THEN {"copy"} ELSE Busy)
       /\ pc[t] \in {"copy"} \union Busy => at[t] > 0
       /\ pc[t] = "ended" => next > Len(List)
  /\ phase = "widen" =>
       /\ at[t] \in 1 .. Len(owned[t]) + 1
       /\ pc[t] \in {"item", "ended"} \union Busy
       /\ pc[t] \in Busy => at[t] <= Len(owned[t])
       /\ pc[t] = "ended" => at[t] = Len(owned[t]) + 1
  /\ pc[t] = "groups" => group[t] <= Groups(Claimed(t))

\* Every item is on one list, once, from when it is claimed.
Claims ==
  /\ phase = "begin" => next = 1
  /\ phase \in {"fill", "widen", "inPlace"} =>
       /\ \A t \in Threads : \A k \in 1 .. Len(owned[t]) :
            owned[t][k] \in 1 .. Len(List) /\ (phase # "widen" => owned[t][k] < next)
       /\ \A t, u \in Threads : \A k \in 1 .. Len(owned[t]), l \in 1 .. Len(owned[u]) :
            owned[t][k] = owned[u][l] => t = u /\ k = l
       /\ \A n \in 1 .. Len(List) : phase = "widen" \/ n < next =>
            \E t \in Threads : \E k \in 1 .. Len(owned[t]) : owned[t][k] = n

Control == Typed /\ Claims /\ \A t \in Threads : Place(t)

\* What the sieve left, and an item's part of it, in the map and in the arena.
Deposit == UNION {Base(s) .. Base(s) + Sources(s) - 1 : s \in 0 .. NumSlabs - 1}
Slot(i) == Offset(i.region) + i.src .. Offset(i.region) + i.src + i.len - 1
Ready(i) ==
  IF i.inPlace THEN i.win .. i.win + i.len - 1 \subseteq raw ELSE Slot(i) \subseteq arena

TailDone(i) == i.win + 15 * Groups(i) .. i.win + i.size - 1 \subseteq canon

\* In place what is widened grows down from the end of the window, and the
\* sources below it are intact; from the arena it grows up.
GroupsDone(i, n) ==
  IF i.inPlace
  THEN /\ i.win .. i.win + 8 * (Groups(i) - n) - 1 \subseteq raw
       /\ i.win + 15 * (Groups(i) - n) .. i.win + 15 * Groups(i) - 1 \subseteq canon
  ELSE i.win .. i.win + 15 * n - 1 \subseteq canon

\* How far the k-th item on a thread's list is.
Progress(t, k) ==
  LET i == List[owned[t][k]] IN
  /\ k < at[t] \/ (k = at[t] /\ pc[t] \in {"claim", "ended"}) => Window(i) \subseteq canon
  /\ k > at[t] \/ (k = at[t] /\ pc[t] \in {"item", "tail"}) => Ready(i)
  /\ k = at[t] /\ pc[t] = "head" => TailDone(i) /\ GroupsDone(i, 0)
  /\ k = at[t] /\ pc[t] = "groups" =>
       TailDone(i) /\ GroupsDone(i, group[t]) /\ (i.inPlace => head[t])

Contents ==
  /\ phase \in {"begin", "fill"} => raw = Deposit
  /\ phase = "fill" =>
       \A t \in Threads : \A k \in 1 .. Len(owned[t]) :
         LET i == Items[owned[t][k]]
         IN ~i.inPlace /\ ~(k = at[t] /\ pc[t] = "copy") => Slot(i) \subseteq arena
  /\ phase = "widen" => \A n \in 1 .. Len(Items) : ~Items[n].inPlace => Slot(Items[n]) \subseteq arena
  /\ phase = "inPlace" => \A n \in 1 .. Len(Regions) : n >= next => Ready(Regions[n])
  /\ phase \in {"widen", "inPlace"} =>
       \A t \in Threads : \A k \in 1 .. Len(owned[t]) : Progress(t, k)
  /\ phase \in {"finish", "done"} => canon = Bytes
  /\ phase = "done" => structural

ExpansionInv == Control /\ Contents

-----------------------------------------------------------------------------
(* Who is on which item *)

LEMMA ListCut ==
  /\ Layout(List)
  /\ phase = "inPlace" => \A n \in 1 .. Len(List) : List[n].inPlace
  BY RegionsCut, ItemsCut DEF List

LEMMA GroupsOf ==
  ASSUME NEW i, Shape(i)
  PROVE  /\ Groups(i) \in Nat /\ 8 * Groups(i) <= i.len /\ i.len < 8 * Groups(i) + 8
         /\ HasTail(i) <=> 8 * Groups(i) < i.len
<1> DEFINE x == i.len
<1>1. x \in Nat
  BY DEF Shape
<1> HIDE DEF x
<1>2. x \div 8 \in Nat /\ 8 * (x \div 8) <= x /\ x < 8 * (x \div 8) + 8
      /\ (x % 8 # 0 <=> 8 * (x \div 8) < x)
  BY <1>1
<1>3. QED BY <1>2 DEF Groups, HasTail, x

\* The item a busy thread is on.
LEMMA ClaimedItem ==
  ASSUME Control, NEW t \in Threads, pc[t] \in {"copy"} \union Busy
  PROVE  /\ phase \in {"fill", "widen", "inPlace"}
         /\ at[t] \in 1 .. Len(owned[t]) /\ owned[t][at[t]] \in 1 .. Len(List)
         /\ Claimed(t) = List[owned[t][at[t]]] /\ Shape(Claimed(t))
<1>1. Typed /\ Place(t) /\ Claims
  BY DEF Control
<1>2. phase \in {"fill", "widen", "inPlace"}
  BY <1>1 DEF Typed, Place, Busy
<1>3. at[t] \in 1 .. Len(owned[t])
  <2>1. at[t] \in Nat /\ Len(owned[t]) \in Nat
    BY <1>1 DEF Typed
  <2>2. CASE phase \in {"fill", "inPlace"}
    BY <1>1, <2>1, <2>2 DEF Place
  <2>3. CASE phase = "widen"
    BY <1>1, <2>1, <2>3 DEF Place, Busy
  <2>4. QED BY <1>2, <2>2, <2>3
<1>4. owned[t][at[t]] \in 1 .. Len(List)
  BY <1>1, <1>2, <1>3 DEF Claims
<1>5. Shape(Claimed(t)) /\ Claimed(t) = List[owned[t][at[t]]]
  BY <1>4, ListCut DEF Layout, Claimed
<1>6. QED BY <1>2, <1>3, <1>4, <1>5

LEMMA InitControl ==
  Init => Control
<1> SUFFICES ASSUME Init PROVE Control
  OBVIOUS
<1>1. Typed
  <2>1. raw \subseteq Bytes
    <3> SUFFICES ASSUME NEW s \in 0 .. NumSlabs - 1, NEW b \in Base(s) .. Base(s) + Sources(s) - 1
                 PROVE  b \in Bytes
      BY DEF Init
    <3>1. s + 1 \in 1 .. NumSlabs /\ Regions[s + 1] = Whole(s) /\ Len(Regions) = NumSlabs
      BY Counts DEF Regions
    <3>2. Shape(Whole(s)) /\ Whole(s).inPlace
      BY <3>1, RegionsCut DEF Layout
    <3>3. Whole(s).region = s /\ Whole(s).len = Sources(s)
      BY DEF Whole, Item
    <3>4. Base(s) \in Nat /\ Base(s) + Sources(s) <= MapBytes /\ Sources(s) \in Nat
      BY <3>2, <3>3, WholeGroups DEF Shape
    <3>5. QED BY <3>4, WholeGroups DEF Bytes
  <2>2. QED BY <2>1 DEF Init, Typed
<1>2. Claims /\ \A t \in Threads : Place(t)
  BY DEF Init, Claims, Place
<1>3. QED BY <1>1, <1>2 DEF Control

\* The main thread starts an epoch when every list has been worked through.
LEMMA MainControl ==
  ASSUME Control, Main
  PROVE  Control'
<1> USE DEF Control
<1>1. CASE Begin
  <2>1. /\ phase = "begin" /\ phase' \in {"fill", "inPlace"} /\ next' = next /\ owned' = owned
        /\ at' = at /\ pc' = [t \in Threads |-> "claim"]
    BY <1>1 DEF Begin, Start, work
  <2>2. next = 1 /\ \A t \in Threads : owned[t] = << >> /\ at[t] = 0
    BY <2>1 DEF Claims, Place
  <2>3. Typed'
    BY <1>1, <2>1 DEF Typed, Begin, work, mapVars
  <2>4. Claims'
    BY <2>1, <2>2 DEF Claims
  <2>5. \A t \in Threads : Place(t)'
    BY <2>1, <2>2 DEF Place, Busy
  <2>6. QED BY <2>3, <2>4, <2>5
<1>2. CASE NextEpoch
  <2>1. /\ phase = "fill" /\ phase' = "widen" /\ next' = 1 /\ owned' = owned
        /\ at' = [t \in Threads |-> 1] /\ pc' = [t \in Threads |-> "item"]
        /\ \A t \in Threads : pc[t] = "ended"
    BY <1>2 DEF NextEpoch, Start, Joined
  <2>2. Typed'
    BY <1>2, <2>1 DEF Typed, NextEpoch, mapVars
  <2>3. next > Len(List) /\ next \in Nat /\ List' = List
    BY <2>1, ThreadsAssumption DEF Place, Typed, List
  <2>4. Claims'
    <3>1. \A n \in 1 .. Len(List) : n < next
      BY <2>3, ListCut DEF Layout
    <3>2. /\ \A t \in Threads : \A k \in 1 .. Len(owned[t]) : owned[t][k] \in 1 .. Len(List)
          /\ \A t, u \in Threads : \A k \in 1 .. Len(owned[t]), l \in 1 .. Len(owned[u]) :
               owned[t][k] = owned[u][l] => t = u /\ k = l
          /\ \A n \in 1 .. Len(List) :
               \E t \in Threads : \E k \in 1 .. Len(owned[t]) : owned[t][k] = n
      BY <2>1, <3>1 DEF Claims
    <3>3. QED BY <2>1, <2>3, <3>2 DEF Claims
  <2>5. \A t \in Threads : Place(t)'
    <3>1. \A t \in Threads : Len(owned[t]) \in Nat
      BY DEF Typed
    <3>2. QED BY <2>1, <3>1 DEF Place, Busy
  <2>6. QED BY <2>2, <2>4, <2>5
<1>3. CASE Join \/ Finish
  <2>1. /\ phase' \in {"finish", "done"} /\ UNCHANGED <<next, pc, owned, work>>
        /\ \A t \in Threads : pc[t] = "ended"
    BY <1>3 DEF Join, Finish, Joined, Place
  <2>2. Typed'
    BY <1>3, <2>1 DEF Typed, Join, Finish, work, mapVars
  <2>3. QED BY <2>1, <2>2 DEF Claims, Place
<1>4. QED BY <1>1, <1>2, <1>3 DEF Main

\* A thread that claims takes an item that is on no list.
LEMMA ClaimControl ==
  ASSUME Control, NEW t \in Threads, Claim(t)
  PROVE  Control'
<1> USE DEF Control
<1>1. /\ pc[t] = "claim" /\ next' = next + 1 /\ next \in Nat \ {0}
      /\ phase' = phase /\ group' = group /\ List' = List
      /\ \A u \in Threads \ {t} : pc'[u] = pc[u] /\ owned'[u] = owned[u] /\ at'[u] = at[u]
  BY DEF Claim, Goto, Typed, List
<1>2. phase \in {"fill", "inPlace"}
  BY <1>1 DEF Place, Busy, Typed
<1>3. /\ owned[t] \in Seq(Nat) /\ at[t] = Len(owned[t]) /\ Len(owned[t]) \in Nat
      /\ \A u \in Threads : owned[u] \in Seq(Nat) /\ Len(owned[u]) \in Nat
      /\ Len(List) \in Nat
  BY <1>2, ListCut DEF Place, Typed, Layout
<1>4. CASE next > Len(List)
  <2>1. owned' = owned /\ at' = at /\ pc' = [pc EXCEPT ![t] = "ended"]
    BY <1>4 DEF Claim, Goto
  <2>2. Typed'
    BY <1>1, <2>1 DEF Typed, Claim, mapVars
  <2>3. Claims'
    <3>1. \A n \in 1 .. Len(List) : n < next
      BY <1>1, <1>3, <1>4
    <3>2. \A u \in Threads : \A k \in 1 .. Len(owned[u]) : owned[u][k] < next /\ owned[u][k] \in Nat
      BY <1>2, <1>3 DEF Claims
    <3>3. \A u \in Threads : \A k \in 1 .. Len(owned[u]) : owned[u][k] < next'
      BY <1>1, <3>2
    <3>4. QED BY <1>1, <1>2, <2>1, <3>1, <3>3 DEF Claims
  <2>4. ASSUME NEW u \in Threads PROVE Place(u)'
    <3>1. next' > Len(List)
      BY <1>1, <1>3, <1>4
    <3>2. pc'[u] = IF u = t THEN "ended" ELSE pc[u]
      BY <2>1 DEF Typed
    <3>3. Claimed(u)' = Claimed(u)
      BY <1>1, <2>1 DEF Claimed
    <3>4. QED BY <1>1, <1>2, <1>3, <2>1, <3>1, <3>2, <3>3 DEF Place, Busy
  <2>5. QED BY <2>2, <2>3, <2>4
<1>5. CASE ~(next > Len(List))
  <2>1. /\ owned' = [owned EXCEPT ![t] = Append(@, next)] /\ at' = [at EXCEPT ![t] = @ + 1]
        /\ pc' = [pc EXCEPT ![t] = IF phase = "fill" THEN "copy" ELSE "tail"]
    BY <1>5 DEF Claim, Goto
  <2>2. next \in 1 .. Len(List)
    BY <1>1, <1>3, <1>5
  <2>3. /\ owned'[t] = Append(owned[t], next) /\ owned'[t] \in Seq(Nat)
        /\ Len(owned'[t]) = Len(owned[t]) + 1 /\ at'[t] = at[t] + 1
        /\ pc'[t] = IF phase = "fill" THEN "copy" ELSE "tail"
        /\ \A k \in 1 .. Len(owned[t]) : owned'[t][k] = owned[t][k]
        /\ owned'[t][Len(owned[t]) + 1] = next
    BY <1>1, <1>3, <2>1 DEF Typed
  <2>4. Typed'
    BY <1>1, <2>1, <2>3 DEF Typed, Claim, mapVars
  <2>5. ASSUME NEW u \in Threads, NEW k \in 1 .. Len(owned'[u])
        PROVE  \/ k \in 1 .. Len(owned[u]) /\ owned'[u][k] = owned[u][k]
               \/ u = t /\ k = Len(owned[t]) + 1 /\ owned'[u][k] = next
    <3>1. CASE u # t
      BY <1>1, <2>5, <3>1
    <3>2. CASE u = t
      <4>1. k \in 1 .. Len(owned[t]) + 1
        BY <2>3, <2>5, <3>2
      <4>2. k \in 1 .. Len(owned[t]) \/ k = Len(owned[t]) + 1
        BY <1>3, <4>1
      <4>3. QED BY <2>3, <3>2, <4>2
    <3>3. QED BY <3>1, <3>2
  <2>6. ASSUME NEW u \in Threads, NEW k \in 1 .. Len(owned[u])
        PROVE  /\ owned[u][k] \in 1 .. Len(List) /\ owned[u][k] < next
               /\ k \in 1 .. Len(owned'[u]) /\ owned'[u][k] = owned[u][k]
    <3>1. owned[u][k] \in 1 .. Len(List) /\ owned[u][k] < next
      BY <1>2 DEF Claims
    <3>2. CASE u # t
      <4>1. owned'[u] = owned[u]
        BY <1>1, <3>2
      <4>2. QED BY <3>1, <4>1
    <3>3. CASE u = t
      <4>1. k \in 1 .. Len(owned[t]) /\ k \in 1 .. Len(owned[t]) + 1
        BY <1>3, <3>3
      <4>2. k \in 1 .. Len(owned'[t]) /\ owned'[t][k] = owned[t][k]
        BY <2>3, <4>1
      <4>3. QED BY <3>1, <3>3, <4>2
    <3>4. QED BY <3>2, <3>3
  <2>7. Claims'
    <3>1. \A u \in Threads : \A k \in 1 .. Len(owned'[u]) :
            owned'[u][k] \in 1 .. Len(List) /\ owned'[u][k] < next'
      <4> TAKE u \in Threads
      <4> TAKE k \in 1 .. Len(owned'[u])
      <4>1. CASE k \in 1 .. Len(owned[u]) /\ owned'[u][k] = owned[u][k]
        <5>1. owned[u][k] \in 1 .. Len(List) /\ owned[u][k] < next
          BY <2>6, <4>1
        <5>2. QED BY <1>1, <1>3, <4>1, <5>1
      <4>2. CASE owned'[u][k] = next
        BY <1>1, <2>2, <4>2
      <4>3. QED BY <2>5, <4>1, <4>2
    <3>2. ASSUME NEW u \in Threads, NEW v \in Threads, NEW k \in 1 .. Len(owned'[u]),
                 NEW l \in 1 .. Len(owned'[v]), owned'[u][k] = owned'[v][l]
          PROVE  u = v /\ k = l
      <4>1. CASE k \in 1 .. Len(owned[u]) /\ l \in 1 .. Len(owned[v])
        BY <1>2, <2>6, <3>2, <4>1 DEF Claims
      <4>2. CASE ~(k \in 1 .. Len(owned[u]) /\ l \in 1 .. Len(owned[v]))
        <5>1. \A w \in Threads : \A j \in 1 .. Len(owned[w]) : owned'[w][j] # next
          <6> TAKE w \in Threads
          <6> TAKE j \in 1 .. Len(owned[w])
          <6>1. owned[w][j] < next /\ owned'[w][j] = owned[w][j] /\ owned[w][j] \in Int
            BY <2>6
          <6>2. QED BY <1>1, <6>1
        <5>2. QED BY <2>5, <3>2, <4>2, <5>1
      <4>3. QED BY <4>1, <4>2
    <3>3. ASSUME NEW n \in 1 .. Len(List), n < next'
          PROVE  \E u \in Threads : \E k \in 1 .. Len(owned'[u]) : owned'[u][k] = n
      <4>1. CASE n = next
        <5>1. Len(owned[t]) + 1 \in 1 .. Len(owned'[t])
          BY <1>3, <2>3
        <5>2. QED BY <2>3, <4>1, <5>1
      <4>2. CASE n < next
        <5>1. PICK u \in Threads : \E k \in 1 .. Len(owned[u]) : owned[u][k] = n
          BY <1>2, <4>2 DEF Claims
        <5>2. QED BY <2>6, <5>1
      <4>3. QED BY <1>1, <1>3, <3>3, <4>1, <4>2
    <3>4. QED BY <1>1, <1>2, <3>1, <3>2, <3>3 DEF Claims
  <2>8. ASSUME NEW u \in Threads PROVE Place(u)'
    <3>1. CASE u = t
      BY <1>1, <1>2, <1>3, <2>3, <3>1 DEF Place, Busy
    <3>2. CASE u # t
      <4>1. Claimed(u)' = Claimed(u)
        BY <1>1, <3>2 DEF Claimed
      <4>2. ~(next > Len(List))
        BY <1>5
      <4>3. QED BY <1>1, <1>2, <3>2, <4>1, <4>2 DEF Place, Busy
    <3>3. QED BY <3>1, <3>2
  <2>9. QED BY <2>4, <2>7, <2>8
<1>6. QED BY <1>4, <1>5

\* The other steps of a thread leave the lists alone.
LEMMA WorkControl ==
  ASSUME Control, NEW t \in Threads,
         \/ CopyTile(t) \/ NextItem(t) \/ PartialGroup(t) \/ StageHead(t)
         \/ WidenGroup(t) \/ ItemDone(t)
  PROVE  Control'
<1> USE DEF Control
<1>1. /\ UNCHANGED <<phase, next, owned>> /\ List' = List
      /\ \A u \in Threads \ {t} : pc'[u] = pc[u] /\ at'[u] = at[u] /\ group'[u] = group[u]
  BY DEF CopyTile, NextItem, PartialGroup, StageHead, WidenGroup, ItemDone, Goto, work, Typed,
         List
<1>2. Claims'
  BY <1>1 DEF Claims
<1>3. \A u \in Threads \ {t} : Place(u)'
  BY <1>1 DEF Place, Claimed
<1>4. /\ at[t] \in Nat /\ Len(owned[t]) \in Nat /\ group[t] \in Nat
      /\ phase \in {"begin", "fill", "widen", "inPlace", "finish", "done"}
  BY DEF Typed
<1>5. \A i, q : \A intact \in BOOLEAN : Write(i, q, intact) => raw' \subseteq Bytes /\ canon' \subseteq Bytes
  BY DEF Write, Typed
<1>6. CASE CopyTile(t)
  <2>1. /\ pc[t] = "copy" /\ pc' = [pc EXCEPT ![t] = "claim"]
        /\ UNCHANGED <<at, group, head, raw, canon>>
    BY <1>6 DEF CopyTile, Goto, work, mapVars
  <2>2. Typed'
    BY <1>1, <2>1 DEF Typed
  <2>3. Place(t)'
    BY <1>1, <1>4, <2>1 DEF Place, Busy, Typed
  <2>4. QED BY <1>2, <1>3, <2>2, <2>3
<1>7. CASE NextItem(t)
  <2>1. /\ pc[t] = "item"
        /\ pc' = [pc EXCEPT ![t] = IF at[t] > Len(owned[t]) THEN "ended" ELSE "tail"]
        /\ UNCHANGED <<at, group, head, raw, canon>>
    BY <1>7 DEF NextItem, Goto, work, mapVars
  <2>2. Typed'
    BY <1>1, <2>1 DEF Typed
  <2>3. Place(t)'
    <3>1. phase = "widen" /\ at[t] \in 1 .. Len(owned[t]) + 1
      BY <1>4, <2>1 DEF Place, Busy
    <3>2. QED BY <1>1, <1>4, <2>1, <3>1 DEF Place, Busy, Typed
  <2>4. QED BY <1>2, <1>3, <2>2, <2>3
<1>8. CASE PartialGroup(t)
  <2>1. /\ pc[t] = "tail" /\ pc' = [pc EXCEPT ![t] = "head"] /\ UNCHANGED <<at, group, head>>
    BY <1>8 DEF PartialGroup, Goto, work
  <2>2. raw' \subseteq Bytes /\ canon' \subseteq Bytes
    <3>1. \A i, q : Intact(i, q) \in BOOLEAN
      BY DEF Intact
    <3>2. QED BY <1>5, <1>8, <3>1 DEF PartialGroup, mapVars, Typed
  <2>3. Typed'
    BY <1>1, <2>1, <2>2 DEF Typed
  <2>4. Place(t)'
    BY <1>1, <1>4, <2>1 DEF Place, Busy, Typed
  <2>5. QED BY <1>2, <1>3, <2>3, <2>4
<1>9. CASE StageHead(t)
  <2>1. /\ pc[t] = "head" /\ pc' = [pc EXCEPT ![t] = "groups"] /\ UNCHANGED <<at, raw, canon>>
        /\ group' = [group EXCEPT ![t] = 0] /\ head' \in [Threads -> BOOLEAN]
    BY <1>9 DEF StageHead, Goto, mapVars, Typed
  <2>2. Typed'
    BY <1>1, <2>1 DEF Typed
  <2>3. Claimed(t)' = Claimed(t) /\ Groups(Claimed(t)) \in Nat
    BY <1>1, <2>1, ClaimedItem, GroupsOf DEF Claimed, Busy
  <2>4. Place(t)'
    BY <1>1, <1>4, <2>1, <2>3 DEF Place, Busy, Typed
  <2>5. QED BY <1>2, <1>3, <2>2, <2>4
<1>10. CASE WidenGroup(t)
  <2>1. /\ pc[t] = "groups" /\ group[t] < Groups(Claimed(t)) /\ UNCHANGED <<pc, at, head>>
        /\ group' = [group EXCEPT ![t] = @ + 1]
    BY <1>10 DEF WidenGroup
  <2>2. raw' \subseteq Bytes /\ canon' \subseteq Bytes
    <3>1. \A i, q : Intact(i, q) \in BOOLEAN
      BY DEF Intact
    <3>2. head[t] \in BOOLEAN
      BY DEF Typed
    <3>3. \E i, q : \E intact \in BOOLEAN : Write(i, q, intact)
      BY <1>10, <3>1, <3>2 DEF WidenGroup
    <3>4. QED BY <1>5, <3>3
  <2>3. Typed'
    BY <1>1, <2>1, <2>2 DEF Typed
  <2>4. Claimed(t)' = Claimed(t) /\ Groups(Claimed(t)) \in Nat
    BY <1>1, <2>1, ClaimedItem, GroupsOf DEF Claimed, Busy
  <2>5. Place(t)'
    <3>1. pc'[t] = "groups" /\ group'[t] = group[t] + 1 /\ at'[t] = at[t]
      BY <2>1 DEF Typed
    <3>2. group'[t] <= Groups(Claimed(t)')
      BY <1>4, <2>1, <2>4, <3>1
    <3>3. QED BY <1>1, <1>4, <2>1, <3>1, <3>2 DEF Place, Busy
  <2>6. QED BY <1>2, <1>3, <2>3, <2>5
<1>11. CASE ItemDone(t)
  <2>1. /\ pc[t] = "groups" /\ UNCHANGED <<group, head, raw, canon>>
        /\ phase = "inPlace" => pc' = [pc EXCEPT ![t] = "claim"] /\ at' = at
        /\ phase # "inPlace" => pc' = [pc EXCEPT ![t] = "item"] /\ at' = [at EXCEPT ![t] = @ + 1]
    BY <1>11 DEF ItemDone, Goto, mapVars
  <2>2. Typed'
    <3>1. CASE phase = "inPlace"
      BY <1>1, <2>1, <3>1 DEF Typed
    <3>2. CASE phase # "inPlace"
      <4>1. at' \in [Threads -> Nat]
        <5>1. at' = [at EXCEPT ![t] = at[t] + 1] /\ at[t] + 1 \in Nat
          BY <1>4, <2>1, <3>2
        <5>2. QED BY <5>1 DEF Typed
      <4>2. QED BY <1>1, <2>1, <3>2, <4>1 DEF Typed
    <3>3. QED BY <3>1, <3>2
  <2>3. phase \in {"widen", "inPlace"}
    BY <1>4, <2>1 DEF Place, Busy
  <2>4. Place(t)'
    <3>1. CASE phase = "inPlace"
      BY <1>1, <1>4, <2>1, <3>1 DEF Place, Busy, Typed
    <3>2. CASE phase = "widen"
      <4>1. at[t] \in 1 .. Len(owned[t])
        BY <1>4, <2>1, <3>2 DEF Place, Busy
      <4>2. pc'[t] = "item" /\ at'[t] = at[t] + 1
        BY <2>1, <3>2 DEF Typed
      <4>3. QED BY <1>1, <1>4, <3>2, <4>1, <4>2 DEF Place, Busy
    <3>3. QED BY <2>3, <3>1, <3>2
  <2>5. QED BY <1>2, <1>3, <2>2, <2>4
<1>12. QED BY <1>6, <1>7, <1>8, <1>9, <1>10, <1>11

LEMMA ControlStep ==
  ASSUME Control, [Next]_vars
  PROVE  Control'
<1>1. CASE UNCHANGED vars
  <2>1. UNCHANGED <<phase, next, pc, owned, at, group, head, raw, canon>> /\ List' = List
    BY <1>1 DEF vars, List
  <2>2. Typed' /\ Claims'
    BY <2>1 DEF Control, Typed, Claims
  <2>3. \A t \in Threads : Place(t)'
    BY <2>1 DEF Control, Place, Claimed
  <2>4. QED BY <2>2, <2>3 DEF Control
<1>2. QED BY <1>1, MainControl, ClaimControl, WorkControl DEF Next, Thread, Idle

-----------------------------------------------------------------------------
(* Windows *)

LEMMA WindowsApart ==
  ASSUME NEW n \in 1 .. Len(List), NEW m \in 1 .. Len(List), n # m
  PROVE  Window(List[n]) \intersect Window(List[m]) = {}
<1>1. /\ Shape(List[n]) /\ Shape(List[m]) /\ Len(List) \in Nat
      /\ n < m => List[n].win + List[n].size <= List[m].win
      /\ m < n => List[m].win + List[m].size <= List[n].win
  BY ListCut DEF Layout
<1>2. n < m \/ m < n
  BY <1>1
<1> DEFINE i == List[n]
           j == List[m]
<1>3. /\ i.win \in Nat /\ i.size \in Nat /\ j.win \in Nat /\ j.size \in Nat
      /\ i.win + i.size <= j.win \/ j.win + j.size <= i.win
  BY <1>1, <1>2 DEF Shape
<1> HIDE DEF i, j
<1>4. Window(i) \intersect Window(j) = {}
  <2> SUFFICES ASSUME NEW b \in Window(i), b \in Window(j) PROVE FALSE
    OBVIOUS
  <2>1. b \in Int /\ i.win <= b /\ b < i.win + i.size /\ j.win <= b /\ b < j.win + j.size
    BY <1>3 DEF Window
  <2>2. QED BY <1>3, <2>1
<1>5. QED BY <1>4 DEF i, j

\* Two busy threads are on items with different windows.
LEMMA BusyApart ==
  ASSUME Control, NEW t \in Threads, NEW u \in Threads, t # u, pc[t] \in Busy, pc[u] \in Busy
  PROVE  Window(Claimed(t)) \intersect Window(Claimed(u)) = {}
<1>1. /\ phase \in {"fill", "widen", "inPlace"}
      /\ at[t] \in 1 .. Len(owned[t]) /\ owned[t][at[t]] \in 1 .. Len(List)
      /\ at[u] \in 1 .. Len(owned[u]) /\ owned[u][at[u]] \in 1 .. Len(List)
      /\ Claimed(t) = List[owned[t][at[t]]] /\ Claimed(u) = List[owned[u][at[u]]]
  BY ClaimedItem
<1>2. owned[t][at[t]] # owned[u][at[u]]
  BY <1>1 DEF Control, Claims
<1>3. QED BY <1>1, <1>2, WindowsApart

\* Sources widened in place are in the window.
LEMMA SourcesInWindow ==
  ASSUME NEW i, Shape(i), i.inPlace, NEW q \in Nat
  PROVE  /\ InMap(i, q) \subseteq i.win .. i.win + i.len - 1
         /\ InMap(i, q) \subseteq i.win + 8 * q .. i.win + 8 * q + 7
         /\ InMap(i, q) \subseteq Window(i)
<1> SUFFICES ASSUME NEW b \in InMap(i, q)
             PROVE  /\ b \in i.win .. i.win + i.len - 1
                    /\ b \in i.win + 8 * q .. i.win + 8 * q + 7
                    /\ b \in Window(i)
  OBVIOUS
<1>1. PICK p \in 8 * q .. 8 * q + 7 : p < i.len /\ b = Base(i.region) + i.src + p
  BY DEF InMap, SourceAt
<1>2. /\ i.src = 0 /\ i.win = Base(i.region) /\ i.win \in Nat /\ i.len \in Nat /\ i.size \in Nat
      /\ i.len <= i.size
  BY DEF Shape
<1>3. p \in Nat /\ b = i.win + p /\ p < i.len /\ 8 * q <= p /\ p <= 8 * q + 7
  BY <1>1, <1>2
<1>4. QED BY <1>2, <1>3 DEF Window

\* While one thread is on an item, the bytes it reads and writes in the map are
\* written by no other (pull_scheduler.cpp:800-807), whatever the sizes.
LEMMA ControlSeparates ==
  ASSUME Control
  PROVE  NoSharedBytes
<1> SUFFICES ASSUME NEW t \in Threads, NEW u \in Threads, t # u, pc[t] \in Busy
             PROVE  Window(Claimed(t)) \intersect (Writes(u) \union Reads(u)) = {}
  BY DEF NoSharedBytes, Writes, Busy
<1>1. phase # "fill"
  BY DEF Control, Place, Busy
<1>2. pc[u] # "copy"
  <2>1. phase \in {"fill", "widen", "inPlace"}
    BY ClaimedItem
  <2>2. QED BY <1>1, <2>1 DEF Control, Place, Busy
<1>3. CASE pc[u] \in Busy
  <2>1. Writes(u) = Window(Claimed(u))
    BY <1>3 DEF Writes, Busy
  <2>2. Reads(u) \subseteq Window(Claimed(u))
    <3>1. Shape(Claimed(u)) /\ Groups(Claimed(u)) \in Nat
      BY <1>3, ClaimedItem, GroupsOf
    <3>2. ASSUME Claimed(u).inPlace, NEW q \in 0 .. Groups(Claimed(u))
          PROVE  InMap(Claimed(u), q) \subseteq Window(Claimed(u))
      <4>1. q \in Nat
        BY <3>1
      <4>2. QED BY <3>1, <3>2, <4>1, SourcesInWindow
    <3>3. Reads(u) \subseteq UNION {InMap(Claimed(u), q) : q \in 0 .. Groups(Claimed(u))}
          /\ (~Claimed(u).inPlace => Reads(u) = {})
      BY <1>2 DEF Reads
    <3>4. QED BY <3>2, <3>3
  <2>3. Window(Claimed(t)) \intersect Window(Claimed(u)) = {}
    BY <1>3, BusyApart
  <2>4. QED BY <2>1, <2>2, <2>3
<1>4. CASE pc[u] \notin Busy
  BY <1>2, <1>4 DEF Writes, Reads, Busy
<1>5. QED BY <1>3, <1>4

\* When the map does not end one byte short of a group, what a group becomes is
\* in the window of its item.
LEMMA TargetsInWindow ==
  ASSUME MapBytes % 15 # 14, NEW i, Shape(i)
  PROVE  /\ HasTail(i) => Target(i, Groups(i)) \subseteq Window(i)
         /\ \A q \in 0 .. Groups(i) - 1 : Target(i, q) \subseteq Window(i)
         /\ Window(i) \subseteq Bytes
<1>1. /\ i.win \in Nat /\ i.size \in Nat /\ i.win + i.size <= MapBytes /\ MapBytes \in Nat
      /\ Groups(i) \in Nat /\ 15 * Groups(i) <= i.size
  BY GroupsOf, WholeGroups DEF Shape
<1>2. \A q \in 0 .. Groups(i) - 1 : Target(i, q) \subseteq Window(i)
  BY <1>1 DEF Target, Window
<1>3. Target(i, Groups(i)) \subseteq Window(i)
  BY <1>1 DEF Target, Window
<1>4. Window(i) \subseteq Bytes
  BY <1>1 DEF Window, Bytes
<1>5. QED BY <1>2, <1>3, <1>4

LEMMA TurnInRange ==
  ASSUME NEW i, Groups(i) \in Nat, NEW n \in Nat, n < Groups(i)
  PROVE  Turn(i, n) \in 0 .. Groups(i) - 1
  BY DEF Turn

LEMMA ControlContains ==
  ASSUME MapBytes % 15 # 14, Control
  PROVE  WritesStayInWindow
<1> SUFFICES ASSUME NEW t \in Threads
             PROVE  /\ pc[t] = "tail" /\ HasTail(Claimed(t)) =>
                         Target(Claimed(t), Groups(Claimed(t))) \subseteq Window(Claimed(t))
                    /\ pc[t] = "groups" /\ group[t] < Groups(Claimed(t)) =>
                         Target(Claimed(t), Turn(Claimed(t), group[t])) \subseteq Window(Claimed(t))
  BY DEF WritesStayInWindow
<1>1. pc[t] \in Busy => Shape(Claimed(t)) /\ Groups(Claimed(t)) \in Nat
  BY ClaimedItem, GroupsOf
<1>2. group[t] \in Nat
  BY DEF Control, Typed
<1>3. QED BY <1>1, <1>2, TargetsInWindow, TurnInRange DEF Busy

-----------------------------------------------------------------------------
(* What an item will still read *)

\* Sources the sieve left, in the map and in the arena.
LEMMA DepositReady ==
  ASSUME NEW i, Shape(i)
  PROVE  /\ i.inPlace => i.win .. i.win + i.len - 1 \subseteq Deposit
         /\ \A p \in Slot(i) : p - Offset(i.region) + Base(i.region) \in Deposit
         /\ Slot(i) \subseteq UNION {InArena(i, q) : q \in 0 .. Groups(i)}
         /\ \A q \in Nat : InArena(i, q) \subseteq Slot(i)
<1> DEFINE s == i.region
<1>1. /\ s \in 0 .. NumSlabs - 1 /\ i.src \in Nat /\ i.len \in Nat /\ i.src + i.len <= Sources(s)
      /\ i.inPlace => i.src = 0 /\ i.win = Base(s)
  BY DEF Shape
<1>2. Base(s) \in Nat /\ Offset(s) \in Nat /\ Sources(s) \in Nat
  BY <1>1, SlabPlace
<1>3. Base(s) .. Base(s) + Sources(s) - 1 \subseteq Deposit
  BY <1>1 DEF Deposit
<1>4. i.inPlace => i.win .. i.win + i.len - 1 \subseteq Deposit
  BY <1>1, <1>2, <1>3
<1>5. \A p \in Slot(i) : p - Offset(s) + Base(s) \in Deposit
  <2> TAKE p \in Slot(i)
  <2>1. p \in Offset(s) + i.src .. Offset(s) + i.src + i.len - 1
    BY DEF Slot
  <2>2. p - Offset(s) + Base(s) \in Base(s) .. Base(s) + Sources(s) - 1
    BY <1>1, <1>2, <2>1
  <2>3. QED BY <1>3, <2>2
<1>6. Slot(i) \subseteq UNION {InArena(i, q) : q \in 0 .. Groups(i)}
  <2> SUFFICES ASSUME NEW p \in Slot(i) PROVE \E q \in 0 .. Groups(i) : p \in InArena(i, q)
    OBVIOUS
  <2> DEFINE x == p - Offset(s) - i.src
             q == x \div 8
  <2>1. x \in Nat /\ x < i.len /\ p = Offset(s) + i.src + x
    BY <1>1, <1>2 DEF Slot
  <2> HIDE DEF x
  <2>2. q \in Nat /\ x \in 8 * q .. 8 * q + 7
    BY <2>1
  <2>3. q <= Groups(i)
    <3>1. Groups(i) \in Nat /\ i.len < 8 * Groups(i) + 8
      BY GroupsOf
    <3>2. QED BY <1>1, <2>1, <2>2, <3>1
  <2> HIDE DEF q
  <2>4. p \in InArena(i, q)
    BY <2>1, <2>2 DEF InArena, SourceAt
  <2>5. q \in 0 .. Groups(i)
    BY <2>2, <2>3, GroupsOf
  <2>6. QED BY <2>4, <2>5
<1>7. \A q \in Nat : InArena(i, q) \subseteq Slot(i)
  <2> SUFFICES ASSUME NEW q \in Nat, NEW b \in InArena(i, q) PROVE b \in Slot(i)
    OBVIOUS
  <2>1. PICK p \in 8 * q .. 8 * q + 7 : p < i.len /\ b = Offset(i.region) + i.src + p
    BY DEF InArena, SourceAt
  <2>2. QED BY <1>1, <1>2, <2>1 DEF Slot
<1>8. QED BY <1>4, <1>5, <1>6, <1>7

\* An item whose bytes nobody wrote is where it was.
LEMMA Unmoved ==
  ASSUME MapBytes % 15 # 14, NEW i, Shape(i), arena \subseteq arena',
         \A b \in Window(i) : (b \in raw => b \in raw') /\ (b \in canon => b \in canon')
  PROVE  /\ Ready(i) => Ready(i)'
         /\ Window(i) \subseteq canon => Window(i) \subseteq canon'
         /\ TailDone(i) => TailDone(i)'
         /\ \A n \in 0 .. Groups(i) : GroupsDone(i, n) => GroupsDone(i, n)'
<1>1. /\ i.win \in Nat /\ i.size \in Nat /\ i.len \in Nat /\ i.len <= i.size
      /\ Groups(i) \in Nat /\ 8 * Groups(i) <= i.len /\ 15 * Groups(i) <= i.size
  BY GroupsOf DEF Shape
<1>2. \A a \in Int, b \in Int : i.win <= a /\ b < i.win + i.size =>
        (a .. b \subseteq raw => a .. b \subseteq raw')
        /\ (a .. b \subseteq canon => a .. b \subseteq canon')
  <2> TAKE a \in Int, b \in Int
  <2> HAVE i.win <= a /\ b < i.win + i.size
  <2>1. a .. b \subseteq Window(i)
    BY <1>1 DEF Window
  <2>2. QED BY <2>1
<1>3. Ready(i) => Ready(i)'
  <2>1. i.win + i.len - 1 \in Int /\ i.win + i.len - 1 < i.win + i.size /\ i.win <= i.win
    BY <1>1
  <2>2. QED BY <1>1, <1>2, <2>1 DEF Ready, Slot
<1>4. TailDone(i) => TailDone(i)'
  <2>1. /\ i.win + 15 * Groups(i) \in Int /\ i.win + i.size - 1 \in Int
        /\ i.win <= i.win + 15 * Groups(i) /\ i.win + i.size - 1 < i.win + i.size
    BY <1>1
  <2>2. QED BY <1>2, <2>1 DEF TailDone
<1>5. ASSUME NEW n \in 0 .. Groups(i), GroupsDone(i, n) PROVE GroupsDone(i, n)'
  <2> DEFINE g == Groups(i)
  <2>1. /\ i.win \in Int /\ i.win + 8 * (g - n) - 1 \in Int /\ i.win + 15 * (g - n) \in Int
        /\ i.win + 15 * g - 1 \in Int /\ i.win + 15 * n - 1 \in Int
        /\ i.win <= i.win /\ i.win <= i.win + 15 * (g - n)
        /\ i.win + 8 * (g - n) - 1 < i.win + i.size /\ i.win + 15 * g - 1 < i.win + i.size
        /\ i.win + 15 * n - 1 < i.win + i.size
    BY <1>1
  <2>2. CASE i.inPlace
    BY <1>2, <1>5, <2>1, <2>2 DEF GroupsDone
  <2>3. CASE ~i.inPlace
    BY <1>2, <1>5, <2>1, <2>3 DEF GroupsDone
  <2>4. QED BY <2>2, <2>3
<1>6. QED BY <1>3, <1>4, <1>5

\* Writing intact sources changes nothing outside the bytes they become.
LEMMA WriteIntact ==
  ASSUME MapBytes % 15 # 14, Typed, NEW i, Shape(i), NEW q,
         Target(i, q) \subseteq Window(i), Write(i, q, TRUE)
  PROVE  /\ \A b : b \notin Target(i, q) => (b \in raw' <=> b \in raw)
         /\ canon' = canon \union Target(i, q)
<1>1. Target(i, q) \subseteq Bytes
  BY TargetsInWindow
<1>2. QED BY <1>1 DEF Write

\* A step that leaves a thread's place, its list and the bytes of an item on it
\* alone leaves the item where it is.
LEMMA ProgressKept ==
  ASSUME MapBytes % 15 # 14, Control, NEW u \in Threads, NEW k \in 1 .. Len(owned[u]),
         phase \in {"widen", "inPlace"}, Progress(u, k), List' = List, owned'[u] = owned[u],
         at'[u] = at[u], pc'[u] = pc[u], group'[u] = group[u], head'[u] = head[u],
         arena \subseteq arena',
         \A b \in Window(List[owned[u][k]]) :
           (b \in raw => b \in raw') /\ (b \in canon => b \in canon')
  PROVE  Progress(u, k)'
<1>1. owned[u][k] \in 1 .. Len(List)
  BY DEF Control, Claims
<1>2. PICK i : i = List[owned[u][k]]
  OBVIOUS
<1>3. Shape(i) /\ i = List'[owned'[u][k]]
  BY <1>1, <1>2, ListCut DEF Layout
<1>4. k = at[u] /\ pc[u] = "groups" => group[u] \in 0 .. Groups(i)
  <2> SUFFICES ASSUME k = at[u], pc[u] = "groups" PROVE group[u] \in 0 .. Groups(i)
    OBVIOUS
  <2>1. group[u] \in Nat /\ group[u] <= Groups(i)
    BY <1>2 DEF Control, Place, Typed, Claimed
  <2>2. QED BY <1>3, <2>1, GroupsOf
<1>5. 0 \in 0 .. Groups(i)
  BY <1>3, GroupsOf
<1>6. /\ Ready(i) => Ready(i)'
      /\ Window(i) \subseteq canon => Window(i) \subseteq canon'
      /\ TailDone(i) => TailDone(i)'
      /\ \A n \in 0 .. Groups(i) : GroupsDone(i, n) => GroupsDone(i, n)'
  BY <1>2, <1>3, Unmoved
<1>7. /\ k < at[u] \/ (k = at[u] /\ pc[u] \in {"claim", "ended"}) => Window(i) \subseteq canon
      /\ k > at[u] \/ (k = at[u] /\ pc[u] \in {"item", "tail"}) => Ready(i)
      /\ k = at[u] /\ pc[u] = "head" => TailDone(i) /\ GroupsDone(i, 0)
      /\ k = at[u] /\ pc[u] = "groups" =>
           TailDone(i) /\ GroupsDone(i, group[u]) /\ (i.inPlace => head[u])
  BY <1>2 DEF Progress
<1>8. QED BY <1>3, <1>4, <1>5, <1>6, <1>7 DEF Progress

-----------------------------------------------------------------------------
(* Every byte *)

LEMMA InitContents ==
  Init => Contents
  BY DEF Init, Contents, Deposit

\* An epoch starts with the sources where it will read them, and when the last
\* has ended every window is written, and with them every byte.
LEMMA MainContents ==
  ASSUME Control, Contents, Main
  PROVE  Contents'
<1> USE DEF Control
<1>1. CASE Begin
  <2>1. /\ phase = "begin" /\ phase' \in {"fill", "inPlace"} /\ next' = next /\ owned' = owned
        /\ raw' = raw /\ canon' = canon
    BY <1>1 DEF Begin, work, mapVars
  <2>2. raw = Deposit /\ \A t \in Threads : Len(owned'[t]) = 0
    BY <2>1 DEF Contents, Place
  <2>3. \A n \in 1 .. Len(Regions) : Ready(Regions[n])'
    <3> SUFFICES ASSUME NEW n \in 1 .. Len(Regions) PROVE Ready(Regions[n])'
      OBVIOUS
    <3>1. Shape(Regions[n]) /\ Regions[n].inPlace
      BY RegionsCut DEF Layout
    <3>2. QED BY <2>1, <2>2, <3>1, DepositReady DEF Ready
  <2>4. \A t \in Threads : \A k \in 1 .. Len(owned'[t]) : FALSE
    BY <2>2
  <2>5. QED BY <2>1, <2>2, <2>3, <2>4 DEF Contents
<1>2. CASE NextEpoch
  <2>1. /\ phase = "fill" /\ phase' = "widen" /\ owned' = owned /\ arena' = arena
        /\ at' = [t \in Threads |-> 1] /\ pc' = [t \in Threads |-> "item"]
        /\ raw' = raw /\ canon' = canon /\ \A t \in Threads : pc[t] = "ended"
    BY <1>2 DEF NextEpoch, Start, Joined, mapVars
  <2>2. raw = Deposit /\ List = Items /\ List' = Items
    BY <2>1 DEF Contents, List
  <2>3. Claims'
    BY MainControl DEF Main
  <2>4. ASSUME NEW n \in 1 .. Len(Items), ~Items[n].inPlace PROVE Slot(Items[n]) \subseteq arena
    <3>1. PICK t \in Threads : \E k \in 1 .. Len(owned[t]) : owned[t][k] = n
      BY <2>1, <2>2, <2>3 DEF Claims
    <3>2. PICK k \in 1 .. Len(owned[t]) : owned[t][k] = n
      BY <3>1
    <3>3. QED BY <2>1, <2>4, <3>2 DEF Contents
  <2>5. \A n \in 1 .. Len(Items) : Ready(Items[n])'
    <3> SUFFICES ASSUME NEW n \in 1 .. Len(Items) PROVE Ready(Items[n])'
      OBVIOUS
    <3>1. Shape(Items[n])
      BY ItemsCut DEF Layout
    <3>2. QED BY <2>1, <2>2, <2>4, <3>1, DepositReady DEF Ready
  <2>6. ASSUME NEW t \in Threads, NEW k \in 1 .. Len(owned'[t]) PROVE Progress(t, k)'
    <3>1. owned'[t][k] \in 1 .. Len(Items)
      BY <2>1, <2>2, <2>3 DEF Claims
    <3>2. Ready(Items[owned[t][k]])' /\ owned' = owned
      BY <2>1, <2>5, <3>1
    <3>3. at'[t] = 1 /\ pc'[t] = "item" /\ k \in Int /\ k >= 1
      BY <2>1, <2>6
    <3>4. QED BY <2>2, <3>2, <3>3 DEF Progress
  <2>7. QED BY <2>1, <2>4, <2>6 DEF Contents
<1>3. CASE Join
  <2>1. /\ phase \in {"widen", "inPlace"} /\ phase' = "finish" /\ UNCHANGED <<raw, canon>>
        /\ \A t \in Threads : pc[t] = "ended"
    BY <1>3 DEF Join, Joined, mapVars
  <2>2. Bytes \subseteq canon
    <3> SUFFICES ASSUME NEW b \in Bytes PROVE b \in canon
      OBVIOUS
    <3>1. PICK n \in 1 .. Len(List) : b \in Window(List[n])
      BY ListCut DEF Layout
    <3>2. phase = "widen" \/ n < next
      <4>1. phase = "inPlace" => next > Len(List)
        BY <2>1, ThreadsAssumption DEF Place
      <4>2. next \in Nat /\ Len(List) \in Nat
        BY ListCut DEF Layout, Typed
      <4>3. QED BY <2>1, <4>1, <4>2
    <3>3. PICK t \in Threads : \E k \in 1 .. Len(owned[t]) : owned[t][k] = n
      BY <2>1, <3>2 DEF Claims
    <3>4. PICK k \in 1 .. Len(owned[t]) : owned[t][k] = n
      BY <3>3
    <3>5. k < at[t] \/ (k = at[t] /\ pc[t] = "ended")
      <4>1. Len(owned[t]) \in Nat
        BY DEF Typed
      <4>2. pc[t] = "ended"
        BY <2>1
      <4>3. CASE phase = "widen"
        BY <4>1, <4>2, <4>3 DEF Place
      <4>4. CASE phase = "inPlace"
        <5>1. at[t] = Len(owned[t])
          BY <4>4 DEF Place
        <5>2. QED BY <4>1, <4>2, <5>1
      <4>5. QED BY <2>1, <4>3, <4>4
    <3>6. Progress(t, k)
      BY <2>1 DEF Contents
    <3>7. Window(List[n]) \subseteq canon
      BY <3>4, <3>5, <3>6 DEF Progress
    <3>8. QED BY <3>1, <3>7
  <2>3. canon' = Bytes
    BY <2>1, <2>2 DEF Typed
  <2>4. QED BY <2>1, <2>3 DEF Contents
<1>4. CASE Finish
  BY <1>4 DEF Finish, Contents
<1>5. QED BY <1>1, <1>2, <1>3, <1>4 DEF Main

\* An item that is claimed has its sources; the others stay where they are.
LEMMA ClaimContents ==
  ASSUME MapBytes % 15 # 14, Control, Contents, NEW t \in Threads, Claim(t)
  PROVE  Contents'
<1> USE DEF Control
<1>1. /\ pc[t] = "claim" /\ next' = next + 1 /\ next \in Nat \ {0}
      /\ phase' = phase /\ List' = List /\ UNCHANGED <<group, head, raw, canon, arena>>
      /\ \A u \in Threads \ {t} : pc'[u] = pc[u] /\ owned'[u] = owned[u] /\ at'[u] = at[u]
  BY DEF Claim, Goto, Typed, List, mapVars
<1>2. phase \in {"fill", "inPlace"}
  BY <1>1 DEF Place, Busy, Typed
<1>3. /\ owned[t] \in Seq(Nat) /\ at[t] = Len(owned[t]) /\ Len(owned[t]) \in Nat
      /\ Len(List) \in Nat
  BY <1>2, ListCut DEF Place, Typed, Layout
<1>4. /\ pc'[t] \in {"ended", "copy", "tail"} /\ (phase = "fill" => pc'[t] # "tail")
      /\ \/ /\ owned'[t] = owned[t] /\ at'[t] = at[t] /\ pc'[t] = "ended"
         \/ /\ ~(next > Len(List)) /\ owned'[t] = Append(owned[t], next) /\ at'[t] = at[t] + 1
            /\ pc'[t] = IF phase = "fill" THEN "copy" ELSE "tail"
  BY DEF Claim, Goto, Typed
<1>5. \A k \in 1 .. Len(owned'[t]) :
        \/ k \in 1 .. Len(owned[t]) /\ owned'[t][k] = owned[t][k]
           /\ (k < at'[t] \/ (k = at'[t] /\ pc'[t] = "ended"))
        \/ /\ k = Len(owned[t]) + 1 /\ k = at'[t] /\ owned'[t][k] = next
           /\ pc'[t] = (IF phase = "fill" THEN "copy" ELSE "tail") /\ next \in 1 .. Len(List)
  <2> TAKE k \in 1 .. Len(owned'[t])
  <2>1. CASE owned'[t] = owned[t] /\ at'[t] = at[t] /\ pc'[t] = "ended"
    <3>1. k \in 1 .. Len(owned[t])
      BY <2>1
    <3>2. k < Len(owned[t]) \/ k = Len(owned[t])
      BY <1>3, <3>1
    <3>3. QED BY <1>3, <2>1, <3>1, <3>2
  <2>2. CASE /\ ~(next > Len(List)) /\ owned'[t] = Append(owned[t], next) /\ at'[t] = at[t] + 1
             /\ pc'[t] = IF phase = "fill" THEN "copy" ELSE "tail"
    <3>1. Len(owned'[t]) = Len(owned[t]) + 1 /\ at'[t] = Len(owned[t]) + 1
      BY <1>1, <1>3, <2>2
    <3>2. next \in 1 .. Len(List)
      BY <1>1, <1>3, <2>2
    <3>3. CASE k = Len(owned[t]) + 1
      <4>1. owned'[t][k] = next
        BY <1>1, <1>3, <2>2, <3>3
      <4>2. QED BY <2>2, <3>1, <3>2, <3>3, <4>1
    <3>4. CASE k # Len(owned[t]) + 1
      <4>1. k \in 1 .. Len(owned[t]) /\ k < at'[t]
        BY <1>3, <3>1, <3>4
      <4>2. owned'[t][k] = owned[t][k]
        BY <1>1, <1>3, <2>2, <4>1
      <4>3. QED BY <4>1, <4>2
    <3>5. QED BY <3>3, <3>4
  <2>3. QED BY <1>4, <2>1, <2>2
<1>6. CASE phase = "fill"
  <2>1. raw' = Deposit
    BY <1>1, <1>6 DEF Contents
  <2>2. ASSUME NEW u \in Threads, NEW k \in 1 .. Len(owned'[u]), ~Items[owned'[u][k]].inPlace,
               ~(k = at'[u] /\ pc'[u] = "copy")
        PROVE  Slot(Items[owned'[u][k]]) \subseteq arena'
    <3>1. CASE u # t
      BY <1>1, <1>6, <2>2, <3>1 DEF Contents
    <3>2. CASE u = t
      <4>1. k \in 1 .. Len(owned[t]) /\ owned'[t][k] = owned[t][k]
        BY <1>5, <1>6, <2>2, <3>2
      <4>2. QED BY <1>1, <1>6, <2>2, <3>2, <4>1 DEF Contents
    <3>3. QED BY <3>1, <3>2
  <2>3. QED BY <1>1, <1>6, <2>1, <2>2 DEF Contents
<1>7. CASE phase = "inPlace"
  <2>1. List = Regions
    BY <1>7 DEF List
  <2>2. \A n \in 1 .. Len(Regions) : n >= next => Ready(Regions[n])
    BY <1>7 DEF Contents
  <2>3. \A n \in 1 .. Len(Regions) : Ready(Regions[n]) => Ready(Regions[n])'
    BY <1>1 DEF Ready
  <2>4. ASSUME NEW n \in 1 .. Len(Regions), n >= next' PROVE Ready(Regions[n])'
    <3>1. n >= next
      BY <1>1, <2>4
    <3>2. QED BY <2>2, <2>3, <3>1
  <2>5. ASSUME NEW u \in Threads, NEW k \in 1 .. Len(owned'[u]) PROVE Progress(u, k)'
    <3>1. CASE u # t
      <4>1. k \in 1 .. Len(owned[u]) /\ Progress(u, k)
        BY <1>1, <1>7, <2>5, <3>1 DEF Contents
      <4>2. QED BY <1>1, <1>7, <3>1, <4>1, ProgressKept
    <3>2. CASE u = t /\ k \in 1 .. Len(owned[t]) /\ owned'[t][k] = owned[t][k]
               /\ (k < at'[t] \/ (k = at'[t] /\ pc'[t] = "ended"))
      <4>1. Progress(t, k)
        BY <1>7, <3>2 DEF Contents
      <4>2. k < at[t] \/ (k = at[t] /\ pc[t] = "claim")
        BY <1>1, <1>3, <3>2
      <4>3. Window(List[owned[t][k]]) \subseteq canon
        BY <4>1, <4>2 DEF Progress
      <4>4. ~(k > at'[t]) /\ (k = at'[t] => pc'[t] = "ended")
        <5>1. at'[t] \in Int
          BY <1>3, <1>4
        <5>2. QED BY <3>2, <5>1
      <4>5. QED BY <1>1, <3>2, <4>3, <4>4 DEF Progress
    <3>3. CASE u = t /\ k = at'[t] /\ owned'[t][k] = next /\ pc'[t] = "tail"
               /\ next \in 1 .. Len(List)
      <4>1. PICK i : i = List[next]
        OBVIOUS
      <4>2. i = List'[owned'[t][k]] /\ i = Regions[next] /\ next >= next
        BY <1>1, <2>1, <3>3, <4>1
      <4>3. Ready(i) /\ (Ready(i) => Ready(i)')
        BY <1>1, <2>1, <2>2, <3>3, <4>2 DEF Ready
      <4>4. ~(k < at'[t])
        BY <1>3, <1>4, <3>3
      <4>5. QED BY <1>1, <3>3, <4>2, <4>3, <4>4 DEF Progress
    <3>4. QED BY <1>5, <1>7, <2>5, <3>1, <3>2, <3>3
  <2>6. QED BY <1>1, <1>7, <2>4, <2>5 DEF Contents
<1>8. QED BY <1>2, <1>6, <1>7

\* The first epoch only reads the map.
LEMMA CopyContents ==
  ASSUME Control, Contents, NEW t \in Threads, CopyTile(t)
  PROVE  Contents'
<1> USE DEF Control
<1>1. /\ pc[t] = "copy" /\ UNCHANGED <<phase, next, owned, at, raw, canon>>
      /\ \A u \in Threads \ {t} : pc'[u] = pc[u]
  BY DEF CopyTile, Goto, work, mapVars, Typed
<1>2. phase = "fill" /\ List = Items /\ at[t] = Len(owned[t])
  <2>1. phase \in {"fill", "widen", "inPlace"}
    BY <1>1, ClaimedItem
  <2>2. phase = "fill"
    BY <1>1, <2>1 DEF Place, Busy
  <2>3. QED BY <2>2 DEF Place, List
<1>3. PICK i : i = Claimed(t)
  OBVIOUS
<1>4. /\ Shape(i) /\ owned[t][at[t]] \in 1 .. Len(Items) /\ i = Items[owned[t][at[t]]]
      /\ raw = Deposit
  BY <1>1, <1>2, <1>3, ClaimedItem DEF Contents
<1>5. arena \subseteq arena' /\ (~i.inPlace => Slot(i) \subseteq arena')
  <2> DEFINE slot == UNION {InArena(i, q) : q \in 0 .. Groups(i)}
  <2>1. arena' = IF i.inPlace THEN arena
                 ELSE arena \union {p \in slot : p - Offset(i.region) + Base(i.region) \in raw}
    BY <1>3 DEF CopyTile
  <2>2. Slot(i) \subseteq slot /\ \A p \in Slot(i) : p - Offset(i.region) + Base(i.region) \in raw
    BY <1>4, DepositReady
  <2> HIDE DEF slot
  <2>3. QED BY <2>1, <2>2
<1>6. ASSUME NEW u \in Threads, NEW k \in 1 .. Len(owned[u]), ~Items[owned[u][k]].inPlace,
             ~(k = at[u] /\ pc'[u] = "copy")
      PROVE  Slot(Items[owned[u][k]]) \subseteq arena'
  <2>1. CASE u = t /\ k = at[t]
    BY <1>4, <1>5, <1>6, <2>1
  <2>2. CASE ~(u = t /\ k = at[t])
    <3>1. ~(k = at[u] /\ pc[u] = "copy")
      BY <1>1, <1>6, <2>2
    <3>2. Slot(Items[owned[u][k]]) \subseteq arena
      BY <1>2, <1>6, <3>1 DEF Contents
    <3>3. QED BY <1>5, <3>2
  <2>3. QED BY <2>1, <2>2
<1>7. QED BY <1>1, <1>2, <1>4, <1>6 DEF Contents

\* A step on one item: the other items stay where they are.
LEMMA OthersStay ==
  ASSUME MapBytes % 15 # 14, Control, Contents, phase \in {"widen", "inPlace"},
         NEW t \in Threads, UNCHANGED <<phase, next, owned, at, arena>>,
         \A u \in Threads \ {t} : pc'[u] = pc[u] /\ group'[u] = group[u] /\ head'[u] = head[u],
         \A n \in 1 .. Len(List) :
           (at[t] \in 1 .. Len(owned[t]) => n # owned[t][at[t]]) =>
             \A b \in Window(List[n]) :
               (b \in raw => b \in raw') /\ (b \in canon => b \in canon'),
         at[t] \in 1 .. Len(owned[t]) => Progress(t, at[t])'
  PROVE  Contents'
<1> USE DEF Control
<1>1. List' = List
  BY DEF List
<1>2. ASSUME phase = "inPlace", NEW n \in 1 .. Len(Regions), n >= next
      PROVE  Ready(Regions[n])'
  <2>1. List = Regions /\ Shape(Regions[n]) /\ Ready(Regions[n])
    BY <1>2, RegionsCut DEF List, Layout, Contents
  <2>2. at[t] \in 1 .. Len(owned[t]) => n # owned[t][at[t]]
    <3> SUFFICES ASSUME at[t] \in 1 .. Len(owned[t]) PROVE n # owned[t][at[t]]
      OBVIOUS
    <3>1. owned[t][at[t]] < next /\ owned[t][at[t]] \in Int
      BY <1>2 DEF Claims
    <3>2. next \in Int /\ n \in Int
      BY DEF Typed
    <3>3. QED BY <1>2, <3>1, <3>2
  <2>3. QED BY <2>1, <2>2, Unmoved
<1>3. ASSUME NEW u \in Threads, NEW k \in 1 .. Len(owned[u]) PROVE Progress(u, k)'
  <2>1. CASE u = t /\ k = at[t]
    BY <2>1
  <2>2. CASE ~(u = t /\ k = at[t])
    <3>1. PICK i : i = List[owned[u][k]]
      OBVIOUS
    <3>2. /\ owned[u][k] \in 1 .. Len(List) /\ Shape(i) /\ i = List'[owned'[u][k]]
          /\ Progress(u, k)
      BY <1>1, <3>1, ListCut DEF Claims, Layout, Contents
    <3>3. at[t] \in 1 .. Len(owned[t]) => owned[u][k] # owned[t][at[t]]
      BY <2>2 DEF Claims
    <3>4. \A b \in Window(i) : (b \in raw => b \in raw') /\ (b \in canon => b \in canon')
      BY <3>1, <3>2, <3>3
    <3>5. CASE u # t
      BY <1>1, <3>1, <3>2, <3>4, <3>5, ProgressKept
    <3>6. CASE u = t /\ k # at[t]
      <4>1. /\ Ready(i) => Ready(i)'
            /\ Window(i) \subseteq canon => Window(i) \subseteq canon'
        BY <3>2, <3>4, Unmoved
      <4>2. k < at[t] => Window(i) \subseteq canon
        BY <3>1, <3>2, <3>6 DEF Progress
      <4>3. k > at[t] => Ready(i)
        BY <3>1, <3>2, <3>6 DEF Progress
      <4>4. QED BY <3>2, <3>6, <4>1, <4>2, <4>3 DEF Progress
    <3>7. QED BY <2>2, <3>5, <3>6
  <2>3. QED BY <2>1, <2>2
<1>4. QED BY <1>2, <1>3 DEF Contents

\* A write to the window of one item is to no other item's.
LEMMA OneWindow ==
  ASSUME Control, NEW t \in Threads, pc[t] \in Busy,
         \A b : b \notin Window(Claimed(t)) => (b \in raw => b \in raw') /\ (b \in canon => b \in canon')
  PROVE  \A n \in 1 .. Len(List) :
           (at[t] \in 1 .. Len(owned[t]) => n # owned[t][at[t]]) =>
             \A b \in Window(List[n]) :
               (b \in raw => b \in raw') /\ (b \in canon => b \in canon')
<1> TAKE n \in 1 .. Len(List)
<1> HAVE at[t] \in 1 .. Len(owned[t]) => n # owned[t][at[t]]
<1>1. /\ at[t] \in 1 .. Len(owned[t]) /\ owned[t][at[t]] \in 1 .. Len(List)
      /\ Claimed(t) = List[owned[t][at[t]]]
  BY ClaimedItem
<1>2. Window(List[n]) \intersect Window(Claimed(t)) = {}
  BY <1>1, WindowsApart
<1>3. QED BY <1>2

\* A busy thread's item, and what is known of it.
LEMMA BusyItem ==
  ASSUME Control, Contents, NEW t \in Threads, pc[t] \in Busy
  PROVE  \E i :
           /\ i = Claimed(t) /\ Shape(i) /\ phase \in {"widen", "inPlace"}
           /\ at[t] \in 1 .. Len(owned[t]) /\ i = List[owned[t][at[t]]]
           /\ ~i.inPlace => Slot(i) \subseteq arena
           /\ pc[t] = "tail" => Ready(i)
           /\ pc[t] = "head" => TailDone(i) /\ GroupsDone(i, 0)
           /\ pc[t] = "groups" =>
                /\ TailDone(i) /\ GroupsDone(i, group[t]) /\ (i.inPlace => head[t])
                /\ group[t] \in 0 .. Groups(i)
<1> USE DEF Control
<1>1. PICK i : i = Claimed(t)
  OBVIOUS
<1>2. /\ phase \in {"fill", "widen", "inPlace"} /\ at[t] \in 1 .. Len(owned[t]) /\ Shape(i)
      /\ owned[t][at[t]] \in 1 .. Len(List) /\ i = List[owned[t][at[t]]]
  BY <1>1, ClaimedItem
<1>3. phase \in {"widen", "inPlace"}
  BY <1>2 DEF Place, Busy
<1>4. Progress(t, at[t])
  BY <1>2, <1>3 DEF Contents
<1>5. ~i.inPlace => Slot(i) \subseteq arena
  <2>1. CASE phase = "widen"
    BY <1>2, <2>1 DEF Contents, List
  <2>2. CASE phase = "inPlace"
    BY <1>2, <2>2, ListCut
  <2>3. QED BY <1>3, <2>1, <2>2
<1>6. pc[t] = "groups" => group[t] \in 0 .. Groups(i)
  <2>1. group[t] \in Nat /\ Groups(i) \in Nat
    BY <1>2, GroupsOf DEF Typed
  <2>2. pc[t] = "groups" => group[t] <= Groups(i)
    BY <1>1 DEF Place
  <2>3. QED BY <2>1, <2>2
<1>7. /\ pc[t] = "tail" => Ready(i)
      /\ pc[t] = "head" => TailDone(i) /\ GroupsDone(i, 0)
      /\ pc[t] = "groups" => TailDone(i) /\ GroupsDone(i, group[t]) /\ (i.inPlace => head[t])
  BY <1>2, <1>4 DEF Progress
<1>8. QED BY <1>1, <1>2, <1>3, <1>5, <1>6, <1>7

LEMMA NextItemContents ==
  ASSUME MapBytes % 15 # 14, Control, Contents, NEW t \in Threads, NextItem(t)
  PROVE  Contents'
<1> USE DEF Control
<1>1. /\ pc[t] = "item" /\ UNCHANGED <<phase, next, owned, work, mapVars, arena>>
      /\ pc' = [pc EXCEPT ![t] = IF at[t] > Len(owned[t]) THEN "ended" ELSE "tail"]
  BY DEF NextItem, Goto
<1>2. phase = "widen" /\ at[t] \in Nat /\ Len(owned[t]) \in Nat
  <2>1. at[t] \in Nat /\ Len(owned[t]) \in Nat
        /\ phase \in {"begin", "fill", "widen", "inPlace", "finish", "done"}
    BY DEF Typed
  <2>2. Place(t)
    OBVIOUS
  <2>3. QED BY <1>1, <2>1, <2>2 DEF Place, Busy
<1>3. ASSUME at[t] \in 1 .. Len(owned[t]) PROVE Progress(t, at[t])'
  <2>1. PICK i : i = List[owned[t][at[t]]]
    OBVIOUS
  <2>2. Progress(t, at[t])
    BY <1>2, <1>3 DEF Contents
  <2>3. Ready(i)
    BY <1>1, <2>1, <2>2 DEF Progress
  <2>4. Ready(i)'
    BY <1>1, <2>3 DEF Ready, mapVars
  <2>5. pc'[t] = "tail" /\ at'[t] = at[t] /\ i = List'[owned'[t][at'[t]]]
    BY <1>1, <1>2, <1>3, <2>1 DEF work, List, Typed
  <2>6. ~(at[t] < at[t]) /\ ~(at[t] > at[t])
    BY <1>2
  <2>7. QED BY <2>4, <2>5, <2>6 DEF Progress
<1>4. \A u \in Threads \ {t} : pc'[u] = pc[u] /\ group'[u] = group[u] /\ head'[u] = head[u]
  BY <1>1 DEF work, Typed
<1>5. UNCHANGED <<phase, next, owned, at, arena, raw, canon>>
  BY <1>1 DEF work, mapVars
<1>6. QED BY <1>2, <1>3, <1>4, <1>5, OthersStay

\* The tail is written from intact sources, above the sources of the groups.
LEMMA PartialContents ==
  ASSUME MapBytes % 15 # 14, Control, Contents, NEW t \in Threads, PartialGroup(t)
  PROVE  Contents'
<1> USE DEF Control
<1>1. /\ pc[t] = "tail" /\ UNCHANGED <<phase, next, owned, at, group, head, arena>>
      /\ pc' = [pc EXCEPT ![t] = "head"]
  BY DEF PartialGroup, Goto, work
<1>2. PICK i :
        /\ i = Claimed(t) /\ Shape(i) /\ phase \in {"widen", "inPlace"}
        /\ at[t] \in 1 .. Len(owned[t]) /\ i = List[owned[t][at[t]]] /\ Ready(i)
  BY <1>1, BusyItem DEF Busy
<1> DEFINE g == Groups(i)
<1>3. /\ i.win \in Nat /\ i.size \in Nat /\ i.len \in Nat /\ i.len <= i.size
      /\ g \in Nat /\ 8 * g <= i.len /\ 15 * g <= i.size /\ (~HasTail(i) => i.size = 15 * g)
      /\ i.src \in Nat
  BY <1>2, GroupsOf DEF Shape
<1>4. /\ IF HasTail(i) THEN Write(i, g, Intact(i, g)) ELSE UNCHANGED mapVars
      /\ Intact(i, g)
  <2>1. IF HasTail(i) THEN Write(i, g, Intact(i, g)) ELSE UNCHANGED mapVars
    BY <1>2 DEF PartialGroup
  <2>2. CASE i.inPlace
    <3>1. InMap(i, g) \subseteq i.win .. i.win + i.len - 1
      BY <1>2, <1>3, <2>2, SourcesInWindow
    <3>2. QED BY <1>2, <2>1, <2>2, <3>1 DEF Intact, Ready
  <2>3. CASE ~i.inPlace
    <3>1. InArena(i, g) \subseteq Slot(i)
      BY <1>2, <1>3, DepositReady
    <3>2. QED BY <1>2, <2>1, <2>3, <3>1 DEF Intact, Ready
  <2>4. QED BY <2>2, <2>3
<1>5. Target(i, g) = i.win + 15 * g .. i.win + i.size - 1
  BY <1>3 DEF Target
<1> HIDE DEF g
<1>6. /\ \A b : b \notin i.win + 15 * g .. i.win + i.size - 1 => (b \in raw => b \in raw')
      /\ canon \subseteq canon' /\ i.win + 15 * g .. i.win + i.size - 1 \subseteq canon'
  <2>1. CASE HasTail(i)
    <3>1. Intact(i, g) = TRUE /\ Target(i, g) \subseteq Window(i)
      BY <1>2, <1>4, <2>1, TargetsInWindow DEF g, Intact
    <3>2. Write(i, g, TRUE)
      BY <1>4, <2>1, <3>1
    <3>3. /\ \A b : b \notin Target(i, g) => (b \in raw' <=> b \in raw)
          /\ canon' = canon \union Target(i, g)
      BY <1>2, <3>1, <3>2, WriteIntact
    <3>4. QED BY <1>5, <3>3
  <2>2. CASE ~HasTail(i)
    <3>1. i.win + 15 * g .. i.win + i.size - 1 = {}
      BY <1>3, <2>2
    <3>2. QED BY <1>4, <2>2, <3>1 DEF mapVars
  <2>3. QED BY <2>1, <2>2
<1>7. TailDone(i)'
  BY <1>6 DEF TailDone, g
<1>8. GroupsDone(i, 0)'
  <2>1. CASE i.inPlace
    <3>1. i.win .. i.win + i.len - 1 \subseteq raw
      BY <1>2, <2>1 DEF Ready
    <3>2. i.win .. i.win + 8 * (g - 0) - 1 \subseteq raw'
      <4> SUFFICES ASSUME NEW b \in i.win .. i.win + 8 * (g - 0) - 1 PROVE b \in raw'
        OBVIOUS
      <4>1. b \in i.win .. i.win + i.len - 1 /\ b \notin i.win + 15 * g .. i.win + i.size - 1
        BY <1>3
      <4>2. QED BY <1>6, <3>1, <4>1
    <3>3. i.win + 15 * (g - 0) .. i.win + 15 * g - 1 = {}
      BY <1>3
    <3>4. QED BY <2>1, <3>2, <3>3 DEF GroupsDone, g
  <2>2. CASE ~i.inPlace
    <3>1. i.win .. i.win + 15 * 0 - 1 = {}
      BY <1>3
    <3>2. QED BY <2>2, <3>1 DEF GroupsDone
  <2>3. QED BY <2>1, <2>2
<1>9. Progress(t, at[t])'
  <2>1. pc'[t] = "head" /\ at'[t] = at[t] /\ i = List'[owned'[t][at'[t]]] /\ at[t] \in Int
    BY <1>1, <1>2 DEF List, Typed
  <2>2. ~(at[t] < at[t]) /\ ~(at[t] > at[t])
    BY <2>1
  <2>3. QED BY <1>7, <1>8, <2>1, <2>2 DEF Progress
<1>10. \A b : b \notin Window(i) => (b \in raw => b \in raw') /\ (b \in canon => b \in canon')
  <2>1. i.win + 15 * g .. i.win + i.size - 1 \subseteq Window(i)
    BY <1>3 DEF Window
  <2>2. QED BY <1>6, <2>1
<1>11. \A u \in Threads \ {t} : pc'[u] = pc[u] /\ group'[u] = group[u] /\ head'[u] = head[u]
  BY <1>1 DEF Typed
<1>12. \A n \in 1 .. Len(List) :
         (at[t] \in 1 .. Len(owned[t]) => n # owned[t][at[t]]) =>
           \A b \in Window(List[n]) : (b \in raw => b \in raw') /\ (b \in canon => b \in canon')
  BY <1>1, <1>2, <1>10, OneWindow DEF Busy
<1>13. QED BY <1>1, <1>2, <1>9, <1>11, <1>12, OthersStay

\* The two groups that reach below their own target are staged first.
LEMMA StageContents ==
  ASSUME MapBytes % 15 # 14, Control, Contents, NEW t \in Threads, StageHead(t)
  PROVE  Contents'
<1> USE DEF Control
<1>1. /\ pc[t] = "head" /\ UNCHANGED <<phase, next, owned, at, raw, canon, arena>>
      /\ pc' = [pc EXCEPT ![t] = "groups"] /\ group' = [group EXCEPT ![t] = 0]
  BY DEF StageHead, Goto, mapVars
<1>2. PICK i :
        /\ i = Claimed(t) /\ Shape(i) /\ phase \in {"widen", "inPlace"}
        /\ at[t] \in 1 .. Len(owned[t]) /\ i = List[owned[t][at[t]]]
        /\ TailDone(i) /\ GroupsDone(i, 0)
  BY <1>1, BusyItem DEF Busy
<1>3. head'[t] = (i.inPlace /\ \A q \in {q \in {0, 1} : q < Groups(i)} : InMap(i, q) \subseteq raw)
  BY <1>2 DEF StageHead, Typed
<1>4. i.inPlace => head'[t]
  <2> SUFFICES ASSUME i.inPlace, NEW q \in {0, 1}, q < Groups(i) PROVE InMap(i, q) \subseteq raw
    BY <1>2, <1>3 DEF Shape
  <2>1. InMap(i, q) \subseteq i.win + 8 * q .. i.win + 8 * q + 7
    BY <1>2, SourcesInWindow
  <2>2. i.win \in Nat /\ Groups(i) \in Nat
    BY <1>2, GroupsOf DEF Shape
  <2>3. i.win + 8 * q .. i.win + 8 * q + 7 \subseteq i.win .. i.win + 8 * (Groups(i) - 0) - 1
    BY <2>2
  <2>4. QED BY <1>2, <2>1, <2>3 DEF GroupsDone
<1>5. TailDone(i)' /\ GroupsDone(i, 0)'
  BY <1>1, <1>2 DEF TailDone, GroupsDone
<1>6. Progress(t, at[t])'
  <2>1. /\ pc'[t] = "groups" /\ group'[t] = 0 /\ at'[t] = at[t]
        /\ i = List'[owned'[t][at'[t]]] /\ at[t] \in Int
    BY <1>1, <1>2 DEF List, Typed
  <2>2. ~(at[t] < at[t]) /\ ~(at[t] > at[t])
    BY <2>1
  <2>3. QED BY <1>4, <1>5, <2>1, <2>2 DEF Progress
<1>7. \A u \in Threads \ {t} : pc'[u] = pc[u] /\ group'[u] = group[u] /\ head'[u] = head[u]
  BY <1>1 DEF StageHead, Typed
<1>8. QED BY <1>1, <1>2, <1>6, <1>7, OthersStay

\* What a group is made from is intact when it is its turn.
LEMMA TurnIsIntact ==
  ASSUME NEW i, Shape(i), NEW n \in Nat, n < Groups(i), GroupsDone(i, n),
         ~i.inPlace => Slot(i) \subseteq arena
  PROVE  Turn(i, n) \in 0 .. Groups(i) - 1 /\ Intact(i, Turn(i, n))
<1>1. Turn(i, n) \in 0 .. Groups(i) - 1 /\ Groups(i) \in Nat
  BY TurnInRange, GroupsOf
<1>2. CASE i.inPlace
  <2>1. Turn(i, n) = Groups(i) - 1 - n
    BY <1>2 DEF Turn
  <2>2. InMap(i, Turn(i, n)) \subseteq i.win + 8 * Turn(i, n) .. i.win + 8 * Turn(i, n) + 7
    BY <1>1, <1>2, SourcesInWindow
  <2>3. i.win \in Nat
    BY DEF Shape
  <2>4. i.win + 8 * Turn(i, n) .. i.win + 8 * Turn(i, n) + 7
          \subseteq i.win .. i.win + 8 * (Groups(i) - n) - 1
    BY <1>1, <2>1, <2>3
  <2>5. QED BY <1>1, <1>2, <2>2, <2>4 DEF GroupsDone, Intact
<1>3. CASE ~i.inPlace
  <2>1. InArena(i, Turn(i, n)) \subseteq Slot(i)
    BY <1>1, DepositReady
  <2>2. QED BY <1>1, <1>3, <2>1 DEF Intact
<1>4. QED BY <1>2, <1>3

\* A group is written above the sources of the groups whose turn is still to come.
LEMMA WidenContents ==
  ASSUME MapBytes % 15 # 14, Control, Contents, NEW t \in Threads, WidenGroup(t)
  PROVE  Contents'
<1> USE DEF Control
<1>1. /\ pc[t] = "groups" /\ UNCHANGED <<phase, next, pc, owned, at, head, arena>>
      /\ group' = [group EXCEPT ![t] = @ + 1]
  BY DEF WidenGroup
<1>2. PICK i :
        /\ i = Claimed(t) /\ Shape(i) /\ phase \in {"widen", "inPlace"}
        /\ at[t] \in 1 .. Len(owned[t]) /\ i = List[owned[t][at[t]]]
        /\ ~i.inPlace => Slot(i) \subseteq arena
        /\ TailDone(i) /\ GroupsDone(i, group[t]) /\ (i.inPlace => head[t])
        /\ group[t] \in 0 .. Groups(i)
  BY <1>1, BusyItem DEF Busy
<1>3. PICK n : n = group[t]
  OBVIOUS
<1> DEFINE g == Groups(i)
           q == Turn(i, n)
<1>4. /\ n \in Nat /\ n < g /\ g \in Nat /\ GroupsDone(i, n)
      /\ i.win \in Nat /\ i.size \in Nat /\ 15 * g <= i.size
      /\ i.inPlace \in BOOLEAN
  <2>1. group[t] < Groups(Claimed(t))
    BY DEF WidenGroup
  <2>2. n \in Nat /\ n < g /\ GroupsDone(i, n)
    BY <1>2, <1>3, <2>1 DEF Typed
  <2>3. g \in Nat
    BY <1>2, GroupsOf
  <2>4. i.win \in Nat /\ i.size \in Nat /\ i.inPlace \in BOOLEAN /\ 15 * g <= i.size
    BY <1>2 DEF Shape
  <2>5. QED BY <2>2, <2>3, <2>4
<1>5. q \in 0 .. g - 1 /\ Intact(i, q)
  BY <1>2, <1>4, TurnIsIntact
<1>6. Write(i, q, TRUE)
  <2>1. Write(i, q, IF i.inPlace /\ q < 2 THEN head[t] ELSE Intact(i, q))
    BY <1>2, <1>3 DEF WidenGroup
  <2>2. Intact(i, q) \in BOOLEAN /\ head[t] \in BOOLEAN
    BY DEF Intact, Typed
  <2>3. (IF i.inPlace /\ q < 2 THEN head[t] ELSE Intact(i, q)) = TRUE
    BY <1>2, <1>5, <2>2
  <2>4. QED BY <2>1, <2>3
<1>7. Target(i, q) = i.win + 15 * q .. i.win + 15 * q + 14 /\ Target(i, q) \subseteq Window(i)
  <2>1. Target(i, q) \subseteq Window(i)
    BY <1>2, <1>5, TargetsInWindow
  <2>2. q < Groups(i)
    BY <1>4, <1>5
  <2>3. QED BY <2>1, <2>2 DEF Target
<1>8. /\ \A b : b \notin i.win + 15 * q .. i.win + 15 * q + 14 => (b \in raw' <=> b \in raw)
      /\ canon' = canon \union (i.win + 15 * q .. i.win + 15 * q + 14)
  BY <1>2, <1>6, <1>7, WriteIntact
<1>9. q = IF i.inPlace THEN g - 1 - n ELSE n
  BY DEF Turn
<1> HIDE DEF g, q
<1>10. TailDone(i)'
  BY <1>2, <1>8 DEF TailDone
<1>11. GroupsDone(i, n + 1)'
  <2>1. CASE i.inPlace
    <3>1. /\ i.win .. i.win + 8 * (g - n) - 1 \subseteq raw
          /\ i.win + 15 * (g - n) .. i.win + 15 * g - 1 \subseteq canon
      BY <1>4, <2>1 DEF GroupsDone, g
    <3>2. i.win .. i.win + 8 * (g - (n + 1)) - 1 \subseteq raw'
      <4> SUFFICES ASSUME NEW b \in i.win .. i.win + 8 * (g - (n + 1)) - 1 PROVE b \in raw'
        OBVIOUS
      <4>1. /\ b \in i.win .. i.win + 8 * (g - n) - 1
            /\ b \notin i.win + 15 * q .. i.win + 15 * q + 14
        BY <1>4, <1>5, <1>9, <2>1
      <4>2. QED BY <1>8, <3>1, <4>1
    <3>3. i.win + 15 * (g - (n + 1)) .. i.win + 15 * g - 1 \subseteq canon'
      <4> SUFFICES ASSUME NEW b \in i.win + 15 * (g - (n + 1)) .. i.win + 15 * g - 1
                   PROVE  b \in canon'
        OBVIOUS
      <4>1. \/ b \in i.win + 15 * (g - n) .. i.win + 15 * g - 1
            \/ b \in i.win + 15 * q .. i.win + 15 * q + 14
        BY <1>4, <1>5, <1>9, <2>1
      <4>2. QED BY <1>8, <3>1, <4>1
    <3>4. QED BY <2>1, <3>2, <3>3 DEF GroupsDone, g
  <2>2. CASE ~i.inPlace
    <3>1. i.win .. i.win + 15 * n - 1 \subseteq canon
      BY <1>4, <2>2 DEF GroupsDone
    <3>2. i.win .. i.win + 15 * (n + 1) - 1 \subseteq canon'
      <4> SUFFICES ASSUME NEW b \in i.win .. i.win + 15 * (n + 1) - 1 PROVE b \in canon'
        OBVIOUS
      <4>1. \/ b \in i.win .. i.win + 15 * n - 1
            \/ b \in i.win + 15 * q .. i.win + 15 * q + 14
        BY <1>4, <1>5, <1>9, <2>2
      <4>2. QED BY <1>8, <3>1, <4>1
    <3>3. QED BY <2>2, <3>2 DEF GroupsDone
  <2>3. QED BY <2>1, <2>2
<1>12. Progress(t, at[t])'
  <2>1. /\ pc'[t] = "groups" /\ group'[t] = n + 1 /\ at'[t] = at[t] /\ head' = head
        /\ i = List'[owned'[t][at'[t]]] /\ at[t] \in Int
    BY <1>1, <1>2, <1>3 DEF List, Typed
  <2>2. ~(at[t] < at[t]) /\ ~(at[t] > at[t])
    BY <2>1
  <2>3. QED BY <1>2, <1>10, <1>11, <2>1, <2>2 DEF Progress
<1>13. \A b : b \notin Window(i) => (b \in raw => b \in raw') /\ (b \in canon => b \in canon')
  BY <1>7, <1>8
<1>14. \A u \in Threads \ {t} : pc'[u] = pc[u] /\ group'[u] = group[u] /\ head'[u] = head[u]
  BY <1>1 DEF Typed
<1>15. \A m \in 1 .. Len(List) :
         (at[t] \in 1 .. Len(owned[t]) => m # owned[t][at[t]]) =>
           \A b \in Window(List[m]) : (b \in raw => b \in raw') /\ (b \in canon => b \in canon')
  BY <1>1, <1>2, <1>13, OneWindow DEF Busy
<1>16. QED BY <1>1, <1>2, <1>12, <1>14, <1>15, OthersStay

\* When every group has had its turn the window is written.
LEMMA DoneContents ==
  ASSUME MapBytes % 15 # 14, Control, Contents, NEW t \in Threads, ItemDone(t)
  PROVE  Contents'
<1> USE DEF Control
<1>1. /\ pc[t] = "groups" /\ group[t] = Groups(Claimed(t))
      /\ UNCHANGED <<phase, next, owned, group, head, raw, canon, structural, arena>>
      /\ \A u \in Threads \ {t} : pc'[u] = pc[u] /\ at'[u] = at[u]
      /\ \/ phase = "inPlace" /\ pc'[t] = "claim" /\ at'[t] = at[t]
         \/ phase # "inPlace" /\ pc'[t] = "item" /\ at'[t] = at[t] + 1
  BY DEF ItemDone, Goto, mapVars, Typed
<1>2. PICK i :
        /\ i = Claimed(t) /\ Shape(i) /\ phase \in {"widen", "inPlace"}
        /\ at[t] \in 1 .. Len(owned[t]) /\ i = List[owned[t][at[t]]]
        /\ TailDone(i) /\ GroupsDone(i, group[t])
  BY <1>1, BusyItem DEF Busy
<1>3. Window(i) \subseteq canon
  <2> SUFFICES ASSUME NEW b \in Window(i) PROVE b \in canon
    OBVIOUS
  <2> DEFINE g == Groups(i)
  <2>1. /\ i.win \in Nat /\ i.size \in Nat /\ g \in Nat /\ group[t] = g
        /\ b \in i.win .. i.win + i.size - 1
    BY <1>1, <1>2, GroupsOf DEF Shape, Window
  <2>2. i.win + 15 * g .. i.win + i.size - 1 \subseteq canon
    BY <1>2 DEF TailDone
  <2>3. i.win .. i.win + 15 * g - 1 \subseteq canon
    <3>1. CASE i.inPlace
      <4>1. i.win + 15 * (g - g) .. i.win + 15 * g - 1 \subseteq canon
        BY <1>2, <2>1, <3>1 DEF GroupsDone
      <4>2. i.win + 15 * (g - g) = i.win
        BY <2>1
      <4>3. QED BY <4>1, <4>2
    <3>2. CASE ~i.inPlace
      BY <1>2, <2>1, <3>2 DEF GroupsDone
    <3>3. QED BY <3>1, <3>2
  <2> HIDE DEF g
  <2>4. b \in i.win .. i.win + 15 * g - 1 \/ b \in i.win + 15 * g .. i.win + i.size - 1
    BY <2>1
  <2>5. QED BY <2>2, <2>3, <2>4
<1>4. List' = List /\ \A j : (Ready(j) => Ready(j)')
  BY <1>1 DEF List, Ready
<1>5. ASSUME NEW u \in Threads, NEW k \in 1 .. Len(owned[u]) PROVE Progress(u, k)'
  <2>1. Progress(u, k)
    BY <1>2 DEF Contents
  <2>2. CASE u # t
    BY <1>1, <1>2, <1>4, <2>1, <2>2, ProgressKept
  <2>3. CASE u = t
    <3>1. PICK j : j = List[owned[t][k]]
      OBVIOUS
    <3>2. /\ j = List'[owned'[t][k]] /\ at[t] \in Int /\ k \in Int
          /\ k < at[t] => Window(j) \subseteq canon
          /\ k > at[t] => Ready(j)
      BY <1>1, <1>2, <1>4, <2>1, <2>3, <3>1 DEF Progress
    <3>3. k <= at[t] => Window(j) \subseteq canon'
      <4>1. k = at[t] => j = i
        BY <1>2, <3>1
      <4>2. k <= at[t] => k < at[t] \/ k = at[t]
        BY <3>2
      <4>3. QED BY <1>1, <1>3, <3>2, <4>1, <4>2
    <3>4. k > at[t] => Ready(j)'
      BY <1>4, <3>2
    <3>5. CASE phase = "inPlace"
      <4>1. pc'[t] = "claim" /\ at'[t] = at[t]
        BY <1>1, <3>5
      <4>2. QED BY <2>3, <3>2, <3>3, <3>4, <4>1 DEF Progress
    <3>6. CASE phase # "inPlace"
      <4>1. pc'[t] = "item" /\ at'[t] = at[t] + 1
        BY <1>1, <3>6
      <4>2. (k < at'[t] => k <= at[t]) /\ (k = at'[t] => k > at[t]) /\ (k > at'[t] => k > at[t])
        BY <3>2, <4>1
      <4>3. QED BY <2>3, <3>2, <3>3, <3>4, <4>1, <4>2 DEF Progress
    <3>7. QED BY <3>5, <3>6
  <2>4. QED BY <2>2, <2>3
<1>6. phase = "inPlace" => \A n \in 1 .. Len(Regions) : n >= next' => Ready(Regions[n])'
  BY <1>1, <1>4 DEF Contents
<1>7. QED BY <1>1, <1>2, <1>5, <1>6 DEF Contents

LEMMA ContentsStep ==
  ASSUME MapBytes % 15 # 14, Control, Contents, [Next]_vars
  PROVE  Contents'
<1>1. CASE UNCHANGED vars
  <2>1. UNCHANGED <<phase, next, pc, owned, at, group, head, raw, canon, arena, structural>>
        /\ List' = List
    BY <1>1 DEF vars, List
  <2>2. ASSUME phase \in {"widen", "inPlace"}, NEW t \in Threads, NEW k \in 1 .. Len(owned[t])
        PROVE  Progress(t, k)'
    <3>1. Progress(t, k)
      BY <2>2 DEF Contents
    <3>2. QED BY <2>1, <2>2, <3>1, ProgressKept
  <2>3. \A i : Ready(i) => Ready(i)'
    BY <2>1 DEF Ready
  <2>4. phase = "inPlace" => \A n \in 1 .. Len(Regions) : n >= next' => Ready(Regions[n])'
    BY <2>1, <2>3 DEF Contents
  <2>5. QED BY <2>1, <2>2, <2>4 DEF Contents
<1>2. QED
  BY <1>1, MainContents, ClaimContents, CopyContents, NextItemContents, PartialContents,
     StageContents, WidenContents, DoneContents DEF Next, Thread, Idle

-----------------------------------------------------------------------------
(* The theorems *)

LEMMA ControlInvariance == Spec => []Control
<1>1. Init => Control
  BY InitControl
<1>2. Control /\ [Next]_vars => Control'
  BY ControlStep
<1>3. QED BY <1>1, <1>2, PTL DEF Spec

\* While a thread is on an item no other thread writes a byte it reads or writes
\* in the map, for every map and pool and whether or not the arena could be had
\* (pull_scheduler.cpp:800-807).
THEOREM WindowsAreApart == Spec => []NoSharedBytes
<1>1. Control => NoSharedBytes
  BY ControlSeparates
<1>2. QED BY ControlInvariance, <1>1, PTL

\* What is written stays in the window of its item (pull_scheduler.h:130-131,
\* pull_scheduler.cpp:802-804), unless the last group of the map is one byte short:
\* then its last source byte is there, and the group is written whole.
THEOREM WritesContained ==
  ASSUME MapBytes % 15 # 14
  PROVE  Spec => []WritesStayInWindow
<1>1. Control => WritesStayInWindow
  BY ControlContains
<1>2. QED BY ControlInvariance, <1>1, PTL

\* On return every byte of the map is canonical, made from sources nobody had
\* overwritten, and 3 and 5 are marked (pull_scheduler.h:133-136,
\* pull_scheduler.cpp:1021-1024): for every such map, slab, tile and pool,
\* whichever threads did the items and with the arena or without.
THEOREM ExpansionIsCanonical ==
  ASSUME MapBytes % 15 # 14
  PROVE  Spec => []MapIsCanonical
<1>1. Init => ExpansionInv
  BY InitControl, InitContents DEF ExpansionInv
<1>2. ExpansionInv /\ [Next]_vars => ExpansionInv'
  BY ControlStep, ContentsStep DEF ExpansionInv
<1>3. ExpansionInv => MapIsCanonical
  BY DEF ExpansionInv, Contents, MapIsCanonical
<1>4. QED BY <1>1, <1>2, <1>3, PTL DEF Spec
=============================================================================
