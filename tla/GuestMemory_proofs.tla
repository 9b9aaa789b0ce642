------------------------- MODULE GuestMemory_proofs -------------------------
(***************************************************************************)
(* Proofs about GuestMemory, for every size of the address space, every    *)
(* page size, heap and arena, and every set of requests.                   *)
(***************************************************************************)
EXTENDS GuestMemory, WellFoundedInduction, TLAPS

-----------------------------------------------------------------------------
(* Arithmetic of the alignment helpers *)

\* A remainder is a natural below the modulus and not above the dividend.
LEMMA ModRange ==
  ASSUME NEW v \in Nat, NEW a \in Nat \ {0}
  PROVE  v % a \in Nat /\ v % a < a /\ v % a <= v
<1>1. v % a \in 0 .. a - 1
  OBVIOUS
<1>2. CASE v < a
  <2>1. v % a = v
    BY <1>2
  <2> QED BY <2>1, <1>2
<1>3. CASE ~ (v < a)
  BY <1>1, <1>3
<1> QED BY <1>1, <1>2, <1>3

\* Quotient and remainder, and the remainder of a sum of that form.
LEMMA DivMod ==
  ASSUME NEW v \in Int, NEW a \in Nat \ {0}
  PROVE  v \div a \in Int /\ v % a \in 0 .. a - 1 /\ v = a * (v \div a) + (v % a)
OBVIOUS

LEMMA ModOfSum ==
  ASSUME NEW q \in Int, NEW a \in Nat \ {0}, NEW r \in 0 .. a - 1
  PROVE  (a * q + r) % a = r
OBVIOUS

\* Multiples of a: their difference is one, they are at least a apart, and
\* align_down gives one.
LEMMA MultipleMinus ==
  ASSUME NEW x \in Int, NEW y \in Int, NEW a \in Nat \ {0}, x % a = 0, y % a = 0
  PROVE  (x - y) % a = 0
<1> DEFINE p == x \div a
           q == y \div a
<1>1. p \in Int /\ q \in Int /\ x = a * p /\ y = a * q
  BY DivMod
<1> HIDE DEF p, q
<1>2. x - y = a * (p - q) + 0 /\ p - q \in Int
  BY <1>1
<1> QED BY <1>2, ModOfSum

LEMMA MultipleGap ==
  ASSUME NEW x \in Nat, NEW y \in Nat, NEW a \in Nat \ {0}, x % a = 0, y % a = 0, y < x
  PROVE  y + a <= x
<1> DEFINE p == x \div a
           q == y \div a
<1>1. p \in Int /\ q \in Int /\ x = a * p /\ y = a * q
  BY DivMod
<1> HIDE DEF p, q
<1>2. q + 1 <= p
  BY <1>1
<1>3. a * (q + 1) <= a * p /\ a * (q + 1) = a * q + a
  BY <1>1, <1>2
<1> QED BY <1>1, <1>3

LEMMA AlignDownMultiple ==
  ASSUME NEW x \in Nat, NEW a \in Nat \ {0}
  PROVE  AlignDown(x, a) % a = 0
<1> DEFINE p == x \div a
<1>1. p \in Int /\ x = a * p + (x % a) /\ x % a \in Int
  BY DivMod
<1> HIDE DEF p
<1>2. x - (x % a) = a * p + 0
  BY <1>1
<1> QED BY <1>1, <1>2, ModOfSum DEF AlignDown

\* align_up, when it does not wrap: not below its argument, a multiple, and the
\* argument itself if that is one.
LEMMA AlignUpExact ==
  ASSUME NEW v \in Nat, NEW a \in Nat \ {0}, v + a <= Word
  PROVE  /\ v <= AlignUp(v, a)
         /\ AlignUp(v, a) % a = 0
         /\ v % a = 0 => AlignUp(v, a) = v
<1>1. (v + (a - 1)) % Word = v + (a - 1)
  BY WordAssumption
<1>2. AlignUp(v, a) = AlignDown(v + (a - 1), a)
  BY <1>1 DEF AlignUp
<1>3. (v + (a - 1)) % a \in 0 .. a - 1
  BY DivMod
<1>4. v % a = 0 => (v + (a - 1)) % a = a - 1
  <2> DEFINE p == v \div a
  <2> SUFFICES ASSUME v % a = 0 PROVE (v + (a - 1)) % a = a - 1
    OBVIOUS
  <2>1. p \in Int /\ v = a * p
    BY DivMod
  <2> HIDE DEF p
  <2>2. v + (a - 1) = a * p + (a - 1)
    BY <2>1
  <2> QED BY <2>1, <2>2, ModOfSum
<1>5. AlignUp(v, a) = (v + (a - 1)) - ((v + (a - 1)) % a)
  BY <1>2 DEF AlignDown
<1>6. AlignUp(v, a) % a = 0
  BY <1>2, AlignDownMultiple, v + (a - 1) \in Nat
<1>7. ASSUME NEW r \in 0 .. a - 1
      PROVE  v <= (v + (a - 1)) - r /\ (r = a - 1 => (v + (a - 1)) - r = v)
  OBVIOUS
<1> QED BY <1>3, <1>4, <1>5, <1>6, <1>7

\* align_up and align_down of an address are addresses.
LEMMA AlignAddress ==
  ASSUME NEW v \in Nat, NEW a \in Nat \ {0}
  PROVE  /\ AlignDown(v, a) \in Nat /\ AlignDown(v, a) <= v
         /\ AlignUp(v, a) \in Address
<1>1. AlignDown(v, a) \in Nat /\ AlignDown(v, a) <= v
  BY ModRange DEF AlignDown
<1>2. (v + (a - 1)) % Word \in Nat /\ (v + (a - 1)) % Word < Word
  BY ModRange, WordAssumption
<1>3. AlignDown((v + (a - 1)) % Word, a) \in Nat /\ AlignDown((v + (a - 1)) % Word, a) < Word
  BY <1>2, ModRange, WordAssumption DEF AlignDown
<1> QED BY <1>1, <1>3, WordAssumption DEF AlignUp, Address

-----------------------------------------------------------------------------
(* The nearest region *)

\* A non-empty set of addresses has a greatest element, and Max returns it.
LEMMA MaxExists ==
  ASSUME NEW S, S \subseteq Address, S # {}
  PROVE  Max(S) \in S /\ \A x \in S : x <= Max(S)
<1> DEFINE R == OpToRel(<, Nat)
           T == {Word - x : x \in S}
<1>1. IsWellFoundedOn(R, Nat)
  BY NatLessThanWellFounded
<1>2. T \subseteq Nat /\ T # {}
  BY WordAssumption DEF Address
<1>3. PICK t \in T : \A y \in T : ~ (<<y, t>> \in R)
  <2> HIDE DEF T, R
  <2> QED BY <1>1, <1>2, WFMin
<1>4. PICK m \in S : t = Word - m
  OBVIOUS
<1>5. \A x \in S : x <= m
  <2> SUFFICES ASSUME NEW x \in S PROVE x <= m
    OBVIOUS
  <2>1. ~ (<<Word - x, t>> \in R) /\ Word - x \in Nat /\ t \in Nat
    BY <1>2, <1>3
  <2>2. ~ (Word - x < t)
    BY <2>1 DEF OpToRel
  <2> QED BY <2>2, <1>4, WordAssumption DEF Address
<1>6. \E x \in S : \A y \in S : x >= y
  BY <1>5, WordAssumption DEF Address
<1> QED BY <1>6, WordAssumption DEF Max, Address

\* The region that region_base and slice look at is one that starts at or
\* below the address.
LEMMA NearestBelow ==
  ASSUME TypeOK, NEW bound \in Nat, Below(bound) # {}
  PROVE  /\ Max(Below(bound)) \in DOMAIN regions
         /\ Max(Below(bound)) < bound
         /\ \A b \in DOMAIN regions : b < bound => b <= Max(Below(bound))
<1>1. Below(bound) \subseteq Address
  BY DEF Below, TypeOK
<1>2. Max(Below(bound)) \in Below(bound) /\ \A x \in Below(bound) : x <= Max(Below(bound))
  BY <1>1, MaxExists
<1> QED BY <1>2 DEF Below

\* A region that does not wrap ends where its size says.
LEMMA EndExact ==
  ASSUME TypeOK, RegionsDisjoint, NEW b \in DOMAIN regions
  PROVE  /\ b \in Nat /\ regions[b].size \in Nat
         /\ RegionEnd(b) = b + regions[b].size
<1>1. b \in Nat /\ regions[b].size \in Nat /\ b + regions[b].size < Word
  BY WordAssumption DEF TypeOK, RegionsDisjoint, Address
<1>2. (b + regions[b].size) % Word = b + regions[b].size
  BY <1>1, WordAssumption
<1> QED BY <1>1, <1>2 DEF RegionEnd

\* Looking at one region is enough: check_free accepts only a range that no
\* region meets.
LEMMA CheckFreeSound ==
  ASSUME TypeOK, RegionsDisjoint,
         NEW base \in Nat, NEW size \in Nat, CheckFree(base, size)
  PROVE  /\ base + size < Word
         /\ \A b \in DOMAIN regions : b + regions[b].size <= base \/ base + size <= b
<1>1. base + size < Word
  BY DEF CheckFree
<1>2. ASSUME NEW b \in DOMAIN regions, ~ (base + size <= b)
      PROVE  b + regions[b].size <= base
  <2> DEFINE m == Max(Below(base + size))
  <2>1. b \in Nat /\ regions[b].size \in Nat
    BY EndExact
  <2>2. b < base + size
    BY <1>2, <2>1
  <2>3. Below(base + size) # {}
    BY <2>2 DEF Below
  <2>4. m \in DOMAIN regions /\ b <= m
    BY <2>2, <2>3, NearestBelow
  <2>5. m \in Nat /\ regions[m].size \in Nat /\ RegionEnd(m) = m + regions[m].size
    BY <2>4, EndExact
  <2>6. m + regions[m].size <= base
    BY <2>3, <2>5 DEF CheckFree
  <2>7. b < m => b + regions[b].size <= m
    BY <2>4 DEF RegionsDisjoint
  <2> HIDE DEF m
  <2> QED BY <2>1, <2>4, <2>5, <2>6, <2>7
<1> QED BY <1>1, <1>2

-----------------------------------------------------------------------------
(* The inductive invariant *)

Inv == TypeOK /\ RegionsDisjoint

\* Inserting a region where check_free saw room keeps the regions apart.
LEMMA InsertKeepsInv ==
  ASSUME TypeOK, RegionsDisjoint,
         NEW base \in Address, NEW size \in Address, NEW prot \in SUBSET Flag,
         NEW kind \in Kind,
         CheckFree(base, size),
         regions' = Insert(base, Region(size, prot, kind))
  PROVE  /\ DOMAIN regions' \subseteq Address
         /\ regions' \in [DOMAIN regions' -> [size : Address, prot : SUBSET Flag, kind : Kind]]
         /\ RegionsDisjoint'
<1>1. base \in Nat /\ size \in Nat
  BY WordAssumption DEF Address
<1>2. DOMAIN regions' = DOMAIN regions \cup {base}
  BY DEF Insert
<1>3. regions'[base].size = size
  BY DEF Insert, Region
<1>4. \A b \in DOMAIN regions : b # base => regions'[b] = regions[b]
  BY DEF Insert
<1>5. \A b \in DOMAIN regions' : regions'[b] \in [size : Address, prot : SUBSET Flag, kind : Kind]
  BY DEF Insert, Region, TypeOK
<1>6. regions' = [b \in DOMAIN regions' |-> regions'[b]]
  BY DEF Insert
<1>7. /\ base + size < Word
      /\ \A b \in DOMAIN regions : b + regions[b].size <= base \/ base + size <= b
  BY <1>1, CheckFreeSound
<1>8. \A b \in DOMAIN regions : b \in Nat /\ regions[b].size \in Nat
  BY EndExact
<1>9. ASSUME NEW a \in DOMAIN regions'
      PROVE  /\ a + regions'[a].size < Word
             /\ \A b \in DOMAIN regions' : a < b => a + regions'[a].size <= b
  <2>1. CASE a = base
    BY <1>1, <1>2, <1>3, <1>7, <1>8, <2>1
  <2>2. CASE a # base
    <3>1. a \in DOMAIN regions /\ regions'[a] = regions[a]
      BY <1>2, <1>4, <2>2
    <3>2. a + regions[a].size < Word
      BY <3>1 DEF RegionsDisjoint
    <3>3. \A b \in DOMAIN regions : a < b => a + regions[a].size <= b
      BY <3>1 DEF RegionsDisjoint
    <3>4. a < base => a + regions[a].size <= base
      BY <1>1, <1>7, <1>8, <3>1
    <3> QED BY <1>2, <3>1, <3>2, <3>3, <3>4
  <2> QED BY <2>1, <2>2
<1>10. DOMAIN regions' \subseteq Address
  BY <1>2 DEF TypeOK
<1>11. RegionsDisjoint'
  BY <1>9 DEF RegionsDisjoint
<1> QED BY <1>5, <1>6, <1>10, <1>11

\* Rounding a size up to a page, with or without the lower bound of one byte.
LEMMA RoundedSize ==
  ASSUME NEW v \in Address, NEW w \in Nat
  PROVE  AlignUp(AtLeast(v, w), PageSize) \in Address
<1>1. AtLeast(v, w) \in Nat
  BY WordAssumption DEF AtLeast, Address
<1> QED BY <1>1, AlignAddress, PageAssumption

\* GuestMemory::new establishes the invariant.
LEMMA InitInv == Init => Inv
<1> SUFFICES ASSUME Init PROVE Inv
  OBVIOUS
<1>1. HeapBase \in Address /\ HeapRegionSize \in Address
  <2>1. HeapBase \in Address /\ HeapSize \in Address
    BY HeapAssumption
  <2>2. AlignUp(HeapSize, PageSize) \in Address
    BY <2>1, AlignAddress, PageAssumption, WordAssumption DEF Address
  <2> QED BY <2>1, <2>2, RoundedSize DEF HeapRegionSize
<1>2. DOMAIN regions = {HeapBase} /\ regions[HeapBase] = Region(HeapRegionSize, RW, "Heap")
  BY DEF Init
<1>3. TypeOK
  <2>1. regions \in [DOMAIN regions -> [size : Address, prot : SUBSET Flag, kind : Kind]]
    BY <1>1, <1>2 DEF Init, Region, RW, Flag, Kind
  <2>2. grants \in Seq([base : Address, len : Address])
    BY DEF Init
  <2> QED BY <1>1, <1>2, <2>1, <2>2, TopAssumption DEF Init, TypeOK
<1>4. RegionsDisjoint
  BY <1>1, <1>2, HeapAssumption, WordAssumption DEF RegionsDisjoint, Region, Address
<1> QED BY <1>3, <1>4 DEF Inv

\* Every successful call of the manager preserves the invariant.
LEMMA NextInv == Inv /\ [Next]_vars => Inv'
<1> SUFFICES ASSUME TypeOK, RegionsDisjoint, [Next]_vars PROVE Inv'
  BY DEF Inv
<1> USE DEF Inv
<1>1. ASSUME NEW base \in MapBases, NEW size \in MapSizes, NEW prot \in Prots,
             NEW kind \in MapKinds, Map(base, size, prot, kind)
      PROVE  Inv'
  <2> DEFINE sz == AlignUp(AtLeast(size, 1), PageSize)
  <2>1. base \in Address /\ sz \in Address /\ prot \in SUBSET Flag /\ kind \in Kind
    BY InputAssumption, RoundedSize
  <2>2. CheckFree(base, sz) /\ regions' = Insert(base, Region(sz, prot, kind))
    BY <1>1 DEF Map
  <2>3. UNCHANGED <<mmap_cursor, heap_cursor, grants>>
    BY <1>1 DEF Map
  <2> HIDE DEF sz
  <2> QED BY <2>1, <2>2, <2>3, InsertKeepsInv DEF TypeOK
<1>2. ASSUME NEW base \in MapBases, NEW size \in SegSizes, NEW len \in DataLens,
             NEW prot \in Prots, MapWithData(base, size, len, prot)
      PROVE  Inv'
  <2> DEFINE sz == AlignUp(AtLeast(size, len), PageSize)
  <2>1. base \in Address /\ sz \in Address /\ prot \in SUBSET Flag /\ "Segment" \in Kind
    BY InputAssumption, RoundedSize, WordAssumption DEF Address, Kind
  <2>2. CheckFree(base, sz) /\ regions' = Insert(base, Region(sz, prot, "Segment"))
    BY <1>2 DEF MapWithData
  <2>3. UNCHANGED <<mmap_cursor, heap_cursor, grants>>
    BY <1>2 DEF MapWithData
  <2> HIDE DEF sz
  <2> QED BY <2>1, <2>2, <2>3, InsertKeepsInv DEF TypeOK
<1>3. ASSUME NEW size \in MmapSizes, NEW prot \in Prots, MmapAnon(size, prot)
      PROVE  Inv'
  <2> DEFINE sz == AlignUp(AtLeast(size, 1), PageSize)
             base == AlignDown(mmap_cursor - sz, PageSize)
             mapped == AlignUp(AtLeast(sz, 1), PageSize)
  <2>1. size \in Address /\ sz \in Address /\ mapped \in Address
    BY InputAssumption, RoundedSize
  <2>2. mmap_cursor \in Address /\ sz <= mmap_cursor
    BY <1>3 DEF MmapAnon, TypeOK
  <2>3. mmap_cursor - sz \in Nat
    BY <2>1, <2>2, WordAssumption DEF Address
  <2>4. base \in Nat /\ base <= mmap_cursor - sz
    <3> HIDE DEF sz
    <3> QED BY <2>3, AlignAddress, PageAssumption
  <2>5. base \in Address
    <3> HIDE DEF sz, base
    <3> QED BY <2>1, <2>2, <2>4, WordAssumption DEF Address
  <2>6. prot \in SUBSET Flag /\ "Anonymous" \in Kind
    BY InputAssumption DEF Kind
  <2>7. /\ CheckFree(base, mapped)
        /\ regions' = Insert(base, Region(mapped, prot, "Anonymous"))
        /\ mmap_cursor' = base
        /\ grants' = Append(grants, [base |-> base, len |-> size])
        /\ UNCHANGED heap_cursor
    BY <1>3 DEF MmapAnon
  <2> HIDE DEF sz, base, mapped
  <2>8. grants' \in Seq([base : Address, len : Address])
    BY <2>1, <2>5, <2>7 DEF TypeOK
  <2> QED BY <2>1, <2>5, <2>6, <2>7, <2>8, InsertKeepsInv DEF TypeOK
<1>4. ASSUME NEW addr \in Address, NEW prot \in Prots, Protect(addr, prot)
      PROVE  Inv'
  <2> DEFINE b0 == RegionBase(addr)
  <2>1. b0 \in DOMAIN regions
    <3>1. addr + 1 \in Nat
      BY WordAssumption DEF Address
    <3> QED BY <1>4, <3>1, NearestBelow DEF Protect, RegionBase
  <2>2. regions' = [regions EXCEPT ![b0].prot = prot] /\ UNCHANGED <<mmap_cursor, heap_cursor, grants>>
    BY <1>4 DEF Protect
  <2> HIDE DEF b0
  <2>3. DOMAIN regions' = DOMAIN regions /\ regions' = [b \in DOMAIN regions |-> regions'[b]]
    BY <2>2 DEF TypeOK
  <2>4. \A b \in DOMAIN regions : /\ regions'[b] \in [size : Address, prot : SUBSET Flag, kind : Kind]
                                  /\ regions'[b].size = regions[b].size
    BY <2>1, <2>2, InputAssumption DEF TypeOK
  <2>5. regions' \in [DOMAIN regions' -> [size : Address, prot : SUBSET Flag, kind : Kind]]
    BY <2>3, <2>4
  <2>6. TypeOK'
    BY <2>2, <2>3, <2>5 DEF TypeOK
  <2>7. RegionsDisjoint'
    BY <2>3, <2>4 DEF RegionsDisjoint
  <2> QED BY <2>6, <2>7
<1>5. ASSUME NEW size \in AllocSizes, NEW align \in Aligns, HeapAlloc(size, align)
      PROVE  Inv'
  <2> DEFINE start == AlignUp(heap_cursor, AtLeast(align, 1))
             len == AtLeast(size, 1)
  <2>1. start \in Address
    <3>1. heap_cursor \in Nat /\ AtLeast(align, 1) \in Nat \ {0}
      BY InputAssumption, WordAssumption DEF TypeOK, Address, AtLeast
    <3> QED BY <3>1, AlignAddress
  <2>2. len \in Nat
    BY InputAssumption, WordAssumption DEF Address, AtLeast
  <2>3. /\ start + len < Word
        /\ heap_cursor' = start + len
        /\ grants' = Append(grants, [base |-> start, len |-> len])
        /\ UNCHANGED <<regions, mmap_cursor>>
    BY <1>5 DEF HeapAlloc
  <2> HIDE DEF start, len
  <2>4. len \in Address /\ start + len \in Address
    BY <2>1, <2>2, <2>3, WordAssumption DEF Address
  <2>5. grants' \in Seq([base : Address, len : Address])
    BY <2>1, <2>3, <2>4 DEF TypeOK
  <2>6. TypeOK'
    BY <2>3, <2>4, <2>5 DEF TypeOK
  <2>7. RegionsDisjoint'
    BY <2>3 DEF RegionsDisjoint
  <2> QED BY <2>6, <2>7
<1>6. CASE UNCHANGED vars
  BY <1>6 DEF vars, TypeOK, RegionsDisjoint
<1> QED BY <1>1, <1>2, <1>3, <1>4, <1>5, <1>6 DEF Next

-----------------------------------------------------------------------------
(* Theorems *)

\* The regions, the two cursors and the grants keep their types through every
\* sequence of calls: no address or size leaves the 64-bit range.
THEOREM TypeCorrect == Spec => []TypeOK
<1>1. Inv => TypeOK
  BY DEF Inv
<1> QED BY <1>1, InitInv, NextInv, PTL DEF Spec

\* check_free, which looks at a single region, never lets two regions of the
\* address space share a byte, whatever the order and size of the requests.
THEOREM RegionsNeverOverlap == Spec => []RegionsDisjoint
<1>1. Inv => RegionsDisjoint
  BY DEF Inv
<1> QED BY <1>1, InitInv, NextInv, PTL DEF Spec

\* The nearest-base lookup of region_base is exact: protect and
\* commit_to_native act on the region that holds the byte, or report that no
\* region does.
THEOREM LookupExact == Spec => []LookupFindsOwner
<1>1. Inv => LookupFindsOwner
  <2> SUFFICES ASSUME TypeOK, RegionsDisjoint, NEW addr \in Address
               PROVE  IF addr \in MappedBytes
                      THEN /\ RegionBase(addr) \in DOMAIN regions
                           /\ addr \in RegionBytes(RegionBase(addr))
                      ELSE RegionBase(addr) = NoRegion
    BY DEF Inv, LookupFindsOwner
  <2> DEFINE m == Max(Below(addr + 1))
  <2>1. addr \in Nat /\ addr + 1 \in Nat
    BY WordAssumption DEF Address
  <2>2. ASSUME Below(addr + 1) # {}
        PROVE  /\ m \in DOMAIN regions /\ m \in Nat /\ regions[m].size \in Nat /\ m <= addr
               /\ RegionEnd(m) = m + regions[m].size
               /\ \A b \in DOMAIN regions : b <= addr => b <= m
    <3>1. m \in DOMAIN regions /\ m < addr + 1 /\ \A b \in DOMAIN regions : b < addr + 1 => b <= m
      BY <2>1, <2>2, NearestBelow
    <3>2. m \in Nat /\ regions[m].size \in Nat /\ RegionEnd(m) = m + regions[m].size
      BY <3>1, EndExact
    <3>3. \A b \in DOMAIN regions : b \in Nat
      BY EndExact
    <3> HIDE DEF m
    <3> QED BY <2>1, <3>1, <3>2, <3>3
  <2>3. CASE addr \in MappedBytes
    <3>1. PICK b \in DOMAIN regions : addr \in RegionBytes(b)
      BY <2>3 DEF MappedBytes
    <3>2. b \in Nat /\ regions[b].size \in Nat
      BY EndExact
    <3>3. b <= addr /\ addr < b + regions[b].size
      BY <2>1, <3>1, <3>2 DEF RegionBytes, Bytes
    <3>4. Below(addr + 1) # {}
      BY <2>1, <3>2, <3>3 DEF Below
    <3>5. m = b
      <4>1. b < m => b + regions[b].size <= m
        BY <2>2, <3>4 DEF RegionsDisjoint
      <4>2. b <= m /\ m <= addr /\ m \in Nat
        BY <2>2, <3>3, <3>4
      <4> HIDE DEF m
      <4> QED BY <2>1, <3>2, <3>3, <4>1, <4>2
    <3>6. Contains(m, addr)
      BY <2>2, <3>3, <3>4, <3>5 DEF Contains
    <3> QED BY <2>3, <3>1, <3>4, <3>5, <3>6 DEF RegionBase
  <2>4. CASE addr \notin MappedBytes
    <3>1. SUFFICES ASSUME Below(addr + 1) # {}, Contains(m, addr) PROVE FALSE
      BY <2>4 DEF RegionBase
    <3>2. addr \in RegionBytes(m)
      <4>1. m <= addr /\ addr < m + regions[m].size
        BY <2>2, <3>1 DEF Contains
      <4>2. m \in Nat /\ regions[m].size \in Nat
        BY <2>2, <3>1
      <4> HIDE DEF m
      <4> QED BY <2>1, <4>1, <4>2 DEF RegionBytes, Bytes
    <3> QED BY <2>2, <2>4, <3>1, <3>2 DEF MappedBytes
  <2> QED BY <2>3, <2>4
<1> QED BY <1>1, InitInv, NextInv, PTL DEF Spec

\* read and write, which look at the nearest region below the address only,
\* reach a range exactly when one region holds all of it and allows the access.
THEOREM AccessExact == Spec => []AccessSound
<1>1. Inv => AccessSound
  <2> SUFFICES ASSUME TypeOK, RegionsDisjoint,
                      NEW addr \in Address, NEW len \in 1 .. 2 * PageSize + 1,
                      NEW need \in {{"r"}, {"w"}}
               PROVE  Slice(addr, len, need) <=>
                        \E b \in DOMAIN regions :
                          Bytes(addr, len) \subseteq RegionBytes(b) /\ need \subseteq regions[b].prot
    BY DEF Inv, AccessSound
  <2> DEFINE m == Max(Below(addr + 1))
  <2>1. addr \in Nat /\ addr + 1 \in Nat /\ len \in Nat \ {0}
    BY WordAssumption, PageAssumption DEF Address
  <2>2. \A b \in DOMAIN regions : b \in Nat /\ regions[b].size \in Nat
    BY EndExact
  <2>3. ASSUME Slice(addr, len, need)
        PROVE  \E b \in DOMAIN regions :
                 Bytes(addr, len) \subseteq RegionBytes(b) /\ need \subseteq regions[b].prot
    <3>1. Below(addr + 1) # {} /\ (addr - m) + len <= regions[m].size /\ need \subseteq regions[m].prot
      BY <2>3 DEF Slice
    <3>2. m \in DOMAIN regions /\ m < addr + 1
      BY <2>1, <3>1, NearestBelow
    <3> HIDE DEF m
    <3>3. Bytes(addr, len) \subseteq RegionBytes(m)
      BY <2>1, <2>2, <3>1, <3>2 DEF Bytes, RegionBytes
    <3> QED BY <3>1, <3>2, <3>3
  <2>4. ASSUME NEW b \in DOMAIN regions,
               Bytes(addr, len) \subseteq RegionBytes(b), need \subseteq regions[b].prot
        PROVE  Slice(addr, len, need)
    <3>1. addr \in Bytes(addr, len) /\ addr + len - 1 \in Bytes(addr, len)
      BY <2>1 DEF Bytes
    <3>2. b <= addr /\ addr + len <= b + regions[b].size
      BY <2>1, <2>2, <2>4, <3>1 DEF RegionBytes, Bytes
    <3>3. Below(addr + 1) # {}
      BY <2>1, <2>2, <3>2 DEF Below
    <3>4. m \in DOMAIN regions /\ m < addr + 1 /\ b <= m
      BY <2>1, <2>2, <3>2, <3>3, NearestBelow
    <3>5. b < m => b + regions[b].size <= m
      BY <3>4 DEF RegionsDisjoint
    <3>6. m = b
      <4> HIDE DEF m
      <4> QED BY <2>1, <2>2, <3>2, <3>4, <3>5
    <3>7. (addr - b) + len <= regions[b].size
      BY <2>1, <2>2, <3>2
    <3> QED BY <2>4, <3>3, <3>6, <3>7 DEF Slice
  <2> QED BY <2>3, <2>4
<1> QED BY <1>1, InitInv, NextInv, PTL DEF Spec

-----------------------------------------------------------------------------
(* Grants: what malloc and mmap returned *)

\* Where a grant lies: below the cursor of the heap, or at the start of an
\* anonymous region.
OnHeap(g) == 0 < HeapSize /\ HeapBase <= g.base /\ g.base + g.len <= heap_cursor
OnArena(g) ==
  /\ g.base \in DOMAIN regions /\ regions[g.base].kind = "Anonymous"
  /\ 0 < regions[g.base].size /\ g.len <= regions[g.base].size

HeapMapped ==
  0 < HeapSize => /\ HeapBase \in DOMAIN regions
                  /\ regions[HeapBase].kind = "Heap"
                  /\ regions[HeapBase].size = HeapRegionSize

\* AnonTilesArena, byte by byte.
AnonByte(x) ==
  \E b \in DOMAIN regions :
    regions[b].kind = "Anonymous" /\ b <= x /\ x < b + regions[b].size
ArenaTiled == \A x \in Int : AnonByte(x) <=> mmap_cursor <= x /\ x < MmapTop

\* The inductive invariant for the grants.
GrantInv ==
  /\ ModestRequests /\ Inv
  /\ HeapMapped
  /\ HeapBase <= heap_cursor /\ heap_cursor <= HeapBase + HeapSize
  /\ mmap_cursor % PageSize = 0 /\ mmap_cursor <= MmapTop
  /\ ArenaTiled
  /\ \A i \in DOMAIN grants : OnHeap(grants[i]) \/ OnArena(grants[i])

\* A region that is not empty is not replaced by a new one that is not empty.
LEMMA InsertKeepsRegions ==
  ASSUME TypeOK, RegionsDisjoint,
         NEW base \in Address, NEW size \in Address, 0 < size, NEW region,
         CheckFree(base, size),
         regions' = Insert(base, region)
  PROVE  /\ DOMAIN regions' = DOMAIN regions \cup {base} /\ regions'[base] = region
         /\ \A b \in DOMAIN regions : b # base => regions'[b] = regions[b]
         /\ \A b \in DOMAIN regions : 0 < regions[b].size => b # base
<1>1. base \in Nat /\ size \in Nat
  BY WordAssumption DEF Address
<1>2. \A b \in DOMAIN regions : b + regions[b].size <= base \/ base + size <= b
  BY <1>1, CheckFreeSound
<1>3. \A b \in DOMAIN regions : b \in Nat /\ regions[b].size \in Nat
  BY EndExact
<1>4. \A b \in DOMAIN regions : 0 < regions[b].size => b # base
  BY <1>1, <1>2, <1>3
<1> QED BY <1>4 DEF Insert

\* GuestMemory::new grants nothing.
LEMMA InitGrantInv == ModestRequests /\ Init => GrantInv
<1> SUFFICES ASSUME ModestRequests, Init PROVE GrantInv
  OBVIOUS
<1>1. Inv
  BY InitInv
<1>2. HeapMapped
  BY DEF Init, HeapMapped, Region
<1>3. ArenaTiled
  <2>1. \A b \in DOMAIN regions : regions[b].kind # "Anonymous"
    BY DEF Init, Region
  <2>2. \A x \in Int : ~ (mmap_cursor <= x /\ x < MmapTop)
    BY TopAssumption, WordAssumption DEF Init, Address
  <2> QED BY <2>1, <2>2 DEF ArenaTiled, AnonByte
<1>4. HeapBase <= heap_cursor /\ heap_cursor <= HeapBase + HeapSize
  BY HeapAssumption, WordAssumption DEF Init, Address
<1>5. DOMAIN grants = {}
  BY DEF Init
<1>6. mmap_cursor <= MmapTop /\ mmap_cursor % PageSize = 0
  BY TopAssumption, WordAssumption DEF Init, Address
<1> QED BY <1>1, <1>2, <1>3, <1>4, <1>5, <1>6 DEF GrantInv

\* The heap does not reach the end of the address space.
LEMMA HeapFacts ==
  /\ HeapBase \in Nat /\ HeapSize \in Nat /\ HeapRegionSize \in Nat
  /\ HeapSize <= HeapRegionSize /\ HeapBase + HeapRegionSize < Word
  /\ HeapLimit = HeapBase + HeapSize
<1>1. HeapBase \in Nat /\ HeapSize \in Nat
  BY HeapAssumption, WordAssumption DEF Address
<1>2. HeapRegionSize \in Nat
  <2>1. AlignUp(HeapSize, PageSize) \in Address
    BY <1>1, AlignAddress, PageAssumption
  <2>2. HeapRegionSize \in Address
    BY <2>1, RoundedSize DEF HeapRegionSize
  <2> QED BY <2>2, WordAssumption DEF Address
<1>3. HeapSize <= HeapRegionSize /\ HeapBase + HeapRegionSize < Word
  BY HeapAssumption
<1>4. HeapBase + HeapSize \in 0 .. Word - 1
  BY <1>1, <1>2, <1>3, WordAssumption
<1>5. (HeapBase + HeapSize) % Word = HeapBase + HeapSize
  BY <1>4, WordAssumption
<1> QED BY <1>1, <1>2, <1>3, <1>5 DEF HeapLimit

\* What a call that maps a region on the caller's behalf (map, map_with_data)
\* leaves as it was: everything about grants.
LEMMA MappingKeepsGrants ==
  ASSUME GrantInv, Inv',
         NEW base \in Address, NEW size \in Address, 0 < size,
         NEW prot, NEW kind, kind # "Anonymous",
         CheckFree(base, size),
         regions' = Insert(base, Region(size, prot, kind)),
         UNCHANGED <<mmap_cursor, heap_cursor, grants>>
  PROVE  GrantInv'
<1>1. TypeOK /\ RegionsDisjoint
  BY DEF GrantInv, Inv
<1>2. /\ DOMAIN regions' = DOMAIN regions \cup {base}
      /\ regions'[base] = Region(size, prot, kind)
      /\ \A b \in DOMAIN regions : b # base => regions'[b] = regions[b]
      /\ \A b \in DOMAIN regions : 0 < regions[b].size => b # base
  BY <1>1, InsertKeepsRegions
<1>3. HeapMapped'
  BY <1>2, HeapFacts DEF HeapMapped, GrantInv
<1>4. ASSUME NEW i \in DOMAIN grants
      PROVE  OnHeap(grants[i])' \/ OnArena(grants[i])'
  BY <1>2 DEF GrantInv, OnHeap, OnArena
<1>5. ArenaTiled'
  <2> SUFFICES ASSUME NEW x \in Int PROVE AnonByte(x)' <=> AnonByte(x)
    BY DEF GrantInv, ArenaTiled
  <2>1. \A b \in DOMAIN regions : b \in Nat /\ regions[b].size \in Nat
    BY <1>1, EndExact
  <2>2. AnonByte(x) => AnonByte(x)'
    BY <1>2, <2>1 DEF AnonByte
  <2>3. AnonByte(x)' => AnonByte(x)
    BY <1>2 DEF AnonByte, Region
  <2> QED BY <2>2, <2>3
<1> QED BY <1>3, <1>4, <1>5 DEF GrantInv, ModestRequests

\* The rounding of map and mmap_anon, for a request of ordinary size.
PageUp(size) == AlignUp(AtLeast(size, 1), PageSize)

LEMMA PageUpExact ==
  ASSUME NEW size \in Address, AtLeast(size, 1) + PageSize <= Word
  PROVE  /\ PageUp(size) \in Address /\ 0 < PageUp(size) /\ size <= PageUp(size)
         /\ PageUp(size) % PageSize = 0
<1>1. AtLeast(size, 1) \in Nat \ {0} /\ size <= AtLeast(size, 1) /\ size \in Nat
  BY WordAssumption DEF AtLeast, Address
<1>2. PageUp(size) \in Address
  BY RoundedSize DEF PageUp
<1>3. AtLeast(size, 1) <= PageUp(size) /\ PageUp(size) % PageSize = 0
  BY <1>1, AlignUpExact, PageAssumption DEF PageUp
<1>4. PageUp(size) \in Nat
  BY <1>2, WordAssumption DEF Address
<1> QED BY <1>1, <1>2, <1>3, <1>4

\* The rounding of map_with_data, for a segment that is not empty.
LEMMA SegmentRounded ==
  ASSUME ModestRequests, NEW size \in SegSizes, NEW len \in DataLens
  PROVE  /\ AlignUp(AtLeast(size, len), PageSize) \in Address
         /\ 0 < AlignUp(AtLeast(size, len), PageSize)
<1>1. size \in Address /\ len \in Nat
  BY InputAssumption, WordAssumption DEF Address
<1>2. AlignUp(AtLeast(size, len), PageSize) \in Address
  BY <1>1, RoundedSize
<1>3. AtLeast(size, len) \in Nat \ {0} /\ AtLeast(size, len) + PageSize <= Word
  BY <1>1, WordAssumption DEF ModestRequests, AtLeast, Address
<1>4. AtLeast(size, len) <= AlignUp(AtLeast(size, len), PageSize)
  BY <1>3, AlignUpExact, PageAssumption
<1> QED BY <1>2, <1>3, <1>4, WordAssumption DEF Address

\* mmap_anon takes exactly the pages below the cursor: neither the second
\* rounding nor the alignment of the base loses or adds one.
LEMMA MmapExact ==
  ASSUME GrantInv, NEW size \in MmapSizes, NEW prot, MmapAnon(size, prot)
  PROVE  /\ size \in Address /\ PageUp(size) \in Address
         /\ 0 < PageUp(size) /\ size <= PageUp(size)
         /\ mmap_cursor' \in Address /\ mmap_cursor' = mmap_cursor - PageUp(size)
         /\ mmap_cursor' % PageSize = 0
         /\ CheckFree(mmap_cursor', PageUp(size))
         /\ regions' = Insert(mmap_cursor', Region(PageUp(size), prot, "Anonymous"))
         /\ grants' = Append(grants, [base |-> mmap_cursor', len |-> size])
         /\ UNCHANGED heap_cursor
<1> DEFINE sz == AlignUp(AtLeast(size, 1), PageSize)
           base == AlignDown(mmap_cursor - sz, PageSize)
           mapped == AlignUp(AtLeast(sz, 1), PageSize)
<1>1. size \in Address /\ AtLeast(size, 1) + PageSize <= Word
  BY InputAssumption DEF GrantInv, ModestRequests
<1>2. sz = PageUp(size) /\ sz \in Address /\ 0 < sz /\ size <= sz /\ sz % PageSize = 0
  BY <1>1, PageUpExact DEF PageUp
<1>3. mmap_cursor \in Address /\ mmap_cursor % PageSize = 0 /\ sz <= mmap_cursor
  BY DEF GrantInv, Inv, TypeOK, MmapAnon
<1>4. /\ CheckFree(base, mapped)
      /\ regions' = Insert(base, Region(mapped, prot, "Anonymous"))
      /\ mmap_cursor' = base
      /\ grants' = Append(grants, [base |-> base, len |-> size])
      /\ UNCHANGED heap_cursor
  BY DEF MmapAnon
<1>5. base = mmap_cursor - sz /\ base \in Address /\ base % PageSize = 0
  <2> HIDE DEF sz
  <2>0. mmap_cursor \in Int /\ sz \in Int /\ PageSize \in Nat \ {0}
    BY <1>2, <1>3, PageAssumption, WordAssumption DEF Address
  <2>1. (mmap_cursor - sz) % PageSize = 0
    BY <1>2, <1>3, <2>0, MultipleMinus
  <2>2. mmap_cursor - sz \in Address
    BY <1>2, <1>3, WordAssumption DEF Address
  <2>3. base = (mmap_cursor - sz) - 0
    BY <2>1 DEF AlignDown
  <2>4. base = mmap_cursor - sz
    BY <2>2, <2>3, WordAssumption DEF Address
  <2> QED BY <2>1, <2>2, <2>4
<1>6. mapped = sz
  <2> HIDE DEF sz
  <2>1. sz \in Nat /\ mmap_cursor \in Nat /\ AtLeast(sz, 1) = sz /\ mmap_cursor < Word
    BY <1>2, <1>3, WordAssumption DEF AtLeast, Address
  <2>2. mmap_cursor + PageSize <= Word
    BY <1>3, <2>1, MultipleGap, PageAssumption, WordAssumption
  <2>3. sz + PageSize <= Word
    BY <1>3, <2>1, <2>2, PageAssumption, WordAssumption
  <2>4. AlignUp(sz, PageSize) = sz
    BY <1>2, <2>1, <2>3, AlignUpExact, PageAssumption
  <2> QED BY <2>1, <2>4
<1> HIDE DEF sz, base, mapped
<1> QED BY <1>1, <1>2, <1>4, <1>5, <1>6

\* The range heap_alloc returns lies between the cursor and the limit.
LEMMA HeapExact ==
  ASSUME GrantInv, NEW size \in AllocSizes, NEW align \in Aligns, HeapAlloc(size, align)
  PROVE  \E start, len \in Address :
           /\ 0 < len /\ heap_cursor <= start /\ start + len <= HeapBase + HeapSize
           /\ heap_cursor' = start + len
           /\ grants' = Append(grants, [base |-> start, len |-> len])
           /\ UNCHANGED <<regions, mmap_cursor>>
<1> DEFINE start == AlignUp(heap_cursor, AtLeast(align, 1))
           len == AtLeast(size, 1)
<1>1. heap_cursor \in Nat /\ align \in Nat \ {0} /\ AtLeast(align, 1) = align
  BY InputAssumption, WordAssumption DEF GrantInv, Inv, TypeOK, Address, AtLeast
<1>2. heap_cursor + align <= Word
  BY <1>1, HeapFacts, WordAssumption DEF GrantInv, ModestRequests
<1>3. start \in Address /\ heap_cursor <= start
  BY <1>1, <1>2, AlignUpExact, AlignAddress
<1>4. len \in Address /\ 0 < len
  <2>1. len \in Nat /\ 0 < len
    BY InputAssumption, WordAssumption DEF Address, AtLeast
  <2>2. start + len < Word
    BY DEF HeapAlloc
  <2> HIDE DEF start, len
  <2> QED BY <1>3, <2>1, <2>2, WordAssumption DEF Address
<1>5. /\ start + len <= HeapBase + HeapSize
      /\ heap_cursor' = start + len
      /\ grants' = Append(grants, [base |-> start, len |-> len])
      /\ UNCHANGED <<regions, mmap_cursor>>
  BY HeapFacts DEF HeapAlloc
<1> HIDE DEF start, len
<1> QED BY <1>3, <1>4, <1>5

\* mmap_anon extends the tiling of the arena downwards by one region.
LEMMA MmapKeepsGrantInv ==
  ASSUME GrantInv, Inv', NEW size \in MmapSizes, NEW prot, MmapAnon(size, prot)
  PROVE  GrantInv'
<1>0. PICK base \in Address, sz \in Address :
        /\ size \in Address /\ 0 < sz /\ size <= sz
        /\ mmap_cursor' = base /\ base = mmap_cursor - sz /\ base % PageSize = 0
        /\ CheckFree(base, sz)
        /\ regions' = Insert(base, Region(sz, prot, "Anonymous"))
        /\ grants' = Append(grants, [base |-> base, len |-> size])
        /\ UNCHANGED heap_cursor
  BY MmapExact
<1> DEFINE new == Region(sz, prot, "Anonymous")
<1>1. /\ size \in Address /\ 0 < sz /\ size <= sz
      /\ mmap_cursor' = base /\ base = mmap_cursor - sz /\ base % PageSize = 0
      /\ CheckFree(base, sz)
      /\ new = Region(sz, prot, "Anonymous") /\ regions' = Insert(base, new)
      /\ grants' = Append(grants, [base |-> base, len |-> size])
      /\ UNCHANGED heap_cursor
  BY <1>0
<1> HIDE DEF new
<1>2. TypeOK /\ RegionsDisjoint
  BY DEF GrantInv, Inv
<1>10. base \in Nat /\ sz \in Nat /\ mmap_cursor \in Nat /\ mmap_cursor = base + sz
  BY <1>1, <1>2, WordAssumption DEF Address, TypeOK
<1>3. /\ DOMAIN regions' = DOMAIN regions \cup {base}
      /\ regions'[base] = new
      /\ \A b \in DOMAIN regions : b # base => regions'[b] = regions[b]
      /\ \A b \in DOMAIN regions : 0 < regions[b].size => b # base
  BY <1>1, <1>2, InsertKeepsRegions
<1>4. new.kind = "Anonymous" /\ new.size = sz
  BY <1>1 DEF Region
<1>5. HeapMapped'
  BY <1>3, HeapFacts DEF HeapMapped, GrantInv
<1>6. ASSUME NEW i \in DOMAIN grants'
      PROVE  OnHeap(grants[i])' \/ OnArena(grants[i])'
  <2>1. grants \in Seq([base : Address, len : Address])
    BY <1>2 DEF TypeOK
  <2>2. CASE i \in DOMAIN grants
    <3>1. grants'[i] = grants[i]
      BY <1>1, <2>1, <2>2
    <3>2. OnHeap(grants[i]) \/ OnArena(grants[i])
      BY <2>2 DEF GrantInv
    <3>3. OnHeap(grants[i]) => OnHeap(grants[i])'
      BY <1>1, <3>1 DEF OnHeap
    <3>4. OnArena(grants[i]) => OnArena(grants[i])'
      BY <1>3, <3>1 DEF OnArena
    <3> QED BY <3>2, <3>3, <3>4
  <2>3. CASE i \notin DOMAIN grants
    <3>1. grants'[i] = [base |-> base, len |-> size]
      BY <1>1, <2>1, <2>3
    <3> QED BY <1>1, <1>3, <1>4, <3>1 DEF OnArena
  <2> QED BY <2>2, <2>3
<1>7. ArenaTiled'
  <2> SUFFICES ASSUME NEW x \in Int
               PROVE  AnonByte(x)' <=> base <= x /\ x < MmapTop
    BY <1>1 DEF ArenaTiled
  <2>1. \A b \in DOMAIN regions : b \in Nat /\ regions[b].size \in Nat
    BY <1>2, EndExact
  <2>2. AnonByte(x) => AnonByte(x)'
    BY <1>3, <2>1 DEF AnonByte
  <2>3. base <= x /\ x < base + sz => AnonByte(x)'
    BY <1>3, <1>4 DEF AnonByte
  <2>4. AnonByte(x)' => AnonByte(x) \/ (base <= x /\ x < base + sz)
    BY <1>3, <1>4 DEF AnonByte
  <2>5. AnonByte(x) <=> mmap_cursor <= x /\ x < MmapTop
    BY DEF GrantInv, ArenaTiled
  <2>6. MmapTop \in Nat /\ mmap_cursor <= MmapTop
    BY TopAssumption, WordAssumption DEF Address, GrantInv
  <2> QED BY <1>10, <2>2, <2>3, <2>4, <2>5, <2>6
<1>8. mmap_cursor' <= MmapTop
  <2>1. MmapTop \in Nat
    BY TopAssumption, WordAssumption DEF Address
  <2> QED BY <1>1, <1>10, <2>1 DEF GrantInv
<1>9. mmap_cursor' % PageSize = 0
  BY <1>1
<1> QED BY <1>1, <1>5, <1>6, <1>7, <1>8, <1>9 DEF GrantInv, ModestRequests

\* The entries of a sequence.
LEMMA SeqEntry ==
  ASSUME NEW R, NEW s \in Seq(R), NEW i \in DOMAIN s
  PROVE  s[i] \in R
<1>1. DOMAIN s = 1 .. Len(s) /\ s \in [1 .. Len(s) -> R]
  OBVIOUS
<1> QED BY <1>1

\* heap_alloc puts its grant between the old and the new cursor.
LEMMA HeapKeepsGrantInv ==
  ASSUME GrantInv, Inv', NEW size \in AllocSizes, NEW align \in Aligns, HeapAlloc(size, align)
  PROVE  GrantInv'
<1>1. PICK start \in Address, len \in Address :
        /\ 0 < len /\ heap_cursor <= start /\ start + len <= HeapBase + HeapSize
        /\ heap_cursor' = start + len
        /\ grants' = Append(grants, [base |-> start, len |-> len])
        /\ UNCHANGED <<regions, mmap_cursor>>
  BY HeapExact
<1>2. TypeOK
  BY DEF GrantInv, Inv
<1>3. start \in Nat /\ len \in Nat /\ heap_cursor \in Nat
  BY <1>2, WordAssumption DEF TypeOK, Address
<1>4. /\ HeapBase <= heap_cursor' /\ heap_cursor' <= HeapBase + HeapSize
      /\ HeapBase <= start /\ heap_cursor <= heap_cursor' /\ 0 < HeapSize
  BY <1>1, <1>3, HeapFacts DEF GrantInv
<1>5. ASSUME NEW i \in DOMAIN grants'
      PROVE  OnHeap(grants[i])' \/ OnArena(grants[i])'
  <2>1. grants \in Seq([base : Address, len : Address])
    BY <1>2 DEF TypeOK
  <2>2. CASE i \in DOMAIN grants
    <3>0. grants[i] \in [base : Address, len : Address]
      BY <2>1, <2>2, SeqEntry
    <3>1. grants'[i] = grants[i]
      BY <1>1, <2>1, <2>2
    <3>5. grants[i].base \in Nat /\ grants[i].len \in Nat
      BY <3>0, WordAssumption DEF Address
    <3>2. OnHeap(grants[i]) \/ OnArena(grants[i])
      BY <2>2 DEF GrantInv
    <3>3. OnHeap(grants[i]) => OnHeap(grants[i])'
      BY <1>1, <1>3, <1>4, <3>1, <3>5 DEF OnHeap
    <3>4. OnArena(grants[i]) => OnArena(grants[i])'
      BY <1>1, <3>1 DEF OnArena
    <3> QED BY <3>2, <3>3, <3>4
  <2>3. CASE i \notin DOMAIN grants
    <3>1. grants'[i] = [base |-> start, len |-> len]
      BY <1>1, <2>1, <2>3
    <3> QED BY <1>1, <1>3, <1>4, <3>1 DEF OnHeap
  <2> QED BY <2>2, <2>3
<1>6. HeapMapped' /\ ArenaTiled'
  BY <1>1 DEF GrantInv, HeapMapped, ArenaTiled, AnonByte
<1> QED BY <1>1, <1>4, <1>5, <1>6 DEF GrantInv, ModestRequests

\* protect changes no size and no kind.
LEMMA ProtectKeepsGrantInv ==
  ASSUME GrantInv, Inv', NEW addr \in Address, NEW prot \in Prots, Protect(addr, prot)
  PROVE  GrantInv'
<1>1. TypeOK
  BY DEF GrantInv, Inv
<1>2. UNCHANGED <<mmap_cursor, heap_cursor, grants>>
  BY DEF Protect
<1>3. /\ DOMAIN regions' = DOMAIN regions
      /\ \A b \in DOMAIN regions : /\ regions'[b].size = regions[b].size
                                   /\ regions'[b].kind = regions[b].kind
  BY <1>1 DEF Protect, TypeOK
<1>4. ASSUME NEW i \in DOMAIN grants
      PROVE  OnHeap(grants[i])' \/ OnArena(grants[i])'
  BY <1>2, <1>3 DEF GrantInv, OnHeap, OnArena
<1>5. HeapMapped' /\ ArenaTiled'
  BY <1>2, <1>3 DEF GrantInv, HeapMapped, ArenaTiled, AnonByte
<1> QED BY <1>2, <1>4, <1>5 DEF GrantInv, ModestRequests

\* Every successful call preserves the invariant on grants.
LEMMA NextGrantInv == GrantInv /\ [Next]_vars => GrantInv'
<1> SUFFICES ASSUME GrantInv, [Next]_vars PROVE GrantInv'
  OBVIOUS
<1>1. Inv'
  BY NextInv DEF GrantInv
<1>2. ASSUME NEW base \in MapBases, NEW size \in MapSizes, NEW prot \in Prots,
             NEW kind \in MapKinds, Map(base, size, prot, kind)
      PROVE  GrantInv'
  <2>1. base \in Address /\ size \in Address /\ kind # "Anonymous"
    BY InputAssumption
  <2>2. AtLeast(size, 1) + PageSize <= Word
    BY DEF GrantInv, ModestRequests
  <2>3. PageUp(size) \in Address /\ 0 < PageUp(size)
    BY <2>1, <2>2, PageUpExact
  <2>4. /\ CheckFree(base, PageUp(size))
        /\ regions' = Insert(base, Region(PageUp(size), prot, kind))
        /\ UNCHANGED <<mmap_cursor, heap_cursor, grants>>
    BY <1>2 DEF Map, PageUp
  <2> QED BY <1>1, <2>1, <2>3, <2>4, MappingKeepsGrants
<1>3. ASSUME NEW base \in MapBases, NEW size \in SegSizes, NEW len \in DataLens,
             NEW prot \in Prots, MapWithData(base, size, len, prot)
      PROVE  GrantInv'
  <2> DEFINE sz == AlignUp(AtLeast(size, len), PageSize)
  <2>1. base \in Address /\ size \in Address /\ len \in Address
    BY InputAssumption
  <2>2. sz \in Address /\ 0 < sz
    BY <2>1, SegmentRounded DEF GrantInv
  <2>3. /\ CheckFree(base, sz)
        /\ regions' = Insert(base, Region(sz, prot, "Segment"))
        /\ UNCHANGED <<mmap_cursor, heap_cursor, grants>>
    BY <1>3 DEF MapWithData
  <2> HIDE DEF sz
  <2> QED BY <1>1, <2>1, <2>2, <2>3, MappingKeepsGrants
<1>4. ASSUME NEW size \in MmapSizes, NEW prot \in Prots, MmapAnon(size, prot)
      PROVE  GrantInv'
  BY <1>1, <1>4, MmapKeepsGrantInv
<1>5. ASSUME NEW addr \in Address, NEW prot \in Prots, Protect(addr, prot)
      PROVE  GrantInv'
  BY <1>1, <1>5, ProtectKeepsGrantInv
<1>6. ASSUME NEW size \in AllocSizes, NEW align \in Aligns, HeapAlloc(size, align)
      PROVE  GrantInv'
  BY <1>1, <1>6, HeapKeepsGrantInv
<1>7. CASE UNCHANGED vars
  <2>1. UNCHANGED <<regions, mmap_cursor, heap_cursor, grants>>
    BY <1>7 DEF vars
  <2>2. HeapMapped' /\ ArenaTiled'
    BY <2>1 DEF GrantInv, HeapMapped, ArenaTiled, AnonByte
  <2>3. ASSUME NEW i \in DOMAIN grants
        PROVE  OnHeap(grants[i])' \/ OnArena(grants[i])'
    BY <2>1 DEF GrantInv, OnHeap, OnArena
  <2> QED BY <1>1, <2>1, <2>2, <2>3 DEF GrantInv, ModestRequests
<1> QED BY <1>2, <1>3, <1>4, <1>5, <1>6, <1>7 DEF Next

\* What a grant holds is mapped, in the heap or in an anonymous region.
LEMMA GrantHome ==
  ASSUME GrantInv, NEW i \in DOMAIN grants
  PROVE  /\ grants[i].base \in Nat /\ grants[i].len \in Nat
         /\ OnHeap(grants[i]) =>
              /\ HeapBase \in DOMAIN regions /\ regions[HeapBase].kind = "Heap"
              /\ GrantBytes(i) \subseteq RegionBytes(HeapBase)
         /\ OnArena(grants[i]) => GrantBytes(i) \subseteq RegionBytes(grants[i].base)
<1>1. TypeOK /\ RegionsDisjoint
  BY DEF GrantInv, Inv
<1>2. grants[i] \in [base : Address, len : Address]
  BY <1>1, SeqEntry DEF TypeOK
<1>3. grants[i].base \in Nat /\ grants[i].len \in Nat /\ heap_cursor \in Nat
  BY <1>1, <1>2, WordAssumption DEF Address, TypeOK
<1>4. ASSUME OnHeap(grants[i])
      PROVE  /\ HeapBase \in DOMAIN regions /\ regions[HeapBase].kind = "Heap"
             /\ GrantBytes(i) \subseteq RegionBytes(HeapBase)
  <2>1. /\ HeapBase \in DOMAIN regions /\ regions[HeapBase].kind = "Heap"
        /\ regions[HeapBase].size = HeapRegionSize
    BY <1>4 DEF GrantInv, HeapMapped, OnHeap
  <2>2. HeapBase <= grants[i].base /\ grants[i].base + grants[i].len <= HeapBase + HeapRegionSize
    BY <1>3, <1>4, HeapFacts DEF GrantInv, OnHeap
  <2> QED BY <1>3, <2>1, <2>2, HeapFacts DEF GrantBytes, RegionBytes, Bytes
<1>5. ASSUME OnArena(grants[i])
      PROVE  GrantBytes(i) \subseteq RegionBytes(grants[i].base)
  <2>1. /\ grants[i].base \in DOMAIN regions
        /\ grants[i].len <= regions[grants[i].base].size
        /\ regions[grants[i].base].size \in Nat
    BY <1>1, <1>5, EndExact DEF OnArena
  <2> QED BY <1>3, <2>1 DEF GrantBytes, RegionBytes, Bytes
<1> QED BY <1>3, <1>4, <1>5

\* Every pointer that malloc or mmap returned is backed to its last byte, for
\* good: no later call takes the memory away or puts another region on it.
THEOREM GrantsStayBacked == ModestRequests /\ Spec => []GrantsBacked
<1>1. GrantInv => GrantsBacked
  <2> SUFFICES ASSUME GrantInv, NEW i \in DOMAIN grants
               PROVE  \E b \in DOMAIN regions :
                        /\ regions[b].kind \in {"Heap", "Anonymous"}
                        /\ GrantBytes(i) \subseteq RegionBytes(b)
    BY DEF GrantsBacked
  <2>1. CASE OnHeap(grants[i])
    BY <2>1, GrantHome
  <2>2. CASE OnArena(grants[i])
    <3>1. grants[i].base \in DOMAIN regions /\ regions[grants[i].base].kind = "Anonymous"
      BY <2>2 DEF OnArena
    <3> QED BY <2>2, <3>1, GrantHome
  <2> QED BY <2>1, <2>2 DEF GrantInv
<1> QED BY <1>1, InitGrantInv, NextGrantInv, PTL DEF Spec

\* mmap_anon fills the arena downwards from MMAP_TOP without a hole and without
\* leaving it, although it rounds the size twice and aligns the base.
THEOREM ArenaHasNoHoles == ModestRequests /\ Spec => []AnonTilesArena
<1>1. GrantInv => AnonTilesArena
  <2> SUFFICES ASSUME GrantInv PROVE AnonTilesArena
    OBVIOUS
  <2>1. TypeOK /\ RegionsDisjoint
    BY DEF GrantInv, Inv
  <2>2. mmap_cursor \in Nat /\ MmapTop \in Nat
    BY <2>1, TopAssumption, WordAssumption DEF TypeOK, Address
  <2>3. \A b \in DOMAIN regions : b \in Nat /\ regions[b].size \in Nat
    BY <2>1, EndExact
  <2>4. ASSUME NEW b \in DOMAIN regions, regions[b].kind = "Anonymous", NEW x \in RegionBytes(b)
        PROVE  x \in mmap_cursor .. MmapTop - 1
    <3>1. x \in Int /\ b <= x /\ x < b + regions[b].size
      BY <2>3 DEF RegionBytes, Bytes
    <3>2. AnonByte(x)
      BY <2>4, <3>1 DEF AnonByte
    <3> QED BY <2>2, <3>1, <3>2 DEF GrantInv, ArenaTiled
  <2>5. ASSUME NEW x \in mmap_cursor .. MmapTop - 1
        PROVE  \E b \in DOMAIN regions : regions[b].kind = "Anonymous" /\ x \in RegionBytes(b)
    <3>1. x \in Int /\ AnonByte(x)
      BY <2>2 DEF GrantInv, ArenaTiled
    <3>2. PICK b \in DOMAIN regions :
            regions[b].kind = "Anonymous" /\ b <= x /\ x < b + regions[b].size
      BY <3>1 DEF AnonByte
    <3>3. x \in RegionBytes(b)
      BY <2>3, <3>1, <3>2 DEF RegionBytes, Bytes
    <3> QED BY <3>2, <3>3
  <2> QED BY <2>4, <2>5 DEF AnonTilesArena
<1> QED BY <1>1, InitGrantInv, NextGrantInv, PTL DEF Spec

-----------------------------------------------------------------------------
(* The manager implements the abstract address space *)

Owner == [a \in Address |-> {b \in DOMAIN regions : a \in RegionBytes(b)}]
Holder == [a \in Address |-> {i \in DOMAIN grants : a \in GrantBytes(i)}]

\* A range of bytes: it has no holes and its least element is its base.
LEMMA BytesRange ==
  ASSUME NEW base \in Nat, NEW len \in Nat
  PROVE  /\ Abstract!IsRange(Bytes(base, len))
         /\ \A a \in Bytes(base, len) : a \in Nat /\ base <= a /\ a < base + len
         /\ Bytes(base, len) # {} => Abstract!Min(Bytes(base, len)) = base
<1>1. \A a \in Bytes(base, len) : a \in Nat /\ base <= a /\ a < base + len
  BY DEF Bytes
<1>2. Abstract!IsRange(Bytes(base, len))
  BY DEF Bytes, Abstract!IsRange
<1>3. ASSUME Bytes(base, len) # {} PROVE Abstract!Min(Bytes(base, len)) = base
  <2>1. base \in Bytes(base, len)
    BY <1>1, <1>3 DEF Bytes
  <2>2. ASSUME NEW S, S \subseteq Nat, base \in S, \A y \in S : base <= y
        PROVE  Abstract!Min(S) = base
    <3>1. \E x \in S : \A y \in S : x <= y
      BY <2>2
    <3>2. PICK m : m = Abstract!Min(S)
      OBVIOUS
    <3>3. m \in S /\ \A y \in S : m <= y
      BY <3>1, <3>2 DEF Abstract!Min
    <3>4. m \in Nat /\ m <= base /\ base <= m
      BY <2>2, <3>3
    <3>5. m = base
      BY <3>4
    <3> QED BY <3>2, <3>5
  <2> QED BY <1>1, <2>1, <2>2
<1> QED BY <1>1, <1>2, <1>3

\* Mapping a region is a claim: its bytes belonged to nobody and now to it.
LEMMA InsertClaims ==
  ASSUME Inv, NEW base \in Address, NEW size \in Address, 0 < size,
         NEW region, region.size = size,
         CheckFree(base, size), regions' = Insert(base, region), Inv'
  PROVE  /\ Abstract!Claim
         /\ \A a \in Bytes(base, size) : Owner'[a] = {base}
         /\ \A a \in Bytes(base, size) : Owner[a] = {}
<1> USE DEF Inv
<1>1. base \in Nat /\ size \in Nat
  BY WordAssumption DEF Address
<1>2. /\ DOMAIN regions' = DOMAIN regions \cup {base} /\ regions'[base] = region
      /\ \A b \in DOMAIN regions : b # base => regions'[b] = regions[b]
      /\ \A b \in DOMAIN regions : 0 < regions[b].size => b # base
  BY InsertKeepsRegions
<1>3. /\ base + size < Word
      /\ \A b \in DOMAIN regions : b + regions[b].size <= base \/ base + size <= b
  BY <1>1, CheckFreeSound
<1>4. \A b \in DOMAIN regions : b \in Nat /\ regions[b].size \in Nat
  BY EndExact
<1>5. Bytes(base, size) \subseteq Address
  BY <1>1, <1>3, WordAssumption DEF Bytes, Address
<1>6. \A b \in DOMAIN regions : RegionBytes(b) \cap Bytes(base, size) = {}
  BY <1>1, <1>3, <1>4 DEF RegionBytes, Bytes
<1>7. RegionBytes(base)' = Bytes(base, size)
  BY <1>2 DEF RegionBytes, Bytes
<1>8. ASSUME NEW b \in DOMAIN regions, b # base
      PROVE  RegionBytes(b)' = RegionBytes(b)
  BY <1>2, <1>8 DEF RegionBytes, Bytes
<1>9. base \in DOMAIN regions => RegionBytes(base) = {}
  BY <1>1, <1>2, <1>4 DEF RegionBytes, Bytes
<1>10. ASSUME NEW a \in Address
       PROVE  Owner'[a] = IF a \in Bytes(base, size) THEN {base} ELSE Owner[a]
  <2>1. Owner'[a] = {b \in DOMAIN regions' : a \in RegionBytes(b)'}
    BY DEF Owner
  <2>2. Owner[a] = {b \in DOMAIN regions : a \in RegionBytes(b)}
    BY DEF Owner
  <2>3. CASE a \in Bytes(base, size)
    BY <1>2, <1>6, <1>7, <1>8, <2>1, <2>3
  <2>4. CASE a \notin Bytes(base, size)
    BY <1>2, <1>7, <1>8, <1>9, <2>1, <2>2, <2>4
  <2> QED BY <2>3, <2>4
<1>11. \A a \in Bytes(base, size) : Owner[a] = {}
  BY <1>5, <1>6 DEF Owner
<1>12. \A a \in Bytes(base, size) : Owner'[a] = {base}
  BY <1>5, <1>10
<1>13. Abstract!Changed(Owner', Owner) = Bytes(base, size)
  BY <1>5, <1>10, <1>11 DEF Abstract!Changed
<1>14. Owner' \in [Address -> SUBSET Address]
  <2>1. DOMAIN regions' \subseteq Address
    BY DEF TypeOK
  <2> QED BY <2>1 DEF Owner
<1>15. /\ Abstract!IsRange(Bytes(base, size))
       /\ \A a \in Bytes(base, size) : Abstract!Min(Bytes(base, size)) = base
  BY <1>1, BytesRange
<1>16. LET range == Abstract!Changed(Owner', Owner) IN
       /\ Owner' \in [Address -> SUBSET Address]
       /\ Abstract!IsRange(range)
       /\ \A a \in range : Owner[a] = {} /\ Owner'[a] = {Abstract!Min(range)}
  BY <1>11, <1>12, <1>13, <1>14, <1>15
<1>17. Abstract!Claim
  BY <1>16 DEF Abstract!Claim, Owner
<1> QED BY <1>11, <1>12, <1>17

\* Returning a range of mapped bytes that no earlier call returned is a grant.
LEMMA AppendGrants ==
  ASSUME TypeOK, NEW base \in Address, NEW len \in Address, base + len < Word,
         grants' = Append(grants, [base |-> base, len |-> len]),
         \A a \in Bytes(base, len) : Owner'[a] # {},
         \A i \in DOMAIN grants : GrantBytes(i) \cap Bytes(base, len) = {}
  PROVE  Abstract!Grant
<1>1. base \in Nat /\ len \in Nat
  BY WordAssumption DEF Address
<1>2. Bytes(base, len) \subseteq Address
  BY <1>1, WordAssumption DEF Bytes, Address
<1>3. grants \in Seq([base : Address, len : Address])
  BY DEF TypeOK
<1> DEFINE n == Len(grants)
<1>4. /\ n \in Nat /\ DOMAIN grants = 1 .. n
      /\ Len(grants)' = n + 1 /\ DOMAIN grants' = 1 .. n + 1
      /\ grants'[n + 1] = [base |-> base, len |-> len]
      /\ \A i \in 1 .. n : grants'[i] = grants[i]
  BY <1>3
<1>5. PICK k : k = n + 1
  OBVIOUS
<1>6. /\ DOMAIN grants' = DOMAIN grants \cup {k} /\ k \notin DOMAIN grants
      /\ GrantBytes(k)' = Bytes(base, len)
      /\ \A i \in DOMAIN grants : GrantBytes(i)' = GrantBytes(i)
  BY <1>4, <1>5 DEF GrantBytes
<1>7. ASSUME NEW a \in Address
      PROVE  Holder'[a] = IF a \in Bytes(base, len) THEN {k} ELSE Holder[a]
  <2>1. Holder'[a] = {i \in DOMAIN grants' : a \in GrantBytes(i)'}
    BY DEF Holder
  <2>2. Holder[a] = {i \in DOMAIN grants : a \in GrantBytes(i)}
    BY DEF Holder
  <2>3. CASE a \in Bytes(base, len)
    BY <1>6, <2>1, <2>3
  <2>4. CASE a \notin Bytes(base, len)
    BY <1>6, <2>1, <2>2, <2>4
  <2> QED BY <2>3, <2>4
<1>8. \A a \in Bytes(base, len) : Holder[a] = {}
  BY <1>2 DEF Holder
<1>9. Abstract!Changed(Holder', Holder) = Bytes(base, len)
  BY <1>2, <1>7, <1>8 DEF Abstract!Changed
<1>10. Holder' \in [Address -> SUBSET Nat]
  <2>1. DOMAIN grants' \subseteq Nat
    BY <1>4
  <2> QED BY <2>1 DEF Holder
<1>11. Abstract!IsRange(Bytes(base, len))
  BY <1>1, BytesRange
<1>12. LET range == Abstract!Changed(Holder', Holder) IN
       /\ Len(grants)' = Len(grants) + 1
       /\ Holder' \in [Address -> SUBSET Nat]
       /\ Abstract!IsRange(range)
       /\ \A a \in range : /\ Owner'[a] # {}
                           /\ Holder[a] = {}
                           /\ Holder'[a] = {Len(grants)'}
  <2>1. Len(grants)' = k /\ k = Len(grants) + 1
    BY <1>4, <1>5
  <2>2. \A a \in Bytes(base, len) : Holder'[a] = {k}
    BY <1>2, <1>7
  <2> HIDE DEF n
  <2> QED BY <1>8, <1>9, <1>10, <1>11, <2>1, <2>2
<1> QED BY <1>12 DEF Abstract!Grant, Owner, Holder

\* Two regions share no byte.
LEMMA RegionsApart ==
  ASSUME TypeOK, RegionsDisjoint, NEW b \in DOMAIN regions, NEW c \in DOMAIN regions, b # c
  PROVE  RegionBytes(b) \cap RegionBytes(c) = {}
<1>1. b \in Nat /\ c \in Nat /\ regions[b].size \in Nat /\ regions[c].size \in Nat
  BY EndExact
<1>2. b < c => b + regions[b].size <= c
  BY DEF RegionsDisjoint
<1>3. c < b => c + regions[c].size <= b
  BY DEF RegionsDisjoint
<1> QED BY <1>1, <1>2, <1>3 DEF RegionBytes, Bytes

\* GuestMemory::new: one mapping, nothing handed out.
LEMMA RefineInit == Init => Abstract!Init
<1> SUFFICES ASSUME Init PROVE Abstract!Init
  OBVIOUS
<1> DEFINE heap == {a \in Address : Owner[a] # {}}
<1>1. DOMAIN regions = {HeapBase} /\ regions[HeapBase].size = HeapRegionSize
  BY DEF Init, Region
<1>2. \A a \in Address : Owner[a] = IF a \in Bytes(HeapBase, HeapRegionSize) THEN {HeapBase} ELSE {}
  BY <1>1 DEF Owner, RegionBytes
<1>3. Bytes(HeapBase, HeapRegionSize) \subseteq Address
  BY HeapFacts, WordAssumption DEF Bytes, Address
<1>4. heap = Bytes(HeapBase, HeapRegionSize)
  BY <1>2, <1>3
<1>5. /\ Abstract!IsRange(Bytes(HeapBase, HeapRegionSize))
      /\ \A a \in Bytes(HeapBase, HeapRegionSize) :
           Abstract!Min(Bytes(HeapBase, HeapRegionSize)) = HeapBase
  BY HeapFacts, BytesRange
<1>6. Owner \in [Address -> SUBSET Address]
  BY <1>1, HeapAssumption DEF Owner
<1>7. /\ Abstract!IsRange(heap)
      /\ \A a \in heap : Owner[a] = {Abstract!Min(heap)}
  BY <1>2, <1>3, <1>4, <1>5
<1>8. Holder = [a \in Address |-> {}] /\ Len(grants) = 0
  BY DEF Init, Holder
<1> QED BY <1>6, <1>7, <1>8 DEF Abstract!Init, Owner, Holder

\* Every call of the manager is a step of the abstract address space, or changes
\* nothing that it sees (protect).
LEMMA RefineNext == GrantInv /\ GrantInv' /\ [Next]_vars => [Abstract!Next]_(Abstract!vars)
<1> SUFFICES ASSUME GrantInv, GrantInv', [Next]_vars
             PROVE  Abstract!Next \/ (Owner' = Owner /\ Holder' = Holder /\ Len(grants)' = Len(grants))
  BY DEF Abstract!vars, Owner, Holder
<1>1. Inv /\ Inv'
  BY DEF GrantInv
<1>2. grants' = grants => Holder' = Holder /\ Len(grants)' = Len(grants)
  BY DEF Holder, GrantBytes
<1>3. regions' = regions => Owner' = Owner
  BY DEF Owner, RegionBytes
<1>4. Abstract!Claim /\ Holder' = Holder /\ Len(grants)' = Len(grants) => Abstract!Next
  BY DEF Abstract!Next, Holder
<1>5. Abstract!Grant /\ Owner' = Owner => Abstract!Next
  BY DEF Abstract!Next, Owner
<1>6. Abstract!Claim /\ Abstract!Grant => Abstract!Next
  BY DEF Abstract!Next
<1>7. ASSUME NEW base \in MapBases, NEW size \in MapSizes, NEW prot \in Prots,
             NEW kind \in MapKinds, Map(base, size, prot, kind)
      PROVE  Abstract!Next
  <2>1. base \in Address /\ size \in Address
    BY InputAssumption
  <2>2. PageUp(size) \in Address /\ 0 < PageUp(size)
    BY <2>1, PageUpExact DEF GrantInv, ModestRequests
  <2>3. /\ CheckFree(base, PageUp(size))
        /\ regions' = Insert(base, Region(PageUp(size), prot, kind))
        /\ grants' = grants
    BY <1>7 DEF Map, PageUp
  <2>4. Region(PageUp(size), prot, kind).size = PageUp(size)
    BY DEF Region
  <2>5. Abstract!Claim
    BY <1>1, <2>1, <2>2, <2>3, <2>4, InsertClaims
  <2> QED BY <1>2, <1>4, <2>3, <2>5
<1>8. ASSUME NEW base \in MapBases, NEW size \in SegSizes, NEW len \in DataLens,
             NEW prot \in Prots, MapWithData(base, size, len, prot)
      PROVE  Abstract!Next
  <2> DEFINE sz == AlignUp(AtLeast(size, len), PageSize)
  <2>1. base \in Address
    BY InputAssumption
  <2>2. sz \in Address /\ 0 < sz
    BY SegmentRounded DEF GrantInv
  <2>3. /\ CheckFree(base, sz)
        /\ regions' = Insert(base, Region(sz, prot, "Segment"))
        /\ grants' = grants
    BY <1>8 DEF MapWithData
  <2> HIDE DEF sz
  <2>4. Region(sz, prot, "Segment").size = sz
    BY DEF Region
  <2>5. Abstract!Claim
    BY <1>1, <2>1, <2>2, <2>3, <2>4, InsertClaims
  <2> QED BY <1>2, <1>4, <2>3, <2>5
<1>9. ASSUME NEW size \in MmapSizes, NEW prot \in Prots, MmapAnon(size, prot)
      PROVE  Abstract!Next
  <2>0. PICK base \in Address, sz \in Address :
          /\ size \in Address /\ 0 < sz /\ size <= sz
          /\ CheckFree(base, sz)
          /\ regions' = Insert(base, Region(sz, prot, "Anonymous"))
          /\ grants' = Append(grants, [base |-> base, len |-> size])
    BY <1>9, MmapExact
  <2> DEFINE new == Region(sz, prot, "Anonymous")
  <2>1. /\ size \in Address /\ 0 < sz /\ size <= sz
        /\ CheckFree(base, sz)
        /\ new = Region(sz, prot, "Anonymous") /\ regions' = Insert(base, new)
        /\ grants' = Append(grants, [base |-> base, len |-> size])
    BY <2>0
  <2> HIDE DEF new
  <2>2. new.size = sz
    BY <2>1 DEF Region
  <2>3. /\ Abstract!Claim
        /\ \A a \in Bytes(base, sz) : Owner'[a] = {base}
        /\ \A a \in Bytes(base, sz) : Owner[a] = {}
    BY <1>1, <2>1, <2>2, InsertClaims
  <2>4. base \in Nat /\ size \in Nat /\ sz \in Nat
    BY <2>1, WordAssumption DEF Address
  <2>5. base + sz < Word
    BY <2>1 DEF CheckFree
  <2>6. Bytes(base, size) \subseteq Bytes(base, sz) /\ base + size < Word
    BY <2>1, <2>4, <2>5, WordAssumption DEF Bytes
  <2>7. ASSUME NEW i \in DOMAIN grants
        PROVE  GrantBytes(i) \cap Bytes(base, size) = {}
    <3>1. PICK b \in DOMAIN regions : GrantBytes(i) \subseteq RegionBytes(b)
      BY GrantHome DEF GrantInv, OnArena
    <3>2. \A a \in Bytes(base, sz) : a \in Address
      BY <2>4, <2>5, WordAssumption DEF Bytes, Address
    <3>3. \A a \in Bytes(base, sz) : a \notin RegionBytes(b)
      BY <2>3, <3>2 DEF Owner
    <3> QED BY <2>6, <3>1, <3>3
  <2>8. Abstract!Grant
    <3>1. \A a \in Bytes(base, size) : Owner'[a] # {}
      BY <2>3, <2>6
    <3> QED BY <1>1, <2>1, <2>6, <2>7, <3>1, AppendGrants DEF Inv
  <2> QED BY <1>6, <2>3, <2>8
<1>10. ASSUME NEW addr \in Address, NEW prot \in Prots, Protect(addr, prot)
       PROVE  Owner' = Owner /\ grants' = grants
  <2>1. /\ DOMAIN regions' = DOMAIN regions
        /\ \A b \in DOMAIN regions : regions'[b].size = regions[b].size
    BY <1>1, <1>10 DEF Protect, TypeOK, Inv
  <2>2. \A b \in DOMAIN regions : RegionBytes(b)' = RegionBytes(b)
    BY <2>1 DEF RegionBytes, Bytes
  <2>3. \A a \in Address : {b \in DOMAIN regions' : a \in RegionBytes(b)'}
                             = {b \in DOMAIN regions : a \in RegionBytes(b)}
    BY <2>1, <2>2
  <2>4. Owner' = Owner
    BY <2>3 DEF Owner
  <2> QED BY <1>10, <2>4 DEF Protect
<1>11. ASSUME NEW size \in AllocSizes, NEW align \in Aligns, HeapAlloc(size, align)
       PROVE  Abstract!Next
  <2>1. PICK start \in Address, len \in Address :
          /\ 0 < len /\ heap_cursor <= start /\ start + len <= HeapBase + HeapSize
          /\ grants' = Append(grants, [base |-> start, len |-> len])
          /\ regions' = regions
    BY <1>11, HeapExact
  <2>2. start \in Nat /\ len \in Nat /\ heap_cursor \in Nat
    BY <1>1, <2>1, WordAssumption DEF Inv, TypeOK, Address
  <2>3. HeapBase <= start /\ 0 < HeapSize /\ start + len < Word
    BY <2>1, <2>2, HeapFacts, WordAssumption DEF GrantInv
  <2>4. /\ HeapBase \in DOMAIN regions /\ regions[HeapBase].kind = "Heap"
        /\ regions[HeapBase].size = HeapRegionSize
    BY <2>3 DEF GrantInv, HeapMapped
  <2>5. Bytes(start, len) \subseteq RegionBytes(HeapBase)
    BY <2>1, <2>2, <2>3, <2>4, HeapFacts DEF RegionBytes, Bytes
  <2>6. ASSUME NEW a \in Bytes(start, len) PROVE Owner'[a] # {}
    <3>1. a \in Address
      BY <2>2, <2>3, WordAssumption DEF Bytes, Address
    <3>2. HeapBase \in Owner[a]
      BY <2>4, <2>5, <3>1 DEF Owner
    <3> QED BY <1>3, <2>1, <3>2
  <2>7. ASSUME NEW i \in DOMAIN grants
        PROVE  GrantBytes(i) \cap Bytes(start, len) = {}
    <3>1. CASE OnHeap(grants[i])
      <4>1. grants[i].base \in Nat /\ grants[i].len \in Nat /\ grants[i].base + grants[i].len <= start
        BY <2>1, <2>2, <3>1, GrantHome DEF OnHeap
      <4> QED BY <2>2, <4>1 DEF GrantBytes, Bytes
    <3>2. CASE OnArena(grants[i])
      <4>1. grants[i].base \in DOMAIN regions /\ grants[i].base # HeapBase
        BY <2>4, <3>2 DEF OnArena
      <4>2. RegionBytes(grants[i].base) \cap RegionBytes(HeapBase) = {}
        BY <1>1, <2>4, <4>1, RegionsApart DEF Inv
      <4>3. GrantBytes(i) \subseteq RegionBytes(grants[i].base)
        BY <3>2, GrantHome
      <4> QED BY <2>5, <4>2, <4>3
    <3> QED BY <3>1, <3>2 DEF GrantInv
  <2>8. Abstract!Grant
    BY <1>1, <2>1, <2>3, <2>6, <2>7, AppendGrants DEF Inv
  <2> QED BY <1>3, <1>5, <2>1, <2>8
<1>12. CASE UNCHANGED vars
  <2>1. regions' = regions /\ grants' = grants
    BY <1>12 DEF vars
  <2> QED BY <1>2, <1>3, <2>1
<1> QED BY <1>2, <1>7, <1>8, <1>9, <1>10, <1>11, <1>12 DEF Next

\* For every request sequence of ordinary sizes the manager behaves as the
\* abstract address space: a byte keeps its mapping for good, and no byte is
\* handed out twice, whatever the mix of map, mmap_anon, protect and heap_alloc.
THEOREM ManagerIsAnAddressSpace == ModestRequests /\ Spec => ImplementsAddressSpace
<1>1. Init => Abstract!Init
  BY RefineInit
<1> QED BY <1>1, InitGrantInv, NextGrantInv, RefineNext, PTL
        DEF Spec, ImplementsAddressSpace, Abstract!Spec
=============================================================================
