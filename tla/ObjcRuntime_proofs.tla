-------------------------- MODULE ObjcRuntime_proofs --------------------------
(***************************************************************************)
(* Proofs about ObjcRuntime: the class tables, the headers of the objects  *)
(* and the isa of every instance, for any names, block sizes and sequence  *)
(* of calls.                                                               *)
(***************************************************************************)
EXTENDS ObjcRuntime, TLAPS

-----------------------------------------------------------------------------
(* The heap *)

Block == [base : Nat, len : Nat]
HeapEnd == HeapBase + HeapSize

\* The blocks that heap_alloc handed out: one behind the other, below the cursor.
HeapInv ==
  /\ heap_cursor \in HeapBase .. HeapEnd
  /\ grants \in Seq(Block)
  /\ \A i \in DOMAIN grants :
       /\ HeapBase <= grants[i].base /\ 1 <= grants[i].len
       /\ grants[i].base + grants[i].len <= heap_cursor
  /\ \A i, j \in DOMAIN grants : i < j => grants[i].base + grants[i].len <= grants[j].base

LEMMA BlockFacts ==
  ASSUME HeapInv
  PROVE  /\ DOMAIN grants = 1 .. Len(grants) /\ Len(grants) \in Nat
         /\ \A i \in DOMAIN grants : grants[i].base \in Nat /\ grants[i].len \in Nat
         /\ heap_cursor \in Nat
<1>1. grants \in Seq(Block)
  BY DEF HeapInv
<1>2. \A i \in DOMAIN grants : grants[i] \in Block
  BY <1>1
<1>3. heap_cursor \in Nat
  BY RuntimeAssumption DEF HeapInv, HeapEnd
<1> QED BY <1>1, <1>2, <1>3 DEF Block

LEMMA LimitFact == Mem!HeapLimit = HeapEnd /\ HeapEnd \in Nat /\ HeapEnd < Word
BY RuntimeAssumption DEF Mem!HeapLimit, HeapEnd

\* The aligned cursor.
LEMMA StartFact ==
  ASSUME HeapInv
  PROVE  HeapStart \in Nat /\ heap_cursor <= HeapStart
<1>1. PICK c \in Nat : c = heap_cursor /\ c + Align <= Word
  BY BlockFacts, RuntimeAssumption DEF HeapInv, HeapEnd
<1>2. PICK n \in Nat : n = c + (Align - 1) /\ n < Word
  BY <1>1, RuntimeAssumption
<1>3. Word \in Nat \ {0} /\ Align \in Nat \ {0}
  BY <1>2, RuntimeAssumption
<1>4. n % Word = n
  BY <1>2, <1>3
<1>5. n % Align \in 0 .. Align - 1 /\ n % Align <= n
  BY <1>2, <1>3
<1>6. HeapStart = n - (n % Align)
  BY <1>1, <1>2, <1>4 DEF HeapStart, Mem!AlignUp, Mem!AlignDown
<1>7. PICK r \in 0 .. Align - 1 : r = n % Align /\ r <= n
  BY <1>5
<1> QED BY <1>1, <1>2, <1>3, <1>6, <1>7

\* heap_alloc: a new block at the aligned cursor, above all the others.
LEMMA AllocFacts ==
  ASSUME HeapInv, NEW size \in Nat, Mem!HeapAlloc(size, Align)
  PROVE  /\ HeapInv' /\ HeapStart \in Nat /\ HeapBase <= HeapStart /\ HeapStart < Word
         /\ \A i \in DOMAIN grants : grants[i].base + grants[i].len <= HeapStart
         /\ DOMAIN grants' = DOMAIN grants \cup {Len(grants) + 1}
         /\ \A i \in DOMAIN grants : grants'[i] = grants[i]
         /\ grants'[Len(grants) + 1].base = HeapStart
         /\ grants'[Len(grants) + 1].len = Mem!AtLeast(size, 1)
<1>1. Mem!AtLeast(Align, 1) = Align
  BY RuntimeAssumption DEF Mem!AtLeast
<1>2. PICK h \in Nat : h = HeapStart /\ heap_cursor <= h
  BY StartFact
<1>3. PICK n \in Nat : n = Mem!AtLeast(size, 1) /\ 1 <= n
  BY DEF Mem!AtLeast
<1>4. /\ h + n <= HeapEnd /\ heap_cursor' = h + n
      /\ grants' = Append(grants, [base |-> h, len |-> n])
  BY <1>1, <1>2, <1>3, LimitFact DEF Mem!HeapAlloc, HeapStart
<1>5. PICK b \in Block : b = [base |-> h, len |-> n]
  BY DEF Block
<1>6. b.base = h /\ b.len = n
  BY <1>5
<1>7. /\ grants' \in Seq(Block) /\ DOMAIN grants = 1 .. Len(grants) /\ Len(grants) \in Nat
      /\ DOMAIN grants' = DOMAIN grants \cup {Len(grants) + 1}
      /\ \A i \in DOMAIN grants : grants'[i] = grants[i]
      /\ grants'[Len(grants) + 1] = b
  BY <1>4, <1>5 DEF HeapInv
<1>8. /\ heap_cursor \in Nat /\ HeapBase \in Nat /\ HeapBase <= heap_cursor
      /\ HeapEnd \in Nat /\ HeapEnd < Word
      /\ \A i \in DOMAIN grants : grants[i].base \in Nat /\ grants[i].len \in Nat
  BY BlockFacts, LimitFact, RuntimeAssumption DEF HeapInv
<1>9. \A i \in DOMAIN grants : grants[i].base + grants[i].len <= h
  BY <1>2, <1>8 DEF HeapInv
<1>10. HeapInv'
  <2>1. heap_cursor' \in HeapBase .. HeapEnd
    BY <1>2, <1>3, <1>4, <1>8
  <2>2. ASSUME NEW i \in DOMAIN grants'
        PROVE  /\ HeapBase <= grants'[i].base /\ 1 <= grants'[i].len
               /\ grants'[i].base + grants'[i].len <= heap_cursor'
    <3>1. CASE i \in DOMAIN grants
      <4>1. HeapBase <= grants[i].base /\ 1 <= grants[i].len /\ grants'[i] = grants[i]
        BY <1>7, <3>1 DEF HeapInv
      <4>2. grants[i].base + grants[i].len <= heap_cursor'
        BY <1>3, <1>4, <1>8, <1>9, <3>1
      <4> QED BY <4>1, <4>2
    <3>2. CASE i = Len(grants) + 1
      <4>1. HeapBase <= h
        BY <1>2, <1>8
      <4> QED BY <1>3, <1>4, <1>6, <1>7, <3>2, <4>1
    <3> QED BY <1>7, <3>1, <3>2
  <2>3. ASSUME NEW i \in DOMAIN grants', NEW j \in DOMAIN grants', i < j
        PROVE  grants'[i].base + grants'[i].len <= grants'[j].base
    <3>1. i \in DOMAIN grants /\ grants'[i] = grants[i]
      BY <1>7, <2>3
    <3>2. CASE j \in DOMAIN grants
      BY <1>7, <2>3, <3>1, <3>2 DEF HeapInv
    <3>3. CASE j = Len(grants) + 1
      BY <1>6, <1>7, <1>9, <3>1, <3>3
    <3> QED BY <1>7, <3>2, <3>3
  <2> QED BY <1>7, <2>1, <2>2, <2>3 DEF HeapInv, HeapEnd
<1>11. HeapBase <= h /\ h < Word
  BY <1>2, <1>3, <1>4, <1>8, RuntimeAssumption
<1> QED BY <1>2, <1>3, <1>6, <1>7, <1>9, <1>10, <1>11

-----------------------------------------------------------------------------
(* The inductive invariant *)

ClassNames == Names \cup {"NSObject", "NSProxy"}

\* Every object is the block that was allocated for it.
Blocks ==
  /\ DOMAIN class_index_by_addr \cap DOMAIN instance_class = {}
  /\ \A a \in Objects : \E i \in DOMAIN grants : grants[i].base = a /\ grants[i].len = Header

Inv ==
  /\ HeapInv /\ classes \in Seq(ClassNames) /\ ClassTablesAgree /\ Blocks /\ IsaIsClass

\* An object lies below the cursor.
LEMMA ObjectsLow ==
  ASSUME HeapInv, Blocks, NEW a \in Objects
  PROVE  a \in Nat /\ HeapBase <= a /\ a < heap_cursor
<1>1. PICK i \in DOMAIN grants : grants[i].base = a
  BY DEF Blocks
<1>2. grants[i].base \in Nat /\ grants[i].len \in Nat /\ heap_cursor \in Nat
  BY BlockFacts
<1> QED BY <1>1, <1>2 DEF HeapInv

LEMMA InitInv == Init => Inv
<1> SUFFICES ASSUME Init PROVE Inv
  OBVIOUS
<1>1. /\ classes = <<"NSObject", "NSProxy">> /\ class_addr_by_name = << >>
      /\ class_index_by_addr = << >> /\ instance_class = << >> /\ retain_counts = << >>
      /\ reply = Nil /\ heap_cursor = HeapBase /\ grants = << >>
  BY DEF Init, Mem!Init
<1>2. HeapInv
  BY <1>1, RuntimeAssumption DEF HeapInv, HeapEnd
<1>3. classes \in Seq(ClassNames)
  <2>1. "NSObject" \in ClassNames /\ "NSProxy" \in ClassNames
    BY DEF ClassNames
  <2> QED BY <1>1, <2>1
<1>4. TypeOK
  <2>1. \A f : f = << >> => Range(f) = {} /\ DOMAIN f = {}
    BY DEF Range
  <2>2. reply \in 0 .. Word - 1
    BY <1>1, RuntimeAssumption DEF Nil
  <2> QED BY <1>1, <2>1, <2>2 DEF TypeOK
<1>5. IsInjective(classes)
  <2>1. DOMAIN classes = {1, 2} /\ classes[1] = "NSObject" /\ classes[2] = "NSProxy"
    BY <1>1
  <2> QED BY <2>1 DEF IsInjective
<1>6. ClassTablesAgree
  BY <1>1, <1>4, <1>5 DEF ClassTablesAgree, IsInjective
<1>7. Blocks /\ IsaIsClass
  BY <1>1 DEF Blocks, Objects, IsaIsClass
<1> QED BY <1>2, <1>3, <1>6, <1>7 DEF Inv

-----------------------------------------------------------------------------
(* The steps *)

\* A pointer of the guest is an address.
LEMMA PointerType ==
  ASSUME HeapInv, NEW p \in Pointers
  PROVE  p \in 0 .. Word - 1
<1>1. CASE p \in Strays
  BY <1>1, RuntimeAssumption
<1>2. CASE p = Nil
  BY <1>2, RuntimeAssumption DEF Nil
<1>3. ASSUME NEW i \in DOMAIN grants, p = grants[i].base PROVE p \in 0 .. Word - 1
  <2>1. /\ grants[i].base \in Nat /\ grants[i].len \in Nat /\ heap_cursor \in Nat
        /\ HeapEnd \in Nat /\ HeapEnd < Word
    BY BlockFacts, LimitFact
  <2>2. grants[i].base + grants[i].len <= heap_cursor /\ heap_cursor <= HeapEnd
    BY <2>1 DEF HeapInv
  <2> QED BY <1>3, <2>1, <2>2, RuntimeAssumption
<1> QED BY <1>1, <1>2, <1>3 DEF Pointers

\* The calls that leave the class tables and the instances alone: the words of
\* the objects have to stay, and the reply has to be an address.
LEMMA QuietStep ==
  ASSUME Inv, HeapInv', UNCHANGED <<class_tables, instance_class>>,
         \A i \in DOMAIN grants : i \in DOMAIN grants' /\ grants'[i] = grants[i],
         \A o \in DOMAIN instance_class :
           o \in DOMAIN words => o \in DOMAIN words' /\ words'[o] = words[o],
         DOMAIN retain_counts' = DOMAIN instance_class,
         \A o \in DOMAIN retain_counts' : retain_counts'[o] \in - MaxCount .. MaxCount,
         reply' \in 0 .. Word - 1
  PROVE  Inv'
<1>0. UNCHANGED <<classes, class_addr_by_name, class_index_by_addr>>
  BY DEF class_tables
<1>1. ClassTablesAgree'
  <2>1. Range(retain_counts)' \subseteq - MaxCount .. MaxCount
    BY DEF Range
  <2>2. TypeOK'
    BY <1>0, <2>1 DEF Inv, ClassTablesAgree, TypeOK, Range
  <2> QED BY <1>0, <2>2 DEF Inv, ClassTablesAgree, IsInjective
<1>2. Blocks'
  BY <1>0 DEF Inv, Blocks, Objects
<1>3. IsaIsClass'
  <2>1. ASSUME NEW o \in DOMAIN instance_class
        PROVE  o \in DOMAIN words' /\ words'[o] = words[o] /\ ClassOf(o)' = ClassOf(o)
    BY <1>0 DEF Inv, IsaIsClass, ClassOf, IsInstance, KnownClass
  <2>2. \A q : IsClass(q)' = IsClass(q)
    BY <1>0 DEF IsClass
  <2> QED BY <2>1, <2>2 DEF Inv, IsaIsClass, IsClass
<1> QED BY <1>0, <1>1, <1>2, <1>3 DEF Inv

\* The types of the retain counts, and of what the message class answers.
LEMMA CountTypes ==
  ASSUME Inv
  PROVE  /\ DOMAIN retain_counts = DOMAIN instance_class
         /\ \A o \in DOMAIN retain_counts : retain_counts[o] \in - MaxCount .. MaxCount
         /\ \A o \in DOMAIN instance_class : ClassOf(o) \in 0 .. Word - 1
         /\ \A n \in DOMAIN class_addr_by_name : class_addr_by_name[n] \in 0 .. Word - 1
<1>1. /\ DOMAIN retain_counts = DOMAIN instance_class
      /\ \A o \in DOMAIN retain_counts : retain_counts[o] \in - MaxCount .. MaxCount
      /\ \A n \in DOMAIN class_addr_by_name : class_addr_by_name[n] \in DOMAIN class_index_by_addr
  BY DEF Inv, ClassTablesAgree, TypeOK, Range
<1>2. ASSUME NEW a \in DOMAIN class_index_by_addr PROVE a \in 0 .. Word - 1
  <2>1. a \in Nat /\ a < heap_cursor
    BY ObjectsLow DEF Inv, Objects
  <2>2. heap_cursor \in Nat /\ heap_cursor <= HeapEnd /\ HeapEnd \in Nat /\ HeapEnd < Word
    BY BlockFacts, LimitFact DEF Inv, HeapInv
  <2> QED BY <2>1, <2>2, RuntimeAssumption
<1>3. \A o \in DOMAIN instance_class : ClassOf(o) \in DOMAIN class_index_by_addr
  BY DEF Inv, IsaIsClass, IsClass
<1> QED BY <1>1, <1>2, <1>3

\* The calls that change only a retain count and the reply.
LEMMA AnswerStep ==
  ASSUME Inv, UNCHANGED <<class_tables, instance_class, words, grants, heap_cursor>>,
         DOMAIN retain_counts' = DOMAIN retain_counts,
         \A o \in DOMAIN retain_counts : retain_counts'[o] \in - MaxCount .. MaxCount,
         reply' \in 0 .. Word - 1
  PROVE  Inv'
<1>1. HeapInv'
  BY DEF Inv, HeapInv, HeapEnd
<1> QED BY <1>1, CountTypes, QuietStep

\* retain and release.
LEMMA CountStep ==
  ASSUME Inv, NEW p, NEW d \in {1, -1}, Count(p, d),
         p \in DOMAIN retain_counts => retain_counts[p] + d \in - MaxCount .. MaxCount
  PROVE  /\ DOMAIN retain_counts' = DOMAIN retain_counts
         /\ \A o \in DOMAIN retain_counts : retain_counts'[o] \in - MaxCount .. MaxCount
<1>1. \A o \in DOMAIN retain_counts : retain_counts[o] \in - MaxCount .. MaxCount
  BY CountTypes
<1>2. CASE p \in DOMAIN retain_counts
  <2>1. retain_counts' = [retain_counts EXCEPT ![p] = retain_counts[p] + d]
    BY <1>2 DEF Count
  <2> QED BY <1>1, <1>2, <2>1
<1>3. CASE p \notin DOMAIN retain_counts
  BY <1>1, <1>3 DEF Count
<1> QED BY <1>2, <1>3

\* A block is allocated and no object is made: malloc, realloc, and the two
\* calls that could not write the header.
LEMMA SpendStep ==
  ASSUME Inv, NEW size \in Nat, Mem!HeapAlloc(size, Align),
         UNCHANGED <<class_tables, instance_tables>>,
         \A w \in DOMAIN words : w < HeapStart => w \in DOMAIN words' /\ words'[w] = words[w],
         reply' \in {HeapStart, Nil}
  PROVE  Inv'
<1>1. /\ HeapInv' /\ HeapStart \in Nat /\ HeapStart < Word
      /\ DOMAIN grants' = DOMAIN grants \cup {Len(grants) + 1}
      /\ \A i \in DOMAIN grants : grants'[i] = grants[i]
  BY AllocFacts DEF Inv
<1>2. reply' \in 0 .. Word - 1
  BY <1>1, RuntimeAssumption DEF Nil
<1>3. ASSUME NEW o \in DOMAIN instance_class, o \in DOMAIN words
      PROVE  o \in DOMAIN words' /\ words'[o] = words[o]
  <2>1. o \in Nat /\ o < heap_cursor /\ heap_cursor \in Nat /\ heap_cursor <= HeapStart
    BY ObjectsLow, BlockFacts, StartFact DEF Inv, Objects
  <2>2. o < HeapStart
    BY <1>1, <2>1
  <2> QED BY <1>3, <2>2
<1>4. UNCHANGED <<instance_class, retain_counts>>
  BY DEF instance_tables
<1>5. /\ DOMAIN retain_counts' = DOMAIN instance_class
      /\ \A o \in DOMAIN retain_counts' : retain_counts'[o] \in - MaxCount .. MaxCount
  BY <1>4, CountTypes
<1> QED BY <1>1, <1>2, <1>3, <1>4, <1>5, QuietStep

\* realloc overwrites nothing below the new block.
LEMMA CopiedBelow ==
  ASSUME NEW old, NEW new \in Nat, NEW size \in Nat, NEW w \in DOMAIN words, w < new
  PROVE  w \in DOMAIN Copied(old, new, size) /\ Copied(old, new, size)[w] = words[w]
<1>1. w \notin new .. new + size - 1
  OBVIOUS
<1> QED BY <1>1 DEF Copied

\* The slots after a registration: no name twice, no name lost, the new one in.
LEMMA RegisteredFacts ==
  ASSUME classes \in Seq(ClassNames), IsInjective(classes), NEW name \in Names,
         classes' = Registered(name)
  PROVE  /\ classes' \in Seq(ClassNames) /\ IsInjective(classes)'
         /\ DOMAIN classes \subseteq DOMAIN classes'
         /\ \A i \in DOMAIN classes : classes'[i] = classes[i]
         /\ \E i \in DOMAIN classes' : classes'[i] = name
<1>1. CASE name \in ToSet(classes)
  <2>1. classes' = classes
    BY <1>1 DEF Registered
  <2>2. \E i \in DOMAIN classes : classes[i] = name
    BY <1>1 DEF ToSet
  <2> QED BY <2>1, <2>2 DEF IsInjective
<1>2. CASE name \notin ToSet(classes)
  <2>1. classes' = Append(classes, name) /\ name \in ClassNames
    BY <1>2 DEF Registered, ClassNames
  <2>2. /\ classes' \in Seq(ClassNames) /\ Len(classes) \in Nat
        /\ DOMAIN classes = 1 .. Len(classes)
        /\ DOMAIN classes' = DOMAIN classes \cup {Len(classes) + 1}
        /\ \A i \in DOMAIN classes : classes'[i] = classes[i]
        /\ classes'[Len(classes) + 1] = name
    BY <2>1
  <2>3. \A i \in DOMAIN classes : classes[i] # name
    BY <1>2 DEF ToSet
  <2>4. IsInjective(classes)'
    BY <2>2, <2>3 DEF IsInjective
  <2> QED BY <2>2, <2>4
<1> QED BY <1>1, <1>2

\* get_or_create_class makes a class.
LEMMA CreateStep ==
  ASSUME Inv, NEW name \in Names, CreateClass(name)
  PROVE  Inv'
<1>0. /\ HeapInv /\ classes \in Seq(ClassNames) /\ ClassTablesAgree /\ Blocks /\ IsaIsClass
      /\ TypeOK
  BY DEF Inv, ClassTablesAgree
<1>1. PICK h \in Nat : h = HeapStart
  BY <1>0, StartFact
<1>2. Header \in Nat /\ Mem!HeapAlloc(Header, Align)
  BY RuntimeAssumption DEF CreateClass
<1>3. /\ HeapInv' /\ HeapBase <= h /\ h < Word
      /\ DOMAIN grants' = DOMAIN grants \cup {Len(grants) + 1}
      /\ \A i \in DOMAIN grants : grants'[i] = grants[i]
      /\ grants'[Len(grants) + 1].base = h
      /\ grants'[Len(grants) + 1].len = Mem!AtLeast(Header, 1)
  BY <1>0, <1>1, <1>2, AllocFacts
<1>4. /\ name \notin DOMAIN class_addr_by_name
      /\ words' = Extend(words, h, ClassWord(h))
      /\ classes' = Registered(name)
      /\ class_addr_by_name' = Extend(class_addr_by_name, name, h)
      /\ class_index_by_addr' =
           Extend(class_index_by_addr, h, CHOOSE i \in DOMAIN classes' : classes'[i] = name)
      /\ reply' = h /\ UNCHANGED <<instance_class, retain_counts>>
  BY <1>1 DEF CreateClass, KnownClass, Register, instance_tables
<1>5. /\ classes' \in Seq(ClassNames) /\ IsInjective(classes)'
      /\ DOMAIN classes \subseteq DOMAIN classes'
      /\ \A i \in DOMAIN classes : classes'[i] = classes[i]
      /\ \E i \in DOMAIN classes' : classes'[i] = name
  BY <1>0, <1>4, RegisteredFacts DEF ClassTablesAgree
<1>6. PICK x : x = CHOOSE i \in DOMAIN classes' : classes'[i] = name
  OBVIOUS
<1>7. x \in DOMAIN classes' /\ classes'[x] = name
  BY <1>5, <1>6
<1>8. /\ DOMAIN class_addr_by_name' = DOMAIN class_addr_by_name \cup {name}
      /\ class_addr_by_name'[name] = h
      /\ \A n \in DOMAIN class_addr_by_name : class_addr_by_name'[n] = class_addr_by_name[n]
  BY <1>4 DEF Extend
<1>9. \A a \in Objects : a \in Nat /\ a < h
  <2>1. ASSUME NEW a \in Objects PROVE a \in Nat /\ a < h
    <3>1. a \in Nat /\ a < heap_cursor /\ heap_cursor \in Nat /\ heap_cursor <= h
      BY <1>0, <1>1, ObjectsLow, BlockFacts, StartFact
    <3> QED BY <3>1
  <2> QED BY <2>1
<1>10. h \notin Objects
  BY <1>9
<1>11. /\ DOMAIN class_index_by_addr' = DOMAIN class_index_by_addr \cup {h}
       /\ class_index_by_addr'[h] = x
       /\ \A a \in DOMAIN class_index_by_addr : class_index_by_addr'[a] = class_index_by_addr[a]
  BY <1>4, <1>6, <1>10 DEF Extend, Objects
<1>12. /\ \A n \in DOMAIN class_addr_by_name :
            /\ class_addr_by_name[n] \in DOMAIN class_index_by_addr
            /\ classes[class_index_by_addr[class_addr_by_name[n]]] = n
       /\ \A a \in DOMAIN class_index_by_addr :
            /\ class_index_by_addr[a] \in DOMAIN classes
            /\ \E n \in DOMAIN class_addr_by_name : a = class_addr_by_name[n]
       /\ \A o \in DOMAIN instance_class : instance_class[o] \in DOMAIN classes
  BY <1>0 DEF ClassTablesAgree, TypeOK, Range
<1>13. TypeOK'
  <2>1. \A a : a \in Range(class_addr_by_name)' <=> a \in DOMAIN class_index_by_addr'
    BY <1>8, <1>11, <1>12 DEF Range
  <2>2. Range(class_addr_by_name)' = DOMAIN class_index_by_addr'
    BY <2>1, Zenon
  <2>3. (Range(class_index_by_addr) \cup Range(instance_class))' \subseteq DOMAIN classes'
    BY <1>4, <1>5, <1>7, <1>11, <1>12 DEF Range
  <2>4. reply' \in 0 .. Word - 1
    BY <1>3, <1>4, RuntimeAssumption
  <2> QED BY <1>0, <1>4, <2>2, <2>3, <2>4 DEF TypeOK, Range
<1>14. \A a \in DOMAIN class_index_by_addr : class_index_by_addr[a] # x
  BY <1>4, <1>5, <1>7, <1>12
<1>15. IsInjective(class_index_by_addr)'
  BY <1>0, <1>11, <1>14 DEF ClassTablesAgree, IsInjective
<1>16. ASSUME NEW n \in DOMAIN class_addr_by_name'
       PROVE  classes'[class_index_by_addr'[class_addr_by_name'[n]]] = n
  BY <1>5, <1>7, <1>8, <1>11, <1>12
<1>17. ClassTablesAgree'
  BY <1>5, <1>13, <1>15, <1>16 DEF ClassTablesAgree
<1>18. Blocks'
  <2>1. Mem!AtLeast(Header, 1) = Header
    BY RuntimeAssumption DEF Mem!AtLeast
  <2>2. Objects' = Objects \cup {h}
    BY <1>4, <1>11 DEF Objects
  <2>3. ASSUME NEW a \in Objects'
        PROVE  \E i \in DOMAIN grants' : grants'[i].base = a /\ grants'[i].len = Header
    <3>1. CASE a = h
      BY <1>3, <2>1, <3>1
    <3>2. CASE a \in Objects
      <4>1. PICK i \in DOMAIN grants : grants[i].base = a /\ grants[i].len = Header
        BY <1>0, <3>2 DEF Blocks
      <4> QED BY <1>3, <4>1
    <3> QED BY <2>2, <3>1, <3>2
  <2>4. (DOMAIN class_index_by_addr \cap DOMAIN instance_class)' = {}
    BY <1>0, <1>4, <1>10, <1>11 DEF Blocks, Objects
  <2> QED BY <2>3, <2>4 DEF Blocks
<1>19. IsaIsClass'
  <2>1. ASSUME NEW o \in DOMAIN instance_class
        PROVE  o \in DOMAIN words' /\ words'[o] = ClassOf(o)' /\ IsClass(ClassOf(o))'
    <3>1. o \in DOMAIN words /\ words[o] = ClassOf(o) /\ IsClass(ClassOf(o)) /\ o # h
      BY <1>0, <1>10 DEF IsaIsClass, Objects
    <3>2. o \in DOMAIN words' /\ words'[o] = words[o]
      BY <1>4, <3>1 DEF Extend
    <3>3. PICK n : n = classes[instance_class[o]]
      OBVIOUS
    <3>4. Nil \notin DOMAIN class_index_by_addr
      <4>1. HeapBase \in Nat \ {0}
        BY RuntimeAssumption
      <4>2. \A a \in DOMAIN class_index_by_addr : a \in Nat /\ HeapBase <= a
        BY <1>0, ObjectsLow DEF Objects
      <4> QED BY <4>1, <4>2 DEF Nil
    <3>5. n \in DOMAIN class_addr_by_name /\ ClassOf(o) = class_addr_by_name[n]
      BY <3>1, <3>3, <3>4 DEF ClassOf, IsInstance, KnownClass, IsClass
    <3>6. classes'[instance_class'[o]] = n
      BY <1>4, <1>5, <1>12, <3>3
    <3>7. ClassOf(o)' = class_addr_by_name[n]
      BY <1>4, <1>8, <3>5, <3>6 DEF ClassOf, IsInstance, KnownClass
    <3> QED BY <1>11, <3>1, <3>2, <3>5, <3>7 DEF IsClass
  <2> QED BY <1>4, <2>1 DEF IsaIsClass
<1> QED BY <1>3, <1>5, <1>17, <1>18, <1>19 DEF Inv

\* alloc_instance makes an instance.
LEMMA AllocStep ==
  ASSUME Inv, NEW class, AllocInstance(class)
  PROVE  Inv'
<1>0. /\ HeapInv /\ classes \in Seq(ClassNames) /\ ClassTablesAgree /\ Blocks /\ IsaIsClass
      /\ TypeOK /\ class \in DOMAIN class_index_by_addr
  BY DEF Inv, ClassTablesAgree, AllocInstance, IsClass
<1>1. PICK h \in Nat : h = HeapStart
  BY <1>0, StartFact
<1>2. Header \in Nat /\ Mem!HeapAlloc(Header, Align)
  BY RuntimeAssumption DEF AllocInstance, InstanceSize
<1>3. /\ HeapInv' /\ HeapBase <= h /\ h < Word
      /\ DOMAIN grants' = DOMAIN grants \cup {Len(grants) + 1}
      /\ \A i \in DOMAIN grants : grants'[i] = grants[i]
      /\ grants'[Len(grants) + 1].base = h
      /\ grants'[Len(grants) + 1].len = Mem!AtLeast(Header, 1)
  BY <1>0, <1>1, <1>2, AllocFacts
<1>4. /\ words' = Extend(words, h, class)
      /\ instance_class' = Extend(instance_class, h, class_index_by_addr[class])
      /\ retain_counts' = Extend(retain_counts, h, 1)
      /\ reply' = h /\ UNCHANGED <<classes, class_addr_by_name, class_index_by_addr>>
  BY <1>1 DEF AllocInstance, class_tables
<1>5. h \notin Objects
  <2>1. ASSUME NEW a \in Objects PROVE a # h
    <3>1. a \in Nat /\ a < heap_cursor /\ heap_cursor \in Nat /\ heap_cursor <= h
      BY <1>0, <1>1, ObjectsLow, BlockFacts, StartFact
    <3> QED BY <3>1
  <2> QED BY <2>1
<1>6. /\ DOMAIN instance_class' = DOMAIN instance_class \cup {h}
      /\ instance_class'[h] = class_index_by_addr[class]
      /\ \A o \in DOMAIN instance_class : instance_class'[o] = instance_class[o]
  BY <1>4, <1>5 DEF Extend, Objects
<1>7. /\ DOMAIN retain_counts' = DOMAIN retain_counts \cup {h} /\ retain_counts'[h] = 1
      /\ \A o \in DOMAIN retain_counts : o # h => retain_counts'[o] = retain_counts[o]
  BY <1>4 DEF Extend
<1>8. /\ DOMAIN words' = DOMAIN words \cup {h} /\ words'[h] = class
      /\ \A o \in DOMAIN words : o # h => words'[o] = words[o]
  BY <1>4 DEF Extend
<1>9. /\ \A n \in DOMAIN class_addr_by_name :
           classes[class_index_by_addr[class_addr_by_name[n]]] = n
      /\ \E n \in DOMAIN class_addr_by_name : class = class_addr_by_name[n]
      /\ \A a \in DOMAIN class_index_by_addr : class_index_by_addr[a] \in DOMAIN classes
  BY <1>0 DEF ClassTablesAgree, TypeOK, Range
<1>10. TypeOK'
  <2>1. Range(instance_class)' \subseteq DOMAIN classes'
    BY <1>0, <1>4, <1>6, <1>9 DEF TypeOK, Range
  <2>2. Range(retain_counts)' \subseteq - MaxCount .. MaxCount
    <3>1. \A o \in DOMAIN retain_counts : retain_counts[o] \in - MaxCount .. MaxCount
      BY CountTypes
    <3>2. 1 \in - MaxCount .. MaxCount
      BY RuntimeAssumption
    <3> QED BY <1>7, <3>1, <3>2 DEF Range
  <2>3. reply' \in 0 .. Word - 1
    BY <1>3, <1>4, RuntimeAssumption
  <2>4. DOMAIN retain_counts' = DOMAIN instance_class'
    BY <1>0, <1>6, <1>7 DEF TypeOK
  <2> QED BY <1>0, <1>4, <2>1, <2>2, <2>3, <2>4 DEF TypeOK, Range
<1>11. ClassTablesAgree'
  BY <1>0, <1>4, <1>10 DEF ClassTablesAgree, IsInjective
<1>12. Blocks'
  <2>1. Mem!AtLeast(Header, 1) = Header
    BY RuntimeAssumption DEF Mem!AtLeast
  <2>2. Objects' = Objects \cup {h}
    BY <1>4, <1>6 DEF Objects
  <2>3. ASSUME NEW a \in Objects'
        PROVE  \E i \in DOMAIN grants' : grants'[i].base = a /\ grants'[i].len = Header
    <3>1. CASE a = h
      BY <1>3, <2>1, <3>1
    <3>2. CASE a \in Objects
      <4>1. PICK i \in DOMAIN grants : grants[i].base = a /\ grants[i].len = Header
        BY <1>0, <3>2 DEF Blocks
      <4> QED BY <1>3, <4>1
    <3> QED BY <2>2, <3>1, <3>2
  <2>4. (DOMAIN class_index_by_addr \cap DOMAIN instance_class)' = {}
    BY <1>0, <1>4, <1>5, <1>6 DEF Blocks, Objects
  <2> QED BY <2>3, <2>4 DEF Blocks
<1>13. IsaIsClass'
  <2>1. ASSUME NEW o \in DOMAIN instance_class
        PROVE  o \in DOMAIN words' /\ words'[o] = ClassOf(o)' /\ IsClass(ClassOf(o))'
    <3>1. o \in DOMAIN words /\ words[o] = ClassOf(o) /\ IsClass(ClassOf(o)) /\ o # h
      BY <1>0, <1>5 DEF IsaIsClass, Objects
    <3>2. ClassOf(o)' = ClassOf(o)
      BY <1>4, <1>6 DEF ClassOf, IsInstance, KnownClass
    <3> QED BY <1>4, <1>8, <3>1, <3>2 DEF IsClass
  <2>2. h \in DOMAIN words' /\ words'[h] = ClassOf(h)' /\ IsClass(ClassOf(h))'
    <3>1. PICK n \in DOMAIN class_addr_by_name : class = class_addr_by_name[n]
      BY <1>9
    <3>2. classes'[instance_class'[h]] = n
      BY <1>4, <1>6, <1>9, <3>1
    <3>3. ClassOf(h)' = class
      BY <1>4, <1>6, <3>1, <3>2 DEF ClassOf, IsInstance, KnownClass
    <3> QED BY <1>0, <1>4, <1>8, <3>3 DEF IsClass
  <2> QED BY <1>6, <2>1, <2>2 DEF IsaIsClass
<1> QED BY <1>0, <1>3, <1>4, <1>11, <1>12, <1>13 DEF Inv

LEMMA NextInv == Inv /\ [Next]_vars => Inv'
<1> SUFFICES ASSUME Inv, [Next]_vars PROVE Inv'
  OBVIOUS
<1>t. ClassTablesAgree /\ TypeOK /\ HeapInv
  BY DEF Inv, ClassTablesAgree
<1>c. /\ DOMAIN retain_counts = DOMAIN instance_class
      /\ \A o \in DOMAIN retain_counts : retain_counts[o] \in - MaxCount .. MaxCount
      /\ \A o \in DOMAIN instance_class : ClassOf(o) \in 0 .. Word - 1
      /\ \A n \in DOMAIN class_addr_by_name : class_addr_by_name[n] \in 0 .. Word - 1
  BY CountTypes
<1>n. Nil \in 0 .. Word - 1 /\ 1 \in 0 .. Word - 1 /\ Word \in Nat \ {0} /\ MaxCount \in Nat
  BY RuntimeAssumption DEF Nil
<1>a. ASSUME NEW r \in 0 .. Word - 1, reply' = r,
             UNCHANGED <<memory, class_tables, instance_tables, words>>
      PROVE  Inv'
  BY <1>a, <1>c, AnswerStep DEF memory, instance_tables
<1>1. CASE UNCHANGED vars
  BY <1>1, <1>a, <1>t DEF vars, TypeOK
<1>2. ASSUME NEW n \in Names, GetKnownClass(n) PROVE Inv'
  BY <1>2, <1>a, <1>c DEF GetKnownClass, KnownClass
<1>3. ASSUME NEW n \in Names, CreateClassUnwritten(n) PROVE Inv'
  <2>1. Header \in Nat
    BY RuntimeAssumption
  <2> QED BY <1>3, <2>1, SpendStep DEF CreateClassUnwritten
<1>4. ASSUME NEW n \in Names, CreateClassNoRoom(n) PROVE Inv'
  BY <1>4, <1>a, <1>n DEF CreateClassNoRoom
<1>5. ASSUME NEW p \in Pointers, AllocUnwritten(p) PROVE Inv'
  <2>1. Header \in Nat
    BY RuntimeAssumption
  <2> QED BY <1>5, <2>1, SpendStep DEF AllocUnwritten, InstanceSize
<1>6. ASSUME NEW p \in Pointers, AllocFails(p) PROVE Inv'
  BY <1>6, <1>a, <1>n DEF AllocFails
<1>7. ASSUME NEW p \in Pointers, Retain(p) PROVE Inv'
  <2>1. p \in DOMAIN retain_counts => retain_counts[p] + 1 \in - MaxCount .. MaxCount
    BY <1>7, <1>c, <1>n DEF Retain
  <2>2. /\ DOMAIN retain_counts' = DOMAIN retain_counts
        /\ \A o \in DOMAIN retain_counts : retain_counts'[o] \in - MaxCount .. MaxCount
    <3>1. CASE p = Nil
      BY <1>7, <1>c, <3>1 DEF Retain
    <3>2. CASE p # Nil
      BY <1>7, <2>1, <3>2, CountStep DEF Retain
    <3> QED BY <3>1, <3>2
  <2>3. reply' \in 0 .. Word - 1
    BY <1>7, <1>t, PointerType DEF Retain, Answer
  <2> QED BY <1>7, <2>2, <2>3, AnswerStep DEF Retain, Answer, memory
<1>8. ASSUME NEW p \in Pointers, Release(p) PROVE Inv'
  <2>1. p \in DOMAIN retain_counts => retain_counts[p] + (-1) \in - MaxCount .. MaxCount
    BY <1>8, <1>c, <1>n DEF Release
  <2>2. /\ DOMAIN retain_counts' = DOMAIN retain_counts
        /\ \A o \in DOMAIN retain_counts : retain_counts'[o] \in - MaxCount .. MaxCount
    <3>1. CASE p = Nil
      BY <1>8, <1>c, <3>1 DEF Release
    <3>2. CASE p # Nil
      BY <1>8, <2>1, <3>2, CountStep DEF Release
    <3> QED BY <3>1, <3>2
  <2>3. reply' \in 0 .. Word - 1
    BY <1>8, <1>n DEF Release, Answer
  <2> QED BY <1>8, <2>2, <2>3, AnswerStep DEF Release, Answer, memory
<1>9. ASSUME NEW p \in Pointers, RetainCount(p) PROVE Inv'
  <2>1. ASSUME p \in DOMAIN retain_counts PROVE retain_counts[p] % Word \in 0 .. Word - 1
    <3>1. retain_counts[p] \in Int
      BY <1>c, <1>n, <2>1
    <3> QED BY <1>n, <3>1
  <2>2. Receiver(p, IF p \in DOMAIN retain_counts THEN retain_counts[p] % Word ELSE 1)
          \in 0 .. Word - 1
    BY <1>n, <2>1 DEF Receiver
  <2> QED BY <1>9, <1>a, <2>2 DEF RetainCount, Answer
<1>10. ASSUME NEW p \in Pointers, Class(p) PROVE Inv'
  <2>1. ClassOf(p) \in 0 .. Word - 1
    <3>1. CASE IsInstance(p)
      BY <1>c, <3>1 DEF IsInstance
    <3>2. CASE ~ IsInstance(p)
      BY <1>t, <3>2, PointerType DEF ClassOf
    <3> QED BY <3>1, <3>2
  <2>2. Receiver(p, ClassOf(p)) \in 0 .. Word - 1
    BY <1>n, <2>1 DEF Receiver
  <2> QED BY <1>10, <1>a, <2>2 DEF Class, Answer
<1>11. ASSUME NEW p \in Pointers, Identity(p) PROVE Inv'
  BY <1>11, <1>a, <1>t, PointerType DEF Identity, Answer
<1>12. ASSUME Nothing PROVE Inv'
  BY <1>12, <1>a, <1>n DEF Nothing, Answer
<1>13. ASSUME NEW s \in BlockSizes, Malloc(s) PROVE Inv'
  <2>1. s \in Nat
    BY RuntimeAssumption
  <2> QED BY <1>13, <2>1, SpendStep DEF Malloc
<1>14. ASSUME NEW s \in BlockSizes, MallocFails(s) PROVE Inv'
  BY <1>12, <1>14 DEF MallocFails
<1>15. ASSUME NEW p \in Pointers, NEW s \in BlockSizes, Realloc(p, s) PROVE Inv'
  <2>1. s \in Nat /\ HeapStart \in Nat
    BY <1>t, RuntimeAssumption, StartFact
  <2>2. \A w \in DOMAIN words : w < HeapStart => w \in DOMAIN words' /\ words'[w] = words[w]
    <3>1. CASE words' = words
      BY <3>1
    <3>2. CASE words' = Copied(p, HeapStart, s)
      BY <2>1, <3>2, CopiedBelow
    <3> QED BY <1>15, <3>1, <3>2 DEF Realloc
  <2> QED BY <1>15, <2>1, <2>2, SpendStep DEF Realloc
<1>16. ASSUME NEW prot, ProtectHeap(prot) PROVE Inv'
  BY <1>16, <1>c, <1>n, AnswerStep DEF ProtectHeap, Mem!Protect, instance_tables, Nil
<1> QED BY <1>1, <1>2, <1>3, <1>4, <1>5, <1>6, <1>7, <1>8, <1>9, <1>10, <1>11, <1>12, <1>13, <1>14,
           <1>15, <1>16, CreateStep, AllocStep DEF Next

LEMMA Invariance == Spec => []Inv
BY InitInv, NextInv, PTL DEF Spec

-----------------------------------------------------------------------------
(* The results *)

\* The three class tables stay one bijection between names and class objects,
\* whatever classes are asked for in which order (get_or_create_class).
THEOREM ClassTablesBijective == Spec => []ClassTablesAgree
<1>1. Inv => ClassTablesAgree
  BY DEF Inv
<1> QED BY <1>1, Invariance, PTL

\* The first word of every instance stays its class object, which is what the
\* message class answers, through any number of later calls.
THEOREM IsaStays == Spec => []IsaIsClass
<1>1. Inv => IsaIsClass
  BY DEF Inv
<1> QED BY <1>1, Invariance, PTL

\* The header of an object belongs to it alone: no other block that heap_alloc
\* handed out has a byte of it.
THEOREM HeadersAreOwned == Spec => []HeadersOwned
<1>1. ASSUME Inv PROVE HeadersOwned
  <2>0. HeapInv /\ Blocks
    BY <1>1 DEF Inv
  <2>1. /\ DOMAIN grants = 1 .. Len(grants) /\ Len(grants) \in Nat
        /\ \A i \in DOMAIN grants : grants[i].base \in Nat /\ grants[i].len \in Nat
    BY <2>0, BlockFacts
  <2>2. ASSUME NEW a \in Objects
        PROVE  LET header == a .. a + Header - 1 IN
               \E i \in DOMAIN grants :
                 /\ header \subseteq Mem!GrantBytes(i)
                 /\ \A j \in DOMAIN grants \ {i} : header \cap Mem!GrantBytes(j) = {}
    <3>1. PICK i \in DOMAIN grants : grants[i].base = a /\ grants[i].len = Header
      BY <2>0 DEF Blocks
    <3>2. Mem!GrantBytes(i) = a .. a + Header - 1
      BY <3>1 DEF Mem!GrantBytes, Mem!Bytes
    <3>3. ASSUME NEW j \in DOMAIN grants \ {i}
          PROVE  (a .. a + Header - 1) \cap Mem!GrantBytes(j) = {}
      <4>1. PICK b \in Nat, l \in Nat : b = grants[j].base /\ l = grants[j].len
        BY <2>1
      <4>2. i < j \/ j < i
        BY <2>1
      <4>3. a + Header <= b \/ b + l <= a
        BY <2>0, <3>1, <4>1, <4>2 DEF HeapInv
      <4>4. Mem!GrantBytes(j) = b .. b + l - 1
        BY <4>1 DEF Mem!GrantBytes, Mem!Bytes
      <4>5. a \in Nat /\ Header \in Nat
        BY <2>1, <3>1, RuntimeAssumption
      <4> QED BY <4>1, <4>3, <4>4, <4>5
    <3> QED BY <3>2, <3>3
  <2> QED BY <2>0, <2>2 DEF HeadersOwned, Blocks
<1> QED BY <1>1, Invariance, PTL

\* A call that answers nil has registered no class and no instance.
THEOREM NilLeavesNoObject == Spec => NilRegistersNothing
<1> DEFINE P == reply' = Nil => UNCHANGED <<class_tables, instance_class>>
<1>1. ASSUME Inv, [Next]_vars PROVE [P]_vars
  <2>0. HeapInv /\ HeapStart # Nil
    <3>1. HeapStart \in Nat /\ heap_cursor <= HeapStart
      BY <1>1, StartFact DEF Inv
    <3>2. HeapBase <= heap_cursor /\ HeapBase \in Nat \ {0} /\ heap_cursor \in Nat
      BY <1>1, BlockFacts, RuntimeAssumption DEF Inv, HeapInv
    <3> QED BY <1>1, <3>1, <3>2 DEF Inv, Nil
  <2>1. ASSUME NEW n \in Names, CreateClass(n) PROVE P
    BY <2>0, <2>1 DEF CreateClass
  <2>2. ASSUME NEW p, AllocInstance(p) PROVE P
    BY <2>0, <2>2 DEF AllocInstance
  <2>3. ASSUME NEW n,
               GetKnownClass(n) \/ CreateClassUnwritten(n) \/ CreateClassNoRoom(n) PROVE P
    BY <2>3 DEF GetKnownClass, CreateClassUnwritten, CreateClassNoRoom, instance_tables
  <2>4. ASSUME NEW p, AllocUnwritten(p) \/ AllocFails(p) PROVE P
    BY <2>4 DEF AllocUnwritten, AllocFails, instance_tables
  <2>5. ASSUME NEW p,
               Retain(p) \/ Release(p) \/ RetainCount(p) \/ Class(p) \/ Identity(p) PROVE P
    BY <2>5 DEF Retain, Release, RetainCount, Class, Identity, Answer, instance_tables
  <2>6. ASSUME NEW s, Malloc(s) \/ MallocFails(s) \/ Nothing PROVE P
    BY <2>6 DEF Malloc, MallocFails, Nothing, Answer, instance_tables
  <2>7. ASSUME NEW p, NEW s, Realloc(p, s) PROVE P
    BY <2>7 DEF Realloc, instance_tables
  <2>8. ASSUME NEW prot, ProtectHeap(prot) PROVE P
    BY <2>8 DEF ProtectHeap, instance_tables
  <2> HIDE DEF P
  <2> QED BY <1>1, <2>1, <2>2, <2>3, <2>4, <2>5, <2>6, <2>7, <2>8 DEF Next
<1>2. Spec => [][P]_vars
  <2> HIDE DEF P
  <2> QED BY <1>1, Invariance, PTL DEF Spec
<1> QED BY <1>2 DEF NilRegistersNothing
=============================================================================
