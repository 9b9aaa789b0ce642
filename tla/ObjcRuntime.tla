----------------------------- MODULE ObjcRuntime -----------------------------
(***************************************************************************)
(* The Objective-C runtime of the HLE layer (crates/hle/src/objc) with its *)
(* C entry points (frameworks/objc_rt.rs) and the allocator of libSystem   *)
(* (frameworks/libsystem.rs), which share the bump heap of GuestMemory.    *)
(*                                                                         *)
(* One step is one call of an imported function; reply is the x0 it        *)
(* leaves.  objc_msgSendSuper is objc_msgSend on a stray pointer, the      *)
(* objc_super record.  Functions that only answer their argument or zero share an     *)
(* action: Identity stands for objc_retain, sel_registerName, init, self,  *)
(* autorelease and hash, Nothing for objc_release, free, the queries, and  *)
(* selectors that are unknown or cannot be read.                           *)
(*                                                                         *)
(* Abstraction.  An address counts words of eight bytes.  words holds the  *)
(* words that are not zero.  The guest stores nothing into objects, by     *)
(* itself or with memcpy and memset.  Superclass links are written and     *)
(* never read, so left out.                                                *)
(***************************************************************************)
EXTENDS Integers, Sequences, FiniteSets, FiniteSetsExt, SequencesExt

CONSTANTS
  Word, PageSize, MmapTop, HeapBase, HeapSize,      \* see GuestMemory
  Names,            \* class names the guest asks for; "" when it cannot be read
  Header, Align,    \* OBJ_HEADER_SIZE and the alignment of heap_alloc
  BlockSizes,       \* sizes given to malloc and realloc
  Strays,           \* pointers of the guest that are no heap block
  MaxCount          \* bound on a retain count, both ways

VARIABLES
  regions, mmap_cursor, heap_cursor, grants,        \* GuestMemory
  classes,          \* names, in order of registration
  class_addr_by_name, class_index_by_addr,
  instance_class, retain_counts,
  words,            \* guest memory
  reply             \* x0

memory == <<regions, mmap_cursor, heap_cursor, grants>>
class_tables == <<classes, class_addr_by_name, class_index_by_addr>>
instance_tables == <<instance_class, retain_counts>>
vars == <<memory, class_tables, instance_tables, words, reply>>

Mem == INSTANCE GuestMemory WITH
         MapBases <- {}, MapSizes <- {}, MapKinds <- {}, SegSizes <- {}, DataLens <- {},
         MmapSizes <- {}, AllocSizes <- {}, Aligns <- {}, Prots <- {}

ASSUME RuntimeAssumption ==
  /\ Header \in Nat \ {0} /\ Align \in Nat \ {0} /\ HeapBase % Align = 0
  /\ Word \in Nat /\ HeapBase \in Nat \ {0} /\ HeapSize \in Nat
  /\ HeapBase + HeapSize + Align <= Word
  /\ BlockSizes \subseteq Nat /\ Strays \subseteq 0 .. Word - 1 /\ MaxCount \in Nat \ {0}

Nil == 0
IsClass(p) == p \in DOMAIN class_index_by_addr
IsInstance(p) == p \in DOMAIN instance_class
Pointers == Strays \cup {Nil} \cup {grants[i].base : i \in DOMAIN grants}

\* CLASS_MAGIC | addr, the first word of a class object
ClassWord(addr) == Word + addr

Extend(f, k, v) == [x \in DOMAIN f \cup {k} |-> IF x = k THEN v ELSE f[x]]

\* heap_alloc answers the aligned cursor, or fails at the end of the arena.
HeapStart == Mem!AlignUp(heap_cursor, Align)
Fits(size) == HeapStart + Mem!AtLeast(size, 1) <= Mem!HeapLimit

-----------------------------------------------------------------------------
(* HleEnvironment::new, and preload_root_classes in start_environment: the root
   classes have a slot and no object. *)
Init ==
  /\ Mem!Init
  /\ classes = <<"NSObject", "NSProxy">>
  /\ class_addr_by_name = << >> /\ class_index_by_addr = << >>
  /\ instance_class = << >> /\ retain_counts = << >>
  /\ words = << >>
  /\ reply = Nil

\* Mutant: the slot that was reserved for the name is not looked for.
Registered_Always(name) == Append(classes, name)
(* The metadata slots after a class was registered. *)
Registered(name) == IF name \in ToSet(classes) THEN classes ELSE Append(classes, name)

Register(name, addr) ==
  /\ classes' = Registered(name)
  /\ class_addr_by_name' = Extend(class_addr_by_name, name, addr)
  /\ class_index_by_addr' =
       Extend(class_index_by_addr, addr,
              CHOOSE i \in DOMAIN classes' : classes'[i] = name)

KnownClass(name) == name \in DOMAIN class_addr_by_name

(* get_or_create_class *)
GetKnownClass(name) ==
  /\ KnownClass(name)
  /\ reply' = class_addr_by_name[name]
  /\ UNCHANGED <<memory, class_tables, instance_tables, words>>

CreateClass(name) ==
  /\ ~ KnownClass(name) /\ Mem!HeapAlloc(Header, Align)
  /\ Mem!Slice(HeapStart, 1, {"w"})
  /\ words' = Extend(words, HeapStart, ClassWord(HeapStart))
  /\ Register(name, HeapStart)
  /\ reply' = HeapStart
  /\ UNCHANGED instance_tables

\* Mutant: the class is registered before its object is written.
CreateClassUnwritten_Registered(name) ==
  /\ ~ KnownClass(name) /\ Mem!HeapAlloc(Header, Align)
  /\ ~ Mem!Slice(HeapStart, 1, {"w"})
  /\ Register(name, HeapStart)
  /\ reply' = Nil
  /\ UNCHANGED <<instance_tables, words>>
\* The heap is write-protected: the block is spent, the class does not exist.
CreateClassUnwritten(name) ==
  /\ ~ KnownClass(name) /\ Mem!HeapAlloc(Header, Align)
  /\ ~ Mem!Slice(HeapStart, 1, {"w"})
  /\ reply' = Nil
  /\ UNCHANGED <<class_tables, instance_tables, words>>

CreateClassNoRoom(name) ==
  /\ ~ KnownClass(name) /\ ~ Fits(Header)
  /\ reply' = Nil
  /\ UNCHANGED <<memory, class_tables, instance_tables, words>>

\* Mutant: room for the isa only.
InstanceSize_Short == 1
(* The block behind an instance. *)
InstanceSize == Header

(* alloc_instance, from objc_alloc, alloc and new *)
AllocInstance(class) ==
  /\ IsClass(class) /\ Mem!HeapAlloc(InstanceSize, Align)
  /\ Mem!Slice(HeapStart, 1, {"w"})
  /\ words' = Extend(words, HeapStart, class)
  /\ instance_class' = Extend(instance_class, HeapStart, class_index_by_addr[class])
  /\ retain_counts' = Extend(retain_counts, HeapStart, 1)
  /\ reply' = HeapStart
  /\ UNCHANGED class_tables

AllocUnwritten(class) ==
  /\ IsClass(class) /\ Mem!HeapAlloc(InstanceSize, Align)
  /\ ~ Mem!Slice(HeapStart, 1, {"w"})
  /\ reply' = Nil
  /\ UNCHANGED <<class_tables, instance_tables, words>>

AllocFails(class) ==
  /\ ~ IsClass(class) \/ ~ Fits(InstanceSize)
  /\ reply' = Nil
  /\ UNCHANGED <<memory, class_tables, instance_tables, words>>

-----------------------------------------------------------------------------
(* msg_send; a receiver of nil answers nil before the selector is read *)

Receiver(p, r) == IF p = Nil THEN Nil ELSE r
Answer(r) == reply' = r /\ UNCHANGED <<memory, class_tables, words>>

Count(p, d) ==
  retain_counts' = IF p \in DOMAIN retain_counts
                   THEN [retain_counts EXCEPT ![p] = @ + d] ELSE retain_counts

Retain(p) ==
  /\ p \in DOMAIN retain_counts => retain_counts[p] < MaxCount
  /\ IF p = Nil THEN UNCHANGED retain_counts ELSE Count(p, 1)
  /\ Answer(p)
  /\ UNCHANGED instance_class

Release(p) ==
  /\ p \in DOMAIN retain_counts => retain_counts[p] > - MaxCount
  /\ IF p = Nil THEN UNCHANGED retain_counts ELSE Count(p, -1)
  /\ Answer(Nil)
  /\ UNCHANGED instance_class

\* retainCount: an i64 shown as u64; 1 for what has no count.
RetainCount(p) ==
  /\ Answer(Receiver(p, IF p \in DOMAIN retain_counts THEN retain_counts[p] % Word ELSE 1))
  /\ UNCHANGED instance_tables

\* class: from the instance to the slot, the name and the class object.
ClassOf(p) ==
  IF ~ IsInstance(p) THEN p
  ELSE LET name == classes[instance_class[p]]
       IN  IF KnownClass(name) THEN class_addr_by_name[name] ELSE Nil

Class(p) == Answer(Receiver(p, ClassOf(p))) /\ UNCHANGED instance_tables
Identity(p) == Answer(p) /\ UNCHANGED instance_tables
Nothing == Answer(Nil) /\ UNCHANGED instance_tables

-----------------------------------------------------------------------------
(* libSystem *)

(* malloc and calloc *)
Malloc(size) ==
  /\ Mem!HeapAlloc(size, Align)
  /\ reply' = HeapStart
  /\ UNCHANGED <<class_tables, instance_tables, words>>

\* No room, for realloc too.
MallocFails(size) == ~ Fits(size) /\ Nothing

\* Mutant: source and destination of the copy are swapped.
Copied_Swapped(old, new, size) ==
  LET from == {w \in DOMAIN words : new <= w /\ w < new + size}
  IN  [w \in (DOMAIN words \ (old .. old + size - 1)) \cup {old + (x - new) : x \in from} |->
         IF w \in old .. old + size - 1 THEN words[new + (w - old)] ELSE words[w]]
(* Memory after size words were copied from old to new. *)
Copied(old, new, size) ==
  LET from == {w \in DOMAIN words : old <= w /\ w < old + size}
  IN  [w \in (DOMAIN words \ (new .. new + size - 1)) \cup {new + (x - old) : x \in from} |->
         IF w \in new .. new + size - 1 THEN words[old + (w - new)] ELSE words[w]]

(* realloc: a new block, and a copy as long as the new one, whatever the size
   of the old one was. *)
Realloc(old, size) ==
  /\ Mem!HeapAlloc(size, Align)
  /\ words' = IF old # Nil /\ Mem!Slice(old, size, {"r"}) /\ Mem!Slice(HeapStart, size, {"w"})
              THEN Copied(old, HeapStart, size) ELSE words
  /\ reply' = HeapStart
  /\ UNCHANGED <<class_tables, instance_tables>>

(* mprotect of the guest on its heap *)
ProtectHeap(prot) ==
  /\ Mem!Protect(HeapBase, prot)
  /\ reply' = 0
  /\ UNCHANGED <<class_tables, instance_tables, words>>

Next ==
  \/ \E n \in Names :
       GetKnownClass(n) \/ CreateClass(n) \/ CreateClassUnwritten(n) \/ CreateClassNoRoom(n)
  \/ \E p \in Pointers :
       \/ AllocInstance(p) \/ AllocUnwritten(p) \/ AllocFails(p)
       \/ Retain(p) \/ Release(p) \/ RetainCount(p) \/ Class(p) \/ Identity(p)
  \/ Nothing
  \/ \E s \in BlockSizes : Malloc(s) \/ MallocFails(s) \/ \E p \in Pointers : Realloc(p, s)
  \/ \E prot \in {{"r"}, {"r", "w"}} : ProtectHeap(prot)

Spec == Init /\ [][Next]_vars

-----------------------------------------------------------------------------
(* Properties *)

Objects == DOMAIN class_index_by_addr \cup DOMAIN instance_class

\* The tables have their types, and exactly the instances have a retain count.
TypeOK ==
  /\ Range(class_addr_by_name) = DOMAIN class_index_by_addr
  /\ Range(class_index_by_addr) \cup Range(instance_class) \subseteq DOMAIN classes
  /\ DOMAIN retain_counts = DOMAIN instance_class
  /\ Range(retain_counts) \subseteq - MaxCount .. MaxCount
  /\ reply \in 0 .. Word - 1

\* Whatever the order of malloc, realloc, class creation and alloc, the header
\* of an object lies in one block of the heap and nothing else was given a byte
\* of it; no address is a class and an instance.
HeadersOwned ==
  /\ DOMAIN class_index_by_addr \cap DOMAIN instance_class = {}
  /\ \A a \in Objects :
       LET header == a .. a + Header - 1 IN
       \E i \in DOMAIN grants :
         /\ header \subseteq Mem!GrantBytes(i)
         /\ \A j \in DOMAIN grants \ {i} : header \cap Mem!GrantBytes(j) = {}

\* The three class tables are one bijection between names and class objects,
\* also when a slot was reserved before the class existed.
ClassTablesAgree ==
  /\ TypeOK
  /\ IsInjective(classes) /\ IsInjective(class_index_by_addr)
  /\ \A n \in DOMAIN class_addr_by_name :
       classes[class_index_by_addr[class_addr_by_name[n]]] = n

\* "a guest reading *(id)obj gets the class handle back": the first word of an
\* instance stays what the message class answers, and that is a class object.
IsaIsClass ==
  \A o \in DOMAIN instance_class :
    o \in DOMAIN words /\ words[o] = ClassOf(o) /\ IsClass(ClassOf(o))

\* A call that answers nil has made no class and no instance, although it may
\* have spent a block of the heap.
NilRegistersNothing ==
  [][reply' = Nil => UNCHANGED <<class_tables, instance_class>>]_vars
=============================================================================
