---------------------------- MODULE AddressSpace ----------------------------
(***************************************************************************)
(* What the guest address-space manager promises its clients, with no      *)
(* search among the regions and no cursors: a byte of the address space    *)
(* belongs to at most one mapping, for good, and a byte handed to the      *)
(* guest by an allocation call (malloc or mmap) is mapped and is never     *)
(* handed out by another call.                                             *)
(***************************************************************************)
EXTENDS Integers, FiniteSetsExt

CONSTANT Addresses              \* the byte addresses of the guest

VARIABLES owner,                \* the bases of the mappings that hold a byte
          holder,               \* the allocation calls that returned a byte
          served                \* how many allocation calls succeeded

vars == <<owner, holder, served>>

IsRange(S) == \A a, b \in S : a .. b \subseteq S

Changed(new, old) == {a \in Addresses : new[a] # old[a]}

\* The address space starts with one mapping, the heap, and nothing handed out.
Init ==
  /\ owner \in [Addresses -> SUBSET Addresses]
  /\ LET heap == {a \in Addresses : owner[a] # {}}
     IN  IsRange(heap) /\ \A a \in heap : owner[a] = {Min(heap)}
  /\ holder = [a \in Addresses |-> {}]
  /\ served = 0

\* A new mapping takes a range of bytes that belonged to nobody.
Claim ==
  LET range == Changed(owner', owner) IN
  /\ owner' \in [Addresses -> SUBSET Addresses]
  /\ IsRange(range)
  /\ \A a \in range : owner[a] = {} /\ owner'[a] = {Min(range)}

\* An allocation call takes a range of mapped bytes that nobody holds.
Grant ==
  LET range == Changed(holder', holder) IN
  /\ served' = served + 1
  /\ holder' \in [Addresses -> SUBSET Nat]
  /\ IsRange(range)
  /\ \A a \in range : /\ owner'[a] # {}
                      /\ holder[a] = {}
                      /\ holder'[a] = {served'}

Next ==
  \/ Claim /\ UNCHANGED <<holder, served>>      \* a segment, stub page or stack
  \/ Grant /\ UNCHANGED owner                   \* malloc
  \/ Claim /\ Grant                             \* mmap

Spec == Init /\ [][Next]_vars
=============================================================================
