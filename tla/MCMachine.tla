------------------------------ MODULE MCMachine ------------------------------
(* Machine on three pointer slots, two of them of the same symbol; the lazy
   entry of the first one starts at offset 0, as in every lazy stream. *)
EXTENDS Machine

ThreeSlots == {"p", "q", "r"}
SlotSymbols == [k \in ThreeSlots |-> IF k = "q" THEN "puts" ELSE "malloc"]
SlotOffsets == [k \in ThreeSlots |-> CASE k = "p" -> 0 [] k = "q" -> 1 [] k = "r" -> 2]

ASSUME LinkedAssumption == LinkedImage
=============================================================================
