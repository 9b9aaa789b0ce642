---------------------------- MODULE MCGuestMemory ----------------------------
(* GuestMemory on an address space of 32 bytes in pages of 4. *)
EXTENDS GuestMemory

\* The requests are those that the theorems about grants are about.
ASSUME ModestAssumption == ModestRequests
=============================================================================
