------------------------- MODULE MC_PayloadBuilder -------------------------
(* Two callers, two slots (the genesis special case and one more), two     *)
(* execution hashes so that finalization moves the parent, and two ids.  *)
EXTENDS PayloadBuilder

CONSTANTS p1, p2, g, h1

MCProposers == {p1, p2}
MCSlots == {1, 2}
MCHashes == {g, h1}
MCPayloadIds == {1, 2}
=============================================================================
