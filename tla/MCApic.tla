------------------------------- MODULE MCApic -------------------------------
(* A small instance of Apic: an edge-triggered and a level-triggered setting *)
(* of the line, with vectors in different words of the bitsets, and a        *)
(* level-triggered one that the guest writes back with the pending bit it    *)
(* has read.                                                                 *)
EXTENDS Apic

E(v, level, masked, pending) ==
  [vector |-> v, level |-> level, low |-> FALSE, masked |-> masked,
   pending |-> pending, received |-> FALSE]

MCGuestEntries == {E(201, FALSE, FALSE, FALSE), E(241, TRUE, FALSE, FALSE), E(241, TRUE, FALSE, TRUE)}
=============================================================================
