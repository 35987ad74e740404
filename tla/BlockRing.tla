----------------------------- MODULE BlockRing ------------------------------
(***************************************************************************)
(* What the block ring promises to the tasks on both of its ends, and what *)
(* TcpServer takes it for: full blocks are passed on in the order in which *)
(* they were filled, a block is filled again only after it has been handed *)
(* back, and there are never more of them than blocks.                     *)
(***************************************************************************)
EXTENDS Naturals, Sequences, Functions

CONSTANT Blocks

VARIABLE full     \* the full blocks, the oldest first

Init == full = <<>>

Put == \E b \in Blocks \ Range(full) : full' = Append(full, b)

Take == full # <<>> /\ full' = Tail(full)

Spec == Init /\ [][Put \/ Take]_full
=============================================================================
