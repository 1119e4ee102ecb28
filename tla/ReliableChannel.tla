-------------------------- MODULE ReliableChannel --------------------------
(***************************************************************************)
(* A channel between two ends.  What the sender was told is accepted is    *)
(* handed over once, in order, and nothing else is ever handed over.       *)
(***************************************************************************)
EXTENDS Naturals, Sequences

CONSTANT Packets
VARIABLES accepted,   \* what the sender may forget, in order
          handed      \* what the receiver has been given, in order

Init == accepted = << >> /\ handed = << >>

Accept(p) == accepted' = Append(accepted, p) /\ UNCHANGED handed

Hand ==
  /\ Len(handed) < Len(accepted)
  /\ handed' = Append(handed, accepted[Len(handed) + 1])
  /\ UNCHANGED accepted

Next == Hand \/ \E p \in Packets : Accept(p)

Spec == Init /\ [][Next]_<<accepted, handed>>
=============================================================================
