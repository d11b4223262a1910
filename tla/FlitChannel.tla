---------------------------- MODULE FlitChannel ----------------------------
(***************************************************************************)
(* What every stage of the die-to-die link promises: a bounded, reliable   *)
(* and ordered channel.  Flits that enter it leave it once each, in the    *)
(* order they came, and at most Capacity of them are inside.               *)
(***************************************************************************)
EXTENDS Naturals, Sequences

CONSTANTS Flit, Capacity

VARIABLES accepted,   \* the flits that entered, in order
          delivered   \* the flits that left, in order

Init == accepted = <<>> /\ delivered = <<>>

\* The next flit in line, if there is one, leaves.
Leave ==
    \/ delivered' = delivered
    \/ /\ Len(delivered) < Len(accepted)
       /\ delivered' = Append(delivered, accepted[Len(delivered) + 1])

\* One flit enters, if there is room for it.
Enter ==
    \/ accepted' = accepted
    \/ /\ Len(accepted) < Len(delivered) + Capacity
       /\ Len(accepted') = Len(accepted) + 1
       /\ accepted' = Append(accepted, accepted'[Len(accepted')])
       /\ accepted'[Len(accepted')] \in Flit

\* The two ends have clocks of their own and may act at the same instant.
Next == Enter /\ Leave

Spec == Init /\ [][Next]_<<accepted, delivered>>
=============================================================================
