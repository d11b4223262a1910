------------------------------ MODULE MCD2DTx ------------------------------
(* The transmit half with a ring of four slots (two-bit pointers).          *)
EXTENDS D2DTx

CONSTANT MaxFlits   \* bound: flits taken up by the DMA engine over all runs

MCToGray == bin2gray(2)
MCFromGray == gray2bin(2)

\* Start a run, and gate or ungate the sender while it goes on.
MCControls == {{"TX_START", "TX_ENABLE"}, {"TX_START"}, {"TX_RESET"}}

Bounded == Len(sent) <= MaxFlits
=============================================================================
