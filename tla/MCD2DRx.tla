------------------------------ MODULE MCD2DRx ------------------------------
(* The receive half with a ring of four slots (two-bit pointers).           *)
EXTENDS D2DRx

CONSTANT MaxFlits   \* bound: flits taken at the port

MCToGray == bin2gray(2)
MCFromGray == gray2bin(2)

\* What the proofs assume of the Gray functions holds of the code's, on three bits.
Code == INSTANCE D2DRing WITH
            Depth <- 8, ToGray <- bin2gray(3), FromGray <- gray2bin(3)
ASSUME CodeGray == Code!GrayAssumption

\* Start a run, gate the port while it goes on, and reset the engine after it.
MCControls == {{"RX_START", "RX_ENABLE"}, {"RX_START"},
               {"RX_RESET", "RX_ENABLE", "RX_START"}}

Bounded == Len(received) <= MaxFlits

=============================================================================
