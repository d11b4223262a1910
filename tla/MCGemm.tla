------------------------------- MODULE MCGemm -------------------------------
(* Instances of Gemm for TLC: elements of 8 and 4 bits, accumulators of 16. *)
EXTENDS Gemm

Val(r, c) == r + 2 * c - 3   \* val() of the testbench and of main.c
ValMatrix == [p \in Index \X Index |-> Val(p[1], p[2])]
Identity == [p \in Index \X Index |-> IF p[1] = p[2] THEN 1 ELSE 0]
\* Columns of both signs, large enough for sums beyond both ends of an 8-bit element.
SteepMatrix ==
    [p \in Index \X Index |-> IF p[2] % 2 = 0 THEN Val(p[1], p[2]) ELSE -5 * Val(p[1], p[2])]

Signed16 == [dw16 |-> TRUE, act |-> FALSE, leaky |-> FALSE, quant |-> FALSE, signed |-> TRUE]
WideModes ==
    {Signed16,
     [Signed16 EXCEPT !.act = TRUE],
     [Signed16 EXCEPT !.act = TRUE, !.leaky = TRUE, !.quant = TRUE]}
NarrowModes == {[Signed16 EXCEPT !.dw16 = FALSE]}
BothModes == WideModes \cup NarrowModes
UnsignedModes == {[Signed16 EXCEPT !.signed = FALSE]}
MinusTwo == -2
MinusNine == -9

\* The instances stay within what the result is claimed for.
ASSUME Representable
=============================================================================
