------------------------------ MODULE GemmCheck ------------------------------
(***************************************************************************)
(* The test program of the multiplier (gemm_test of sw/sdram_test/main.c): *)
(* what each die's tests write to MODE, the operands as they are packed    *)
(* into words, and gemm_check_results, which takes the result apart and    *)
(* counts rows that pass.                                                  *)
(*                                                                         *)
(* The engine is Gemm's subject: here the result matrix is the right one,  *)
(* or the right one with one element changed.  Widths are those of Gemm    *)
(* (16, 8 and 32 in the code); val gives the elements of both operands.    *)
(***************************************************************************)
EXTENDS Integers, Sequences, FiniteSetsExt

CONSTANTS N,            \* order of the matrices, 16
          Wide, Narrow, \* bits of an element, 16 and 8
          Vals,         \* element functions of a row and a column, val of the program among them
          SignedIns,    \* values of signed_in, TRUE in the program
          Scale, Zero, AlphaQ, \* the arguments of gemm_check_results: 65536, 0, 0
          Errors        \* what a damaged element is off by

CheckAssumption == N % 4 = 0 /\ Wide = 2 * Narrow /\ 0 \notin Errors

VARIABLES cpuid, tests, reg_mode, mem, cmem, val, signed_in, damage, row, mism, passCount, failCount

count == <<row, mism, passCount, failCount>>
vars == <<cpuid, tests, reg_mode, mem, cmem, val, signed_in, damage, count>>

Index == 0 .. N - 1
\* The low b bits of a number, as they are and as a signed number.
Low(x, b) == x % 2 ^ b
AsSigned(x, b) == ((x + 2 ^ (b - 1)) % 2 ^ b) - 2 ^ (b - 1)
Int32(x) == AsSigned(x, 2 * Wide)

-----------------------------------------------------------------------------
(* The tests of the two dies that run any.                                  *)

Test1 == [dw16 |-> TRUE, act |-> FALSE, leaky |-> FALSE, quant |-> FALSE, signed |-> FALSE]
Test2 == [Test1 EXCEPT !.act = TRUE, !.leaky = TRUE]
Test3 == [Test1 EXCEPT !.dw16 = FALSE]
Test4 == [Test2 EXCEPT !.dw16 = FALSE, !.quant = TRUE]
TestsOf(die) == CASE die = 0 -> <<Test1, Test3>> [] die = 1 -> <<Test2, Test4>> [] OTHER -> <<>>

-----------------------------------------------------------------------------
(* Operands and results in words: the first element in the low bits.        *)

bits == IF reg_mode.dw16 THEN Wide ELSE Narrow
pack == IF reg_mode.dw16 THEN 2 ELSE 4
PackWith(xs, b) == [e \in DOMAIN xs |-> Low(xs[e], b)]
pack16(x0, x1) == PackWith(<<x0, x1>>, Wide)
pack8(x0, x1, x2, x3) == PackWith(<<x0, x1, x2, x3>>, Narrow)

\* Without signed_in the sign goes, and with it the number.
Masked(x) == IF signed_in THEN x ELSE Low(x, bits - 1)
load_matrix_packed ==
    [r \in Index |-> [g \in 0 .. (N \div pack) - 1 |->
        LET x(e) == Masked(val[<<r, g * pack + e>>])
        IN IF reg_mode.dw16 THEN pack16(x(0), x(1)) ELSE pack8(x(0), x(1), x(2), x(3))]]

relu(x) == IF x < 0 THEN 0 ELSE x
leaky_relu_q17(x, alpha_q1_7) == IF x >= 0 THEN x ELSE Int32(x * alpha_q1_7) \div 128
\* The fraction is as wide as an element: 65536 in the code.
quantize_q1616(x, scale_q1616, zero) ==
    Int32(Int32(Int32(x * scale_q1616) + 2 ^ (Wide - 1)) \div 2 ^ Wide + zero)
Clamp(x, b) == IF x > 2 ^ (b - 1) - 1 THEN 2 ^ (b - 1) - 1 ELSE IF x < -(2 ^ (b - 1)) THEN -(2 ^ (b - 1)) ELSE x

\* The sum counts with val itself, whatever was masked.
acc(r, c) == Int32(FoldSet(LAMBDA t, sum : sum + val[<<r, t>>] * val[<<t, c>>], 0, Index))
actv(x) == IF ~reg_mode.act THEN x ELSE IF reg_mode.leaky THEN leaky_relu_q17(x, AlphaQ) ELSE relu(x)
out(r, c) == Clamp(LET a == actv(acc(r, c)) IN IF reg_mode.quant THEN quantize_q1616(a, Scale, Zero) ELSE a, bits)

\* An element of the result, as the program takes it out of its word.
Element(r, c) == AsSigned(cmem[<<r, c>>], bits)
\* Fault: a byte is compared with the results of the elements in front of it, not with its own.
Mismatch_Before(r, c) ==
    IF reg_mode.dw16 THEN Element(r, c) # Low(out(r, c), Wide)
    ELSE \E k \in 0 .. (c % 4) - 1 : Element(r, c - (c % 4) + k) # out(r, c)
\* What an element's comparison finds: of sixteen bits a signed number and an unsigned one; of
\* eight, the switch has no breaks and looks at every byte from the element's on.
Mismatch(r, c) ==
    IF reg_mode.dw16 THEN Element(r, c) # Low(out(r, c), Wide)
    ELSE \E k \in (c % 4) .. 3 : Element(r, c - (c % 4) + k) # out(r, c)

-----------------------------------------------------------------------------

Idle == row = -1
Init ==
    /\ cpuid \in 0 .. 3 /\ tests = TestsOf(cpuid) /\ reg_mode = Test1
    /\ val \in Vals /\ signed_in \in SignedIns
    /\ mem = <<>> /\ cmem = <<>> /\ damage = <<>>
    /\ row = -1 /\ mism = 0 /\ passCount = 0 /\ failCount = 0

\* The counts of one test are cleared by the next.
gemm_test ==
    /\ Idle /\ tests # <<>>
    /\ reg_mode' = Head(tests) /\ tests' = Tail(tests)
    /\ row' = -2 /\ mism' = 0 /\ passCount' = 0 /\ failCount' = 0
    /\ UNCHANGED <<cpuid, mem, cmem, val, signed_in, damage>>
load_input_matrices ==
    /\ row = -2 /\ row' = -3 /\ mem' = load_matrix_packed
    /\ UNCHANGED <<cpuid, tests, reg_mode, cmem, val, signed_in, damage, mism, passCount, failCount>>
\* The engine's result, with an element damaged or not.
Engine ==
    /\ row = -3 /\ row' = 0
    /\ \E d \in {<<>>} \cup (Index \X Index \X Errors) :
           /\ damage' = d
           /\ cmem' = [p \in Index \X Index |->
                  Low(out(p[1], p[2]) + IF d # <<>> /\ <<d[1], d[2]>> = p THEN d[3] ELSE 0, bits)]
    /\ UNCHANGED <<cpuid, tests, reg_mode, mem, val, signed_in, mism, passCount, failCount>>
\* A row passes when no element of it, or of a row before it, differs.
gemm_check_results ==
    /\ row \in Index /\ row' = IF row = N - 1 THEN -1 ELSE row + 1
    /\ mism' = mism + Cardinality({c \in Index : Mismatch(row, c)})
    /\ passCount' = passCount + IF mism' = 0 THEN 1 ELSE 0
    /\ failCount' = failCount + IF mism' = 0 THEN 0 ELSE 1
    /\ UNCHANGED <<cpuid, tests, reg_mode, mem, cmem, val, signed_in, damage>>

Next == gemm_test \/ load_input_matrices \/ Engine \/ gemm_check_results
Spec == Init /\ [][Next]_vars

-----------------------------------------------------------------------------

Checked == Idle /\ cmem # <<>>
\* The words hold the operands the check counts with, element by element (lines 162 to 224), as
\* long as signed_in leaves the signs.
OperandsPacked ==
    row = 0 /\ signed_in =>
        \A r, c \in Index : AsSigned(mem[r][c \div pack][(c % pack) + 1], bits) = AsSigned(val[<<r, c>>], bits)
\* A test that reports no failure has looked at every element and found each right, with or
\* without missing breaks (lines 281 to 392).
WrongNeverPasses == Checked /\ failCount = 0 => damage = <<>> /\ passCount = N
\* A right result of the accelerator passes the check (what the messages "Test1 PASS" say).  It
\* does not: negative elements and unequal bytes fail.
RightPasses == Checked /\ damage = <<>> => failCount = 0
=============================================================================
