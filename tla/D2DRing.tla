------------------------------ MODULE D2DRing ------------------------------
(***************************************************************************)
(* Ring pointers, Gray code and flits of the die-to-die link's two FIFOs   *)
(* (rtl/d2d/verilog/d2d_link_top.v).                                       *)
(*                                                                         *)
(* A pointer is the low bits the code indexes and compares with            *)
(* (`ptr[2:0]' of a 4-bit register; the top bit is never read).  A Gray    *)
(* word is the set of the positions of its 1 bits, so that exclusive or is *)
(* a statement about membership and a word sampled while it changes (Mix)  *)
(* can be any word that agrees with the old and the new one where those    *)
(* agree with each other.                                                  *)
(***************************************************************************)
EXTENDS Naturals, Sequences

Bits(w) == 0..(w - 1)

\* Bit i of the number p, as the code writes p[i].
BitOf(p, i) == (p \div 2^i) % 2

\* bin2gray: gray[i] = bin[i] ^ bin[i+1], for pointers of w bits.
bin2gray(w) ==
    [p \in 0..(2^w - 1) |-> {i \in Bits(w) : BitOf(p, i) # BitOf(p, i + 1)}]

\* Bit i of a decoded word: the exclusive or of its bits i and above.
DecodedBit(g, i, w) ==
    LET Above[j \in 0..w] ==      \* parity of the bits j..w-1 of g
            IF j = w THEN 0
            ELSE IF j \in g THEN 1 - Above[j + 1] ELSE Above[j + 1]
    IN  Above[i]

\* gray2bin: the binary number of a Gray word of w bits.
gray2bin(w) ==
    [g \in SUBSET Bits(w) |->
        LET Low[i \in 0..w] ==    \* the number made of bits 0..i-1
                IF i = 0 THEN 0
                ELSE Low[i - 1] + DecodedBit(g, i - 1, w) * 2^(i - 1)
        IN  Low[w]]

\* The words a register may capture when its source changes from old to new
\* at the same instant: each bit is the old one or the new one.
Mix(old, new) == {m \in SUBSET (old \cup new) : old \cap new \subseteq m}

-----------------------------------------------------------------------------
CONSTANTS Depth,      \* slots of tx_fifo and of rx_fifo (8)
          ToGray,     \* bin2gray on the pointers of Depth slots
          FromGray    \* gray2bin on their words

Ptr == 0..(Depth - 1)
Word == {ToGray[p] : p \in Ptr}
LastEntry == Depth - 1      \* TX_FIFO_LAST_ENTRY, RX_FIFO_LAST_ENTRY

\* ptr + 1, in the low bits.
Next1(p) == IF p = Depth - 1 THEN 0 ELSE p + 1

\* Fault: the wrap of the pointers forgotten.
DistNoWrap(a, b) == a - b

\* How far pointer a is ahead of pointer b, as every count register of the link
\* computes it from two pointers.
Dist(a, b) == IF a >= b THEN a - b ELSE Depth - (b - a)

\* A ring holds at least a flit.  A pointer survives the two conversions, and the
\* words of neighbouring pointers mix into nothing but themselves.
ASSUME DepthAssumption == Depth \in Nat /\ Depth >= 3
ASSUME GrayAssumption ==
    \A p \in Ptr : /\ FromGray[ToGray[p]] = p
                   /\ Mix(ToGray[p], ToGray[p]) = {ToGray[p]}
                   /\ Mix(ToGray[p], ToGray[Next1(p)]) = {ToGray[p], ToGray[Next1(p)]}

\* A 64-bit flit is its two words; the one read from address a of a memory whose
\* every word is known by its address.
Flit == [lo : Nat, hi : Nat]
FlitAt(a) == [lo |-> a, hi |-> a + 4]
ZeroFlit == [lo |-> 0, hi |-> 0]

\* Seen from pointer b, p comes no later than q.
NotAfter(b, p, q) == Dist(p, b) <= Dist(q, b)

\* From the read pointer r to the write pointer w the FIFO holds, in order, the flits of
\* all that follow the first `taken' ones; a strobed flit has still to enter it.
Holds(r, taken, w, fifo, all, strobe) ==
    /\ Len(all) = taken + Dist(w, r) + (IF strobe THEN 1 ELSE 0)
    /\ \A p \in Ptr : Dist(p, r) < Dist(w, r) => fifo[p] = all[taken + Dist(p, r) + 1]

\* A three-flop synchroniser ([2:0]) after reset, and after one more sample.
Low3 == [i \in 0..2 |-> FALSE]
Shift(sync, in) == [i \in 0..2 |-> IF i = 0 THEN in ELSE sync[i - 1]]
=============================================================================
