-------------------------------- MODULE Gemm --------------------------------
(***************************************************************************)
(* The matrix multiplier (rtl/gemm/verilog/gemm_dma_packed_pipe_dp.v), the *)
(* memory behind its Wishbone master and the program that uses it          *)
(* (gemm_test in sw/sdram_test/main.c: write MODE, write 1 to CTRL_STAT,   *)
(* poll the busy bit, check the result).                                   *)
(*                                                                         *)
(* One step is one edge of wb_clk: the register slave, the DMA handshake,  *)
(* the main FSM and the three scratchpads change together, each from the   *)
(* values before the edge.  The memory acknowledges when it likes, and the *)
(* program leaves at least Gap edges between two register accesses.        *)
(*                                                                         *)
(* Widths are parameters (Wide = 16, Narrow = 8 and an accumulator of 32   *)
(* bits in the code) so that a small instance meets their limits.  A word  *)
(* of memory is the tuple of its PACK elements, an address a matrix and a  *)
(* byte offset in it; base registers are written once, before all this.    *)
(***************************************************************************)
EXTENDS Integers

CONSTANTS N,               \* order of the matrices
          Wide, Narrow,    \* bits of an element with mode_dw16 and without
          Modes,           \* values the program writes to MODE
          Alpha, QScale, QZero, \* REG_ALPHA (signed), REG_QSCALE, REG_QZERO
          MatA, MatB,      \* what the program puts into the operands
          Junk,            \* what a scratchpad holds at power-up
          Gap,             \* edges between two accesses of the program
          Rounds           \* times the program uses the engine

N_SQ == N * N
Top == N - 1
Index == 0..Top
Addr == 0..(N_SQ - 1)
Operands == {"A", "B"}
Mode == [dw16 : BOOLEAN, act : BOOLEAN, leaky : BOOLEAN, quant : BOOLEAN, signed : BOOLEAN]

\* With N = 2 the last product of an element would meet the restart of the accumulator;
\* an operand must be a whole number of words.
ASSUME SizeAssumption ==
    N \in Nat /\ N >= 3 /\ N_SQ % 4 = 0 /\ Wide = 2 * Narrow /\ Narrow \in Nat \ {0}
\* What is used of the powers of two: each is twice the one before, and a narrower number is a
\* wider one.
ASSUME PowerAssumption ==
    /\ \A b \in {Narrow, Wide, 2 * Wide} : 2^(b - 1) \in Nat \ {0} /\ 2^b = 2 * 2^(b - 1)
    /\ 2^(Narrow - 1) <= 2^(2 * Wide - 1) /\ 2^(Wide - 1) <= 2^(2 * Wide - 1)
\* The busy bit shows a start three edges after the write at the earliest.
ASSUME GapAssumption == Gap \in Nat /\ Gap >= 3
ASSUME InputAssumption ==
    /\ Modes \subseteq Mode /\ Rounds \in Nat /\ Junk \in Int
    /\ MatA \in [Index \X Index -> Int] /\ MatB \in [Index \X Index -> Int]
    /\ Alpha \in Int /\ QScale \in Nat /\ QZero \in Int

VARIABLES
    sw, quiet, round,                  \* the program
    mode, start, busy, done,           \* REG_MODE; bits 0, 15 and 16 of REG_CTRL_STAT
    wbm, dma_rdata,                    \* Wishbone master: stb (and cyc), we, adr, dat
    state, dma,                        \* FSM and its request: req, we, addr, wdata
    clear_idx, load_idx_word, w_idx_word, i_sx, j_sx, k_sx,
    load, comp_addr, acc, acc_addr_b,  \* ports of the scratchpads: we, addr, data
    w,                                 \* the group in writeback (w0_x, w1_y, w2_z)
    spad, acc_spad,                    \* scratchpads
    c_mem                              \* words written through the bus at C

swVars == <<sw, quiet, round>>
csrVars == <<mode, start, busy, done>>
busVars == <<wbm, dma_rdata, c_mem>>
idxVars == <<i_sx, j_sx, k_sx>>
computeVars == <<idxVars, comp_addr>>
writeVars == <<w_idx_word, acc_addr_b, w>>
ramVars == <<spad, acc_spad>>
vars == <<swVars, csrVars, busVars, state, dma, clear_idx, load_idx_word, load, acc,
          computeVars, writeVars, ramVars>>

-----------------------------------------------------------------------------
(* Data: what the mode makes of a word and of a number.                     *)

PACK == IF mode.dw16 THEN 2 ELSE 4
Bits == IF mode.dw16 THEN Wide ELSE Narrow
ElemBytes == IF mode.dw16 THEN 2 ELSE 1

\* The low b bits of x, as a signed number.
Signed(x, b) == ((x + 2^(b - 1)) % 2^b) - 2^(b - 1)
Acc(x) == Signed(x, 2 * Wide)

apply_activation(x) ==
    CASE ~mode.act \/ x >= 0 -> x
      [] mode.act /\ ~mode.leaky /\ x < 0 -> 0
      [] mode.act /\ mode.leaky /\ x < 0 -> Acc(x * Alpha) \div 128

apply_quant(x) ==
    IF mode.quant THEN Acc(Acc((x * QScale + 32768) \div 65536) + QZero) ELSE x

\* Fault: the lower end is forgotten.
saturate_out_Above(x) == IF x > 2^(Bits - 1) - 1 THEN 2^(Bits - 1) - 1 ELSE x

saturate_out(x) ==
    CASE x > 2^(Bits - 1) - 1 -> 2^(Bits - 1) - 1
      [] x < -(2^(Bits - 1)) -> -(2^(Bits - 1))
      [] OTHER -> x

\* The operands as the program packs them, row by row, and a word of one of them.
Operand(m) ==
    LET M == IF m = "A" THEN MatA ELSE MatB
    IN  [a \in Addr |-> Signed(M[<<a \div N, a % N>>], Bits)]

WordAt(adr) ==
    [e \in 0..(PACK - 1) |-> Operand(adr.mat)[((adr.off \div ElemBytes) + e) % N_SQ]]

-----------------------------------------------------------------------------
(* The program and the register slave.                                      *)

WriteMode ==
    /\ sw \in {"mode", "check"} /\ round < Rounds
    /\ mode' \in Modes
    /\ sw' = "start" /\ round' = round + 1

WriteStart ==
    /\ sw = "start"
    /\ sw' = "poll"
    /\ UNCHANGED <<round, mode>>

\* `while (REG32(GEMM_BASE + GEMM_CTRL_STAT) & 0x8000) {}'
ReadStatus ==
    /\ sw = "poll"
    /\ sw' = IF busy THEN "poll" ELSE "check"
    /\ UNCHANGED <<round, mode>>

\* Fault: a start does not take the done bit with it.
StatusBits_KeepDone(writes) ==
    /\ start' = IF writes THEN ~(start /\ state = "IDLE") ELSE start /\ state # "IDLE"
    /\ busy' = (~writes /\ state # "IDLE")
    /\ done' = (state # "CLEAR" /\ (state = "DONE" \/ done))

\* A write of 1 replaces the register, but a start bit the FSM is taking at this
\* very edge is cleared by the later assignment.
StatusBits(writes) ==
    /\ start' = IF writes THEN ~(start /\ state = "IDLE") ELSE start /\ state # "IDLE"
    /\ busy' = (~writes /\ state # "IDLE")
    /\ done' = (~writes /\ state # "CLEAR" /\ (state = "DONE" \/ done))

Access ==
    /\ quiet = Gap /\ quiet' = 1
    /\ \/ (WriteMode \/ ReadStatus) /\ StatusBits(FALSE)
       \/ WriteStart /\ StatusBits(TRUE)

NoAccess ==
    /\ quiet' = IF quiet < Gap THEN quiet + 1 ELSE Gap
    /\ StatusBits(FALSE)
    /\ UNCHANGED <<sw, round, mode>>

-----------------------------------------------------------------------------
(* DMA handshake, with the memory.                                          *)

Handshake(ack) ==
    \/ /\ dma.req /\ ~wbm.stb
       /\ wbm' = [stb |-> TRUE, we |-> dma.we, adr |-> dma.addr, dat |-> dma.wdata]
       /\ UNCHANGED <<dma_rdata, c_mem>>
    \/ /\ wbm.stb /\ ack
       /\ wbm' = [wbm EXCEPT !.stb = FALSE]
       /\ \/ /\ wbm.we
             /\ c_mem' = [c_mem EXCEPT ![wbm.adr.off \div 4] = wbm.dat]
             /\ UNCHANGED dma_rdata
          \/ /\ ~wbm.we
             /\ dma_rdata' = WordAt(wbm.adr)
             /\ UNCHANGED c_mem
    \/ /\ ~(dma.req /\ ~wbm.stb) /\ ~(wbm.stb /\ ack)
       /\ UNCHANGED busVars

-----------------------------------------------------------------------------
(* Main FSM.  Write enables of the scratchpads last one edge.               *)

NoLoad == load' = [m \in Operands |-> [load[m] EXCEPT !.we = FALSE]]
NoAcc == acc' = [acc EXCEPT !.we = FALSE]

Request(we, addr, wdata) ==
    dma' = [req |-> TRUE, we |-> we, addr |-> addr, wdata |-> wdata]
DropRequest == dma' = [dma EXCEPT !.req = FALSE]

FsmIdle ==
    /\ state = "IDLE"
    /\ \/ /\ start
          /\ state' = "CLEAR"
          /\ load_idx_word' = 0 /\ w_idx_word' = 0
          /\ i_sx' = 0 /\ j_sx' = 0 /\ k_sx' = 0
          /\ comp_addr' = [m \in Operands |-> 0]
       \/ ~start /\ UNCHANGED <<state, load_idx_word, w_idx_word, computeVars>>
    /\ NoLoad /\ NoAcc
    /\ UNCHANGED <<dma, clear_idx, acc_addr_b, w>>

\* Fault: one address too many.
ClearsMore_Inclusive == clear_idx <= N_SQ

ClearsMore == clear_idx < N_SQ

\* clear_idx is never taken back to 0: only the first run clears the accumulators.
FsmClear ==
    /\ state = "CLEAR"
    /\ \/ /\ ClearsMore
          /\ acc' = [we |-> TRUE, addr |-> clear_idx % N_SQ, data |-> 0]
          /\ clear_idx' = clear_idx + 1
          /\ UNCHANGED state
       \/ /\ ~ClearsMore
          /\ state' = "LOAD_A"
          /\ NoAcc /\ UNCHANGED clear_idx
    /\ NoLoad
    /\ UNCHANGED <<dma, load_idx_word, computeVars, writeVars>>

\* The states that load operand m, and the one after them.  The first element of a
\* word is stored as it arrives, the others one per state from dma_rdata.
LoadStates ==
    [A |-> [word |-> "LOAD_A", half |-> "LOAD_A0",
            byte |-> <<"LOAD_A1", "LOAD_A2", "LOAD_A3">>, next |-> "LOAD_B"],
     B |-> [word |-> "LOAD_B", half |-> "LOAD_B0",
            byte |-> <<"LOAD_B1", "LOAD_B2", "LOAD_B3">>, next |-> "COMPUTE"]]

StoreElement(m, x) ==
    load' = [n \in Operands |->
               IF n = m THEN [we |-> TRUE, addr |-> load_idx_word % N_SQ, data |-> x]
                        ELSE [load[n] EXCEPT !.we = FALSE]]

\* Fault: elements taken for bytes.
LoadOffset_Elements == load_idx_word

LoadOffset == load_idx_word * ElemBytes

LoadWord(m, ack) ==
    /\ state = LoadStates[m].word
    /\ \/ /\ ~dma.req /\ ~wbm.stb
          /\ Request(FALSE, [mat |-> m, off |-> LoadOffset], dma.wdata)
          /\ NoLoad /\ UNCHANGED <<state, load_idx_word>>
       \/ /\ dma.req /\ wbm.stb /\ ack
          /\ DropRequest
          /\ StoreElement(m, WordAt(wbm.adr)[0])
          /\ load_idx_word' = load_idx_word + 1
          /\ state' = IF mode.dw16 THEN LoadStates[m].half ELSE LoadStates[m].byte[1]
       \/ /\ dma.req # wbm.stb \/ (wbm.stb /\ ~ack)
          /\ NoLoad /\ UNCHANGED <<dma, state, load_idx_word>>
    /\ NoAcc
    /\ UNCHANGED <<clear_idx, computeVars, writeVars>>

\* The last element of a word: on to the next word, operand or phase.
LastOfWord(m) ==
    \/ /\ load_idx_word = N_SQ - 1
       /\ load_idx_word' = 0 /\ state' = LoadStates[m].next
    \/ /\ load_idx_word # N_SQ - 1
       /\ load_idx_word' = load_idx_word + 1 /\ state' = LoadStates[m].word

LoadRest(m) ==
    /\ \/ state = LoadStates[m].half /\ StoreElement(m, dma_rdata[1]) /\ LastOfWord(m)
       \/ \E e \in 1..2 :
             /\ state = LoadStates[m].byte[e] /\ StoreElement(m, dma_rdata[e])
             /\ load_idx_word' = load_idx_word + 1
             /\ state' = LoadStates[m].byte[e + 1]
       \/ state = LoadStates[m].byte[3] /\ StoreElement(m, dma_rdata[3]) /\ LastOfWord(m)
    /\ NoAcc
    /\ UNCHANGED <<dma, clear_idx, computeVars, writeVars>>

\* Addresses of the operands' next elements, and the product of the present ones.
FetchOperands ==
    comp_addr' = [A |-> (i_sx * N + k_sx) % N_SQ, B |-> (k_sx * N + j_sx) % N_SQ]
AccAddr == (i_sx * N + j_sx) % N_SQ
Product == spad["A"][comp_addr["A"]] * spad["B"][comp_addr["B"]]

FsmCompute ==
    /\ state = "COMPUTE"
    /\ FetchOperands
    /\ acc' = [we |-> FALSE, addr |-> AccAddr, data |-> 0]
    /\ k_sx' = k_sx + 1
    /\ state' = "COMPUTE_S2"
    /\ NoLoad
    /\ UNCHANGED <<dma, clear_idx, load_idx_word, i_sx, j_sx, writeVars>>

\* k runs fastest, then j, then i; k = 0 is also the edge the previous sum is stored at.
NextIndices ==
    \/ k_sx < Top /\ k_sx' = k_sx + 1 /\ UNCHANGED <<i_sx, j_sx>>
    \/ k_sx >= Top /\ k_sx' = 0 /\ j_sx < Top /\ j_sx' = j_sx + 1 /\ UNCHANGED i_sx
    \/ k_sx >= Top /\ k_sx' = 0 /\ j_sx >= Top /\ j_sx' = 0
       /\ i_sx' = IF i_sx < Top THEN i_sx + 1 ELSE i_sx

LastProduct == i_sx = Top /\ j_sx = Top /\ k_sx = Top

\* Fault: the accumulator runs on from element to element.
Restarts_Never == FALSE

\* After a store the accumulator starts again, with the first product.
Restarts == acc.we /\ ~LastProduct

FsmComputeS2 ==
    /\ state = "COMPUTE_S2"
    /\ NextIndices /\ FetchOperands
    /\ acc' = [we |-> k_sx = 0,
               addr |-> IF Restarts THEN AccAddr ELSE acc.addr,
               data |-> Acc(Product + IF Restarts THEN 0 ELSE acc.data)]
    /\ state' = IF LastProduct THEN "COMPUTE_S3" ELSE "COMPUTE_S2"
    /\ NoLoad
    /\ UNCHANGED <<dma, clear_idx, load_idx_word, writeVars>>

FsmComputeS3 ==
    /\ state = "COMPUTE_S3"
    /\ FetchOperands
    /\ acc' = [acc EXCEPT !.we = TRUE, !.data = Acc(acc.data + Product)]
    /\ i_sx' = IF i_sx < Top THEN i_sx + 1 ELSE i_sx
    /\ acc_addr_b' = w_idx_word % N_SQ
    /\ state' = "W0_READ"
    /\ NoLoad
    /\ UNCHANGED <<dma, clear_idx, load_idx_word, j_sx, k_sx, w_idx_word, w>>

\* Read the group's elements one after the other: state, lane, whether the port steps
\* on, next state.
ReadSteps ==
    {[at |-> "W0_READ", lane |-> 0, step |-> TRUE,
      to |-> IF mode.dw16 THEN "W0_READ0" ELSE "W0_READ1"],
     [at |-> "W0_READ0", lane |-> 1, step |-> FALSE, to |-> "W1_ACT"],
     [at |-> "W0_READ1", lane |-> 1, step |-> TRUE, to |-> "W0_READ2"],
     [at |-> "W0_READ2", lane |-> 2, step |-> TRUE, to |-> "W0_READ3"],
     [at |-> "W0_READ3", lane |-> 3, step |-> TRUE, to |-> "W1_ACT"]}

NextAccAddr == (acc_addr_b + 1) % N_SQ

FsmRead ==
    /\ \E r \in ReadSteps :
          /\ state = r.at /\ state' = r.to
          /\ w' = [w EXCEPT ![r.lane] = acc_spad[acc_addr_b]]
          /\ acc_addr_b' = IF r.step THEN NextAccAddr ELSE acc_addr_b
    /\ NoLoad /\ NoAcc
    /\ UNCHANGED <<dma, clear_idx, load_idx_word, computeVars, w_idx_word>>

\* Activation, quantization and saturation of the whole group, one edge each.
FsmTransform ==
    /\ \/ /\ state = "W1_ACT" /\ state' = "W2_QUANT"
          /\ w' = [l \in 0..3 |-> apply_activation(w[l])]
       \/ /\ state = "W2_QUANT" /\ state' = "W3_SAT"
          /\ w' = [l \in 0..3 |-> apply_quant(w[l])]
       \/ /\ state = "W3_SAT" /\ state' = "W4_WRITE"
          /\ w' = [l \in 0..3 |-> saturate_out(w[l])]
    /\ NoLoad /\ NoAcc
    /\ UNCHANGED <<dma, clear_idx, load_idx_word, computeVars, w_idx_word, acc_addr_b>>

\* WORDS_TOTAL is N_SQ whatever the packing, and is compared before the increment.
LastWord == w_idx_word = N_SQ

FsmWrite(ack) ==
    /\ state = "W4_WRITE"
    /\ \/ /\ ~dma.req /\ ~wbm.stb
          /\ Request(TRUE, [mat |-> "C", off |-> w_idx_word * 4],
                     [e \in 0..(PACK - 1) |-> Signed(w[e], Bits)])
          /\ UNCHANGED <<state, w_idx_word, acc_addr_b>>
       \/ /\ dma.req /\ wbm.stb /\ ack
          /\ DropRequest
          /\ w_idx_word' = w_idx_word + 1
          /\ acc_addr_b' = NextAccAddr
          /\ state' = IF LastWord THEN "DONE" ELSE "W0_READ"
       \/ /\ dma.req # wbm.stb \/ (wbm.stb /\ ~ack)
          /\ UNCHANGED <<dma, state, w_idx_word, acc_addr_b>>
    /\ NoLoad /\ NoAcc
    /\ UNCHANGED <<clear_idx, load_idx_word, computeVars, w>>

\* Fault: DONE is left only for another start.
FsmDone_Waits ==
    /\ state = "DONE" /\ state' = IF start THEN "IDLE" ELSE "DONE"
    /\ NoLoad /\ NoAcc
    /\ UNCHANGED <<dma, clear_idx, load_idx_word, computeVars, writeVars>>

FsmDone ==
    /\ state = "DONE" /\ state' = "IDLE"
    /\ NoLoad /\ NoAcc
    /\ UNCHANGED <<dma, clear_idx, load_idx_word, computeVars, writeVars>>

Fsm(ack) ==
    \/ FsmIdle \/ FsmClear \/ FsmCompute \/ FsmComputeS2 \/ FsmComputeS3
    \/ FsmRead \/ FsmTransform \/ FsmWrite(ack) \/ FsmDone
    \/ \E m \in Operands : LoadWord(m, ack) \/ LoadRest(m)

\* dp_ram: a write lands at the edge after its enable is set; reads are combinational.
Stored(ram, port) == IF port.we THEN [ram EXCEPT ![port.addr] = port.data] ELSE ram

DpRam ==
    /\ spad' = [m \in Operands |-> Stored(spad[m], load[m])]
    /\ acc_spad' = Stored(acc_spad, acc)

-----------------------------------------------------------------------------
Port == [we |-> FALSE, addr |-> 0, data |-> 0]
Ram == [a \in Addr |-> Junk]
NoWord == [e \in 0..1 |-> 0]

Init ==
    /\ sw = "mode" /\ quiet = Gap /\ round = 0
    /\ mode = [dw16 |-> FALSE, act |-> FALSE, leaky |-> FALSE, quant |-> FALSE,
               signed |-> FALSE]
    /\ start = FALSE /\ busy = FALSE /\ done = FALSE
    /\ wbm = [stb |-> FALSE, we |-> FALSE, adr |-> [mat |-> "A", off |-> 0], dat |-> NoWord]
    /\ dma_rdata = NoWord
    /\ state = "IDLE"
    /\ dma = [req |-> FALSE, we |-> FALSE, addr |-> [mat |-> "A", off |-> 0],
              wdata |-> NoWord]
    /\ clear_idx = 0 /\ load_idx_word = 0 /\ w_idx_word = 0
    /\ i_sx = 0 /\ j_sx = 0 /\ k_sx = 0
    /\ load = [m \in Operands |-> Port] /\ comp_addr = [m \in Operands |-> 0]
    /\ acc = [Port EXCEPT !.addr = N_SQ - 1] /\ acc_addr_b = 0
    /\ w = [l \in 0..3 |-> 0]
    /\ spad = [m \in Operands |-> Ram] /\ acc_spad = Ram
    /\ c_mem = [n \in 0..N_SQ |-> NoWord]

Edge(ack) == Handshake(ack) /\ Fsm(ack) /\ DpRam

Next == \E ack \in {FALSE, wbm.stb} : (Access \/ NoAccess) /\ Edge(ack)

Spec == Init /\ [][Next]_vars

\* The clock runs, the memory answers a strobe in the end and the program keeps polling.
Answer == wbm.stb /\ (Access \/ NoAccess) /\ Edge(TRUE)
Polls == Access /\ \E ack \in {FALSE, wbm.stb} : Edge(ack)
FairSpec == Spec /\ WF_vars(Next) /\ WF_vars(Answer) /\ WF_vars(sw = "poll" /\ Polls)

-----------------------------------------------------------------------------
(* What the engine computes.                                                *)

\* The sums of the first t products of an element of the result, exactly.
Sums(r, c) ==
    LET Upto[t \in 0..N] ==
            IF t = 0 THEN 0
            ELSE Upto[t - 1] + Operand("A")[r * N + (t - 1)] * Operand("B")[(t - 1) * N + c]
    IN  Upto
Total(a) == Acc(Sums(a \div N, a % N)[N])
ResultWords == N_SQ \div PACK
ResultWord(n) ==
    [e \in 0..(PACK - 1) |->
        Signed(saturate_out(apply_quant(apply_activation(Total(n * PACK + e)))), Bits)]

(* The result, as golden_gemm_dp.py has it: unbounded integers throughout.  *)

BitsOf(m) == IF m.dw16 THEN Wide ELSE Narrow
GoldenIn(m, x) == IF m.signed THEN Signed(x, BitsOf(m)) ELSE x % 2^BitsOf(m)
GoldenSums(m, r, c) ==
    LET Upto[t \in 0..N] ==
            IF t = 0 THEN 0
            ELSE Upto[t - 1] + GoldenIn(m, MatA[<<r, t - 1>>]) * GoldenIn(m, MatB[<<t - 1, c>>])
    IN  Upto
GoldenSum(m, r, c) == GoldenSums(m, r, c)[N]
GoldenAct(m, x) ==
    CASE ~m.act \/ x >= 0 -> x
      [] m.act /\ m.leaky /\ x < 0 -> (x * Alpha) \div 128
      [] m.act /\ ~m.leaky /\ x < 0 -> 0
GoldenQuant(m, x) == IF m.quant THEN ((x * QScale + 32768) \div 65536) + QZero ELSE x
GoldenSat(m, x) ==
    CASE x > 2^(BitsOf(m) - 1) - 1 -> 2^(BitsOf(m) - 1) - 1
      [] x < -(2^(BitsOf(m) - 1)) -> -(2^(BitsOf(m) - 1))
      [] OTHER -> x
Golden(m, r, c) == GoldenSat(m, GoldenQuant(m, GoldenAct(m, GoldenSum(m, r, c))))

ResultInMemory ==
    \A n \in 0..(ResultWords - 1) :
       c_mem[n] = [e \in 0..(PACK - 1) |->
                     Golden(mode, (n * PACK + e) \div N, (n * PACK + e) % N)]

-----------------------------------------------------------------------------
Words == [0..1 -> Int] \cup [0..3 -> Int]
Addresses == [mat : Operands \cup {"C"}, off : Nat]
AccValue == -(2^(2 * Wide - 1))..(2^(2 * Wide - 1) - 1)
InLoad(m) == {LoadStates[m].word, LoadStates[m].half} \cup {LoadStates[m].byte[e] : e \in 1..3}
InRead == {"W0_READ", "W0_READ0", "W0_READ1", "W0_READ2", "W0_READ3"}
InWriteback == InRead \cup {"W1_ACT", "W2_QUANT", "W3_SAT", "W4_WRITE"}
FsmStates ==
    {"IDLE", "CLEAR", "COMPUTE", "COMPUTE_S2", "COMPUTE_S3", "DONE"}
        \cup InLoad("A") \cup InLoad("B") \cup InWriteback

\* Every register keeps within its width and every index within its memory.
TypeOK ==
    /\ sw \in {"mode", "start", "poll", "check"} /\ quiet \in 1..Gap /\ round \in 0..Rounds
    /\ mode \in Mode /\ start \in BOOLEAN /\ busy \in BOOLEAN /\ done \in BOOLEAN
    /\ wbm \in [stb : BOOLEAN, we : BOOLEAN, adr : Addresses, dat : Words] /\ dma_rdata \in Words
    /\ dma \in [req : BOOLEAN, we : BOOLEAN, addr : Addresses, wdata : Words]
    /\ state \in FsmStates
    /\ clear_idx \in 0..N_SQ /\ load_idx_word \in Addr /\ w_idx_word \in 0..(N_SQ + 1)
    /\ i_sx \in Index /\ j_sx \in Index /\ k_sx \in Index
    /\ load \in [Operands -> [we : BOOLEAN, addr : Addr, data : Int]] /\ comp_addr \in [Operands -> Addr]
    /\ acc \in [we : BOOLEAN, addr : Addr, data : AccValue] /\ acc_addr_b \in Addr
    /\ w \in [0..3 -> AccValue]
    /\ spad \in [Operands -> [Addr -> Int]] /\ acc_spad \in [Addr -> Int]
    /\ c_mem \in [0..N_SQ -> Words]

\* The program leaves the engine alone from its start until the run has ended: the busy bit comes
\* up before the next access can be made, and goes down after done has come up.
Undisturbed ==
    \/ sw # "poll" /\ state = "IDLE" /\ ~start /\ (sw = "check" => done)
    \/ sw = "poll" /\ state = "IDLE" /\ start /\ ~busy /\ ~done /\ quiet = 1
    \/ sw = "poll" /\ state = "CLEAR" /\ ~start /\ ~busy /\ ~done /\ quiet = 2
    \/ sw = "poll" /\ state # "IDLE" /\ ~start /\ busy /\ ~done
    \/ sw = "poll" /\ state = "IDLE" /\ ~start /\ done

\* What is on the bus is the FSM's request, and that is the one of its state.
Requested ==
    /\ wbm.stb => dma.req /\ wbm.we = dma.we /\ wbm.adr = dma.addr /\ wbm.dat = dma.wdata
    /\ dma.req =>
          \/ \E m \in Operands : /\ state = LoadStates[m].word /\ ~dma.we
                                /\ dma.addr = [mat |-> m, off |-> LoadOffset]
          \/ /\ state = "W4_WRITE" /\ dma.we /\ dma.addr = [mat |-> "C", off |-> w_idx_word * 4]
             /\ dma.wdata = [e \in 0..(PACK - 1) |-> Signed(w[e], Bits)]

\* The first n elements of an operand are in its scratchpad or, the last, on its port.
Loaded(m, n) == \A a \in Addr : a < n => Stored(spad[m], load[m])[a] = Operand(m)[a]

\* The place in a word goes with the state, the rest of the word is in dma_rdata, and what comes
\* before has been loaded.
Loading ==
    /\ state = "CLEAR" => load_idx_word = 0
    /\ \A m \in Operands :
          /\ state = LoadStates[m].word => load_idx_word % PACK = 0
          /\ state = LoadStates[m].half =>
                mode.dw16 /\ load_idx_word % 2 = 1 /\ dma_rdata[1] = Operand(m)[load_idx_word]
          /\ \A e \in 1..3 : state = LoadStates[m].byte[e] =>
                /\ ~mode.dw16 /\ load_idx_word % 4 = e
                /\ \A f \in e..3 : dma_rdata[f] = Operand(m)[load_idx_word + (f - e)]
          /\ state \in InLoad(m) => Loaded(m, load_idx_word)
    /\ state \in InLoad("B") \cup {"COMPUTE", "COMPUTE_S2", "COMPUTE_S3"} => Loaded("A", N_SQ)
    /\ state \in {"COMPUTE", "COMPUTE_S2", "COMPUTE_S3"} => Loaded("B", N_SQ)

\* By the time the first product is taken every element of both operands is in its
\* scratchpad, the last one of B included: it is stored one edge after its state.
OperandsLoaded ==
    state \in {"COMPUTE_S2", "COMPUTE_S3"} => spad = [m \in Operands |-> Operand(m)]

\* The sums of the first n elements of the result are stored or, the last, on the port.
Summed(n) ==
    \A r, c \in Index : r * N + c < n => Stored(acc_spad, acc)[r * N + c] = Acc(Sums(r, c)[N])

\* Product t of element <<p, q>> is under way, and the indices are those of the next one: the
\* accumulator has the sum before it, the port the element before it, once.
UnderWay(p, q, t) ==
    /\ comp_addr = [A |-> p * N + t, B |-> t * N + q]
    /\ \/ t # 0 /\ ~acc.we /\ acc.addr = p * N + q /\ acc.data = Acc(Sums(p, q)[t])
       \/ t = 0 /\ p * N + q = 0 /\ ~acc.we /\ acc.addr = 0 /\ acc.data = 0
       \/ t = 0 /\ p * N + q # 0 /\ acc.we /\ acc.addr = (p * N + q) - 1
    /\ Summed(p * N + q)
Follows(p, q, t) ==
    \/ t < Top /\ i_sx = p /\ j_sx = q /\ k_sx = t + 1
    \/ t = Top /\ q < Top /\ i_sx = p /\ j_sx = q + 1 /\ k_sx = 0
    \/ t = Top /\ q = Top /\ p < Top /\ i_sx = p + 1 /\ j_sx = 0 /\ k_sx = 0
Summing ==
    /\ state \in {"CLEAR", "COMPUTE"} \cup InLoad("A") \cup InLoad("B") =>
          i_sx = 0 /\ j_sx = 0 /\ k_sx = 0 /\ w_idx_word = 0
    /\ state \in {"COMPUTE_S2", "COMPUTE_S3"} => w_idx_word = 0
    /\ state = "COMPUTE_S2" => \E p, q, t \in Index : UnderWay(p, q, t) /\ Follows(p, q, t)
    /\ state = "COMPUTE_S3" => UnderWay(Top, Top, Top)

\* Throughout the writeback the accumulators hold the product of the operands (modulo
\* 2^32), each sum stored by the time its element is read: no sum lost or left behind
\* from the run before, although only the first run clears them.
ProductStored ==
    /\ state \in InWriteback => Summed(N_SQ)
    /\ state \in InWriteback /\ acc.we => state = "W0_READ" /\ acc_addr_b = 0 /\ acc.addr = N_SQ - 1

\* A group of two in writeback: where the port is and what the lanes have become (16-bit elements).
Group ==
    LET first == w_idx_word * 2
    IN  /\ state = "W0_READ" => acc_addr_b = first
        /\ state \in InWriteback \ {"W0_READ"} => acc_addr_b = first + 1
        /\ state = "W0_READ0" => w[0] = Total(first)
        /\ state = "W1_ACT" => \A l \in 0..1 : w[l] = Total(first + l)
        /\ state = "W2_QUANT" => \A l \in 0..1 : w[l] = apply_activation(Total(first + l))
        /\ state = "W3_SAT" =>
              \A l \in 0..1 : w[l] = apply_quant(apply_activation(Total(first + l)))
        /\ state = "W4_WRITE" =>
              \A l \in 0..1 : w[l] = saturate_out(apply_quant(apply_activation(Total(first + l))))

\* A run that has been started and has ended.
Ended == sw \in {"poll", "check"} /\ state = "IDLE" /\ ~start

\* The words before the group in writeback are in memory; when the run has ended, all are.
Written ==
    /\ state \in InWriteback => w_idx_word <= N_SQ
    /\ state = "W0_READ0" => mode.dw16
    /\ state \in {"W0_READ1", "W0_READ2", "W0_READ3"} => ~mode.dw16
    /\ mode.dw16 =>
          /\ w_idx_word < ResultWords => Group
          /\ state \in InWriteback =>
                \A n \in 0..(ResultWords - 1) : n < w_idx_word => c_mem[n] = ResultWord(n)
          /\ state = "DONE" \/ Ended => \A n \in 0..(ResultWords - 1) : c_mem[n] = ResultWord(n)

\* The operands are complete when they are used and every sum is stored when it is read, with what
\* these facts rest on from one edge to the next.
EngineInv ==
    /\ TypeOK /\ Undisturbed /\ Requested /\ Loading /\ OperandsLoaded
    /\ Summing /\ ProductStored /\ Written

\* A program that has seen the busy bit low finds the result of this run in memory
\* (`wait for done', main.c; gemm_check_results then compares every element): with
\* elements of 16 bits, and with elements of 8.
ResultOnPoll == sw = "check" /\ mode.dw16 => ResultInMemory
ByteResultOnPoll == sw = "check" /\ ~mode.dw16 => ResultInMemory

\* The done bit never stands for an earlier run: while the program waits it means that
\* the result is in memory (16-bit elements).
DoneMeansResult == sw = "poll" /\ done /\ mode.dw16 => ResultInMemory

\* The result is in memory when the poll ends, and the done bit never stands for the run before.
ResultTruthful == ResultOnPoll /\ DoneMeansResult

\* What the golden model does not share with the engine is left out of use: elements are signed, and
\* no number on the way leaves the accumulator's width.
Representable ==
    \A m \in Modes : m.dw16 =>
       /\ m.signed
       /\ \A r, c \in Index :
             LET sum == GoldenSum(m, r, c)
                 act == GoldenAct(m, sum)
             IN  /\ sum \in AccValue
                 /\ m.act /\ m.leaky /\ sum < 0 => sum * Alpha \in AccValue
                 /\ m.quant => /\ (act * QScale + 32768) \div 65536 \in AccValue
                               /\ GoldenQuant(m, act) \in AccValue

\* The engine writes nothing but the N x N packed elements of the result: the program
\* gives it a matrix of that size (`int MatC[16][8]', main.c).
WritesWithinResult ==
    wbm.stb /\ wbm.we => wbm.adr.off < 4 * ResultWords

\* A program that polls gets away: every run ends.
PollEnds == sw = "poll" ~> sw = "check"
=============================================================================
