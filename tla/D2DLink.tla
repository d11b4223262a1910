------------------------------ MODULE D2DLink ------------------------------
(***************************************************************************)
(* One direction of a die-to-die link of the package                       *)
(* (rtl/multi_chip_package.v): the transmit half of chip A wired to the    *)
(* receive half of chip B, each behind the arbiter of its wrapper          *)
(* (rtl/d2d/verilog/d2d_link_wrapper.v), all chips on one wb clock and one *)
(* d2d clock.  The peer of each half, arbitrary in D2DTx and D2DRx, is now *)
(* the other half: A's tx_ready is B's rx_ready, B's rx_valid and rx_data  *)
(* are A's tx_valid and tx_data.                                           *)
(*                                                                         *)
(* Software on each chip does what d2d_test (sw/sdram_test/main.c) does:   *)
(* write the address and the length, then set START and ENABLE, each chip  *)
(* at its own time.                                                        *)
(*                                                                         *)
(* The rates of the clocks: MinWb to MaxWb wb edges fall into one d2d      *)
(* period, and at most MaxD2d d2d edges into one wb period.                *)
(***************************************************************************)
EXTENDS D2DTx, D2DRx

CONSTANTS MinWb, MaxWb, MaxD2d

VARIABLES a_arb_state, a_last_was_rx,   \* the arbiters of the two wrappers
          b_arb_state, b_last_was_rx,
          wb_run, d2d_run    \* edges of one clock since (and with) the last of the other

ArbA == INSTANCE D2DArb WITH arb_state <- a_arb_state, last_was_rx <- a_last_was_rx
ArbB == INSTANCE D2DArb WITH arb_state <- b_arb_state, last_was_rx <- b_last_was_rx

arbVars == <<a_arb_state, a_last_was_rx, b_arb_state, b_last_was_rx>>
vars == <<txVars, rxVars, arbVars, wb_run, d2d_run>>

Init ==
    /\ TxInit /\ RxInit /\ ArbA!ArbInit /\ ArbB!ArbInit
    /\ wb_run = 0 /\ d2d_run = 0

\* d2d_test on chip A: TX_LEN, then CTRL.
SetUpA ==
    /\ UNCHANGED tx_src_addr
    /\ \/ tx_length = 0 /\ tx_length' \in TxLengths /\ UNCHANGED tx_control
       \/ tx_length # 0 /\ tx_control' \in TxControls /\ UNCHANGED tx_length

\* d2d_test on chip B: RX_LEN, then CTRL.
SetUpB ==
    /\ UNCHANGED rx_dest_addr
    /\ \/ rx_length = 0 /\ rx_length' \in RxLengths /\ UNCHANGED rx_control
       \/ rx_length # 0 /\ rx_control' \in RxControls /\ UNCHANGED rx_length

Software == (SetUpA \/ TxKeepSw) /\ (SetUpB \/ RxKeepSw)

\* A wb edge on both chips.  Nothing else uses the wrappers' buses; ackA and ackB are
\* the bus's answers, which it gives only to a request it sees.
WbEdge(txSample, rxSample) ==
    /\ Software
    /\ \E ackA \in {FALSE, ArbA!BusStb(tx_wb_stb, FALSE)} :
          /\ TxWbEdge(ArbA!tx_ack(ackA), txSample)
          /\ ArbA!ArbEdge(tx_wb_stb, FALSE, ackA)
    /\ \E ackB \in {FALSE, ArbB!BusStb(FALSE, rx_wb_stb)} :
          /\ RxWbEdge(ArbB!rx_ack(ackB), rxSample)
          /\ ArbB!ArbEdge(FALSE, rx_wb_stb, ackB)

WbTick ==
    /\ wb_run < MaxWb
    /\ wb_run' = wb_run + 1 /\ d2d_run' = 0
    /\ WbEdge(tx_rd_gray_d2d, rx_wr_gray_d2d)
    /\ TxKeepD2d /\ RxKeepD2d

D2dTick ==
    /\ d2d_run < MaxD2d /\ wb_run >= MinWb
    /\ d2d_run' = d2d_run + 1 /\ wb_run' = 0
    /\ TxD2dEdge(rx_ready, TxEnabled, tx_fifo_wr_ptr_gray)
    /\ RxD2dEdge(tx_valid, tx_data, rx_length, rx_done_sync[2],
                    RxStarted, RxEnabled, rx_fifo_rd_ptr_wb_gray)
    /\ TxKeepSw /\ TxKeepWb /\ RxKeepSw /\ RxKeepWb
    /\ UNCHANGED arbVars

\* Both clocks rise together; what crosses is caught while it changes.
BothTick ==
    /\ wb_run >= MinWb
    /\ wb_run' = 1 /\ d2d_run' = 1
    /\ \E txSample \in Mix(tx_rd_gray_d2d, ToGray[tx_fifo_rd_ptr_d2d]),
          rxSample \in Mix(rx_wr_gray_d2d, ToGray[rx_fifo_wr_ptr]) :
          WbEdge(txSample, rxSample)
    /\ \E enable \in {TxEnabled, TxEnabled'},
          sample \in Mix(tx_fifo_wr_ptr_gray, ToGray[tx_fifo_wr_ptr]) :
          TxD2dEdge(rx_ready, enable, sample)
    /\ \E len \in {rx_length, rx_length'}, done \in {rx_done_sync[2], rx_done_sync[1]},
          start \in {RxStarted, RxStarted'}, enable \in {RxEnabled, RxEnabled'},
          sample \in Mix(rx_fifo_rd_ptr_wb_gray, ToGray[rx_fifo_rd_ptr_wb]) :
          RxD2dEdge(tx_valid, tx_data, len, done, start, enable, sample)

Next == WbTick \/ D2dTick \/ BothTick

Spec == Init /\ [][Next]_vars

-----------------------------------------------------------------------------
TypeOK ==
    /\ TxTypeOK /\ RxTypeOK /\ ArbA!ArbTypeOK /\ ArbB!ArbTypeOK
    /\ wb_run \in 0..MaxWb /\ d2d_run \in 0..MaxD2d

\* A flit is presented for one cycle only, decided on the ready of the cycle before: B's ready
\* must still be up in that cycle, or the flit is gone.  It is down for the cycle after a flit
\* was taken, so that a sender with two flits must not show them one behind the other.
NoFlitLost == tx_valid => rx_ready

\* What one die's DMA engine reads the other die's DMA engine writes: every flit once,
\* in order, whole, with at most two rings of flits on the way.
Channel == INSTANCE FlitChannel WITH
              Capacity <- 2 * Depth, accepted <- sent, delivered <- Delivered
ReliableLink == Channel!Spec

\* The words of the source, at their places in the destination (the comparison at the
\* end of d2d_test: d2d0_mat_rx[count] == (val | count)).
Copied ==
    /\ Len(stored) = 2 * rx_length
    /\ \A i \in 1..Len(stored) : stored[i] = [adr |-> 4 * (i - 1), dat |-> 4 * (i - 1)]

\* Software that polls STATUS_RX_DONE and sees it may read the whole destination.
DoneMeansCopied == rx_done_sync[2] => Copied

\* The clocks never stop: with their rates tied, an edge of either some time is an edge
\* of both.  The bus answers every strobe it sees some time; nothing is assumed of a
\* wrapper that shows it none.
Fairness ==
    /\ WF_vars(Next)
    /\ []<>~ArbA!BusStb(tx_wb_stb, FALSE)
    /\ []<>~ArbB!BusStb(FALSE, rx_wb_stb)

FairSpec == Spec /\ Fairness

\* Once both chips are started, whichever was first and however late the other, the
\* receiver's done bit comes up and stays: no flit waits for ever in a FIFO, in RETRY or
\* for a ready that never comes.
Started == RxDmaStart /\ TxDmaStart
TransferCompletes == Started ~> [](rx_done_sync[2])

-----------------------------------------------------------------------------
(* The inductive invariant, as long as no flit is lost.                     *)

\* Between the chips is a flit on the wires, and nothing else.
Wired == presented = IF tx_valid THEN Append(received, tx_data) ELSE received

\* d2d_test never sets the RESET bits, so that an engine runs once.
NoReset == /\ \A c \in TxControls : "TX_RESET" \notin c
           /\ \A c \in RxControls : "RX_RESET" \notin c

\* A's engine reads the source from its start, flit after flit.
SourceRead ==
    /\ tx_src_addr = 0 /\ "TX_RESET" \notin tx_control
    /\ tx_dma_state = "IDLE" => sent = <<>>
    /\ tx_dma_state # "IDLE" => tx_dma_current_addr = 8 * Len(sent)
    /\ \A i \in 1..Len(sent) : sent[i] = FlitAt(8 * (i - 1))

\* B's engine writes the destination from its start, flit after flit, and what it has
\* written and what remains is the length; it is done when nothing remains.
DestWritten ==
    /\ rx_dest_addr = 0 /\ "RX_RESET" \notin rx_control
    /\ rx_length = 0 => rx_control = {}
    /\ rx_dma_state = "IDLE" => stored = <<>>
    /\ rx_dma_state # "IDLE" =>
           /\ rx_length > 0
           /\ rx_dma_current_addr = 8 * Len(Delivered)
           /\ rx_dma_remaining + Len(Delivered) = rx_length
    /\ rx_dma_state = "DONE" => rx_dma_remaining = 0
    /\ \A i \in 1..Len(Delivered) : stored[2 * i - 1].adr = 8 * (i - 1)

\* Done is shown, and seen across the synchroniser, only when the engine is.
DoneIsDone ==
    rx_dma_done \/ (\E i \in 0..2 : rx_done_sync[i]) => rx_dma_state = "DONE"

LinkInv == TxInv /\ RxInv /\ Wired /\ SourceRead /\ DestWritten /\ DoneIsDone

-----------------------------------------------------------------------------
(* Why no flit is lost as long as at most two wb edges fall into a d2d      *)
(* period.  The write pointer moves at most every fifth wb edge, and its    *)
(* way to the sender takes two d2d edges: each move has come through before *)
(* the next sets out, so the sender, back in IDLE, never finds two flits.   *)

\* d2d_test's control words start and enable at once, and the transfer it sets up is no
\* longer on the sending side than on the receiving side.
Programs ==
    /\ NoReset
    /\ \A c \in TxControls : "TX_ENABLE" \in c
    /\ \A c \in RxControls : {"RX_START", "RX_ENABLE"} \subseteq c
    /\ \A t \in TxLengths, r \in RxLengths : t <= r

\* What is set stays set: the control bits, and behind them the synchronisers.
StaysUp ==
    /\ tx_control # {} => TxEnabled
    /\ rx_control # {} => RxStarted /\ RxEnabled
    /\ tx_enable_sync[0] => TxEnabled
    /\ rx_start_sync[0] => RxStarted
    /\ rx_enable_sync[0] => RxEnabled
    /\ \A i \in 0..1 : /\ tx_enable_sync[i + 1] => tx_enable_sync[i]
                       /\ rx_start_sync[i + 1] => rx_start_sync[i]
                       /\ rx_enable_sync[i + 1] => rx_enable_sync[i]
    /\ rx_ready => rx_start_sync[2] /\ rx_enable_sync[2]

\* A's engine reads as many flits as TX_LEN says, which is no more than B takes.
Budget ==
    /\ tx_length \in TxLengths \cup {0} /\ rx_length \in RxLengths \cup {0}
    /\ tx_length = 0 => tx_control = {}
    /\ tx_dma_state # "IDLE" =>
           tx_control # {} /\ Len(sent) + tx_dma_remaining = tx_length

\* The write pointer moves the edge after a strobe and its Gray word one edge later: by
\* then the engine has at most requested the next flit, and has no grant for it.
Granted == a_arb_state = "GRANT_TX"
Strobing ==
    /\ a_arb_state \in {"IDLE", "GRANT_TX"}
    /\ Granted => tx_wb_stb
    /\ tx_fifo_wr_en => tx_dma_state \in {"FETCH", "DONE"}
    /\ tx_fifo_wr_ptr_gray # ToGray[tx_fifo_wr_ptr] =>
           ~tx_fifo_wr_en /\ ~Granted /\ tx_dma_state \in {"FETCH", "WAIT", "DONE"}
    /\ tx_dma_state = "IDLE" =>
           /\ tx_fifo_wr_ptr = 0 /\ tx_fifo_wr_ptr_gray = ToGray[0]
           /\ ~tx_fifo_wr_en

\* The least number of wb edges until the write pointer's Gray word changes.
Until ==
    IF tx_fifo_wr_ptr_gray # ToGray[tx_fifo_wr_ptr] THEN 1
    ELSE IF tx_fifo_wr_en THEN 2
    ELSE IF tx_dma_state = "WAIT3" \/ (tx_dma_state = "WAIT2" /\ Granted) THEN 3
    ELSE IF tx_dma_state = "WAIT2" THEN 4
    ELSE 5

\* One of the two enables has come through flop i or a later one.
AnySync(i) == \E j \in i..2 : tx_enable_sync[j] \/ rx_enable_sync[j]

\* On its way the write pointer is at most one step ahead of the next copy, and of one
\* copy only.  wr_ptr_bin is right after one d2d edge, the count after two; nothing comes
\* through before the sender is enabled.
GrayStep ==
    tx_fifo_wr_ptr_gray # tx_fifo_wr_ptr_gray_sync =>
        /\ FromGray[tx_fifo_wr_ptr_gray] = Next1(FromGray[tx_fifo_wr_ptr_gray_sync])
        /\ Until >= 6 - wb_run
BinStep ==
    wr_ptr_bin # FromGray[tx_fifo_wr_ptr_gray_sync] =>
        /\ FromGray[tx_fifo_wr_ptr_gray_sync] = Next1(wr_ptr_bin)
        /\ tx_fifo_wr_ptr_gray = tx_fifo_wr_ptr_gray_sync
        /\ Until >= 4 - wb_run
CountStep ==
    \/ Dist(wr_ptr_bin, tx_fifo_rd_ptr_d2d) = tx_fifo_count_d2d
    \/ /\ Dist(wr_ptr_bin, tx_fifo_rd_ptr_d2d) = tx_fifo_count_d2d + 1
       /\ wr_ptr_bin = FromGray[tx_fifo_wr_ptr_gray_sync]
Steps ==
    /\ wb_run \in 0..MaxWb
    /\ GrayStep /\ (AnySync(0) => BinStep) /\ (AnySync(1) => CountStep)
    /\ ~tx_enable_sync[0] => tx_fifo_wr_ptr_gray_sync = ToGray[0]
    /\ ~tx_enable_sync[1] /\ AnySync(0) => wr_ptr_bin = 0
    /\ ~tx_enable_sync[2] => tx_fifo_rd_ptr_d2d = 0
    /\ ~tx_enable_sync[2] /\ AnySync(1) => tx_fifo_count_d2d = 0

\* The sender finds at most one flit when it finds ready up, and none when it has just
\* presented one; n_tx_d2d_state and an odd power-up state are gone before it is enabled.
Handshake ==
    /\ n_tx_d2d_state # tx_d2d_state => ~AnySync(0)
    /\ tx_d2d_state \in {"RETRY_COMPLETE", "SEND"} => tx_valid \/ ~AnySync(1)
    /\ tx_d2d_state = "RETRY" => ~tx_valid
    /\ tx_d2d_state = "IDLE" /\ tx_valid => tx_fifo_count_d2d = 0
    /\ tx_d2d_state = "IDLE" /\ ~tx_valid /\ rx_ready =>
           Dist(wr_ptr_bin, tx_fifo_rd_ptr_d2d) <= 1

PacedInv ==
    /\ LinkInv /\ NoFlitLost
    /\ StaysUp /\ Budget /\ Strobing /\ Steps /\ Handshake
=============================================================================
