------------------------------- MODULE D2DTx -------------------------------
(***************************************************************************)
(* The transmit half of a die-to-die link (rtl/d2d/verilog/d2d_link_top.v):*)
(* the DMA engine that reads flits over Wishbone into the TX FIFO, the     *)
(* crossing of the FIFO's pointers between wb_clk and d2d_clk, and the     *)
(* sender that hands flits to the other die.                               *)
(*                                                                         *)
(* One action is one clock edge: all the registers of a domain change      *)
(* together, from the values before the edge.  Edges of the two clocks     *)
(* come in any order, and TxBothTick is the instant at which they meet:    *)
(* a register that crosses then captures any mix (Mix) of its source's old *)
(* and new bits.                                                           *)
(*                                                                         *)
(* Software writes the control, address and length registers at any wb     *)
(* edge, the bus answers when it likes and tx_ready is whatever the peer   *)
(* drives.  Addresses count bytes; a 64-bit flit is its two words and a    *)
(* word of memory is known by its address.                                 *)
(***************************************************************************)
EXTENDS D2DRing, Sequences

CONSTANTS LatchPowerUp, \* what n_tx_d2d_state may hold before its first assignment
          TxControls,   \* values software writes to CSR_CONTROL
          TxAddrs,      \* values software writes to CSR_TX_SRC_ADDR
          TxLengths     \* values software writes to CSR_TX_LENGTH

TxControl == {"TX_START", "TX_ENABLE", "TX_RESET"}
TxSendStates == {"IDLE", "SEND", "RETRY", "RETRY_COMPLETE"}
TxDmaStates == {"IDLE", "FETCH", "WAIT", "WAIT2", "WAIT3", "DONE"}

ASSUME TxInputAssumption ==
    /\ TxControls \subseteq SUBSET TxControl
    /\ TxAddrs \subseteq Nat /\ TxLengths \subseteq Nat
    /\ LatchPowerUp \subseteq TxSendStates
\* n_tx_d2d_state is a latch without a reset.  Powered up as TX_D2D_RETRY it would send
\* a flit that no one wrote; a simulator has it undefined (the default arm).
ASSUME PowerUpAssumption == "RETRY" \notin LatchPowerUp

VARIABLES
    \* wb_clk: control registers, DMA engine and write side of the FIFO
    tx_control, tx_src_addr, tx_length,
    tx_dma_state, tx_dma_current_addr, tx_dma_remaining, tx_dma_busy, tx_dma_done,
    tx_wb_adr, tx_fifo_wr_en, tx_fifo_wdata,
    tx_fifo, tx_fifo_wr_ptr, tx_fifo_rd_ptr, tx_fifo_count, tx_fifo_wr_ptr_gray,
    tx_rd_gray_sync1, tx_rd_gray_sync2, tx_fifo_rd_ptr_wb_bin,
    \* d2d_clk: read side of the FIFO and sender
    tx_enable_sync, tx_fifo_wr_ptr_gray_sync, wr_ptr_bin, tx_fifo_count_d2d,
    tx_fifo_rd_ptr_d2d, tx_rd_gray_d2d, tx_d2d_state, n_tx_d2d_state, tx_data, tx_valid,
    \* history: the flits the DMA engine has taken up, and those presented to the peer
    sent, presented

txSwVars == <<tx_control, tx_src_addr, tx_length>>
txDmaVars ==
    <<tx_dma_state, tx_dma_current_addr, tx_dma_remaining, tx_dma_busy, tx_dma_done,
      tx_wb_adr, tx_fifo_wr_en, tx_fifo_wdata, sent>>
txFifoWbVars ==
    <<tx_fifo, tx_fifo_wr_ptr, tx_fifo_rd_ptr, tx_fifo_count, tx_fifo_wr_ptr_gray,
      tx_rd_gray_sync1, tx_rd_gray_sync2, tx_fifo_rd_ptr_wb_bin>>
txFifoD2dVars ==
    <<tx_enable_sync, tx_fifo_wr_ptr_gray_sync, wr_ptr_bin, tx_fifo_count_d2d,
      tx_rd_gray_d2d>>
txSendVars ==
    <<tx_fifo_rd_ptr_d2d, tx_d2d_state, n_tx_d2d_state, tx_data, tx_valid, presented>>
txWbVars == <<txDmaVars, txFifoWbVars>>
txD2dVars == <<txFifoD2dVars, txSendVars>>
txVars == <<txSwVars, txWbVars, txD2dVars>>

\* A clock edge leaves the registers of the other domain alone.
TxKeepSw == UNCHANGED txSwVars
TxKeepWb == UNCHANGED txWbVars
TxKeepD2d == UNCHANGED txD2dVars

-----------------------------------------------------------------------------
(* Reset.  wr_ptr_bin and n_tx_d2d_state are not reset by the code, and     *)
(* neither is the FIFO's memory (a slot starts with something of no flit).  *)

TxInitWb ==
    /\ tx_control = {} /\ tx_src_addr = 0 /\ tx_length = 0
    /\ tx_dma_state = "IDLE" /\ tx_dma_current_addr = 0 /\ tx_dma_remaining = 0
    /\ tx_dma_busy = FALSE /\ tx_dma_done = FALSE
    /\ tx_wb_adr = 0 /\ tx_fifo_wr_en = FALSE /\ tx_fifo_wdata = ZeroFlit
    /\ tx_fifo = [p \in Ptr |-> ZeroFlit]
    /\ tx_fifo_wr_ptr = 0 /\ tx_fifo_rd_ptr = 0 /\ tx_fifo_count = 0
    /\ tx_fifo_wr_ptr_gray = ToGray[0]
    /\ tx_rd_gray_sync1 = ToGray[0] /\ tx_rd_gray_sync2 = ToGray[0]
    /\ tx_fifo_rd_ptr_wb_bin = 0
    /\ sent = <<>>

TxInitD2d ==
    /\ tx_enable_sync = Low3
    /\ tx_fifo_wr_ptr_gray_sync = ToGray[0]
    /\ wr_ptr_bin \in Ptr
    /\ tx_fifo_count_d2d = 0 /\ tx_fifo_rd_ptr_d2d = 0 /\ tx_rd_gray_d2d = ToGray[0]
    /\ tx_d2d_state = "IDLE" /\ n_tx_d2d_state \in LatchPowerUp
    /\ tx_data = ZeroFlit /\ tx_valid = FALSE
    /\ presented = <<>>

TxInit == TxInitWb /\ TxInitD2d

-----------------------------------------------------------------------------
(* wb_clk                                                                   *)

\* Fault: full is the capacity of the ring, which a count never reaches.
tx_fifo_full_AtDepth == tx_fifo_count = Depth

tx_fifo_full == tx_fifo_count = LastEntry

\* The engine's cyc and stb: raised on leaving FETCH, dropped on leaving WAIT2.
tx_wb_stb == tx_dma_state \in {"WAIT", "WAIT2"}

\* A Wishbone write to one of the registers, or none.
TxCsrWrite ==
    \/ TxKeepSw
    \/ /\ tx_control' \in TxControls
       /\ UNCHANGED <<tx_src_addr, tx_length>>
    \/ /\ tx_src_addr' \in TxAddrs
       /\ UNCHANGED <<tx_control, tx_length>>
    \/ /\ tx_length' \in TxLengths
       /\ UNCHANGED <<tx_control, tx_src_addr>>

TxDmaStart == {"TX_START", "TX_ENABLE"} \subseteq tx_control
              /\ "TX_RESET" \notin tx_control

TxDmaIdle ==
    /\ tx_dma_state = "IDLE"
    /\ \/ /\ TxDmaStart
          /\ tx_dma_state' = "FETCH"
          /\ tx_dma_current_addr' = tx_src_addr /\ tx_dma_remaining' = tx_length
          /\ tx_dma_busy' = TRUE /\ tx_dma_done' = FALSE
       \/ /\ ~TxDmaStart
          /\ UNCHANGED <<tx_dma_state, tx_dma_current_addr, tx_dma_remaining,
                         tx_dma_busy, tx_dma_done>>
    /\ tx_fifo_wr_en' = FALSE
    /\ UNCHANGED <<tx_wb_adr, tx_fifo_wdata, sent>>

\* Request the lower word once there is room; nothing left ends the run.
TxDmaFetch ==
    /\ tx_dma_state = "FETCH"
    /\ \/ /\ ~tx_fifo_full /\ tx_dma_remaining > 0
          /\ tx_wb_adr' = tx_dma_current_addr
          /\ tx_dma_state' = "WAIT"
       \/ /\ tx_dma_remaining = 0
          /\ tx_dma_state' = "DONE" /\ UNCHANGED tx_wb_adr
       \/ /\ tx_fifo_full /\ tx_dma_remaining > 0
          /\ UNCHANGED <<tx_dma_state, tx_wb_adr>>
    /\ tx_fifo_wr_en' = FALSE
    /\ UNCHANGED <<tx_dma_current_addr, tx_dma_remaining, tx_dma_busy, tx_dma_done,
                   tx_fifo_wdata, sent>>

\* Fault: the second request keeps the address of the first.
TxDmaWait_SameWord(ack) ==
    /\ tx_dma_state = "WAIT"
    /\ tx_fifo_wdata' = IF ack THEN [tx_fifo_wdata EXCEPT !.lo = tx_wb_adr] ELSE tx_fifo_wdata
    /\ tx_dma_state' = IF ack THEN "WAIT2" ELSE "WAIT"
    /\ tx_fifo_wr_en' = FALSE
    /\ UNCHANGED <<tx_wb_adr, tx_dma_current_addr, tx_dma_remaining, tx_dma_busy,
                   tx_dma_done, sent>>

\* The lower word arrives: keep it and request the upper one.
TxDmaWait(ack) ==
    /\ tx_dma_state = "WAIT"
    /\ \/ /\ ack
          /\ tx_fifo_wdata' = [tx_fifo_wdata EXCEPT !.lo = tx_wb_adr]
          /\ tx_wb_adr' = tx_dma_current_addr + 4
          /\ tx_dma_state' = "WAIT2"
       \/ ~ack /\ UNCHANGED <<tx_fifo_wdata, tx_wb_adr, tx_dma_state>>
    /\ tx_fifo_wr_en' = FALSE
    /\ UNCHANGED <<tx_dma_current_addr, tx_dma_remaining, tx_dma_busy, tx_dma_done,
                   sent>>

\* The flit is complete: strobe the FIFO's write and step on, to the next flit
\* or to the end of the run.
StrobeFlit ==
    /\ tx_fifo_wr_en' = TRUE
    /\ tx_dma_current_addr' = tx_dma_current_addr + 8
    /\ tx_dma_remaining' = tx_dma_remaining - 1
    /\ tx_dma_state' = IF tx_dma_remaining = 1 THEN "DONE" ELSE "FETCH"
    /\ sent' = Append(sent, FlitAt(tx_dma_current_addr))

HoldFlit ==
    /\ tx_fifo_wr_en' = FALSE
    /\ UNCHANGED <<tx_dma_current_addr, tx_dma_remaining, sent>>

\* The upper word arrives, into the FIFO or, when that is full, into WAIT3.
TxDmaWait2(ack) ==
    /\ tx_dma_state = "WAIT2"
    /\ \/ /\ ack
          /\ tx_fifo_wdata' = [tx_fifo_wdata EXCEPT !.hi = tx_wb_adr]
          /\ \/ ~tx_fifo_full /\ StrobeFlit
             \/ tx_fifo_full /\ HoldFlit /\ tx_dma_state' = "WAIT3"
       \/ ~ack /\ HoldFlit /\ UNCHANGED <<tx_fifo_wdata, tx_dma_state>>
    /\ UNCHANGED <<tx_wb_adr, tx_dma_busy, tx_dma_done>>

\* Fault: WAIT3 strobes without looking at the FIFO again.
TxDmaWait3_NoCheck ==
    /\ tx_dma_state = "WAIT3" /\ StrobeFlit
    /\ UNCHANGED <<tx_wb_adr, tx_fifo_wdata, tx_dma_busy, tx_dma_done>>

TxDmaWait3 ==
    /\ tx_dma_state = "WAIT3"
    /\ \/ ~tx_fifo_full /\ StrobeFlit
       \/ tx_fifo_full /\ HoldFlit /\ UNCHANGED tx_dma_state
    /\ UNCHANGED <<tx_wb_adr, tx_fifo_wdata, tx_dma_busy, tx_dma_done>>

\* Hold done until software resets the engine.
TxDmaDone ==
    /\ tx_dma_state = "DONE"
    /\ tx_dma_busy' = FALSE
    /\ tx_dma_done' = ("TX_RESET" \notin tx_control)
    /\ tx_dma_state' = IF "TX_RESET" \in tx_control THEN "IDLE" ELSE "DONE"
    /\ tx_fifo_wr_en' = FALSE
    /\ UNCHANGED <<tx_dma_current_addr, tx_dma_remaining, tx_wb_adr, tx_fifo_wdata,
                   sent>>

TxDmaStep(ack) ==
    TxDmaIdle \/ TxDmaFetch \/ TxDmaWait(ack) \/ TxDmaWait2(ack) \/ TxDmaWait3 \/ TxDmaDone

\* The write side of the FIFO.  The count is taken from both pointers as they were
\* before the edge, so a write shows in it one edge late.
TxFifoWrite ==
    /\ \/ /\ tx_fifo_wr_en /\ ~tx_fifo_full
          /\ tx_fifo' = [tx_fifo EXCEPT ![tx_fifo_wr_ptr] = tx_fifo_wdata]
          /\ tx_fifo_wr_ptr' = Next1(tx_fifo_wr_ptr)
       \/ /\ ~(tx_fifo_wr_en /\ ~tx_fifo_full)
          /\ UNCHANGED <<tx_fifo, tx_fifo_wr_ptr>>
    /\ tx_fifo_rd_ptr' = tx_fifo_rd_ptr_wb_bin
    /\ tx_fifo_count' = Dist(tx_fifo_wr_ptr, tx_fifo_rd_ptr)
    /\ tx_fifo_wr_ptr_gray' = ToGray[tx_fifo_wr_ptr]

\* The read pointer's way into this domain; sample is what its first flop captures.
SyncReadPtr(sample) ==
    /\ tx_rd_gray_sync1' = sample
    /\ tx_rd_gray_sync2' = tx_rd_gray_sync1
    /\ tx_fifo_rd_ptr_wb_bin' = FromGray[tx_rd_gray_sync2]

TxWbEdge(ack, sample) == TxDmaStep(ack) /\ TxFifoWrite /\ SyncReadPtr(sample)

-----------------------------------------------------------------------------
(* d2d_clk                                                                  *)

SendGo == tx_enable_sync[2] /\ tx_fifo_count_d2d > 0

\* n_tx_d2d_state is assigned by this arm, or holds what it last was.
Assign(s) == tx_d2d_state' = s /\ n_tx_d2d_state' = s
Hold == tx_d2d_state' = n_tx_d2d_state /\ UNCHANGED n_tx_d2d_state

SendNothing ==
    /\ tx_d2d_state = "IDLE" /\ ~SendGo
    /\ Hold
    /\ tx_valid' = FALSE
    /\ UNCHANGED <<tx_fifo_rd_ptr_d2d, tx_data, presented>>

\* Take the next flit out of the FIFO; present it at once only if the peer is ready.
SendNext(ready) ==
    /\ tx_d2d_state = "IDLE" /\ SendGo
    /\ tx_fifo_rd_ptr_d2d' = Next1(tx_fifo_rd_ptr_d2d)
    /\ tx_data' = tx_fifo[tx_fifo_rd_ptr_d2d]
    /\ tx_valid' = ready
    /\ \/ ready /\ Assign("IDLE") /\ presented' = Append(presented, tx_data')
       \/ ~ready /\ Assign("RETRY") /\ UNCHANGED presented

\* Fault: RETRY goes on after it has presented the flit.
SendRetry_Again(ready) ==
    /\ tx_d2d_state = "RETRY" /\ tx_valid' = ready
    /\ presented' = IF ready THEN Append(presented, tx_data) ELSE presented
    /\ Hold
    /\ UNCHANGED <<tx_fifo_rd_ptr_d2d, tx_data>>

\* Fault: RETRY raises valid whatever the peer shows.
SendRetry_Blind(ready) ==
    /\ tx_d2d_state = "RETRY" /\ tx_valid' = TRUE
    /\ Assign("RETRY_COMPLETE") /\ presented' = Append(presented, tx_data)
    /\ UNCHANGED <<tx_fifo_rd_ptr_d2d, tx_data>>

SendRetry(ready) ==
    /\ tx_d2d_state = "RETRY"
    /\ tx_valid' = ready
    /\ \/ ready /\ Assign("RETRY_COMPLETE") /\ presented' = Append(presented, tx_data)
       \/ ~ready /\ Hold /\ UNCHANGED presented
    /\ UNCHANGED <<tx_fifo_rd_ptr_d2d, tx_data>>

\* TX_D2D_RETRY_COMPLETE and the default arm.
SendReturn ==
    /\ tx_d2d_state \in {"RETRY_COMPLETE", "SEND"}
    /\ Assign("IDLE")
    /\ tx_valid' = FALSE
    /\ UNCHANGED <<tx_fifo_rd_ptr_d2d, tx_data, presented>>

SendStep(ready) ==
    SendNothing \/ SendNext(ready) \/ SendRetry(ready) \/ SendReturn

\* The write pointer's way into this domain, through one flop, and the count made
\* of it and of the read pointer the sender moves to at this edge.
TxFifoRead(sample) ==
    /\ tx_fifo_wr_ptr_gray_sync' = sample
    /\ wr_ptr_bin' = FromGray[tx_fifo_wr_ptr_gray_sync]
    /\ tx_fifo_count_d2d' = Dist(wr_ptr_bin, tx_fifo_rd_ptr_d2d')
    /\ tx_rd_gray_d2d' = ToGray[tx_fifo_rd_ptr_d2d]

SyncEnable(enable) ==
    tx_enable_sync' = Shift(tx_enable_sync, enable)

TxD2dEdge(ready, enable, sample) ==
    SendStep(ready) /\ TxFifoRead(sample) /\ SyncEnable(enable)

-----------------------------------------------------------------------------
TxEnabled == "TX_ENABLE" \in tx_control

TxWbTick ==
    /\ TxCsrWrite
    /\ \E ack \in {FALSE, tx_wb_stb} : TxWbEdge(ack, tx_rd_gray_d2d)
    /\ TxKeepD2d

TxD2dTick ==
    /\ \E ready \in BOOLEAN : TxD2dEdge(ready, TxEnabled, tx_fifo_wr_ptr_gray)
    /\ TxKeepSw /\ TxKeepWb

\* Both clocks rise together; what crosses is caught while it changes.
TxBothTick ==
    /\ TxCsrWrite
    /\ \E ack \in {FALSE, tx_wb_stb},
          sample \in Mix(tx_rd_gray_d2d, ToGray[tx_fifo_rd_ptr_d2d]) :
          TxWbEdge(ack, sample)
    /\ \E ready \in BOOLEAN, enable \in {TxEnabled, TxEnabled'},
          sample \in Mix(tx_fifo_wr_ptr_gray, ToGray[tx_fifo_wr_ptr]) :
          TxD2dEdge(ready, enable, sample)

TxNext == TxWbTick \/ TxD2dTick \/ TxBothTick

TxSpec == TxInit /\ [][TxNext]_txVars

-----------------------------------------------------------------------------
TxTypeOK ==
    /\ tx_control \subseteq TxControl
    /\ tx_src_addr \in Nat /\ tx_length \in Nat
    /\ tx_dma_state \in TxDmaStates
    /\ tx_dma_current_addr \in Nat /\ tx_dma_remaining \in Nat /\ tx_wb_adr \in Nat
    /\ tx_dma_busy \in BOOLEAN /\ tx_dma_done \in BOOLEAN /\ tx_fifo_wr_en \in BOOLEAN
    /\ tx_fifo_wdata \in Flit /\ tx_fifo \in [Ptr -> Flit]
    /\ tx_fifo_wr_ptr \in Ptr /\ tx_fifo_rd_ptr \in Ptr /\ tx_fifo_count \in Ptr
    /\ tx_fifo_wr_ptr_gray \in Word
    /\ tx_rd_gray_sync1 \in Word /\ tx_rd_gray_sync2 \in Word /\ tx_fifo_rd_ptr_wb_bin \in Ptr
    /\ tx_enable_sync \in [0..2 -> BOOLEAN]
    /\ tx_fifo_wr_ptr_gray_sync \in Word /\ wr_ptr_bin \in Ptr
    /\ tx_fifo_count_d2d \in Ptr /\ tx_fifo_rd_ptr_d2d \in Ptr /\ tx_rd_gray_d2d \in Word
    /\ tx_d2d_state \in TxSendStates /\ n_tx_d2d_state \in TxSendStates
    /\ tx_data \in Flit /\ tx_valid \in BOOLEAN
    /\ sent \in Seq(Flit) /\ presented \in Seq(Flit)

\* The engine has counted the flit it is strobing as sent and will not offer it again:
\* the FIFO must be able to take it (`tx_fifo_wr_en && !tx_fifo_full').
StrobeFindsRoom == tx_fifo_wr_en => ~tx_fifo_full

\* The slot a strobed flit goes to holds no flit the sender has still to read, whatever
\* the age of the read pointer the write side knows of.
TxNoOverwrite ==
    tx_fifo_wr_en => Dist(tx_fifo_wr_ptr, tx_fifo_rd_ptr_d2d) < LastEntry

\* The sender presents every flit the DMA engine took up, once, in order and with both
\* of its words, and never something else: the transmit half is a reliable channel.
TxChannel == INSTANCE FlitChannel WITH
               Capacity <- Depth, accepted <- sent, delivered <- presented
ReliableTx == TxChannel!Spec

-----------------------------------------------------------------------------
(* The inductive invariant: what every clock edge preserves.                *)

\* From the oldest copy of the read pointer to the write pointer the ring holds, in this
\* order, every younger copy of the read pointer, the read pointer itself and every
\* copy of the write pointer.
RingOrder(b, rb, r2, r1, rg, r, ws, wg, w) ==
    /\ NotAfter(b, rb, r2) /\ NotAfter(b, r2, r1) /\ NotAfter(b, r1, rg)
    /\ NotAfter(b, rg, r) /\ NotAfter(b, r, ws) /\ NotAfter(b, ws, wg)
    /\ NotAfter(b, wg, w)

Ordered ==
    RingOrder(tx_fifo_rd_ptr, tx_fifo_rd_ptr_wb_bin, FromGray[tx_rd_gray_sync2],
              FromGray[tx_rd_gray_sync1], FromGray[tx_rd_gray_d2d], tx_fifo_rd_ptr_d2d,
              FromGray[tx_fifo_wr_ptr_gray_sync], FromGray[tx_fifo_wr_ptr_gray],
              tx_fifo_wr_ptr)

\* A Gray word that crosses is at most one step behind its pointer, so that a sample
\* taken while it changes is the old word or the new one.
OneStep ==
    /\ tx_fifo_rd_ptr_d2d
           \in {FromGray[tx_rd_gray_d2d], Next1(FromGray[tx_rd_gray_d2d])}
    /\ tx_fifo_wr_ptr
           \in {FromGray[tx_fifo_wr_ptr_gray], Next1(FromGray[tx_fifo_wr_ptr_gray])}

\* The sender's binary copy of the write pointer and the count made of it.  Neither is
\* valid right after reset; three enable samples keep the sender from using them.
WrBinOK == /\ NotAfter(tx_fifo_rd_ptr, tx_fifo_rd_ptr_d2d, wr_ptr_bin)
           /\ NotAfter(tx_fifo_rd_ptr, wr_ptr_bin, FromGray[tx_fifo_wr_ptr_gray_sync])
CountOK == tx_fifo_count_d2d <= Dist(wr_ptr_bin, tx_fifo_rd_ptr_d2d)
StartUp ==
    /\ WrBinOK \/ \A i \in 0..2 : ~tx_enable_sync[i]
    /\ (WrBinOK /\ CountOK) \/ (~tx_enable_sync[1] /\ ~tx_enable_sync[2])

\* The DMA engine offers a flit only when the count allows for it, and the count it
\* looks at then is not too low.
Room ==
    /\ tx_dma_state \in {"WAIT", "WAIT2", "WAIT3"} =>
           tx_dma_remaining > 0 /\ ~tx_fifo_wr_en
    /\ tx_dma_state \in {"WAIT2", "WAIT3"} =>
           Dist(tx_fifo_wr_ptr, tx_fifo_rd_ptr) <= tx_fifo_count
    /\ tx_fifo_wr_en =>
           /\ Dist(tx_fifo_wr_ptr, tx_fifo_rd_ptr) < LastEntry
           /\ tx_fifo_count < LastEntry

\* The two words of a flit are those of the current address.
Fetched ==
    /\ tx_dma_state = "WAIT" => tx_wb_adr = tx_dma_current_addr
    /\ tx_dma_state = "WAIT2" =>
           tx_wb_adr = tx_dma_current_addr + 4 /\ tx_fifo_wdata.lo = tx_dma_current_addr
    /\ tx_dma_state = "WAIT3" => tx_fifo_wdata = FlitAt(tx_dma_current_addr)

\* How many flits the sender has taken out of the FIFO; in RETRY one of them waits.
Held == IF tx_d2d_state = "RETRY" THEN 1 ELSE 0
Taken == Len(presented) + Held

\* The flits between read and write pointer are the ones taken up and not yet taken out.
Contents ==
    /\ Holds(tx_fifo_rd_ptr_d2d, Taken, tx_fifo_wr_ptr, tx_fifo, sent, tx_fifo_wr_en)
    /\ tx_fifo_wr_en => tx_fifo_wdata = sent[Len(sent)]

Presented ==
    /\ n_tx_d2d_state = "RETRY" <=> tx_d2d_state = "RETRY"
    /\ tx_d2d_state = "RETRY" => tx_data = sent[Taken]
    /\ \A i \in 1..Len(presented) : presented[i] = sent[i]

TxInv ==
    /\ TxTypeOK /\ Ordered /\ OneStep /\ StartUp /\ Room /\ Fetched
    /\ Contents /\ Presented
=============================================================================
