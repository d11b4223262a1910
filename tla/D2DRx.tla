------------------------------- MODULE D2DRx -------------------------------
(***************************************************************************)
(* The receive half of a die-to-die link (rtl/d2d/verilog/d2d_link_top.v): *)
(* the port that accepts flits into the RX FIFO, the crossing of the       *)
(* FIFO's pointers between d2d_clk and wb_clk, and the DMA engine that     *)
(* writes the flits to memory over Wishbone.                               *)
(*                                                                         *)
(* Actions are clock edges, as in D2DTx.  Software writes the control,     *)
(* address and length registers at any wb edge, the bus answers when it    *)
(* likes, and the peer drives rx_valid at any d2d edge.  rx_d2d_state is   *)
(* left out: it is reset to RX_D2D_IDLE and only ever assigned that.       *)
(***************************************************************************)
EXTENDS D2DRing, Sequences

CONSTANTS RxControls,   \* values software writes to CSR_CONTROL
          RxAddrs,      \* values software writes to CSR_RX_DEST_ADDR
          RxLengths     \* values software writes to CSR_RX_LENGTH

RxControl == {"RX_START", "RX_ENABLE", "RX_RESET"}
RxDmaStates == {"IDLE", "WRITE", "WAIT_FIRST", "WAIT_SECOND", "WAIT_SECOND2", "DONE"}

ASSUME RxInputAssumption ==
    /\ RxControls \subseteq SUBSET RxControl
    /\ RxAddrs \subseteq Nat /\ RxLengths \subseteq Nat

VARIABLES
    \* wb_clk: control registers, DMA engine and read side of the FIFO
    rx_control, rx_dest_addr, rx_length,
    rx_dma_state, rx_dma_current_addr, rx_dma_remaining, rx_dma_busy, rx_dma_done,
    rx_wb_adr, rx_wb_dat, rx_fifo_rdata, rx_fifo_rd_ptr_wb,
    rx_fifo_count_wb, rx_fifo_rd_ptr_wb_gray,
    rx_wr_gray_sync1, rx_wr_gray_sync2, rx_fifo_wr_ptr_wb_bin, rx_done_sync,
    \* d2d_clk: port and write side of the FIFO
    rx_start_sync, rx_enable_sync, rx_ready,
    rx_fifo, rx_fifo_wr_ptr, rx_fifo_count, rx_wr_gray_d2d,
    rx_rd_gray_sync1, rx_rd_gray_sync2, rx_fifo_rd_ptr_d2d_bin,
    \* history: the flits taken at the port, and the words written to memory
    received, stored

rxSwVars == <<rx_control, rx_dest_addr, rx_length>>
rxDmaVars ==
    <<rx_dma_state, rx_dma_current_addr, rx_dma_remaining, rx_dma_busy, rx_dma_done,
      rx_wb_adr, rx_wb_dat, rx_fifo_rdata, rx_fifo_rd_ptr_wb, stored>>
rxFifoWbVars ==
    <<rx_fifo_count_wb, rx_fifo_rd_ptr_wb_gray, rx_wr_gray_sync1, rx_wr_gray_sync2,
      rx_fifo_wr_ptr_wb_bin, rx_done_sync>>
rxPortVars ==
    <<rx_start_sync, rx_enable_sync, rx_ready>>
rxFifoD2dVars ==
    <<rx_fifo, rx_fifo_wr_ptr, rx_fifo_count, rx_wr_gray_d2d, rx_rd_gray_sync1,
      rx_rd_gray_sync2, rx_fifo_rd_ptr_d2d_bin, received>>
rxWbVars == <<rxDmaVars, rxFifoWbVars>>
rxD2dVars == <<rxPortVars, rxFifoD2dVars>>
rxVars == <<rxSwVars, rxWbVars, rxD2dVars>>

\* A clock edge leaves the registers of the other domain alone.
RxKeepSw == UNCHANGED rxSwVars
RxKeepWb == UNCHANGED rxWbVars
RxKeepD2d == UNCHANGED rxD2dVars

RxInitWb ==
    /\ rx_control = {} /\ rx_dest_addr = 0 /\ rx_length = 0
    /\ rx_dma_state = "IDLE" /\ rx_dma_current_addr = 0 /\ rx_dma_remaining = 0
    /\ rx_dma_busy = FALSE /\ rx_dma_done = FALSE
    /\ rx_wb_adr = 0 /\ rx_wb_dat = 0 /\ rx_fifo_rdata = ZeroFlit
    /\ rx_fifo_rd_ptr_wb = 0 /\ rx_fifo_count_wb = 0
    /\ rx_fifo_rd_ptr_wb_gray = ToGray[0]
    /\ rx_wr_gray_sync1 = ToGray[0] /\ rx_wr_gray_sync2 = ToGray[0]
    /\ rx_fifo_wr_ptr_wb_bin = 0 /\ rx_done_sync = Low3
    /\ stored = <<>>

RxInitD2d ==
    /\ rx_start_sync = Low3 /\ rx_enable_sync = Low3 /\ rx_ready = FALSE
    /\ rx_fifo = [p \in Ptr |-> ZeroFlit]
    /\ rx_fifo_wr_ptr = 0 /\ rx_fifo_count = 0 /\ rx_wr_gray_d2d = ToGray[0]
    /\ rx_rd_gray_sync1 = ToGray[0] /\ rx_rd_gray_sync2 = ToGray[0]
    /\ rx_fifo_rd_ptr_d2d_bin = 0
    /\ received = <<>>

RxInit == RxInitWb /\ RxInitD2d

-----------------------------------------------------------------------------
(* wb_clk                                                                   *)

\* A Wishbone write to one of the registers, or none.
RxCsrWrite ==
    \/ RxKeepSw
    \/ /\ rx_control' \in RxControls
       /\ UNCHANGED <<rx_dest_addr, rx_length>>
    \/ /\ rx_dest_addr' \in RxAddrs
       /\ UNCHANGED <<rx_control, rx_length>>
    \/ /\ rx_length' \in RxLengths
       /\ UNCHANGED <<rx_control, rx_dest_addr>>

RxDmaStart == {"RX_START", "RX_ENABLE"} \subseteq rx_control
            /\ "RX_RESET" \notin rx_control

RxDmaIdle ==
    /\ rx_dma_state = "IDLE"
    /\ \/ /\ RxDmaStart
          /\ rx_dma_state' = "WRITE"
          /\ rx_dma_current_addr' = rx_dest_addr /\ rx_dma_remaining' = rx_length
          /\ rx_dma_busy' = TRUE /\ rx_dma_done' = FALSE
       \/ /\ ~RxDmaStart
          /\ UNCHANGED <<rx_dma_state, rx_dma_current_addr, rx_dma_remaining,
                         rx_dma_busy, rx_dma_done>>
    /\ UNCHANGED <<rx_wb_adr, rx_wb_dat, rx_fifo_rdata, rx_fifo_rd_ptr_wb, stored>>

\* Fault: an empty FIFO ends the run.
RxDmaWrite_EmptyEnds ==
    /\ rx_dma_state = "WRITE"
    /\ \/ /\ rx_fifo_count_wb > 0 /\ rx_dma_remaining > 0
          /\ rx_fifo_rdata' = rx_fifo[rx_fifo_rd_ptr_wb]
          /\ rx_fifo_rd_ptr_wb' = Next1(rx_fifo_rd_ptr_wb)
          /\ rx_dma_state' = "WAIT_FIRST"
       \/ /\ rx_fifo_count_wb = 0 \/ rx_dma_remaining = 0
          /\ rx_dma_state' = "DONE"
          /\ UNCHANGED <<rx_fifo_rdata, rx_fifo_rd_ptr_wb>>
    /\ UNCHANGED <<rx_dma_current_addr, rx_dma_remaining, rx_dma_busy, rx_dma_done,
                   rx_wb_adr, rx_wb_dat, stored>>

\* Take a flit out of the FIFO; nothing left to take ends the run.
RxDmaWrite ==
    /\ rx_dma_state = "WRITE"
    /\ \/ /\ rx_fifo_count_wb > 0 /\ rx_dma_remaining > 0
          /\ rx_fifo_rdata' = rx_fifo[rx_fifo_rd_ptr_wb]
          /\ rx_fifo_rd_ptr_wb' = Next1(rx_fifo_rd_ptr_wb)
          /\ rx_dma_state' = "WAIT_FIRST"
       \/ /\ rx_dma_remaining = 0
          /\ rx_dma_state' = "DONE"
          /\ UNCHANGED <<rx_fifo_rdata, rx_fifo_rd_ptr_wb>>
       \/ /\ rx_fifo_count_wb = 0 /\ rx_dma_remaining > 0
          /\ UNCHANGED <<rx_dma_state, rx_fifo_rdata, rx_fifo_rd_ptr_wb>>
    /\ UNCHANGED <<rx_dma_current_addr, rx_dma_remaining, rx_dma_busy, rx_dma_done,
                   rx_wb_adr, rx_wb_dat, stored>>

RxDmaWaitFirst ==
    /\ rx_dma_state = "WAIT_FIRST"
    /\ rx_wb_adr' = rx_dma_current_addr /\ rx_wb_dat' = rx_fifo_rdata.lo
    /\ rx_dma_state' = "WAIT_SECOND"
    /\ UNCHANGED <<rx_dma_current_addr, rx_dma_remaining, rx_dma_busy, rx_dma_done,
                   rx_fifo_rdata, rx_fifo_rd_ptr_wb, stored>>

\* Fault: the second access keeps the data of the first.
Store_SameWord ==
    stored' = Append(stored, [adr |-> rx_wb_adr, dat |-> rx_fifo_rdata.lo])

\* An acknowledged write has stored the word on the bus at the address on the bus.
Store == stored' = Append(stored, [adr |-> rx_wb_adr, dat |-> rx_wb_dat])

RxDmaWaitSecond(ack) ==
    /\ rx_dma_state = "WAIT_SECOND"
    /\ \/ /\ ack /\ Store
          /\ rx_wb_adr' = rx_dma_current_addr + 4 /\ rx_wb_dat' = rx_fifo_rdata.hi
          /\ rx_dma_state' = "WAIT_SECOND2"
       \/ ~ack /\ UNCHANGED <<rx_dma_state, rx_wb_adr, rx_wb_dat, stored>>
    /\ UNCHANGED <<rx_dma_current_addr, rx_dma_remaining, rx_dma_busy, rx_dma_done,
                   rx_fifo_rdata, rx_fifo_rd_ptr_wb>>

RxDmaWaitSecond2(ack) ==
    /\ rx_dma_state = "WAIT_SECOND2"
    /\ \/ /\ ack /\ Store
          /\ rx_dma_current_addr' = rx_dma_current_addr + 8
          /\ rx_dma_remaining' = rx_dma_remaining - 1
          /\ rx_dma_state' = IF rx_dma_remaining = 1 THEN "DONE" ELSE "WRITE"
       \/ ~ack /\ UNCHANGED <<rx_dma_state, rx_dma_current_addr, rx_dma_remaining, stored>>
    /\ UNCHANGED <<rx_dma_busy, rx_dma_done, rx_wb_adr, rx_wb_dat, rx_fifo_rdata,
                   rx_fifo_rd_ptr_wb>>

RxDmaDone ==
    /\ rx_dma_state = "DONE"
    /\ rx_dma_busy' = FALSE
    /\ rx_dma_done' = ("RX_RESET" \notin rx_control)
    /\ rx_dma_state' = IF "RX_RESET" \in rx_control THEN "IDLE" ELSE "DONE"
    /\ UNCHANGED <<rx_dma_current_addr, rx_dma_remaining, rx_wb_adr, rx_wb_dat,
                   rx_fifo_rdata, rx_fifo_rd_ptr_wb, stored>>

RxDmaStep(ack) ==
    \/ RxDmaIdle \/ RxDmaWrite \/ RxDmaWaitFirst \/ RxDmaDone
    \/ RxDmaWaitSecond(ack) \/ RxDmaWaitSecond2(ack)

\* The engine's cyc and stb: raised on leaving WAIT_FIRST, dropped with the last ack.
rx_wb_stb == rx_dma_state \in {"WAIT_SECOND", "WAIT_SECOND2"}

\* The read side of the FIFO; sample is what the first flop of the write pointer's
\* way into this domain captures.  The count follows the pointers one edge late.
RxFifoRead(sample) ==
    /\ rx_wr_gray_sync1' = sample
    /\ rx_wr_gray_sync2' = rx_wr_gray_sync1
    /\ rx_fifo_wr_ptr_wb_bin' = FromGray[rx_wr_gray_sync2]
    /\ rx_fifo_rd_ptr_wb_gray' = ToGray[rx_fifo_rd_ptr_wb]
    /\ rx_fifo_count_wb' = Dist(rx_fifo_wr_ptr_wb_bin, rx_fifo_rd_ptr_wb)

RxWbEdge(ack, sample) ==
    RxDmaStep(ack) /\ RxFifoRead(sample) /\ rx_done_sync' = Shift(rx_done_sync, rx_dma_done)

-----------------------------------------------------------------------------
(* d2d_clk                                                                  *)

rx_fifo_full == rx_fifo_count = LastEntry

\* Fault: ready does not look at the FIFO.
SideReady_Full(len, done) ==
    rx_enable_sync[2] /\ len > 0 /\ rx_start_sync[2] /\ ~done

\* rx_side_ready; the length and the done bit are read straight from the wb domain.
SideReady(len, done) ==
    rx_enable_sync[2] /\ len > 0 /\ rx_start_sync[2] /\ ~rx_fifo_full /\ ~done

\* A flit is taken when valid meets ready, and ready then drops for a cycle; the FIFO
\* drops the flit when it is full.
PortTake(data) ==
    /\ rx_ready
    /\ received' = Append(received, data)
    /\ rx_ready' = (rx_fifo_count >= LastEntry)
    /\ \/ /\ ~rx_fifo_full
          /\ rx_fifo' = [rx_fifo EXCEPT ![rx_fifo_wr_ptr] = data]
          /\ rx_fifo_wr_ptr' = Next1(rx_fifo_wr_ptr)
       \/ rx_fifo_full /\ UNCHANGED <<rx_fifo, rx_fifo_wr_ptr>>

PortWait(valid, len, done) ==
    /\ ~(valid /\ rx_ready)
    /\ rx_ready' = SideReady(len, done)
    /\ UNCHANGED <<received, rx_fifo, rx_fifo_wr_ptr>>

\* Fault: the count is made of the write pointer before the write.
RxFifoWrite_Late(sample) ==
    /\ rx_fifo_count' = Dist(rx_fifo_wr_ptr, rx_fifo_rd_ptr_d2d_bin)
    /\ rx_wr_gray_d2d' = ToGray[rx_fifo_wr_ptr]
    /\ rx_rd_gray_sync1' = sample /\ rx_rd_gray_sync2' = rx_rd_gray_sync1
    /\ rx_fifo_rd_ptr_d2d_bin' = FromGray[rx_rd_gray_sync2]

\* The write side of the FIFO: its count takes in a write at once and a read when the
\* read pointer has come across.
RxFifoWrite(sample) ==
    /\ rx_fifo_count' = Dist(rx_fifo_wr_ptr', rx_fifo_rd_ptr_d2d_bin)
    /\ rx_wr_gray_d2d' = ToGray[rx_fifo_wr_ptr]
    /\ rx_rd_gray_sync1' = sample
    /\ rx_rd_gray_sync2' = rx_rd_gray_sync1
    /\ rx_fifo_rd_ptr_d2d_bin' = FromGray[rx_rd_gray_sync2]

SyncControl(start, enable) ==
    /\ rx_start_sync' = Shift(rx_start_sync, start)
    /\ rx_enable_sync' = Shift(rx_enable_sync, enable)

RxD2dEdge(valid, data, len, done, start, enable, sample) ==
    /\ (valid /\ PortTake(data)) \/ PortWait(valid, len, done)
    /\ RxFifoWrite(sample)
    /\ SyncControl(start, enable)

-----------------------------------------------------------------------------
RxStarted == "RX_START" \in rx_control
RxEnabled == "RX_ENABLE" \in rx_control
NextData == FlitAt(8 * Len(received))     \* what the peer sends next

RxWbTick ==
    /\ RxCsrWrite
    /\ \E ack \in {FALSE, rx_wb_stb} : RxWbEdge(ack, rx_wr_gray_d2d)
    /\ RxKeepD2d

RxD2dTick ==
    /\ \E valid \in BOOLEAN :
          RxD2dEdge(valid, NextData, rx_length, rx_done_sync[2], RxStarted, RxEnabled,
                    rx_fifo_rd_ptr_wb_gray)
    /\ RxKeepSw /\ RxKeepWb

\* Both clocks rise together; what crosses is caught while it changes.
RxBothTick ==
    /\ RxCsrWrite
    /\ \E ack \in {FALSE, rx_wb_stb},
          sample \in Mix(rx_wr_gray_d2d, ToGray[rx_fifo_wr_ptr]) :
          RxWbEdge(ack, sample)
    /\ \E valid \in BOOLEAN, len \in {rx_length, rx_length'},
          done \in {rx_done_sync[2], rx_done_sync[1]},
          start \in {RxStarted, RxStarted'}, enable \in {RxEnabled, RxEnabled'},
          sample \in Mix(rx_fifo_rd_ptr_wb_gray, ToGray[rx_fifo_rd_ptr_wb]) :
          RxD2dEdge(valid, NextData, len, done, start, enable, sample)

RxNext == RxWbTick \/ RxD2dTick \/ RxBothTick

RxSpec == RxInit /\ [][RxNext]_rxVars

-----------------------------------------------------------------------------
RxTypeOK ==
    /\ rx_control \subseteq RxControl /\ rx_dest_addr \in Nat /\ rx_length \in Nat
    /\ rx_dma_state \in RxDmaStates
    /\ rx_dma_current_addr \in Nat /\ rx_dma_remaining \in Nat
    /\ rx_dma_busy \in BOOLEAN /\ rx_dma_done \in BOOLEAN
    /\ rx_wb_adr \in Nat /\ rx_wb_dat \in Nat /\ rx_fifo_rdata \in Flit
    /\ rx_fifo_rd_ptr_wb \in Ptr /\ rx_fifo_count_wb \in Ptr
    /\ rx_fifo_rd_ptr_wb_gray \in Word /\ rx_wr_gray_sync1 \in Word /\ rx_wr_gray_sync2 \in Word
    /\ rx_fifo_wr_ptr_wb_bin \in Ptr
    /\ {rx_done_sync, rx_start_sync, rx_enable_sync} \subseteq [0..2 -> BOOLEAN]
    /\ rx_ready \in BOOLEAN
    /\ rx_fifo \in [Ptr -> Flit] /\ rx_fifo_wr_ptr \in Ptr /\ rx_fifo_count \in Ptr
    /\ rx_wr_gray_d2d \in Word /\ rx_rd_gray_sync1 \in Word /\ rx_rd_gray_sync2 \in Word
    /\ rx_fifo_rd_ptr_d2d_bin \in Ptr
    /\ received \in Seq(Flit) /\ stored \in Seq([adr : Nat, dat : Nat])

\* The port offers to take a flit only if the FIFO will not drop it
\* (`rx_fifo_wr_en && !rx_fifo_full').
ReadyMeansRoom == rx_ready => ~rx_fifo_full

\* The slot the next flit goes to holds none the DMA engine has still to read, whatever
\* the age of the read pointer the port knows of.
RxNoOverwrite == rx_ready => Dist(rx_fifo_wr_ptr, rx_fifo_rd_ptr_wb) < LastEntry

\* Every flit taken at the port is written to memory once, in order, lower word first:
\* the receive half is a reliable channel from the port to the memory.
Delivered == [i \in 1..(Len(stored) \div 2) |->
                 [lo |-> stored[2 * i - 1].dat, hi |-> stored[2 * i].dat]]
RxChannel == INSTANCE FlitChannel WITH
               Capacity <- Depth, accepted <- received, delivered <- Delivered
ReliableRx == RxChannel!Spec

-----------------------------------------------------------------------------
(* The inductive invariant: what every clock edge preserves.                *)

\* From the port's copy of the read pointer to the write pointer the ring holds, in this
\* order, every younger copy of the read pointer, the read pointer itself, the engine's
\* copy of the write pointer and every younger copy of that one.
RxOrdered ==
    LET b == rx_fifo_rd_ptr_d2d_bin
    IN  /\ NotAfter(b, FromGray[rx_rd_gray_sync2], FromGray[rx_rd_gray_sync1])
        /\ NotAfter(b, FromGray[rx_rd_gray_sync1], FromGray[rx_fifo_rd_ptr_wb_gray])
        /\ NotAfter(b, FromGray[rx_fifo_rd_ptr_wb_gray], rx_fifo_rd_ptr_wb)
        /\ NotAfter(b, rx_fifo_rd_ptr_wb, rx_fifo_wr_ptr_wb_bin)
        /\ NotAfter(b, rx_fifo_wr_ptr_wb_bin, FromGray[rx_wr_gray_sync2])
        /\ NotAfter(b, FromGray[rx_wr_gray_sync2], FromGray[rx_wr_gray_sync1])
        /\ NotAfter(b, FromGray[rx_wr_gray_sync1], FromGray[rx_wr_gray_d2d])
        /\ NotAfter(b, FromGray[rx_wr_gray_d2d], rx_fifo_wr_ptr)

\* A Gray word that crosses is at most one step behind its pointer.
RxOneStep ==
    /\ rx_fifo_rd_ptr_wb
           \in {FromGray[rx_fifo_rd_ptr_wb_gray], Next1(FromGray[rx_fifo_rd_ptr_wb_gray])}
    /\ rx_fifo_wr_ptr \in {FromGray[rx_wr_gray_d2d], Next1(FromGray[rx_wr_gray_d2d])}

\* The port's count is never too low.  The engine's is never too high but for the edge
\* after it has taken a flit, when the engine does not look at it.
RxCounts ==
    /\ Dist(rx_fifo_wr_ptr, rx_fifo_rd_ptr_d2d_bin) <= rx_fifo_count
    /\ rx_dma_state # "WAIT_FIRST" =>
           rx_fifo_count_wb <= Dist(rx_fifo_wr_ptr_wb_bin, rx_fifo_rd_ptr_wb)

\* How many flits the engine has taken out of the FIFO; one of them may be in its hands.
InHand == rx_dma_state \in {"WAIT_FIRST", "WAIT_SECOND", "WAIT_SECOND2"}
RxTaken == Len(Delivered) + (IF InHand THEN 1 ELSE 0)

\* The flits between the pointers are the ones taken at the port and not yet taken out.
RxContents == Holds(rx_fifo_rd_ptr_wb, RxTaken, rx_fifo_wr_ptr, rx_fifo, received, FALSE)

\* The flit in the engine's hands is the next in line, and the word on the bus is the
\* half of it that is due at the address that is due.
RxInHand ==
    /\ InHand => rx_fifo_rdata = received[RxTaken] /\ rx_dma_remaining > 0
    /\ rx_dma_state = "WAIT_SECOND" =>
           rx_wb_dat = rx_fifo_rdata.lo /\ rx_wb_adr = rx_dma_current_addr
    /\ rx_dma_state = "WAIT_SECOND2" =>
           /\ rx_wb_dat = rx_fifo_rdata.hi /\ rx_wb_adr = rx_dma_current_addr + 4
           /\ stored[Len(stored)] = [adr |-> rx_dma_current_addr, dat |-> rx_fifo_rdata.lo]

\* Words go to memory in pairs at neighbouring addresses, and the pairs are the flits
\* taken at the port, in their order.
RxStored ==
    /\ Len(stored) = 2 * Len(Delivered) + (IF rx_dma_state = "WAIT_SECOND2" THEN 1 ELSE 0)
    /\ \A i \in 1..Len(Delivered) : /\ Delivered[i] = received[i]
                                    /\ stored[2 * i].adr = stored[2 * i - 1].adr + 4

RxInv ==
    /\ RxTypeOK /\ ReadyMeansRoom /\ RxNoOverwrite
    /\ RxOrdered /\ RxOneStep /\ RxCounts
    /\ RxContents /\ RxInHand /\ RxStored
=============================================================================
