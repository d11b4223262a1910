--------------------------- MODULE D2DLinkProofs ---------------------------
(***************************************************************************)
(* What two chips make of their halves of a link, for every ring size,     *)
(* every length and every ratio of the clocks.  In the link either half    *)
(* takes the steps it takes alone, so its invariant holds there.  As long  *)
(* as no flit is lost on the wires (NoFlitLost) the link is one reliable   *)
(* channel, and done means that the destination is the source.  That no    *)
(* flit is lost depends on the clocks: it is proved for up to two wb edges *)
(* per d2d edge; with three TLC finds the flit that is lost.               *)
(***************************************************************************)
EXTENDS D2DLink, D2DHalvesProofs

-----------------------------------------------------------------------------
(* The steps                                                                *)

\* The arbiter gives an engine an acknowledge only while the engine asks for it.
LEMMA AckAsked ==
    /\ \A ack \in {FALSE, ArbA!BusStb(tx_wb_stb, FALSE)} :
           ArbA!tx_ack(ack) \in {FALSE, tx_wb_stb}
    /\ \A ack \in {FALSE, ArbB!BusStb(FALSE, rx_wb_stb)} :
           ArbB!rx_ack(ack) \in {FALSE, rx_wb_stb}
<1>1. /\ tx_wb_stb \in BOOLEAN /\ rx_wb_stb \in BOOLEAN
  BY DEF tx_wb_stb, rx_wb_stb
<1>2. ASSUME NEW ack \in {FALSE, ArbA!BusStb(tx_wb_stb, FALSE)}
      PROVE  ArbA!tx_ack(ack) \in {FALSE, tx_wb_stb}
  BY <1>1, <1>2 DEF ArbA!tx_ack, ArbA!BusStb
<1>3. ASSUME NEW ack \in {FALSE, ArbB!BusStb(FALSE, rx_wb_stb)}
      PROVE  ArbB!rx_ack(ack) \in {FALSE, rx_wb_stb}
  BY <1>1, <1>3 DEF ArbB!rx_ack, ArbB!BusStb
<1> QED BY <1>2, <1>3

\* Software of the link is software of either half.
LEMMA SoftwareWrites == Software => TxCsrWrite /\ RxCsrWrite
BY DEF Software, SetUpA, SetUpB, TxCsrWrite, RxCsrWrite

\* An edge of the wb clock in each half.
LEMMA WbEdgeParts ==
    ASSUME NEW txSample, NEW rxSample, WbEdge(txSample, rxSample)
    PROVE  /\ TxCsrWrite /\ RxCsrWrite
           /\ \E ack \in {FALSE, tx_wb_stb} : TxWbEdge(ack, txSample)
           /\ \E ack \in {FALSE, rx_wb_stb} : RxWbEdge(ack, rxSample)
<1>1. PICK ackA \in {FALSE, ArbA!BusStb(tx_wb_stb, FALSE)} :
          TxWbEdge(ArbA!tx_ack(ackA), txSample)
  BY DEF WbEdge
<1>2. PICK ackB \in {FALSE, ArbB!BusStb(FALSE, rx_wb_stb)} :
          RxWbEdge(ArbB!rx_ack(ackB), rxSample)
  BY DEF WbEdge
<1>3. Software
  BY DEF WbEdge
<1> QED BY <1>1, <1>2, <1>3, AckAsked, SoftwareWrites

\* What the transmit half does in the link it does for some peer.
LEMMA LinkTxStep ==
    ASSUME rx_ready \in BOOLEAN, [Next]_vars
    PROVE  [TxNext]_txVars
<1>1. CASE WbTick
  <2>1. TxCsrWrite /\ \E ack \in {FALSE, tx_wb_stb} : TxWbEdge(ack, tx_rd_gray_d2d)
    BY <1>1, WbEdgeParts DEF WbTick
  <2> QED BY <1>1, <2>1 DEF WbTick, TxWbTick, TxNext
<1>2. CASE D2dTick
  BY <1>2 DEF D2dTick, TxD2dTick, TxNext
<1>3. CASE BothTick
  <2>1. PICK txSample \in Mix(tx_rd_gray_d2d, ToGray[tx_fifo_rd_ptr_d2d]),
             rxSample \in Mix(rx_wr_gray_d2d, ToGray[rx_fifo_wr_ptr]) :
             WbEdge(txSample, rxSample)
    BY <1>3 DEF BothTick
  <2>2. /\ TxCsrWrite
        /\ \E ack \in {FALSE, tx_wb_stb} : TxWbEdge(ack, txSample)
    BY <2>1, WbEdgeParts
  <2>3. \E enable \in {TxEnabled, TxEnabled'},
           sample \in Mix(tx_fifo_wr_ptr_gray, ToGray[tx_fifo_wr_ptr]) :
           TxD2dEdge(rx_ready, enable, sample)
    BY <1>3 DEF BothTick
  <2>4. TxBothTick
    BY <2>2, <2>3 DEF TxBothTick
  <2> QED BY <2>4 DEF TxNext
<1>4. CASE UNCHANGED vars
  BY <1>4 DEF vars
<1> QED BY <1>1, <1>2, <1>3, <1>4 DEF Next

\* What the receive half does in the link it does for some peer.
LEMMA LinkRxStep ==
    ASSUME RxTypeOK, RxOneStep, tx_data \in Flit, [Next]_vars
    PROVE  RxEdges
<1>0. /\ rx_wb_stb \in BOOLEAN
      /\ {RxStarted, RxStarted', RxEnabled, RxEnabled'} \subseteq BOOLEAN
  BY DEF rx_wb_stb, RxStarted, RxEnabled
<1>1. CASE WbTick
  <2>1. RxCsrWrite /\ \E ack \in {FALSE, rx_wb_stb} : RxWbEdge(ack, rx_wr_gray_d2d)
    BY <1>1, WbEdgeParts DEF WbTick
  <2>2. RxWbSteps({rx_wr_gray_d2d})
    BY <1>0, <2>1 DEF RxWbSteps
  <2> QED BY <1>1, <2>1, <2>2 DEF WbTick, RxEdges
<1>2. CASE D2dTick
  <2>1. RxD2dEdge(tx_valid, tx_data, rx_length, rx_done_sync[2], RxStarted, RxEnabled,
                  rx_fifo_rd_ptr_wb_gray)
    BY <1>2 DEF D2dTick
  <2>2. RxD2dSteps({rx_fifo_rd_ptr_wb_gray})
    BY <1>0, <2>1 DEF RxD2dSteps
  <2> QED BY <1>2, <2>2 DEF D2dTick, RxEdges, RxCsrWrite
<1>3. CASE BothTick
  <2>1. PICK txSample \in Mix(tx_rd_gray_d2d, ToGray[tx_fifo_rd_ptr_d2d]),
             s \in Mix(rx_wr_gray_d2d, ToGray[rx_fifo_wr_ptr]) : WbEdge(txSample, s)
    BY <1>3 DEF BothTick
  <2>2. RxCsrWrite /\ \E ack \in {FALSE, rx_wb_stb} : RxWbEdge(ack, s)
    BY <2>1, WbEdgeParts
  <2>3. s \in RxWriteSamples
    BY MixStep DEF RxWriteSamples, RxTypeOK, RxOneStep
  <2>4. RxWbSteps(RxWriteSamples)
    BY <1>0, <2>2, <2>3 DEF RxWbSteps
  <2>5. PICK len \in {rx_length, rx_length'}, done \in {rx_done_sync[2], rx_done_sync[1]},
             start \in {RxStarted, RxStarted'}, enable \in {RxEnabled, RxEnabled'},
             t \in Mix(rx_fifo_rd_ptr_wb_gray, ToGray[rx_fifo_rd_ptr_wb]) :
             RxD2dEdge(tx_valid, tx_data, len, done, start, enable, t)
    BY <1>3 DEF BothTick
  <2>6. t \in RxReadSamples
    BY MixStep DEF RxReadSamples, RxTypeOK, RxOneStep
  <2>7. start \in BOOLEAN /\ enable \in BOOLEAN
    BY <1>0
  <2>8. RxD2dSteps(RxReadSamples)
    BY <2>5, <2>6, <2>7 DEF RxD2dSteps
  <2> QED BY <2>2, <2>4, <2>8 DEF RxEdges
<1>4. CASE UNCHANGED vars
  BY <1>4 DEF vars, rxVars, RxKeepWb, RxKeepD2d, RxCsrWrite, RxKeepSw, RxEdges
<1> QED BY <1>1, <1>2, <1>3, <1>4 DEF Next

\* Either half keeps its invariant in the link.
LEMMA HalvesStep ==
    ASSUME TxInv, RxInv, [Next]_vars
    PROVE  /\ [TxNext]_txVars /\ RxEdges
           /\ TxInv' /\ RxInv'
<1>1. rx_ready \in BOOLEAN /\ tx_data \in Flit /\ RxTypeOK /\ RxOneStep
  BY DEF TxInv, TxTypeOK, RxInv, RxTypeOK
<1>2. [TxNext]_txVars /\ RxEdges
  BY <1>1, LinkTxStep, LinkRxStep
<1> QED BY <1>2, NextInv, RxEdgesInv

-----------------------------------------------------------------------------
(* The wires                                                                *)

\* The sender presents a flit exactly when it raises valid.
LEMMA ValidPresents ==
    ASSUME NEW ready \in BOOLEAN, SendStep(ready)
    PROVE  presented' = IF tx_valid' THEN Append(presented, tx_data') ELSE presented
<1>1. CASE SendNext(ready)
  BY <1>1, Zenon DEF SendNext
<1>2. CASE SendRetry(ready)
  BY <1>2, Zenon DEF SendRetry
<1>3. CASE SendNothing \/ SendReturn
  BY <1>3 DEF SendNothing, SendReturn
<1> QED BY <1>1, <1>2, <1>3 DEF SendStep

\* The d2d registers stay, or both halves take an edge of the d2d clock and see each
\* other's wires.
LEMMA WireCases ==
    ASSUME [Next]_vars
    PROVE  \/ UNCHANGED <<presented, tx_valid, tx_data, received, rx_ready>>
           \/ /\ SendStep(rx_ready)
              /\ \/ tx_valid /\ PortTake(tx_data)
                 \/ \E len, done : PortWait(tx_valid, len, done)
<1>1. CASE WbTick
  BY <1>1 DEF WbTick, TxKeepD2d, txD2dVars, txSendVars, RxKeepD2d, rxD2dVars, rxPortVars,
              rxFifoD2dVars
<1>2. CASE D2dTick
  <2>1. SendStep(rx_ready)
    BY <1>2 DEF D2dTick, TxD2dEdge
  <2>2. (tx_valid /\ PortTake(tx_data)) \/ PortWait(tx_valid, rx_length, rx_done_sync[2])
    BY <1>2 DEF D2dTick, RxD2dEdge
  <2> QED BY <2>1, <2>2, Zenon
<1>3. CASE BothTick
  <2>1. \E enable \in {TxEnabled, TxEnabled'},
           sample \in Mix(tx_fifo_wr_ptr_gray, ToGray[tx_fifo_wr_ptr]) :
           TxD2dEdge(rx_ready, enable, sample)
    BY <1>3 DEF BothTick
  <2>2. SendStep(rx_ready)
    BY <2>1 DEF TxD2dEdge
  <2>3. PICK len \in {rx_length, rx_length'}, done \in {rx_done_sync[2], rx_done_sync[1]},
             start \in {RxStarted, RxStarted'}, enable \in {RxEnabled, RxEnabled'},
             t \in Mix(rx_fifo_rd_ptr_wb_gray, ToGray[rx_fifo_rd_ptr_wb]) :
             RxD2dEdge(tx_valid, tx_data, len, done, start, enable, t)
    BY <1>3 DEF BothTick
  <2>4. (tx_valid /\ PortTake(tx_data)) \/ PortWait(tx_valid, len, done)
    BY <2>3 DEF RxD2dEdge
  <2> QED BY <2>2, <2>4, Zenon
<1>4. CASE UNCHANGED vars
  BY <1>4 DEF vars, txVars, rxVars, txD2dVars, txSendVars, rxD2dVars, rxPortVars,
              rxFifoD2dVars
<1> QED BY <1>1, <1>2, <1>3, <1>4 DEF Next

\* What is presented arrives, at the next edge and once.
LEMMA WiredStep ==
    ASSUME TxInv, RxInv, Wired, NoFlitLost, [Next]_vars
    PROVE  Wired'
<1>1. rx_ready \in BOOLEAN /\ tx_valid \in BOOLEAN
  BY DEF TxInv, TxTypeOK, RxInv, RxTypeOK
<1>2. CASE UNCHANGED <<presented, tx_valid, tx_data, received, rx_ready>>
  BY <1>2 DEF Wired
<1>3. ASSUME SendStep(rx_ready),
             received' = IF tx_valid THEN Append(received, tx_data) ELSE received
      PROVE  Wired'
  <2>1. presented' = IF tx_valid' THEN Append(presented, tx_data') ELSE presented
    BY <1>1, <1>3, ValidPresents
  <2>2. received' = presented
    BY <1>3, Zenon DEF Wired
  <2> QED BY <2>1, <2>2 DEF Wired
<1>4. CASE tx_valid /\ PortTake(tx_data)
  <2>1. received' = IF tx_valid THEN Append(received, tx_data) ELSE received
    BY <1>4 DEF PortTake
  <2> QED BY <1>2, <1>3, <1>4, <2>1, WireCases
<1>5. ASSUME NEW len, NEW done, PortWait(tx_valid, len, done)
      PROVE  received' = IF tx_valid THEN Append(received, tx_data) ELSE received
  <2>1. ~(tx_valid /\ rx_ready) /\ received' = received
    BY <1>5 DEF PortWait
  <2>2. ~tx_valid
    BY <2>1, Zenon DEF NoFlitLost
  <2> QED BY <2>1, <2>2
<1> QED BY <1>2, <1>3, <1>4, <1>5, WireCases

LEMMA LinkInit == Init => TxInv /\ RxInv /\ Wired
<1> SUFFICES ASSUME Init PROVE TxInv /\ RxInv /\ Wired
  OBVIOUS
<1>1. TxInit /\ RxInit
  BY DEF Init
<1>2. presented = <<>> /\ received = <<>> /\ tx_valid = FALSE
  BY <1>1 DEF TxInit, TxInitD2d, RxInit, RxInitD2d
<1> QED BY <1>1, <1>2, InitInv, RxInitInv DEF Wired

-----------------------------------------------------------------------------
(* The link as one channel                                                  *)

Joined == TxInv /\ RxInv /\ Wired

LEMMA JoinedInit == Init => Joined
BY LinkInit DEF Joined

LEMMA JoinedStep == Joined /\ NoFlitLost /\ [Next]_vars => Joined'
BY HalvesStep, WiredStep DEF Joined

\* What has arrived was presented, at its place.
LEMMA ArrivedPresented ==
    ASSUME Joined
    PROVE  /\ Len(received) <= Len(presented)
           /\ Len(presented) = Len(received) + (IF tx_valid THEN 1 ELSE 0)
           /\ \A i \in 1..Len(received) : received[i] = presented[i]
<1>1. received \in Seq(Flit) /\ tx_data \in Flit
  BY DEF Joined, TxInv, TxTypeOK, RxInv, RxTypeOK
<1>2. CASE tx_valid
  <2>1. presented = Append(received, tx_data)
    BY <1>2 DEF Joined, Wired
  <2> QED BY <1>1, <1>2, <2>1
<1>3. CASE ~tx_valid
  <2>1. presented = received
    BY <1>3 DEF Joined, Wired
  <2> QED BY <1>1, <1>3, <2>1
<1> QED BY <1>2, <1>3

\* What has arrived has been taken out of B's ring or is in it.
LEMMA ArrivedCount ==
    ASSUME RxInv
    PROVE  /\ Dist(rx_fifo_wr_ptr, rx_fifo_rd_ptr_wb) \in Nat
           /\ Len(received) = RxTaken + Dist(rx_fifo_wr_ptr, rx_fifo_rd_ptr_wb)
<1>1. Dist(rx_fifo_wr_ptr, rx_fifo_rd_ptr_wb) \in Nat /\ RxTaken \in Nat
  BY RxCopies, DistType, RxTakenType
<1>2. Holds(rx_fifo_rd_ptr_wb, RxTaken, rx_fifo_wr_ptr, rx_fifo, received, FALSE)
  BY DEF RxInv, RxContents
<1> QED BY <1>1, <1>2 DEF Holds

\* What has been written to B's memory is what was read from A's, flit for flit.
LEMMA DeliveredSent ==
    ASSUME Joined
    PROVE  /\ Len(Delivered) \in Nat /\ Len(received) \in Nat /\ Len(sent) \in Nat
           /\ Len(Delivered) <= Len(received) /\ Len(received) <= Len(sent)
           /\ \A i \in 1..Len(received) : received[i] = sent[i]
           /\ \A i \in 1..Len(Delivered) : Delivered[i] = sent[i]
<1>1. TxInv /\ RxInv
  BY DEF Joined
<1>2. /\ RxTaken \in Nat /\ Len(received) \in Nat /\ Len(Delivered) \in Nat
  BY <1>1, RxTakenType
<1>3. Len(Delivered) <= RxTaken
  BY <1>2 DEF RxTaken
<1>4. RxTaken <= Len(received)
  BY <1>1, <1>2, ArrivedCount
<1>5. /\ Len(presented) \in Nat /\ Len(sent) \in Nat /\ Taken \in Nat
      /\ Len(presented) <= Taken /\ Taken <= Len(sent)
  BY <1>1, TakenType, TakenSent
<1>6. Len(received) <= Len(presented)
  BY ArrivedPresented
<1>7. \A i \in 1..Len(received) : received[i] = sent[i]
  <2>1. \A i \in 1..Len(presented) : presented[i] = sent[i]
    BY <1>1 DEF TxInv, Presented
  <2>2. \A i \in 1..Len(received) : i \in 1..Len(presented)
    BY <1>2, <1>5, <1>6
  <2> QED BY <2>1, <2>2, ArrivedPresented
<1>8. \A i \in 1..Len(Delivered) : Delivered[i] = sent[i]
  <2>1. \A i \in 1..Len(Delivered) : Delivered[i] = received[i]
    BY <1>1 DEF RxInv, RxStored
  <2>2. \A i \in 1..Len(Delivered) : i \in 1..Len(received)
    BY <1>2, <1>3, <1>4
  <2> QED BY <1>7, <2>1, <2>2
<1> QED BY <1>2, <1>3, <1>4, <1>5, <1>6, <1>7, <1>8

\* The ring of B holds what has arrived, and a flit on the wires has a place in it.
LEMMA PresentedRoom ==
    ASSUME Joined, NoFlitLost
    PROVE  Len(presented) <= Len(Delivered) + Depth
<1> DEFINE d == Dist(rx_fifo_wr_ptr, rx_fifo_rd_ptr_wb)
<1>1. /\ RxTaken \in Nat /\ Len(Delivered) \in Nat /\ RxTaken <= Len(Delivered) + 1
  BY RxTakenType DEF Joined, RxTaken
<1>2. d \in Nat /\ d <= LastEntry
  BY RxCopies, DistType DEF Joined
<1>3. Len(received) = RxTaken + d
  BY ArrivedCount DEF Joined
<1>4. tx_valid => d < LastEntry
  BY Zenon DEF Joined, RxInv, RxNoOverwrite, NoFlitLost
<1>5. Len(presented) = Len(received) + (IF tx_valid THEN 1 ELSE 0)
  BY ArrivedPresented
<1>6. Depth \in Nat /\ LastEntry = Depth - 1
  BY DepthAssumption DEF LastEntry
<1> HIDE DEF d
<1> QED BY <1>1, <1>2, <1>3, <1>4, <1>5, <1>6

\* A step of the link is one of the channel from memory to memory.
LEMMA LinkStepChannel ==
    ASSUME Joined, NoFlitLost, [Next]_vars
    PROVE  [Channel!Next]_<<sent, Delivered>>
<1>1. TxInv /\ RxInv /\ [TxNext]_txVars /\ RxEdges
  BY HalvesStep DEF Joined
<1>2. [TxChannel!Next]_<<sent, presented>> /\ [RxChannel!Next]_<<received, Delivered>>
  BY <1>1, TxStepChannel, RxEdgesChannel
<1>3. Channel!Enter
  <2>1. CASE sent' = sent
    BY <2>1 DEF Channel!Enter
  <2>2. CASE sent' # sent
    <3>1. /\ Len(sent) < Len(presented) + Depth
          /\ Len(sent') = Len(sent) + 1
          /\ sent' = Append(sent, sent'[Len(sent')])
          /\ sent'[Len(sent')] \in Flit
      BY <1>2, <2>2 DEF TxChannel!Next, TxChannel!Enter
    <3>2. Len(presented) <= Len(Delivered) + Depth
      BY PresentedRoom
    <3>3. /\ Len(sent) \in Nat /\ Len(presented) \in Nat /\ Len(Delivered) \in Nat
          /\ Depth \in Nat
      BY <1>1, TakenType, DeliveredSent, DepthAssumption
    <3>4. Len(sent) < Len(Delivered) + 2 * Depth
      BY <3>1, <3>2, <3>3
    <3> QED BY <3>1, <3>4 DEF Channel!Enter
  <2> QED BY <2>1, <2>2
<1>4. Channel!Leave
  <2>1. CASE Delivered' = Delivered
    BY <2>1 DEF Channel!Leave
  <2>2. CASE Delivered' # Delivered
    <3>1. /\ Len(Delivered) < Len(received)
          /\ Delivered' = Append(Delivered, received[Len(Delivered) + 1])
      BY <1>2, <2>2 DEF RxChannel!Next, RxChannel!Leave
    <3>2. /\ Len(Delivered) + 1 \in 1..Len(received) /\ Len(Delivered) < Len(sent)
      BY <3>1, DeliveredSent
    <3>3. received[Len(Delivered) + 1] = sent[Len(Delivered) + 1]
      BY <3>2, DeliveredSent
    <3> QED BY <3>1, <3>2, <3>3 DEF Channel!Leave
  <2> QED BY <2>1, <2>2
<1> QED BY <1>3, <1>4 DEF Channel!Next

-----------------------------------------------------------------------------
(* From the source to the destination                                       *)

\* What software may have written at an edge: d2d_test writes an address never, a length
\* once, and the control register after that.
LinkSoftware ==
    /\ UNCHANGED <<tx_src_addr, rx_dest_addr>>
    /\ tx_control' = tx_control \/ tx_control' \in TxControls
    /\ rx_control' = rx_control \/ (rx_length # 0 /\ rx_control' \in RxControls)
    /\ rx_length' = rx_length \/ (rx_length = 0 /\ rx_control' = rx_control)

\* The wb registers of both chips stay, or both take an edge of the wb clock.
LEMMA LinkWbCases ==
    ASSUME [Next]_vars
    PROVE  \/ TxKeepSw /\ RxKeepSw /\ TxKeepWb /\ RxKeepWb
           \/ /\ LinkSoftware
              /\ \E ack \in BOOLEAN : TxDmaStep(ack)
              /\ \E ack \in BOOLEAN :
                    RxDmaStep(ack) /\ rx_done_sync' = Shift(rx_done_sync, rx_dma_done)
<1>1. ASSUME NEW txSample, NEW rxSample, WbEdge(txSample, rxSample)
      PROVE  /\ LinkSoftware
             /\ \E ack \in BOOLEAN : TxDmaStep(ack)
             /\ \E ack \in BOOLEAN :
                   RxDmaStep(ack) /\ rx_done_sync' = Shift(rx_done_sync, rx_dma_done)
  <2>1. (SetUpA \/ TxKeepSw) /\ (SetUpB \/ RxKeepSw)
    BY <1>1 DEF WbEdge, Software
  <2>2. LinkSoftware
    <3>1. /\ tx_src_addr' = tx_src_addr
          /\ tx_control' = tx_control \/ tx_control' \in TxControls
      BY <2>1 DEF SetUpA, TxKeepSw, txSwVars
    <3>2. /\ rx_dest_addr' = rx_dest_addr
          /\ rx_control' = rx_control \/ (rx_length # 0 /\ rx_control' \in RxControls)
          /\ rx_length' = rx_length \/ (rx_length = 0 /\ rx_control' = rx_control)
      BY <2>1 DEF SetUpB, RxKeepSw, rxSwVars
    <3> QED BY <3>1, <3>2 DEF LinkSoftware
  <2>3. tx_wb_stb \in BOOLEAN /\ rx_wb_stb \in BOOLEAN
    BY DEF tx_wb_stb, rx_wb_stb
  <2>4. PICK ackA \in {FALSE, tx_wb_stb} : TxWbEdge(ackA, txSample)
    BY <1>1, WbEdgeParts
  <2>5. PICK ackB \in {FALSE, rx_wb_stb} : RxWbEdge(ackB, rxSample)
    BY <1>1, WbEdgeParts
  <2> QED BY <2>2, <2>3, <2>4, <2>5 DEF TxWbEdge, RxWbEdge
<1>2. CASE WbTick
  BY <1>1, <1>2 DEF WbTick
<1>3. CASE D2dTick
  BY <1>3 DEF D2dTick
<1>4. CASE BothTick
  BY <1>1, <1>4 DEF BothTick
<1>5. CASE UNCHANGED vars
  BY <1>5 DEF vars, txVars, rxVars, TxKeepSw, RxKeepSw, TxKeepWb, RxKeepWb
<1> QED BY <1>2, <1>3, <1>4, <1>5 DEF Next

\* A's engine takes up nothing, or the flit at its address, and steps on by a flit.
LEMMA SourceEdge ==
    ASSUME TxInv, NEW ack \in BOOLEAN, TxDmaStep(ack)
    PROVE  \/ /\ tx_dma_state = "IDLE" /\ sent' = sent
              /\ tx_dma_state' = "IDLE" \/ tx_dma_current_addr' = tx_src_addr
           \/ /\ tx_dma_state # "IDLE" /\ sent' = sent
              /\ tx_dma_current_addr' = tx_dma_current_addr
              /\ tx_dma_state' = "IDLE" => "TX_RESET" \in tx_control
           \/ /\ tx_dma_state # "IDLE" /\ tx_dma_state' # "IDLE"
              /\ sent' = Append(sent, FlitAt(tx_dma_current_addr))
              /\ tx_dma_current_addr' = tx_dma_current_addr + 8
<1>1. CASE TxDmaIdle
  BY <1>1 DEF TxDmaIdle
<1>2. CASE TxDmaFetch
  BY <1>2 DEF TxDmaFetch
<1>3. CASE TxDmaWait(ack)
  BY <1>3 DEF TxDmaWait
<1>4. CASE TxDmaWait2(ack)
  BY <1>4 DEF TxDmaWait2, StrobeFlit, HoldFlit
<1>5. CASE TxDmaWait3
  BY <1>5 DEF TxDmaWait3, StrobeFlit, HoldFlit
<1>6. CASE TxDmaDone
  BY <1>6 DEF TxDmaDone
<1> QED BY <1>1, <1>2, <1>3, <1>4, <1>5, <1>6 DEF TxDmaStep

LEMMA SourceReadStep ==
    ASSUME NoReset, TxInv, SourceRead, [Next]_vars
    PROVE  SourceRead'
<1>1. /\ sent \in Seq(Flit) /\ tx_dma_current_addr \in Nat /\ Len(sent) \in Nat
  BY DEF TxInv, TxTypeOK
<1>2. CASE TxKeepSw /\ TxKeepWb
  BY <1>2 DEF TxKeepSw, TxKeepWb, txSwVars, txWbVars, txDmaVars, SourceRead
<1>3. CASE LinkSoftware /\ \E ack \in BOOLEAN : TxDmaStep(ack)
  <2>1. tx_src_addr' = 0 /\ "TX_RESET" \notin tx_control'
    BY <1>3 DEF LinkSoftware, SourceRead, NoReset
  <2>2. CASE /\ tx_dma_state = "IDLE" /\ sent' = sent
             /\ tx_dma_state' = "IDLE" \/ tx_dma_current_addr' = tx_src_addr
    <3>1. sent' = <<>> /\ Len(sent') = 0 /\ tx_src_addr = 0
      BY <2>2 DEF SourceRead
    <3> QED BY <2>1, <2>2, <3>1 DEF SourceRead
  <2>3. CASE /\ tx_dma_state # "IDLE" /\ sent' = sent
             /\ tx_dma_current_addr' = tx_dma_current_addr
             /\ tx_dma_state' = "IDLE" => "TX_RESET" \in tx_control
    BY <2>1, <2>3 DEF SourceRead
  <2>4. CASE /\ tx_dma_state # "IDLE" /\ tx_dma_state' # "IDLE"
             /\ sent' = Append(sent, FlitAt(tx_dma_current_addr))
             /\ tx_dma_current_addr' = tx_dma_current_addr + 8
    <3>1. tx_dma_current_addr = 8 * Len(sent) /\ FlitAt(tx_dma_current_addr) \in Flit
      BY <1>1, <2>4, FlitAtType DEF SourceRead
    <3>2. /\ Len(sent') = Len(sent) + 1
          /\ \A i \in 1..Len(sent) : sent'[i] = sent[i]
          /\ sent'[Len(sent) + 1] = FlitAt(8 * Len(sent))
      BY <1>1, <2>4, <3>1
    <3>3. ASSUME NEW i \in 1..Len(sent') PROVE sent'[i] = FlitAt(8 * (i - 1))
      <4>1. CASE i = Len(sent) + 1
        BY <1>1, <3>2, <4>1
      <4>2. CASE i \in 1..Len(sent)
        BY <3>2, <4>2 DEF SourceRead
      <4> QED BY <1>1, <3>2, <4>1, <4>2
    <3>4. tx_dma_current_addr' = 8 * Len(sent')
      BY <1>1, <2>4, <3>1, <3>2
    <3> QED BY <2>1, <2>4, <3>3, <3>4 DEF SourceRead
  <2> QED BY <1>3, <2>2, <2>3, <2>4, SourceEdge
<1> QED BY <1>2, <1>3, LinkWbCases

\* What memory has of B's flits stays, and a flit completed is at the engine's address.
LEMMA DestEdge ==
    ASSUME RxInv, RxEdges, NEW ack \in BOOLEAN, RxDmaStep(ack)
    PROVE  /\ \A i \in 1..Len(Delivered) : stored'[2 * i - 1] = stored[2 * i - 1]
           /\ \/ Len(Delivered') = Len(Delivered) /\ rx_dma_state # "WAIT_SECOND2"
              \/ /\ Len(Delivered') = Len(Delivered) /\ rx_dma_state = "WAIT_SECOND2"
                 /\ UNCHANGED <<rx_dma_state, rx_dma_current_addr, rx_dma_remaining>>
              \/ /\ Len(Delivered') = Len(Delivered) + 1 /\ rx_dma_state = "WAIT_SECOND2"
                 /\ stored'[2 * (Len(Delivered) + 1) - 1].adr = rx_dma_current_addr
                 /\ rx_dma_current_addr' = rx_dma_current_addr + 8
                 /\ rx_dma_remaining' = rx_dma_remaining - 1
                 /\ rx_dma_state' = IF rx_dma_remaining = 1 THEN "DONE" ELSE "WRITE"
<1> DEFINE n == Len(Delivered)
           word == [adr |-> rx_wb_adr, dat |-> rx_wb_dat]
<1>1. /\ n \in Nat /\ stored \in Seq(StoredWord) /\ word \in StoredWord
      /\ Len(stored) = 2 * n + (IF rx_dma_state = "WAIT_SECOND2" THEN 1 ELSE 0)
  BY RxTakenType DEF RxInv, RxTypeOK, RxStored, StoredWord
<1>2. CASE stored' = stored /\ rx_dma_state # "WAIT_SECOND2"
  BY <1>1, <1>2, DeliveredPairs
<1>3. CASE stored' = stored /\ rx_dma_state = "WAIT_SECOND2"
  <2>1. RxDmaWaitSecond2(ack)
    BY <1>3 DEF RxDmaStep, RxDmaIdle, RxDmaWrite, RxDmaWaitFirst, RxDmaWaitSecond, RxDmaDone
  <2>2. stored # Append(stored, word)
    <3>1. Len(Append(stored, word)) = Len(stored) + 1 /\ Len(stored) \in Nat
      BY <1>1
    <3> HIDE DEF word
    <3> QED BY <3>1
  <2>3. UNCHANGED <<rx_dma_state, rx_dma_current_addr, rx_dma_remaining>>
    BY <1>3, <2>1, <2>2 DEF RxDmaWaitSecond2, Store
  <2> QED BY <1>1, <1>3, <2>3, DeliveredPairs
<1>4. CASE rx_dma_state = "WAIT_SECOND" /\ Store
  <2>1. Len(stored) = 2 * n /\ stored' = Append(stored, word)
    BY <1>1, <1>4 DEF Store
  <2>2. Delivered' = Delivered
    BY <1>1, <2>1, PairsAppend, DeliveredPairs
  <2>3. \A i \in 1..n : 2 * i - 1 \in 1..Len(stored)
    BY <1>1, <2>1
  <2>4. \A j \in 1..Len(stored) : stored'[j] = stored[j]
    BY <1>1, <2>1
  <2> QED BY <1>4, <2>2, <2>3, <2>4
<1>5. CASE rx_dma_state = "WAIT_SECOND2" /\ Store
  <2>1. Len(stored) = 2 * n + 1 /\ stored' = Append(stored, word)
    BY <1>1, <1>5 DEF Store
  <2>2. Len(Delivered') = n + 1
    <3>1. Len(Append(stored, word)) = 2 * n + 2 /\ Append(stored, word) \in Seq(StoredWord)
      <4>1. Len(Append(stored, word)) = Len(stored) + 1 /\ Append(stored, word) \in Seq(StoredWord)
        BY <1>1
      <4>2. n \in Nat
        BY <1>1
      <4> HIDE DEF n, word
      <4> QED BY <2>1, <4>1, <4>2
    <3> HIDE DEF n, word
    <3>2. Len(Pairs(Append(stored, word))) = n + 1
      BY <1>1, <3>1, PairsType, Half
    <3> QED BY <2>1, <3>2, DeliveredPairs
  <2>3. \A i \in 1..(n + 1) : 2 * i - 1 \in 1..Len(stored)
    BY <1>1, <2>1
  <2>4. \A j \in 1..Len(stored) : stored'[j] = stored[j]
    BY <1>1, <2>1
  <2>5. stored[Len(stored)].adr = rx_dma_current_addr
    BY <1>5 DEF RxInv, RxInHand
  <2>6. RxDmaWaitSecond2(ack)
    BY <1>5 DEF RxDmaStep, RxDmaIdle, RxDmaWrite, RxDmaWaitFirst, RxDmaWaitSecond, RxDmaDone
  <2>7. stored # Append(stored, word)
    <3>1. Len(Append(stored, word)) = Len(stored) + 1 /\ Len(stored) \in Nat
      BY <1>1
    <3> HIDE DEF word
    <3> QED BY <3>1
  <2>8. /\ rx_dma_current_addr' = rx_dma_current_addr + 8
        /\ rx_dma_remaining' = rx_dma_remaining - 1
        /\ rx_dma_state' = IF rx_dma_remaining = 1 THEN "DONE" ELSE "WRITE"
    BY <2>1, <2>6, <2>7 DEF RxDmaWaitSecond2
  <2>9. /\ 2 * (n + 1) - 1 = Len(stored) /\ n + 1 \in 1..(n + 1)
        /\ \A i \in 1..n : i \in 1..(n + 1)
    <3>1. n \in Nat
      BY <1>1
    <3> HIDE DEF n, word
    <3> QED BY <2>1, <3>1
  <2> HIDE DEF n
  <2> QED BY <1>5, <2>2, <2>3, <2>4, <2>5, <2>8, <2>9 DEF n
<1> QED BY <1>2, <1>3, <1>4, <1>5, RxStoreEdge

LEMMA DestWrittenStep ==
    ASSUME NoReset, RxInv, RxEdges, DestWritten, [Next]_vars
    PROVE  DestWritten'
<1> DEFINE n == Len(Delivered)
           Placed == \A i \in 1..Len(Delivered) : stored[2 * i - 1].adr = 8 * (i - 1)
<1>1. /\ n \in Nat /\ rx_length \in Nat /\ rx_dma_remaining \in Nat
      /\ rx_dma_current_addr \in Nat
  BY RxTakenType DEF RxInv, RxTypeOK
<1>2. CASE RxKeepSw /\ RxKeepWb
  <2>1. Delivered' = Delivered
    BY <1>2, DeliveredPairs DEF RxKeepWb, rxWbVars, rxDmaVars
  <2> QED BY <1>2, <2>1 DEF RxKeepSw, RxKeepWb, rxSwVars, rxWbVars, rxDmaVars, DestWritten
<1>3. ASSUME LinkSoftware, NEW ack \in BOOLEAN, RxDmaStep(ack)
      PROVE  DestWritten'
  <2>1. /\ rx_dest_addr' = 0 /\ "RX_RESET" \notin rx_control'
        /\ rx_length' = 0 => rx_control' = {}
        /\ rx_length # 0 => rx_length' = rx_length
    BY <1>1, <1>3 DEF LinkSoftware, DestWritten, NoReset
  <2>2. "RX_RESET" \notin rx_control /\ (rx_dma_state # "IDLE" => rx_length' = rx_length)
    BY <1>1, <2>1 DEF DestWritten
  <2>3. Placed'
    <3>1. CASE Len(Delivered') = n
      BY <1>3, <3>1, DestEdge DEF DestWritten
    <3>2. CASE /\ Len(Delivered') = n + 1 /\ rx_dma_state = "WAIT_SECOND2"
               /\ stored'[2 * (n + 1) - 1].adr = rx_dma_current_addr
      <4>1. stored'[2 * (n + 1) - 1].adr = 8 * (n + 1 - 1)
        BY <1>1, <3>2 DEF DestWritten
      <4>2. ASSUME NEW i \in 1..(n + 1) PROVE stored'[2 * i - 1].adr = 8 * (i - 1)
        <5>1. CASE i = n + 1
          BY <4>1, <5>1
        <5>2. CASE i \in 1..n
          BY <1>3, <5>2, DestEdge DEF DestWritten
        <5> QED BY <1>1, <5>1, <5>2
      <4> QED BY <3>2, <4>2
    <3> QED BY <1>3, <3>1, <3>2, DestEdge
  <2>4. CASE RxDmaIdle /\ ~RxDmaStart
    <3>1. rx_dma_state' = "IDLE" /\ stored' = <<>>
      BY <2>4 DEF RxDmaIdle, DestWritten
    <3> QED BY <2>1, <2>3, <3>1 DEF DestWritten
  <2>5. CASE RxDmaIdle /\ RxDmaStart
    <3>1. /\ rx_dma_state' = "WRITE" /\ rx_dma_current_addr' = 0
          /\ rx_dma_remaining' = rx_length /\ stored' = stored
      BY <2>5 DEF RxDmaIdle, DestWritten
    <3>2. rx_length # 0
      BY <2>5 DEF RxDmaStart, DestWritten
    <3>3. Len(Delivered') = 0
      <4>1. stored = <<>> /\ stored \in Seq(StoredWord) /\ Len(stored) = 0 /\ 0 \div 2 = 0
        BY <2>5 DEF RxDmaIdle, DestWritten
      <4> QED BY <3>1, <4>1, PairsType, DeliveredPairs
    <3> QED BY <1>1, <2>1, <2>3, <3>1, <3>2, <3>3 DEF DestWritten
  <2>6. ASSUME rx_dma_state # "IDLE", rx_dma_state' # "IDLE", rx_dma_state # "WAIT_SECOND2",
               UNCHANGED <<rx_dma_current_addr, rx_dma_remaining>>,
               rx_dma_state' = "DONE" => rx_dma_remaining = 0
        PROVE  DestWritten'
    <3>1. Len(Delivered') = n
      BY <1>3, <2>6, DestEdge
    <3> QED BY <2>1, <2>2, <2>3, <2>6, <3>1 DEF DestWritten
  <2>7. CASE RxDmaWrite
    BY <2>6, <2>7 DEF RxDmaWrite
  <2>8. CASE RxDmaWaitFirst
    BY <2>6, <2>8 DEF RxDmaWaitFirst
  <2>9. CASE RxDmaWaitSecond(ack)
    BY <2>6, <2>9 DEF RxDmaWaitSecond
  <2>10. CASE RxDmaDone
    BY <2>2, <2>6, <2>10 DEF RxDmaDone, DestWritten
  <2>11. CASE /\ rx_dma_state = "WAIT_SECOND2" /\ Len(Delivered') = n
              /\ UNCHANGED <<rx_dma_state, rx_dma_current_addr, rx_dma_remaining>>
    BY <2>1, <2>2, <2>3, <2>11 DEF DestWritten
  <2>12. CASE /\ rx_dma_state = "WAIT_SECOND2" /\ Len(Delivered') = n + 1
              /\ rx_dma_current_addr' = rx_dma_current_addr + 8
              /\ rx_dma_remaining' = rx_dma_remaining - 1
              /\ rx_dma_state' = IF rx_dma_remaining = 1 THEN "DONE" ELSE "WRITE"
    <3>1. /\ rx_dma_current_addr = 8 * n /\ rx_dma_remaining + n = rx_length /\ rx_length > 0
      BY <2>12 DEF DestWritten
    <3>2. /\ rx_dma_current_addr' = 8 * (n + 1) /\ rx_dma_remaining' + (n + 1) = rx_length
          /\ rx_dma_state' = "DONE" => rx_dma_remaining' = 0
      BY <1>1, <2>12, <3>1
    <3>3. rx_dma_state' # "IDLE"
      BY <2>12
    <3> QED BY <2>1, <2>2, <2>3, <2>12, <3>1, <3>2, <3>3 DEF DestWritten
  <2>13. CASE RxDmaWaitSecond2(ack)
    BY <1>3, <2>11, <2>12, <2>13, DestEdge DEF RxDmaWaitSecond2
  <2> QED BY <1>3, <2>4, <2>5, <2>7, <2>8, <2>9, <2>10, <2>13 DEF RxDmaStep
<1> QED BY <1>2, <1>3, LinkWbCases

LEMMA DoneIsDoneStep ==
    ASSUME RxInv, DestWritten, DoneIsDone, [Next]_vars
    PROVE  DoneIsDone'
<1>1. CASE RxKeepWb
  BY <1>1 DEF RxKeepWb, rxWbVars, rxDmaVars, rxFifoWbVars, DoneIsDone
<1>2. ASSUME NEW ack \in BOOLEAN, RxDmaStep(ack),
             rx_done_sync' = Shift(rx_done_sync, rx_dma_done)
      PROVE  DoneIsDone'
  <2>1. CASE rx_dma_state = "DONE"
    BY <1>2, <2>1 DEF RxDmaStep, RxDmaIdle, RxDmaWrite, RxDmaWaitFirst, RxDmaWaitSecond,
                      RxDmaWaitSecond2, RxDmaDone, DestWritten, DoneIsDone
  <2>2. CASE rx_dma_state # "DONE"
    <3>1. ~rx_dma_done /\ \A i \in 0..2 : ~rx_done_sync[i]
      BY <2>2 DEF DoneIsDone
    <3>2. \A i \in 0..2 : ~rx_done_sync'[i]
      <4>1. \A i \in 0..2 : i # 0 => i - 1 \in 0..2
        OBVIOUS
      <4> QED BY <1>2, <3>1, <4>1 DEF Shift
    <3>3. rx_dma_done' = FALSE \/ rx_dma_done' = rx_dma_done
      BY <1>2, <2>2 DEF RxDmaStep, RxDmaIdle, RxDmaWrite, RxDmaWaitFirst, RxDmaWaitSecond,
                        RxDmaWaitSecond2, RxDmaDone
    <3> QED BY <3>1, <3>2, <3>3 DEF DoneIsDone
  <2> QED BY <2>1, <2>2
<1> QED BY <1>1, <1>2, LinkWbCases

LEMMA LinkInitInv == Init => LinkInv
<1> SUFFICES ASSUME Init PROVE LinkInv
  OBVIOUS
<1>1. TxInit /\ RxInit /\ TxInv /\ RxInv /\ Wired
  BY LinkInit DEF Init
<1>2. SourceRead
  BY <1>1 DEF TxInit, TxInitWb, SourceRead
<1>3. DestWritten
  <2>1. Len(Delivered) = 0
    BY <1>1, DeliveredInit
  <2> QED BY <1>1, <2>1 DEF RxInit, RxInitWb, DestWritten
<1>4. DoneIsDone
  BY <1>1 DEF RxInit, RxInitWb, DoneIsDone, Low3
<1> QED BY <1>1, <1>2, <1>3, <1>4 DEF LinkInv

LEMMA LinkNextInv ==
    ASSUME NoReset, LinkInv, NoFlitLost, [Next]_vars
    PROVE  LinkInv'
<1>1. TxInv /\ RxInv /\ Wired /\ SourceRead /\ DestWritten /\ DoneIsDone
  BY DEF LinkInv
<1>2. RxEdges /\ TxInv' /\ RxInv'
  BY <1>1, HalvesStep
<1>3. Wired'
  BY <1>1, WiredStep
<1>4. SourceRead'
  BY <1>1, SourceReadStep
<1>5. DestWritten'
  BY <1>1, <1>2, DestWrittenStep
<1>6. DoneIsDone'
  BY <1>1, DoneIsDoneStep
<1> QED BY <1>2, <1>3, <1>4, <1>5, <1>6 DEF LinkInv

\* When done is seen nothing remains, and each word is where the source had it.
LEMMA DoneCopied == LinkInv => DoneMeansCopied
<1> SUFFICES ASSUME LinkInv, rx_done_sync[2] PROVE Copied
  BY DEF DoneMeansCopied
<1> DEFINE n == Len(Delivered)
<1>1. TxInv /\ RxInv /\ Joined /\ SourceRead /\ DestWritten /\ DoneIsDone
  BY DEF LinkInv, Joined
<1>2. rx_dma_state = "DONE" /\ rx_dma_remaining = 0
  BY <1>1 DEF DoneIsDone, DestWritten
<1>3. n \in Nat /\ rx_length = n
  BY <1>1, <1>2, RxTakenType DEF DestWritten, RxInv, RxTypeOK
<1>4. Len(stored) = 2 * n /\ stored \in Seq(StoredWord)
  BY <1>1, <1>2, <1>3, RxTakenType DEF RxInv, RxStored
<1>5. ASSUME NEW i \in 1..n
      PROVE  /\ 2 * i \in 1..Len(stored) /\ 2 * i - 1 \in 1..Len(stored)
             /\ stored[2 * i - 1] = [adr |-> 8 * (i - 1), dat |-> 8 * (i - 1)]
             /\ stored[2 * i] = [adr |-> 8 * (i - 1) + 4, dat |-> 8 * (i - 1) + 4]
  <2>1. 2 * i \in 1..Len(stored) /\ 2 * i - 1 \in 1..Len(stored)
    BY <1>3, <1>4
  <2>2. Delivered[i] = FlitAt(8 * (i - 1))
    <3>1. i \in 1..Len(sent) /\ Delivered[i] = sent[i]
      BY <1>1, <1>3, DeliveredSent
    <3> QED BY <1>1, <3>1 DEF SourceRead
  <2>3. Delivered[i] = [lo |-> stored[2 * i - 1].dat, hi |-> stored[2 * i].dat]
    <3>1. i \in 1..(Len(stored) \div 2)
      BY <1>3, <1>4, Half
    <3> QED BY <1>4, <3>1, PairsType, DeliveredPairs
  <2>4. /\ stored[2 * i - 1].dat = 8 * (i - 1)
        /\ stored[2 * i].dat = 8 * (i - 1) + 4
    <3>1. FlitAt(8 * (i - 1)).lo = 8 * (i - 1) /\ FlitAt(8 * (i - 1)).hi = 8 * (i - 1) + 4
      BY DEF FlitAt
    <3> QED BY <2>2, <2>3, <3>1
  <2>5. /\ stored[2 * i - 1].adr = 8 * (i - 1)
        /\ stored[2 * i].adr = 8 * (i - 1) + 4
    BY <1>1 DEF DestWritten, RxInv, RxStored
  <2>6. stored[2 * i - 1] \in StoredWord /\ stored[2 * i] \in StoredWord
    BY <1>4, <2>1
  <2> QED BY <2>1, <2>4, <2>5, <2>6 DEF StoredWord
<1>6. ASSUME NEW j \in 1..Len(stored)
      PROVE  stored[j] = [adr |-> 4 * (j - 1), dat |-> 4 * (j - 1)]
  <2>1. j \in 1..(2 * n) /\ j \in Nat
    BY <1>3, <1>4
  <2>2. \E i \in 1..n : j = 2 * i - 1 \/ j = 2 * i
    <3> HIDE DEF n
    <3>1. /\ (j + 1) \div 2 \in 1..n
          /\ j = 2 * ((j + 1) \div 2) - 1 \/ j = 2 * ((j + 1) \div 2)
      BY <1>3, <2>1
    <3> QED BY <3>1
  <2>3. PICK i \in 1..n : j = 2 * i - 1 \/ j = 2 * i
    BY <2>2
  <2>4. CASE j = 2 * i - 1
    <3>1. 4 * (j - 1) = 8 * (i - 1)
      BY <1>3, <2>4
    <3> QED BY <1>5, <2>4, <3>1
  <2>5. CASE j = 2 * i
    <3>1. 4 * (j - 1) = 8 * (i - 1) + 4
      BY <1>3, <2>5
    <3> QED BY <1>5, <2>5, <3>1
  <2> QED BY <2>3, <2>4, <2>5
<1>7. Len(stored) = 2 * rx_length
  BY <1>3, <1>4
<1> QED BY <1>6, <1>7 DEF Copied

-----------------------------------------------------------------------------
(* No flit is lost: what one edge of each clock does to the pacing          *)

\* What software may have written at an edge, now with the lengths.
PacedSoftware ==
    /\ \/ UNCHANGED <<tx_control, tx_length>>
       \/ tx_length = 0 /\ tx_length' \in TxLengths /\ tx_control' = tx_control
       \/ tx_length # 0 /\ tx_control' \in TxControls /\ tx_length' = tx_length
    /\ \/ UNCHANGED <<rx_control, rx_length>>
       \/ rx_length = 0 /\ rx_length' \in RxLengths /\ rx_control' = rx_control
       \/ rx_length # 0 /\ rx_control' \in RxControls /\ rx_length' = rx_length

\* A's engine, its FIFO's write side and its arbiter at a wb edge.
EngineEdge ==
    /\ TxFifoWrite
    /\ \E ack \in {FALSE, ArbA!BusStb(tx_wb_stb, FALSE)} :
          TxDmaStep(ArbA!tx_ack(ack)) /\ ArbA!ArbEdge(tx_wb_stb, FALSE, ack)

WbMove == PacedSoftware /\ EngineEdge
WbRest == /\ UNCHANGED <<tx_control, tx_length, rx_control, rx_length>>
          /\ TxKeepWb /\ UNCHANGED a_arb_state

\* The sender, its FIFO's read side and B's port at a d2d edge.
D2dMove(samples) ==
    /\ \E enable \in {TxEnabled, TxEnabled'}, s \in samples : TxD2dEdge(rx_ready, enable, s)
    /\ \E len \in {rx_length, rx_length'}, done \in {rx_done_sync[2], rx_done_sync[1]} :
          (tx_valid /\ PortTake(tx_data)) \/ PortWait(tx_valid, len, done)
    /\ \E start \in {RxStarted, RxStarted'}, enable \in {RxEnabled, RxEnabled'} :
          SyncControl(start, enable)
D2dRest == TxKeepD2d /\ RxKeepD2d

LEMMA PacedCases ==
    ASSUME LinkInv, [Next]_vars
    PROVE  \/ WbRest /\ D2dRest /\ wb_run' = wb_run
           \/ WbMove /\ D2dRest /\ wb_run < MaxWb /\ wb_run' = wb_run + 1
           \/ WbRest /\ D2dMove({tx_fifo_wr_ptr_gray}) /\ wb_run' = 0
           \/ WbMove /\ D2dMove(WriteSamples) /\ wb_run' = 1
<1>1. ASSUME NEW txSample, NEW rxSample, WbEdge(txSample, rxSample)
      PROVE  WbMove
  <2>1. (SetUpA \/ TxKeepSw) /\ (SetUpB \/ RxKeepSw)
    BY <1>1 DEF WbEdge, Software
  <2>2. PacedSoftware
    <3>1. \/ UNCHANGED <<tx_control, tx_length>>
          \/ tx_length = 0 /\ tx_length' \in TxLengths /\ tx_control' = tx_control
          \/ tx_length # 0 /\ tx_control' \in TxControls /\ tx_length' = tx_length
      BY <2>1 DEF SetUpA, TxKeepSw, txSwVars
    <3>2. \/ UNCHANGED <<rx_control, rx_length>>
          \/ rx_length = 0 /\ rx_length' \in RxLengths /\ rx_control' = rx_control
          \/ rx_length # 0 /\ rx_control' \in RxControls /\ rx_length' = rx_length
      BY <2>1 DEF SetUpB, RxKeepSw, rxSwVars
    <3> QED BY <3>1, <3>2 DEF PacedSoftware
  <2>3. PICK ack \in {FALSE, ArbA!BusStb(tx_wb_stb, FALSE)} :
            TxWbEdge(ArbA!tx_ack(ack), txSample) /\ ArbA!ArbEdge(tx_wb_stb, FALSE, ack)
    BY <1>1 DEF WbEdge
  <2> QED BY <2>2, <2>3 DEF WbMove, EngineEdge, TxWbEdge
<1>2. CASE WbTick
  BY <1>1, <1>2 DEF WbTick, D2dRest
<1>3. CASE D2dTick
  <2>1. WbRest /\ wb_run' = 0
    BY <1>3 DEF D2dTick, WbRest, TxKeepSw, txSwVars, RxKeepSw, rxSwVars, arbVars
  <2>2. TxD2dEdge(rx_ready, TxEnabled, tx_fifo_wr_ptr_gray)
    BY <1>3 DEF D2dTick
  <2>3. /\ (tx_valid /\ PortTake(tx_data)) \/ PortWait(tx_valid, rx_length, rx_done_sync[2])
        /\ SyncControl(RxStarted, RxEnabled)
    BY <1>3 DEF D2dTick, RxD2dEdge
  <2>4. D2dMove({tx_fifo_wr_ptr_gray})
    BY <2>2, <2>3 DEF D2dMove
  <2> QED BY <2>1, <2>4
<1>4. CASE BothTick
  <2>1. WbMove /\ wb_run' = 1
    BY <1>1, <1>4 DEF BothTick
  <2>2. PICK enable \in {TxEnabled, TxEnabled'},
             s \in Mix(tx_fifo_wr_ptr_gray, ToGray[tx_fifo_wr_ptr]) :
             TxD2dEdge(rx_ready, enable, s)
    BY <1>4 DEF BothTick
  <2>3. s \in WriteSamples
    BY MixStep DEF WriteSamples, LinkInv, TxInv, TxTypeOK, OneStep
  <2>4. PICK len \in {rx_length, rx_length'}, done \in {rx_done_sync[2], rx_done_sync[1]},
             start \in {RxStarted, RxStarted'}, en \in {RxEnabled, RxEnabled'},
             t \in Mix(rx_fifo_rd_ptr_wb_gray, ToGray[rx_fifo_rd_ptr_wb]) :
             RxD2dEdge(tx_valid, tx_data, len, done, start, en, t)
    BY <1>4 DEF BothTick
  <2>5. /\ (tx_valid /\ PortTake(tx_data)) \/ PortWait(tx_valid, len, done)
        /\ SyncControl(start, en)
    BY <2>4 DEF RxD2dEdge
  <2>6. D2dMove(WriteSamples)
    BY <2>2, <2>3, <2>5 DEF D2dMove
  <2> QED BY <2>1, <2>6
<1>5. CASE UNCHANGED vars
  BY <1>5 DEF vars, txVars, rxVars, arbVars, txSwVars, rxSwVars, WbRest, D2dRest,
              TxKeepWb, TxKeepD2d, RxKeepD2d
<1> QED BY <1>2, <1>3, <1>4, <1>5 DEF Next

-----------------------------------------------------------------------------
(* wb_clk                                                                   *)

\* The arbiter, with one engine on its bus: it grants what is asked, for one access.
LEMMA GrantEdge ==
    ASSUME Strobing, NEW ack \in {FALSE, ArbA!BusStb(tx_wb_stb, FALSE)},
           ArbA!ArbEdge(tx_wb_stb, FALSE, ack)
    PROVE  /\ ack \in BOOLEAN /\ (ArbA!tx_ack(ack) <=> ack)
           /\ ack => Granted /\ tx_wb_stb
           /\ a_arb_state' \in {"IDLE", "GRANT_TX"}
           /\ Granted' <=> tx_wb_stb /\ ~ack
<1>0. tx_wb_stb \in BOOLEAN
  BY DEF tx_wb_stb
<1> DEFINE stb == tx_wb_stb
<1> HIDE DEF stb
<1>1. /\ ack \in BOOLEAN /\ (ack => Granted /\ stb)
  BY <1>0 DEF ArbA!BusStb, Granted, Strobing, stb
<1>2. ArbA!tx_ack(ack) <=> ack
  BY <1>1 DEF ArbA!tx_ack, Granted
<1>3. stb \in BOOLEAN /\ (Granted => stb) /\ a_arb_state \in {"IDLE", "GRANT_TX"}
  BY <1>0 DEF Strobing, stb
<1>4. ArbA!ArbEdge(stb, FALSE, ack)
  BY DEF stb
<1>5. CASE a_arb_state = "IDLE"
  <2>1. ~ack /\ ArbA!ArbIdle(stb, FALSE)
    BY <1>1, <1>4, <1>5 DEF Granted, ArbA!ArbEdge, ArbA!ArbGrant
  <2> QED BY <1>1, <1>2, <1>3, <1>5, <2>1 DEF ArbA!ArbIdle, ArbA!GrantTx, ArbA!GrantRx,
                                              Granted, stb
<1>6. CASE a_arb_state = "GRANT_TX"
  <2>1. ArbA!ArbGrant(ack)
    BY <1>4, <1>6 DEF ArbA!ArbEdge, ArbA!ArbIdle
  <2> QED BY <1>1, <1>2, <1>3, <1>6, <2>1 DEF ArbA!ArbGrant, Granted, stb
<1> QED BY <1>3, <1>5, <1>6

\* The engine's way through its states, with the grants.
LEMMA EngineWay ==
    ASSUME LinkInv, Strobing, EngineEdge
    PROVE  /\ a_arb_state' \in {"IDLE", "GRANT_TX"} /\ (Granted' => tx_wb_stb')
           /\ tx_fifo_wr_en' \in BOOLEAN
           /\ CASE tx_dma_state = "IDLE" ->
                     tx_dma_state' \in {"IDLE", "FETCH"} /\ ~tx_fifo_wr_en' /\ ~Granted'
                [] tx_dma_state = "FETCH" ->
                     /\ tx_dma_state' \in {"FETCH", "WAIT", "DONE"}
                     /\ ~tx_fifo_wr_en' /\ ~Granted'
                [] tx_dma_state = "WAIT" ->
                     /\ \/ tx_dma_state' = "WAIT"
                        \/ tx_dma_state' = "WAIT2" /\ Granted /\ ~Granted'
                     /\ ~tx_fifo_wr_en'
                [] tx_dma_state = "WAIT2" ->
                     \/ tx_dma_state' = "WAIT2" /\ ~tx_fifo_wr_en' /\ Granted'
                     \/ tx_dma_state' = "WAIT3" /\ ~tx_fifo_wr_en' /\ Granted
                     \/ tx_dma_state' \in {"FETCH", "DONE"} /\ tx_fifo_wr_en' /\ Granted
                [] tx_dma_state = "WAIT3" ->
                     \/ tx_dma_state' = "WAIT3" /\ ~tx_fifo_wr_en'
                     \/ tx_dma_state' \in {"FETCH", "DONE"} /\ tx_fifo_wr_en'
                [] tx_dma_state = "DONE" ->
                     tx_dma_state' = "DONE" /\ ~tx_fifo_wr_en' /\ ~Granted'
<1>1. PICK ack \in {FALSE, ArbA!BusStb(tx_wb_stb, FALSE)} :
          TxDmaStep(ArbA!tx_ack(ack)) /\ ArbA!ArbEdge(tx_wb_stb, FALSE, ack)
  BY DEF EngineEdge
<1> DEFINE k == ArbA!tx_ack(ack)
<1>2. /\ k \in BOOLEAN /\ (k => Granted /\ tx_wb_stb)
      /\ a_arb_state' \in {"IDLE", "GRANT_TX"}
      /\ Granted' <=> tx_wb_stb /\ ~k
  BY <1>1, GrantEdge DEF ArbA!tx_ack
<1>3. TxDmaStep(k)
  BY <1>1
<1> HIDE DEF k
<1>4. tx_dma_state \in TxDmaStates /\ "TX_RESET" \notin tx_control
  BY DEF LinkInv, TxInv, TxTypeOK, SourceRead
<1>5. CASE TxDmaIdle
  BY <1>2, <1>5 DEF TxDmaIdle, tx_wb_stb
<1>6. CASE TxDmaFetch
  BY <1>2, <1>6 DEF TxDmaFetch, tx_wb_stb
<1>7. CASE TxDmaWait(k)
  BY <1>2, <1>7 DEF TxDmaWait, tx_wb_stb
<1>8. CASE TxDmaWait2(k)
  <2>1. CASE ~k
    BY <1>2, <1>8, <2>1 DEF TxDmaWait2, HoldFlit, tx_wb_stb
  <2>2. CASE k /\ StrobeFlit
    BY <1>2, <1>8, <2>2 DEF TxDmaWait2, StrobeFlit, tx_wb_stb
  <2>3. CASE k /\ HoldFlit /\ tx_dma_state' = "WAIT3"
    BY <1>2, <1>8, <2>3 DEF TxDmaWait2, HoldFlit, tx_wb_stb
  <2> QED BY <1>2, <1>8, <2>1, <2>2, <2>3 DEF TxDmaWait2
<1>9. CASE TxDmaWait3
  <2>1. ~Granted'
    BY <1>2, <1>9 DEF TxDmaWait3, tx_wb_stb
  <2>2. CASE StrobeFlit
    BY <1>2, <1>9, <2>1, <2>2 DEF TxDmaWait3, StrobeFlit, tx_wb_stb
  <2>3. CASE HoldFlit /\ UNCHANGED tx_dma_state
    BY <1>2, <1>9, <2>1, <2>3 DEF TxDmaWait3, HoldFlit, tx_wb_stb
  <2> QED BY <1>9, <2>2, <2>3 DEF TxDmaWait3
<1>10. CASE TxDmaDone
  BY <1>2, <1>4, <1>10 DEF TxDmaDone, tx_wb_stb
<1> QED BY <1>3, <1>5, <1>6, <1>7, <1>8, <1>9, <1>10 DEF TxDmaStep

\* The write pointer moves with a strobe, its Gray word one edge later.
LEMMA WriteEdge ==
    ASSUME LinkInv, TxFifoWrite
    PROVE  /\ tx_fifo_wr_ptr' = IF tx_fifo_wr_en THEN Next1(tx_fifo_wr_ptr) ELSE tx_fifo_wr_ptr
           /\ tx_fifo_wr_ptr_gray' = ToGray[tx_fifo_wr_ptr]
           /\ tx_fifo_wr_ptr_gray' # ToGray[tx_fifo_wr_ptr'] <=> tx_fifo_wr_en
<1>1. tx_fifo_wr_ptr \in Ptr /\ tx_fifo_wr_en \in BOOLEAN
  BY DEF LinkInv, TxInv, TxTypeOK
<1>2. tx_fifo_wr_en => ~tx_fifo_full
  BY PtrType DEF LinkInv, TxInv, TxTypeOK, Room, tx_fifo_full
<1>3. tx_fifo_wr_ptr' = IF tx_fifo_wr_en THEN Next1(tx_fifo_wr_ptr) ELSE tx_fifo_wr_ptr
  BY <1>1, <1>2 DEF TxFifoWrite
<1>4. tx_fifo_wr_ptr_gray' = ToGray[tx_fifo_wr_ptr]
  BY DEF TxFifoWrite
<1>5. /\ Next1(tx_fifo_wr_ptr) \in Ptr /\ Next1(tx_fifo_wr_ptr) # tx_fifo_wr_ptr
      /\ ToGray[Next1(tx_fifo_wr_ptr)] # ToGray[tx_fifo_wr_ptr]
  BY <1>1, Next1Type, WordType
<1> QED BY <1>1, <1>3, <1>4, <1>5

LEMMA StrobingStep ==
    ASSUME LinkInv, Strobing, EngineEdge
    PROVE  Strobing'
<1>1. /\ tx_fifo_wr_ptr' = IF tx_fifo_wr_en THEN Next1(tx_fifo_wr_ptr) ELSE tx_fifo_wr_ptr
      /\ tx_fifo_wr_ptr_gray' = ToGray[tx_fifo_wr_ptr]
      /\ tx_fifo_wr_ptr_gray' # ToGray[tx_fifo_wr_ptr'] <=> tx_fifo_wr_en
  BY WriteEdge DEF EngineEdge
<1>2. tx_dma_state \in TxDmaStates /\ tx_fifo_wr_en \in BOOLEAN
  BY DEF LinkInv, TxInv, TxTypeOK
<1>3. a_arb_state' \in {"IDLE", "GRANT_TX"} /\ (Granted' => tx_wb_stb')
  BY EngineWay
<1>4. tx_fifo_wr_en' => tx_dma_state' \in {"FETCH", "DONE"}
  BY <1>2, EngineWay DEF TxDmaStates
<1>5. ASSUME tx_fifo_wr_en
      PROVE  ~tx_fifo_wr_en' /\ ~Granted' /\ tx_dma_state' \in {"FETCH", "WAIT", "DONE"}
  <2>1. tx_dma_state \in {"FETCH", "DONE"}
    BY <1>5 DEF Strobing
  <2> QED BY <2>1, EngineWay
<1>6. ASSUME tx_dma_state' = "IDLE"
      PROVE  /\ tx_fifo_wr_ptr' = 0 /\ tx_fifo_wr_ptr_gray' = ToGray[0]
             /\ ~tx_fifo_wr_en'
  <2>1. tx_dma_state = "IDLE" /\ ~tx_fifo_wr_en'
    BY <1>2, <1>6, EngineWay DEF TxDmaStates
  <2> QED BY <1>1, <2>1 DEF Strobing
<1> QED BY <1>1, <1>3, <1>4, <1>5, <1>6 DEF Strobing

\* A wb edge brings the next change of the Gray word nearer by one, or is that change;
\* then five edges at the least are left to the one after it.
UntilMove ==
    \/ /\ Until > 1 /\ tx_fifo_wr_ptr_gray = ToGray[tx_fifo_wr_ptr]
       /\ tx_fifo_wr_ptr_gray' = tx_fifo_wr_ptr_gray /\ Until' >= Until - 1
    \/ /\ Until = 1 /\ tx_fifo_wr_ptr_gray' = ToGray[tx_fifo_wr_ptr]
       /\ tx_fifo_wr_ptr_gray' # tx_fifo_wr_ptr_gray
       /\ FromGray[tx_fifo_wr_ptr_gray'] = Next1(FromGray[tx_fifo_wr_ptr_gray])
       /\ Until' = 5

LEMMA UntilType == Until \in 1..5
BY DEF Until

LEMMA UntilStep ==
    ASSUME LinkInv, Strobing, EngineEdge
    PROVE  UntilMove
<1> DEFINE moving == tx_fifo_wr_ptr_gray # ToGray[tx_fifo_wr_ptr]
<1>1. /\ tx_fifo_wr_ptr_gray' = ToGray[tx_fifo_wr_ptr]
      /\ moving' <=> tx_fifo_wr_en
  BY WriteEdge DEF EngineEdge
<1>2. tx_dma_state \in TxDmaStates /\ tx_fifo_wr_en \in BOOLEAN
  BY DEF LinkInv, TxInv, TxTypeOK
<1>3. Until' = IF tx_fifo_wr_en THEN 1
               ELSE IF tx_fifo_wr_en' THEN 2
               ELSE IF tx_dma_state' = "WAIT3" \/ (tx_dma_state' = "WAIT2" /\ Granted') THEN 3
               ELSE IF tx_dma_state' = "WAIT2" THEN 4
               ELSE 5
  BY <1>1 DEF Until
<1>4. CASE moving
  <2>1. ~tx_fifo_wr_en /\ ~Granted /\ tx_dma_state \in {"FETCH", "WAIT", "DONE"}
    BY <1>4 DEF Strobing
  <2>2. ~tx_fifo_wr_en' /\ tx_dma_state' \in {"FETCH", "WAIT", "DONE"}
    BY <2>1, EngineWay
  <2>3. Until = 1 /\ Until' = 5
    BY <1>3, <1>4, <2>1, <2>2 DEF Until
  <2>4. FromGray[ToGray[tx_fifo_wr_ptr]] = Next1(FromGray[tx_fifo_wr_ptr_gray])
    <3>1. /\ tx_fifo_wr_ptr \in Ptr /\ tx_fifo_wr_ptr_gray \in Word
          /\ tx_fifo_wr_ptr \in {FromGray[tx_fifo_wr_ptr_gray],
                                 Next1(FromGray[tx_fifo_wr_ptr_gray])}
      BY DEF LinkInv, TxInv, TxTypeOK, OneStep
    <3> QED BY <1>4, <3>1, WordType
  <2> QED BY <1>1, <1>4, <2>3, <2>4 DEF UntilMove
<1>5. CASE ~moving
  <2>1. Until > 1
    BY <1>5 DEF Until
  <2>2. Until' >= Until - 1
    <3>1. CASE tx_fifo_wr_en
      BY <1>3, <1>5, <3>1 DEF Until
    <3>2. CASE ~tx_fifo_wr_en /\ tx_dma_state = "WAIT3"
      <4>1. tx_fifo_wr_en' \/ tx_dma_state' = "WAIT3"
        BY <3>2, EngineWay
      <4> QED BY <1>3, <1>5, <3>2, <4>1 DEF Until
    <3>3. CASE ~tx_fifo_wr_en /\ tx_dma_state = "WAIT2"
      <4>1. \/ tx_dma_state' = "WAIT2" /\ ~tx_fifo_wr_en' /\ Granted'
            \/ tx_dma_state' = "WAIT3" /\ ~tx_fifo_wr_en' /\ Granted
            \/ tx_fifo_wr_en' /\ Granted
        BY <3>3, EngineWay
      <4> QED BY <1>3, <1>5, <3>3, <4>1 DEF Until
    <3>4. CASE ~tx_fifo_wr_en /\ tx_dma_state \notin {"WAIT2", "WAIT3"}
      <4>1. ~tx_fifo_wr_en'
        BY <1>2, <3>4, EngineWay DEF TxDmaStates
      <4>2. \/ tx_dma_state' \notin {"WAIT2", "WAIT3"}
            \/ tx_dma_state' = "WAIT2" /\ ~Granted'
        BY <1>2, <3>4, EngineWay DEF TxDmaStates
      <4> QED BY <1>3, <1>5, <3>4, <4>1, <4>2 DEF Until
    <3> QED BY <1>2, <3>1, <3>2, <3>3, <3>4
  <2> QED BY <1>1, <1>5, <2>1, <2>2 DEF UntilMove
<1> QED BY <1>4, <1>5

\* What an edge of the d2d clock alone leaves of this.
LEMMA WbRestKeeps ==
    ASSUME WbRest
    PROVE  /\ Strobing => Strobing'
           /\ Until' = Until /\ tx_fifo_wr_ptr_gray' = tx_fifo_wr_ptr_gray
           /\ sent' = sent /\ tx_dma_state' = tx_dma_state
           /\ tx_dma_remaining' = tx_dma_remaining
<1>1. /\ UNCHANGED <<tx_fifo_wr_ptr, tx_fifo_wr_ptr_gray, tx_fifo_wr_en, tx_dma_state>>
      /\ UNCHANGED <<sent, tx_dma_remaining, a_arb_state>>
  BY DEF WbRest, TxKeepWb, txWbVars, txDmaVars, txFifoWbVars
<1> QED BY <1>1 DEF Strobing, Until, Granted, tx_wb_stb

-----------------------------------------------------------------------------
(* Control                                                                  *)

\* The control bits that are set stay set, and so do the lengths.
LEMMA ControlStays ==
    ASSUME Programs, Budget, StaysUp, DestWritten, WbMove \/ WbRest
    PROVE  /\ TxEnabled => TxEnabled'
           /\ RxStarted => RxStarted' /\ rx_length' = rx_length
           /\ RxEnabled => RxEnabled'
           /\ tx_control' # {} => TxEnabled'
           /\ rx_control' # {} => RxStarted' /\ RxEnabled'
           /\ tx_length' \in TxLengths \cup {0} /\ rx_length' \in RxLengths \cup {0}
           /\ tx_length' = 0 => tx_control' = {}
           /\ tx_control # {} => tx_control' # {} /\ tx_length' = tx_length
<1> USE DEF TxEnabled, RxStarted, RxEnabled
<1>1. CASE WbRest
  BY <1>1 DEF WbRest, Budget, StaysUp, DestWritten
<1>2. CASE PacedSoftware
  <2>1. /\ TxEnabled => TxEnabled'
        /\ tx_control' # {} => TxEnabled'
        /\ tx_length' \in TxLengths \cup {0}
        /\ tx_length' = 0 => tx_control' = {}
        /\ tx_control # {} => tx_control' # {} /\ tx_length' = tx_length
    BY <1>2 DEF PacedSoftware, Programs, Budget, StaysUp
  <2>2. /\ RxStarted => RxStarted' /\ rx_length' = rx_length
        /\ RxEnabled => RxEnabled'
        /\ rx_control' # {} => RxStarted' /\ RxEnabled'
        /\ rx_length' \in RxLengths \cup {0}
    BY <1>2 DEF PacedSoftware, Programs, Budget, StaysUp, DestWritten
  <2> QED BY <2>1, <2>2
<1> QED BY <1>1, <1>2 DEF WbMove

\* What a synchroniser shows after an edge.
LEMMA ShiftUp ==
    ASSUME NEW sync, NEW in
    PROVE  /\ Shift(sync, in)[0] = in /\ Shift(sync, in)[1] = sync[0]
           /\ Shift(sync, in)[2] = sync[1]
BY DEF Shift

LEMMA AnySyncCases ==
    /\ AnySync(0) <=> AnySync(1) \/ tx_enable_sync[0] \/ rx_enable_sync[0]
    /\ AnySync(1) <=> \/ tx_enable_sync[1] \/ rx_enable_sync[1]
                      \/ tx_enable_sync[2] \/ rx_enable_sync[2]
<1>1. \A j \in 0..2 : j = 0 \/ j \in 1..2
  OBVIOUS
<1>2. \A j \in 1..2 : j = 1 \/ j = 2
  OBVIOUS
<1>3. 0 \in 0..2 /\ 1 \in 1..2 /\ 2 \in 1..2 /\ \A j \in 1..2 : j \in 0..2
  OBVIOUS
<1> QED BY <1>1, <1>2, <1>3 DEF AnySync

\* The synchronisers after a d2d edge.
LEMMA SyncEdge ==
    ASSUME NEW samples, D2dMove(samples)
    PROVE  /\ tx_enable_sync'[0] \in {TxEnabled, TxEnabled'}
           /\ rx_start_sync'[0] \in {RxStarted, RxStarted'}
           /\ rx_enable_sync'[0] \in {RxEnabled, RxEnabled'}
           /\ \A i \in 0..1 : /\ tx_enable_sync'[i + 1] = tx_enable_sync[i]
                              /\ rx_start_sync'[i + 1] = rx_start_sync[i]
                              /\ rx_enable_sync'[i + 1] = rx_enable_sync[i]
<1>1. PICK on \in {TxEnabled, TxEnabled'} : tx_enable_sync' = Shift(tx_enable_sync, on)
  BY DEF D2dMove, TxD2dEdge, SyncEnable
<1>2. PICK start \in {RxStarted, RxStarted'}, enable \in {RxEnabled, RxEnabled'} :
          /\ rx_start_sync' = Shift(rx_start_sync, start)
          /\ rx_enable_sync' = Shift(rx_enable_sync, enable)
  BY DEF D2dMove, SyncControl
<1>3. \A i \in 0..1 : i = 0 \/ i = 1
  OBVIOUS
<1>4. 0 + 1 = 1 /\ 1 + 1 = 2
  OBVIOUS
<1> QED BY <1>1, <1>2, <1>3, <1>4, ShiftUp

\* Ready comes up only behind the synchronised control bits.
LEMMA ReadyEnabled ==
    ASSUME ReadyMeansRoom, RxTypeOK, NEW samples, D2dMove(samples), rx_ready'
    PROVE  rx_enable_sync[2] /\ rx_start_sync[2] /\ ~(tx_valid /\ rx_ready)
<1>1. PICK len \in {rx_length, rx_length'}, done \in {rx_done_sync[2], rx_done_sync[1]} :
          (tx_valid /\ PortTake(tx_data)) \/ PortWait(tx_valid, len, done)
  BY DEF D2dMove
<1>2. ~PortTake(tx_data)
  <2> SUFFICES ASSUME PortTake(tx_data) PROVE FALSE
    OBVIOUS
  <2>1. rx_ready /\ rx_ready' = (rx_fifo_count >= LastEntry)
    BY DEF PortTake
  <2>2. rx_fifo_count # LastEntry /\ rx_fifo_count \in Ptr
    BY <2>1 DEF ReadyMeansRoom, rx_fifo_full, RxTypeOK
  <2>3. ~(rx_fifo_count >= LastEntry)
    BY <2>2, PtrType
  <2> QED BY <2>1, <2>3
<1> QED BY <1>1, <1>2 DEF PortWait, SideReady

LEMMA StaysUpStep ==
    ASSUME Programs, LinkInv, Budget, StaysUp, WbMove \/ WbRest,
           D2dRest \/ \E samples : D2dMove(samples)
    PROVE  StaysUp'
<1>0. DestWritten /\ ReadyMeansRoom /\ RxTypeOK
  BY DEF LinkInv, RxInv
<1>1. /\ TxEnabled => TxEnabled'
      /\ RxStarted => RxStarted'
      /\ RxEnabled => RxEnabled'
      /\ tx_control' # {} => TxEnabled'
      /\ rx_control' # {} => RxStarted' /\ RxEnabled'
  BY <1>0, ControlStays
<1>2. CASE D2dRest
  BY <1>1, <1>2 DEF D2dRest, TxKeepD2d, txD2dVars, txFifoD2dVars, RxKeepD2d, rxD2dVars,
                    rxPortVars, StaysUp
<1>3. ASSUME NEW samples, D2dMove(samples) PROVE StaysUp'
  <2>1. /\ tx_enable_sync'[0] \in {TxEnabled, TxEnabled'}
        /\ rx_start_sync'[0] \in {RxStarted, RxStarted'}
        /\ rx_enable_sync'[0] \in {RxEnabled, RxEnabled'}
        /\ \A i \in 0..1 : /\ tx_enable_sync'[i + 1] = tx_enable_sync[i]
                           /\ rx_start_sync'[i + 1] = rx_start_sync[i]
                           /\ rx_enable_sync'[i + 1] = rx_enable_sync[i]
    BY <1>3, SyncEdge
  <2>2. /\ tx_enable_sync'[0] => TxEnabled'
        /\ rx_start_sync'[0] => RxStarted'
        /\ rx_enable_sync'[0] => RxEnabled'
    BY <1>1, <2>1
  <2>3. ASSUME NEW i \in 0..1
        PROVE  /\ tx_enable_sync'[i + 1] => tx_enable_sync'[i]
               /\ rx_start_sync'[i + 1] => rx_start_sync'[i]
               /\ rx_enable_sync'[i + 1] => rx_enable_sync'[i]
    <3>1. CASE i = 0
      <4>1. /\ tx_enable_sync[0] => TxEnabled
            /\ rx_start_sync[0] => RxStarted
            /\ rx_enable_sync[0] => RxEnabled
        BY DEF StaysUp
      <4>2. /\ tx_enable_sync[0] => tx_enable_sync'[0]
            /\ rx_start_sync[0] => rx_start_sync'[0]
            /\ rx_enable_sync[0] => rx_enable_sync'[0]
        BY <1>1, <2>1, <4>1
      <4> QED BY <2>1, <3>1, <4>2
    <3>2. CASE i = 1
      <4>1. 0 \in 0..1 /\ 1 \in 0..1 /\ 0 + 1 = 1
        OBVIOUS
      <4>2. /\ tx_enable_sync[1] => tx_enable_sync[0]
            /\ rx_start_sync[1] => rx_start_sync[0]
            /\ rx_enable_sync[1] => rx_enable_sync[0]
        BY <4>1 DEF StaysUp
      <4> QED BY <2>1, <3>2, <4>1, <4>2
    <3> QED BY <3>1, <3>2
  <2>4. rx_ready' => rx_start_sync'[2] /\ rx_enable_sync'[2]
    <3>1. rx_ready' => rx_enable_sync[2] /\ rx_start_sync[2]
      BY <1>0, <1>3, ReadyEnabled
    <3>2. (rx_enable_sync[2] => rx_enable_sync[1]) /\ (rx_start_sync[2] => rx_start_sync[1])
      <4>1. 1 \in 0..1 /\ 1 + 1 = 2
        OBVIOUS
      <4> QED BY <4>1 DEF StaysUp
    <3>3. rx_enable_sync'[2] = rx_enable_sync[1] /\ rx_start_sync'[2] = rx_start_sync[1]
      <4>1. 1 \in 0..1 /\ 1 + 1 = 2
        OBVIOUS
      <4> QED BY <2>1, <4>1
    <3> QED BY <3>1, <3>2, <3>3
  <2> QED BY <1>1, <2>2, <2>3, <2>4 DEF StaysUp
<1> QED BY <1>2, <1>3

\* A flit taken up is one fewer to take up.
LEMMA BudgetStep ==
    ASSUME Programs, LinkInv, Budget, StaysUp, WbMove \/ WbRest
    PROVE  Budget'
<1>0. DestWritten /\ SourceRead
  BY DEF LinkInv
<1>1. /\ tx_length' \in TxLengths \cup {0} /\ rx_length' \in RxLengths \cup {0}
      /\ tx_length' = 0 => tx_control' = {}
      /\ tx_control # {} => tx_control' # {} /\ tx_length' = tx_length
  BY <1>0, ControlStays
<1>2. CASE WbRest
  BY <1>1, <1>2, WbRestKeeps DEF Budget
<1>3. CASE EngineEdge
  <2>1. PICK k : k \in BOOLEAN /\ TxDmaStep(k)
    <3>1. PICK ack \in {FALSE, ArbA!BusStb(tx_wb_stb, FALSE)} : TxDmaStep(ArbA!tx_ack(ack))
      BY <1>3 DEF EngineEdge
    <3>2. ArbA!tx_ack(ack) \in BOOLEAN
      BY DEF ArbA!tx_ack
    <3> QED BY <3>1, <3>2
  <2>2. /\ sent \in Seq(Flit) /\ Len(sent) \in Nat /\ tx_dma_remaining \in Nat
        /\ tx_length \in Nat /\ tx_dma_state \in TxDmaStates
        /\ FlitAt(tx_dma_current_addr) \in Flit
    BY FlitAtType DEF LinkInv, TxInv, TxTypeOK
  <2>3. CASE TxDmaIdle
    <3>1. CASE ~TxDmaStart
      BY <1>1, <2>3, <3>1 DEF TxDmaIdle, Budget
    <3>2. CASE TxDmaStart
      <4>1. sent' = <<>> /\ Len(sent') = 0 /\ tx_dma_remaining' = tx_length
        BY <1>0, <2>3, <3>2 DEF TxDmaIdle, SourceRead
      <4>2. tx_control # {}
        BY <3>2 DEF TxDmaStart
      <4> QED BY <1>1, <2>2, <4>1, <4>2 DEF Budget
    <3> QED BY <3>1, <3>2
  <2>4. CASE tx_dma_state # "IDLE" /\ StrobeFlit /\ tx_dma_remaining > 0
    <3>1. Len(sent') = Len(sent) + 1 /\ tx_dma_remaining' = tx_dma_remaining - 1
      BY <2>2, <2>4 DEF StrobeFlit
    <3> QED BY <1>1, <2>2, <2>4, <3>1 DEF Budget
  <2>5. CASE tx_dma_state # "IDLE" /\ UNCHANGED <<sent, tx_dma_remaining>>
    BY <1>1, <2>5 DEF Budget
  <2>6. CASE TxDmaFetch \/ TxDmaWait(k) \/ TxDmaDone
    BY <2>5, <2>6 DEF TxDmaFetch, TxDmaWait, TxDmaDone
  <2>7. CASE TxDmaWait2(k)
    BY <2>4, <2>5, <2>7 DEF TxDmaWait2, HoldFlit, LinkInv, TxInv, Room
  <2>8. CASE TxDmaWait3
    BY <2>4, <2>5, <2>8 DEF TxDmaWait3, HoldFlit, LinkInv, TxInv, Room
  <2> QED BY <2>1, <2>3, <2>6, <2>7, <2>8 DEF TxDmaStep
<1> QED BY <1>2, <1>3 DEF WbMove

-----------------------------------------------------------------------------
(* The write pointer's way                                                  *)

Rate == MaxWb \in 1..2

\* What the sender's side has after a d2d edge.
LEMMA ReadEdge ==
    ASSUME NEW samples, D2dMove(samples)
    PROVE  /\ tx_fifo_wr_ptr_gray_sync' \in samples
           /\ wr_ptr_bin' = FromGray[tx_fifo_wr_ptr_gray_sync]
           /\ tx_fifo_count_d2d' = Dist(wr_ptr_bin, tx_fifo_rd_ptr_d2d')
           /\ SendStep(rx_ready)
<1>1. PICK enable \in {TxEnabled, TxEnabled'}, s \in samples : TxD2dEdge(rx_ready, enable, s)
  BY DEF D2dMove
<1> QED BY <1>1 DEF TxD2dEdge, TxFifoRead

LEMMA RestKeeps ==
    ASSUME D2dRest
    PROVE  /\ UNCHANGED <<tx_enable_sync, rx_enable_sync, tx_fifo_wr_ptr_gray_sync, wr_ptr_bin,
                          tx_fifo_count_d2d, tx_fifo_rd_ptr_d2d>>
           /\ UNCHANGED <<tx_d2d_state, n_tx_d2d_state, tx_valid, rx_ready>>
           /\ AnySync(0)' = AnySync(0) /\ AnySync(1)' = AnySync(1)
<1>1. UNCHANGED <<tx_enable_sync, rx_enable_sync, tx_fifo_wr_ptr_gray_sync, wr_ptr_bin,
                  tx_fifo_count_d2d, tx_fifo_rd_ptr_d2d, tx_d2d_state, n_tx_d2d_state,
                  tx_valid, rx_ready>>
  BY DEF D2dRest, TxKeepD2d, txD2dVars, txFifoD2dVars, txSendVars, RxKeepD2d, rxD2dVars,
         rxPortVars
<1> QED BY <1>1 DEF AnySync

\* A change of the Gray word finds the last one through, and sets out alone.
LEMMA GrayBinStep ==
    ASSUME Rate, LinkInv, Strobing, wb_run \in 0..MaxWb, GrayStep, AnySync(0) => BinStep,
           [Next]_vars
    PROVE  wb_run' \in 0..MaxWb /\ GrayStep' /\ (AnySync(0)' => BinStep')
<1> DEFINE wg == tx_fifo_wr_ptr_gray
           ws == tx_fifo_wr_ptr_gray_sync
<1>1. /\ wg \in Word /\ ws \in Word /\ tx_fifo_wr_ptr \in Ptr
      /\ \A u, v \in Word : FromGray[u] = FromGray[v] => u = v
  BY WordType DEF LinkInv, TxInv, TxTypeOK
<1>2. MaxWb \in Nat /\ wb_run \in Nat /\ wb_run <= MaxWb /\ MaxWb <= 2 /\ 1 <= MaxWb
      /\ Until \in Nat
  BY UntilType DEF Rate
<1>3. CASE WbRest /\ D2dRest /\ wb_run' = wb_run
  BY <1>3, WbRestKeeps, RestKeeps DEF GrayStep, BinStep
<1>4. CASE WbMove /\ D2dRest /\ wb_run < MaxWb /\ wb_run' = wb_run + 1
  <2>1. ws' = ws /\ wr_ptr_bin' = wr_ptr_bin /\ AnySync(0)' = AnySync(0)
    BY <1>4, RestKeeps
  <2>2. CASE Until > 1 /\ wg' = wg /\ Until' >= Until - 1
    <3>1. Until' \in Nat
      BY UntilType DEF Until
    <3>2. GrayStep'
      BY <1>2, <1>4, <2>1, <2>2, <3>1 DEF GrayStep
    <3>3. AnySync(0)' => BinStep'
      BY <1>2, <1>4, <2>1, <2>2, <3>1 DEF BinStep
    <3> QED BY <1>2, <1>4, <3>2, <3>3
  <2>3. CASE /\ Until = 1 /\ wg' # wg /\ FromGray[wg'] = Next1(FromGray[wg]) /\ Until' = 5
    <3>1. wg = ws
      BY <1>2, <2>3 DEF GrayStep
    <3>2. GrayStep'
      BY <1>2, <1>4, <2>1, <2>3, <3>1 DEF GrayStep
    <3>3. AnySync(0)' => BinStep'
      BY <1>2, <1>4, <2>1, <2>3 DEF BinStep
    <3> QED BY <1>2, <1>4, <3>2, <3>3
  <2> QED BY <1>4, <2>2, <2>3, UntilStep DEF WbMove, UntilMove
<1>5. CASE WbRest /\ D2dMove({wg}) /\ wb_run' = 0
  <2>1. ws' = wg /\ wr_ptr_bin' = FromGray[ws] /\ wg' = wg /\ Until' = Until
    BY <1>5, ReadEdge, WbRestKeeps
  <2>2. GrayStep'
    BY <2>1 DEF GrayStep
  <2>3. BinStep'
    BY <1>2, <1>5, <2>1 DEF GrayStep, BinStep
  <2> QED BY <1>2, <1>5, <2>2, <2>3
<1>6. CASE WbMove /\ D2dMove(WriteSamples) /\ wb_run' = 1
  <2>1. ws' \in {wg, ToGray[tx_fifo_wr_ptr]} /\ wr_ptr_bin' = FromGray[ws]
    BY <1>6, ReadEdge DEF WriteSamples
  <2>2. CASE /\ Until > 1 /\ wg = ToGray[tx_fifo_wr_ptr] /\ wg' = wg /\ Until' >= Until - 1
    <3>1. Until' \in Nat
      BY UntilType DEF Until
    <3>2. ws' = wg
      BY <2>1, <2>2
    <3>3. GrayStep'
      BY <2>2, <3>2 DEF GrayStep
    <3>4. BinStep'
      BY <1>2, <1>6, <2>1, <2>2, <3>1, <3>2 DEF GrayStep, BinStep
    <3> QED BY <1>2, <1>6, <3>3, <3>4
  <2>3. CASE /\ Until = 1 /\ wg' = ToGray[tx_fifo_wr_ptr] /\ wg' # wg
             /\ FromGray[wg'] = Next1(FromGray[wg]) /\ Until' = 5
    <3>1. wg = ws
      BY <1>2, <2>3 DEF GrayStep
    <3>2. CASE ws' = wg
      BY <1>2, <1>6, <2>1, <2>3, <3>1, <3>2 DEF GrayStep, BinStep
    <3>3. CASE ws' = wg'
      BY <1>2, <1>6, <2>1, <2>3, <3>1, <3>3 DEF GrayStep, BinStep
    <3> QED BY <2>1, <2>3, <3>2, <3>3
  <2> QED BY <1>6, <2>2, <2>3, UntilStep DEF WbMove, UntilMove
<1> QED BY <1>3, <1>4, <1>5, <1>6, PacedCases

\* What is on its way to wr_ptr_bin is not passed by a change of the Gray word.
LEMMA BinArrives ==
    ASSUME Rate, LinkInv, Strobing, wb_run \in 0..MaxWb, BinStep,
           NEW samples, D2dMove(samples),
           \/ WbRest /\ samples = {tx_fifo_wr_ptr_gray}
           \/ WbMove /\ samples = WriteSamples
    PROVE  wr_ptr_bin # FromGray[tx_fifo_wr_ptr_gray_sync] =>
               tx_fifo_wr_ptr_gray_sync' = tx_fifo_wr_ptr_gray_sync
<1> SUFFICES ASSUME wr_ptr_bin # FromGray[tx_fifo_wr_ptr_gray_sync]
             PROVE  tx_fifo_wr_ptr_gray_sync' = tx_fifo_wr_ptr_gray_sync
  OBVIOUS
<1>1. tx_fifo_wr_ptr_gray = tx_fifo_wr_ptr_gray_sync /\ Until >= 4 - wb_run
  BY DEF BinStep
<1>2. Until # 1
  BY <1>1 DEF Rate
<1>3. tx_fifo_wr_ptr_gray = ToGray[tx_fifo_wr_ptr]
  BY <1>2 DEF Until
<1> QED BY <1>1, <1>3, ReadEdge DEF WriteSamples

\* Distances a step apart.
LEMMA RingSteps ==
    /\ 0 \in Ptr /\ Dist(0, 0) = 0
    /\ \A b, x \in Ptr :
           /\ Next1(b) # x => Dist(Next1(b), x) = Dist(b, x) + 1
           /\ b # x => Dist(b, Next1(x)) = Dist(b, x) - 1
           /\ Dist(b, x) = 0 => b = x
           /\ Dist(Next1(x), x) = 1
BY DepthAssumption DEF Dist, Next1, Ptr

\* The sender moves its read pointer by one or not at all, and never past wr_ptr_bin.
LEMMA TakesBehind ==
    ASSUME LinkInv, Steps, AnySync(0), NEW samples, D2dMove(samples)
    PROVE  /\ tx_fifo_rd_ptr_d2d' \in Ptr
           /\ \/ tx_fifo_rd_ptr_d2d' = tx_fifo_rd_ptr_d2d
              \/ tx_fifo_rd_ptr_d2d' = Next1(tx_fifo_rd_ptr_d2d) /\ SendGo
           /\ wr_ptr_bin # FromGray[tx_fifo_wr_ptr_gray_sync] =>
                  tx_fifo_rd_ptr_d2d' # FromGray[tx_fifo_wr_ptr_gray_sync]
<1> DEFINE R == tx_fifo_rd_ptr_d2d
           B == wr_ptr_bin
           G == FromGray[tx_fifo_wr_ptr_gray_sync]
<1>0. TxInv /\ rx_ready \in BOOLEAN
  BY DEF LinkInv, RxInv, RxTypeOK
<1>1. /\ R \in Ptr /\ B \in Ptr /\ G \in Ptr /\ tx_fifo_rd_ptr \in Ptr
      /\ \A p \in Ptr : D(p) \in Nat
  BY <1>0, Copies, DistType DEF D
<1>2. R' = R \/ (R' = Next1(R) /\ SendGo)
  BY <1>0, ReadEdge, SendEdge
<1>3. R' \in Ptr
  BY <1>1, <1>2, Next1Type
<1>4. ASSUME B # G PROVE R' # G
  <2>1. WrBinOK
    <3>1. CASE \A i \in 0..2 : ~tx_enable_sync[i]
      <4>1. ~tx_enable_sync[0] /\ ~tx_enable_sync[1]
        BY <3>1
      <4>2. B = 0 /\ G = 0
        BY <4>1, RingSteps, WordType DEF Steps
      <4> QED BY <1>4, <4>2
    <3> QED BY <1>0, <3>1 DEF TxInv, StartUp
  <2>2. D(R) <= D(B) /\ D(B) <= D(G) /\ D(B) # D(G)
    BY <1>1, <1>4, <2>1, DistInjective DEF WrBinOK, NotAfter, D
  <2>3. CASE R' = R
    BY <1>1, <2>2, <2>3
  <2>4. CASE R' = Next1(R) /\ SendGo
    <3>1. D(R) < D(B)
      BY <1>0, <2>4, GoMeansFlit DEF D
    <3>2. D(Next1(R)) = D(R) + 1
      BY <1>1, <3>1, StepBefore DEF D
    <3> QED BY <1>1, <2>2, <2>4, <3>1, <3>2
  <2> QED BY <1>2, <2>3, <2>4
<1> QED BY <1>2, <1>3, <1>4

LEMMA CountStepStep ==
    ASSUME Rate, LinkInv, Strobing, Steps, AnySync(0), NEW samples, D2dMove(samples),
           \/ WbRest /\ samples = {tx_fifo_wr_ptr_gray}
           \/ WbMove /\ samples = WriteSamples
    PROVE  CountStep'
<1> DEFINE R == tx_fifo_rd_ptr_d2d
           B == wr_ptr_bin
           G == FromGray[tx_fifo_wr_ptr_gray_sync]
<1>1. R \in Ptr /\ B \in Ptr /\ G \in Ptr /\ R' \in Ptr
  BY Copies, TakesBehind DEF LinkInv
<1>2. tx_fifo_count_d2d' = Dist(B, R') /\ B' = G
  BY ReadEdge
<1>3. CASE B = G
  BY <1>2, <1>3 DEF CountStep
<1>4. CASE B # G
  <2>1. G = Next1(B) /\ tx_fifo_wr_ptr_gray_sync' = tx_fifo_wr_ptr_gray_sync
    BY <1>4, BinArrives DEF Steps, BinStep
  <2>2. R' # Next1(B)
    BY <1>4, <2>1, TakesBehind
  <2>3. Dist(Next1(B), R') = Dist(B, R') + 1
    BY <1>1, <2>2, RingSteps
  <2> QED BY <1>2, <2>1, <2>3 DEF CountStep
<1> QED BY <1>3, <1>4

\* Nothing comes through before the sender is enabled.
LEMMA BeforeEnabled ==
    ASSUME Programs, LinkInv, Strobing, Budget, StaysUp, Steps, NEW samples, D2dMove(samples),
           \/ WbRest /\ samples = {tx_fifo_wr_ptr_gray}
           \/ WbMove /\ samples = WriteSamples
    PROVE  /\ ~tx_enable_sync'[0] => tx_fifo_wr_ptr_gray_sync' = ToGray[0]
           /\ ~tx_enable_sync'[1] => wr_ptr_bin' = 0
           /\ ~tx_enable_sync'[2] => tx_fifo_rd_ptr_d2d' = 0
           /\ ~tx_enable_sync'[2] /\ AnySync(0) => tx_fifo_count_d2d' = 0
<1>1. /\ tx_enable_sync'[0] \in {TxEnabled, TxEnabled'}
      /\ tx_enable_sync'[1] = tx_enable_sync[0]
      /\ tx_enable_sync'[2] = tx_enable_sync[1]
      /\ tx_enable_sync[2] => tx_enable_sync[1]
  <2>1. 0 \in 0..1 /\ 1 \in 0..1 /\ 0 + 1 = 1 /\ 1 + 1 = 2
    OBVIOUS
  <2> QED BY <2>1, SyncEdge DEF StaysUp
<1>2. ASSUME ~tx_enable_sync'[0] PROVE tx_fifo_wr_ptr_gray_sync' = ToGray[0]
  <2>1. TxEnabled => TxEnabled'
    BY ControlStays DEF LinkInv
  <2>2. ~TxEnabled
    BY <1>1, <1>2, <2>1
  <2>3. tx_fifo_wr_ptr = 0 /\ tx_fifo_wr_ptr_gray = ToGray[0]
    BY <2>2 DEF StaysUp, Budget, Strobing
  <2> QED BY <2>3, ReadEdge DEF WriteSamples
<1>3. ASSUME ~tx_enable_sync'[1] PROVE wr_ptr_bin' = 0
  BY <1>1, <1>3, ReadEdge, RingSteps, WordType DEF Steps
<1>4. ASSUME ~tx_enable_sync'[2] PROVE tx_fifo_rd_ptr_d2d' = 0
  <2>1. ~SendGo /\ tx_fifo_rd_ptr_d2d = 0
    BY <1>1, <1>4 DEF SendGo, Steps
  <2> QED BY <2>1, ReadEdge, SendEdge DEF LinkInv, RxInv, RxTypeOK
<1>5. ASSUME ~tx_enable_sync'[2], AnySync(0) PROVE tx_fifo_count_d2d' = 0
  <2>1. wr_ptr_bin = 0
    BY <1>1, <1>5 DEF Steps
  <2> QED BY <1>4, <1>5, <2>1, ReadEdge, RingSteps
<1> QED BY <1>2, <1>3, <1>4, <1>5

\* An enable seen at a flop was seen at the one before it.
LEMMA AnySyncEdge ==
    ASSUME NEW samples, D2dMove(samples), StaysUp
    PROVE  (AnySync(1)' => AnySync(0)) /\ (AnySync(0) => AnySync(0)')
<1>1. /\ AnySync(1)' <=> \/ tx_enable_sync'[1] \/ rx_enable_sync'[1]
                         \/ tx_enable_sync'[2] \/ rx_enable_sync'[2]
      /\ AnySync(0)' <=> AnySync(1)' \/ tx_enable_sync'[0] \/ rx_enable_sync'[0]
  <2>1. \A j \in 0..2 : j = 0 \/ j \in 1..2
    OBVIOUS
  <2>2. \A j \in 1..2 : j = 1 \/ j = 2
    OBVIOUS
  <2>3. 0 \in 0..2 /\ 1 \in 1..2 /\ 2 \in 1..2 /\ \A j \in 1..2 : j \in 0..2
    OBVIOUS
  <2> QED BY <2>1, <2>2, <2>3 DEF AnySync
<1>2. /\ tx_enable_sync'[1] = tx_enable_sync[0] /\ tx_enable_sync'[2] = tx_enable_sync[1]
      /\ rx_enable_sync'[1] = rx_enable_sync[0] /\ rx_enable_sync'[2] = rx_enable_sync[1]
      /\ tx_enable_sync[1] => tx_enable_sync[0]
      /\ tx_enable_sync[2] => tx_enable_sync[1]
      /\ rx_enable_sync[1] => rx_enable_sync[0]
      /\ rx_enable_sync[2] => rx_enable_sync[1]
  <2>1. 0 \in 0..1 /\ 1 \in 0..1 /\ 0 + 1 = 1 /\ 1 + 1 = 2
    OBVIOUS
  <2> QED BY <2>1, SyncEdge DEF StaysUp
<1> QED BY <1>1, <1>2, AnySyncCases

LEMMA StepsStep ==
    ASSUME Programs, Rate, LinkInv, Strobing, Budget, StaysUp, Steps, [Next]_vars
    PROVE  Steps'
<1>1. wb_run' \in 0..MaxWb /\ GrayStep' /\ (AnySync(0)' => BinStep')
  BY GrayBinStep DEF Steps
<1>2. CASE D2dRest
  <2>1. AnySync(1)' => CountStep'
    BY <1>2, RestKeeps DEF Steps, CountStep
  <2>2. /\ UNCHANGED <<tx_enable_sync, tx_fifo_wr_ptr_gray_sync, wr_ptr_bin,
                       tx_fifo_count_d2d, tx_fifo_rd_ptr_d2d>>
        /\ AnySync(0)' = AnySync(0) /\ AnySync(1)' = AnySync(1)
    BY <1>2, RestKeeps
  <2> QED BY <1>1, <2>1, <2>2 DEF Steps
<1>3. ASSUME NEW samples, D2dMove(samples),
             \/ WbRest /\ samples = {tx_fifo_wr_ptr_gray}
             \/ WbMove /\ samples = WriteSamples
      PROVE  Steps'
  <2>1. AnySync(1)' => AnySync(0)
    BY <1>3, AnySyncEdge
  <2>2. AnySync(1)' => CountStep'
    BY <1>3, <2>1, CountStepStep
  <2>3. /\ ~tx_enable_sync'[0] => tx_fifo_wr_ptr_gray_sync' = ToGray[0]
        /\ ~tx_enable_sync'[1] => wr_ptr_bin' = 0
        /\ ~tx_enable_sync'[2] => tx_fifo_rd_ptr_d2d' = 0
        /\ ~tx_enable_sync'[2] /\ AnySync(0) => tx_fifo_count_d2d' = 0
    BY <1>3, BeforeEnabled
  <2> QED BY <1>1, <2>1, <2>2, <2>3 DEF Steps
<1> QED BY <1>2, <1>3, PacedCases

-----------------------------------------------------------------------------
(* The sender and the port                                                  *)

\* In IDLE and free to go the sender has at most one flit to find, and it finds it.
LEMMA OneFlit ==
    ASSUME LinkInv, StaysUp, Steps, Handshake, tx_d2d_state = "IDLE", SendGo, rx_ready
    PROVE  /\ ~tx_valid
           /\ Dist(wr_ptr_bin, Next1(tx_fifo_rd_ptr_d2d)) = 0
<1> DEFINE R == tx_fifo_rd_ptr_d2d
           B == wr_ptr_bin
<1>1. R \in Ptr /\ B \in Ptr /\ tx_fifo_count_d2d \in Ptr /\ Dist(B, R) \in Nat
  BY Copies, DistType DEF LinkInv, TxInv, TxTypeOK
<1>2. tx_fifo_count_d2d > 0 /\ tx_enable_sync[2]
  BY DEF SendGo
<1>3. ~tx_valid /\ Dist(B, R) <= 1
  <2>1. tx_fifo_count_d2d # 0
    BY <1>1, <1>2, PtrType
  <2> QED BY <2>1 DEF Handshake
<1>4. Dist(B, R) # 0
  <2>1. CountStep
    BY <1>2, AnySyncCases DEF Steps
  <2> QED BY <1>1, <1>2, <2>1, PtrType DEF CountStep
<1>5. Dist(B, R) = 1 /\ B # R
  BY <1>1, <1>3, <1>4, DistType
<1>6. Dist(B, Next1(R)) = 0
  BY <1>1, <1>5, RingSteps
<1> QED BY <1>3, <1>6

\* When the sender stays in IDLE while ready comes or is up, one flit at most comes up.
LEMMA OneComes ==
    ASSUME Programs, Rate, LinkInv, StaysUp, Steps, Handshake, Strobing,
           tx_d2d_state = "IDLE", ~SendGo,
           AnySync(1), NEW samples, D2dMove(samples), tx_fifo_rd_ptr_d2d' = tx_fifo_rd_ptr_d2d
    PROVE  Dist(wr_ptr_bin', tx_fifo_rd_ptr_d2d') <= 1
<1> DEFINE R == tx_fifo_rd_ptr_d2d
           B == wr_ptr_bin
           G == FromGray[tx_fifo_wr_ptr_gray_sync]
<1>1. /\ R \in Ptr /\ B \in Ptr /\ G \in Ptr /\ tx_fifo_count_d2d \in Ptr
      /\ Dist(B, R) \in Nat
  BY Copies, DistType DEF LinkInv, TxInv, TxTypeOK
<1>2. tx_fifo_count_d2d = 0
  <2>1. CASE ~tx_enable_sync[2]
    BY <2>1 DEF Steps
  <2>2. CASE ~(tx_fifo_count_d2d > 0)
    BY <1>1, <2>2, PtrType
  <2> QED BY <2>1, <2>2 DEF SendGo
<1>3. CountStep /\ BinStep
  BY AnySyncCases DEF Steps
<1>4. B' = G
  BY ReadEdge
<1>5. CASE Dist(B, R) = 0
  <2>1. B = R
    BY <1>1, <1>5, RingSteps
  <2>2. G = B \/ G = Next1(B)
    BY <1>3 DEF BinStep
  <2>3. Dist(R, R) = 0 /\ Dist(Next1(R), R) = 1
    BY <1>1, RingSteps, DistType
  <2> QED BY <1>4, <2>1, <2>2, <2>3
<1>6. CASE Dist(B, R) = 1 /\ B = G
  BY <1>4, <1>6
<1> QED BY <1>1, <1>2, <1>3, <1>5, <1>6 DEF CountStep

LEMMA HandshakeStep ==
    ASSUME Programs, Rate, LinkInv, NoFlitLost, StaysUp, Steps, Handshake, Strobing, [Next]_vars
    PROVE  Handshake'
<1>0. /\ TxInv /\ rx_ready \in BOOLEAN /\ tx_valid \in BOOLEAN
      /\ tx_d2d_state \in TxSendStates /\ n_tx_d2d_state \in TxSendStates
      /\ n_tx_d2d_state = "RETRY" <=> tx_d2d_state = "RETRY"
      /\ ReadyMeansRoom /\ RxTypeOK
  BY DEF LinkInv, TxInv, TxTypeOK, Presented, RxInv, RxTypeOK
<1>1. CASE D2dRest
  BY <1>1, RestKeeps DEF Handshake
<1>2. ASSUME NEW samples, D2dMove(samples) PROVE Handshake'
  <2>1. SendStep(rx_ready) /\ tx_fifo_count_d2d' = Dist(wr_ptr_bin, tx_fifo_rd_ptr_d2d')
    BY <1>2, ReadEdge
  <2>2. AnySync(1)' => AnySync(0)
    BY <1>2, AnySyncEdge
  <2>3. rx_ready' => AnySync(1) /\ ~(tx_valid /\ rx_ready)
    BY <1>0, <1>2, ReadyEnabled, AnySyncCases
  <2>4. CASE SendNothing
    <3>1. /\ tx_d2d_state = "IDLE" /\ ~SendGo
          /\ tx_d2d_state' = n_tx_d2d_state /\ n_tx_d2d_state' = n_tx_d2d_state
          /\ tx_valid' = FALSE /\ tx_fifo_rd_ptr_d2d' = tx_fifo_rd_ptr_d2d
      BY <2>4 DEF SendNothing, Hold
    <3>2. tx_d2d_state' \in {"RETRY_COMPLETE", "SEND"} => ~AnySync(1)'
      BY <2>2, <3>1 DEF Handshake
    <3>3. rx_ready' => Dist(wr_ptr_bin', tx_fifo_rd_ptr_d2d') <= 1
      BY <1>2, <2>3, <3>1, OneComes
    <3> QED BY <3>1, <3>2, <3>3 DEF Handshake
  <2>5. CASE SendNext(rx_ready)
    <3>1. /\ tx_d2d_state = "IDLE" /\ SendGo
          /\ tx_fifo_rd_ptr_d2d' = Next1(tx_fifo_rd_ptr_d2d) /\ tx_valid' = rx_ready
          /\ \/ rx_ready /\ tx_d2d_state' = "IDLE" /\ n_tx_d2d_state' = "IDLE"
             \/ ~rx_ready /\ tx_d2d_state' = "RETRY" /\ n_tx_d2d_state' = "RETRY"
      BY <2>5 DEF SendNext, Assign
    <3>2. rx_ready => tx_fifo_count_d2d' = 0
      BY <2>1, <3>1, OneFlit
    <3> QED BY <1>0, <3>1, <3>2 DEF Handshake
  <2>6. CASE SendRetry(rx_ready)
    <3>1. /\ tx_d2d_state = "RETRY" /\ tx_valid' = rx_ready
          /\ \/ rx_ready /\ tx_d2d_state' = "RETRY_COMPLETE"
                /\ n_tx_d2d_state' = "RETRY_COMPLETE"
             \/ ~rx_ready /\ tx_d2d_state' = n_tx_d2d_state /\ n_tx_d2d_state' = n_tx_d2d_state
      BY <2>6 DEF SendRetry, Assign, Hold
    <3>2. n_tx_d2d_state = "RETRY"
      BY <1>0, <3>1
    <3> QED BY <1>0, <3>1, <3>2 DEF Handshake
  <2>7. CASE SendReturn
    <3>1. /\ tx_d2d_state \in {"RETRY_COMPLETE", "SEND"}
          /\ tx_d2d_state' = "IDLE" /\ n_tx_d2d_state' = "IDLE" /\ tx_valid' = FALSE
      BY <2>7 DEF SendReturn, Assign
    <3>2. ~rx_ready'
      BY <2>3, <3>1 DEF Handshake, NoFlitLost
    <3> QED BY <3>1, <3>2 DEF Handshake
  <2> QED BY <2>1, <2>4, <2>5, <2>6, <2>7 DEF SendStep
<1> QED BY <1>1, <1>2, PacedCases

\* A ready that is up and not met stays up while the sender has a flit for it: B is not
\* done, since it wants at least what A has.
LEMMA ReadyStays ==
    ASSUME Programs, LinkInv, Budget, StaysUp, WbMove \/ WbRest, NEW samples, D2dMove(samples),
           rx_ready, ~tx_valid, Len(presented) < Len(sent)
    PROVE  rx_ready'
<1>1. PICK len \in {rx_length, rx_length'}, done \in {rx_done_sync[2], rx_done_sync[1]} :
          PortWait(tx_valid, len, done)
  BY DEF D2dMove
<1>2. /\ rx_ready' = SideReady(len, done)
  BY <1>1 DEF PortWait
<1>3. rx_start_sync[2] /\ rx_enable_sync[2] /\ ~rx_fifo_full
  BY DEF StaysUp, LinkInv, RxInv, ReadyMeansRoom
<1>4. RxStarted
  <2>1. 0 \in 0..1 /\ 1 \in 0..1 /\ 0 + 1 = 1 /\ 1 + 1 = 2
    OBVIOUS
  <2> QED BY <1>3, <2>1 DEF StaysUp
<1>5. /\ rx_length \in Nat /\ rx_length > 0 /\ rx_length' = rx_length
  <2>1. rx_length \in Nat /\ rx_length # 0
    BY <1>4 DEF RxStarted, LinkInv, DestWritten, RxInv, RxTypeOK
  <2>2. rx_length' = rx_length
    BY <1>4, ControlStays DEF LinkInv
  <2> QED BY <2>1, <2>2
<1>6. ASSUME rx_dma_state = "DONE" PROVE FALSE
  <2>1. Joined /\ TxInv /\ RxInv /\ SourceRead
    BY DEF LinkInv, Joined
  <2>2. /\ Len(Delivered) \in Nat /\ Len(received) \in Nat /\ Len(sent) \in Nat
        /\ Len(Delivered) <= Len(received) /\ Len(received) <= Len(presented)
        /\ Len(presented) \in Nat /\ tx_dma_remaining \in Nat
    BY <2>1, DeliveredSent, ArrivedPresented, TakenType DEF TxInv, TxTypeOK
  <2>3. Len(Delivered) = rx_length
    <3>1. rx_dma_remaining = 0 /\ rx_dma_remaining + Len(Delivered) = rx_length
      BY <1>6 DEF LinkInv, DestWritten
    <3> QED BY <2>2, <3>1
  <2>4. tx_dma_state # "IDLE"
    <3>1. Len(<<>>) = 0
      OBVIOUS
    <3> QED BY <2>1, <2>2, <3>1 DEF SourceRead
  <2>5. tx_control # {} /\ Len(sent) + tx_dma_remaining = tx_length
    BY <2>4 DEF Budget
  <2>6. tx_length \in TxLengths /\ rx_length \in RxLengths
    BY <1>5, <2>5 DEF Budget
  <2>7. tx_length <= rx_length /\ tx_length \in Nat
    BY <2>1, <2>6 DEF Programs, TxInv, TxTypeOK
  <2> QED BY <1>5, <2>2, <2>3, <2>5, <2>7
<1>7. ~done
  <2>1. 1 \in 0..2 /\ 2 \in 0..2
    OBVIOUS
  <2> QED BY <1>6, <2>1 DEF LinkInv, DoneIsDone
<1> QED BY <1>2, <1>3, <1>5, <1>7 DEF SideReady

LEMMA NoFlitLostStep ==
    ASSUME Programs, PacedInv, [Next]_vars
    PROVE  NoFlitLost'
<1>0. /\ LinkInv /\ TxInv /\ NoFlitLost /\ StaysUp /\ Budget /\ Steps /\ Handshake
      /\ rx_ready \in BOOLEAN /\ tx_valid \in BOOLEAN
  BY DEF PacedInv, LinkInv, TxInv, TxTypeOK, RxInv, RxTypeOK
<1>1. CASE D2dRest
  BY <1>0, <1>1, RestKeeps DEF NoFlitLost
<1>2. ASSUME NEW samples, D2dMove(samples), WbMove \/ WbRest, tx_valid' PROVE rx_ready'
  <2>1. SendStep(rx_ready)
    BY <1>2, ReadEdge
  <2>2. /\ Taken \in Nat /\ Len(presented) \in Nat /\ Len(sent) \in Nat
    BY <1>0, TakenType
  <2>3. CASE SendNext(rx_ready)
    <3>1. tx_d2d_state = "IDLE" /\ SendGo /\ rx_ready
      BY <1>2, <2>3 DEF SendNext
    <3>2. ~tx_valid
      BY <1>0, <3>1, OneFlit
    <3>3. Taken + 1 <= Len(sent) /\ Taken = Len(presented)
      <4>1. [TxNext]_txVars
        BY <1>0, HalvesStep DEF LinkInv
      <4> QED BY <1>0, <2>2, <3>1, <4>1, NextInLine DEF Taken, Held
    <3> QED BY <1>0, <1>2, <2>2, <3>1, <3>2, <3>3, ReadyStays
  <2>4. CASE SendRetry(rx_ready)
    <3>1. tx_d2d_state = "RETRY" /\ rx_ready
      BY <1>2, <2>4 DEF SendRetry
    <3>2. ~tx_valid
      BY <1>0, <3>1 DEF Handshake
    <3>3. Taken <= Len(sent) /\ Taken = Len(presented) + 1
      BY <1>0, <3>1, TakenSent DEF Taken, Held
    <3> QED BY <1>0, <1>2, <2>2, <3>1, <3>2, <3>3, ReadyStays
  <2>5. CASE SendNothing \/ SendReturn
    BY <1>2, <2>5 DEF SendNothing, SendReturn
  <2> QED BY <2>1, <2>3, <2>4, <2>5 DEF SendStep
<1> QED BY <1>0, <1>1, <1>2, PacedCases DEF NoFlitLost

LEMMA PacedNextInv ==
    ASSUME Programs, Rate, PacedInv, [Next]_vars
    PROVE  PacedInv'
<1>0. /\ LinkInv /\ NoFlitLost /\ StaysUp /\ Budget /\ Strobing /\ Steps /\ Handshake
      /\ NoReset
  BY DEF PacedInv, Programs
<1>1. LinkInv' /\ NoFlitLost'
  BY <1>0, LinkNextInv, NoFlitLostStep
<1>2. WbMove \/ WbRest
  BY <1>0, PacedCases
<1>3. D2dRest \/ \E samples : D2dMove(samples)
  BY <1>0, PacedCases
<1>4. StaysUp' /\ Budget'
  BY <1>0, <1>2, <1>3, StaysUpStep, BudgetStep
<1>5. Strobing'
  BY <1>0, <1>2, StrobingStep, WbRestKeeps DEF WbMove
<1>6. Steps' /\ Handshake'
  BY <1>0, StepsStep, HandshakeStep
<1> QED BY <1>1, <1>4, <1>5, <1>6 DEF PacedInv

LEMMA PacedInit == Rate /\ Init => PacedInv
<1> SUFFICES ASSUME Rate, Init PROVE PacedInv
  OBVIOUS
<1>1. TxInit /\ RxInit /\ ArbA!ArbInit /\ wb_run = 0 /\ LinkInv
  BY LinkInitInv DEF Init
<1>2. NoFlitLost
  BY <1>1 DEF TxInit, TxInitD2d, NoFlitLost
<1>3. /\ \A i \in 0..2 : ~tx_enable_sync[i] /\ ~rx_enable_sync[i] /\ ~rx_start_sync[i]
      /\ tx_control = {} /\ rx_control = {} /\ rx_ready = FALSE
  BY <1>1 DEF TxInit, TxInitWb, TxInitD2d, RxInit, RxInitWb, RxInitD2d, Low3
<1>4. ~AnySync(0) /\ ~AnySync(1)
  <2>1. \A j \in 1..2 : j \in 0..2
    OBVIOUS
  <2> QED BY <1>3, <2>1 DEF AnySync
<1>5. StaysUp
  <2>1. 0 \in 0..2 /\ \A i \in 0..1 : i + 1 \in 0..2
    OBVIOUS
  <2> QED BY <1>3, <2>1 DEF StaysUp
<1>6. Budget
  BY <1>1 DEF TxInit, TxInitWb, RxInit, RxInitWb, Budget
<1>7. Strobing
  BY <1>1 DEF TxInit, TxInitWb, ArbA!ArbInit, Strobing, Granted
<1>8. Steps
  BY <1>1, <1>4 DEF TxInit, TxInitWb, TxInitD2d, Steps, GrayStep, Rate
<1>9. Handshake
  BY <1>1, <1>4 DEF TxInit, TxInitD2d, RxInit, RxInitD2d, Handshake
<1> QED BY <1>1, <1>2, <1>5, <1>6, <1>7, <1>8, <1>9 DEF PacedInv

-----------------------------------------------------------------------------
(* The theorems                                                             *)

\* Either half keeps its invariant behind its arbiter and wired to the other, lossy
\* wires or not.
THEOREM LinkHalves == Spec => [](TxInv /\ RxInv)
<1>1. Init => TxInv /\ RxInv
  BY LinkInit
<1>2. (TxInv /\ RxInv) /\ [Next]_vars => (TxInv /\ RxInv)'
  BY HalvesStep
<1> QED BY <1>1, <1>2, PTL DEF Spec

\* A half in the link is the half alone: the link implements its specification.
THEOREM LinkImplementsTx == Spec => TxSpec
<1>1. Init => TxInit
  BY DEF Init
<1>2. TxInv /\ RxInv /\ [Next]_vars => [TxNext]_txVars
  BY HalvesStep
<1> QED BY <1>1, <1>2, LinkHalves, PTL DEF Spec, TxSpec

\* As long as the wires lose no flit, what one die's engine reads the other's writes to
\* memory: every flit once, in order, whole, at most two rings of them on the way.
THEOREM LinkReliable == Spec /\ []NoFlitLost => ReliableLink
<1>1. Init => Channel!Init
  BY DeliveredInit DEF Init, TxInit, TxInitWb, Channel!Init
<1>2. Joined /\ NoFlitLost /\ [Next]_vars => [Channel!Next]_<<sent, Delivered>>
  BY LinkStepChannel
<1> QED BY <1>1, <1>2, JoinedInit, JoinedStep, PTL DEF Spec, ReliableLink, Channel!Spec

\* As long as the wires lose no flit and software sets no RESET, the inductive invariant
\* of the link holds.
THEOREM LinkInvariance == ASSUME NoReset PROVE Spec /\ []NoFlitLost => []LinkInv
<1>1. LinkInv /\ NoFlitLost /\ [Next]_vars => LinkInv'
  BY LinkNextInv
<1> QED BY <1>1, LinkInitInv, PTL DEF Spec

\* Software that polls B's STATUS_RX_DONE and sees it finds A's source in the whole of
\* the destination, each word at its place, whatever the two lengths were.
THEOREM LinkCopies == ASSUME NoReset PROVE Spec /\ []NoFlitLost => []DoneMeansCopied
<1>1. LinkInv => DoneMeansCopied
  BY DoneCopied
<1> QED BY <1>1, LinkInvariance, PTL

\* With at most two wb edges to every d2d edge and software that programs the link as
\* d2d_test does, the facts that pace the two dies hold at every step.
THEOREM LinkPaced == ASSUME Programs, Rate PROVE Spec => []PacedInv
<1>1. Init => PacedInv
  BY PacedInit
<1>2. PacedInv /\ [Next]_vars => PacedInv'
  BY PacedNextInv
<1> QED BY <1>1, <1>2, PTL DEF Spec

\* Then no flit is lost on the wires: whenever A shows one, B is ready for it.
THEOREM LinkLosesNothing == ASSUME Programs, Rate PROVE Spec => []NoFlitLost
<1>1. PacedInv => NoFlitLost
  BY DEF PacedInv
<1> QED BY <1>1, LinkPaced, PTL

\* So the link is a reliable channel from one engine to the other, with no condition on
\* its behaviour left.
THEOREM LinkReliableAtRate == ASSUME Programs, Rate PROVE Spec => ReliableLink
BY LinkLosesNothing, LinkReliable, PTL

\* And done on B means that B's memory holds what A was told to send.
THEOREM LinkCopiesAtRate == ASSUME Programs, Rate PROVE Spec => []DoneMeansCopied
<1>1. NoReset
  BY DEF Programs
<1> QED BY <1>1, LinkLosesNothing, LinkCopies, PTL
=============================================================================
