--------------------------- MODULE D2DHalvesProofs ---------------------------
(***************************************************************************)
(* Each half of a die-to-die link keeps its promises for every ring size,  *)
(* every length of transfer and every way the two clocks, the bus, the     *)
(* software and the peer may behave.  The argument for either half: its    *)
(* invariant (TxInv of D2DTx, RxInv of D2DRx) holds after reset and every  *)
(* clock edge preserves it, and it implies the properties.  First, facts   *)
(* about pointers in a ring and about Gray words caught while they change, *)
(* which both need.                                                        *)
(***************************************************************************)
EXTENDS D2DTx, D2DRx, TLAPS

\* A distance in the ring is a number of slots, and stepping stays in the ring.
LEMMA DistType ==
    \A a, b \in Ptr : /\ Dist(a, b) \in Nat /\ Dist(a, b) <= LastEntry
                     /\ Dist(a, b) \in Ptr /\ Dist(a, a) = 0
BY DepthAssumption DEF Dist, Ptr, LastEntry

LEMMA PtrType ==
    LastEntry \in Nat /\ \A p \in Ptr : p \in Nat /\ p <= LastEntry
BY DepthAssumption DEF Ptr, LastEntry

LEMMA Next1Type == \A p \in Ptr : Next1(p) \in Ptr /\ Next1(p) # p
BY DepthAssumption DEF Next1, Ptr

\* Measured from a later base the distance of what lies behind it shrinks by the
\* distance of the bases.
LEMMA Rebase ==
    \A b, n, x \in Ptr : Dist(n, b) <= Dist(x, b) => Dist(x, n) = Dist(x, b) - Dist(n, b)
BY DepthAssumption DEF Dist, Ptr

\* A pointer that has not reached the end of the ring moves one slot away.
LEMMA StepAway ==
    \A b, p \in Ptr : Dist(p, b) < LastEntry => Dist(Next1(p), b) = Dist(p, b) + 1
BY DepthAssumption DEF Dist, Ptr, Next1, LastEntry

\* A pointer strictly before another may step without passing it.
LEMMA StepBefore ==
    \A b, p, q \in Ptr : Dist(p, b) < Dist(q, b) => Dist(Next1(p), b) = Dist(p, b) + 1
BY DepthAssumption DEF Dist, Ptr, Next1, LastEntry

\* Distances from one base tell pointers apart.
LEMMA DistInjective == \A b, p, q \in Ptr : Dist(p, b) = Dist(q, b) => p = q
BY DepthAssumption DEF Dist, Ptr

\* The base itself is nearest.
LEMMA NotBase == \A b, p \in Ptr : p # b => Dist(p, b) > 0
BY DepthAssumption DEF Dist, Ptr

\* A Gray word decodes to a pointer and encodes back.
LEMMA WordType ==
    /\ \A w \in Word : FromGray[w] \in Ptr /\ ToGray[FromGray[w]] = w
    /\ \A p \in Ptr : ToGray[p] \in Word /\ FromGray[ToGray[p]] = p
BY GrayAssumption DEF Word

\* A word that is at most one step behind its pointer, caught while it changes, is the
\* old word or the new one.
LEMMA MixStep ==
    ASSUME NEW w \in Word, NEW p \in Ptr, p \in {FromGray[w], Next1(FromGray[w])},
           NEW m \in Mix(w, ToGray[p])
    PROVE  m \in Word /\ (m = w \/ m = ToGray[p])
<1> DEFINE q == FromGray[w]
<1>1. q \in Ptr /\ ToGray[q] = w
  BY WordType
<1>2. Mix(w, ToGray[p]) \in {{w}, {w, ToGray[p]}}
  <2>1. CASE p = q
    BY <2>1, <1>1, GrayAssumption
  <2>2. CASE p = Next1(q)
    BY <2>2, <1>1, GrayAssumption
  <2> QED BY <2>1, <2>2
<1>3. m = w \/ m = ToGray[p]
  BY <1>2
<1> QED BY <1>3, WordType

-----------------------------------------------------------------------------
(* What a FIFO holds                                                        *)

\* The engine takes up a flit and strobes it.
LEMMA HoldsStrobe ==
    ASSUME NEW r \in Ptr, NEW w \in Ptr, NEW t \in Nat, NEW f, NEW all \in Seq(Flit),
           NEW x \in Flit, Holds(r, t, w, f, all, FALSE)
    PROVE  Holds(r, t, w, f, Append(all, x), TRUE)
<1>1. Dist(w, r) \in Nat /\ \A p \in Ptr : Dist(p, r) \in Nat
  BY DistType
<1>2. /\ Len(Append(all, x)) = Len(all) + 1
      /\ \A i \in 1..Len(all) : Append(all, x)[i] = all[i]
  OBVIOUS
<1> QED BY <1>1, <1>2 DEF Holds

\* The strobed flit enters the FIFO.
LEMMA HoldsWrite ==
    ASSUME NEW r \in Ptr, NEW w \in Ptr, NEW t \in Nat, NEW f \in [Ptr -> Flit],
           NEW all \in Seq(Flit), NEW x \in Flit, Holds(r, t, w, f, all, TRUE),
           x = all[Len(all)], Dist(w, r) < LastEntry
    PROVE  Holds(r, t, Next1(w), [f EXCEPT ![w] = x], all, FALSE)
<1>1. Dist(w, r) \in Nat /\ \A p \in Ptr : Dist(p, r) \in Nat
  BY DistType
<1>2. Dist(Next1(w), r) = Dist(w, r) + 1
  BY StepAway
<1>3. Len(all) = t + Dist(w, r) + 1
  BY DEF Holds
<1>4. ASSUME NEW p \in Ptr, Dist(p, r) < Dist(Next1(w), r)
      PROVE  [f EXCEPT ![w] = x][p] = all[t + Dist(p, r) + 1]
  <2>1. CASE p = w
    BY <1>3, <2>1
  <2>2. CASE p # w
    <3>1. Dist(p, r) # Dist(w, r)
      BY <2>2, DistInjective
    <3>2. Dist(p, r) < Dist(w, r)
      BY <1>1, <1>2, <1>4, <3>1
    <3> QED BY <2>2, <3>2 DEF Holds
  <2> QED BY <2>1, <2>2
<1> QED BY <1>1, <1>2, <1>3, <1>4 DEF Holds

\* The sender takes out the flit it is at.
LEMMA HoldsRead ==
    ASSUME NEW r \in Ptr, NEW w \in Ptr, NEW t \in Nat, NEW f, NEW all, NEW strobe,
           Holds(r, t, w, f, all, strobe), Dist(w, r) > 0
    PROVE  Holds(Next1(r), t + 1, w, f, all, strobe) /\ f[r] = all[t + 1]
<1>1. /\ Dist(r, r) = 0 /\ Next1(r) \in Ptr
      /\ \A p \in Ptr : Dist(p, r) \in Nat /\ Dist(p, Next1(r)) \in Nat
  BY DistType, Next1Type
<1>2. Dist(Next1(r), r) = 1
  BY <1>1, StepBefore
<1>3. \A p \in Ptr : Dist(p, r) > 0 => Dist(p, Next1(r)) = Dist(p, r) - 1
  BY <1>1, <1>2, Rebase
<1>4. Dist(r, Next1(r)) = LastEntry
  BY DepthAssumption DEF Dist, Next1, Ptr, LastEntry
<1>5. Dist(w, Next1(r)) = Dist(w, r) - 1 /\ Dist(w, r) <= LastEntry
  BY <1>3, DistType
<1>6. ASSUME NEW p \in Ptr, Dist(p, Next1(r)) < Dist(w, Next1(r))
      PROVE  f[p] = all[t + 1 + Dist(p, Next1(r)) + 1]
  <2>1. p # r
    BY <1>1, <1>4, <1>5, <1>6
  <2>2. Dist(p, r) > 0
    BY <2>1, NotBase
  <2>3. Dist(p, Next1(r)) = Dist(p, r) - 1 /\ Dist(p, r) < Dist(w, r)
    BY <1>1, <1>3, <1>5, <1>6, <2>2
  <2>4. f[p] = all[t + Dist(p, r) + 1]
    BY <2>3 DEF Holds
  <2>5. t + 1 + Dist(p, Next1(r)) + 1 = t + Dist(p, r) + 1
    BY <1>1, <2>3
  <2> QED BY <2>4, <2>5
<1>7. Len(all) = t + 1 + Dist(w, Next1(r)) + (IF strobe THEN 1 ELSE 0)
  <2>1. Len(all) = t + Dist(w, r) + (IF strobe THEN 1 ELSE 0)
    BY DEF Holds
  <2>2. t + 1 + Dist(w, Next1(r)) = t + Dist(w, r)
    BY <1>1, <1>5
  <2> QED BY <2>1, <2>2
<1>8. f[r] = all[t + Dist(r, r) + 1]
  BY <1>1 DEF Holds
<1> QED BY <1>1, <1>6, <1>7, <1>8 DEF Holds

-----------------------------------------------------------------------------
(* The transmit half                                                        *)

-----------------------------------------------------------------------------
(* The steps in a normal form: what each domain does at an edge             *)

\* A register that crosses captures its source as it was or as it becomes.
ReadSamples == {tx_rd_gray_d2d, ToGray[tx_fifo_rd_ptr_d2d]}
WriteSamples == {tx_fifo_wr_ptr_gray, ToGray[tx_fifo_wr_ptr]}

WbSteps(samples) == \E ack \in BOOLEAN, s \in samples : TxWbEdge(ack, s)
D2dSteps(samples) ==
    \E ready \in BOOLEAN, enable \in BOOLEAN, s \in samples : TxD2dEdge(ready, enable, s)

\* Every step is an edge of the one domain, of the other, of both, or of none.
LEMMA StepCases ==
    ASSUME TxTypeOK, OneStep, [TxNext]_txVars
    PROVE  \/ TxKeepWb /\ TxKeepD2d
           \/ WbSteps({tx_rd_gray_d2d}) /\ TxKeepD2d
           \/ TxKeepWb /\ D2dSteps({tx_fifo_wr_ptr_gray})
           \/ WbSteps(ReadSamples) /\ D2dSteps(WriteSamples)
<1>0. tx_wb_stb \in BOOLEAN /\ TxEnabled \in BOOLEAN /\ TxEnabled' \in BOOLEAN
  BY DEF tx_wb_stb, TxEnabled
<1>1. CASE TxWbTick
  <2>1. PICK ack \in {FALSE, tx_wb_stb} : TxWbEdge(ack, tx_rd_gray_d2d)
    BY <1>1 DEF TxWbTick
  <2>2. ack \in BOOLEAN
    BY <1>0
  <2> QED BY <1>1, <2>1, <2>2 DEF TxWbTick, WbSteps
<1>2. CASE TxD2dTick
  <2>1. PICK ready \in BOOLEAN : TxD2dEdge(ready, TxEnabled, tx_fifo_wr_ptr_gray)
    BY <1>2 DEF TxD2dTick
  <2> QED BY <1>0, <1>2, <2>1 DEF TxD2dTick, D2dSteps
<1>3. CASE TxBothTick
  <2>1. PICK ack \in {FALSE, tx_wb_stb},
             s \in Mix(tx_rd_gray_d2d, ToGray[tx_fifo_rd_ptr_d2d]) : TxWbEdge(ack, s)
    BY <1>3 DEF TxBothTick
  <2>2. s \in ReadSamples
    BY MixStep DEF ReadSamples, TxTypeOK, OneStep
  <2>3. PICK ready \in BOOLEAN, enable \in {TxEnabled, TxEnabled'},
             t \in Mix(tx_fifo_wr_ptr_gray, ToGray[tx_fifo_wr_ptr]) :
             TxD2dEdge(ready, enable, t)
    BY <1>3 DEF TxBothTick
  <2>4. t \in WriteSamples
    BY MixStep DEF WriteSamples, TxTypeOK, OneStep
  <2>5. ack \in BOOLEAN /\ enable \in BOOLEAN
    BY <1>0
  <2> QED BY <2>1, <2>2, <2>3, <2>4, <2>5 DEF WbSteps, D2dSteps
<1>4. CASE UNCHANGED txVars
  BY <1>4 DEF txVars, TxKeepWb, TxKeepD2d
<1> QED BY <1>1, <1>2, <1>3, <1>4 DEF TxNext

-----------------------------------------------------------------------------
(* What an edge of each domain does                                         *)

\* A flit is strobed from WAIT2 or WAIT3, into a FIFO that is not full, whole.
LEMMA DmaEdge ==
    ASSUME TxInv, NEW ack \in BOOLEAN, TxDmaStep(ack)
    PROVE  /\ tx_fifo_wr_en' \in BOOLEAN
           /\ tx_dma_state' \in {"WAIT", "WAIT2", "WAIT3"} =>
                  tx_dma_remaining' > 0 /\ ~tx_fifo_wr_en'
           /\ tx_dma_state' \in {"WAIT2", "WAIT3"} =>
                  tx_dma_state \in {"WAIT", "WAIT2", "WAIT3"}
           /\ tx_fifo_wr_en' =>
                  /\ tx_dma_state \in {"WAIT2", "WAIT3"} /\ ~tx_fifo_full
                  /\ sent' = Append(sent, FlitAt(tx_dma_current_addr))
                  /\ tx_fifo_wdata' = FlitAt(tx_dma_current_addr)
           /\ ~tx_fifo_wr_en' => sent' = sent
<1> USE DEF TxInv, TxTypeOK, Room, Fetched
<1>1. CASE TxDmaIdle
  BY <1>1 DEF TxDmaIdle
<1>2. CASE TxDmaFetch
  BY <1>2 DEF TxDmaFetch
<1>3. CASE TxDmaWait(ack)
  BY <1>3 DEF TxDmaWait
<1>4. CASE TxDmaWait2(ack)
  BY <1>4 DEF TxDmaWait2, StrobeFlit, HoldFlit, FlitAt, Flit
<1>5. CASE TxDmaWait3
  BY <1>5 DEF TxDmaWait3, StrobeFlit, HoldFlit
<1>6. CASE TxDmaDone
  BY <1>6 DEF TxDmaDone
<1> QED BY <1>1, <1>2, <1>3, <1>4, <1>5, <1>6 DEF TxDmaStep

LEMMA FlitAtType == \A a \in Nat : FlitAt(a) \in Flit
BY DEF FlitAt, Flit

\* The engine's registers keep their types.
LEMMA DmaTypes ==
    ASSUME TxInv, NEW ack \in BOOLEAN, TxDmaStep(ack)
    PROVE  /\ tx_dma_state' \in TxDmaStates
           /\ tx_dma_current_addr' \in Nat /\ tx_dma_remaining' \in Nat
           /\ tx_wb_adr' \in Nat
           /\ tx_dma_busy' \in BOOLEAN /\ tx_dma_done' \in BOOLEAN
           /\ tx_fifo_wdata' \in Flit /\ sent' \in Seq(Flit)
<1> USE DEF TxInv, TxTypeOK, Room, TxDmaStates
<1>0. FlitAt(tx_dma_current_addr) \in Flit
  BY FlitAtType
<1>1. CASE TxDmaIdle
  BY <1>1 DEF TxDmaIdle
<1>2. CASE TxDmaFetch
  BY <1>2 DEF TxDmaFetch
<1>3. CASE TxDmaWait(ack)
  <2>1. tx_fifo_wdata' \in Flit
    BY <1>3 DEF TxDmaWait, Flit
  <2> QED BY <1>3, <2>1 DEF TxDmaWait
<1>4. CASE TxDmaWait2(ack)
  <2>1. tx_fifo_wdata' \in Flit
    BY <1>4 DEF TxDmaWait2, Flit
  <2>2. tx_dma_remaining - 1 \in Nat /\ tx_dma_current_addr + 8 \in Nat
    BY <1>4 DEF TxDmaWait2
  <2>3. UNCHANGED <<tx_wb_adr, tx_dma_busy, tx_dma_done>>
    BY <1>4 DEF TxDmaWait2
  <2>4. CASE StrobeFlit
    BY <1>0, <2>1, <2>2, <2>3, <2>4 DEF StrobeFlit
  <2>5. CASE ~StrobeFlit
    BY <1>4, <2>1, <2>3, <2>5 DEF TxDmaWait2, HoldFlit
  <2> QED BY <2>4, <2>5
<1>5. CASE TxDmaWait3
  <2>1. UNCHANGED <<tx_wb_adr, tx_fifo_wdata, tx_dma_busy, tx_dma_done>>
    BY <1>5 DEF TxDmaWait3
  <2>2. tx_dma_remaining - 1 \in Nat /\ tx_dma_current_addr + 8 \in Nat
    BY <1>5 DEF TxDmaWait3
  <2>3. CASE StrobeFlit
    BY <1>0, <2>1, <2>2, <2>3 DEF StrobeFlit
  <2>4. CASE ~StrobeFlit
    BY <1>5, <2>1, <2>4 DEF TxDmaWait3, HoldFlit
  <2> QED BY <2>3, <2>4
<1>6. CASE TxDmaDone
  BY <1>6 DEF TxDmaDone
<1> QED BY <1>1, <1>2, <1>3, <1>4, <1>5, <1>6 DEF TxDmaStep

\* The words fetched so far stay those of the current address.
LEMMA DmaFetched ==
    ASSUME TxInv, NEW ack \in BOOLEAN, TxDmaStep(ack)
    PROVE  Fetched'
<1> USE DEF TxInv, TxTypeOK, Fetched
<1>1. CASE TxDmaIdle
  BY <1>1 DEF TxDmaIdle
<1>2. CASE TxDmaFetch
  BY <1>2 DEF TxDmaFetch
<1>3. CASE TxDmaWait(ack)
  BY <1>3 DEF TxDmaWait, Flit
<1>4. CASE TxDmaWait2(ack)
  BY <1>4 DEF TxDmaWait2, StrobeFlit, HoldFlit, Flit, FlitAt
<1>5. CASE TxDmaWait3
  BY <1>5 DEF TxDmaWait3, StrobeFlit, HoldFlit
<1>6. CASE TxDmaDone
  BY <1>6 DEF TxDmaDone
<1> QED BY <1>1, <1>2, <1>3, <1>4, <1>5, <1>6 DEF TxDmaStep

\* The count lets the sender go only when the FIFO holds a flit.
LEMMA GoMeansFlit ==
    ASSUME TxInv, SendGo
    PROVE  /\ WrBinOK /\ CountOK
           /\ Dist(wr_ptr_bin, tx_fifo_rd_ptr_d2d) > 0
           /\ Dist(tx_fifo_rd_ptr_d2d, tx_fifo_rd_ptr) < Dist(wr_ptr_bin, tx_fifo_rd_ptr)
<1>1. WrBinOK /\ CountOK
  BY DEF TxInv, StartUp, SendGo
<1>2. Dist(wr_ptr_bin, tx_fifo_rd_ptr_d2d) > 0
  BY <1>1, DistType, PtrType DEF CountOK, SendGo, TxInv, TxTypeOK
<1>3. Dist(wr_ptr_bin, tx_fifo_rd_ptr_d2d)
          = Dist(wr_ptr_bin, tx_fifo_rd_ptr) - Dist(tx_fifo_rd_ptr_d2d, tx_fifo_rd_ptr)
  BY <1>1, Rebase DEF WrBinOK, NotAfter, TxInv, TxTypeOK
<1> QED BY <1>1, <1>2, <1>3, DistType DEF TxInv, TxTypeOK

\* The sender stays at its place in the FIFO or takes out the flit it is at.
LEMMA SendEdge ==
    ASSUME TxInv, NEW ready \in BOOLEAN, SendStep(ready)
    PROVE  \/ tx_fifo_rd_ptr_d2d' = tx_fifo_rd_ptr_d2d /\ Taken' = Taken
           \/ /\ tx_fifo_rd_ptr_d2d' = Next1(tx_fifo_rd_ptr_d2d) /\ Taken' = Taken + 1
              /\ SendGo /\ tx_data' = tx_fifo[tx_fifo_rd_ptr_d2d]
<1> USE DEF TxInv, TxTypeOK, Presented, Taken, Held
<1>1. CASE SendNothing
  BY <1>1 DEF SendNothing, Hold
<1>2. CASE SendNext(ready)
  <2>1. tx_data' \in Flit
    BY <1>2 DEF SendNext
  <2> QED BY <1>2, <2>1 DEF SendNext, Assign
<1>3. CASE SendRetry(ready)
  BY <1>3 DEF SendRetry, Assign, Hold
<1>4. CASE SendReturn
  BY <1>4 DEF SendReturn, Assign
<1> QED BY <1>1, <1>2, <1>3, <1>4 DEF SendStep

\* The sender's registers keep their types.
LEMMA SendTypes ==
    ASSUME TxInv, NEW ready \in BOOLEAN, SendStep(ready)
    PROVE  /\ tx_fifo_rd_ptr_d2d' \in Ptr
           /\ tx_d2d_state' \in TxSendStates /\ n_tx_d2d_state' \in TxSendStates
           /\ n_tx_d2d_state' = "RETRY" <=> tx_d2d_state' = "RETRY"
           /\ tx_data' \in Flit /\ presented' \in Seq(Flit)
           /\ tx_valid' \in BOOLEAN
<1> USE Next1Type DEF TxInv, TxTypeOK, Presented, TxSendStates
<1>1. CASE SendNothing
  BY <1>1 DEF SendNothing, Hold
<1>2. CASE SendNext(ready)
  <2>1. tx_data' \in Flit
    BY <1>2 DEF SendNext
  <2>2. tx_valid' = ready
    BY <1>2 DEF SendNext
  <2>3. presented' \in Seq(Flit)
    BY <1>2, <2>1, SMTT(40) DEF SendNext
  <2>4. Assign("IDLE") \/ Assign("RETRY")
    BY <1>2 DEF SendNext
  <2>5. tx_fifo_rd_ptr_d2d' \in Ptr
    BY <1>2 DEF SendNext
  <2> QED BY <2>1, <2>2, <2>3, <2>4, <2>5 DEF Assign
<1>3. CASE SendRetry(ready)
  <2>1. tx_valid' = ready
    BY <1>3 DEF SendRetry
  <2>2. presented' \in Seq(Flit)
    <3>1. presented' = Append(presented, tx_data) \/ presented' = presented
      BY <1>3, Zenon DEF SendRetry
    <3> QED BY <3>1, SMTT(40)
  <2>3. Assign("RETRY_COMPLETE") \/ Hold
    BY <1>3 DEF SendRetry
  <2>4. UNCHANGED <<tx_fifo_rd_ptr_d2d, tx_data>> /\ n_tx_d2d_state = "RETRY"
    BY <1>3 DEF SendRetry
  <2>5. /\ tx_d2d_state' \in TxSendStates /\ n_tx_d2d_state' \in TxSendStates
        /\ n_tx_d2d_state' = "RETRY" <=> tx_d2d_state' = "RETRY"
    BY <2>3, <2>4 DEF Assign, Hold
  <2> QED BY <2>1, <2>2, <2>4, <2>5
<1>4. CASE SendReturn
  BY <1>4 DEF SendReturn, Assign
<1> QED BY <1>1, <1>2, <1>3, <1>4 DEF SendStep

-----------------------------------------------------------------------------
(* The pointers at an edge, all measured from the base before the edge      *)

D(p) == Dist(p, tx_fifo_rd_ptr)

\* The decoded copies are pointers, in order.
LEMMA Copies ==
    ASSUME TxInv
    PROVE  /\ {tx_fifo_rd_ptr, tx_fifo_rd_ptr_wb_bin, tx_fifo_rd_ptr_d2d, wr_ptr_bin,
               tx_fifo_wr_ptr, FromGray[tx_rd_gray_sync2], FromGray[tx_rd_gray_sync1],
               FromGray[tx_rd_gray_d2d], FromGray[tx_fifo_wr_ptr_gray_sync],
               FromGray[tx_fifo_wr_ptr_gray]} \subseteq Ptr
           /\ D(tx_fifo_rd_ptr_wb_bin) <= D(FromGray[tx_rd_gray_sync2])
           /\ D(FromGray[tx_rd_gray_sync2]) <= D(FromGray[tx_rd_gray_sync1])
           /\ D(FromGray[tx_rd_gray_sync1]) <= D(FromGray[tx_rd_gray_d2d])
           /\ D(FromGray[tx_rd_gray_d2d]) <= D(tx_fifo_rd_ptr_d2d)
           /\ D(tx_fifo_rd_ptr_d2d) <= D(FromGray[tx_fifo_wr_ptr_gray_sync])
           /\ D(FromGray[tx_fifo_wr_ptr_gray_sync]) <= D(FromGray[tx_fifo_wr_ptr_gray])
           /\ D(FromGray[tx_fifo_wr_ptr_gray]) <= D(tx_fifo_wr_ptr)
<1>1. Ordered
  BY DEF TxInv
<1> QED BY <1>1, WordType DEF TxInv, TxTypeOK, Ordered, RingOrder, NotAfter, D

\* A chain of pointers stays one when it is measured from a base further on.
LEMMA RebaseOrder ==
    ASSUME NEW b \in Ptr, NEW n \in Ptr, NEW x1 \in Ptr, NEW x2 \in Ptr, NEW x3 \in Ptr,
           NEW x4 \in Ptr, NEW x5 \in Ptr, NEW x6 \in Ptr, NEW x7 \in Ptr, NEW x8 \in Ptr,
           RingOrder(b, x1, x2, x3, x4, x5, x6, x7, x8), Dist(n, b) <= Dist(x1, b)
    PROVE  RingOrder(n, x1, x2, x3, x4, x5, x6, x7, x8)
<1>1. \A p \in Ptr : Dist(p, b) \in Nat /\ Dist(p, n) \in Nat
  BY DistType
<1>2. \A x \in {x1, x2, x3, x4, x5, x6, x7, x8} : Dist(n, b) <= Dist(x, b)
  BY <1>1 DEF RingOrder, NotAfter
<1>3. \A x \in {x1, x2, x3, x4, x5, x6, x7, x8} : Dist(x, n) = Dist(x, b) - Dist(n, b)
  BY <1>2, Rebase
<1> QED BY <1>1, <1>3 DEF RingOrder, NotAfter

\* A wb edge: every copy takes the value of the next, and a write has room to step.
LEMMA WbPointers ==
    ASSUME TxInv, NEW samples, WbSteps(samples)
    PROVE  /\ tx_fifo_rd_ptr' = tx_fifo_rd_ptr_wb_bin
           /\ tx_fifo_rd_ptr_wb_bin' = FromGray[tx_rd_gray_sync2]
           /\ tx_rd_gray_sync2' = tx_rd_gray_sync1 /\ tx_rd_gray_sync1' \in samples
           /\ tx_fifo_wr_ptr_gray' = ToGray[tx_fifo_wr_ptr]
           /\ tx_fifo_wr_ptr' = IF tx_fifo_wr_en THEN Next1(tx_fifo_wr_ptr)
                                ELSE tx_fifo_wr_ptr
           /\ tx_fifo_wr_ptr' \in Ptr /\ D(tx_fifo_wr_ptr) <= D(tx_fifo_wr_ptr')
           /\ tx_fifo' = IF tx_fifo_wr_en
                         THEN [tx_fifo EXCEPT ![tx_fifo_wr_ptr] = tx_fifo_wdata]
                         ELSE tx_fifo
           /\ tx_fifo_count' = D(tx_fifo_wr_ptr)
<1>1. TxFifoWrite /\ \E s \in samples : SyncReadPtr(s)
  BY DEF WbSteps, TxWbEdge
<1>2. tx_fifo_wr_en => ~tx_fifo_full /\ D(tx_fifo_wr_ptr) < LastEntry
  BY PtrType DEF TxInv, TxTypeOK, Room, tx_fifo_full, D
<1>3. /\ tx_fifo_wr_ptr' = IF tx_fifo_wr_en THEN Next1(tx_fifo_wr_ptr)
                           ELSE tx_fifo_wr_ptr
      /\ tx_fifo' = IF tx_fifo_wr_en
                    THEN [tx_fifo EXCEPT ![tx_fifo_wr_ptr] = tx_fifo_wdata]
                    ELSE tx_fifo
  BY <1>1, <1>2 DEF TxFifoWrite
<1>4. tx_fifo_wr_ptr' \in Ptr
  BY <1>3, Next1Type DEF TxInv, TxTypeOK
<1>5. D(tx_fifo_wr_ptr) <= D(tx_fifo_wr_ptr')
  <2>1. tx_fifo_wr_ptr \in Ptr /\ tx_fifo_rd_ptr \in Ptr
    BY DEF TxInv, TxTypeOK
  <2> QED BY <1>2, <1>3, <2>1, StepAway, DistType DEF D
<1> QED BY <1>1, <1>3, <1>4, <1>5 DEF TxFifoWrite, SyncReadPtr, D

\* A d2d edge: the read pointer steps at most to the write pointer it knows of.
LEMMA D2dPointers ==
    ASSUME TxInv, NEW samples, D2dSteps(samples)
    PROVE  /\ tx_fifo_wr_ptr_gray_sync' \in samples
           /\ wr_ptr_bin' = FromGray[tx_fifo_wr_ptr_gray_sync]
           /\ tx_fifo_count_d2d' = Dist(wr_ptr_bin, tx_fifo_rd_ptr_d2d')
           /\ tx_rd_gray_d2d' = ToGray[tx_fifo_rd_ptr_d2d]
           /\ tx_fifo_rd_ptr_d2d' \in {tx_fifo_rd_ptr_d2d, Next1(tx_fifo_rd_ptr_d2d)}
           /\ tx_fifo_rd_ptr_d2d' \in Ptr
           /\ D(tx_fifo_rd_ptr_d2d) <= D(tx_fifo_rd_ptr_d2d')
           /\ D(tx_fifo_rd_ptr_d2d') <= D(FromGray[tx_fifo_wr_ptr_gray_sync])
           /\ WrBinOK => D(tx_fifo_rd_ptr_d2d') <= D(wr_ptr_bin)
<1>1. PICK ready \in BOOLEAN, enable \in BOOLEAN, s \in samples : TxD2dEdge(ready, enable, s)
  BY DEF D2dSteps
<1>2. TxFifoRead(s) /\ SendStep(ready)
  BY <1>1 DEF TxD2dEdge
<1>3. tx_fifo_rd_ptr_d2d' \in Ptr
  BY <1>2, SendTypes
<1>4. {tx_fifo_rd_ptr, tx_fifo_rd_ptr_d2d, wr_ptr_bin,
       FromGray[tx_fifo_wr_ptr_gray_sync]} \subseteq Ptr
  BY Copies
<1>5. CASE tx_fifo_rd_ptr_d2d' = tx_fifo_rd_ptr_d2d
  BY <1>2, <1>3, <1>4, <1>5, Copies, DistType DEF TxFifoRead, D, WrBinOK, NotAfter
<1>6. CASE tx_fifo_rd_ptr_d2d' = Next1(tx_fifo_rd_ptr_d2d) /\ SendGo
  <2>1. WrBinOK /\ D(tx_fifo_rd_ptr_d2d) < D(wr_ptr_bin)
    BY <1>6, GoMeansFlit DEF D
  <2>2. D(tx_fifo_rd_ptr_d2d') = D(tx_fifo_rd_ptr_d2d) + 1
    BY <1>4, <1>6, <2>1, StepBefore DEF D
  <2>3. D(wr_ptr_bin) <= D(FromGray[tx_fifo_wr_ptr_gray_sync])
    BY <2>1 DEF WrBinOK, NotAfter, D
  <2>4. \A p \in Ptr : D(p) \in Nat
    BY <1>4, DistType DEF D
  <2> QED BY <1>2, <1>3, <1>4, <1>6, <2>1, <2>2, <2>3, <2>4 DEF TxFifoRead
<1> QED BY <1>2, <1>5, <1>6, SendEdge

-----------------------------------------------------------------------------
(* Every part of the invariant is preserved                                 *)

\* Gray words are at most a step behind, and the crossing copies hold Gray words.
LEMMA WordsStep ==
    ASSUME TxInv, [TxNext]_txVars
    PROVE  /\ OneStep'
           /\ {tx_rd_gray_sync1', tx_rd_gray_sync2', tx_rd_gray_d2d',
               tx_fifo_wr_ptr_gray_sync', tx_fifo_wr_ptr_gray'} \subseteq Word
           /\ {tx_fifo_rd_ptr', tx_fifo_rd_ptr_wb_bin', tx_fifo_rd_ptr_d2d', wr_ptr_bin',
               tx_fifo_wr_ptr'} \subseteq Ptr
<1> USE DEF TxInv, TxTypeOK
<1>1. CASE TxKeepWb /\ TxKeepD2d
  BY <1>1 DEF TxKeepWb, TxKeepD2d, txWbVars, txD2dVars, txFifoWbVars, txFifoD2dVars,
              txSendVars, OneStep
<1>2. CASE WbSteps({tx_rd_gray_d2d}) /\ TxKeepD2d
  BY <1>2, WbPointers, WordType
     DEF TxKeepD2d, txD2dVars, txFifoD2dVars, txSendVars, OneStep
<1>3. CASE TxKeepWb /\ D2dSteps({tx_fifo_wr_ptr_gray})
  BY <1>3, D2dPointers, WordType DEF TxKeepWb, txWbVars, txFifoWbVars, OneStep
<1>4. CASE WbSteps(ReadSamples) /\ D2dSteps(WriteSamples)
  BY <1>4, WbPointers, D2dPointers, WordType DEF ReadSamples, WriteSamples, OneStep
<1> QED BY <1>1, <1>2, <1>3, <1>4, StepCases

\* The copies of the pointers stay in order.
LEMMA OrderedStep ==
    ASSUME TxInv, [TxNext]_txVars
    PROVE  /\ Ordered'
           /\ tx_fifo_rd_ptr' \in {tx_fifo_rd_ptr, tx_fifo_rd_ptr_wb_bin}
<1> DEFINE NewOrder(b) ==
      RingOrder(b, tx_fifo_rd_ptr_wb_bin', FromGray[tx_rd_gray_sync2'],
                FromGray[tx_rd_gray_sync1'], FromGray[tx_rd_gray_d2d'],
                tx_fifo_rd_ptr_d2d', FromGray[tx_fifo_wr_ptr_gray_sync'],
                FromGray[tx_fifo_wr_ptr_gray'], tx_fifo_wr_ptr')
<1>1. {tx_fifo_rd_ptr', tx_fifo_rd_ptr_wb_bin', FromGray[tx_rd_gray_sync2'],
       FromGray[tx_rd_gray_sync1'], FromGray[tx_rd_gray_d2d'],
       tx_fifo_rd_ptr_d2d', FromGray[tx_fifo_wr_ptr_gray_sync'],
       FromGray[tx_fifo_wr_ptr_gray'], tx_fifo_wr_ptr'} \subseteq Ptr
  BY WordsStep, WordType
<1>2. \A p \in Ptr : D(p) \in Nat
  BY Copies, DistType DEF D
<1>3. \A p \in Ptr : FromGray[ToGray[p]] = p
  BY WordType
<1> HIDE DEF NewOrder
<1>4. /\ NewOrder(tx_fifo_rd_ptr)
      /\ tx_fifo_rd_ptr' \in {tx_fifo_rd_ptr, tx_fifo_rd_ptr_wb_bin}
      /\ D(tx_fifo_rd_ptr') <= D(tx_fifo_rd_ptr_wb_bin')
  <2> USE DEF NewOrder, RingOrder, NotAfter
  <2>1. CASE TxKeepWb /\ TxKeepD2d
    <3>1. Ordered /\ D(tx_fifo_rd_ptr) = 0
      BY Copies, DistType DEF TxInv, D
    <3> QED BY <1>2, <2>1, <3>1, Copies
            DEF TxKeepWb, TxKeepD2d, txWbVars, txD2dVars, txFifoWbVars, txFifoD2dVars,
                txSendVars, Ordered
  <2>2. CASE WbSteps({tx_rd_gray_d2d}) /\ TxKeepD2d
    BY <1>2, <1>3, <2>2, Copies, WbPointers
       DEF TxKeepD2d, txD2dVars, txFifoD2dVars, txSendVars, D
  <2>3. CASE TxKeepWb /\ D2dSteps({tx_fifo_wr_ptr_gray})
    <3>1. D(tx_fifo_rd_ptr) = 0
      BY Copies, DistType DEF D
    <3> QED BY <1>2, <1>3, <2>3, <3>1, Copies, D2dPointers
            DEF TxKeepWb, txWbVars, txFifoWbVars, D
  <2>4. CASE WbSteps(ReadSamples) /\ D2dSteps(WriteSamples)
    BY <1>2, <1>3, <2>4, Copies, WbPointers, D2dPointers DEF ReadSamples, WriteSamples, D
  <2> QED BY <2>1, <2>2, <2>3, <2>4, StepCases DEF TxInv
<1>5. NewOrder(tx_fifo_rd_ptr')
  BY <1>1, <1>4, Copies, RebaseOrder DEF NewOrder, D
<1> QED BY <1>4, <1>5 DEF NewOrder, Ordered

\* Once the enable has come through its synchroniser the sender's copy of the write
\* pointer and the count made of it are valid.
LEMMA StartUpStep ==
    ASSUME TxInv, [TxNext]_txVars
    PROVE  StartUp'
<1>1. \A p \in Ptr : D(p) \in Nat
  BY Copies, DistType DEF D
<1>2. tx_fifo_rd_ptr' \in {tx_fifo_rd_ptr, tx_fifo_rd_ptr_wb_bin}
  BY OrderedStep
<1>3. D(tx_fifo_rd_ptr') <= D(tx_fifo_rd_ptr_d2d)
  <2>1. D(tx_fifo_rd_ptr) = 0
    BY Copies, DistType DEF D
  <2> QED BY <1>1, <1>2, <2>1, Copies
<1>4. \A p \in Ptr : D(tx_fifo_rd_ptr') <= D(p) =>
          Dist(p, tx_fifo_rd_ptr') = D(p) - D(tx_fifo_rd_ptr')
  BY WordsStep, Copies, Rebase DEF D
<1>5. CASE TxKeepD2d
  <2>1. UNCHANGED <<tx_enable_sync, tx_fifo_wr_ptr_gray_sync, wr_ptr_bin,
                    tx_fifo_count_d2d, tx_fifo_rd_ptr_d2d>>
    BY <1>5 DEF TxKeepD2d, txD2dVars, txFifoD2dVars, txSendVars
  <2>2. WrBinOK => WrBinOK'
    BY <1>1, <1>2, <1>3, <1>4, <2>1, Copies DEF WrBinOK, NotAfter, D
  <2>3. StartUp
    BY DEF TxInv
  <2> QED BY <2>1, <2>2, <2>3 DEF StartUp, CountOK
<1>6. ASSUME NEW samples \in {{tx_fifo_wr_ptr_gray}, WriteSamples}, D2dSteps(samples)
      PROVE  StartUp'
  <2> DEFINE ws == FromGray[tx_fifo_wr_ptr_gray_sync]
  <2>1. D(ws) <= D(FromGray[tx_fifo_wr_ptr_gray_sync'])
    <3>1. tx_fifo_wr_ptr_gray_sync' \in {tx_fifo_wr_ptr_gray, ToGray[tx_fifo_wr_ptr]}
      BY <1>6, D2dPointers DEF WriteSamples
    <3>2. FromGray[tx_fifo_wr_ptr_gray_sync']
              \in {FromGray[tx_fifo_wr_ptr_gray], tx_fifo_wr_ptr}
      BY <3>1, Copies, WordType
    <3> QED BY <1>1, <3>2, Copies
  <2>2. wr_ptr_bin' = ws /\ ws \in Ptr /\ D(tx_fifo_rd_ptr_d2d') <= D(ws)
    BY <1>6, D2dPointers, Copies
  <2>3. tx_fifo_rd_ptr_d2d' \in Ptr /\ D(tx_fifo_rd_ptr_d2d) <= D(tx_fifo_rd_ptr_d2d')
    BY <1>6, D2dPointers
  <2>4. WrBinOK'
    <3>1. FromGray[tx_fifo_wr_ptr_gray_sync'] \in Ptr /\ tx_fifo_rd_ptr' \in Ptr
      BY WordsStep, WordType
    <3> HIDE DEF ws
    <3>2. /\ Dist(tx_fifo_rd_ptr_d2d', tx_fifo_rd_ptr') <= Dist(ws, tx_fifo_rd_ptr')
          /\ Dist(ws, tx_fifo_rd_ptr')
                 <= Dist(FromGray[tx_fifo_wr_ptr_gray_sync'], tx_fifo_rd_ptr')
      BY <1>1, <1>3, <1>4, <2>1, <2>2, <2>3, <3>1, Copies
    <3> QED BY <2>2, <3>2 DEF WrBinOK, NotAfter
  <2>5. WrBinOK => CountOK'
    <3> SUFFICES ASSUME WrBinOK PROVE CountOK'
      OBVIOUS
    <3>1. D(tx_fifo_rd_ptr_d2d') <= D(wr_ptr_bin) /\ D(wr_ptr_bin) <= D(ws)
      BY <1>6, D2dPointers DEF WrBinOK, NotAfter, D
    <3>2. \A p \in Ptr : D(tx_fifo_rd_ptr_d2d') <= D(p) =>
              Dist(p, tx_fifo_rd_ptr_d2d') = D(p) - D(tx_fifo_rd_ptr_d2d')
      BY <2>3, Copies, Rebase DEF D
    <3>3. Dist(wr_ptr_bin, tx_fifo_rd_ptr_d2d') <= Dist(ws, tx_fifo_rd_ptr_d2d')
      <4> HIDE DEF ws
      <4> QED BY <1>1, <2>2, <2>3, <3>1, <3>2, Copies
    <3>4. tx_fifo_count_d2d' = Dist(wr_ptr_bin, tx_fifo_rd_ptr_d2d')
      BY <1>6, D2dPointers
    <3> QED BY <2>2, <3>3, <3>4 DEF CountOK
  <2>6. tx_enable_sync'[1] = tx_enable_sync[0] /\ tx_enable_sync'[2] = tx_enable_sync[1]
    BY <1>6 DEF D2dSteps, TxD2dEdge, SyncEnable, Shift
  <2>7. WrBinOK \/ (~tx_enable_sync[0] /\ ~tx_enable_sync[1])
    BY DEF TxInv, StartUp
  <2> QED BY <2>4, <2>5, <2>6, <2>7 DEF StartUp
<1> QED BY <1>5, <1>6, StepCases DEF TxInv

\* A flit is strobed only when the FIFO can take it.
LEMMA RoomStep ==
    ASSUME TxInv, [TxNext]_txVars
    PROVE  Room' /\ Fetched'
<1>1. CASE TxKeepWb
  <2>1. UNCHANGED <<tx_dma_state, tx_dma_remaining, tx_fifo_wr_en, tx_fifo_wr_ptr,
                    tx_fifo_rd_ptr, tx_fifo_count, tx_wb_adr, tx_dma_current_addr,
                    tx_fifo_wdata>>
    BY <1>1 DEF TxKeepWb, txWbVars, txDmaVars, txFifoWbVars
  <2>2. Room /\ Fetched
    BY DEF TxInv
  <2> QED BY <2>1, <2>2 DEF Room, Fetched
<1>2. ASSUME NEW samples, WbSteps(samples)
      PROVE  Room' /\ Fetched'
  <2>1. PICK ack \in BOOLEAN : TxDmaStep(ack)
    BY <1>2 DEF WbSteps, TxWbEdge
  <2>2. Fetched'
    BY <2>1, DmaFetched
  <2>3. /\ tx_fifo_count' = D(tx_fifo_wr_ptr)
        /\ tx_fifo_wr_ptr' = IF tx_fifo_wr_en THEN Next1(tx_fifo_wr_ptr)
                             ELSE tx_fifo_wr_ptr
    BY <1>2, WbPointers
  <2>4. Dist(tx_fifo_wr_ptr, tx_fifo_rd_ptr') <= D(tx_fifo_wr_ptr)
    <3>1. \A p \in Ptr : D(p) \in Nat
      BY Copies, DistType DEF D
    <3>2. D(tx_fifo_rd_ptr') <= D(tx_fifo_wr_ptr) /\ tx_fifo_rd_ptr' \in Ptr
      BY <1>2, <3>1, WbPointers, Copies
    <3>3. Dist(tx_fifo_wr_ptr, tx_fifo_rd_ptr') = D(tx_fifo_wr_ptr) - D(tx_fifo_rd_ptr')
      BY <3>2, Copies, Rebase DEF D
    <3> QED BY <3>1, <3>2, <3>3, Copies
  <2>5. tx_dma_state' \in {"WAIT2", "WAIT3"} => tx_fifo_wr_ptr' = tx_fifo_wr_ptr
    BY <2>1, <2>3, DmaEdge DEF TxInv, Room
  <2>6. tx_fifo_wr_en' => tx_fifo_wr_ptr' = tx_fifo_wr_ptr /\ D(tx_fifo_wr_ptr) < LastEntry
    <3> SUFFICES ASSUME tx_fifo_wr_en'
                 PROVE  tx_fifo_wr_ptr' = tx_fifo_wr_ptr /\ D(tx_fifo_wr_ptr) < LastEntry
      OBVIOUS
    <3>1. tx_dma_state \in {"WAIT2", "WAIT3"} /\ ~tx_fifo_full
      BY <2>1, DmaEdge
    <3>2. ~tx_fifo_wr_en /\ D(tx_fifo_wr_ptr) <= tx_fifo_count
      BY <3>1 DEF TxInv, Room, D
    <3>3. tx_fifo_count < LastEntry
      BY <3>1, PtrType DEF TxInv, TxTypeOK, tx_fifo_full
    <3>4. tx_fifo_count \in Nat /\ D(tx_fifo_wr_ptr) \in Nat /\ LastEntry \in Nat
      BY PtrType, DistType DEF TxInv, TxTypeOK, D
    <3> QED BY <2>3, <3>2, <3>3, <3>4
  <2>7. /\ Dist(tx_fifo_wr_ptr, tx_fifo_rd_ptr') \in Nat /\ D(tx_fifo_wr_ptr) \in Nat
        /\ LastEntry \in Nat
    BY WordsStep, DistType, PtrType DEF TxInv, TxTypeOK, D
  <2>8. tx_dma_state' \in {"WAIT", "WAIT2", "WAIT3"} =>
            tx_dma_remaining' > 0 /\ ~tx_fifo_wr_en'
    BY <2>1, DmaEdge
  <2> QED BY <2>2, <2>3, <2>4, <2>5, <2>6, <2>7, <2>8 DEF Room
<1> QED BY <1>1, <1>2, StepCases DEF TxInv

-----------------------------------------------------------------------------
(* What the FIFO holds                                                      *)

LEMMA TakenType == TxInv => Taken \in Nat /\ Len(presented) \in Nat /\ Len(sent) \in Nat
BY DEF TxInv, TxTypeOK, Taken, Held

\* A wb edge keeps the contents, whatever the sender does; and it only adds to sent.
LEMMA WbContents ==
    ASSUME TxInv, NEW samples, WbSteps(samples)
    PROVE  /\ Holds(tx_fifo_rd_ptr_d2d, Taken, tx_fifo_wr_ptr', tx_fifo', sent',
                    tx_fifo_wr_en')
           /\ tx_fifo_wr_en' => tx_fifo_wdata' = sent'[Len(sent')]
           /\ sent' = sent \/ \E x \in Flit : sent' = Append(sent, x)
<1> DEFINE r == tx_fifo_rd_ptr_d2d
           w == tx_fifo_wr_ptr
<1>1. PICK ack \in BOOLEAN : TxDmaStep(ack)
  BY DEF WbSteps, TxWbEdge
<1>2. /\ r \in Ptr /\ w \in Ptr /\ Taken \in Nat /\ sent \in Seq(Flit)
      /\ tx_fifo \in [Ptr -> Flit] /\ tx_fifo_wdata \in Flit
      /\ tx_fifo_wr_en \in BOOLEAN /\ tx_fifo_wr_en' \in BOOLEAN
      /\ FlitAt(tx_dma_current_addr) \in Flit
  BY <1>1, DmaEdge, TakenType, FlitAtType DEF TxInv, TxTypeOK
<1>3. /\ Holds(r, Taken, w, tx_fifo, sent, tx_fifo_wr_en)
      /\ tx_fifo_wr_en => tx_fifo_wdata = sent[Len(sent)]
  BY DEF TxInv, Contents
<1>4. /\ tx_fifo_wr_ptr' = IF tx_fifo_wr_en THEN Next1(w) ELSE w
      /\ tx_fifo' = IF tx_fifo_wr_en THEN [tx_fifo EXCEPT ![w] = tx_fifo_wdata] ELSE tx_fifo
  BY WbPointers
<1> HIDE DEF r, w
<1>5. CASE tx_fifo_wr_en
  <2>1. ~tx_fifo_wr_en' /\ sent' = sent
    BY <1>1, <1>5, DmaEdge DEF TxInv, Room
  <2>2. Dist(w, r) < LastEntry
    <3>1. Dist(w, tx_fifo_rd_ptr) < LastEntry
      BY <1>5 DEF TxInv, Room, w
    <3>2. /\ Dist(r, tx_fifo_rd_ptr) <= Dist(w, tx_fifo_rd_ptr)
          /\ \A p \in Ptr : Dist(p, tx_fifo_rd_ptr) \in Nat
      BY Copies, DistType DEF D, r, w
    <3>3. Dist(w, r) = Dist(w, tx_fifo_rd_ptr) - Dist(r, tx_fifo_rd_ptr)
      BY <1>2, <3>2, Copies, Rebase
    <3> QED BY <1>2, <3>1, <3>2, <3>3, PtrType
  <2>3. Holds(r, Taken, w, tx_fifo, sent, TRUE) /\ tx_fifo_wdata = sent[Len(sent)]
    BY <1>3, <1>5 DEF Holds
  <2>4. Holds(r, Taken, Next1(w), [tx_fifo EXCEPT ![w] = tx_fifo_wdata], sent, FALSE)
    BY <1>2, <2>2, <2>3, HoldsWrite
  <2>5. /\ tx_fifo_wr_ptr' = Next1(w)
        /\ tx_fifo' = [tx_fifo EXCEPT ![w] = tx_fifo_wdata]
    BY <1>4, <1>5
  <2> QED BY <2>1, <2>4, <2>5 DEF Holds, r
<1>6. CASE ~tx_fifo_wr_en /\ tx_fifo_wr_en'
  <2>1. /\ sent' = Append(sent, FlitAt(tx_dma_current_addr))
        /\ tx_fifo_wdata' = FlitAt(tx_dma_current_addr)
    BY <1>1, <1>6, DmaEdge
  <2>2. Holds(r, Taken, w, tx_fifo, sent, FALSE)
    BY <1>3, <1>6 DEF Holds
  <2>3. Holds(r, Taken, w, tx_fifo, sent', TRUE)
    BY <1>2, <2>1, <2>2, HoldsStrobe
  <2>4. sent'[Len(sent')] = FlitAt(tx_dma_current_addr)
    BY <1>2, <2>1
  <2>5. tx_fifo_wr_ptr' = w /\ tx_fifo' = tx_fifo
    BY <1>4, <1>6
  <2> QED BY <1>2, <1>6, <2>1, <2>3, <2>4, <2>5 DEF Holds, r
<1>7. CASE ~tx_fifo_wr_en /\ ~tx_fifo_wr_en'
  <2>1. sent' = sent /\ tx_fifo_wr_ptr' = w /\ tx_fifo' = tx_fifo
    BY <1>1, <1>4, <1>7, DmaEdge
  <2> QED BY <1>3, <1>7, <2>1 DEF Holds, r
<1> QED BY <1>2, <1>5, <1>6, <1>7

\* When the sender goes the FIFO holds a flit, and still does if a write happens meanwhile.
LEMMA GoHasFlit ==
    ASSUME TxInv, [TxNext]_txVars, SendGo
    PROVE  /\ Dist(tx_fifo_wr_ptr, tx_fifo_rd_ptr_d2d) > 0
           /\ Dist(tx_fifo_wr_ptr', tx_fifo_rd_ptr_d2d) > 0
<1>1. /\ \A p \in Ptr : D(p) \in Nat
      /\ tx_fifo_wr_ptr \in Ptr /\ tx_fifo_wr_ptr' \in Ptr /\ tx_fifo_rd_ptr_d2d \in Ptr
  BY Copies, WordsStep, DistType DEF D
<1>2. D(tx_fifo_rd_ptr_d2d) < D(tx_fifo_wr_ptr)
  <2>1. /\ D(tx_fifo_rd_ptr_d2d) < D(wr_ptr_bin)
        /\ D(wr_ptr_bin) <= D(FromGray[tx_fifo_wr_ptr_gray_sync])
    BY GoMeansFlit DEF D, WrBinOK, NotAfter
  <2> QED BY <1>1, <2>1, Copies
<1>3. D(tx_fifo_wr_ptr) <= D(tx_fifo_wr_ptr')
  <2>1. CASE TxKeepWb
    BY <1>1, <2>1 DEF TxKeepWb, txWbVars, txFifoWbVars
  <2>2. ASSUME NEW samples, WbSteps(samples) PROVE D(tx_fifo_wr_ptr) <= D(tx_fifo_wr_ptr')
    BY <2>2, WbPointers
  <2> QED BY <2>1, <2>2, StepCases DEF TxInv
<1> QED BY <1>1, <1>2, <1>3, NotBase

\* After any step the FIFO, seen from the read pointer before it, is still right.
LEMMA ContentsWb ==
    ASSUME TxInv, [TxNext]_txVars
    PROVE  /\ Holds(tx_fifo_rd_ptr_d2d, Taken, tx_fifo_wr_ptr', tx_fifo', sent',
                    tx_fifo_wr_en')
           /\ tx_fifo_wr_en' => tx_fifo_wdata' = sent'[Len(sent')]
           /\ sent' = sent \/ \E x \in Flit : sent' = Append(sent, x)
<1>1. CASE TxKeepWb
  <2>1. UNCHANGED <<tx_fifo_wr_ptr, tx_fifo, sent, tx_fifo_wr_en, tx_fifo_wdata>>
    BY <1>1 DEF TxKeepWb, txWbVars, txDmaVars, txFifoWbVars
  <2> QED BY <2>1 DEF TxInv, Contents, Holds
<1>2. ASSUME NEW samples, WbSteps(samples)
      PROVE  /\ Holds(tx_fifo_rd_ptr_d2d, Taken, tx_fifo_wr_ptr', tx_fifo', sent',
                      tx_fifo_wr_en')
             /\ tx_fifo_wr_en' => tx_fifo_wdata' = sent'[Len(sent')]
             /\ sent' = sent \/ \E x \in Flit : sent' = Append(sent, x)
  BY <1>2, WbContents
<1> QED BY <1>1, <1>2, StepCases DEF TxInv

\* The sender stands still, or it acts.
LEMMA SenderCases ==
    ASSUME TxInv, [TxNext]_txVars
    PROVE  \/ UNCHANGED txSendVars
           \/ \E ready \in BOOLEAN : SendStep(ready)
<1>1. CASE TxKeepD2d
  BY <1>1 DEF TxKeepD2d, txD2dVars
<1>2. ASSUME NEW samples, D2dSteps(samples)
      PROVE  \E ready \in BOOLEAN : SendStep(ready)
  BY <1>2 DEF D2dSteps, TxD2dEdge
<1> QED BY <1>1, <1>2, StepCases DEF TxInv

\* The flits between the pointers are the ones taken up and not yet taken out.
LEMMA ContentsStep ==
    ASSUME TxInv, [TxNext]_txVars
    PROVE  Contents'
<1>1. /\ tx_fifo_rd_ptr_d2d \in Ptr /\ tx_fifo_wr_ptr' \in Ptr /\ Taken \in Nat
  BY Copies, WordsStep, TakenType
<1>2. CASE UNCHANGED txSendVars
  <2>1. tx_fifo_rd_ptr_d2d' = tx_fifo_rd_ptr_d2d /\ Taken' = Taken
    BY <1>2 DEF txSendVars, Taken, Held
  <2> QED BY <2>1, ContentsWb DEF Contents, Holds
<1>3. ASSUME NEW ready \in BOOLEAN, SendStep(ready)
      PROVE  Contents'
  <2>1. CASE tx_fifo_rd_ptr_d2d' = tx_fifo_rd_ptr_d2d /\ Taken' = Taken
    BY <2>1, ContentsWb DEF Contents, Holds
  <2>2. CASE /\ tx_fifo_rd_ptr_d2d' = Next1(tx_fifo_rd_ptr_d2d) /\ Taken' = Taken + 1
             /\ SendGo
    <3>1. Dist(tx_fifo_wr_ptr', tx_fifo_rd_ptr_d2d) > 0
      BY <2>2, GoHasFlit
    <3>2. Holds(Next1(tx_fifo_rd_ptr_d2d), Taken + 1, tx_fifo_wr_ptr', tx_fifo', sent',
                tx_fifo_wr_en')
      BY <1>1, <3>1, ContentsWb, HoldsRead
    <3> QED BY <2>2, <3>2, ContentsWb DEF Contents, Holds
  <2> QED BY <1>3, <2>1, <2>2, SendEdge
<1> QED BY <1>2, <1>3, SenderCases

\* What the sender takes out is the next flit in line.
LEMMA NextInLine ==
    ASSUME TxInv, SendGo, [TxNext]_txVars
    PROVE  /\ tx_fifo[tx_fifo_rd_ptr_d2d] = sent[Taken + 1]
           /\ Taken + 1 <= Len(sent)
<1>1. /\ tx_fifo_rd_ptr_d2d \in Ptr /\ tx_fifo_wr_ptr \in Ptr /\ Taken \in Nat
      /\ Dist(tx_fifo_wr_ptr, tx_fifo_rd_ptr_d2d) > 0
      /\ Dist(tx_fifo_wr_ptr, tx_fifo_rd_ptr_d2d) \in Nat
  BY Copies, TakenType, GoHasFlit, DistType
<1>2. Holds(tx_fifo_rd_ptr_d2d, Taken, tx_fifo_wr_ptr, tx_fifo, sent, tx_fifo_wr_en)
  BY DEF TxInv, Contents
<1>3. tx_fifo[tx_fifo_rd_ptr_d2d] = sent[Taken + 1]
  BY <1>1, <1>2, HoldsRead
<1>4. Len(sent) = Taken + Dist(tx_fifo_wr_ptr, tx_fifo_rd_ptr_d2d)
                      + (IF tx_fifo_wr_en THEN 1 ELSE 0)
  BY <1>2 DEF Holds
<1> QED BY <1>1, <1>3, <1>4

\* The sender presents nothing, or the next flit in line.
LEMMA PresentEdge ==
    ASSUME TxInv, [TxNext]_txVars, NEW ready \in BOOLEAN, SendStep(ready)
    PROVE  \/ presented' = presented
           \/ /\ presented' = Append(presented, sent[Len(presented) + 1])
              /\ Len(presented) < Len(sent)
<1> USE TakenType
<1>1. CASE SendNext(ready)
  <2>1. Taken = Len(presented)
    BY <1>1 DEF SendNext, Taken, Held
  <2>2. tx_data' = sent[Len(presented) + 1] /\ Len(presented) < Len(sent)
    BY <1>1, <2>1, NextInLine DEF SendNext
  <2>3. presented' = presented \/ presented' = Append(presented, tx_data')
    BY <1>1, Zenon DEF SendNext
  <2> QED BY <2>2, <2>3
<1>2. CASE SendRetry(ready)
  <2>1. Taken = Len(presented) + 1 /\ tx_data = sent[Taken]
    BY <1>2 DEF SendRetry, TxInv, Presented, Taken, Held
  <2>2. presented' = presented \/ presented' = Append(presented, tx_data)
    BY <1>2, Zenon DEF SendRetry
  <2>3. Taken <= Len(sent)
    <3>1. Holds(tx_fifo_rd_ptr_d2d, Taken, tx_fifo_wr_ptr, tx_fifo, sent, tx_fifo_wr_en)
      BY DEF TxInv, Contents
    <3>2. Dist(tx_fifo_wr_ptr, tx_fifo_rd_ptr_d2d) \in Nat
      BY Copies, DistType
    <3> QED BY <3>1, <3>2 DEF Holds
  <2> QED BY <2>1, <2>2, <2>3
<1>3. CASE SendNothing \/ SendReturn
  BY <1>3 DEF SendNothing, SendReturn
<1> QED BY <1>1, <1>2, <1>3 DEF SendStep

\* What was taken up stays in its place.
LEMMA SentGrows ==
    ASSUME TxInv, [TxNext]_txVars
    PROVE  \A i \in 1..Len(sent) : sent'[i] = sent[i]
<1>1. CASE sent' = sent
  BY <1>1
<1>2. ASSUME NEW x \in Flit, sent' = Append(sent, x)
      PROVE  \A i \in 1..Len(sent) : sent'[i] = sent[i]
  BY <1>2 DEF TxInv, TxTypeOK
<1> QED BY <1>1, <1>2, ContentsWb

LEMMA TakenSent == TxInv => Taken <= Len(sent) /\ Len(presented) <= Taken
<1> SUFFICES ASSUME TxInv PROVE Taken <= Len(sent) /\ Len(presented) <= Taken
  OBVIOUS
<1>1. Holds(tx_fifo_rd_ptr_d2d, Taken, tx_fifo_wr_ptr, tx_fifo, sent, tx_fifo_wr_en)
  BY DEF TxInv, Contents
<1>2. Dist(tx_fifo_wr_ptr, tx_fifo_rd_ptr_d2d) \in Nat
  BY Copies, DistType
<1>3. Taken <= Len(sent)
  BY <1>1, <1>2, TakenType DEF Holds
<1>4. Len(presented) <= Taken
  BY TakenType DEF Taken, Held
<1> QED BY <1>3, <1>4

\* The flit that waits in RETRY is the next in line.
LEMMA RetryStep ==
    ASSUME TxInv, [TxNext]_txVars
    PROVE  /\ n_tx_d2d_state' = "RETRY" <=> tx_d2d_state' = "RETRY"
           /\ tx_d2d_state' = "RETRY" => tx_data' = sent'[Taken']
<1>0. /\ Taken \in Nat /\ Len(sent) \in Nat /\ Taken <= Len(sent)
      /\ \A i \in 1..Len(sent) : sent'[i] = sent[i]
  BY TakenType, TakenSent, SentGrows
<1>1. ASSUME tx_d2d_state = "RETRY" PROVE tx_data = sent'[Taken]
  <2>1. Taken \in 1..Len(sent)
    BY <1>0, <1>1, TakenType DEF Taken, Held
  <2>2. tx_data = sent[Taken]
    BY <1>1 DEF TxInv, Presented
  <2> QED BY <1>0, <2>1, <2>2
<1>2. CASE UNCHANGED txSendVars
  <2>1. UNCHANGED <<tx_d2d_state, n_tx_d2d_state, tx_data>> /\ Taken' = Taken
    BY <1>2 DEF txSendVars, Taken, Held
  <2> QED BY <1>1, <2>1 DEF TxInv, Presented
<1>3. ASSUME NEW ready \in BOOLEAN, SendStep(ready)
      PROVE  /\ n_tx_d2d_state' = "RETRY" <=> tx_d2d_state' = "RETRY"
             /\ tx_d2d_state' = "RETRY" => tx_data' = sent'[Taken']
  <2>1. n_tx_d2d_state' = "RETRY" <=> tx_d2d_state' = "RETRY"
    BY <1>3, SendTypes
  <2>2. CASE SendNext(ready)
    <3>1. tx_data' = sent[Taken + 1] /\ Taken + 1 \in 1..Len(sent)
      BY <1>0, <2>2, NextInLine DEF SendNext
    <3>2. Taken = Len(presented) /\ Len(presented) \in Nat
      BY <2>2, TakenType DEF SendNext, Taken, Held
    <3>3. tx_d2d_state' = "RETRY" => presented' = presented
      BY <2>2 DEF SendNext, Assign
    <3> QED BY <1>0, <2>1, <3>1, <3>2, <3>3 DEF Taken, Held
  <2>3. CASE SendRetry(ready)
    <3>1. /\ tx_data' = tx_data /\ tx_d2d_state = "RETRY"
          /\ tx_d2d_state' = "RETRY" => presented' = presented
      BY <2>3 DEF SendRetry, Assign, Hold
    <3> QED BY <1>1, <2>1, <3>1 DEF Taken, Held
  <2>4. CASE SendNothing \/ SendReturn
    <3>1. tx_d2d_state' # "RETRY"
      BY <2>4 DEF SendNothing, SendReturn, Assign, Hold, TxInv, Presented
    <3> QED BY <2>1, <3>1
  <2> QED BY <1>3, <2>2, <2>3, <2>4 DEF SendStep
<1> QED BY <1>2, <1>3, SenderCases

\* What was presented is what was taken up, in its order.
LEMMA PresentedStep ==
    ASSUME TxInv, [TxNext]_txVars
    PROVE  Presented'
<1>0. /\ Len(presented) \in Nat /\ Len(sent) \in Nat /\ Len(presented) <= Len(sent)
      /\ presented \in Seq(Flit) /\ sent \in Seq(Flit)
      /\ \A i \in 1..Len(sent) : sent'[i] = sent[i]
      /\ \A i \in 1..Len(presented) : presented[i] = sent[i]
  BY TakenType, TakenSent, SentGrows DEF TxInv, TxTypeOK, Presented
<1>1. CASE presented' = presented
  BY <1>0, <1>1, RetryStep DEF Presented
<1>2. CASE /\ presented' = Append(presented, sent[Len(presented) + 1])
           /\ Len(presented) < Len(sent)
  <2>1. Len(presented') = Len(presented) + 1
    BY <1>0, <1>2
  <2>2. ASSUME NEW i \in 1..Len(presented') PROVE presented'[i] = sent'[i]
    <3>1. CASE i = Len(presented) + 1
      BY <1>0, <1>2, <3>1
    <3>2. CASE i # Len(presented) + 1
      BY <1>0, <1>2, <2>1, <3>2
    <3> QED BY <3>1, <3>2
  <2> QED BY <2>2, RetryStep DEF Presented
<1>3. presented' = presented
      \/ /\ presented' = Append(presented, sent[Len(presented) + 1])
         /\ Len(presented) < Len(sent)
  BY SenderCases, PresentEdge DEF txSendVars
<1> QED BY <1>1, <1>2, <1>3

-----------------------------------------------------------------------------
(* Types                                                                    *)

LEMMA CsrTypes ==
    ASSUME TxInv, [TxNext]_txVars
    PROVE  tx_control' \subseteq TxControl /\ tx_src_addr' \in Nat /\ tx_length' \in Nat
<1>1. CASE TxKeepSw
  BY <1>1 DEF TxKeepSw, txSwVars, TxInv, TxTypeOK
<1>2. CASE TxCsrWrite
  BY <1>1, <1>2, TxInputAssumption DEF TxCsrWrite, TxInv, TxTypeOK
<1> QED BY <1>1, <1>2 DEF TxNext, TxWbTick, TxD2dTick, TxBothTick, txVars, TxKeepSw

LEMMA WbTypes ==
    ASSUME TxInv, [TxNext]_txVars
    PROVE  /\ tx_dma_state' \in TxDmaStates
           /\ tx_dma_current_addr' \in Nat /\ tx_dma_remaining' \in Nat
           /\ tx_wb_adr' \in Nat
           /\ tx_dma_busy' \in BOOLEAN /\ tx_dma_done' \in BOOLEAN
           /\ tx_fifo_wr_en' \in BOOLEAN
           /\ tx_fifo_wdata' \in Flit /\ sent' \in Seq(Flit)
           /\ tx_fifo' \in [Ptr -> Flit] /\ tx_fifo_count' \in Ptr
<1>1. CASE TxKeepWb
  BY <1>1 DEF TxKeepWb, txWbVars, txDmaVars, txFifoWbVars, TxInv, TxTypeOK
<1>2. ASSUME NEW samples, WbSteps(samples)
      PROVE  /\ tx_dma_state' \in TxDmaStates
             /\ tx_dma_current_addr' \in Nat /\ tx_dma_remaining' \in Nat
             /\ tx_wb_adr' \in Nat
             /\ tx_dma_busy' \in BOOLEAN /\ tx_dma_done' \in BOOLEAN
             /\ tx_fifo_wr_en' \in BOOLEAN
             /\ tx_fifo_wdata' \in Flit /\ sent' \in Seq(Flit)
             /\ tx_fifo' \in [Ptr -> Flit] /\ tx_fifo_count' \in Ptr
  <2>1. PICK ack \in BOOLEAN : TxDmaStep(ack)
    BY <1>2 DEF WbSteps, TxWbEdge
  <2>2. tx_fifo' \in [Ptr -> Flit]
    BY <1>2, WbPointers DEF TxInv, TxTypeOK
  <2>3. tx_fifo_count' \in Ptr
    BY <1>2, WbPointers, Copies, DistType DEF D
  <2> QED BY <2>1, <2>2, <2>3, DmaTypes, DmaEdge
<1> QED BY <1>1, <1>2, StepCases DEF TxInv

LEMMA D2dTypes ==
    ASSUME TxInv, [TxNext]_txVars
    PROVE  /\ tx_enable_sync' \in [0..2 -> BOOLEAN] /\ tx_fifo_count_d2d' \in Ptr
           /\ tx_d2d_state' \in TxSendStates /\ n_tx_d2d_state' \in TxSendStates
           /\ tx_data' \in Flit /\ tx_valid' \in BOOLEAN /\ presented' \in Seq(Flit)
<1>1. CASE TxKeepD2d
  BY <1>1 DEF TxKeepD2d, txD2dVars, txFifoD2dVars, txSendVars, TxInv, TxTypeOK
<1>2. ASSUME NEW samples, D2dSteps(samples)
      PROVE  /\ tx_enable_sync' \in [0..2 -> BOOLEAN] /\ tx_fifo_count_d2d' \in Ptr
             /\ tx_d2d_state' \in TxSendStates /\ n_tx_d2d_state' \in TxSendStates
             /\ tx_data' \in Flit /\ tx_valid' \in BOOLEAN /\ presented' \in Seq(Flit)
  <2>1. PICK ready \in BOOLEAN, enable \in BOOLEAN, s \in samples :
             TxD2dEdge(ready, enable, s)
    BY <1>2 DEF D2dSteps
  <2>2. tx_enable_sync' \in [0..2 -> BOOLEAN]
    <3>1. tx_enable_sync' = Shift(tx_enable_sync, enable)
      BY <2>1 DEF TxD2dEdge, SyncEnable
    <3>2. /\ tx_enable_sync[0] \in BOOLEAN /\ tx_enable_sync[1] \in BOOLEAN
          /\ \A i \in 0..2 : i # 0 => i - 1 \in 0..1
      BY DEF TxInv, TxTypeOK
    <3> QED BY <3>1, <3>2 DEF Shift
  <2>3. tx_fifo_count_d2d' \in Ptr
    BY <1>2, D2dPointers, Copies, DistType
  <2>4. SendStep(ready)
    BY <2>1 DEF TxD2dEdge
  <2> QED BY <2>2, <2>3, <2>4, SendTypes
<1> QED BY <1>1, <1>2, StepCases DEF TxInv

-----------------------------------------------------------------------------
(* The theorems                                                             *)

\* The invariant holds after reset.
LEMMA InitInv == TxInit => TxInv
<1> SUFFICES ASSUME TxInit PROVE TxInv
  OBVIOUS
<1> USE DEF TxInit, TxInitWb, TxInitD2d
<1>1. 0 \in Ptr /\ ToGray[0] \in Word /\ FromGray[ToGray[0]] = 0
  BY DepthAssumption, WordType DEF Ptr
<1>2. TxTypeOK
  <2>1. ZeroFlit \in Flit
    BY DEF ZeroFlit, Flit
  <2>2. Low3 \in [0..2 -> BOOLEAN] /\ [p \in Ptr |-> ZeroFlit] \in [Ptr -> Flit]
    BY <2>1 DEF Low3
  <2>3. "IDLE" \in TxSendStates /\ "IDLE" \in TxDmaStates /\ {} \subseteq TxControl
    BY DEF TxSendStates, TxDmaStates
  <2>4. n_tx_d2d_state \in TxSendStates
    BY TxInputAssumption
  <2>5. <<>> \in Seq(Flit)
    OBVIOUS
  <2>6. TxInitWb /\ TxInitD2d
    OBVIOUS
  <2> HIDE DEF TxInit, TxInitWb, TxInitD2d
  <2>7. /\ tx_control \subseteq TxControl
        /\ tx_src_addr \in Nat /\ tx_length \in Nat
        /\ tx_dma_state \in TxDmaStates
        /\ tx_dma_current_addr \in Nat /\ tx_dma_remaining \in Nat /\ tx_wb_adr \in Nat
        /\ tx_dma_busy \in BOOLEAN /\ tx_dma_done \in BOOLEAN /\ tx_fifo_wr_en \in BOOLEAN
    BY <2>3, <2>6 DEF TxInitWb
  <2>8. /\ tx_fifo_wdata \in Flit /\ tx_fifo \in [Ptr -> Flit]
        /\ tx_fifo_wr_ptr \in Ptr /\ tx_fifo_rd_ptr \in Ptr /\ tx_fifo_count \in Ptr
        /\ tx_fifo_wr_ptr_gray \in Word /\ tx_rd_gray_sync1 \in Word
        /\ tx_rd_gray_sync2 \in Word /\ tx_fifo_rd_ptr_wb_bin \in Ptr
        /\ sent \in Seq(Flit)
    BY <1>1, <2>1, <2>2, <2>5, <2>6 DEF TxInitWb
  <2>9. /\ tx_enable_sync \in [0..2 -> BOOLEAN]
        /\ tx_fifo_wr_ptr_gray_sync \in Word /\ wr_ptr_bin \in Ptr
        /\ tx_fifo_count_d2d \in Ptr /\ tx_fifo_rd_ptr_d2d \in Ptr
        /\ tx_rd_gray_d2d \in Word
        /\ tx_d2d_state \in TxSendStates
        /\ tx_data \in Flit /\ tx_valid \in BOOLEAN /\ presented \in Seq(Flit)
    BY <1>1, <2>1, <2>2, <2>3, <2>5, <2>6 DEF TxInitD2d
  <2> QED BY <2>4, <2>7, <2>8, <2>9 DEF TxTypeOK
<1>3. Ordered /\ OneStep
  BY <1>1, DistType DEF Ordered, RingOrder, NotAfter, OneStep
<1>4. StartUp /\ Room /\ Fetched
  BY DEF StartUp, Low3, Room, Fetched
<1>5. Contents /\ Presented
  BY <1>1, DistType, PowerUpAssumption
     DEF Contents, Holds, Taken, Held, Presented
<1> QED BY <1>2, <1>3, <1>4, <1>5 DEF TxInv

\* Every step preserves it.
LEMMA NextInv == TxInv /\ [TxNext]_txVars => TxInv'
<1> SUFFICES ASSUME TxInv, [TxNext]_txVars PROVE TxInv'
  OBVIOUS
<1>1. TxTypeOK'
  BY CsrTypes, WbTypes, D2dTypes, WordsStep DEF TxTypeOK
<1> QED BY <1>1, WordsStep, OrderedStep, StartUpStep, RoomStep, ContentsStep,
           PresentedStep DEF TxInv

\* A step is one of the reliable channel from the memory to the peer.
LEMMA TxStepChannel ==
    ASSUME TxInv, [TxNext]_txVars
    PROVE  [TxChannel!Next]_<<sent, presented>>
<1>1. TxChannel!Leave
  BY SenderCases, PresentEdge DEF txSendVars, TxChannel!Leave
<1>2. sent' = sent \/ Len(sent) < Len(presented) + Depth
  <2>1. CASE TxKeepWb
    BY <2>1 DEF TxKeepWb, txWbVars, txDmaVars
  <2>2. ASSUME NEW samples, WbSteps(samples), sent' # sent
        PROVE  Len(sent) < Len(presented) + Depth
    <3>1. PICK ack \in BOOLEAN : TxDmaStep(ack)
      BY <2>2 DEF WbSteps, TxWbEdge
    <3>2. ~tx_fifo_wr_en /\ D(tx_fifo_wr_ptr) <= tx_fifo_count /\ ~tx_fifo_full
      BY <2>2, <3>1, DmaEdge DEF TxInv, Room, D
    <3>3. Len(sent) = Taken + Dist(tx_fifo_wr_ptr, tx_fifo_rd_ptr_d2d)
      BY <3>2, TakenType, Copies, DistType DEF TxInv, Contents, Holds
    <3>4. /\ \A p \in Ptr : D(p) \in Nat
          /\ Dist(tx_fifo_wr_ptr, tx_fifo_rd_ptr_d2d) \in Nat
          /\ Dist(tx_fifo_wr_ptr, tx_fifo_rd_ptr_d2d)
                 = D(tx_fifo_wr_ptr) - D(tx_fifo_rd_ptr_d2d)
      <4>1. /\ \A p \in Ptr : D(p) \in Nat
            /\ D(tx_fifo_rd_ptr_d2d) <= D(tx_fifo_wr_ptr)
        BY Copies, DistType DEF D
      <4> QED BY <4>1, Copies, DistType, Rebase DEF D
    <3>5. tx_fifo_count < Depth - 1 /\ tx_fifo_count \in Nat /\ Depth \in Nat
      BY <3>2, PtrType, DepthAssumption
         DEF TxInv, TxTypeOK, tx_fifo_full, LastEntry
    <3>6. Taken <= Len(presented) + 1
      BY TakenType DEF Taken, Held
    <3> QED BY <3>2, <3>3, <3>4, <3>5, <3>6, TakenType, Copies
  <2> QED BY <2>1, <2>2, StepCases DEF TxInv
<1>3. TxChannel!Enter
  <2>1. sent \in Seq(Flit)
    BY DEF TxInv, TxTypeOK
  <2>2. ASSUME NEW x \in Flit, sent' = Append(sent, x)
        PROVE  /\ Len(sent') = Len(sent) + 1 /\ sent'[Len(sent')] = x
    BY <2>1, <2>2
  <2> QED BY <1>2, <2>2, ContentsWb DEF TxChannel!Enter
<1> QED BY <1>1, <1>3 DEF TxChannel!Next

\* The inductive invariant holds in every reachable state.
THEOREM TxInvariance == TxSpec => []TxInv
BY InitInv, NextInv, PTL DEF TxSpec

\* The registers of the transmit half keep their types, whatever the clocks do.
THEOREM TxTypeCorrect == TxSpec => []TxTypeOK
<1>1. TxInv => TxTypeOK
  BY DEF TxInv
<1> QED BY <1>1, TxInvariance, PTL

\* A strobed flit is never dropped: `tx_fifo_wr_en && !tx_fifo_full' holds at every
\* strobe although the count the engine decided on may be old.
THEOREM TxStrobeSafe == TxSpec => []StrobeFindsRoom
<1>1. TxInv => StrobeFindsRoom
  BY PtrType DEF TxInv, TxTypeOK, Room, StrobeFindsRoom, tx_fifo_full
<1> QED BY <1>1, TxInvariance, PTL

\* No unread slot of tx_fifo is overwritten.
THEOREM TxNeverOverwrites == TxSpec => []TxNoOverwrite
<1>1. ASSUME TxInv, tx_fifo_wr_en
      PROVE  Dist(tx_fifo_wr_ptr, tx_fifo_rd_ptr_d2d) < LastEntry
  <2>1. /\ \A p \in Ptr : D(p) \in Nat
        /\ D(tx_fifo_rd_ptr_d2d) <= D(tx_fifo_wr_ptr) /\ D(tx_fifo_wr_ptr) < LastEntry
    BY <1>1, Copies, DistType DEF TxInv, Room, D
  <2>2. Dist(tx_fifo_wr_ptr, tx_fifo_rd_ptr_d2d)
            = D(tx_fifo_wr_ptr) - D(tx_fifo_rd_ptr_d2d)
    BY <1>1, <2>1, Copies, Rebase DEF D
  <2> QED BY <1>1, <2>1, <2>2, Copies, PtrType
<1> QED BY <1>1, TxInvariance, PTL DEF TxNoOverwrite

\* The transmit half is a reliable, ordered channel of at most Depth flits.
THEOREM TxReliable == TxSpec => ReliableTx
<1>1. TxInit => TxChannel!Init
  BY DEF TxInit, TxInitWb, TxInitD2d, TxChannel!Init
<1>2. TxInv /\ [TxNext]_txVars => [TxChannel!Next]_<<sent, presented>>
  BY TxStepChannel
<1> QED BY <1>1, <1>2, TxInvariance, PTL DEF TxSpec, ReliableTx, TxChannel!Spec

-----------------------------------------------------------------------------
(* The receive half                                                         *)

-----------------------------------------------------------------------------
(* The steps in a normal form: what each domain does at an edge             *)

\* A register that crosses captures its source as it was or as it becomes.
RxWriteSamples == {rx_wr_gray_d2d, ToGray[rx_fifo_wr_ptr]}
RxReadSamples == {rx_fifo_rd_ptr_wb_gray, ToGray[rx_fifo_rd_ptr_wb]}

RxWbSteps(samples) == \E ack \in BOOLEAN, s \in samples : RxWbEdge(ack, s)
RxD2dSteps(samples) ==
    \E s \in samples, start \in BOOLEAN, enable \in BOOLEAN, data \in Flit :
        \E valid, len, done : RxD2dEdge(valid, data, len, done, start, enable, s)

\* The edge of the one domain, of the other, of both, or of none, whatever flit the peer
\* presents.
RxEdges ==
    /\ RxCsrWrite
    /\ \/ RxKeepWb /\ RxKeepD2d
       \/ RxWbSteps({rx_wr_gray_d2d}) /\ RxKeepD2d
       \/ RxKeepWb /\ RxD2dSteps({rx_fifo_rd_ptr_wb_gray})
       \/ RxWbSteps(RxWriteSamples) /\ RxD2dSteps(RxReadSamples)

LEMMA FlitAtNat == \A a \in Nat : FlitAt(a) \in Flit
BY DEF FlitAt, Flit

\* Every step is such an edge.
LEMMA RxStepCases ==
    ASSUME RxTypeOK, RxOneStep, [RxNext]_rxVars
    PROVE  RxEdges
<1> USE DEF RxEdges
<1>5. NextData \in Flit
  <2>1. 8 * Len(received) \in Nat
    BY DEF RxTypeOK
  <2> QED BY <2>1, FlitAtNat DEF NextData
<1>0. /\ rx_wb_stb \in BOOLEAN
      /\ {RxStarted, RxStarted', RxEnabled, RxEnabled'} \subseteq BOOLEAN
  BY DEF rx_wb_stb, RxStarted, RxEnabled
<1>1. CASE RxWbTick
  <2>1. PICK ack \in {FALSE, rx_wb_stb} : RxWbEdge(ack, rx_wr_gray_d2d)
    BY <1>1 DEF RxWbTick
  <2>2. ack \in BOOLEAN
    BY <1>0
  <2>3. RxWbSteps({rx_wr_gray_d2d})
    BY <2>1, <2>2 DEF RxWbSteps
  <2> QED BY <1>1, <2>3 DEF RxWbTick
<1>2. CASE RxD2dTick
  <2>1. PICK valid \in BOOLEAN :
            RxD2dEdge(valid, NextData, rx_length, rx_done_sync[2], RxStarted, RxEnabled,
                      rx_fifo_rd_ptr_wb_gray)
    BY <1>2 DEF RxD2dTick
  <2>2. RxD2dSteps({rx_fifo_rd_ptr_wb_gray})
    BY <1>0, <1>5, <2>1 DEF RxD2dSteps
  <2> QED BY <1>2, <2>2 DEF RxD2dTick, RxCsrWrite
<1>3. CASE RxBothTick
  <2>1. PICK ack \in {FALSE, rx_wb_stb},
             s \in Mix(rx_wr_gray_d2d, ToGray[rx_fifo_wr_ptr]) : RxWbEdge(ack, s)
    BY <1>3 DEF RxBothTick
  <2>2. s \in RxWriteSamples
    BY MixStep DEF RxWriteSamples, RxTypeOK, RxOneStep
  <2>3. PICK valid \in BOOLEAN, len \in {rx_length, rx_length'},
             done \in {rx_done_sync[2], rx_done_sync[1]},
             start \in {RxStarted, RxStarted'}, enable \in {RxEnabled, RxEnabled'},
             t \in Mix(rx_fifo_rd_ptr_wb_gray, ToGray[rx_fifo_rd_ptr_wb]) :
             RxD2dEdge(valid, NextData, len, done, start, enable, t)
    BY <1>3 DEF RxBothTick
  <2>4. t \in RxReadSamples
    BY MixStep DEF RxReadSamples, RxTypeOK, RxOneStep
  <2>5. ack \in BOOLEAN /\ start \in BOOLEAN /\ enable \in BOOLEAN
    BY <1>0
  <2>6. RxWbSteps(RxWriteSamples)
    BY <2>1, <2>2, <2>5 DEF RxWbSteps
  <2>7. RxD2dSteps(RxReadSamples)
    BY <1>5, <2>3, <2>4, <2>5 DEF RxD2dSteps
  <2> QED BY <1>3, <2>6, <2>7 DEF RxBothTick
<1>4. CASE UNCHANGED rxVars
  BY <1>4 DEF rxVars, RxKeepWb, RxKeepD2d, RxCsrWrite, RxKeepSw
<1> QED BY <1>1, <1>2, <1>3, <1>4 DEF RxNext

-----------------------------------------------------------------------------
(* What an edge of each domain does                                         *)

\* The engine stays at its place in the FIFO, or takes out the flit it is at.
LEMMA RxTakeEdge ==
    ASSUME RxInv, NEW ack \in BOOLEAN, RxDmaStep(ack)
    PROVE  \/ /\ rx_fifo_rd_ptr_wb' = rx_fifo_rd_ptr_wb /\ rx_fifo_rdata' = rx_fifo_rdata
              /\ rx_dma_state' # "WAIT_FIRST"
           \/ /\ rx_dma_state = "WRITE" /\ rx_fifo_count_wb > 0
              /\ rx_fifo_rd_ptr_wb' = Next1(rx_fifo_rd_ptr_wb)
              /\ rx_fifo_rdata' = rx_fifo[rx_fifo_rd_ptr_wb]
              /\ rx_dma_state' = "WAIT_FIRST" /\ stored' = stored
<1>1. CASE RxDmaIdle
  BY <1>1 DEF RxDmaIdle
<1>2. CASE RxDmaWrite
  BY <1>2 DEF RxDmaWrite
<1>3. CASE RxDmaWaitFirst
  BY <1>3 DEF RxDmaWaitFirst
<1>4. CASE RxDmaWaitSecond(ack)
  BY <1>4 DEF RxDmaWaitSecond
<1>5. CASE RxDmaWaitSecond2(ack)
  BY <1>5 DEF RxDmaWaitSecond2
<1>6. CASE RxDmaDone
  BY <1>6 DEF RxDmaDone
<1> QED BY <1>1, <1>2, <1>3, <1>4, <1>5, <1>6 DEF RxDmaStep

\* What the engine has written is unchanged, or one word longer.
LEMMA RxStoreEdge ==
    ASSUME RxInv, NEW ack \in BOOLEAN, RxDmaStep(ack)
    PROVE  \/ stored' = stored
           \/ rx_dma_state \in {"WAIT_SECOND", "WAIT_SECOND2"} /\ Store
<1>1. CASE RxDmaIdle
  BY <1>1 DEF RxDmaIdle
<1>2. CASE RxDmaWrite
  BY <1>2 DEF RxDmaWrite
<1>3. CASE RxDmaWaitFirst
  BY <1>3 DEF RxDmaWaitFirst
<1>4. CASE RxDmaWaitSecond(ack)
  BY <1>4 DEF RxDmaWaitSecond
<1>5. CASE RxDmaWaitSecond2(ack)
  BY <1>5 DEF RxDmaWaitSecond2
<1>6. CASE RxDmaDone
  BY <1>6 DEF RxDmaDone
<1> QED BY <1>1, <1>2, <1>3, <1>4, <1>5, <1>6 DEF RxDmaStep

\* The engine's registers keep their types.
LEMMA RxDmaTypes ==
    ASSUME RxInv, NEW ack \in BOOLEAN, RxDmaStep(ack)
    PROVE  /\ rx_dma_state' \in RxDmaStates
           /\ rx_dma_current_addr' \in Nat /\ rx_dma_remaining' \in Nat
           /\ rx_dma_busy' \in BOOLEAN /\ rx_dma_done' \in BOOLEAN
           /\ rx_wb_adr' \in Nat /\ rx_wb_dat' \in Nat
           /\ rx_fifo_rdata' \in Flit /\ rx_fifo_rd_ptr_wb' \in Ptr
           /\ stored' \in Seq([adr : Nat, dat : Nat])
<1>0. /\ rx_fifo_rd_ptr_wb' \in Ptr /\ rx_fifo_rdata' \in Flit
      /\ stored' \in Seq([adr : Nat, dat : Nat])
  <2>1. /\ rx_fifo_rd_ptr_wb \in Ptr /\ rx_fifo \in [Ptr -> Flit] /\ rx_fifo_rdata \in Flit
        /\ stored \in Seq([adr : Nat, dat : Nat])
        /\ [adr |-> rx_wb_adr, dat |-> rx_wb_dat] \in [adr : Nat, dat : Nat]
    BY DEF RxInv, RxTypeOK
  <2>2. Next1(rx_fifo_rd_ptr_wb) \in Ptr /\ rx_fifo[rx_fifo_rd_ptr_wb] \in Flit
    BY <2>1, Next1Type
  <2>3. rx_fifo_rd_ptr_wb' \in Ptr /\ rx_fifo_rdata' \in Flit
    BY <2>1, <2>2, RxTakeEdge
  <2>4. CASE stored' = stored
    BY <2>1, <2>3, <2>4
  <2>5. CASE Store
    BY <2>1, <2>3, <2>5 DEF Store
  <2> QED BY <2>4, <2>5, RxStoreEdge
<1> USE DEF RxInv, RxTypeOK, RxDmaStates
<1>1. CASE RxDmaIdle
  BY <1>0, <1>1 DEF RxDmaIdle
<1>2. CASE RxDmaWrite
  BY <1>0, <1>2 DEF RxDmaWrite
<1>3. CASE RxDmaWaitFirst
  BY <1>0, <1>3 DEF RxDmaWaitFirst, Flit
<1>4. CASE RxDmaWaitSecond(ack)
  <2>1. rx_fifo_rdata.hi \in Nat /\ rx_dma_current_addr + 4 \in Nat
    BY DEF Flit
  <2>2. rx_wb_adr' \in Nat /\ rx_wb_dat' \in Nat /\ rx_dma_state' \in RxDmaStates
    BY <1>4, <2>1 DEF RxDmaWaitSecond
  <2>3. UNCHANGED <<rx_dma_current_addr, rx_dma_remaining, rx_dma_busy, rx_dma_done>>
    BY <1>4 DEF RxDmaWaitSecond
  <2> QED BY <1>0, <2>2, <2>3
<1>5. CASE RxDmaWaitSecond2(ack)
  <2>1. rx_dma_remaining' \in Nat /\ rx_dma_current_addr' \in Nat
    BY <1>5, SMTT(40) DEF RxDmaWaitSecond2, RxInHand, InHand
  <2>2. rx_dma_state' \in {"DONE", "WRITE", "WAIT_SECOND2"}
    BY <1>5 DEF RxDmaWaitSecond2
  <2>3. UNCHANGED <<rx_dma_busy, rx_dma_done, rx_wb_adr, rx_wb_dat>>
    BY <1>5 DEF RxDmaWaitSecond2
  <2> QED BY <1>0, <2>1, <2>2, <2>3
<1>6. CASE RxDmaDone
  BY <1>0, <1>6 DEF RxDmaDone
<1> QED BY <1>1, <1>2, <1>3, <1>4, <1>5, <1>6 DEF RxDmaStep

-----------------------------------------------------------------------------
(* The pointers at an edge, all measured from the base before the edge      *)

RxD(p) == Dist(p, rx_fifo_rd_ptr_d2d_bin)

\* The decoded copies are pointers, in order.
LEMMA RxCopies ==
    ASSUME RxInv
    PROVE  /\ {rx_fifo_rd_ptr_d2d_bin, FromGray[rx_rd_gray_sync2], FromGray[rx_rd_gray_sync1],
               FromGray[rx_fifo_rd_ptr_wb_gray], rx_fifo_rd_ptr_wb, rx_fifo_wr_ptr_wb_bin,
               FromGray[rx_wr_gray_sync2], FromGray[rx_wr_gray_sync1],
               FromGray[rx_wr_gray_d2d], rx_fifo_wr_ptr} \subseteq Ptr
           /\ \A p \in Ptr : RxD(p) \in Nat
           /\ RxD(FromGray[rx_rd_gray_sync2]) <= RxD(FromGray[rx_rd_gray_sync1])
           /\ RxD(FromGray[rx_rd_gray_sync1]) <= RxD(FromGray[rx_fifo_rd_ptr_wb_gray])
           /\ RxD(FromGray[rx_fifo_rd_ptr_wb_gray]) <= RxD(rx_fifo_rd_ptr_wb)
           /\ RxD(rx_fifo_rd_ptr_wb) <= RxD(rx_fifo_wr_ptr_wb_bin)
           /\ RxD(rx_fifo_wr_ptr_wb_bin) <= RxD(FromGray[rx_wr_gray_sync2])
           /\ RxD(FromGray[rx_wr_gray_sync2]) <= RxD(FromGray[rx_wr_gray_sync1])
           /\ RxD(FromGray[rx_wr_gray_sync1]) <= RxD(FromGray[rx_wr_gray_d2d])
           /\ RxD(FromGray[rx_wr_gray_d2d]) <= RxD(rx_fifo_wr_ptr)
<1>1. {rx_fifo_rd_ptr_d2d_bin, FromGray[rx_rd_gray_sync2], FromGray[rx_rd_gray_sync1],
       FromGray[rx_fifo_rd_ptr_wb_gray], rx_fifo_rd_ptr_wb, rx_fifo_wr_ptr_wb_bin,
       FromGray[rx_wr_gray_sync2], FromGray[rx_wr_gray_sync1],
       FromGray[rx_wr_gray_d2d], rx_fifo_wr_ptr} \subseteq Ptr
  BY WordType DEF RxInv, RxTypeOK
<1>2. \A p \in Ptr : RxD(p) \in Nat
  BY <1>1, DistType DEF RxD
<1>3. RxOrdered
  BY DEF RxInv
<1> QED BY <1>1, <1>2, <1>3 DEF RxOrdered, NotAfter, RxD

\* A wb edge: every copy takes the value of the next, and the read pointer steps at most
\* to the write pointer the engine knows of.
LEMMA RxWbPointers ==
    ASSUME RxInv, NEW samples, RxWbSteps(samples)
    PROVE  /\ rx_wr_gray_sync1' \in samples /\ rx_wr_gray_sync2' = rx_wr_gray_sync1
           /\ rx_fifo_wr_ptr_wb_bin' = FromGray[rx_wr_gray_sync2]
           /\ rx_fifo_rd_ptr_wb_gray' = ToGray[rx_fifo_rd_ptr_wb]
           /\ rx_fifo_count_wb' = Dist(rx_fifo_wr_ptr_wb_bin, rx_fifo_rd_ptr_wb)
           /\ rx_fifo_rd_ptr_wb' \in {rx_fifo_rd_ptr_wb, Next1(rx_fifo_rd_ptr_wb)}
           /\ rx_fifo_rd_ptr_wb' \in Ptr
           /\ rx_dma_state' # "WAIT_FIRST" => rx_fifo_rd_ptr_wb' = rx_fifo_rd_ptr_wb
           /\ RxD(rx_fifo_rd_ptr_wb) <= RxD(rx_fifo_rd_ptr_wb')
           /\ RxD(rx_fifo_rd_ptr_wb') <= RxD(rx_fifo_wr_ptr_wb_bin)
<1>1. PICK ack \in BOOLEAN, s \in samples : RxDmaStep(ack) /\ RxFifoRead(s)
  BY DEF RxWbSteps, RxWbEdge
<1>2. rx_fifo_rd_ptr_wb' \in Ptr
  BY <1>1, RxDmaTypes
<1>3. CASE rx_fifo_rd_ptr_wb' = rx_fifo_rd_ptr_wb
  BY <1>1, <1>2, <1>3, RxCopies DEF RxFifoRead
<1>4. CASE /\ rx_fifo_rd_ptr_wb' = Next1(rx_fifo_rd_ptr_wb)
           /\ rx_dma_state = "WRITE" /\ rx_fifo_count_wb > 0 /\ rx_dma_state' = "WAIT_FIRST"
  <2>1. Dist(rx_fifo_wr_ptr_wb_bin, rx_fifo_rd_ptr_wb) > 0
    <3>1. rx_fifo_count_wb <= Dist(rx_fifo_wr_ptr_wb_bin, rx_fifo_rd_ptr_wb)
      BY <1>4 DEF RxInv, RxCounts
    <3> QED BY <1>4, <3>1, RxCopies, DistType, PtrType DEF RxInv, RxTypeOK
  <2>2. Dist(rx_fifo_wr_ptr_wb_bin, rx_fifo_rd_ptr_wb)
            = RxD(rx_fifo_wr_ptr_wb_bin) - RxD(rx_fifo_rd_ptr_wb)
    BY RxCopies, Rebase DEF RxD
  <2>3. RxD(rx_fifo_rd_ptr_wb) < RxD(rx_fifo_wr_ptr_wb_bin)
    BY <2>1, <2>2, RxCopies
  <2>4. RxD(rx_fifo_rd_ptr_wb') = RxD(rx_fifo_rd_ptr_wb) + 1
    BY <1>4, <2>3, RxCopies, StepBefore DEF RxD
  <2> QED BY <1>1, <1>2, <1>4, <2>3, <2>4, RxCopies DEF RxFifoRead
<1> QED BY <1>1, <1>3, <1>4, RxTakeEdge

\* A d2d edge: every copy takes the value of the next, and the write pointer steps only
\* if the ring has room.
LEMMA RxD2dPointers ==
    ASSUME RxInv, NEW samples, RxD2dSteps(samples)
    PROVE  /\ rx_rd_gray_sync1' \in samples /\ rx_rd_gray_sync2' = rx_rd_gray_sync1
           /\ rx_fifo_rd_ptr_d2d_bin' = FromGray[rx_rd_gray_sync2]
           /\ rx_wr_gray_d2d' = ToGray[rx_fifo_wr_ptr]
           /\ rx_fifo_count' = RxD(rx_fifo_wr_ptr')
           /\ rx_fifo_wr_ptr' \in Ptr
           /\ \/ /\ rx_fifo_wr_ptr' = rx_fifo_wr_ptr /\ rx_fifo' = rx_fifo
                 /\ received' = received /\ (rx_ready' => rx_fifo_count < LastEntry)
              \/ /\ rx_fifo_wr_ptr' = Next1(rx_fifo_wr_ptr) /\ rx_ready /\ ~rx_ready'
                 /\ \E data \in Flit :
                       /\ rx_fifo' = [rx_fifo EXCEPT ![rx_fifo_wr_ptr] = data]
                       /\ received' = Append(received, data)
                 /\ RxD(rx_fifo_wr_ptr) < LastEntry
           /\ RxD(rx_fifo_wr_ptr) <= RxD(rx_fifo_wr_ptr')
<1>1. PICK s \in samples : RxFifoWrite(s)
  BY DEF RxD2dSteps, RxD2dEdge
<1>2. /\ rx_fifo_count \in Nat /\ LastEntry \in Nat /\ rx_fifo_count <= LastEntry
      /\ RxD(rx_fifo_wr_ptr) <= rx_fifo_count /\ RxD(rx_fifo_wr_ptr) \in Nat
      /\ rx_ready => rx_fifo_count < LastEntry
  BY RxCopies, PtrType DEF RxInv, RxTypeOK, RxCounts, ReadyMeansRoom, rx_fifo_full, RxD
<1>3. \/ \E data \in Flit : PortTake(data)
      \/ \E valid, len, done : PortWait(valid, len, done)
  BY Zenon DEF RxD2dSteps, RxD2dEdge
<1>4. ASSUME NEW data \in Flit, PortTake(data)
      PROVE  /\ rx_fifo_wr_ptr' \in Ptr /\ rx_fifo_count' = RxD(rx_fifo_wr_ptr')
             /\ rx_fifo_wr_ptr' = Next1(rx_fifo_wr_ptr) /\ rx_ready /\ ~rx_ready'
             /\ rx_fifo' = [rx_fifo EXCEPT ![rx_fifo_wr_ptr] = data]
             /\ received' = Append(received, data)
             /\ RxD(rx_fifo_wr_ptr) < LastEntry
             /\ RxD(rx_fifo_wr_ptr) <= RxD(rx_fifo_wr_ptr')
  <2>1. /\ rx_fifo_wr_ptr' = Next1(rx_fifo_wr_ptr) /\ rx_ready /\ ~rx_ready'
        /\ rx_fifo' = [rx_fifo EXCEPT ![rx_fifo_wr_ptr] = data]
        /\ received' = Append(received, data)
    <3>1. rx_ready /\ rx_ready' = (rx_fifo_count >= LastEntry)
      BY <1>4 DEF PortTake
    <3>2. ~rx_fifo_full /\ (rx_fifo_count >= LastEntry) = FALSE
      BY <1>2, <3>1 DEF rx_fifo_full
    <3>3. ~rx_ready'
      BY <3>1, <3>2, Zenon
    <3> QED BY <1>4, <3>1, <3>2, <3>3 DEF PortTake
  <2>2. RxD(rx_fifo_wr_ptr) < LastEntry
    BY <1>2, <2>1
  <2>3. rx_fifo_wr_ptr' \in Ptr /\ RxD(rx_fifo_wr_ptr') = RxD(rx_fifo_wr_ptr) + 1
    BY <2>1, <2>2, RxCopies, Next1Type, StepAway DEF RxD
  <2> QED BY <1>1, <1>2, <2>1, <2>2, <2>3 DEF RxFifoWrite, RxD
<1>5. CASE \E valid, len, done : PortWait(valid, len, done)
  <2>1. /\ rx_fifo_wr_ptr' = rx_fifo_wr_ptr /\ rx_fifo' = rx_fifo /\ received' = received
        /\ rx_ready' => ~rx_fifo_full
    BY <1>5 DEF PortWait, SideReady
  <2> QED BY <1>1, <1>2, <2>1, RxCopies DEF RxFifoWrite, RxD, rx_fifo_full
<1>6. /\ rx_rd_gray_sync1' \in samples /\ rx_rd_gray_sync2' = rx_rd_gray_sync1
      /\ rx_fifo_rd_ptr_d2d_bin' = FromGray[rx_rd_gray_sync2]
      /\ rx_wr_gray_d2d' = ToGray[rx_fifo_wr_ptr]
  BY <1>1 DEF RxFifoWrite
<1> QED BY <1>3, <1>4, <1>5, <1>6

-----------------------------------------------------------------------------
(* Every part of the invariant is preserved                                 *)

\* Gray words are at most a step behind, and the crossing copies hold Gray words.
LEMMA RxWordsStep ==
    ASSUME RxInv, RxEdges
    PROVE  /\ RxOneStep'
           /\ {rx_rd_gray_sync1', rx_rd_gray_sync2', rx_fifo_rd_ptr_wb_gray',
               rx_wr_gray_sync1', rx_wr_gray_sync2', rx_wr_gray_d2d'} \subseteq Word
           /\ {rx_fifo_rd_ptr_d2d_bin', rx_fifo_rd_ptr_wb', rx_fifo_wr_ptr_wb_bin',
               rx_fifo_wr_ptr'} \subseteq Ptr
<1>0. /\ RxOneStep
      /\ {rx_rd_gray_sync1, rx_rd_gray_sync2, rx_fifo_rd_ptr_wb_gray,
          rx_wr_gray_sync1, rx_wr_gray_sync2, rx_wr_gray_d2d} \subseteq Word
      /\ {rx_fifo_rd_ptr_d2d_bin, rx_fifo_rd_ptr_wb, rx_fifo_wr_ptr_wb_bin,
          rx_fifo_wr_ptr} \subseteq Ptr
  BY DEF RxInv, RxTypeOK
<1>1. CASE RxKeepWb /\ RxKeepD2d
  BY <1>0, <1>1 DEF RxKeepWb, RxKeepD2d, rxWbVars, rxD2dVars, rxDmaVars, rxFifoWbVars,
                    rxFifoD2dVars, RxOneStep
<1>2. CASE RxWbSteps({rx_wr_gray_d2d}) /\ RxKeepD2d
  BY <1>0, <1>2, RxWbPointers, WordType DEF RxKeepD2d, rxD2dVars, rxFifoD2dVars, RxOneStep
<1>3. CASE RxKeepWb /\ RxD2dSteps({rx_fifo_rd_ptr_wb_gray})
  BY <1>0, <1>3, RxD2dPointers, WordType DEF RxKeepWb, rxWbVars, rxDmaVars, rxFifoWbVars,
                                           RxOneStep
<1>4. CASE RxWbSteps(RxWriteSamples) /\ RxD2dSteps(RxReadSamples)
  BY <1>0, <1>4, RxWbPointers, RxD2dPointers, WordType DEF RxWriteSamples, RxReadSamples, RxOneStep
<1> QED BY <1>1, <1>2, <1>3, <1>4 DEF RxEdges

\* The order of the pointers and their copies, measured from any base.
RxOrder(b, r2, r1, rg, r, wb, w2, w1, wg, w) ==
    /\ NotAfter(b, r2, r1) /\ NotAfter(b, r1, rg) /\ NotAfter(b, rg, r)
    /\ NotAfter(b, r, wb) /\ NotAfter(b, wb, w2) /\ NotAfter(b, w2, w1)
    /\ NotAfter(b, w1, wg) /\ NotAfter(b, wg, w)

\* A chain of pointers stays one when it is measured from a base further on.
LEMMA RxRebaseOrder ==
    ASSUME NEW b \in Ptr, NEW n \in Ptr, NEW x1 \in Ptr, NEW x2 \in Ptr, NEW x3 \in Ptr,
           NEW x4 \in Ptr, NEW x5 \in Ptr, NEW x6 \in Ptr, NEW x7 \in Ptr, NEW x8 \in Ptr,
           NEW x9 \in Ptr, RxOrder(b, x1, x2, x3, x4, x5, x6, x7, x8, x9),
           Dist(n, b) <= Dist(x1, b)
    PROVE  RxOrder(n, x1, x2, x3, x4, x5, x6, x7, x8, x9)
<1>1. \A p \in Ptr : Dist(p, b) \in Nat /\ Dist(p, n) \in Nat
  BY DistType
<1>2. \A x \in {x1, x2, x3, x4, x5, x6, x7, x8, x9} : Dist(n, b) <= Dist(x, b)
  BY <1>1 DEF RxOrder, NotAfter
<1>3. \A x \in {x1, x2, x3, x4, x5, x6, x7, x8, x9} : Dist(x, n) = Dist(x, b) - Dist(n, b)
  BY <1>2, Rebase
<1> QED BY <1>1, <1>3 DEF RxOrder, NotAfter

\* The copies of the pointers stay in order.
LEMMA RxOrderedStep ==
    ASSUME RxInv, RxEdges
    PROVE  /\ RxOrdered'
           /\ RxD(rx_fifo_rd_ptr_d2d_bin') <= RxD(rx_fifo_rd_ptr_wb)
           /\ rx_fifo_rd_ptr_d2d_bin'
                  \in {rx_fifo_rd_ptr_d2d_bin, FromGray[rx_rd_gray_sync2]}
<1> DEFINE NewOrder(b) ==
      RxOrder(b, FromGray[rx_rd_gray_sync2'], FromGray[rx_rd_gray_sync1'],
            FromGray[rx_fifo_rd_ptr_wb_gray'], rx_fifo_rd_ptr_wb', rx_fifo_wr_ptr_wb_bin',
            FromGray[rx_wr_gray_sync2'], FromGray[rx_wr_gray_sync1'],
            FromGray[rx_wr_gray_d2d'], rx_fifo_wr_ptr')
<1>1. {rx_fifo_rd_ptr_d2d_bin', FromGray[rx_rd_gray_sync2'], FromGray[rx_rd_gray_sync1'],
       FromGray[rx_fifo_rd_ptr_wb_gray'], rx_fifo_rd_ptr_wb', rx_fifo_wr_ptr_wb_bin',
       FromGray[rx_wr_gray_sync2'], FromGray[rx_wr_gray_sync1'],
       FromGray[rx_wr_gray_d2d'], rx_fifo_wr_ptr'} \subseteq Ptr
  BY RxWordsStep, WordType
<1>2. \A p \in Ptr : FromGray[ToGray[p]] = p
  BY WordType
<1>3. RxD(rx_fifo_rd_ptr_d2d_bin) = 0
  BY RxCopies, DistType DEF RxD
<1> HIDE DEF NewOrder
<1>4. /\ NewOrder(rx_fifo_rd_ptr_d2d_bin)
      /\ rx_fifo_rd_ptr_d2d_bin' \in {rx_fifo_rd_ptr_d2d_bin, FromGray[rx_rd_gray_sync2]}
      /\ RxD(rx_fifo_rd_ptr_d2d_bin') <= RxD(FromGray[rx_rd_gray_sync2'])
  <2> USE DEF NewOrder, RxOrder, NotAfter
  <2>1. CASE RxKeepWb /\ RxKeepD2d
    BY <1>3, <2>1, RxCopies DEF RxKeepWb, RxKeepD2d, rxWbVars, rxD2dVars, rxDmaVars,
                              rxFifoWbVars, rxFifoD2dVars, RxD
  <2>2. CASE RxWbSteps({rx_wr_gray_d2d}) /\ RxKeepD2d
    BY <1>2, <1>3, <2>2, RxCopies, RxWbPointers DEF RxKeepD2d, rxD2dVars, rxFifoD2dVars, RxD
  <2>3. CASE RxKeepWb /\ RxD2dSteps({rx_fifo_rd_ptr_wb_gray})
    BY <1>2, <1>3, <2>3, RxCopies, RxD2dPointers, SMTT(40)
      DEF RxKeepWb, rxWbVars, rxDmaVars, rxFifoWbVars, RxD
  <2>4. CASE RxWbSteps(RxWriteSamples) /\ RxD2dSteps(RxReadSamples)
    <3>1. /\ FromGray[rx_wr_gray_sync1'] \in {FromGray[rx_wr_gray_d2d], rx_fifo_wr_ptr}
          /\ FromGray[rx_wr_gray_sync2'] = FromGray[rx_wr_gray_sync1]
          /\ rx_fifo_wr_ptr_wb_bin' = FromGray[rx_wr_gray_sync2]
          /\ FromGray[rx_fifo_rd_ptr_wb_gray'] = rx_fifo_rd_ptr_wb
          /\ RxD(rx_fifo_rd_ptr_wb) <= RxD(rx_fifo_rd_ptr_wb')
          /\ RxD(rx_fifo_rd_ptr_wb') <= RxD(rx_fifo_wr_ptr_wb_bin)
          /\ rx_fifo_rd_ptr_wb' \in Ptr
      BY <1>2, <2>4, RxCopies, RxWbPointers DEF RxWriteSamples
    <3>2. /\ FromGray[rx_rd_gray_sync1'] \in {FromGray[rx_fifo_rd_ptr_wb_gray], rx_fifo_rd_ptr_wb}
          /\ FromGray[rx_rd_gray_sync2'] = FromGray[rx_rd_gray_sync1]
          /\ rx_fifo_rd_ptr_d2d_bin' = FromGray[rx_rd_gray_sync2]
          /\ FromGray[rx_wr_gray_d2d'] = rx_fifo_wr_ptr
          /\ RxD(rx_fifo_wr_ptr) <= RxD(rx_fifo_wr_ptr')
          /\ rx_fifo_wr_ptr' \in Ptr
      BY <1>2, <2>4, RxCopies, RxD2dPointers DEF RxReadSamples
    <3> QED BY <1>3, <3>1, <3>2, RxCopies DEF RxD
  <2> QED BY <2>1, <2>2, <2>3, <2>4 DEF RxEdges
<1>5. NewOrder(rx_fifo_rd_ptr_d2d_bin')
  BY <1>1, <1>4, RxCopies, RxRebaseOrder DEF NewOrder, RxD
<1>6. RxD(rx_fifo_rd_ptr_d2d_bin') <= RxD(rx_fifo_rd_ptr_wb)
  BY <1>3, <1>4, RxCopies
<1> QED BY <1>4, <1>5, <1>6 DEF NewOrder, RxOrder, RxOrdered

\* The counts err on the safe side.
LEMMA RxCountsStep ==
    ASSUME RxInv, RxEdges
    PROVE  RxCounts'
<1>1. Dist(rx_fifo_wr_ptr', rx_fifo_rd_ptr_d2d_bin') <= rx_fifo_count'
  <2>1. CASE RxKeepD2d
    BY <2>1 DEF RxKeepD2d, rxD2dVars, rxFifoD2dVars, RxInv, RxCounts
  <2>2. ASSUME NEW samples, RxD2dSteps(samples)
        PROVE  Dist(rx_fifo_wr_ptr', rx_fifo_rd_ptr_d2d_bin') <= rx_fifo_count'
    <3>1. /\ rx_fifo_count' = RxD(rx_fifo_wr_ptr') /\ RxD(rx_fifo_wr_ptr) <= RxD(rx_fifo_wr_ptr')
          /\ rx_fifo_wr_ptr' \in Ptr /\ rx_fifo_rd_ptr_d2d_bin' \in Ptr
      BY <2>2, RxD2dPointers, RxWordsStep
    <3>2. RxD(rx_fifo_rd_ptr_d2d_bin') <= RxD(rx_fifo_wr_ptr')
      BY <3>1, RxOrderedStep, RxCopies
    <3>3. Dist(rx_fifo_wr_ptr', rx_fifo_rd_ptr_d2d_bin')
              = RxD(rx_fifo_wr_ptr') - RxD(rx_fifo_rd_ptr_d2d_bin')
      BY <3>1, <3>2, RxCopies, Rebase DEF RxD
    <3> QED BY <3>1, <3>3, RxCopies
  <2> QED BY <2>1, <2>2 DEF RxEdges
<1>2. rx_dma_state' # "WAIT_FIRST" =>
          rx_fifo_count_wb' <= Dist(rx_fifo_wr_ptr_wb_bin', rx_fifo_rd_ptr_wb')
  <2>1. CASE RxKeepWb
    BY <2>1 DEF RxKeepWb, rxWbVars, rxDmaVars, rxFifoWbVars, RxInv, RxCounts
  <2>2. ASSUME NEW samples, RxWbSteps(samples), rx_dma_state' # "WAIT_FIRST"
        PROVE  rx_fifo_count_wb' <= Dist(rx_fifo_wr_ptr_wb_bin', rx_fifo_rd_ptr_wb')
    <3>1. /\ rx_fifo_rd_ptr_wb' = rx_fifo_rd_ptr_wb
          /\ rx_fifo_wr_ptr_wb_bin' = FromGray[rx_wr_gray_sync2]
          /\ rx_fifo_count_wb' = Dist(rx_fifo_wr_ptr_wb_bin, rx_fifo_rd_ptr_wb)
      BY <2>2, RxWbPointers
    <3>2. \A p \in Ptr : RxD(rx_fifo_rd_ptr_wb) <= RxD(p) =>
              Dist(p, rx_fifo_rd_ptr_wb) = RxD(p) - RxD(rx_fifo_rd_ptr_wb)
      BY RxCopies, Rebase DEF RxD
    <3> QED BY <3>1, <3>2, RxCopies
  <2> QED BY <2>1, <2>2 DEF RxEdges
<1> QED BY <1>1, <1>2 DEF RxCounts

\* Ready is raised only over a slot that is free whatever the engine does meanwhile.
LEMMA RxReadyStep ==
    ASSUME RxInv, RxEdges
    PROVE  ReadyMeansRoom' /\ RxNoOverwrite'
<1>1. rx_ready' => /\ rx_fifo_wr_ptr' = rx_fifo_wr_ptr /\ RxD(rx_fifo_wr_ptr) < LastEntry
                   /\ rx_fifo_count' < LastEntry
  <2>0. /\ rx_fifo_count \in Nat /\ LastEntry \in Nat /\ rx_fifo_count <= LastEntry
        /\ RxD(rx_fifo_wr_ptr) <= rx_fifo_count /\ RxD(rx_fifo_wr_ptr) \in Nat
        /\ rx_ready => rx_fifo_count < LastEntry
    BY RxCopies, PtrType DEF RxInv, RxTypeOK, RxCounts, ReadyMeansRoom, rx_fifo_full, RxD
  <2>1. CASE RxKeepD2d
    BY <2>0, <2>1 DEF RxKeepD2d, rxD2dVars, rxFifoD2dVars, rxPortVars
  <2>2. ASSUME NEW samples, RxD2dSteps(samples), rx_ready'
        PROVE  /\ rx_fifo_wr_ptr' = rx_fifo_wr_ptr /\ RxD(rx_fifo_wr_ptr) < LastEntry
               /\ rx_fifo_count' < LastEntry
    <3>1. /\ rx_fifo_wr_ptr' = rx_fifo_wr_ptr /\ rx_fifo_count < LastEntry
          /\ rx_fifo_count' = RxD(rx_fifo_wr_ptr')
      BY <2>2, RxD2dPointers
    <3> QED BY <2>0, <3>1
  <2> QED BY <2>1, <2>2 DEF RxEdges
<1>2. RxD(rx_fifo_rd_ptr_wb') <= RxD(rx_fifo_wr_ptr) /\ rx_fifo_rd_ptr_wb' \in Ptr
  <2>1. CASE RxKeepWb
    BY <2>1, RxCopies DEF RxKeepWb, rxWbVars, rxDmaVars
  <2>2. ASSUME NEW samples, RxWbSteps(samples)
        PROVE  RxD(rx_fifo_rd_ptr_wb') <= RxD(rx_fifo_wr_ptr) /\ rx_fifo_rd_ptr_wb' \in Ptr
    BY <2>2, RxWbPointers, RxCopies
  <2> QED BY <2>1, <2>2 DEF RxEdges
<1>3. Dist(rx_fifo_wr_ptr, rx_fifo_rd_ptr_wb') = RxD(rx_fifo_wr_ptr) - RxD(rx_fifo_rd_ptr_wb')
  BY <1>2, RxCopies, Rebase DEF RxD
<1>4. rx_ready' => Dist(rx_fifo_wr_ptr', rx_fifo_rd_ptr_wb') < LastEntry
  BY <1>1, <1>2, <1>3, RxCopies, PtrType
<1> QED BY <1>1, <1>4, PtrType DEF ReadyMeansRoom, RxNoOverwrite, rx_fifo_full

-----------------------------------------------------------------------------
(* Flits and the words they are made of                                     *)

\* The flits that a sequence of written words holds.
Pairs(words) == [i \in 1..(Len(words) \div 2) |->
                    [lo |-> words[2 * i - 1].dat, hi |-> words[2 * i].dat]]

StoredWord == [adr : Nat, dat : Nat]

LEMMA DeliveredPairs == Delivered = Pairs(stored) /\ Delivered' = Pairs(stored')
BY DEF Delivered, Pairs

LEMMA Half ==
    \A n \in Nat : (2 * n) \div 2 = n /\ (2 * n + 1) \div 2 = n /\ (2 * n + 2) \div 2 = n + 1
OBVIOUS

\* Words come in pairs; each pair is a flit.
LEMMA PairsType ==
    ASSUME NEW words \in Seq(StoredWord)
    PROVE  /\ Len(words) \div 2 \in Nat /\ Pairs(words) \in Seq(Flit)
           /\ Len(Pairs(words)) = Len(words) \div 2
           /\ \A i \in 1..(Len(words) \div 2) :
                 /\ 2 * i \in 1..Len(words) /\ 2 * i - 1 \in 1..Len(words)
                 /\ Pairs(words)[i] = [lo |-> words[2 * i - 1].dat, hi |-> words[2 * i].dat]
<1> DEFINE n == Len(words) \div 2
<1>1. n \in Nat /\ 2 * n <= Len(words) /\ Len(words) \in Nat
  OBVIOUS
<1>2. \A i \in 1..n : 2 * i \in 1..Len(words) /\ 2 * i - 1 \in 1..Len(words)
  BY <1>1
<1>3. \A i \in 1..n : [lo |-> words[2 * i - 1].dat, hi |-> words[2 * i].dat] \in Flit
  <2>1. \A i \in 1..n : words[2 * i] \in StoredWord /\ words[2 * i - 1] \in StoredWord
    BY <1>2
  <2>2. \A w \in StoredWord : w.dat \in Nat
    BY DEF StoredWord
  <2> QED BY <2>1, <2>2 DEF Flit
<1>4. Pairs(words) \in [1..n -> Flit]
  BY <1>3 DEF Pairs
<1>5. Pairs(words) \in Seq(Flit) /\ Len(Pairs(words)) = n
  BY <1>1, <1>4
<1> QED BY <1>1, <1>2, <1>5 DEF Pairs

\* A word that does not complete a pair adds no flit; one that does adds the flit it and
\* the word before it make.
LEMMA PairsAppend ==
    ASSUME NEW words \in Seq(StoredWord), NEW x \in StoredWord, NEW n \in Nat
    PROVE  /\ Len(words) = 2 * n => Pairs(Append(words, x)) = Pairs(words)
           /\ Len(words) = 2 * n + 1 =>
                  Pairs(Append(words, x))
                      = Append(Pairs(words), [lo |-> words[Len(words)].dat, hi |-> x.dat])
<1> DEFINE more == Append(words, x)
<1>0. /\ more \in Seq(StoredWord) /\ Len(more) = Len(words) + 1
      /\ \A i \in 1..Len(words) : more[i] = words[i]
      /\ more[Len(words) + 1] = x
  OBVIOUS
<1> HIDE DEF more
<1>1. ASSUME Len(words) = 2 * n PROVE Pairs(more) = Pairs(words)
  <2>1. Len(words) \div 2 = n /\ Len(more) \div 2 = n
    BY <1>0, <1>1, Half
  <2>2. \A i \in 1..n : more[2 * i - 1] = words[2 * i - 1] /\ more[2 * i] = words[2 * i]
    BY <1>0, <1>1
  <2> QED BY <2>1, <2>2 DEF Pairs
<1>2. ASSUME Len(words) = 2 * n + 1
      PROVE  Pairs(more) = Append(Pairs(words), [lo |-> words[Len(words)].dat, hi |-> x.dat])
  <2> DEFINE f == [lo |-> words[Len(words)].dat, hi |-> x.dat]
  <2>1. Len(words) \div 2 = n /\ Len(more) \div 2 = n + 1
    BY <1>0, <1>2, Half
  <2>2. /\ Pairs(words) \in Seq(Flit) /\ Len(Pairs(words)) = n
        /\ Pairs(more) \in Seq(Flit) /\ Len(Pairs(more)) = n + 1
    BY <1>0, <2>1, PairsType
  <2>3. f \in Flit
    <3>1. Len(words) \in 1..Len(words)
      BY <1>2
    <3>2. words[Len(words)] \in StoredWord
      BY <3>1
    <3> QED BY <3>2 DEF Flit, StoredWord
  <2> HIDE DEF f
  <2>4. ASSUME NEW i \in 1..(n + 1) PROVE Pairs(more)[i] = Append(Pairs(words), f)[i]
    <3>1. CASE i = n + 1
      <4>1. 2 * i = Len(words) + 1 /\ 2 * i - 1 = Len(words) /\ Len(words) \in 1..Len(words)
        BY <1>2, <3>1
      <4>2. more[2 * i] = x /\ more[2 * i - 1] = words[Len(words)]
        BY <1>0, <4>1
      <4>3. Pairs(more)[i] = f
        BY <2>1, <4>2 DEF Pairs, f
      <4> QED BY <2>2, <2>3, <3>1, <4>3
    <3>2. CASE i \in 1..n
      <4>1. more[2 * i - 1] = words[2 * i - 1] /\ more[2 * i] = words[2 * i]
        BY <1>0, <1>2, <3>2
      <4>2. Pairs(more)[i] = Pairs(words)[i]
        BY <2>1, <3>2, <4>1 DEF Pairs
      <4>3. Append(Pairs(words), f)[i] = Pairs(words)[i]
        BY <2>2, <2>3, <3>2
      <4> QED BY <4>2, <4>3
    <3>3. i = n + 1 \/ i \in 1..n
      OBVIOUS
    <3> QED BY <3>1, <3>2, <3>3, Zenon
  <2>5. Append(Pairs(words), f) \in Seq(Flit) /\ Len(Append(Pairs(words), f)) = n + 1
    BY <2>2, <2>3
  <2> QED BY <2>2, <2>4, <2>5 DEF f
<1> QED BY <1>1, <1>2 DEF more

-----------------------------------------------------------------------------
(* What the FIFO holds and what memory has                                  *)

LEMMA RxTakenType ==
    RxInv => /\ Len(Delivered) \in Nat /\ RxTaken \in Nat /\ Delivered \in Seq(Flit)
             /\ Len(Delivered) = Len(stored) \div 2 /\ stored \in Seq(StoredWord)
<1> SUFFICES ASSUME RxInv
             PROVE  /\ Len(Delivered) \in Nat /\ RxTaken \in Nat /\ Delivered \in Seq(Flit)
                    /\ Len(Delivered) = Len(stored) \div 2 /\ stored \in Seq(StoredWord)
  OBVIOUS
<1>1. stored \in Seq(StoredWord)
  BY DEF RxInv, RxTypeOK, StoredWord
<1>2. /\ Len(Delivered) \in Nat /\ Delivered \in Seq(Flit)
      /\ Len(Delivered) = Len(stored) \div 2
  BY <1>1, PairsType, DeliveredPairs
<1> QED BY <1>1, <1>2 DEF RxTaken

\* A d2d edge adds to the FIFO what it adds to the flits taken at the port.
LEMMA RxD2dContents ==
    ASSUME RxInv, RxEdges
    PROVE  /\ Holds(rx_fifo_rd_ptr_wb, RxTaken, rx_fifo_wr_ptr', rx_fifo', received', FALSE)
           /\ \/ received' = received
              \/ rx_ready /\ \E data \in Flit : received' = Append(received, data)
           /\ received \in Seq(Flit) /\ received' \in Seq(Flit)
           /\ rx_fifo' \in [Ptr -> Flit]
           /\ RxD(rx_fifo_wr_ptr) <= RxD(rx_fifo_wr_ptr') /\ rx_fifo_wr_ptr' \in Ptr
<1> DEFINE r == rx_fifo_rd_ptr_wb
           w == rx_fifo_wr_ptr
<1>1. /\ received \in Seq(Flit) /\ rx_fifo \in [Ptr -> Flit]
      /\ r \in Ptr /\ w \in Ptr /\ RxTaken \in Nat
      /\ Holds(r, RxTaken, w, rx_fifo, received, FALSE)
  BY RxTakenType DEF RxInv, RxTypeOK, RxContents
<1>2. CASE RxKeepD2d
  <2>1. rx_fifo_wr_ptr' = rx_fifo_wr_ptr /\ rx_fifo' = rx_fifo /\ received' = received
    BY <1>2 DEF RxKeepD2d, rxD2dVars, rxFifoD2dVars
  <2>2. RxD(rx_fifo_wr_ptr) <= RxD(rx_fifo_wr_ptr')
    BY <2>1, RxCopies
  <2> QED BY <1>1, <2>1, <2>2
<1>3. ASSUME NEW samples, RxD2dSteps(samples), received' = received,
             rx_fifo_wr_ptr' = rx_fifo_wr_ptr, rx_fifo' = rx_fifo
      PROVE  Holds(r, RxTaken, rx_fifo_wr_ptr', rx_fifo', received', FALSE)
  BY <1>1, <1>3
<1>4. ASSUME NEW data \in Flit, rx_fifo_wr_ptr' = Next1(rx_fifo_wr_ptr),
             rx_fifo' = [rx_fifo EXCEPT ![rx_fifo_wr_ptr] = data],
             received' = Append(received, data), RxD(rx_fifo_wr_ptr) < LastEntry
      PROVE  Holds(r, RxTaken, rx_fifo_wr_ptr', rx_fifo', received', FALSE)
  <2>1. Dist(w, r) = RxD(w) - RxD(r) /\ RxD(r) \in Nat /\ RxD(w) \in Nat
    BY RxCopies, Rebase DEF RxD
  <2>2. Dist(w, r) < LastEntry
    BY <1>4, <2>1, PtrType
  <2> HIDE DEF r, w
  <2>3. Holds(r, RxTaken, w, rx_fifo, received', TRUE)
    BY <1>1, <1>4, HoldsStrobe
  <2>4. received' \in Seq(Flit) /\ received'[Len(received')] = data
    BY <1>1, <1>4
  <2>5. Holds(r, RxTaken, Next1(w), [rx_fifo EXCEPT ![w] = data], received', FALSE)
    BY <1>1, <2>2, <2>3, <2>4, HoldsWrite
  <2> QED BY <1>4, <2>5 DEF w
<1>5. ASSUME NEW samples, RxD2dSteps(samples)
      PROVE  /\ Holds(r, RxTaken, rx_fifo_wr_ptr', rx_fifo', received', FALSE)
             /\ \/ received' = received
                \/ rx_ready /\ \E data \in Flit : received' = Append(received, data)
             /\ received' \in Seq(Flit) /\ rx_fifo' \in [Ptr -> Flit]
             /\ RxD(rx_fifo_wr_ptr) <= RxD(rx_fifo_wr_ptr') /\ rx_fifo_wr_ptr' \in Ptr
  <2>1. /\ RxD(rx_fifo_wr_ptr) <= RxD(rx_fifo_wr_ptr') /\ rx_fifo_wr_ptr' \in Ptr
        /\ \/ /\ rx_fifo_wr_ptr' = rx_fifo_wr_ptr /\ rx_fifo' = rx_fifo
              /\ received' = received
           \/ /\ rx_fifo_wr_ptr' = Next1(rx_fifo_wr_ptr) /\ rx_ready
              /\ RxD(rx_fifo_wr_ptr) < LastEntry
              /\ \E data \in Flit :
                    /\ rx_fifo' = [rx_fifo EXCEPT ![rx_fifo_wr_ptr] = data]
                    /\ received' = Append(received, data)
    BY <1>5, RxD2dPointers
  <2>2. CASE /\ rx_fifo_wr_ptr' = rx_fifo_wr_ptr /\ rx_fifo' = rx_fifo
             /\ received' = received
    BY <1>1, <1>3, <1>5, <2>1, <2>2
  <2>3. ASSUME NEW data \in Flit, rx_fifo_wr_ptr' = Next1(rx_fifo_wr_ptr), rx_ready,
               RxD(rx_fifo_wr_ptr) < LastEntry,
               rx_fifo' = [rx_fifo EXCEPT ![rx_fifo_wr_ptr] = data],
               received' = Append(received, data)
        PROVE  /\ Holds(r, RxTaken, rx_fifo_wr_ptr', rx_fifo', received', FALSE)
               /\ rx_fifo' \in [Ptr -> Flit] /\ received' \in Seq(Flit)
    <3>1. rx_fifo' \in [Ptr -> Flit] /\ received' \in Seq(Flit)
      BY <1>1, <2>3
    <3> QED BY <1>4, <2>3, <3>1
  <2> QED BY <2>1, <2>2, <2>3
<1> QED BY <1>1, <1>2, <1>5 DEF RxEdges

\* What the engine has taken out grows by the flit it takes, and only by that: a flit in
\* its hands counts until the second word of it is written.
LEMMA RxTakenEdge ==
    ASSUME RxInv, NEW ack \in BOOLEAN, RxDmaStep(ack)
    PROVE  \/ /\ rx_fifo_rd_ptr_wb' = rx_fifo_rd_ptr_wb /\ RxTaken' = RxTaken
              /\ rx_fifo_rdata' = rx_fifo_rdata /\ (InHand' => InHand)
              /\ InHand' => rx_dma_remaining' = rx_dma_remaining
           \/ /\ rx_fifo_rd_ptr_wb' = Next1(rx_fifo_rd_ptr_wb) /\ RxTaken' = RxTaken + 1
              /\ rx_dma_state = "WRITE" /\ rx_fifo_count_wb > 0 /\ InHand'
              /\ rx_dma_state' = "WAIT_FIRST"
              /\ rx_fifo_rdata' = rx_fifo[rx_fifo_rd_ptr_wb]
              /\ rx_dma_remaining' > 0
<1> DEFINE n == Len(Delivered)
<1>0. n \in Nat /\ stored \in Seq(StoredWord)
  BY RxTakenType
<1>1. stored' = stored => Len(Delivered') = n
  BY DeliveredPairs
<1>2. CASE RxDmaIdle
  BY <1>0, <1>1, <1>2 DEF RxDmaIdle, RxTaken, InHand
<1>3. CASE RxDmaWrite
  BY <1>0, <1>1, <1>3 DEF RxDmaWrite, RxTaken, InHand, RxInv, RxTypeOK
<1>4. CASE RxDmaWaitFirst
  BY <1>0, <1>1, <1>4 DEF RxDmaWaitFirst, RxTaken, InHand
<1>5. CASE RxDmaWaitSecond(ack)
  <2>1. stored' = stored \/ Store
    BY <1>5 DEF RxDmaWaitSecond
  <2>2. [adr |-> rx_wb_adr, dat |-> rx_wb_dat] \in StoredWord /\ Len(stored) = 2 * n
    BY <1>0, <1>5 DEF RxInv, RxTypeOK, RxStored, RxDmaWaitSecond, StoredWord
  <2>3. Len(Delivered') = n
    BY <1>0, <1>1, <2>1, <2>2, PairsAppend, DeliveredPairs DEF Store
  <2>4. InHand /\ InHand'
    BY <1>5 DEF RxDmaWaitSecond, InHand
  <2>5. RxTaken' = RxTaken
    BY <2>3, <2>4 DEF RxTaken
  <2> QED BY <1>5, <2>4, <2>5 DEF RxDmaWaitSecond
<1>6. CASE RxDmaWaitSecond2(ack)
  <2>1. InHand
    BY <1>6 DEF RxDmaWaitSecond2, InHand
  <2>2. CASE UNCHANGED <<rx_dma_state, rx_dma_remaining, stored>>
    <3>1. RxTaken' = RxTaken /\ InHand'
      BY <1>1, <2>1, <2>2 DEF RxTaken, InHand
    <3> QED BY <1>6, <2>1, <2>2, <3>1 DEF RxDmaWaitSecond2
  <2>3. CASE Store /\ rx_dma_state' \in {"DONE", "WRITE"}
    <3>1. /\ [adr |-> rx_wb_adr, dat |-> rx_wb_dat] \in StoredWord
          /\ Len(stored) = 2 * n + 1
      BY <1>0, <1>6 DEF RxInv, RxTypeOK, RxStored, RxDmaWaitSecond2, StoredWord
    <3>2. stored' \in Seq(StoredWord) /\ Len(stored') = 2 * n + 2
      BY <1>0, <2>3, <3>1 DEF Store
    <3>3. Len(Delivered') = n + 1
      BY <1>0, <3>2, PairsType, Half, DeliveredPairs
    <3>4. ~InHand'
      BY <2>3 DEF InHand
    <3>5. RxTaken' = RxTaken
      BY <2>1, <3>3, <3>4 DEF RxTaken
    <3> QED BY <1>6, <3>4, <3>5 DEF RxDmaWaitSecond2
  <2> QED BY <1>6, <2>2, <2>3 DEF RxDmaWaitSecond2
<1>7. CASE RxDmaDone
  BY <1>0, <1>1, <1>7 DEF RxDmaDone, RxTaken, InHand
<1> QED BY <1>2, <1>3, <1>4, <1>5, <1>6, <1>7 DEF RxDmaStep

\* The flits between the pointers are the ones taken at the port and not yet taken out,
\* and the flit the engine takes out is the next of them.
LEMMA RxContentsStep ==
    ASSUME RxInv, RxEdges
    PROVE  /\ RxContents'
           /\ InHand' => rx_fifo_rdata' = received'[RxTaken'] /\ rx_dma_remaining' > 0
           /\ RxTaken' \in Nat /\ RxTaken' <= Len(received')
<1> DEFINE r == rx_fifo_rd_ptr_wb
           w == rx_fifo_wr_ptr'
           Goal == /\ RxContents'
                   /\ InHand' => rx_fifo_rdata' = received'[RxTaken'] /\ rx_dma_remaining' > 0
                   /\ RxTaken' \in Nat /\ RxTaken' <= Len(received')
<1>1. /\ r \in Ptr /\ w \in Ptr /\ RxTaken \in Nat /\ rx_fifo' \in [Ptr -> Flit]
      /\ received \in Seq(Flit) /\ received' \in Seq(Flit) /\ Dist(w, r) \in Nat
      /\ Holds(r, RxTaken, w, rx_fifo', received', FALSE)
  BY RxD2dContents, RxCopies, RxTakenType, DistType
<1>2. /\ Len(received') = RxTaken + Dist(w, r) /\ RxTaken <= Len(received')
      /\ Len(received) = RxTaken + Dist(rx_fifo_wr_ptr, r) /\ RxTaken <= Len(received)
  <2>1. Holds(r, RxTaken, rx_fifo_wr_ptr, rx_fifo, received, FALSE)
    BY DEF RxInv, RxContents
  <2>2. /\ Len(received') = RxTaken + Dist(w, r)
        /\ Len(received) = RxTaken + Dist(rx_fifo_wr_ptr, r)
    BY <1>1, <2>1, RxCopies, DistType DEF Holds
  <2>3. Dist(rx_fifo_wr_ptr, r) \in Nat
    BY RxCopies, DistType
  <2> QED BY <1>1, <2>2, <2>3
<1>3. \A i \in 1..Len(received) : received'[i] = received[i]
  <2>1. \/ received' = received
        \/ \E data \in Flit : received' = Append(received, data)
    BY RxD2dContents
  <2> QED BY <1>1, <2>1
<1>4. InHand => rx_fifo_rdata = received'[RxTaken] /\ rx_dma_remaining > 0
  <2> SUFFICES ASSUME InHand PROVE rx_fifo_rdata = received'[RxTaken] /\ rx_dma_remaining > 0
    OBVIOUS
  <2>1. RxTaken >= 1
    BY RxTakenType DEF RxTaken
  <2>2. RxTaken \in 1..Len(received)
    BY <1>1, <1>2, <2>1
  <2> QED BY <1>3, <2>2 DEF RxInv, RxInHand
<1>5. CASE RxKeepWb
  <2>1. UNCHANGED <<rx_fifo_rd_ptr_wb, rx_fifo_rdata, rx_dma_state, stored, rx_dma_remaining>>
    BY <1>5 DEF RxKeepWb, rxWbVars, rxDmaVars
  <2>2. RxTaken' = RxTaken /\ (InHand' <=> InHand)
    BY <2>1 DEF RxTaken, InHand, Delivered
  <2> QED BY <1>1, <1>2, <1>4, <2>1, <2>2 DEF RxContents
<1>6. ASSUME NEW samples, RxWbSteps(samples)
      PROVE  Goal
  <2>1. PICK ack \in BOOLEAN : RxDmaStep(ack)
    BY <1>6 DEF RxWbSteps, RxWbEdge
  <2>2. CASE /\ rx_fifo_rd_ptr_wb' = rx_fifo_rd_ptr_wb /\ RxTaken' = RxTaken
             /\ rx_fifo_rdata' = rx_fifo_rdata /\ (InHand' => InHand)
             /\ InHand' => rx_dma_remaining' = rx_dma_remaining
    BY <1>1, <1>2, <1>4, <2>2 DEF RxContents
  <2>3. CASE /\ rx_fifo_rd_ptr_wb' = Next1(rx_fifo_rd_ptr_wb) /\ RxTaken' = RxTaken + 1
             /\ rx_dma_state = "WRITE" /\ rx_fifo_count_wb > 0 /\ InHand'
             /\ rx_fifo_rdata' = rx_fifo[rx_fifo_rd_ptr_wb] /\ rx_dma_remaining' > 0
    <3>1. Dist(rx_fifo_wr_ptr, r) > 0
      <4>1. Dist(rx_fifo_wr_ptr_wb_bin, r) > 0
        <5>1. rx_fifo_count_wb <= Dist(rx_fifo_wr_ptr_wb_bin, r)
          BY <2>3 DEF RxInv, RxCounts
        <5> QED BY <2>3, <5>1, RxCopies, DistType, PtrType DEF RxInv, RxTypeOK
      <4>2. /\ Dist(rx_fifo_wr_ptr_wb_bin, r) = RxD(rx_fifo_wr_ptr_wb_bin) - RxD(r)
            /\ Dist(rx_fifo_wr_ptr, r) = RxD(rx_fifo_wr_ptr) - RxD(r)
        BY RxCopies, Rebase DEF RxD
      <4> QED BY <4>1, <4>2, RxCopies
    <3>2. Dist(w, r) > 0 /\ Len(received) >= RxTaken + 1
      <4>1. /\ Dist(w, r) = RxD(w) - RxD(r) /\ Dist(rx_fifo_wr_ptr, r) = RxD(rx_fifo_wr_ptr) - RxD(r)
            /\ RxD(rx_fifo_wr_ptr) <= RxD(w) /\ RxD(r) \in Nat /\ RxD(w) \in Nat
            /\ RxD(rx_fifo_wr_ptr) \in Nat
        <5>1. RxD(rx_fifo_wr_ptr) <= RxD(w)
          BY RxD2dContents
        <5>2. /\ w \in Ptr /\ r \in Ptr /\ rx_fifo_wr_ptr \in Ptr
              /\ rx_fifo_rd_ptr_d2d_bin \in Ptr
              /\ RxD(r) \in Nat /\ RxD(w) \in Nat /\ RxD(rx_fifo_wr_ptr) \in Nat
              /\ RxD(r) <= RxD(rx_fifo_wr_ptr)
          BY <1>1, RxCopies, SMTT(40)
        <5>3. \A p \in Ptr : RxD(r) <= RxD(p) => Dist(p, r) = RxD(p) - RxD(r)
          BY <5>2, Rebase DEF RxD
        <5>4. RxD(r) <= RxD(w)
          BY <5>1, <5>2
        <5> HIDE DEF r, w
        <5> QED BY <5>1, <5>2, <5>3, <5>4
      <4> QED BY <1>1, <1>2, <3>1, <4>1
    <3>3. Holds(Next1(r), RxTaken + 1, w, rx_fifo', received', FALSE)
      BY <1>1, <3>2, HoldsRead
    <3>4. rx_fifo[r] = received[RxTaken + 1]
      <4>1. Holds(r, RxTaken, rx_fifo_wr_ptr, rx_fifo, received, FALSE)
        BY DEF RxInv, RxContents
      <4>2. rx_fifo_wr_ptr \in Ptr /\ r \in Ptr /\ RxTaken \in Nat
        BY <1>1, RxCopies
      <4> HIDE DEF r
      <4>3. Dist(r, r) = 0 /\ RxTaken + 0 + 1 = RxTaken + 1
        BY <4>2, DistType
      <4>4. rx_fifo[r] = received[RxTaken + Dist(r, r) + 1]
        BY <3>1, <4>1, <4>2, <4>3 DEF Holds
      <4> QED BY <4>3, <4>4
    <3>5. received[RxTaken + 1] = received'[RxTaken + 1]
      BY <1>1, <1>3, <3>2
    <3>6. RxContents'
      BY <2>3, <3>3 DEF RxContents
    <3>7. rx_fifo_rdata' = received'[RxTaken']
      BY <2>3, <3>4, <3>5
    <3>8. RxTaken + 1 <= Len(received')
      BY <1>1, <1>2, <3>2
    <3> QED BY <1>1, <2>3, <3>2, <3>6, <3>7, <3>8
  <2> QED BY <2>1, <2>2, <2>3, RxTakenEdge
<1> QED BY <1>5, <1>6 DEF RxEdges

\* Memory has the flits of the pairs written, in the order the port took them.
LEMMA RxStoredStep ==
    ASSUME RxInv, RxEdges
    PROVE  /\ RxStored' /\ RxInHand'
           /\ \/ Delivered' = Delivered
              \/ /\ Delivered' = Append(Delivered, received[Len(Delivered) + 1])
                 /\ Len(Delivered) < Len(received)
           /\ stored' \in Seq(StoredWord)
<1> DEFINE n == Len(Delivered)
           Goal == /\ RxStored'
                   /\ rx_dma_state' = "WAIT_SECOND" =>
                          rx_wb_dat' = rx_fifo_rdata'.lo /\ rx_wb_adr' = rx_dma_current_addr'
                   /\ rx_dma_state' = "WAIT_SECOND2" =>
                          /\ rx_wb_dat' = rx_fifo_rdata'.hi
                          /\ rx_wb_adr' = rx_dma_current_addr' + 4
                          /\ stored'[Len(stored')]
                                 = [adr |-> rx_dma_current_addr', dat |-> rx_fifo_rdata'.lo]
                   /\ \/ Delivered' = Delivered
                      \/ /\ Delivered' = Append(Delivered, received[Len(Delivered) + 1])
                         /\ Len(Delivered) < Len(received)
                   /\ stored' \in Seq(StoredWord)
<1>1. /\ n \in Nat /\ stored \in Seq(StoredWord) /\ Delivered \in Seq(Flit)
      /\ received \in Seq(Flit) /\ RxTaken \in Nat
      /\ Len(stored) = 2 * n + (IF rx_dma_state = "WAIT_SECOND2" THEN 1 ELSE 0)
      /\ \A i \in 1..n : /\ Delivered[i] = received[i]
                         /\ stored[2 * i].adr = stored[2 * i - 1].adr + 4
      /\ rx_wb_adr \in Nat /\ rx_wb_dat \in Nat /\ rx_fifo_rdata \in Flit
      /\ rx_dma_current_addr \in Nat
      /\ [adr |-> rx_wb_adr, dat |-> rx_wb_dat] \in StoredWord
  BY RxTakenType DEF RxInv, RxTypeOK, RxStored, StoredWord
<1>2. /\ Len(received) = RxTaken + Dist(rx_fifo_wr_ptr, rx_fifo_rd_ptr_wb)
      /\ RxTaken <= Len(received)
  <2>1. Dist(rx_fifo_wr_ptr, rx_fifo_rd_ptr_wb) \in Nat
    BY RxCopies, DistType
  <2> QED BY <1>1, <2>1 DEF RxInv, RxContents, Holds
<1>3. \A i \in 1..Len(received) : received'[i] = received[i]
  <2>1. /\ \/ received' = received
           \/ \E data \in Flit : received' = Append(received, data)
        /\ received \in Seq(Flit)
    BY RxD2dContents
  <2> QED BY <2>1
<1>4. n <= RxTaken /\ (InHand => RxTaken = n + 1)
  BY <1>1 DEF RxTaken
<1>5. ASSUME stored' = stored,
             rx_dma_state' = "WAIT_SECOND2" <=> rx_dma_state = "WAIT_SECOND2"
      PROVE  RxStored' /\ Delivered' = Delivered /\ stored' \in Seq(StoredWord)
  <2>1. Delivered' = Delivered
    BY <1>5, DeliveredPairs
  <2>2. \A i \in 1..n : i \in 1..Len(received)
    BY <1>1, <1>2, <1>4
  <2> QED BY <1>1, <1>3, <1>5, <2>1, <2>2 DEF RxStored
<1>6. CASE RxKeepWb
  <2>1. UNCHANGED <<rx_dma_state, rx_dma_current_addr, rx_wb_adr, rx_wb_dat, rx_fifo_rdata,
                    stored>>
    BY <1>6 DEF RxKeepWb, rxWbVars, rxDmaVars
  <2>2. RxStored' /\ Delivered' = Delivered /\ stored' \in Seq(StoredWord)
    BY <1>5, <2>1
  <2>3. RxInHand
    BY DEF RxInv
  <2> QED BY <2>1, <2>2, <2>3, RxContentsStep DEF RxInHand
<1>7. ASSUME NEW ack \in BOOLEAN, RxDmaStep(ack)
      PROVE  Goal
  <2>1. CASE RxDmaIdle \/ RxDmaWrite \/ RxDmaDone
    <3>1. /\ stored' = stored
          /\ rx_dma_state' \notin {"WAIT_SECOND", "WAIT_SECOND2"}
          /\ rx_dma_state \notin {"WAIT_SECOND", "WAIT_SECOND2"}
      BY <2>1 DEF RxDmaIdle, RxDmaWrite, RxDmaDone
    <3> QED BY <1>5, <3>1
  <2>2. CASE RxDmaWaitFirst
    BY <1>5, <2>2 DEF RxDmaWaitFirst
  <2>3. CASE UNCHANGED <<rx_dma_state, rx_dma_current_addr, rx_wb_adr, rx_wb_dat,
                         rx_fifo_rdata, stored>>
    BY <1>5, <2>3 DEF RxInv, RxInHand
  <2>4. CASE /\ rx_dma_state = "WAIT_SECOND" /\ rx_dma_state' = "WAIT_SECOND2" /\ Store
             /\ rx_wb_adr' = rx_dma_current_addr + 4 /\ rx_wb_dat' = rx_fifo_rdata.hi
             /\ UNCHANGED <<rx_dma_current_addr, rx_fifo_rdata>>
    <3>1. rx_wb_dat = rx_fifo_rdata.lo /\ rx_wb_adr = rx_dma_current_addr
      BY <2>4 DEF RxInv, RxInHand
    <3>2. Len(stored) = 2 * n
      BY <1>1, <2>4
    <3>3. /\ Delivered' = Delivered /\ Len(stored') = 2 * n + 1
          /\ stored'[Len(stored')] = [adr |-> rx_wb_adr, dat |-> rx_wb_dat]
          /\ \A i \in 1..(2 * n) : stored'[i] = stored[i]
          /\ stored' \in Seq(StoredWord)
      <4>1. stored' = Append(stored, [adr |-> rx_wb_adr, dat |-> rx_wb_dat])
        BY <2>4 DEF Store
      <4>2. Delivered' = Delivered
        BY <1>1, <3>2, <4>1, PairsAppend, DeliveredPairs
      <4>3. /\ stored \in Seq(StoredWord)
            /\ [adr |-> rx_wb_adr, dat |-> rx_wb_dat] \in StoredWord
        BY <1>1
      <4>4. /\ Len(stored') = 2 * n + 1 /\ stored' \in Seq(StoredWord)
            /\ \A i \in 1..(2 * n) : stored'[i] = stored[i]
        BY <3>2, <4>1, <4>3
      <4>5. stored'[Len(stored')] = [adr |-> rx_wb_adr, dat |-> rx_wb_dat]
        BY <4>1, <4>3
      <4> QED BY <4>2, <4>4, <4>5
    <3>4. RxStored'
      <4>1. \A i \in 1..n : /\ i \in 1..Len(received)
                            /\ 2 * i \in 1..(2 * n) /\ 2 * i - 1 \in 1..(2 * n)
        BY <1>1, <1>2, <1>4
      <4> QED BY <1>1, <1>3, <2>4, <3>3, <4>1 DEF RxStored
    <3> QED BY <2>4, <3>1, <3>3, <3>4
  <2>5. CASE /\ rx_dma_state = "WAIT_SECOND2" /\ rx_dma_state' \in {"DONE", "WRITE"} /\ Store
    <3>1. /\ rx_wb_dat = rx_fifo_rdata.hi /\ rx_wb_adr = rx_dma_current_addr + 4
          /\ stored[Len(stored)] = [adr |-> rx_dma_current_addr, dat |-> rx_fifo_rdata.lo]
          /\ InHand /\ rx_fifo_rdata = received[RxTaken]
      BY <2>5 DEF RxInv, RxInHand, InHand
    <3>2. Len(stored) = 2 * n + 1
      BY <1>1, <2>5
    <3>3. rx_fifo_rdata = [lo |-> stored[Len(stored)].dat, hi |-> rx_wb_dat]
      BY <1>1, <3>1 DEF Flit
    <3>4. Delivered' = Append(Delivered, rx_fifo_rdata)
      BY <1>1, <2>5, <3>2, <3>3, PairsAppend, DeliveredPairs DEF Store
    <3>5. RxTaken = n + 1 /\ n < Len(received) /\ rx_fifo_rdata = received[n + 1]
      BY <1>1, <1>2, <1>4, <3>1
    <3>6. /\ Len(stored') = 2 * n + 2 /\ stored' \in Seq(StoredWord)
          /\ stored'[2 * n + 2] = [adr |-> rx_wb_adr, dat |-> rx_wb_dat]
          /\ \A i \in 1..(2 * n + 1) : stored'[i] = stored[i]
      <4>1. stored' = Append(stored, [adr |-> rx_wb_adr, dat |-> rx_wb_dat])
        BY <2>5 DEF Store
      <4>2. /\ stored \in Seq(StoredWord)
            /\ [adr |-> rx_wb_adr, dat |-> rx_wb_dat] \in StoredWord
        BY <1>1
      <4>3. /\ Len(stored') = 2 * n + 2 /\ stored' \in Seq(StoredWord)
            /\ \A i \in 1..(2 * n + 1) : stored'[i] = stored[i]
        BY <3>2, <4>1, <4>2
      <4>4. stored'[Len(stored) + 1] = [adr |-> rx_wb_adr, dat |-> rx_wb_dat]
        BY <4>1, <4>2
      <4>5. Len(stored) + 1 = 2 * n + 2
        <5>1. n \in Nat
          BY <1>1
        <5> HIDE DEF n
        <5> QED BY <3>2, <5>1
      <4> QED BY <4>3, <4>4, <4>5
    <3>7. Len(Delivered') = n + 1 /\ Delivered'[n + 1] = rx_fifo_rdata
          /\ \A i \in 1..n : Delivered'[i] = Delivered[i]
      BY <1>1, <3>4
    <3>8. RxStored'
      <4>1. ASSUME NEW i \in 1..n
            PROVE  /\ Delivered'[i] = received'[i]
                   /\ stored'[2 * i].adr = stored'[2 * i - 1].adr + 4
        <5>1. /\ i \in 1..Len(received)
              /\ 2 * i \in 1..(2 * n + 1) /\ 2 * i - 1 \in 1..(2 * n + 1)
          BY <1>1, <1>2, <1>4
        <5> QED BY <1>1, <1>3, <3>6, <3>7, <5>1
      <4>2. /\ Delivered'[n + 1] = received'[n + 1]
            /\ stored'[2 * (n + 1)].adr = stored'[2 * (n + 1) - 1].adr + 4
        <5>1. /\ n + 1 \in 1..Len(received) /\ 2 * n + 1 \in 1..(2 * n + 1)
              /\ 2 * (n + 1) = 2 * n + 2 /\ 2 * (n + 1) - 1 = 2 * n + 1
          BY <1>1, <1>2, <3>5
        <5>2. stored'[2 * n + 1].adr = rx_dma_current_addr
          BY <3>1, <3>2, <3>6, <5>1
        <5> QED BY <1>3, <3>1, <3>5, <3>6, <3>7, <5>1, <5>2
      <4>3. \A i \in 1..(n + 1) : i = n + 1 \/ i \in 1..n
        BY <1>1
      <4>4. rx_dma_state' # "WAIT_SECOND2" /\ 2 * (n + 1) = 2 * n + 2
        BY <1>1, <2>5
      <4>5. \A i \in 1..Len(Delivered') :
                /\ Delivered'[i] = received'[i]
                /\ stored'[2 * i].adr = stored'[2 * i - 1].adr + 4
        BY <3>7, <4>1, <4>2, <4>3
      <4>6. Len(stored') = 2 * Len(Delivered') + 0
        BY <1>1, <3>6, <3>7, <4>4
      <4> QED BY <4>4, <4>5, <4>6 DEF RxStored
    <3> QED BY <2>5, <3>4, <3>5, <3>6, <3>8
  <2>6. CASE RxDmaWaitSecond(ack)
    BY <2>3, <2>4, <2>6 DEF RxDmaWaitSecond
  <2>7. CASE RxDmaWaitSecond2(ack)
    BY <2>3, <2>5, <2>7 DEF RxDmaWaitSecond2
  <2> QED BY <1>7, <2>1, <2>2, <2>6, <2>7 DEF RxDmaStep
<1>8. ASSUME NEW samples, RxWbSteps(samples)
      PROVE  Goal
  BY <1>7, <1>8 DEF RxWbSteps, RxWbEdge
<1> QED BY <1>6, <1>8, RxContentsStep DEF RxEdges, RxInHand

-----------------------------------------------------------------------------
(* Types                                                                    *)

LEMMA RxCsrTypes ==
    ASSUME RxInv, RxEdges
    PROVE  rx_control' \subseteq RxControl /\ rx_dest_addr' \in Nat /\ rx_length' \in Nat
<1>1. CASE RxKeepSw
  BY <1>1 DEF RxKeepSw, rxSwVars, RxInv, RxTypeOK
<1>2. CASE RxCsrWrite
  BY <1>1, <1>2, RxInputAssumption DEF RxCsrWrite, RxInv, RxTypeOK
<1> QED BY <1>1, <1>2 DEF RxEdges

LEMMA RxShiftType ==
    ASSUME NEW sync \in [0..2 -> BOOLEAN], NEW in \in BOOLEAN
    PROVE  Shift(sync, in) \in [0..2 -> BOOLEAN]
<1>1. \A i \in 0..2 : i # 0 => i - 1 \in 0..2 /\ sync[i - 1] \in BOOLEAN
  OBVIOUS
<1> QED BY <1>1 DEF Shift

LEMMA RxWbTypes ==
    ASSUME RxInv, RxEdges
    PROVE  /\ rx_dma_state' \in RxDmaStates
           /\ rx_dma_current_addr' \in Nat /\ rx_dma_remaining' \in Nat
           /\ rx_dma_busy' \in BOOLEAN /\ rx_dma_done' \in BOOLEAN
           /\ rx_wb_adr' \in Nat /\ rx_wb_dat' \in Nat
           /\ rx_fifo_rdata' \in Flit /\ rx_fifo_count_wb' \in Ptr
           /\ rx_done_sync' \in [0..2 -> BOOLEAN]
<1> DEFINE Goal == /\ rx_dma_state' \in RxDmaStates
                   /\ rx_dma_current_addr' \in Nat /\ rx_dma_remaining' \in Nat
                   /\ rx_dma_busy' \in BOOLEAN /\ rx_dma_done' \in BOOLEAN
                   /\ rx_wb_adr' \in Nat /\ rx_wb_dat' \in Nat
                   /\ rx_fifo_rdata' \in Flit /\ rx_fifo_count_wb' \in Ptr
                   /\ rx_done_sync' \in [0..2 -> BOOLEAN]
<1>1. CASE RxKeepWb
  BY <1>1 DEF RxKeepWb, rxWbVars, rxDmaVars, rxFifoWbVars, RxInv, RxTypeOK
<1>2. ASSUME NEW samples, RxWbSteps(samples)
      PROVE  Goal
  <2>1. PICK ack \in BOOLEAN : /\ RxDmaStep(ack)
                               /\ rx_done_sync' = Shift(rx_done_sync, rx_dma_done)
    BY <1>2 DEF RxWbSteps, RxWbEdge
  <2>2. rx_done_sync' \in [0..2 -> BOOLEAN]
    BY <2>1, RxShiftType DEF RxInv, RxTypeOK
  <2>3. rx_fifo_count_wb' \in Ptr
    BY <1>2, RxWbPointers, RxCopies, DistType
  <2> QED BY <2>1, <2>2, <2>3, RxDmaTypes
<1> QED BY <1>1, <1>2 DEF RxEdges

LEMMA RxD2dTypes ==
    ASSUME RxInv, RxEdges
    PROVE  /\ {rx_start_sync', rx_enable_sync'} \subseteq [0..2 -> BOOLEAN]
           /\ rx_ready' \in BOOLEAN /\ rx_fifo_count' \in Ptr
<1>1. CASE RxKeepD2d
  BY <1>1 DEF RxKeepD2d, rxD2dVars, rxPortVars, rxFifoD2dVars, RxInv, RxTypeOK
<1>2. ASSUME NEW samples, RxD2dSteps(samples)
      PROVE  /\ {rx_start_sync', rx_enable_sync'} \subseteq [0..2 -> BOOLEAN]
             /\ rx_ready' \in BOOLEAN /\ rx_fifo_count' \in Ptr
  <2>1. PICK start \in BOOLEAN, enable \in BOOLEAN : SyncControl(start, enable)
    BY <1>2 DEF RxD2dSteps, RxD2dEdge
  <2>2. {rx_start_sync', rx_enable_sync'} \subseteq [0..2 -> BOOLEAN]
    BY <2>1, RxShiftType DEF SyncControl, RxInv, RxTypeOK
  <2>3. \/ \E data \in Flit : PortTake(data)
        \/ \E valid, len, done : PortWait(valid, len, done)
    BY <1>2, Zenon DEF RxD2dSteps, RxD2dEdge
  <2>4. rx_ready' \in BOOLEAN
    <3>1. ASSUME NEW data \in Flit, PortTake(data)
          PROVE  rx_ready' \in BOOLEAN
      <4>1. rx_ready' = (rx_fifo_count >= LastEntry)
        BY <3>1 DEF PortTake
      <4> QED BY <4>1
    <3>2. ASSUME NEW valid, NEW len, NEW done, PortWait(valid, len, done)
          PROVE  rx_ready' \in BOOLEAN
      <4>1. rx_ready' = SideReady(len, done)
        BY <3>2 DEF PortWait
      <4> QED BY <4>1, Zenon DEF SideReady
    <3> QED BY <2>3, <3>1, <3>2
  <2>5. rx_fifo_count' \in Ptr
    BY <1>2, RxD2dPointers, RxCopies, DistType DEF RxD
  <2> QED BY <2>2, <2>4, <2>5
<1> QED BY <1>1, <1>2 DEF RxEdges

-----------------------------------------------------------------------------
(* The theorems                                                             *)

\* The invariant holds after reset.
LEMMA RxInitInv == RxInit => RxInv
<1> SUFFICES ASSUME RxInit PROVE RxInv
  OBVIOUS
<1>0. RxInitWb /\ RxInitD2d
  BY DEF RxInit
<1>1. 0 \in Ptr /\ ToGray[0] \in Word /\ FromGray[ToGray[0]] = 0
  BY DepthAssumption, WordType DEF Ptr
<1>2. RxTypeOK
  <2>1. ZeroFlit \in Flit
    BY DEF ZeroFlit, Flit
  <2>2. Low3 \in [0..2 -> BOOLEAN] /\ [p \in Ptr |-> ZeroFlit] \in [Ptr -> Flit]
    BY <2>1 DEF Low3
  <2>3. "IDLE" \in RxDmaStates /\ {} \subseteq RxControl
    BY DEF RxDmaStates, RxControl
  <2>4. <<>> \in Seq(Flit) /\ <<>> \in Seq([adr : Nat, dat : Nat])
    OBVIOUS
  <2>5. /\ rx_control \subseteq RxControl /\ rx_dest_addr \in Nat /\ rx_length \in Nat
        /\ rx_dma_state \in RxDmaStates
        /\ rx_dma_current_addr \in Nat /\ rx_dma_remaining \in Nat
        /\ rx_dma_busy \in BOOLEAN /\ rx_dma_done \in BOOLEAN
        /\ rx_wb_adr \in Nat /\ rx_wb_dat \in Nat /\ rx_fifo_rdata \in Flit
    BY <1>0, <2>1, <2>3 DEF RxInitWb
  <2>6. /\ rx_fifo_rd_ptr_wb \in Ptr /\ rx_fifo_count_wb \in Ptr
        /\ rx_fifo_rd_ptr_wb_gray \in Word /\ rx_wr_gray_sync1 \in Word
        /\ rx_wr_gray_sync2 \in Word /\ rx_fifo_wr_ptr_wb_bin \in Ptr
        /\ rx_done_sync \in [0..2 -> BOOLEAN] /\ stored \in Seq([adr : Nat, dat : Nat])
    BY <1>0, <1>1, <2>2, <2>4 DEF RxInitWb
  <2>7. /\ {rx_start_sync, rx_enable_sync} \subseteq [0..2 -> BOOLEAN]
        /\ rx_ready \in BOOLEAN /\ rx_fifo \in [Ptr -> Flit] /\ rx_fifo_wr_ptr \in Ptr
        /\ rx_fifo_count \in Ptr
        /\ rx_wr_gray_d2d \in Word /\ rx_rd_gray_sync1 \in Word /\ rx_rd_gray_sync2 \in Word
        /\ rx_fifo_rd_ptr_d2d_bin \in Ptr /\ received \in Seq(Flit)
    BY <1>0, <1>1, <2>2, <2>4 DEF RxInitD2d
  <2> QED BY <2>5, <2>6, <2>7 DEF RxTypeOK
<1>3. RxOrdered /\ RxOneStep /\ RxCounts /\ ReadyMeansRoom /\ RxNoOverwrite
  BY <1>0, <1>1, DistType
     DEF RxInitWb, RxInitD2d, RxOrdered, NotAfter, RxOneStep, RxCounts, ReadyMeansRoom,
         RxNoOverwrite
<1>4. Len(Delivered) = 0 /\ Len(stored) = 0 /\ ~InHand /\ Len(received) = 0
  <2>1. stored = <<>> /\ stored \in Seq(StoredWord) /\ Len(stored) = 0 /\ 0 \div 2 = 0
    BY <1>0 DEF RxInitWb
  <2> QED BY <1>0, <2>1, PairsType, DeliveredPairs DEF RxInitWb, RxInitD2d, InHand
<1>5. RxContents /\ RxInHand /\ RxStored
  <2>1. RxTaken = 0
    BY <1>4 DEF RxTaken
  <2>2. RxContents
    BY <1>0, <1>1, <1>4, <2>1, DistType DEF RxContents, Holds, RxInitWb, RxInitD2d
  <2>3. RxInHand
    BY <1>0, <1>4 DEF RxInHand, RxInitWb
  <2>4. RxStored
    BY <1>0, <1>4 DEF RxStored, RxInitWb
  <2> QED BY <2>2, <2>3, <2>4
<1> QED BY <1>2, <1>3, <1>5 DEF RxInv

\* Every edge preserves it.
LEMMA RxEdgesInv == RxInv /\ RxEdges => RxInv'
<1> SUFFICES ASSUME RxInv, RxEdges PROVE RxInv'
  OBVIOUS
<1>1. RxTypeOK'
  BY RxCsrTypes, RxWbTypes, RxD2dTypes, RxWordsStep, RxD2dContents, RxStoredStep
     DEF RxTypeOK, StoredWord
<1> QED BY <1>1, RxWordsStep, RxOrderedStep, RxCountsStep, RxReadyStep, RxContentsStep,
           RxStoredStep DEF RxInv

\* An edge is a step of the reliable channel from the port to the memory.
LEMMA RxEdgesChannel ==
    ASSUME RxInv, RxEdges
    PROVE  [RxChannel!Next]_<<received, Delivered>>
<1>1. RxChannel!Leave
  BY RxStoredStep DEF RxChannel!Leave
<1>2. RxChannel!Enter
  <2>1. CASE received' = received
    BY <2>1 DEF RxChannel!Enter
  <2>2. ASSUME NEW data \in Flit, received' = Append(received, data), rx_ready
        PROVE  RxChannel!Enter
    <3>1. Dist(rx_fifo_wr_ptr, rx_fifo_rd_ptr_wb) < LastEntry
      BY <2>2 DEF RxInv, RxNoOverwrite
    <3>2. /\ Len(received) = RxTaken + Dist(rx_fifo_wr_ptr, rx_fifo_rd_ptr_wb)
          /\ Dist(rx_fifo_wr_ptr, rx_fifo_rd_ptr_wb) \in Nat
      BY RxCopies, DistType, RxTakenType DEF RxInv, RxContents, Holds
    <3>3. RxTaken \in Nat /\ Len(Delivered) \in Nat /\ RxTaken <= Len(Delivered) + 1
      BY RxTakenType DEF RxTaken
    <3>4. Len(received) < Len(Delivered) + Depth
      BY <3>1, <3>2, <3>3, DepthAssumption DEF LastEntry
    <3>5. received \in Seq(Flit)
      BY RxD2dContents
    <3>6. Len(received') = Len(received) + 1 /\ received'[Len(received')] = data
      BY <2>2, <3>5
    <3> QED BY <2>2, <3>4, <3>5, <3>6 DEF RxChannel!Enter
  <2> QED BY <2>1, <2>2, RxD2dContents
<1> QED BY <1>1, <1>2 DEF RxChannel!Next

LEMMA RxNextInv == RxInv /\ [RxNext]_rxVars => RxInv'
BY RxStepCases, RxEdgesInv DEF RxInv

\* After reset nothing is taken and nothing written.
LEMMA DeliveredInit == RxInit => received = <<>> /\ Delivered = <<>>
<1> SUFFICES ASSUME RxInit PROVE received = <<>> /\ Delivered = <<>>
  OBVIOUS
<1>1. received = <<>> /\ stored = <<>> /\ stored \in Seq(StoredWord) /\ Len(stored) = 0
      /\ 0 \div 2 = 0
  BY DEF RxInit, RxInitWb, RxInitD2d
<1>2. Delivered \in Seq(Flit) /\ Len(Delivered) = 0
  BY <1>1, PairsType, DeliveredPairs
<1> QED BY <1>1, <1>2

\* The inductive invariant holds in every reachable state: among its parts, ready is
\* raised only over a free slot and memory gets every flit once, in order, in two
\* words at neighbouring addresses.
THEOREM RxInvariance == RxSpec => []RxInv
BY RxInitInv, RxNextInv, PTL DEF RxSpec

\* The registers of the receive half keep their types, whatever the clocks do.
THEOREM RxTypeCorrect == RxSpec => []RxTypeOK
<1>1. RxInv => RxTypeOK
  BY DEF RxInv
<1> QED BY <1>1, RxInvariance, PTL

\* The port never offers to take a flit the FIFO would drop, and no slot the engine has
\* still to read is overwritten, although both sides decide on old copies of the
\* other's pointer.
THEOREM RxNeverDrops == RxSpec => [](ReadyMeansRoom /\ RxNoOverwrite)
<1>1. RxInv => ReadyMeansRoom /\ RxNoOverwrite
  BY DEF RxInv
<1> QED BY <1>1, RxInvariance, PTL

\* The receive half is a reliable, ordered channel of at most Depth flits, from the port
\* to the memory.
THEOREM RxReliable == RxSpec => ReliableRx
<1>1. RxInit => RxChannel!Init
  BY DeliveredInit DEF RxChannel!Init
<1>2. RxInv /\ [RxNext]_rxVars => [RxChannel!Next]_<<received, Delivered>>
  BY RxStepCases, RxEdgesChannel DEF RxInv
<1> QED BY <1>1, <1>2, RxInvariance, PTL DEF RxSpec, ReliableRx, RxChannel!Spec
=============================================================================
