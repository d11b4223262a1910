------------------------------- MODULE D2DArb -------------------------------
(***************************************************************************)
(* The wrapper's arbiter between the two DMA engines of a link             *)
(* (rtl/d2d/verilog/d2d_link_wrapper.v): a grant lasts for one bus access, *)
(* returns to IDLE for a cycle and alternates when both engines wait.      *)
(***************************************************************************)
VARIABLES arb_state, last_was_rx

ArbTypeOK == arb_state \in {"IDLE", "GRANT_TX", "GRANT_RX"} /\ last_was_rx \in BOOLEAN

ArbInit == arb_state = "IDLE" /\ last_was_rx = FALSE

\* The acknowledge of the bus reaches the engine that holds the grant, and no other.
tx_ack(wb_ack) == arb_state = "GRANT_TX" /\ wb_ack
rx_ack(wb_ack) == arb_state = "GRANT_RX" /\ wb_ack

\* wb_stb_o: what the bus sees of the two engines' requests.
BusStb(tx_stb, rx_stb) ==
    \/ arb_state = "GRANT_TX" /\ tx_stb
    \/ arb_state = "GRANT_RX" /\ rx_stb

GrantRx == arb_state' = "GRANT_RX" /\ last_was_rx' = TRUE
GrantTx == arb_state' = "GRANT_TX" /\ last_was_rx' = FALSE

\* Fault: strict alternation, an engine alone gets no second access.
ArbIdle_Strict(tx_cyc, rx_cyc) ==
    /\ arb_state = "IDLE"
    /\ \/ rx_cyc /\ ~last_was_rx /\ GrantRx
       \/ tx_cyc /\ last_was_rx /\ GrantTx
       \/ ~(rx_cyc /\ ~last_was_rx) /\ ~(tx_cyc /\ last_was_rx)
          /\ UNCHANGED <<arb_state, last_was_rx>>

\* IDLE: the receive engine first unless it had the last grant.
ArbIdle(tx_cyc, rx_cyc) ==
    /\ arb_state = "IDLE"
    /\ \/ rx_cyc /\ ~last_was_rx /\ GrantRx
       \/ tx_cyc /\ ~(rx_cyc /\ ~last_was_rx) /\ GrantTx
       \/ rx_cyc /\ last_was_rx /\ ~tx_cyc /\ GrantRx
       \/ ~tx_cyc /\ ~rx_cyc /\ UNCHANGED <<arb_state, last_was_rx>>

\* GRANT_TX and GRANT_RX: one access, however long the bus takes.
ArbGrant(wb_ack) ==
    /\ arb_state # "IDLE"
    /\ arb_state' = IF wb_ack THEN "IDLE" ELSE arb_state
    /\ UNCHANGED last_was_rx

ArbEdge(tx_cyc, rx_cyc, wb_ack) == ArbIdle(tx_cyc, rx_cyc) \/ ArbGrant(wb_ack)
=============================================================================
