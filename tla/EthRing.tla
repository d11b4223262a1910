------------------------------ MODULE EthRing ------------------------------
(***************************************************************************)
(* The descriptor rings of the Ethernet driver (orpmon/drivers/eth.c) and  *)
(* NetSendPacket of net.c above them, with the MAC at the other side.  The *)
(* loads over the network (NetBoot) take the MAC to send a frame before    *)
(* the next is given; here it is as slow as it likes.                      *)
(*                                                                         *)
(* A frame is its number; a buffer holds one.  Null is the buffer at       *)
(* address zero, which eth_get_tx_buf returns when it has none.            *)
(***************************************************************************)
EXTENDS Integers, Sequences

CONSTANTS ETH_TXBD_NUM, ETH_RXBD_NUM,
          MaxSends,     \* bound: calls of NetSendPacket
          MaxArrivals,  \* bound: frames from outside
          MaxInits      \* bound: calls of eth_init

\* The indexes are wrapped with a mask.
ASSUME EthAssumption ==
    /\ \A n \in {ETH_TXBD_NUM, ETH_RXBD_NUM} : n \in Nat \ {0} /\ \E k \in 0 .. n : n = 2 ^ k
    /\ {MaxSends, MaxArrivals, MaxInits} \subseteq Nat

VARIABLES tx_bd, rx_bd,      \* the descriptors
          buf,               \* the buffers of the transmit ring, and what Null overwrites
          tx_next, tx_last, tx_full, rx_next,
          mac,               \* the MAC: whether it runs, and its places in the rings
          ethPc,
          ethLog             \* given, sent, arrived and received frames; full: a send found no buffer

ringVars == <<tx_bd, rx_bd, buf, tx_next, tx_last, tx_full, rx_next, mac, ethPc, ethLog>>

Null == ETH_TXBD_NUM
NoFrame == 0
init_tx_bd_pool == [i \in 0 .. ETH_TXBD_NUM - 1 |-> [ready |-> FALSE, addr |-> i]]
init_rx_bd_pool == [i \in 0 .. ETH_RXBD_NUM - 1 |-> [empty |-> TRUE, bad |-> FALSE, frame |-> NoFrame]]

RingInit ==
    /\ tx_bd = init_tx_bd_pool /\ rx_bd = init_rx_bd_pool
    /\ buf = [a \in 0 .. Null |-> NoFrame]
    /\ tx_next = 0 /\ tx_last = 0 /\ tx_full = FALSE /\ rx_next = 0
    /\ mac = [on |-> FALSE, link |-> FALSE, tx |-> 0, rx |-> 0]
    /\ ethPc = "off"
    /\ ethLog = [inits |-> 0, given |-> 0, wire |-> <<>>, arrived |-> <<>>, got |-> <<>>, full |-> FALSE]

\* eth_init resets the MAC and asks the PHY for its link until there is one.
EthInit ==
    /\ ethPc \in {"off", "idle"} /\ ethLog.inits < MaxInits
    /\ ethPc' = "link"
    /\ mac' = [mac EXCEPT !.on = FALSE, !.tx = 0, !.rx = 0]
    /\ ethLog' = [ethLog EXCEPT !.inits = @ + 1, !.given = 0, !.wire = <<>>, !.arrived = <<>>, !.got = <<>>, !.full = FALSE]
    /\ UNCHANGED <<tx_bd, rx_bd, buf, tx_next, tx_last, tx_full, rx_next>>

\* Fault: the place in the receive ring is kept.
RxStart_Kept == rx_next
RxStart == 0

\* With the link the rings start afresh and the MAC is enabled.
Enabled ==
    /\ ethPc = "link" /\ mac.link
    /\ ethPc' = "idle"
    /\ tx_bd' = init_tx_bd_pool /\ rx_bd' = init_rx_bd_pool
    /\ tx_next' = 0 /\ tx_last' = 0 /\ tx_full' = FALSE /\ rx_next' = RxStart
    /\ mac' = [mac EXCEPT !.on = TRUE]
    /\ UNCHANGED <<buf, ethLog>>

EthHalt ==
    /\ ethPc = "idle"
    /\ ethPc' = "off" /\ mac' = [mac EXCEPT !.on = FALSE]
    /\ UNCHANGED <<tx_bd, rx_bd, buf, tx_next, tx_last, tx_full, rx_next, ethLog>>

\* Fault: a descriptor the MAC has not sent yet is handed out.
NoBuffer_Ready == tx_full
NoBuffer == tx_full \/ tx_bd[tx_next].ready
eth_get_tx_buf == IF NoBuffer THEN Null ELSE tx_bd[tx_next].addr

\* NetSendPacket: the buffer, the copy into it, whatever it is, and eth_send, which takes the
\* descriptor at tx_last, whatever its state.
SendPacket ==
    LET add == eth_get_tx_buf
        frame == ethLog.given + 1
    IN /\ ethPc = "idle" /\ ethLog.given < MaxSends
       /\ buf' = [buf EXCEPT ![add] = frame]
       /\ tx_next' = IF NoBuffer THEN tx_next ELSE (tx_next + 1) % ETH_TXBD_NUM
       /\ tx_bd' = [tx_bd EXCEPT ![tx_last] = [ready |-> TRUE, addr |-> add]]
       /\ tx_last' = (tx_last + 1) % ETH_TXBD_NUM
       /\ tx_full' = FALSE
       /\ ethLog' = [ethLog EXCEPT !.given = frame, !.full = @ \/ NoBuffer]
       /\ UNCHANGED <<rx_bd, rx_next, mac, ethPc>>

\* Fault: a damaged frame keeps its descriptor.
Advance_Bad(bd) == IF bd.bad THEN bd ELSE [bd EXCEPT !.empty = TRUE, !.bad = FALSE]
Advance(bd) == [bd EXCEPT !.empty = TRUE, !.bad = FALSE]

\* A turn of eth_rx: damaged frames are counted out, the others received; what the layers above
\* send in answer is a call of NetSendPacket.
eth_rx ==
    LET bd == rx_bd[rx_next]
    IN /\ ethPc = "idle" /\ ~bd.empty
       /\ ethLog' = [ethLog EXCEPT !.got = IF bd.bad THEN @ ELSE Append(@, bd.frame)]
       /\ rx_bd' = [rx_bd EXCEPT ![rx_next] = Advance(bd)]
       /\ rx_next' = (rx_next + 1) % ETH_RXBD_NUM
       /\ UNCHANGED <<tx_bd, buf, tx_next, tx_last, tx_full, mac, ethPc>>

-----------------------------------------------------------------------------
(* The MAC and the line.                                                   *)

LinkChanges ==
    /\ mac' = [mac EXCEPT !.link = ~@]
    /\ UNCHANGED <<tx_bd, rx_bd, buf, tx_next, tx_last, tx_full, rx_next, ethPc, ethLog>>

MacSends ==
    /\ mac.on /\ tx_bd[mac.tx].ready
    /\ ethLog' = [ethLog EXCEPT !.wire = Append(@, buf[tx_bd[mac.tx].addr])]
    /\ tx_bd' = [tx_bd EXCEPT ![mac.tx].ready = FALSE]
    /\ mac' = [mac EXCEPT !.tx = (@ + 1) % ETH_TXBD_NUM]
    /\ UNCHANGED <<rx_bd, buf, tx_next, tx_last, tx_full, rx_next, ethPc>>

\* A frame takes the next descriptor; without one it is lost.
MacReceives(bad) ==
    /\ mac.on /\ rx_bd[mac.rx].empty /\ Len(ethLog.arrived) < MaxArrivals
    /\ rx_bd' = [rx_bd EXCEPT ![mac.rx] = [empty |-> FALSE, bad |-> bad, frame |-> Len(ethLog.arrived) + 1]]
    /\ mac' = [mac EXCEPT !.rx = (@ + 1) % ETH_RXBD_NUM]
    /\ ethLog' = [ethLog EXCEPT !.arrived = Append(@, bad)]
    /\ UNCHANGED <<tx_bd, buf, tx_next, tx_last, tx_full, rx_next, ethPc>>

RingNext == \/ EthInit \/ Enabled \/ EthHalt \/ SendPacket \/ eth_rx
        \/ LinkChanges \/ MacSends \/ (\E bad \in BOOLEAN : MacReceives(bad))

RingSpec == RingInit /\ [][RingNext]_ringVars

-----------------------------------------------------------------------------
(* Properties.                                                             *)

TxSlot(f) == (f - 1) % ETH_TXBD_NUM
RxSlot(f) == (f - 1) % ETH_RXBD_NUM
\* Frames in the rings: given and not sent, arrived behind the first n.
Unsent == Len(ethLog.wire) + 1 .. ethLog.given
Held(n) == n + 1 .. Len(ethLog.arrived)

\* Frames leave once, whole and in order as long as no send found the ring full; while the driver
\* runs none of them is missing either: each is on the wire or in a descriptor still to be sent.
RingInOrder ==
    ~ethLog.full /\ ethPc = "idle" =>
        /\ \A i \in DOMAIN ethLog.wire : ethLog.wire[i] = i
        /\ \A f \in Unsent : LET bd == tx_bd[TxSlot(f)] IN bd.ready /\ buf[bd.addr] = f

\* Of the first n frames that arrived the undamaged ones have been received, once and in order, and
\* the others are in the ring as they came.
Received(n) ==
    /\ \A i, j \in DOMAIN ethLog.got : i < j => ethLog.got[i] < ethLog.got[j]
    /\ {ethLog.got[i] : i \in DOMAIN ethLog.got} = {f \in 1 .. n : ~ethLog.arrived[f]}
    /\ \A f \in Held(n) : rx_bd[RxSlot(f)] = [empty |-> FALSE, bad |-> ethLog.arrived[f], frame |-> f]
\* No frame the MAC took is lost, received twice or out of order; with no frame waiting at the
\* driver's place the ring is empty.
RingReceives ==
    ethPc = "idle" =>
        /\ \E n \in 0 .. Len(ethLog.arrived) : Received(n)
        /\ rx_bd[rx_next].empty => \A i \in DOMAIN rx_bd : rx_bd[i].empty

\* Both directions at once.
RingsExact == RingInOrder /\ RingReceives

-----------------------------------------------------------------------------
(* Why they hold: both ends of a ring count the same frames.               *)

Macs == [on : BOOLEAN, link : BOOLEAN, tx : 0 .. ETH_TXBD_NUM - 1, rx : 0 .. ETH_RXBD_NUM - 1]
EthLogs == [inits : Nat, given : Nat, wire : Seq(Nat), arrived : Seq(BOOLEAN), got : Seq(Nat), full : BOOLEAN]
RingTypeOK ==
    /\ tx_bd \in [0 .. ETH_TXBD_NUM - 1 -> [ready : BOOLEAN, addr : 0 .. Null]]
    /\ rx_bd \in [0 .. ETH_RXBD_NUM - 1 -> [empty : BOOLEAN, bad : BOOLEAN, frame : Nat]]
    /\ buf \in [0 .. Null -> Nat]
    /\ {tx_next, tx_last} \subseteq 0 .. ETH_TXBD_NUM - 1 /\ rx_next \in 0 .. ETH_RXBD_NUM - 1
    /\ tx_full \in BOOLEAN
    /\ mac \in Macs
    /\ ethPc \in {"off", "link", "idle"}
    /\ ethLog \in EthLogs

\* The MAC rests until the rings have started afresh.
Stopped ==
    /\ ethPc # "idle" => ~mac.on
    /\ ethPc = "link" => /\ mac.tx = 0 /\ mac.rx = 0 /\ ethLog.given = 0 /\ ~ethLog.full
                         /\ ethLog.wire = <<>> /\ ethLog.arrived = <<>> /\ ethLog.got = <<>>
\* The ready descriptors are those from the MAC's place to the driver's, each with its own buffer.
SendRing ==
    ethPc = "idle" /\ ~ethLog.full =>
        /\ ~tx_full /\ tx_next = TxSlot(ethLog.given + 1) /\ tx_last = tx_next
        /\ mac.tx = TxSlot(Len(ethLog.wire) + 1)
        /\ Len(ethLog.wire) <= ethLog.given /\ ethLog.given <= Len(ethLog.wire) + ETH_TXBD_NUM
        /\ \A i \in 0 .. ETH_TXBD_NUM - 1 :
               tx_bd[i].addr = i /\ (tx_bd[i].ready <=> \E f \in Unsent : TxSlot(f) = i)
\* The full descriptors are those from the driver's place to the MAC's.
ReceiveRing(n) ==
    /\ rx_next = RxSlot(n + 1) /\ mac.rx = RxSlot(Len(ethLog.arrived) + 1)
    /\ Len(ethLog.arrived) <= n + ETH_RXBD_NUM
    /\ \A i \in 0 .. ETH_RXBD_NUM - 1 : rx_bd[i].empty <=> ~\E f \in Held(n) : RxSlot(f) = i
RingInv ==
    /\ RingTypeOK /\ Stopped /\ SendRing /\ RingInOrder
    /\ ethPc = "idle" => \E n \in 0 .. Len(ethLog.arrived) : Received(n) /\ ReceiveRing(n)
=============================================================================
