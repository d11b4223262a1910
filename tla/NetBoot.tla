------------------------------ MODULE NetBoot ------------------------------
(***************************************************************************)
(* The monitor's boot over the network: the loop of net.c, ARP, the TFTP   *)
(* client and the rings of the Ethernet driver (services/net.c, arp.c,     *)
(* tftp.c, drivers/eth.c), as board.h configures them: OC_LAN, no BOOTP,   *)
(* RARP or DHCP, images into memory.                                       *)
(*                                                                         *)
(* A boot is a call of NetLoop.  A turn of its loop hands every received   *)
(* frame to the handlers before it looks at ctrl-c, the timer and          *)
(* NetState; turns with nothing to do are stuttering.  The MAC fills the   *)
(* receive ring at any time and is taken to send what it is given before   *)
(* the next step.  The network loses, repeats and reorders frames, within  *)
(* bounds; the server keeps a session for every request it got and never   *)
(* forgets one, so that frames of an earlier boot, or of a transfer that   *)
(* was given up, still arrive.                                             *)
(* Boot b asks for file b; a block's data is the pair of file and number.  *)
(***************************************************************************)
EXTENDS Integers, Sequences, FiniteSets

CONSTANTS Ports,        \* values TftpOurPort takes
          FileBlocks,   \* blocks of a file, the last one short
          BlockMod,     \* 2^16: block numbers wrap here
          TimeoutCount, \* TIMEOUT_COUNT of tftp.c
          RxBds,        \* ETH_RXBD_NUM
          MaxBoots,     \* bound: calls of NetLoop
          MaxFaults     \* bound: frames lost, delivered twice or sent by others, errors of the
                        \* server, timeouts while an answer is on its way, ctrl-c

ASSUME NetAssumption ==
    /\ Ports # {} /\ Ports \subseteq Nat \ {0}
    /\ {FileBlocks, BlockMod, TimeoutCount, RxBds, MaxBoots} \subseteq Nat \ {0}
    /\ MaxFaults \in Nat
    /\ FileBlocks < BlockMod

VARIABLES net,    \* the statics of net.c, arp.c and tftp.c; tx: what a step sends
          mem,    \* the blocks from global.src_addr on; block 0 lies before it
          rx,     \* the receive ring: descriptors that are not EMPTY
          wire,   \* frames on their way
          server, \* the server's sessions
          faults  \* faults left

vars == <<net, mem, rx, wire, server, faults>>

Nothing == <<0, 0>>
Kinds == {"who_server", "server_addr", "who_us", "our_addr", "rrq", "data", "ack", "error", "udp"}
FrameRec == [k : Kinds, port : Nat, tid : Nat, block : Nat, file : Nat]
Frame(k, port, tid, block, file) == [k |-> k, port |-> port, tid |-> tid, block |-> block, file |-> file]
ArpReq == Frame("who_server", 0, 0, 0, 0)

Init ==
    /\ net = [boot |-> 0, running |-> FALSE, ok |-> FALSE, NetState |-> "continue", handler |-> "none", timer |-> "none",
              ether |-> FALSE, TftpState |-> "rrq", port |-> 0, tid |-> 0, count |-> 0, block |-> 0,
              last |-> 0, size |-> 0, tx |-> {}, used |-> {}, clash |-> FALSE]
    /\ mem = [b \in 0 .. FileBlocks |-> Nothing]
    /\ rx = <<>> /\ wire = {} /\ server = <<>>
    /\ faults = MaxFaults

-----------------------------------------------------------------------------
(* net.c and arp.c.                                                        *)

NetStartAgain(n) == [n EXCEPT !.NetState = "restart"]
NetSetHandler(n, h) == [n EXCEPT !.handler = h]
NetSetTimeout(n, h) == [n EXCEPT !.timer = h]

\* eth_get_tx_buf, the copy and eth_send.
NetSendPacket(n, m) == [n EXCEPT !.tx = @ \cup {m}]

ArpRequest(n) == NetSetHandler(NetSetTimeout(NetSendPacket(n, ArpReq), "arp"), "arp")

\* ArpTry is counted in a debug build only, so that ARP is never given up.
ArpTimeout(n) == ArpRequest(NetSetTimeout(n, "arp"))

\* From the label restart to the loop.
Restart(n) == [ArpRequest([n EXCEPT !.NetState = "continue"]) EXCEPT !.size = 0]

-----------------------------------------------------------------------------
(* tftp.c.                                                                 *)

TftpSend(n) ==
    NetSendPacket(n, IF n.TftpState = "rrq" THEN Frame("rrq", n.port, 0, 0, n.boot)
                     ELSE Frame("ack", n.port, n.tid, n.block, 0))

\* Fault: the timer of ARP stays armed.
TftpStart_NoTimeout(n, port) ==
    TftpSend([NetSetHandler(n, "tftp") EXCEPT !.tid = 0, !.count = 0, !.TftpState = "rrq", !.port = port,
                                              !.used = @ \cup {port}, !.clash = @ \/ port \in n.used])

\* A request to the well-known port (0).  Our port is get_timer modulo 3072: any, one used before included.
TftpStart(n, port) ==
    TftpSend([NetSetHandler(NetSetTimeout(n, "tftp"), "tftp")
              EXCEPT !.tid = 0, !.count = 0, !.TftpState = "rrq", !.port = port,
                     !.used = @ \cup {port}, !.clash = @ \/ port \in n.used])

\* Fault: the timer is not armed again.
TftpTimeout_Once(n) ==
    LET m == [n EXCEPT !.count = @ + 1]
    IN IF m.count >= TimeoutCount THEN NetStartAgain(m) ELSE TftpSend(m)

TftpTimeout(n) ==
    LET m == [n EXCEPT !.count = @ + 1]
    IN IF m.count >= TimeoutCount THEN NetStartAgain(m) ELSE TftpSend(NetSetTimeout(m, "tftp"))

\* Reply to the call of ArpHandler, with a reply or with whatever else arrives.
ArpHandler(n, port) == IF n.ether THEN TftpStart(n, port) ELSE n

\* Fault: a full block ends the file too.
Ends_Full(block) == block >= 1
\* len < 512: the last block of the file.
Ends(block) == block = FileBlocks % BlockMod

\* Fault: our port is not looked at.
NotOurs_Any(n, m) == n.TftpState # "rrq" /\ m.tid # n.tid
NotOurs(n, m) == m.port # n.port \/ (n.TftpState # "rrq" /\ m.tid # n.tid)

\* The block is new, or older than the last one.
TakesBlock(n, m) == ~NotOurs(n, m) /\ m.k = "data" /\ m.block # (IF n.TftpState = "rrq" THEN 0 ELSE n.last)
                    /\ ~(n.TftpState = "rrq" /\ m.block # 1)

\* The first block fixes the server's port; it must be block 1.
Locks(n, m) ==
    LET l == [n EXCEPT !.TftpState = "data", !.tid = m.tid, !.last = 0]
    IN IF m.block # 1 THEN NetStartAgain(l) ELSE l

TftpHandler(n, m) ==
    IF NotOurs(n, m) THEN n
    ELSE IF m.k = "error" THEN NetStartAgain(n)
    ELSE IF m.k # "data" THEN n
    ELSE LET b == [n EXCEPT !.block = m.block, !.count = IF (m.block - 1) % 10 = 0 THEN 0 ELSE @]
             l == IF n.TftpState = "rrq" THEN Locks(b, m) ELSE b
             s == TftpSend(NetSetTimeout([l EXCEPT !.last = m.block,
                                                   !.size = IF @ < m.block THEN m.block ELSE @], "tftp"))
         IN IF ~TakesBlock(n, m) THEN l
            ELSE IF Ends(m.block) THEN [s EXCEPT !.NetState = "success"] ELSE s

\* Fault: blocks are taken as counted from 0.
store_block_FromZero(m) == [mem EXCEPT ![m.block - 1] = <<m.file, m.block>>]
\* store_block: block - 1 times 512 behind the load address.
store_block(m) == [mem EXCEPT ![m.block] = <<m.file, m.block>>]

\* Frames for us: ARP both ways, UDP to the handler in place.
NetReceive(n, m, port) ==
    CASE m.k = "who_us" -> NetSendPacket(n, Frame("our_addr", 0, 0, 0, 0))
      [] m.k = "server_addr" /\ n.handler = "tftp" -> [n EXCEPT !.ether = TRUE]
      [] m.k = "server_addr" /\ n.handler = "arp" -> ArpHandler([n EXCEPT !.ether = TRUE], port)
      [] m.k \in {"data", "error", "udp"} /\ n.handler = "arp" -> ArpHandler(n, port)
      [] OTHER -> TftpHandler(n, m)

-----------------------------------------------------------------------------
(* The loop.                                                               *)

\* What a step sends reaches the wire: the MAC keeps up with the loop.
Sends(n) == net' = [n EXCEPT !.tx = {}] /\ wire' = wire \cup {m \in n.tx : m.k # "our_addr"}

\* A command calls NetLoop: the MAC and its rings start afresh.
Boot ==
    /\ ~net.running /\ net.boot < MaxBoots
    /\ Sends(Restart([net EXCEPT !.boot = @ + 1, !.running = TRUE, !.ok = FALSE]))
    /\ rx' = <<>>
    /\ UNCHANGED <<mem, server, faults>>

\* Any port used before or, ports being alike, the first of the others.
NextPorts == {p \in Ports : p \in net.used \/ \A q \in Ports : q < p => q \in net.used}

\* eth_rx hands the next frame to NetReceive.
EthRx ==
    /\ net.running /\ rx # <<>>
    /\ \E port \in NextPorts : Sends(NetReceive(net, Head(rx), port))
    /\ mem' = IF net.handler = "tftp" /\ TakesBlock(net, Head(rx)) THEN store_block(Head(rx)) ELSE mem
    /\ rx' = Tail(rx)
    /\ UNCHANGED <<server, faults>>

UseFault == faults > 0 /\ faults' = faults - 1

\* The switch at the end of a turn.
Switch(n) ==
    CASE n.NetState = "restart" -> Restart(n)
      [] n.NetState = "success" -> [n EXCEPT !.running = FALSE, !.ok = TRUE]
      [] OTHER -> n

\* The timer has run out: its handler, then the switch.  Unless answers are late, that is when
\* nothing is on its way.
Expire ==
    /\ net.running /\ rx = <<>> /\ net.timer # "none"
    /\ IF wire = {} THEN UNCHANGED faults ELSE UseFault
    /\ LET n == NetSetTimeout(net, "none")
       IN Sends(Switch(IF net.timer = "arp" THEN ArpTimeout(n) ELSE TftpTimeout(n)))
    /\ UNCHANGED <<mem, rx, server>>

EndTurn ==
    /\ net.running /\ rx = <<>> /\ net.NetState # "continue"
    /\ Sends(Switch(net))
    /\ UNCHANGED <<mem, rx, server, faults>>

\* ctrl-c.
Abort ==
    /\ net.running /\ rx = <<>> /\ UseFault
    /\ net' = [net EXCEPT !.running = FALSE]
    /\ UNCHANGED <<mem, rx, wire, server>>

-----------------------------------------------------------------------------
(* The network and the server.                                             *)

ForUs == {"server_addr", "who_us", "data", "error", "udp"}
Taken(m) == \/ wire' = wire \ {m} /\ UNCHANGED faults
            \/ wire' = wire /\ UseFault

\* A frame reaches the MAC: lost unless the receiver runs and a descriptor is EMPTY.
Deliver ==
    \E m \in {w \in wire : w.k \in ForUs} :
      /\ Taken(m)
      /\ rx' = IF net.running /\ Len(rx) < RxBds THEN Append(rx, m) ELSE rx
      /\ UNCHANGED <<net, mem, server>>

Lose ==
    /\ UseFault
    /\ \E m \in wire : wire' = wire \ {m}
    /\ UNCHANGED <<net, mem, rx, server>>

\* Others ask for our address or send us something.
Others ==
    /\ UseFault
    /\ \E k \in {"who_us", "udp"} : wire' = wire \cup {Frame(k, 0, 0, 0, 0)}
    /\ UNCHANGED <<net, mem, rx, server>>

Data(tid, s) == Frame("data", s.port, tid, s.block % BlockMod, s.file)

\* The server gives its address, opens a session at a request and moves it on at the
\* acknowledgement of its last block, or answers with an error.
Answer(m) ==
    \/ m = ArpReq /\ wire' = (wire \ {m}) \cup {Frame("server_addr", 0, 0, 0, 0)} /\ UNCHANGED <<server, faults>>
    \/ LET s == [port |-> m.port, file |-> m.file, block |-> 1] IN
       /\ m.k = "rrq"
       /\ server' = Append(server, s)
       /\ wire' = (wire \ {m}) \cup {Data(Len(server) + 1, s)}
       /\ UNCHANGED faults
    \/ LET s == [server[m.tid] EXCEPT !.block = @ + 1] IN
       /\ m.k = "ack"
       /\ IF m.block = server[m.tid].block % BlockMod /\ s.block <= FileBlocks
          THEN /\ server' = [server EXCEPT ![m.tid] = s]
               /\ wire' = (wire \ {m}) \cup {Data(m.tid, s)}
          ELSE wire' = wire \ {m} /\ UNCHANGED server
       /\ UNCHANGED faults
    \/ m # ArpReq /\ UseFault /\ wire' = (wire \ {m}) \cup {Frame("error", m.port, m.tid, 0, 0)} /\ UNCHANGED server

Serve ==
    /\ \E m \in {w \in wire : w.k \in {"who_server", "rrq", "ack"}} : Answer(m)
    /\ UNCHANGED <<net, mem, rx>>

\* The server's own timeout.
Resend ==
    /\ UseFault
    /\ \E t \in DOMAIN server : wire' = wire \cup {Data(t, server[t])}
    /\ UNCHANGED <<net, mem, rx, server>>

Loop == EthRx \/ Expire \/ EndTurn
Next == Boot \/ Loop \/ Abort \/ Deliver \/ Lose \/ Others \/ Serve \/ Resend

\* The loop turns, frames that are not lost arrive, the server answers.
Fairness == WF_vars(Loop) /\ WF_vars(Deliver) /\ WF_vars(Serve)
NetSpec == Init /\ [][Next]_vars /\ Fairness

-----------------------------------------------------------------------------
(* Properties.                                                             *)

NetRec ==
    [boot : Nat, running : BOOLEAN, ok : BOOLEAN, NetState : {"continue", "restart", "success"},
     handler : {"none", "arp", "tftp"}, timer : {"none", "arp", "tftp"}, ether : BOOLEAN,
     TftpState : {"rrq", "data"}, port : Ports \cup {0}, tid : Nat, count : Nat,
     block : 0 .. FileBlocks, last : 0 .. FileBlocks, size : 0 .. FileBlocks,
     tx : SUBSET FrameRec, used : SUBSET Ports, clash : BOOLEAN]
Session == [port : Ports, file : Nat, block : 1 .. FileBlocks]

NetTypeOK ==
    /\ net \in NetRec /\ net.tx = {}
    /\ net.tid <= Len(server) /\ net.count <= TimeoutCount
    /\ mem \in [0 .. FileBlocks -> Nat \X Nat] /\ mem[0] = Nothing
    /\ rx \in Seq(FrameRec) /\ Len(rx) <= RxBds
    /\ wire \subseteq FrameRec /\ server \in Seq(Session) /\ faults \in Nat

Whole(file, n) == \A b \in 1 .. n : mem[b] = <<file, b>>

\* A boot that reports a size has the whole file of this boot in memory, every block of it, although
\* frames of earlier sessions arrive late, twice or out of order; unless our port was used before.
LoadedIsWhole == net.ok /\ ~net.running /\ ~net.clash => Whole(net.boot, FileBlocks) /\ net.size = FileBlocks

\* A block of the session in progress is acknowledged only when it and all before it are stored: the
\* server never sends it again.
AckMeansStored ==
    \A m \in wire :
        net.running /\ net.handler = "tftp" /\ net.TftpState = "data" /\ m.k = "ack" /\ m.port = net.port /\ ~net.clash
            => Whole(net.boot, m.block)

\* While the loop waits, the timer of the protocol that waits is armed: a lost frame cannot hang it.
TimerCoversWait == net.running /\ net.NetState = "continue" => net.timer = net.handler

\* A boot ends although frames are lost, repeated and late: every wait is resumed or started again.
BootEnds == net.running ~> ~net.running

\* A boot that reports a size has its own file whole, and what the server was told is stored is.
BootTruthful == LoadedIsWhole /\ AckMeansStored

-----------------------------------------------------------------------------
(* The inductive invariant.                                                *)

\* What is on its way to us comes from the server's sessions, block by block, and what is on
\* its way to the server is about sessions it has.
FrameOK(m) ==
    /\ m.k = "data" => /\ m.tid \in DOMAIN server
                       /\ m.port = server[m.tid].port /\ m.file = server[m.tid].file
                       /\ m.block \in 1 .. server[m.tid].block
    /\ m.k = "ack" => m.tid \in DOMAIN server /\ m.port = server[m.tid].port
    /\ m.k = "rrq" => m.port \in net.used
Traffic ==
    /\ \A m \in wire : FrameOK(m)
    /\ \A i \in 1 .. Len(rx) : rx[i].k \in ForUs /\ FrameOK(rx[i])
    /\ \A t \in DOMAIN server : server[t].port \in net.used
    /\ net.TftpState = "data" => net.tid \in DOMAIN server /\ server[net.tid].port = net.port

\* The loop: who waits, how often it may, and when a boot is over.
Waits ==
    /\ net.running => net.handler # "none" /\ ~net.ok
    /\ net.timer \in {"none", net.handler}
    /\ net.handler = "tftp" => net.count < TimeoutCount /\ net.port \in net.used
    /\ net.NetState = "success" \/ net.ok => net.handler = "tftp" /\ net.size = FileBlocks
    /\ net.handler # "tftp" => net.size = 0

\* As long as our port is fresh, all there is of it belongs to this transfer: requests and
\* sessions are for the file of this boot, only the session we hold to has moved, by one block
\* beyond those we have, and every block we have is in its place.
OurTransfer ==
    /\ \A m \in wire : m.port = net.port =>
           /\ m.k = "rrq" => m.file = net.boot
           /\ m.k = "ack" => /\ net.TftpState = "data" /\ m.tid = net.tid
                             /\ m.block \in 1 .. net.size
    /\ \A t \in DOMAIN server : server[t].port = net.port =>
           /\ server[t].file = net.boot
           /\ server[t].block = 1 \/ (net.TftpState = "data" /\ t = net.tid)
           /\ server[t].block <= net.size + 1
    /\ Whole(net.boot, net.size)
    /\ net.TftpState = "rrq" => net.size = 0
    /\ net.TftpState = "data" => net.block \in 1 .. net.size /\ net.last \in 1 .. net.size

NetInv ==
    /\ NetTypeOK /\ TimerCoversWait /\ Traffic /\ Waits
    /\ net.handler = "tftp" /\ ~net.clash => OurTransfer
=============================================================================
