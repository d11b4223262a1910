--------------------------- MODULE NetworkProofs ---------------------------
(***************************************************************************)
(* The network from the driver's rings to a boot.  A boot keeps its        *)
(* promises for every file shorter than the wrap of the block numbers,     *)
(* every number of ports, boots, faults and descriptors: NetInv (NetBoot)  *)
(* holds at the start and every step preserves it, whatever the network    *)
(* loses, repeats and delays.  So do AddressInv for the address that is    *)
(* asked for (Bootp) and RingInv for the rings of either direction         *)
(* (EthRing).                                                              *)
(***************************************************************************)
EXTENDS NetBoot, Bootp, EthRing, TLAPS

LEMMA Bounds ==
    /\ FileBlocks \in Nat \ {0} /\ BlockMod \in Nat \ {0} /\ FileBlocks < BlockMod
    /\ TimeoutCount \in Nat \ {0} /\ RxBds \in Nat \ {0} /\ Ports \subseteq Nat \ {0}
    /\ MaxFaults \in Nat
BY NetAssumption

-----------------------------------------------------------------------------
(* What the operators do to the statics                                     *)

LEMMA FrameType ==
    ASSUME NEW k \in Kinds, NEW port \in Nat, NEW tid \in Nat, NEW block \in Nat,
           NEW file \in Nat
    PROVE  Frame(k, port, tid, block, file) \in FrameRec
BY DEF Frame, FrameRec

LEMMA NetFields ==
    ASSUME NEW n \in NetRec
    PROVE  /\ n.boot \in Nat /\ n.tid \in Nat /\ n.count \in Nat /\ n.port \in Nat
           /\ n.block \in Nat /\ n.last \in Nat /\ n.size \in Nat
           /\ n.block \in 0 .. FileBlocks /\ n.last \in 0 .. FileBlocks
           /\ n.size \in 0 .. FileBlocks
           /\ n.TftpState \in {"rrq", "data"} /\ n.used \subseteq Ports
           /\ n.tx \subseteq FrameRec
<1>1. /\ n.boot \in Nat /\ n.tid \in Nat /\ n.count \in Nat /\ n.port \in Ports \cup {0}
      /\ n.block \in 0 .. FileBlocks /\ n.last \in 0 .. FileBlocks
      /\ n.size \in 0 .. FileBlocks
      /\ n.TftpState \in {"rrq", "data"} /\ n.used \subseteq Ports
      /\ n.tx \subseteq FrameRec
  BY DEF NetRec
<1>2. n.port \in Nat
  <2>1. Ports \subseteq Nat /\ 0 \in Nat
    BY Bounds
  <2> QED BY <1>1, <2>1
<1>3. \A i \in 0 .. FileBlocks : i \in Nat
  BY Bounds
<1> QED BY <1>1, <1>2, <1>3

LEMMA SendNet ==
    ASSUME NEW n \in NetRec, NEW m \in FrameRec
    PROVE  /\ NetSendPacket(n, m) \in NetRec
           /\ NetSendPacket(n, m) = [n EXCEPT !.tx = n.tx \cup {m}]
BY DEF NetSendPacket, NetRec

LEMMA RestartNet ==
    ASSUME NEW n \in NetRec
    PROVE  /\ Restart(n) \in NetRec
           /\ Restart(n) = [n EXCEPT !.NetState = "continue", !.tx = n.tx \cup {ArpReq},
                                     !.timer = "arp", !.handler = "arp", !.size = 0]
<1>1. ArpReq \in FrameRec
  BY FrameType DEF ArpReq, Kinds
<1>2. 0 \in 0 .. FileBlocks
  BY Bounds
<1> QED BY <1>1, <1>2 DEF Restart, ArpRequest, NetSetHandler, NetSetTimeout, NetSendPacket, NetRec

\* A request to the well-known port, from a port of ours that may have been used before.
LEMMA StartNet ==
    ASSUME NEW n \in NetRec, NEW port \in Ports, NEW r, r = TftpStart(n, port)
    PROVE  /\ r \in NetRec /\ r.handler = "tftp" /\ r.timer = "tftp" /\ r.tid = 0
           /\ r.count = 0 /\ r.TftpState = "rrq" /\ r.port = port
           /\ r.used = n.used \cup {port} /\ r.clash = (n.clash \/ port \in n.used)
           /\ r.tx = n.tx \cup {Frame("rrq", port, 0, 0, n.boot)}
           /\ r.boot = n.boot /\ r.running = n.running /\ r.ok = n.ok
           /\ r.NetState = n.NetState /\ r.block = n.block /\ r.last = n.last
           /\ r.size = n.size
<1> DEFINE clash == n.clash \/ port \in n.used
           used == n.used \cup {port}
           req == Frame("rrq", port, 0, 0, n.boot)
           a == [n EXCEPT !.timer = "tftp", !.handler = "tftp"]
           b == [a EXCEPT !.tid = 0, !.count = 0, !.TftpState = "rrq", !.port = port,
                          !.used = used, !.clash = clash]
<1>1. a \in NetRec /\ a.used = n.used /\ a.boot = n.boot /\ a.tx = n.tx
      /\ a.handler = "tftp" /\ a.timer = "tftp" /\ a.running = n.running /\ a.ok = n.ok
      /\ a.NetState = n.NetState /\ a.block = n.block /\ a.last = n.last
      /\ a.size = n.size
  BY DEF NetRec
<1>2. a.clash = n.clash
  BY DEF NetRec
<1>3. clash \in BOOLEAN /\ used \in SUBSET Ports /\ req \in FrameRec
  <2>1. used \in SUBSET Ports
    BY NetFields
  <2>2. req \in FrameRec
    BY Bounds, FrameType DEF Kinds, NetRec
  <2>3. clash \in BOOLEAN
    OBVIOUS
  <2> QED BY <2>1, <2>2, <2>3
<1>4. r = NetSendPacket(b, req)
  <2>1. b = [a EXCEPT !.tid = 0, !.count = 0, !.TftpState = "rrq", !.port = port,
                      !.used = @ \cup {port}, !.clash = @ \/ port \in n.used]
    BY <1>1, <1>2
  <2>2. r = TftpSend(b)
    BY <2>1 DEF TftpStart, NetSetHandler, NetSetTimeout
  <2>3. b.TftpState = "rrq" /\ b.port = port /\ b.boot = n.boot
    BY <1>1, <1>3 DEF NetRec
  <2> HIDE DEF b
  <2> QED BY <2>2, <2>3 DEF TftpSend
<1> HIDE DEF a, clash, used, req
<1>5. b \in NetRec /\ b.used = used /\ b.boot = n.boot /\ b.tx = n.tx
      /\ b.handler = "tftp" /\ b.timer = "tftp" /\ b.running = n.running /\ b.ok = n.ok
      /\ b.NetState = n.NetState /\ b.block = n.block /\ b.last = n.last
      /\ b.size = n.size /\ b.tid = 0 /\ b.count = 0 /\ b.TftpState = "rrq"
      /\ b.port = port
  BY <1>1, <1>3 DEF NetRec
<1>6. b.clash = clash
  BY <1>1, <1>3 DEF NetRec
<1> HIDE DEF b
<1>7. r = [b EXCEPT !.tx = n.tx \cup {req}] /\ r \in NetRec
  BY <1>3, <1>4, <1>5, SendNet
<1>8. r.used = used /\ r.boot = n.boot /\ r.tx = n.tx \cup {req}
      /\ r.handler = "tftp" /\ r.timer = "tftp" /\ r.running = n.running /\ r.ok = n.ok
      /\ r.NetState = n.NetState /\ r.block = n.block /\ r.last = n.last
      /\ r.size = n.size /\ r.tid = 0 /\ r.count = 0 /\ r.TftpState = "rrq"
      /\ r.port = port /\ r.clash = b.clash
  BY <1>5, <1>7 DEF NetRec
<1> QED BY <1>6, <1>7, <1>8 DEF clash, used, req

\* The acknowledgement, or the request once more.
Again(n) == IF n.TftpState = "rrq" THEN Frame("rrq", n.port, 0, 0, n.boot)
            ELSE Frame("ack", n.port, n.tid, n.block, 0)

LEMMA AgainType == \A n \in NetRec : Again(n) \in FrameRec
<1> SUFFICES ASSUME NEW n \in NetRec PROVE Again(n) \in FrameRec
  OBVIOUS
<1>1. /\ n.port \in Nat /\ n.tid \in Nat /\ n.block \in Nat /\ n.boot \in Nat
  BY NetFields
<1>2. "rrq" \in Kinds /\ "ack" \in Kinds
  BY DEF Kinds
<1>3. /\ Frame("rrq", n.port, 0, 0, n.boot) \in FrameRec
      /\ Frame("ack", n.port, n.tid, n.block, 0) \in FrameRec
  BY <1>1, <1>2, FrameType
<1> QED BY <1>3 DEF Again

LEMMA TimeoutNet ==
    ASSUME NEW n \in NetRec, n.count < TimeoutCount
    PROVE  /\ TftpTimeout(n) \in NetRec
           /\ TftpTimeout(n) =
                  IF n.count + 1 >= TimeoutCount
                  THEN [n EXCEPT !.count = n.count + 1, !.NetState = "restart"]
                  ELSE [n EXCEPT !.count = n.count + 1, !.timer = "tftp",
                                 !.tx = n.tx \cup {Again(n)}]
<1> DEFINE a == [n EXCEPT !.count = n.count + 1]
           b == [a EXCEPT !.timer = "tftp"]
<1>1. a \in NetRec /\ a.count = n.count + 1
  BY DEF NetRec
<1>2. b \in NetRec /\ Again(b) = Again(n) /\ b.tx = n.tx
  <2>1. b \in NetRec /\ b.tx = n.tx
    BY <1>1 DEF NetRec
  <2>2. /\ b.TftpState = n.TftpState /\ b.port = n.port /\ b.boot = n.boot /\ b.tid = n.tid
        /\ b.block = n.block
    BY DEF NetRec
  <2> QED BY <2>1, <2>2 DEF Again
<1>3. TftpTimeout(n) = IF n.count + 1 >= TimeoutCount THEN [a EXCEPT !.NetState = "restart"]
                       ELSE NetSendPacket(b, Again(b))
  BY <1>1 DEF TftpTimeout, NetStartAgain, TftpSend, NetSetTimeout, Again
<1>4. NetSendPacket(b, Again(b)) = [b EXCEPT !.tx = n.tx \cup {Again(n)}]
      /\ NetSendPacket(b, Again(b)) \in NetRec
  BY <1>2, SendNet, AgainType
<1>5. [a EXCEPT !.NetState = "restart"] \in NetRec
  BY <1>1 DEF NetRec
<1> QED BY <1>1, <1>2, <1>3, <1>4, <1>5

-----------------------------------------------------------------------------
(* A block of the file                                                      *)

\* A block is noted whether it is taken or not, and it may fix the server's port.
LEMMA SeenNet ==
    ASSUME NEW n \in NetRec, NEW m \in FrameRec, m.k = "data", m.block \in 1 .. FileBlocks,
           ~NotOurs(n, m), ~TakesBlock(n, m)
    PROVE  /\ TftpHandler(n, m) \in NetRec
           /\ \E count \in {0, n.count}, state \in {"restart", n.NetState} :
                 TftpHandler(n, m) =
                     [n EXCEPT !.block = m.block, !.count = count, !.TftpState = "data",
                               !.tid = m.tid, !.NetState = state,
                               !.last = IF n.TftpState = "rrq" THEN 0 ELSE n.last]
<1> DEFINE count == IF (m.block - 1) % 10 = 0 THEN 0 ELSE n.count
           b == [n EXCEPT !.block = m.block, !.count = count]
<1>0. /\ m.tid \in Nat /\ 0 \in 0 .. FileBlocks /\ m.block \in 0 .. FileBlocks
      /\ n.TftpState = "data" => m.tid = n.tid
  BY Bounds DEF FrameRec, NotOurs, NetRec
<1>1. count \in {0, n.count} /\ count \in Nat
  BY NetFields
<1> HIDE DEF count
<1>2. b \in NetRec /\ b.NetState = n.NetState
  <2>1. m.block \in 0 .. FileBlocks /\ count \in Nat
    BY <1>0, <1>1
  <2> QED BY <2>1 DEF NetRec
<1>3. CASE n.TftpState = "rrq"
  <2> DEFINE l == [b EXCEPT !.TftpState = "data", !.tid = m.tid, !.last = 0]
  <2>1. TftpHandler(n, m) = IF m.block # 1 THEN [l EXCEPT !.NetState = "restart"] ELSE l
    BY <1>3 DEF TftpHandler, Locks, NetStartAgain, count
  <2>2. l \in NetRec /\ [l EXCEPT !.NetState = "restart"] \in NetRec
    BY <1>0, <1>2 DEF NetRec
  <2>3. /\ [l EXCEPT !.NetState = "restart"] =
               [n EXCEPT !.block = m.block, !.count = count, !.TftpState = "data",
                         !.tid = m.tid, !.NetState = "restart", !.last = 0]
        /\ l = [n EXCEPT !.block = m.block, !.count = count, !.TftpState = "data",
                         !.tid = m.tid, !.NetState = n.NetState, !.last = 0]
    BY ZenonT(60), <2>2 DEF NetRec
  <2> QED BY <1>1, <1>3, <2>1, <2>2, <2>3
<1>4. CASE n.TftpState # "rrq"
  <2>1. TftpHandler(n, m) = b
    BY <1>4 DEF TftpHandler, count
  <2>2. n.TftpState = "data"
    BY <1>4 DEF NetRec
  <2>3. b = [n EXCEPT !.block = m.block, !.count = count, !.TftpState = "data",
                      !.tid = m.tid, !.NetState = n.NetState, !.last = n.last]
    BY <1>0, <1>2, <2>2 DEF NetRec
  <2> QED BY <1>1, <1>2, <1>4, <2>1, <2>3
<1> QED BY <1>3, <1>4

\* What the handlers of TFTP leave alone.
Kept(r, n) == /\ r.boot = n.boot /\ r.running = n.running /\ r.ok = n.ok
              /\ r.handler = n.handler /\ r.ether = n.ether /\ r.port = n.port
              /\ r.used = n.used /\ r.clash = n.clash

\* A block that is taken is acknowledged, and the last one ends the file.
LEMMA TakenNet ==
    ASSUME NEW n \in NetRec, NEW m \in FrameRec, m.block \in 1 .. FileBlocks,
           TakesBlock(n, m), NEW r, r = TftpHandler(n, m)
    PROVE  /\ r \in NetRec /\ Kept(r, n)
           /\ r.block = m.block /\ r.count \in {0, n.count} /\ r.TftpState = "data"
           /\ r.tid = m.tid /\ r.last = m.block /\ r.timer = "tftp"
           /\ r.NetState = IF m.block = FileBlocks THEN "success" ELSE n.NetState
           /\ r.size = IF n.size < m.block THEN m.block ELSE n.size
           /\ r.tx = n.tx \cup {Frame("ack", n.port, m.tid, m.block, 0)}
<1> DEFINE count == IF (m.block - 1) % 10 = 0 THEN 0 ELSE n.count
           size == IF n.size < m.block THEN m.block ELSE n.size
           b == [n EXCEPT !.block = m.block, !.count = count]
           l == IF n.TftpState = "rrq" THEN Locks(b, m) ELSE b
           k == [l EXCEPT !.last = m.block, !.size = size, !.timer = "tftp"]
           s == NetSendPacket(k, Again(k))
<1>0. /\ m.tid \in Nat /\ 0 \in 0 .. FileBlocks /\ m.block \in 0 .. FileBlocks
      /\ n.TftpState = "data" => m.tid = n.tid
      /\ n.TftpState = "rrq" => m.block = 1
      /\ m.k = "data" /\ ~NotOurs(n, m) /\ n.size \in 0 .. FileBlocks
      /\ n.TftpState \in {"rrq", "data"}
  BY Bounds DEF FrameRec, TakesBlock, NotOurs, NetRec
<1>1. count \in {0, n.count} /\ count \in Nat /\ size \in 0 .. FileBlocks
  BY <1>0, NetFields
<1>2. Ends(m.block) <=> m.block = FileBlocks
  BY <1>0, Bounds DEF Ends
<1>3. r = IF m.block = FileBlocks THEN [s EXCEPT !.NetState = "success"] ELSE s
  <2>1. l.size = n.size
    BY <1>0 DEF NetRec, Locks, NetStartAgain
  <2>2. k = NetSetTimeout([l EXCEPT !.last = m.block,
                                    !.size = IF @ < m.block THEN m.block ELSE @], "tftp")
    <3> HIDE DEF l
    <3> QED BY <2>1 DEF NetSetTimeout
  <2>3. s = TftpSend(k)
    BY DEF TftpSend, Again
  <2> HIDE DEF k, s
  <2>4. r = LET t == TftpSend(NetSetTimeout([l EXCEPT !.last = m.block,
                                    !.size = IF @ < m.block THEN m.block ELSE @], "tftp"))
            IN  IF Ends(m.block) THEN [t EXCEPT !.NetState = "success"] ELSE t
    BY <1>0 DEF TftpHandler
  <2> QED BY <1>2, <2>2, <2>3, <2>4
<1> HIDE DEF count, size
<1>4. b \in NetRec /\ Kept(b, n) /\ b.block = m.block /\ b.count = count /\ b.tx = n.tx
      /\ b.NetState = n.NetState /\ b.TftpState = n.TftpState /\ b.tid = n.tid
      /\ b.size = n.size
  BY <1>0, <1>1 DEF NetRec, Kept
<1>5. l \in NetRec /\ Kept(l, n) /\ l.block = m.block /\ l.count = count /\ l.tx = n.tx
      /\ l.NetState = n.NetState /\ l.TftpState = "data" /\ l.tid = m.tid /\ l.size = n.size
  <2> HIDE DEF b
  <2>1. CASE n.TftpState = "rrq"
    <3>1. l = [b EXCEPT !.TftpState = "data", !.tid = m.tid, !.last = 0]
      BY <1>0, <2>1 DEF Locks
    <3> HIDE DEF l
    <3> QED BY <1>0, <1>4, <3>1 DEF NetRec, Kept
  <2>2. CASE n.TftpState # "rrq"
    BY <1>0, <1>4, <2>2
  <2> QED BY <2>1, <2>2
<1> HIDE DEF l
<1>6. k \in NetRec /\ Kept(k, n) /\ k.block = m.block /\ k.count = count /\ k.tx = n.tx
      /\ k.NetState = n.NetState /\ k.TftpState = "data" /\ k.tid = m.tid /\ k.size = size
      /\ k.last = m.block /\ k.timer = "tftp"
  BY <1>0, <1>1, <1>5 DEF NetRec, Kept
<1> HIDE DEF k
<1>7. Again(k) = Frame("ack", n.port, m.tid, m.block, 0) /\ Again(k) \in FrameRec
  BY <1>6, AgainType DEF Again, Kept
<1>8. s = [k EXCEPT !.tx = k.tx \cup {Again(k)}] /\ s \in NetRec
  BY <1>6, <1>7, SendNet
<1>9. s \in NetRec /\ Kept(s, n) /\ s.block = m.block /\ s.count = count
      /\ s.tx = n.tx \cup {Again(k)} /\ s.NetState = n.NetState /\ s.TftpState = "data"
      /\ s.tid = m.tid /\ s.size = size /\ s.last = m.block /\ s.timer = "tftp"
  <2>1. s.tx = k.tx \cup {Again(k)}
    BY <1>6, <1>8 DEF NetRec
  <2> QED BY <1>6, <1>8, <2>1 DEF NetRec, Kept
<1> HIDE DEF s
<1>10. /\ r \in NetRec /\ Kept(r, n) /\ r.block = m.block /\ r.count = count
       /\ r.tx = n.tx \cup {Again(k)} /\ r.TftpState = "data"
       /\ r.NetState = IF m.block = FileBlocks THEN "success" ELSE n.NetState
       /\ r.tid = m.tid /\ r.size = size /\ r.last = m.block /\ r.timer = "tftp"
  <2>1. CASE m.block = FileBlocks
    BY <1>3, <1>9, <2>1 DEF NetRec, Kept
  <2>2. CASE m.block # FileBlocks
    BY <1>3, <1>9, <2>2
  <2> QED BY <2>1, <2>2
<1> QED BY <1>1, <1>7, <1>10 DEF size

-----------------------------------------------------------------------------
(* What a step leaves of the state                                          *)

LEMMA Shape ==
    ASSUME NetTypeOK
    PROVE  /\ net \in NetRec /\ server \in Seq(Session) /\ wire \subseteq FrameRec
           /\ DOMAIN server = 1 .. Len(server) /\ Len(server) \in Nat
           /\ \A t \in DOMAIN server :
                 /\ server[t] \in Session /\ server[t].port \in Ports
                 /\ server[t].port \in Nat \ {0} /\ server[t].file \in Nat
                 /\ server[t].block \in 1 .. FileBlocks /\ server[t].block \in Nat
           /\ \A i \in 1 .. Len(rx) : rx[i] \in FrameRec
           /\ rx \in Seq(FrameRec) /\ Len(rx) \in Nat
           /\ \A m \in FrameRec : /\ m.k \in Kinds /\ m.port \in Nat /\ m.tid \in Nat
                                  /\ m.block \in Nat /\ m.file \in Nat
<1>1. /\ net \in NetRec /\ server \in Seq(Session) /\ wire \subseteq FrameRec
      /\ rx \in Seq(FrameRec)
  BY DEF NetTypeOK
<1>2. \A t \in DOMAIN server :
         /\ server[t] \in Session /\ server[t].port \in Ports
         /\ server[t].port \in Nat \ {0} /\ server[t].file \in Nat
         /\ server[t].block \in 1 .. FileBlocks /\ server[t].block \in Nat
  <2> TAKE t \in DOMAIN server
  <2>1. server[t] \in Session
    BY <1>1
  <2>2. server[t].port \in Ports /\ server[t].file \in Nat /\ server[t].block \in 1 .. FileBlocks
    BY <2>1 DEF Session
  <2>3. Ports \subseteq Nat \ {0} /\ \A b \in 1 .. FileBlocks : b \in Nat
    BY Bounds
  <2> HIDE DEF Session
  <2> QED BY <2>1, <2>2, <2>3
<1>3. \A m \in FrameRec : /\ m.k \in Kinds /\ m.port \in Nat /\ m.tid \in Nat
                          /\ m.block \in Nat /\ m.file \in Nat
  BY DEF FrameRec
<1> QED BY <1>1, <1>2, <1>3

\* A frame stays in order while the sessions only grow.
LEMMA FrameStays ==
    ASSUME server \in Seq(Session), DOMAIN server \subseteq DOMAIN server',
           \A t \in DOMAIN server : /\ server'[t].port = server[t].port
                                    /\ server'[t].file = server[t].file
                                    /\ server[t].block \in Nat /\ server'[t].block \in Nat
                                    /\ server[t].block <= server'[t].block,
           net.used \subseteq net'.used, NEW m, FrameOK(m)
    PROVE  FrameOK(m)'
BY DEF FrameOK

\* The fields of the statics once a step has sent what it had to send.
LEMMA SentNet ==
    ASSUME NEW n \in NetRec, Sends(n)
    PROVE  /\ net' \in NetRec /\ net'.tx = {} /\ Kept(net', n)
           /\ net'.NetState = n.NetState /\ net'.timer = n.timer
           /\ net'.TftpState = n.TftpState /\ net'.tid = n.tid /\ net'.count = n.count
           /\ net'.block = n.block /\ net'.last = n.last /\ net'.size = n.size
           /\ wire' = wire \cup {m \in n.tx : m.k # "our_addr"}
<1>1. net' = [n EXCEPT !.tx = {}] /\ wire' = wire \cup {m \in n.tx : m.k # "our_addr"}
  BY DEF Sends
<1>2. {} \in SUBSET FrameRec
  OBVIOUS
<1> QED BY <1>1, <1>2 DEF NetRec, Kept

\* Types and traffic after a step of the loop.
LEMMA LoopStep ==
    ASSUME NetInv, NEW n \in NetRec, Sends(n), net.used \subseteq n.used, server' = server,
           mem' \in [0 .. FileBlocks -> Nat \X Nat], mem'[0] = Nothing, faults' \in Nat,
           rx' \in Seq(FrameRec), Len(rx') <= RxBds,
           \A i \in 1 .. Len(rx') : \E j \in 1 .. Len(rx) : rx'[i] = rx[j],
           n.tid <= Len(server), n.count <= TimeoutCount,
           n.TftpState = "data" => n.tid \in DOMAIN server /\ server[n.tid].port = n.port,
           \A m \in n.tx : /\ m.k # "data"
                           /\ m.k = "ack" => m.tid \in DOMAIN server
                                             /\ m.port = server[m.tid].port
                           /\ m.k = "rrq" => m.port \in n.used
    PROVE  NetTypeOK' /\ Traffic'
<1>0. NetTypeOK /\ Traffic
  BY DEF NetInv
<1>1. /\ net' \in NetRec /\ net'.tx = {} /\ net'.used = n.used /\ net'.tid = n.tid
      /\ net'.count = n.count /\ net'.TftpState = n.TftpState /\ net'.port = n.port
      /\ wire' = wire \cup {m \in n.tx : m.k # "our_addr"}
  BY SentNet DEF Kept
<1>2. wire' \subseteq FrameRec
  BY <1>0, <1>1, NetFields DEF NetTypeOK
<1>3. NetTypeOK'
  BY <1>0, <1>1, <1>2 DEF NetTypeOK
<1>4. \A m : FrameOK(m) => FrameOK(m)'
  <2> TAKE m
  <2> HAVE FrameOK(m)
  <2>1. server \in Seq(Session) /\ \A t \in DOMAIN server : server[t].block \in Nat
    BY <1>0, Shape
  <2> QED BY <2>1, <1>1, FrameStays
<1>5. \A m \in wire' : FrameOK(m)'
  <2> TAKE m \in wire'
  <2>1. CASE m \in wire
    BY <1>0, <1>4, <2>1 DEF Traffic
  <2>2. CASE m \in n.tx
    BY <1>1, <2>2 DEF FrameOK
  <2> QED BY <1>1, <2>1, <2>2
<1>6. \A i \in 1 .. Len(rx') : (rx[i].k \in ForUs /\ FrameOK(rx[i]))'
  <2> TAKE i \in 1 .. Len(rx')
  <2>1. PICK j \in 1 .. Len(rx) : rx'[i] = rx[j]
    OBVIOUS
  <2>2. rx[j].k \in ForUs /\ FrameOK(rx[j])
    BY <1>0 DEF Traffic
  <2>3. FrameOK(rx[j]) => \A m : m = rx[j] => FrameOK(m)'
    BY <1>4
  <2>4. \A m : m = rx[j] => FrameOK(m)'
    BY <2>2, <2>3
  <2> QED BY <2>1, <2>2, <2>4 DEF FrameOK
<1>7. \A t \in DOMAIN server' : server'[t].port \in net'.used
  BY <1>0, <1>1 DEF Traffic
<1>8. net'.TftpState = "data" => net'.tid \in DOMAIN server' /\ server'[net'.tid].port = net'.port
  BY <1>1
<1> HIDE DEF FrameOK
<1> QED BY <1>3, <1>5, <1>6, <1>7, <1>8 DEF Traffic

\* Everything but NetState and the flags running and ether stays.
SameNet(r, n) ==
    /\ r.boot = n.boot /\ r.ok = n.ok /\ r.handler = n.handler /\ r.port = n.port
    /\ r.used = n.used /\ r.clash = n.clash
    /\ r.timer = n.timer /\ r.TftpState = n.TftpState /\ r.tid = n.tid /\ r.count = n.count
    /\ r.block = n.block /\ r.last = n.last /\ r.size = n.size

\* The network at work, and frames that change nothing.
LEMMA Quiet ==
    ASSUME NetInv, net' \in NetRec, net'.tx = {}, SameNet(net', net),
           net'.running => net.running, net'.NetState \in {net.NetState, "restart"}, mem' = mem, server' = server, faults' \in Nat,
           wire' \subseteq FrameRec,
           \A m \in wire' : m \in wire \/ m.k \notin {"data", "ack", "rrq"}
                            \/ (m.k = "data" /\ FrameOK(m)),
           rx' \in Seq(FrameRec), Len(rx') <= RxBds,
           \A i \in 1 .. Len(rx') : (\E j \in 1 .. Len(rx) : rx'[i] = rx[j])
                                    \/ (rx'[i] \in wire /\ rx'[i].k \in ForUs)
    PROVE  NetInv'
<1>0. NetTypeOK /\ Traffic /\ TimerCoversWait /\ Waits
  BY DEF NetInv
<1>1. NetTypeOK'
  BY <1>0 DEF NetTypeOK, SameNet
<1>2. \A m : FrameOK(m) => FrameOK(m)'
  BY DEF FrameOK, SameNet
<1>3. Traffic'
  <2>1. \A m \in wire' : FrameOK(m)'
    <3> TAKE m \in wire'
    <3>1. CASE m \in wire
      BY <1>0, <1>2, <3>1 DEF Traffic
    <3>2. CASE m.k \notin {"data", "ack", "rrq"}
      BY <3>2 DEF FrameOK
    <3>3. CASE m.k = "data" /\ FrameOK(m)
      BY <1>2, <3>3
    <3> QED BY <3>1, <3>2, <3>3
  <2>2. \A i \in 1 .. Len(rx') : (rx[i].k \in ForUs /\ FrameOK(rx[i]))'
    <3> TAKE i \in 1 .. Len(rx')
    <3>1. PICK m : m = rx'[i]
      OBVIOUS
    <3>2. m.k \in ForUs /\ FrameOK(m)
      BY <1>0, <3>1 DEF Traffic
    <3>3. FrameOK(m)'
      BY <3>2, <1>2
    <3> QED BY <3>1, <3>2, <3>3 DEF FrameOK
  <2>3. \A t \in DOMAIN server' : server'[t].port \in net'.used
    BY <1>0 DEF Traffic, SameNet
  <2>4. net'.TftpState = "data" =>
            net'.tid \in DOMAIN server' /\ server'[net'.tid].port = net'.port
    BY <1>0 DEF Traffic, SameNet
  <2> QED BY <2>1, <2>2, <2>3, <2>4 DEF Traffic
<1>4. TimerCoversWait' /\ Waits'
  BY <1>0 DEF TimerCoversWait, Waits, SameNet
<1>5. net'.handler = "tftp" /\ ~net'.clash => OurTransfer'
  <2> SUFFICES ASSUME net'.handler = "tftp", ~net'.clash PROVE OurTransfer'
    OBVIOUS
  <2>1. OurTransfer
    BY DEF NetInv, SameNet
  <2>2. \A m \in wire' : m \in wire \/ (m.k # "rrq" /\ m.k # "ack")
    OBVIOUS
  <2>3. \A m \in wire' : m.port = net'.port =>
           /\ m.k = "rrq" => m.file = net'.boot
           /\ m.k = "ack" => /\ net'.TftpState = "data" /\ m.tid = net'.tid
                             /\ m.block \in 1 .. net'.size
    BY <2>1, <2>2 DEF OurTransfer, SameNet
  <2>4. Whole(net.boot, net.size)' 
    BY <2>1 DEF OurTransfer, Whole, SameNet
  <2> QED BY <2>1, <2>3, <2>4 DEF OurTransfer, SameNet
<1> QED BY <1>1, <1>3, <1>4, <1>5 DEF NetInv

\* What the transfer sends again is about a session the server has, from our port.
LEMMA AgainTraffic ==
    ASSUME NetInv, net.handler = "tftp", NEW m, m = Again(net)
    PROVE  /\ m.k # "data"
           /\ m.k = "ack" => m.tid \in DOMAIN server /\ m.port = server[m.tid].port
           /\ m.k = "rrq" => m.port \in net.used
<1>1. /\ net.port \in net.used
      /\ net.TftpState = "data" => /\ net.tid \in DOMAIN server
                                   /\ server[net.tid].port = net.port
  BY DEF NetInv, Waits, Traffic
<1>2. net.TftpState \in {"rrq", "data"}
  BY DEF NetInv, NetTypeOK, NetRec
<1> QED BY <1>1, <1>2 DEF Again, Frame

\* Back to ARP: a boot begins, or begins again.
LEMMA ToArp ==
    ASSUME NetInv, NEW n \in NetRec, Sends(n), n.handler = "arp", n.timer = "arp",
           n.size = 0, n.NetState # "success", ~n.ok,
           \A m \in n.tx : m = ArpReq \/ (net.handler = "tftp" /\ m = Again(net)),
           n.used = net.used, n.TftpState = net.TftpState, n.tid = net.tid,
           n.port = net.port, n.count <= TimeoutCount,
           mem' = mem, server' = server, faults' \in Nat, rx' = rx \/ rx' = <<>>
    PROVE  NetInv'
<1>0. NetTypeOK /\ Traffic
  BY DEF NetInv
<1>1. NetTypeOK' /\ Traffic'
  <2>1. \A m \in n.tx : /\ m.k # "data"
                        /\ m.k = "ack" => m.tid \in DOMAIN server
                                          /\ m.port = server[m.tid].port
                        /\ m.k = "rrq" => m.port \in n.used
    <3> TAKE m \in n.tx
    <3>1. CASE m = ArpReq
      BY <3>1 DEF ArpReq, Frame
    <3>2. CASE net.handler = "tftp" /\ m = Again(net)
      BY <3>2, AgainTraffic
    <3> QED BY <3>1, <3>2
  <2>2. /\ rx' \in Seq(FrameRec) /\ Len(rx') <= RxBds
        /\ \A i \in 1 .. Len(rx') : \E j \in 1 .. Len(rx) : rx'[i] = rx[j]
    <3>1. CASE rx' = rx
      BY <1>0, <3>1 DEF NetTypeOK
    <3>2. CASE rx' = <<>>
      BY <3>2, Bounds
    <3> QED BY <3>1, <3>2
  <2>3. /\ mem' \in [0 .. FileBlocks -> Nat \X Nat] /\ mem'[0] = Nothing
        /\ n.tid <= Len(server)
    BY <1>0 DEF NetTypeOK
  <2>4. n.TftpState = "data" => n.tid \in DOMAIN server /\ server[n.tid].port = n.port
    BY <1>0 DEF Traffic
  <2> QED BY <2>1, <2>2, <2>3, <2>4, LoopStep
<1>2. /\ net'.handler = "arp" /\ net'.timer = "arp" /\ net'.size = 0 /\ ~net'.ok
      /\ net'.NetState # "success"
  BY SentNet DEF Kept
<1>3. TimerCoversWait' /\ Waits'
  BY <1>2 DEF TimerCoversWait, Waits
<1> QED BY <1>1, <1>2, <1>3 DEF NetInv

\* A frame of the transfer goes out once more, or the loop is left.
LEMMA Waiting ==
    ASSUME NetInv, NEW n \in NetRec, Sends(n), net.handler = "tftp", n.handler = "tftp",
           n.running => ~n.ok /\ n.timer = "tftp", n.ok => net.NetState = "success" \/ net.ok,
           n.NetState = net.NetState, n.timer \in {"none", "tftp"}, n.count < TimeoutCount,
           n.boot = net.boot, n.port = net.port, n.used = net.used, n.clash = net.clash,
           n.TftpState = net.TftpState, n.tid = net.tid, n.block = net.block,
           n.last = net.last, n.size = net.size, \A m \in n.tx : m = Again(net),
           mem' = mem, server' = server, faults' \in Nat, rx' = rx
    PROVE  NetInv'
<1>0. NetTypeOK /\ Traffic /\ Waits
  BY DEF NetInv
<1>1. /\ net' \in NetRec /\ net'.tx = {} /\ Kept(net', n)
      /\ net'.NetState = n.NetState /\ net'.timer = n.timer
      /\ net'.TftpState = n.TftpState /\ net'.tid = n.tid /\ net'.count = n.count
      /\ net'.block = n.block /\ net'.last = n.last /\ net'.size = n.size
      /\ wire' = wire \cup {m \in n.tx : m.k # "our_addr"}
  BY SentNet
<1>2. /\ net.TftpState = "rrq" => Again(net) = Frame("rrq", net.port, 0, 0, net.boot)
      /\ net.TftpState = "data" => Again(net) = Frame("ack", net.port, net.tid, net.block, 0)
      /\ net.TftpState \in {"rrq", "data"}
  BY <1>0 DEF Again, NetTypeOK, NetRec
<1>3. NetTypeOK' /\ Traffic'
  <2>1. \A m \in n.tx : /\ m.k # "data"
                        /\ m.k = "ack" => m.tid \in DOMAIN server
                                          /\ m.port = server[m.tid].port
                        /\ m.k = "rrq" => m.port \in n.used
    BY <1>0, <1>2 DEF Waits, Traffic, Frame
  <2>2. /\ rx' \in Seq(FrameRec) /\ Len(rx') <= RxBds
        /\ \A i \in 1 .. Len(rx') : \E j \in 1 .. Len(rx) : rx'[i] = rx[j]
    BY <1>0 DEF NetTypeOK
  <2>3. /\ mem' \in [0 .. FileBlocks -> Nat \X Nat] /\ mem'[0] = Nothing
        /\ n.tid <= Len(server)
    BY <1>0 DEF NetTypeOK
  <2>5. n.count <= TimeoutCount
    BY Bounds, NetFields
  <2>4. n.TftpState = "data" => n.tid \in DOMAIN server /\ server[n.tid].port = n.port
    BY <1>0 DEF Traffic
  <2> QED BY <2>1, <2>2, <2>3, <2>4, <2>5, LoopStep
<1>4. TimerCoversWait' /\ Waits'
  BY <1>0, <1>1 DEF TimerCoversWait, Waits, Kept
<1>5. net'.handler = "tftp" /\ ~net'.clash => OurTransfer'
  <2> SUFFICES ASSUME ~net'.clash PROVE OurTransfer'
    OBVIOUS
  <2>1. OurTransfer
    BY <1>1 DEF NetInv, Kept
  <2>2. \A m \in wire' : m.port = net.port =>
           /\ m.k = "rrq" => m.file = net.boot
           /\ m.k = "ack" => /\ net.TftpState = "data" /\ m.tid = net.tid
                             /\ m.block \in 1 .. net.size
    <3> TAKE m \in wire'
    <3>1. CASE m \in wire
      BY <2>1, <3>1 DEF OurTransfer
    <3>2. CASE m = Again(net)
      BY <1>2, <2>1, <3>2 DEF OurTransfer, Frame
    <3> QED BY <1>1, <3>1, <3>2
  <2>3. Whole(net.boot, net.size)'
    BY <1>1, <2>1 DEF OurTransfer, Whole, Kept
  <2>4. \A m \in wire' : m.port = net'.port =>
           /\ m.k = "rrq" => m.file = net'.boot
           /\ m.k = "ack" => /\ net'.TftpState = "data" /\ m.tid = net'.tid
                             /\ m.block \in 1 .. net'.size
    BY <1>1, <2>2 DEF Kept
  <2> QED BY <1>1, <2>1, <2>3, <2>4 DEF OurTransfer, Kept
<1> QED BY <1>3, <1>4, <1>5 DEF NetInv

\* The request of a transfer.
LEMMA Started ==
    ASSUME NetInv, net.handler = "arp", NEW x \in NetRec, SameNet(x, net), x.tx = {},
           x.running = net.running, x.NetState = net.NetState, NEW port \in Ports,
           Sends(TftpStart(x, port)), mem' = mem, server' = server, faults' \in Nat,
           rx' \in Seq(FrameRec), Len(rx') <= RxBds,
           \A i \in 1 .. Len(rx') : \E j \in 1 .. Len(rx) : rx'[i] = rx[j]
    PROVE  NetInv'
<1> DEFINE n == TftpStart(x, port)
           req == Frame("rrq", port, 0, 0, net.boot)
<1>0. NetTypeOK /\ Traffic /\ Waits /\ TimerCoversWait /\ net.used \subseteq Ports
  <2>1. net \in NetRec
    BY DEF NetInv, NetTypeOK
  <2> QED BY <2>1, NetFields DEF NetInv
<1>1. /\ n \in NetRec /\ n.handler = "tftp" /\ n.timer = "tftp" /\ n.tid = 0 /\ n.count = 0
      /\ n.TftpState = "rrq" /\ n.port = port /\ n.used = net.used \cup {port}
      /\ n.clash = (net.clash \/ port \in net.used) /\ n.tx = {req}
      /\ n.boot = net.boot /\ n.running = net.running /\ n.ok = net.ok
      /\ n.NetState = net.NetState /\ n.block = net.block /\ n.last = net.last
      /\ n.size = net.size
  <2>1. /\ n \in NetRec /\ n.handler = "tftp" /\ n.timer = "tftp" /\ n.tid = 0
        /\ n.count = 0 /\ n.TftpState = "rrq" /\ n.port = port
        /\ n.used = x.used \cup {port} /\ n.clash = (x.clash \/ port \in x.used)
        /\ n.tx = x.tx \cup {Frame("rrq", port, 0, 0, x.boot)}
        /\ n.boot = x.boot /\ n.running = x.running /\ n.ok = x.ok
        /\ n.NetState = x.NetState /\ n.block = x.block /\ n.last = x.last
        /\ n.size = x.size
    BY StartNet
  <2> HIDE DEF n
  <2>2. /\ x.used = net.used /\ x.clash = net.clash /\ x.boot = net.boot
        /\ x.ok = net.ok /\ x.block = net.block /\ x.last = net.last /\ x.size = net.size
    BY DEF SameNet
  <2> QED BY <2>1, <2>2
<1> HIDE DEF n
<1>2. /\ net' \in NetRec /\ net'.tx = {} /\ Kept(net', n)
      /\ net'.NetState = n.NetState /\ net'.timer = n.timer
      /\ net'.TftpState = n.TftpState /\ net'.tid = n.tid /\ net'.count = n.count
      /\ net'.block = n.block /\ net'.last = n.last /\ net'.size = n.size
      /\ wire' = wire \cup {m \in n.tx : m.k # "our_addr"}
  BY <1>1, SentNet DEF n
<1>3. req.k = "rrq" /\ req.port = port /\ req.file = net.boot
  BY DEF Frame
<1> HIDE DEF req
<1>4. NetTypeOK' /\ Traffic'
  <2>1. /\ mem' \in [0 .. FileBlocks -> Nat \X Nat] /\ mem'[0] = Nothing
        /\ n.tid <= Len(server) /\ n.count <= TimeoutCount
    BY SMTT(30), <1>0, <1>1, Bounds DEF NetTypeOK
  <2>2. \A m \in n.tx : /\ m.k # "data"
                        /\ m.k = "ack" => m.tid \in DOMAIN server
                                          /\ m.port = server[m.tid].port
                        /\ m.k = "rrq" => m.port \in n.used
    BY <1>1, <1>3
  <2>3. Sends(n) /\ net.used \subseteq n.used /\ n.TftpState # "data"
    BY <1>1 DEF n
  <2> QED BY <1>1, <2>1, <2>2, <2>3, LoopStep
<1>5. TimerCoversWait' /\ Waits'
  <2>1. net.size = 0 /\ net.NetState # "success" /\ ~net.ok
    BY <1>0 DEF Waits
  <2>2. 0 < TimeoutCount
    BY Bounds
  <2> QED BY <1>1, <1>2, <2>1, <2>2 DEF TimerCoversWait, Waits, Kept
<1>6. net'.handler = "tftp" /\ ~net'.clash => OurTransfer'
  <2> SUFFICES ASSUME ~net'.clash PROVE OurTransfer'
    OBVIOUS
  <2>1. port \notin net.used
    BY <1>1, <1>2 DEF Kept
  <2>2. /\ net'.port = port /\ net'.boot = net.boot /\ net'.TftpState = "rrq"
        /\ net'.size = 0 /\ wire' \subseteq wire \cup {req}
    BY <1>0, <1>1, <1>2 DEF Kept, Waits
  <2>3. \A m \in wire' : m.port = port =>
           /\ m.k = "rrq" => m.file = net.boot
           /\ m.k # "ack"
    <3> TAKE m \in wire'
    <3>1. CASE m \in wire
      <4>1. FrameOK(m)
        BY <1>0, <3>1 DEF Traffic
      <4> QED BY <1>0, <4>1, <2>1 DEF FrameOK, Traffic
    <3>2. CASE m = req
      BY <1>3, <3>2
    <3> QED BY <2>2, <3>1, <3>2
  <2>4. \A t \in DOMAIN server' : server'[t].port # port
    BY <1>0, <2>1 DEF Traffic
  <2>5. Whole(net.boot, net.size)'
    BY <2>2 DEF Whole
  <2> QED BY <2>2, <2>3, <2>4, <2>5 DEF OurTransfer
<1> QED BY <1>4, <1>5, <1>6 DEF NetInv

-----------------------------------------------------------------------------
(* A block arrives                                                          *)

\* It is of a file of the server.
LEMMA BlockArrives ==
    ASSUME NetInv, NEW m \in FrameRec, m.k = "data", FrameOK(m), ~NotOurs(net, m)
    PROVE  /\ m.tid \in DOMAIN server /\ m.tid <= Len(server) /\ m.block \in 1 .. FileBlocks
           /\ server[m.tid].port = net.port /\ m.port = net.port
           /\ net.TftpState # "rrq" => m.tid = net.tid
<1>1. NetTypeOK
  BY DEF NetInv
<1>2. /\ m.tid \in DOMAIN server /\ server[m.tid].port = net.port /\ m.port = net.port
      /\ m.block \in 1 .. server[m.tid].block
      /\ net.TftpState # "rrq" => m.tid = net.tid
  BY DEF FrameOK, NotOurs
<1>3. server[m.tid].block \in 1 .. FileBlocks /\ DOMAIN server = 1 .. Len(server)
      /\ Len(server) \in Nat /\ m.tid \in Nat
  BY <1>1, <1>2, Shape
<1>4. m.tid <= Len(server)
  BY <1>2, <1>3
<1>5. m.block \in 1 .. FileBlocks
  BY <1>2, <1>3, Bounds
<1> QED BY <1>2, <1>4, <1>5

\* While our port is fresh it is of our file, and at most one beyond those we have.
LEMMA BlockIsOurs ==
    ASSUME NetInv, net.handler = "tftp", ~net.clash, NEW m \in FrameRec, m.k = "data",
           FrameOK(m), ~NotOurs(net, m)
    PROVE  /\ m.file = net.boot /\ m.block \in 1 .. net.size + 1
           /\ net.TftpState = "rrq" => m.block = 1
<1>1. OurTransfer /\ NetTypeOK
  BY DEF NetInv
<1>2. /\ m.tid \in DOMAIN server /\ server[m.tid].port = net.port
      /\ m.file = server[m.tid].file /\ m.block \in 1 .. server[m.tid].block
  BY BlockArrives DEF FrameOK
<1>3. /\ server[m.tid].file = net.boot /\ server[m.tid].block <= net.size + 1
      /\ net.TftpState = "rrq" => server[m.tid].block = 1
  BY <1>1, <1>2 DEF OurTransfer
<1>4. server[m.tid].block \in Nat /\ net.size \in Nat
  <2>1. net \in NetRec
    BY <1>1, Shape
  <2> QED BY <1>1, <1>2, <2>1, Shape, NetFields
<1> QED BY <1>2, <1>3, <1>4

\* A block that is only noted.
LEMMA Seen ==
    ASSUME NetInv, net.handler = "tftp", net.running, NEW m \in FrameRec, m.k = "data",
           FrameOK(m), ~NotOurs(net, m), ~TakesBlock(net, m), Sends(TftpHandler(net, m)),
           mem' = mem, server' = server, faults' \in Nat,
           rx' \in Seq(FrameRec), Len(rx') <= RxBds,
           \A i \in 1 .. Len(rx') : \E j \in 1 .. Len(rx) : rx'[i] = rx[j]
    PROVE  NetInv'
<1> DEFINE n == TftpHandler(net, m)
<1>0. NetTypeOK /\ Traffic /\ Waits /\ TimerCoversWait /\ net \in NetRec
  BY DEF NetInv, NetTypeOK
<1>1. /\ m.tid \in DOMAIN server /\ m.tid <= Len(server) /\ m.block \in 1 .. FileBlocks
      /\ server[m.tid].port = net.port
      /\ net.TftpState # "rrq" => m.tid = net.tid
  BY BlockArrives
<1>2. n \in NetRec
  BY <1>0, <1>1, SeenNet
<1>3. PICK count \in {0, net.count}, state \in {"restart", net.NetState} :
         n = [net EXCEPT !.block = m.block, !.count = count, !.TftpState = "data",
                         !.tid = m.tid, !.NetState = state,
                         !.last = IF net.TftpState = "rrq" THEN 0 ELSE net.last]
  BY <1>0, <1>1, SeenNet
<1> HIDE DEF n
<1>4. /\ n.block = m.block /\ n.count = count /\ n.TftpState = "data" /\ n.tid = m.tid
      /\ n.NetState = state /\ n.last = IF net.TftpState = "rrq" THEN 0 ELSE net.last
      /\ n.timer = net.timer /\ n.size = net.size /\ n.tx = net.tx
  BY <1>0, <1>3 DEF NetRec
<1>5. Kept(n, net)
  BY <1>0, <1>3 DEF NetRec, Kept
<1>6. /\ net' \in NetRec /\ net'.tx = {} /\ Kept(net', n)
      /\ net'.NetState = n.NetState /\ net'.timer = n.timer
      /\ net'.TftpState = n.TftpState /\ net'.tid = n.tid /\ net'.count = n.count
      /\ net'.block = n.block /\ net'.last = n.last /\ net'.size = n.size
      /\ wire' = wire \cup {f \in n.tx : f.k # "our_addr"}
  BY <1>2, SentNet DEF n
<1>7. n.tx = {} /\ wire' = wire
  BY <1>0, <1>4, <1>6 DEF NetTypeOK
<1>8. n.count <= TimeoutCount
  <2>1. net.count <= TimeoutCount
    BY <1>0 DEF NetTypeOK
  <2>2. CASE count = 0
    BY <1>4, <2>2, Bounds
  <2>3. CASE count = net.count
    BY <1>4, <2>1, <2>3
  <2> QED BY <2>2, <2>3
<1>9. NetTypeOK' /\ Traffic'
  <2>1. /\ mem' \in [0 .. FileBlocks -> Nat \X Nat] /\ mem'[0] = Nothing
        /\ Sends(n) /\ net.used \subseteq n.used
    BY <1>0, <1>5 DEF NetTypeOK, Kept, n
  <2>2. n.tid <= Len(server) /\ n.tid \in DOMAIN server /\ server[n.tid].port = n.port
    BY <1>1, <1>4, <1>5 DEF Kept
  <2> QED BY <1>2, <1>7, <1>8, <2>1, <2>2, LoopStep
<1>10. TimerCoversWait' /\ Waits'
  <2>1. n.count < TimeoutCount
    <3>1. net.count < TimeoutCount
      BY <1>0 DEF Waits
    <3>2. CASE count = 0
      BY <1>4, <3>2, Bounds
    <3>3. CASE count = net.count
      BY <1>4, <3>1, <3>3
    <3> QED BY <3>2, <3>3
  <2>2. net'.NetState \in {"restart", net.NetState}
    BY <1>4, <1>6
  <2> QED BY <1>0, <1>4, <1>5, <1>6, <2>1, <2>2 DEF TimerCoversWait, Waits, Kept
<1>11. net'.handler = "tftp" /\ ~net'.clash => OurTransfer'
  <2> SUFFICES ASSUME ~net'.clash PROVE OurTransfer'
    OBVIOUS
  <2>1. OurTransfer /\ ~net.clash
    BY <1>5, <1>6 DEF NetInv, Kept
  <2>2. net.TftpState = "data" /\ m.block = net.last
    <3>1. net.TftpState = "rrq" => m.block = 1
      BY <2>1, BlockIsOurs
    <3>2. net.TftpState \in {"rrq", "data"}
      BY <1>0, NetFields
    <3> QED BY <3>1, <3>2 DEF TakesBlock
  <2>3. /\ net'.port = net.port /\ net'.boot = net.boot /\ net'.TftpState = net.TftpState
        /\ net'.tid = net.tid /\ net'.size = net.size /\ net'.last = net.last
        /\ net'.block = net.last
    BY <1>1, <1>4, <1>5, <1>6, <2>2 DEF Kept
  <2>4. Whole(net.boot, net.size)'
    BY <2>1, <2>3 DEF OurTransfer, Whole
  <2> QED BY <1>7, <2>1, <2>2, <2>3, <2>4 DEF OurTransfer
<1> QED BY <1>9, <1>10, <1>11 DEF NetInv

\* A block that is stored and acknowledged.
LEMMA Stored ==
    ASSUME NetInv, net.handler = "tftp", net.running, NEW m \in FrameRec, m.k = "data",
           FrameOK(m), TakesBlock(net, m), Sends(TftpHandler(net, m)),
           mem' = store_block(m), server' = server, faults' \in Nat,
           rx' \in Seq(FrameRec), Len(rx') <= RxBds,
           \A i \in 1 .. Len(rx') : \E j \in 1 .. Len(rx) : rx'[i] = rx[j]
    PROVE  NetInv'
<1> DEFINE n == TftpHandler(net, m)
           ack == Frame("ack", net.port, m.tid, m.block, 0)
<1>0. NetTypeOK /\ Traffic /\ Waits /\ TimerCoversWait /\ net \in NetRec
      /\ ~NotOurs(net, m)
  BY DEF NetInv, NetTypeOK, TakesBlock
<1>1. /\ m.tid \in DOMAIN server /\ m.tid <= Len(server) /\ m.block \in 1 .. FileBlocks
      /\ server[m.tid].port = net.port
      /\ net.TftpState # "rrq" => m.tid = net.tid
  BY <1>0, BlockArrives
<1>2. /\ n \in NetRec /\ Kept(n, net)
      /\ n.block = m.block /\ n.count \in {0, net.count} /\ n.TftpState = "data"
      /\ n.tid = m.tid /\ n.last = m.block /\ n.timer = "tftp"
      /\ n.NetState = IF m.block = FileBlocks THEN "success" ELSE net.NetState
      /\ n.size = IF net.size < m.block THEN m.block ELSE net.size
      /\ n.tx = net.tx \cup {ack}
  BY <1>0, <1>1, TakenNet
<1>3. n.tx = {ack}
  BY <1>0, <1>2 DEF NetTypeOK
<1> HIDE DEF n
<1>6. /\ net' \in NetRec /\ net'.tx = {} /\ Kept(net', n)
      /\ net'.NetState = n.NetState /\ net'.timer = n.timer
      /\ net'.TftpState = n.TftpState /\ net'.tid = n.tid /\ net'.count = n.count
      /\ net'.block = n.block /\ net'.last = n.last /\ net'.size = n.size
      /\ wire' = wire \cup {f \in n.tx : f.k # "our_addr"}
  BY <1>2, SentNet DEF n
<1>7. n.count < TimeoutCount /\ n.count <= TimeoutCount
  <2>1. net.count < TimeoutCount
    BY <1>0 DEF Waits
  <2>2. n.count < TimeoutCount
    BY <1>2, <2>1, Bounds
  <2> QED BY <1>2, <2>2, Bounds, NetFields
<1>8. /\ ack.k = "ack" /\ ack.port = net.port /\ ack.tid = m.tid /\ ack.block = m.block
  BY DEF Frame
<1> HIDE DEF ack
<1>9. NetTypeOK' /\ Traffic'
  <2>1. mem' = [mem EXCEPT ![m.block] = <<m.file, m.block>>]
    BY DEF store_block
  <2>2. m.file \in Nat /\ m.block \in Nat /\ m.block # 0 /\ m.block \in 0 .. FileBlocks
    BY <1>0, <1>1, Shape, Bounds
  <2>3. mem \in [0 .. FileBlocks -> Nat \X Nat] /\ mem[0] = Nothing
    BY <1>0 DEF NetTypeOK
  <2>4. mem' \in [0 .. FileBlocks -> Nat \X Nat] /\ mem'[0] = Nothing
    BY <2>1, <2>2, <2>3, Bounds
  <2>5. /\ n.tid <= Len(server) /\ n.tid \in DOMAIN server /\ server[n.tid].port = n.port
        /\ Sends(n) /\ net.used \subseteq n.used
    BY <1>1, <1>2 DEF Kept, n
  <2>6. \A f \in n.tx : /\ f.k # "data"
                        /\ f.k = "ack" => f.tid \in DOMAIN server
                                          /\ f.port = server[f.tid].port
                        /\ f.k = "rrq" => f.port \in n.used
    BY <1>1, <1>3, <1>8
  <2> QED BY <1>2, <1>7, <2>4, <2>5, <2>6, LoopStep
<1>10. /\ net.size \in 0 .. FileBlocks /\ m.block \in Nat /\ net.size \in Nat
       /\ FileBlocks \in Nat
  BY <1>0, <1>1, NetFields, Bounds
<1>11. TimerCoversWait' /\ Waits'
  <2>1. net'.NetState = "success" \/ net'.ok => net'.size = FileBlocks
    <3>1. net'.ok = net.ok /\ net'.running = net.running
      BY <1>2, <1>6 DEF Kept
    <3>2. ~net'.ok
      BY <1>0, <3>1 DEF Waits
    <3>3. CASE m.block = FileBlocks
      <4>1. net'.size = IF net.size < m.block THEN m.block ELSE net.size
        BY <1>2, <1>6
      <4> QED BY <1>10, <3>3, <4>1
    <3>4. CASE m.block # FileBlocks
      <4>1. net.NetState = "success" => net.size = FileBlocks
        BY <1>0 DEF Waits
      <4> QED BY <1>1, <1>2, <1>6, <1>10, <3>2, <3>4, <4>1
    <3> QED BY <3>3, <3>4
  <2>2. net'.running => ~net'.ok
    BY <1>0, <1>2, <1>6 DEF Waits, Kept
  <2>3. /\ net'.handler = "tftp" /\ net'.timer = "tftp" /\ net'.count < TimeoutCount
        /\ net'.port \in net'.used
    BY <1>0, <1>2, <1>6, <1>7 DEF Waits, Kept
  <2> QED BY <2>1, <2>2, <2>3 DEF TimerCoversWait, Waits
<1>12. net'.handler = "tftp" /\ ~net'.clash => OurTransfer'
  <2> SUFFICES ASSUME ~net'.clash PROVE OurTransfer'
    OBVIOUS
  <2>1. OurTransfer /\ ~net.clash
    BY <1>2, <1>6 DEF NetInv, Kept
  <2>2. /\ m.file = net.boot /\ m.block \in 1 .. net.size + 1
    BY <1>0, <2>1, BlockIsOurs
  <2>3. /\ net'.port = net.port /\ net'.boot = net.boot /\ net'.TftpState = "data"
        /\ net'.tid = m.tid /\ net'.last = m.block /\ net'.block = m.block
        /\ wire' \subseteq wire \cup {ack}
    BY <1>2, <1>3, <1>6 DEF Kept
  <2>4. /\ net'.size = IF net.size < m.block THEN m.block ELSE net.size
        /\ net'.size \in Nat /\ m.block \in 1 .. net'.size /\ net.size <= net'.size
        /\ net.size + 1 <= net'.size + 1
    <3>1. net'.size = IF net.size < m.block THEN m.block ELSE net.size
      BY <1>2, <1>6
    <3> QED BY <1>1, <1>10, <3>1
  <2>5. net.TftpState \in {"rrq", "data"}
    BY <1>0, NetFields
  <2>6. \A f \in wire' : f.port = net.port =>
           /\ f.k = "rrq" => f.file = net.boot
           /\ f.k = "ack" => f.tid = m.tid /\ f.block \in 1 .. net'.size
    <3> TAKE f \in wire'
    <3>1. CASE f \in wire
      <4>1. f.port = net.port => /\ f.k = "rrq" => f.file = net.boot
                                 /\ f.k = "ack" => /\ net.TftpState = "data" /\ f.tid = net.tid
                                                   /\ f.block \in 1 .. net.size
        BY <2>1, <3>1 DEF OurTransfer
      <4> QED BY <1>1, <1>10, <2>4, <4>1
    <3>2. CASE f = ack
      BY <1>8, <2>4, <3>2
    <3> QED BY <2>3, <3>1, <3>2
  <2>7. \A t \in DOMAIN server : server[t].port = net.port =>
           /\ server[t].file = net.boot
           /\ server[t].block = 1 \/ t = m.tid
           /\ server[t].block <= net'.size + 1
    <3> TAKE t \in DOMAIN server
    <3>1. server[t].port = net.port =>
             /\ server[t].file = net.boot
             /\ server[t].block = 1 \/ (net.TftpState = "data" /\ t = net.tid)
             /\ server[t].block <= net.size + 1
      BY <2>1 DEF OurTransfer
    <3>2. server[t].block \in Nat
      BY <1>0, Shape
    <3> QED BY <1>1, <1>10, <2>4, <3>1, <3>2
  <2>8. Whole(net.boot, net.size)'
    <3>1. Whole(net.boot, net.size)
      BY <2>1 DEF OurTransfer
    <3>2. mem' = [mem EXCEPT ![m.block] = <<m.file, m.block>>]
      BY DEF store_block
    <3>3. DOMAIN mem = 0 .. FileBlocks
      BY <1>0 DEF NetTypeOK
    <3>4. \A b \in 1 .. net'.size : mem'[b] = <<net.boot, b>>
      <4> TAKE b \in 1 .. net'.size
      <4>1. CASE b = m.block
        BY <1>1, <2>2, <3>2, <3>3, <4>1, Bounds
      <4>2. CASE b # m.block
        <5>1. b \in 1 .. net.size
          BY <1>10, <2>2, <2>4, <4>2
        <5> QED BY <3>1, <3>2, <4>2, <5>1 DEF Whole
      <4> QED BY <4>1, <4>2
    <3> QED BY <2>3, <3>4 DEF Whole
  <2> QED BY <2>3, <2>4, <2>6, <2>7, <2>8 DEF OurTransfer
<1> QED BY <1>9, <1>11, <1>12 DEF NetInv

-----------------------------------------------------------------------------
(* The loop                                                                 *)

LEMMA BootStep == ASSUME NetInv, Boot PROVE NetInv'
<1> DEFINE a == [net EXCEPT !.boot = net.boot + 1, !.running = TRUE, !.ok = FALSE]
           n == Restart(a)
<1>0. NetTypeOK /\ net \in NetRec /\ net.tx = {}
  BY DEF NetInv, NetTypeOK
<1>1. Sends(n) /\ rx' = <<>> /\ UNCHANGED <<mem, server, faults>>
  BY DEF Boot
<1>2. a \in NetRec /\ a.tx = {} /\ ~a.ok /\ a.used = net.used
      /\ a.TftpState = net.TftpState /\ a.tid = net.tid /\ a.port = net.port
      /\ a.count = net.count
  <2>1. net.boot + 1 \in Nat
    BY <1>0, NetFields
  <2> QED BY <1>0, <2>1 DEF NetRec
<1> HIDE DEF a
<1>3. /\ n \in NetRec
      /\ n = [a EXCEPT !.NetState = "continue", !.tx = a.tx \cup {ArpReq},
                       !.timer = "arp", !.handler = "arp", !.size = 0]
  BY <1>2, RestartNet
<1> HIDE DEF n
<1>4. /\ n.handler = "arp" /\ n.timer = "arp" /\ n.size = 0 /\ n.NetState # "success"
      /\ ~n.ok /\ n.tx = {ArpReq} /\ n.used = net.used /\ n.TftpState = net.TftpState
      /\ n.tid = net.tid /\ n.port = net.port /\ n.count = net.count
  BY <1>2, <1>3 DEF NetRec
<1>5. n.count <= TimeoutCount /\ faults' \in Nat
  BY <1>0, <1>1, <1>4 DEF NetTypeOK
<1> QED BY <1>1, <1>3, <1>4, <1>5, ToArp

LEMMA RestartStep ==
    ASSUME NetInv, NEW n \in NetRec, ~n.ok,
           \A m \in n.tx : m = ArpReq \/ (net.handler = "tftp" /\ m = Again(net)),
           n.used = net.used, n.TftpState = net.TftpState, n.tid = net.tid,
           n.port = net.port, n.count <= TimeoutCount, Sends(Restart(n)),
           mem' = mem, server' = server, faults' \in Nat, rx' = rx
    PROVE  NetInv'
<1> DEFINE r == Restart(n)
<1>1. /\ r \in NetRec
      /\ r = [n EXCEPT !.NetState = "continue", !.tx = n.tx \cup {ArpReq},
                       !.timer = "arp", !.handler = "arp", !.size = 0]
      /\ Sends(r)
  BY RestartNet
<1> HIDE DEF r
<1>2. /\ r.handler = "arp" /\ r.timer = "arp" /\ r.size = 0 /\ r.NetState # "success"
      /\ ~r.ok /\ r.tx = n.tx \cup {ArpReq} /\ r.used = net.used
      /\ r.TftpState = net.TftpState /\ r.tid = net.tid /\ r.port = net.port
      /\ r.count = n.count
  BY <1>1 DEF NetRec
<1> QED BY <1>1, <1>2, ToArp

LEMMA EndTurnStep == ASSUME NetInv, EndTurn PROVE NetInv'
<1>0. NetTypeOK /\ Waits /\ net \in NetRec /\ net.tx = {} /\ net.count <= TimeoutCount
  BY DEF NetInv, NetTypeOK
<1>1. /\ net.running /\ net.NetState # "continue" /\ Sends(Switch(net)) /\ rx' = rx
      /\ mem' = mem /\ server' = server /\ faults' = faults /\ faults' \in Nat
  BY <1>0 DEF EndTurn, NetTypeOK
<1>2. CASE net.NetState = "restart"
  BY <1>0, <1>1, <1>2, RestartStep DEF Switch, Waits
<1>3. CASE net.NetState = "success"
  <2> DEFINE n == [net EXCEPT !.running = FALSE, !.ok = TRUE]
  <2>1. Switch(net) = n
    BY <1>3 DEF Switch
  <2>2. n \in NetRec /\ ~n.running /\ n.handler = net.handler /\ n.tx = {}
        /\ n.NetState = net.NetState /\ n.timer = net.timer /\ n.count = net.count
        /\ n.boot = net.boot /\ n.port = net.port /\ n.used = net.used
        /\ n.TftpState = net.TftpState /\ n.tid = net.tid
        /\ n.block = net.block /\ n.last = net.last /\ n.size = net.size
    BY <1>0 DEF NetRec
  <2>3. n.clash = net.clash
    BY <1>0 DEF NetRec
  <2> HIDE DEF n
  <2>4. net.handler = "tftp" /\ net.count < TimeoutCount /\ net.timer \in {"none", "tftp"}
    BY <1>0, <1>3 DEF Waits
  <2> QED BY <1>1, <1>3, <2>1, <2>2, <2>3, <2>4, Waiting
<1> QED BY <1>0, <1>1, <1>2, <1>3 DEF NetRec

LEMMA ExpireStep == ASSUME NetInv, Expire PROVE NetInv'
<1> DEFINE n == [net EXCEPT !.timer = "none"]
           a == IF net.timer = "arp" THEN ArpTimeout(n) ELSE TftpTimeout(n)
<1>0. NetTypeOK /\ Waits /\ net \in NetRec /\ net.tx = {} /\ net.count <= TimeoutCount
  BY DEF NetInv, NetTypeOK
<1>1. /\ net.running /\ net.timer # "none" /\ Sends(Switch(a)) /\ rx' = rx
      /\ mem' = mem /\ server' = server
  BY DEF Expire, NetSetTimeout
<1>2. faults' \in Nat
  BY <1>0, <1>1 DEF Expire, UseFault, NetTypeOK
<1>3. n \in NetRec /\ n.timer = "none" /\ n.handler = net.handler /\ n.tx = {}
      /\ n.NetState = net.NetState /\ n.count = net.count /\ n.running /\ ~n.ok
      /\ n.boot = net.boot /\ n.port = net.port /\ n.used = net.used
      /\ n.TftpState = net.TftpState /\ n.tid = net.tid
      /\ n.block = net.block /\ n.last = net.last /\ n.size = net.size
  BY <1>0, <1>1 DEF NetRec, Waits
<1>4. n.clash = net.clash
  BY <1>0 DEF NetRec
<1>5. net.timer \in {"arp", "tftp"} /\ net.timer = net.handler
  BY <1>0, <1>1 DEF Waits, NetRec
<1> HIDE DEF n
<1>6. CASE net.timer = "arp"
  <2>1. a = [n EXCEPT !.timer = "arp", !.handler = "arp", !.tx = n.tx \cup {ArpReq}]
    <3>1. a = [[[[n EXCEPT !.timer = "arp"] EXCEPT !.tx = @ \cup {ArpReq}]
                   EXCEPT !.timer = "arp"] EXCEPT !.handler = "arp"]
      BY <1>6 DEF ArpTimeout, ArpRequest, NetSetHandler, NetSetTimeout, NetSendPacket
    <3> QED BY <1>3, <3>1 DEF NetRec
  <2>2. ArpReq \in FrameRec
    BY FrameType DEF ArpReq, Kinds
  <2> HIDE DEF a
  <2>3. a \in NetRec /\ a.tx = {ArpReq} /\ a.timer = "arp" /\ a.handler = "arp"
        /\ a.NetState = net.NetState /\ a.count = net.count /\ ~a.ok
        /\ a.used = net.used /\ a.TftpState = net.TftpState
        /\ a.tid = net.tid /\ a.size = net.size /\ a.port = net.port
    BY <1>3, <2>1, <2>2 DEF NetRec
  <2>4. net.size = 0 /\ net.NetState # "success"
    BY <1>0, <1>5, <1>6 DEF Waits
  <2>5. CASE net.NetState = "restart"
    <3>1. Sends(Restart(a))
      BY <1>1, <2>3, <2>5 DEF Switch
    <3> QED BY <1>0, <1>1, <1>2, <2>3, <3>1, RestartStep
  <2>6. CASE net.NetState # "restart"
    <3>1. Sends(a)
      BY <1>1, <2>3, <2>4, <2>6 DEF Switch
    <3> QED BY <1>0, <1>1, <1>2, <2>3, <2>4, <3>1, ToArp
  <2> QED BY <2>5, <2>6
<1>7. CASE net.timer = "tftp"
  <2>0. net.handler = "tftp" /\ net.count < TimeoutCount
    BY <1>0, <1>5, <1>7 DEF Waits
  <2>1. /\ a \in NetRec
        /\ a = IF n.count + 1 >= TimeoutCount
               THEN [n EXCEPT !.count = n.count + 1, !.NetState = "restart"]
               ELSE [n EXCEPT !.count = n.count + 1, !.timer = "tftp",
                              !.tx = n.tx \cup {Again(n)}]
    BY <1>3, <1>7, <2>0, TimeoutNet
  <2>2. Again(n) = Again(net)
    BY <1>3 DEF Again
  <2>3. net.count \in Nat /\ TimeoutCount \in Nat
    BY <1>0, NetFields, Bounds
  <2> HIDE DEF a
  <2>4. CASE n.count + 1 >= TimeoutCount
    <3>1. a.NetState = "restart" /\ a.tx = {} /\ ~a.ok /\ a.used = net.used
          /\ a.TftpState = net.TftpState /\ a.tid = net.tid /\ a.port = net.port
          /\ a.count = net.count + 1
      BY <1>3, <2>1, <2>4 DEF NetRec
    <3>2. a.count <= TimeoutCount
      BY <2>0, <2>3, <3>1
    <3>3. Sends(Restart(a))
      BY <1>1, <3>1 DEF Switch
    <3> QED BY <1>1, <1>2, <2>1, <3>1, <3>2, <3>3, RestartStep
  <2>5. CASE ~(n.count + 1 >= TimeoutCount)
    <3>1. a = [n EXCEPT !.count = n.count + 1, !.timer = "tftp",
                        !.tx = n.tx \cup {Again(n)}]
      BY <2>1, <2>5
    <3>2. a.NetState = net.NetState /\ a.tx = {Again(net)} /\ ~a.ok /\ a.running
          /\ a.TftpState = net.TftpState /\ a.tid = net.tid /\ a.port = net.port
          /\ a.count = net.count + 1 /\ a.timer = "tftp" /\ a.handler = net.handler
          /\ a.boot = net.boot /\ a.used = net.used /\ a.block = net.block
          /\ a.last = net.last /\ a.size = net.size
      BY <1>3, <2>2, <3>1 DEF NetRec
    <3>3. a.clash = net.clash
      BY <1>3, <1>4, <3>1 DEF NetRec
    <3>4. a.count < TimeoutCount
      BY <1>3, <2>3, <2>5, <3>2
    <3>5. CASE net.NetState = "restart"
      <4>1. \A m \in a.tx : m = Again(net)
        BY <3>2
      <4>2. Sends(Restart(a))
        BY <1>1, <3>2, <3>5 DEF Switch
      <4>3. a.count <= TimeoutCount
        BY <2>3, <3>2, <3>4
      <4> QED BY <1>1, <1>2, <2>0, <2>1, <3>2, <4>1, <4>2, <4>3, RestartStep
    <3>6. CASE net.NetState = "success"
      <4> DEFINE e == [a EXCEPT !.running = FALSE, !.ok = TRUE]
      <4>5. a \in NetRec
        BY <2>1
      <4>1. Sends(e)
        BY <1>1, <3>2, <3>6 DEF Switch
      <4>4. ~e.running /\ e.ok
        BY <4>5 DEF NetRec
      <4>2. e \in NetRec /\ e.handler = a.handler /\ e.tx = a.tx
            /\ e.NetState = a.NetState /\ e.timer = a.timer /\ e.count = a.count
            /\ e.boot = a.boot /\ e.port = a.port /\ e.used = a.used
            /\ e.TftpState = a.TftpState /\ e.tid = a.tid
            /\ e.block = a.block /\ e.last = a.last /\ e.size = a.size
        BY <4>5 DEF NetRec
      <4>3. e.clash = a.clash
        BY <4>5 DEF NetRec
      <4> HIDE DEF e
      <4> QED BY <1>1, <1>2, <2>0, <3>2, <3>3, <3>4, <3>6, <4>1, <4>2, <4>3, <4>4, Waiting
    <3>7. CASE net.NetState = "continue"
      <4>1. Sends(a)
        BY <1>1, <3>2, <3>7 DEF Switch
      <4> QED BY <1>1, <1>2, <2>0, <2>1, <3>2, <3>3, <3>4, <3>7, <4>1, Waiting
    <3> QED BY <1>0, <3>5, <3>6, <3>7 DEF NetRec
  <2> QED BY <2>4, <2>5
<1> QED BY <1>5, <1>6, <1>7

LEMMA AbortStep == ASSUME NetInv, Abort PROVE NetInv'
<1>0. NetTypeOK /\ net \in NetRec /\ net.tx = {}
  BY DEF NetInv, NetTypeOK
<1>1. /\ net' = [net EXCEPT !.running = FALSE] /\ mem' = mem /\ rx' = rx /\ wire' = wire
      /\ server' = server
  BY DEF Abort
<1>2. net' \in NetRec /\ net'.tx = {} /\ SameNet(net', net) /\ ~net'.running
      /\ net'.NetState = net.NetState
  BY <1>0, <1>1 DEF NetRec, SameNet
<1>3. faults' \in Nat
  BY <1>0 DEF Abort, UseFault, NetTypeOK
<1>4. rx' \in Seq(FrameRec) /\ Len(rx') <= RxBds /\ wire' \subseteq FrameRec
  BY <1>0, <1>1 DEF NetTypeOK
<1> QED BY <1>1, <1>2, <1>3, <1>4, Quiet

\* The first frame of the ring goes to its handler.
LEMMA EthRxStep == ASSUME NetInv, EthRx PROVE NetInv'
<1> DEFINE m == Head(rx)
<1>0. NetTypeOK /\ Traffic /\ Waits /\ net \in NetRec /\ net.tx = {}
      /\ rx \in Seq(FrameRec) /\ rx # <<>> /\ net.running
  BY DEF NetInv, NetTypeOK, EthRx
<1>1. PICK port \in NextPorts : Sends(NetReceive(net, m, port))
  BY DEF EthRx
<1>2. port \in Ports
  BY DEF NextPorts
<1>3. /\ mem' = IF net.handler = "tftp" /\ TakesBlock(net, m) THEN store_block(m) ELSE mem
      /\ rx' = Tail(rx) /\ server' = server /\ faults' = faults
  BY DEF EthRx
<1>4. /\ rx' \in Seq(FrameRec) /\ Len(rx') = Len(rx) - 1 /\ Len(rx) \in Nat \ {0}
      /\ \A i \in 1 .. Len(rx') : rx'[i] = rx[i + 1] /\ i + 1 \in 1 .. Len(rx)
  BY <1>0, <1>3
<1>5. /\ Len(rx') <= RxBds
      /\ \A i \in 1 .. Len(rx') : \E j \in 1 .. Len(rx) : rx'[i] = rx[j]
      /\ faults' \in Nat
  <2>1. Len(rx) <= RxBds /\ faults \in Nat
    BY <1>0 DEF NetTypeOK
  <2> QED BY <1>3, <1>4, <2>1, Bounds
<1>6. m \in FrameRec /\ m.k \in ForUs /\ FrameOK(m)
  <2>1. m = rx[1] /\ 1 \in 1 .. Len(rx)
    BY <1>0, <1>4
  <2> HIDE DEF m
  <2> QED BY <1>0, <2>1, Shape DEF Traffic
<1> HIDE DEF m
<1>7. ASSUME NEW n \in NetRec, Sends(n), SameNet(n, net), n.running = net.running,
             n.NetState \in {net.NetState, "restart"},
             \A f \in n.tx : f.k = "our_addr", mem' = mem
      PROVE  NetInv'
  <2>1. /\ net' \in NetRec /\ net'.tx = {} /\ Kept(net', n)
        /\ net'.NetState = n.NetState /\ net'.timer = n.timer
        /\ net'.TftpState = n.TftpState /\ net'.tid = n.tid /\ net'.count = n.count
        /\ net'.block = n.block /\ net'.last = n.last /\ net'.size = n.size
        /\ wire' = wire \cup {f \in n.tx : f.k # "our_addr"}
    BY <1>7, SentNet
  <2>2. SameNet(net', net) /\ (net'.running => net.running)
    BY <1>7, <2>1 DEF SameNet, Kept
  <2>3. wire' = wire
    BY <1>7, <2>1
  <2>4. wire' \subseteq FrameRec
    BY <1>0, <2>3 DEF NetTypeOK
  <2> QED BY <1>3, <1>4, <1>5, <1>7, <2>1, <2>2, <2>3, <2>4, Quiet
<1>8. m.k \in ForUs /\ net.handler \in {"arp", "tftp"}
  BY <1>0, <1>6 DEF Waits, NetRec
<1>9. CASE m.k = "who_us"
  <2> DEFINE our == Frame("our_addr", 0, 0, 0, 0)
             n == NetSendPacket(net, our)
  <2>1. our \in FrameRec /\ our.k = "our_addr"
    BY FrameType DEF Kinds, Frame
  <2> HIDE DEF our
  <2>2. n \in NetRec /\ n = [net EXCEPT !.tx = net.tx \cup {our}]
    BY <1>0, <2>1, SendNet
  <2>3. NetReceive(net, m, port) = n
    BY <1>9 DEF NetReceive, our
  <2> HIDE DEF n
  <2>4. SameNet(n, net) /\ n.running = net.running /\ n.NetState = net.NetState
        /\ n.tx = {our}
    BY <1>0, <2>2 DEF NetRec, SameNet
  <2>5. mem' = mem
    BY <1>3, <1>9 DEF TakesBlock
  <2> QED BY <1>1, <1>7, <2>1, <2>2, <2>3, <2>4, <2>5
<1>10. CASE m.k # "who_us" /\ net.handler = "arp"
  <2>1. mem' = mem
    BY <1>3, <1>10
  <2>2. PICK x \in NetRec : /\ SameNet(x, net) /\ x.tx = {} /\ x.running = net.running
                            /\ x.NetState = net.NetState
                            /\ NetReceive(net, m, port) = ArpHandler(x, port)
    <3>1. CASE m.k = "server_addr"
      <4>1. NetReceive(net, m, port) = ArpHandler([net EXCEPT !.ether = TRUE], port)
        BY <1>10, <3>1 DEF NetReceive
      <4>2. PICK x : x = [net EXCEPT !.ether = TRUE]
        OBVIOUS
      <4>3. x \in NetRec /\ SameNet(x, net) /\ x.tx = {} /\ x.running = net.running
            /\ x.NetState = net.NetState
        BY <1>0, <4>2 DEF NetRec, SameNet
      <4> QED BY <4>1, <4>2, <4>3
    <3>2. CASE m.k \in {"data", "error", "udp"}
      <4>1. NetReceive(net, m, port) = ArpHandler(net, port)
        BY <1>10, <3>2 DEF NetReceive
      <4> QED BY <1>0, <4>1 DEF SameNet
    <3> QED BY <1>8, <1>10, <3>1, <3>2 DEF ForUs
  <2>3. CASE x.ether
    <3>1. Sends(TftpStart(x, port))
      BY <1>1, <2>2, <2>3 DEF ArpHandler
    <3> QED BY <1>2, <1>3, <1>4, <1>5, <1>10, <2>1, <2>2, <3>1, Started
  <2>4. CASE ~x.ether
    <3>1. Sends(x)
      BY <1>1, <2>2, <2>4 DEF ArpHandler
    <3> QED BY <1>7, <2>1, <2>2, <3>1
  <2> QED BY <2>3, <2>4
<1>11. CASE m.k = "server_addr" /\ net.handler = "tftp"
  <2>1. PICK n : n = [net EXCEPT !.ether = TRUE]
    OBVIOUS
  <2>2. NetReceive(net, m, port) = n
    BY <1>11, <2>1 DEF NetReceive
  <2>3. n \in NetRec /\ SameNet(n, net) /\ n.tx = {} /\ n.running = net.running
        /\ n.NetState = net.NetState
    BY <1>0, <2>1 DEF NetRec, SameNet
  <2>4. mem' = mem
    BY <1>3, <1>11 DEF TakesBlock
  <2> QED BY <1>1, <1>7, <2>2, <2>3, <2>4
<1>12. CASE m.k \in {"data", "error", "udp"} /\ net.handler = "tftp"
  <2>1. Sends(TftpHandler(net, m))
    BY <1>1, <1>12 DEF NetReceive
  <2>2. CASE NotOurs(net, m) \/ m.k = "udp"
    <3>1. TftpHandler(net, m) = net
      BY <2>2 DEF TftpHandler
    <3>2. mem' = mem
      BY <1>3, <2>2 DEF TakesBlock
    <3> QED BY <1>0, <1>7, <2>1, <3>1, <3>2 DEF SameNet
  <2>3. CASE ~NotOurs(net, m) /\ m.k = "error"
    <3>1. PICK n : n = [net EXCEPT !.NetState = "restart"]
      OBVIOUS
    <3>2. TftpHandler(net, m) = n
      BY <2>3, <3>1 DEF TftpHandler, NetStartAgain
    <3>3. n \in NetRec /\ SameNet(n, net) /\ n.tx = {} /\ n.running = net.running
          /\ n.NetState = "restart"
      BY <1>0, <3>1 DEF NetRec, SameNet
    <3>4. mem' = mem
      BY <1>3, <2>3 DEF TakesBlock
    <3> QED BY <1>7, <2>1, <3>2, <3>3, <3>4
  <2>4. CASE ~NotOurs(net, m) /\ m.k = "data"
    <3>1. CASE TakesBlock(net, m)
      <4>1. mem' = store_block(m)
        BY <1>3, <1>12, <3>1
      <4> QED BY <1>0, <1>3, <1>4, <1>5, <1>6, <1>12, <2>1, <2>4, <3>1, <4>1, Stored
    <3>2. CASE ~TakesBlock(net, m)
      <4>1. mem' = mem
        BY <1>3, <3>2
      <4> QED BY <1>0, <1>3, <1>4, <1>5, <1>6, <1>12, <2>1, <2>4, <3>2, <4>1, Seen
    <3> QED BY <3>1, <3>2
  <2> QED BY <1>12, <2>2, <2>3, <2>4
<1> QED BY <1>8, <1>9, <1>10, <1>11, <1>12 DEF ForUs

-----------------------------------------------------------------------------
(* The network and the server                                               *)

\* Frames are lost, delivered, repeated and sent by others.
LEMMA WireStep ==
    ASSUME NetInv, net' = net, mem' = mem, server' = server, faults' \in Nat,
           wire' \subseteq FrameRec,
           \A m \in wire' : m \in wire \/ m.k \notin {"data", "ack", "rrq"}
                            \/ (m.k = "data" /\ FrameOK(m)),
           rx' = rx \/ \E m \in wire : m.k \in ForUs /\ Len(rx) < RxBds /\ rx' = Append(rx, m)
    PROVE  NetInv'
<1>0. NetTypeOK /\ net \in NetRec /\ net.tx = {} /\ wire \subseteq FrameRec
  BY DEF NetInv, NetTypeOK
<1>1. SameNet(net', net) /\ net' \in NetRec /\ net'.tx = {} /\ net'.NetState = net.NetState
      /\ (net'.running => net.running)
  BY <1>0 DEF SameNet
<1>2. /\ rx' \in Seq(FrameRec) /\ Len(rx') <= RxBds
      /\ \A i \in 1 .. Len(rx') : (\E j \in 1 .. Len(rx) : rx'[i] = rx[j])
                                  \/ (rx'[i] \in wire /\ rx'[i].k \in ForUs)
  <2>1. rx \in Seq(FrameRec) /\ Len(rx) <= RxBds /\ Len(rx) \in Nat /\ RxBds \in Nat
    BY <1>0, Shape, Bounds DEF NetTypeOK
  <2>2. CASE rx' = rx
    BY <2>1, <2>2
  <2>3. ASSUME NEW m \in wire, m.k \in ForUs, Len(rx) < RxBds, rx' = Append(rx, m)
        PROVE  /\ rx' \in Seq(FrameRec) /\ Len(rx') <= RxBds
               /\ \A i \in 1 .. Len(rx') : (\E j \in 1 .. Len(rx) : rx'[i] = rx[j])
                                           \/ (rx'[i] \in wire /\ rx'[i].k \in ForUs)
    <3>1. m \in FrameRec
      BY <1>0
    <3>2. rx' \in Seq(FrameRec) /\ Len(rx') = Len(rx) + 1
      BY <2>1, <2>3, <3>1
    <3>3. \A i \in 1 .. Len(rx') : rx'[i] = IF i = Len(rx) + 1 THEN m ELSE rx[i]
      BY <2>1, <2>3, <3>1, <3>2
    <3> QED BY <2>1, <2>3, <3>2, <3>3
  <2> QED BY <2>2, <2>3
<1> QED BY <1>1, <1>2, Quiet

\* No block of a file shorter than 2^16 blocks wraps.
LEMMA NoWrap == \A b \in 1 .. FileBlocks : b % BlockMod = b /\ b \in Nat
BY Bounds

LEMMA DataOK ==
    ASSUME NetInv, NEW t \in DOMAIN server
    PROVE  Data(t, server[t]) \in FrameRec /\ FrameOK(Data(t, server[t]))
           /\ Data(t, server[t]).k = "data"
<1>1. NetTypeOK
  BY DEF NetInv
<1>2. /\ server[t].port \in Nat /\ server[t].file \in Nat /\ server[t].block \in 1 .. FileBlocks
      /\ t \in Nat
  BY <1>1, Shape
<1>3. server[t].block % BlockMod = server[t].block /\ server[t].block \in Nat
      /\ server[t].block \in 1 .. server[t].block
  <2>1. server[t].block % BlockMod = server[t].block /\ server[t].block \in Nat
    BY <1>2, NoWrap
  <2> QED BY <1>2, <2>1, Bounds
<1>4. Data(t, server[t]) = Frame("data", server[t].port, t, server[t].block, server[t].file)
  BY <1>3 DEF Data
<1>5. Data(t, server[t]) \in FrameRec
  BY <1>2, <1>3, <1>4, FrameType DEF Kinds
<1>6. FrameOK(Data(t, server[t])) /\ Data(t, server[t]).k = "data"
  BY <1>3, <1>4 DEF Frame, FrameOK
<1> QED BY <1>5, <1>6

LEMMA NetworkStep == ASSUME NetInv, Deliver \/ Lose \/ Others \/ Resend PROVE NetInv'
<1>0. NetTypeOK /\ wire \subseteq FrameRec /\ faults \in Nat
  BY DEF NetInv, NetTypeOK
<1>1. UseFault => faults' \in Nat
  BY <1>0 DEF UseFault
<1>2. CASE Deliver
  <2>1. PICK m \in wire : m.k \in ForUs /\ Taken(m)
           /\ rx' = IF net.running /\ Len(rx) < RxBds THEN Append(rx, m) ELSE rx
    BY <1>2 DEF Deliver
  <2>2. wire' \subseteq wire /\ faults' \in Nat
    BY <1>0, <1>1, <2>1 DEF Taken
  <2>3. net' = net /\ mem' = mem /\ server' = server
    BY <1>2 DEF Deliver
  <2> QED BY <1>0, <2>1, <2>2, <2>3, WireStep
<1>3. CASE Lose
  <2>1. wire' \subseteq wire /\ faults' \in Nat /\ net' = net /\ mem' = mem
        /\ server' = server /\ rx' = rx
    BY <1>1, <1>3 DEF Lose
  <2> QED BY <1>0, <2>1, WireStep
<1>4. CASE Others
  <2>1. PICK k \in {"who_us", "udp"} : wire' = wire \cup {Frame(k, 0, 0, 0, 0)}
    BY <1>4 DEF Others
  <2>2. PICK f : f = Frame(k, 0, 0, 0, 0)
    OBVIOUS
  <2>3. f \in FrameRec /\ f.k \notin {"data", "ack", "rrq"}
    <3>1. k \in Kinds
      BY DEF Kinds
    <3> QED BY <2>2, <3>1, FrameType DEF Frame
  <2>4. faults' \in Nat /\ net' = net /\ mem' = mem /\ server' = server /\ rx' = rx
    BY <1>1, <1>4 DEF Others
  <2> QED BY <1>0, <2>1, <2>2, <2>3, <2>4, WireStep
<1>5. CASE Resend
  <2>1. PICK t \in DOMAIN server : wire' = wire \cup {Data(t, server[t])}
    BY <1>5 DEF Resend
  <2>2. faults' \in Nat /\ net' = net /\ mem' = mem /\ server' = server /\ rx' = rx
    BY <1>1, <1>5 DEF Resend
  <2>3. PICK f : f = Data(t, server[t])
    OBVIOUS
  <2>4. f \in FrameRec /\ FrameOK(f) /\ f.k = "data"
    BY <2>3, DataOK
  <2> QED BY <1>0, <2>1, <2>2, <2>3, <2>4, WireStep
<1> QED BY <1>2, <1>3, <1>4, <1>5

\* A session is opened or moves on, and its block is sent.
LEMMA Grown ==
    ASSUME NetInv, net' = net, mem' = mem, rx' = rx, faults' = faults,
           server' \in Seq(Session), DOMAIN server \subseteq DOMAIN server',
           Len(server) <= Len(server'),
           \A t \in DOMAIN server : /\ server'[t].port = server[t].port
                                    /\ server'[t].file = server[t].file
                                    /\ server'[t].block \in Nat
                                    /\ server[t].block <= server'[t].block,
           \A t \in DOMAIN server' : server'[t].port \in net.used,
           NEW t0 \in DOMAIN server', server'[t0].block \in 1 .. FileBlocks,
           NEW d, d = Data(t0, server'[t0]), wire' \subseteq wire \cup {d}
    PROVE  NetTypeOK' /\ Traffic' /\ TimerCoversWait' /\ Waits' /\ d.k = "data"
<1>0. NetTypeOK /\ Traffic /\ Waits /\ TimerCoversWait
  BY DEF NetInv
<1>1. server'[t0] \in Session
  OBVIOUS
<1>2. /\ server'[t0].port \in Nat /\ server'[t0].file \in Nat /\ t0 \in Nat
      /\ server'[t0].block \in Nat
  <2>1. server'[t0].port \in Ports /\ server'[t0].file \in Nat
    BY <1>1 DEF Session
  <2>2. t0 \in Nat
    OBVIOUS
  <2>3. server'[t0].block \in Nat
    BY NoWrap
  <2>4. server'[t0].port \in Nat
    BY <2>1, Bounds
  <2> QED BY <2>1, <2>2, <2>3, <2>4
<1>3. d = Frame("data", server'[t0].port, t0, server'[t0].block, server'[t0].file)
  <2>1. server'[t0].block % BlockMod = server'[t0].block
    BY NoWrap
  <2> QED BY <2>1 DEF Data
<1>4. d \in FrameRec /\ d.k = "data"
  <2>1. d \in FrameRec
    BY <1>2, <1>3, FrameType DEF Kinds
  <2> QED BY <1>3, <2>1 DEF Frame
<1>5. \A m : FrameOK(m) => FrameOK(m)'
  <2> TAKE m
  <2> HAVE FrameOK(m)
  <2>1. server \in Seq(Session) /\ \A t \in DOMAIN server : server[t].block \in Nat
    BY <1>0, Shape
  <2> QED BY <2>1, FrameStays
<1>6. FrameOK(d)'
  <2>1. d.tid = t0 /\ d.port = server'[t0].port /\ d.file = server'[t0].file
        /\ d.block = server'[t0].block
    BY <1>3 DEF Frame
  <2>2. d.block \in 1 .. server'[t0].block
    BY <1>2, <2>1
  <2> QED BY <1>4, <2>1, <2>2 DEF FrameOK
<1>7. NetTypeOK'
  <2>1. wire' \subseteq FrameRec
    BY <1>0, <1>4 DEF NetTypeOK
  <2>2. net'.tid <= Len(server')
    <3>1. net.tid <= Len(server) /\ net.tid \in Nat /\ Len(server) \in Nat
      BY <1>0, Shape, NetFields DEF NetTypeOK
    <3> QED BY <3>1
  <2> QED BY <1>0, <2>1, <2>2 DEF NetTypeOK
<1>8. Traffic'
  <2>1. \A m \in wire' : FrameOK(m)'
    BY <1>0, <1>5, <1>6 DEF Traffic
  <2>2. \A i \in 1 .. Len(rx') : (rx[i].k \in ForUs /\ FrameOK(rx[i]))'
    <3> TAKE i \in 1 .. Len(rx')
    <3>1. PICK m : m = rx'[i]
      OBVIOUS
    <3>2. m.k \in ForUs /\ FrameOK(m)
      BY <1>0, <3>1 DEF Traffic
    <3>3. FrameOK(m)'
      BY <3>2, <1>5
    <3> QED BY <3>1, <3>2, <3>3 DEF FrameOK
  <2>3. net'.TftpState = "data" =>
            net'.tid \in DOMAIN server' /\ server'[net'.tid].port = net'.port
    BY <1>0 DEF Traffic
  <2> QED BY <2>1, <2>2, <2>3 DEF Traffic
<1>9. TimerCoversWait' /\ Waits'
  BY <1>0 DEF TimerCoversWait, Waits
<1> QED BY <1>4, <1>7, <1>8, <1>9

\* A request opens a session.
LEMMA OpenStep ==
    ASSUME NetInv, NEW m \in wire, m.k = "rrq", NEW s,
           s = [port |-> m.port, file |-> m.file, block |-> 1],
           server' = Append(server, s), faults' = faults,
           wire' = (wire \ {m}) \cup {Data(Len(server) + 1, s)},
           net' = net, mem' = mem, rx' = rx
    PROVE  NetInv'
<1>0. NetTypeOK /\ Traffic /\ m \in FrameRec /\ FrameOK(m) /\ net \in NetRec
  BY DEF NetInv, NetTypeOK, Traffic
<1>1. m.port \in net.used /\ m.port \in Ports /\ m.file \in Nat
  <2>1. m.port \in net.used
    BY <1>0 DEF FrameOK
  <2> QED BY <1>0, <2>1, NetFields, Shape
<1>2. s \in Session /\ s.port = m.port /\ s.file = m.file /\ s.block = 1
  BY <1>1, Bounds DEF Session
<1>3. server \in Seq(Session) /\ Len(server) \in Nat /\ DOMAIN server = 1 .. Len(server)
  BY <1>0, Shape
<1>4. /\ server' \in Seq(Session) /\ Len(server') = Len(server) + 1
      /\ DOMAIN server' = 1 .. Len(server) + 1
      /\ server'[Len(server) + 1] = s
      /\ \A t \in DOMAIN server : server'[t] = server[t]
  BY <1>2, <1>3
<1>5. \A t \in DOMAIN server' : t \in DOMAIN server \/ t = Len(server) + 1
  BY <1>3, <1>4
<1>6. DOMAIN server \subseteq DOMAIN server' /\ Len(server) <= Len(server')
      /\ Len(server) + 1 \in DOMAIN server'
  BY <1>3, <1>4
<1>7. \A t \in DOMAIN server : /\ server'[t].port = server[t].port
                               /\ server'[t].file = server[t].file
                               /\ server'[t].block \in Nat
                               /\ server[t].block <= server'[t].block
  BY <1>0, <1>4, Shape
<1>8. \A t \in DOMAIN server' : server'[t].port \in net.used
  BY <1>0, <1>1, <1>2, <1>4, <1>5 DEF Traffic
<1>9. PICK d : d = Data(Len(server) + 1, s)
  OBVIOUS
<1>10. NetTypeOK' /\ Traffic' /\ TimerCoversWait' /\ Waits' /\ d.k = "data"
  <2>1. wire' \subseteq wire \cup {d} /\ d = Data(Len(server) + 1, server'[Len(server) + 1])
        /\ server'[Len(server) + 1].block \in 1 .. FileBlocks
    BY <1>2, <1>4, <1>9, Bounds
  <2> QED BY <1>4, <1>6, <1>7, <1>8, <2>1, Grown
<1>11. net'.handler = "tftp" /\ ~net'.clash => OurTransfer'
  <2> SUFFICES ASSUME net'.handler = "tftp", ~net'.clash PROVE OurTransfer'
    OBVIOUS
  <2>1. OurTransfer
    BY DEF NetInv
  <2>2. \A f \in wire' : f \in wire \/ (f.k # "rrq" /\ f.k # "ack")
    BY <1>9, <1>10
  <2>3. \A t \in DOMAIN server' : server'[t].port = net.port =>
           /\ server'[t].file = net.boot
           /\ server'[t].block = 1 \/ (net.TftpState = "data" /\ t = net.tid)
           /\ server'[t].block <= net.size + 1
    <3> TAKE t \in DOMAIN server'
    <3>1. CASE t \in DOMAIN server
      BY <1>4, <2>1, <3>1 DEF OurTransfer
    <3>2. CASE t = Len(server) + 1
      <4>1. m.port = net.port => m.file = net.boot
        BY <2>1 DEF OurTransfer
      <4>2. 1 <= net.size + 1
        BY <1>0, NetFields
      <4> QED BY <1>2, <1>4, <3>2, <4>1, <4>2
    <3> QED BY <1>5, <3>1, <3>2
  <2>4. Whole(net.boot, net.size)'
    BY <2>1 DEF OurTransfer, Whole
  <2> QED BY <2>1, <2>2, <2>3, <2>4 DEF OurTransfer
<1> QED BY <1>10, <1>11 DEF NetInv

\* An acknowledgement of its last block moves a session on.
LEMMA MoveStep ==
    ASSUME NetInv, NEW m \in wire, m.k = "ack",
           m.block = server[m.tid].block % BlockMod, server[m.tid].block + 1 <= FileBlocks,
           NEW s, s = [server[m.tid] EXCEPT !.block = server[m.tid].block + 1],
           server' = [server EXCEPT ![m.tid] = s], faults' = faults,
           wire' = (wire \ {m}) \cup {Data(m.tid, s)},
           net' = net, mem' = mem, rx' = rx
    PROVE  NetInv'
<1>0. NetTypeOK /\ Traffic /\ m \in FrameRec /\ FrameOK(m) /\ net \in NetRec
  BY DEF NetInv, NetTypeOK, Traffic
<1>1. m.tid \in DOMAIN server /\ m.port = server[m.tid].port
  BY <1>0 DEF FrameOK
<1>2. /\ server \in Seq(Session) /\ Len(server) \in Nat /\ DOMAIN server = 1 .. Len(server)
      /\ server[m.tid] \in Session
      /\ server[m.tid].block \in 1 .. FileBlocks /\ server[m.tid].block \in Nat
  BY <1>0, <1>1, Shape
<1>3. m.block = server[m.tid].block
  BY <1>2, NoWrap
<1>4. server[m.tid].block + 1 \in 1 .. FileBlocks
  BY <1>2, Bounds
<1>5. s \in Session /\ s.port = m.port /\ s.file = server[m.tid].file /\ s.block = m.block + 1
  BY <1>1, <1>2, <1>3, <1>4 DEF Session
<1>6. /\ server' \in Seq(Session) /\ Len(server') = Len(server)
      /\ DOMAIN server' = DOMAIN server /\ server'[m.tid] = s
      /\ \A t \in DOMAIN server : t # m.tid => server'[t] = server[t]
  BY <1>1, <1>2, <1>5
<1>7. \A t \in DOMAIN server : /\ server'[t].port = server[t].port
                               /\ server'[t].file = server[t].file
                               /\ server'[t].block \in Nat
                               /\ server[t].block <= server'[t].block
  <2> TAKE t \in DOMAIN server
  <2>1. CASE t = m.tid
    BY <1>1, <1>2, <1>3, <1>5, <1>6, <2>1
  <2>2. CASE t # m.tid
    <3>1. server[t].block \in Nat /\ server'[t] = server[t]
      BY <1>0, <1>6, <2>2, Shape
    <3> QED BY <3>1
  <2> QED BY <2>1, <2>2
<1>8. \A t \in DOMAIN server' : server'[t].port \in net.used
  BY <1>0, <1>6, <1>7 DEF Traffic
<1>9. PICK d : d = Data(m.tid, s)
  OBVIOUS
<1>10. NetTypeOK' /\ Traffic' /\ TimerCoversWait' /\ Waits' /\ d.k = "data"
  <2>1. wire' \subseteq wire \cup {d} /\ d = Data(m.tid, server'[m.tid])
        /\ server'[m.tid].block \in 1 .. FileBlocks /\ m.tid \in DOMAIN server'
        /\ DOMAIN server \subseteq DOMAIN server' /\ Len(server) <= Len(server')
    BY <1>1, <1>2, <1>3, <1>4, <1>5, <1>6, <1>9
  <2> QED BY <1>6, <1>7, <1>8, <2>1, Grown
<1>11. net'.handler = "tftp" /\ ~net'.clash => OurTransfer'
  <2> SUFFICES ASSUME net'.handler = "tftp", ~net'.clash PROVE OurTransfer'
    OBVIOUS
  <2>1. OurTransfer
    BY DEF NetInv
  <2>2. \A f \in wire' : f \in wire \/ (f.k # "rrq" /\ f.k # "ack")
    BY <1>9, <1>10
  <2>3. \A t \in DOMAIN server' : server'[t].port = net.port =>
           /\ server'[t].file = net.boot
           /\ server'[t].block = 1 \/ (net.TftpState = "data" /\ t = net.tid)
           /\ server'[t].block <= net.size + 1
    <3> TAKE t \in DOMAIN server'
    <3>1. CASE t # m.tid
      BY <1>6, <2>1, <3>1 DEF OurTransfer
    <3>2. CASE t = m.tid
      <4>1. m.port = net.port => /\ net.TftpState = "data" /\ m.tid = net.tid
                                 /\ m.block \in 1 .. net.size
        BY <2>1 DEF OurTransfer
      <4>2. server[m.tid].port = net.port => server[m.tid].file = net.boot
        BY <1>1, <2>1 DEF OurTransfer
      <4>3. net.size \in Nat /\ m.block \in Nat
        BY <1>0, <1>2, <1>3, NetFields
      <4>4. s.block = m.block + 1 /\ s.file = server[m.tid].file
            /\ s.port = server[m.tid].port /\ server'[t] = s
        BY <1>1, <1>5, <1>6, <3>2
      <4>5. m.port = net.port => m.block + 1 <= net.size + 1
        BY <4>1, <4>3
      <4> QED BY <1>1, <3>2, <4>1, <4>2, <4>4, <4>5
    <3> QED BY <3>1, <3>2
  <2>4. Whole(net.boot, net.size)'
    BY <2>1 DEF OurTransfer, Whole
  <2> QED BY <2>1, <2>2, <2>3, <2>4 DEF OurTransfer
<1> QED BY <1>10, <1>11 DEF NetInv

LEMMA ServeStep == ASSUME NetInv, Serve PROVE NetInv'
<1>0. NetTypeOK /\ wire \subseteq FrameRec /\ faults \in Nat
  BY DEF NetInv, NetTypeOK
<1>1. PICK m \in wire : Answer(m)
  BY DEF Serve
<1>2. net' = net /\ mem' = mem /\ rx' = rx
  BY DEF Serve
<1>3. m \in FrameRec /\ m.port \in Nat /\ m.tid \in Nat
  BY <1>0, Shape
<1>4. ASSUME NEW f, f \in FrameRec, f.k \notin {"data", "ack", "rrq"}, server' = server,
             wire' = (wire \ {m}) \cup {f}, faults' \in Nat
      PROVE  NetInv'
  BY <1>0, <1>2, <1>4, WireStep
<1>5. CASE m = ArpReq /\ wire' = (wire \ {m}) \cup {Frame("server_addr", 0, 0, 0, 0)}
           /\ UNCHANGED <<server, faults>>
  <2>1. PICK f : f = Frame("server_addr", 0, 0, 0, 0)
    OBVIOUS
  <2>2. f \in FrameRec /\ f.k = "server_addr"
    BY <2>1, FrameType DEF Kinds, Frame
  <2> QED BY <1>0, <1>4, <1>5, <2>1, <2>2
<1>6. CASE /\ m.k = "rrq" /\ UNCHANGED faults
           /\ server' = Append(server, [port |-> m.port, file |-> m.file, block |-> 1])
           /\ wire' = (wire \ {m}) \cup
                      {Data(Len(server) + 1, [port |-> m.port, file |-> m.file, block |-> 1])}
  BY <1>2, <1>6, OpenStep
<1>7. CASE m.k = "ack" /\ wire' = wire \ {m} /\ UNCHANGED <<server, faults>>
  BY <1>0, <1>2, <1>7, WireStep
<1>8. ASSUME m.k = "ack", UNCHANGED faults,
             m.block = server[m.tid].block % BlockMod,
             [server[m.tid] EXCEPT !.block = @ + 1].block <= FileBlocks,
             server' = [server EXCEPT ![m.tid] = [server[m.tid] EXCEPT !.block = @ + 1]],
             wire' = (wire \ {m}) \cup {Data(m.tid, [server[m.tid] EXCEPT !.block = @ + 1])}
      PROVE  NetInv'
  <2>1. PICK s : s = [server[m.tid] EXCEPT !.block = @ + 1]
    OBVIOUS
  <2>2. server[m.tid] \in Session
    <3>1. m.tid \in DOMAIN server
      BY <1>8 DEF NetInv, Traffic, FrameOK
    <3> QED BY <1>0, <3>1, Shape
  <2>3. s.block = server[m.tid].block + 1
    BY <2>1, <2>2 DEF Session
  <2>4. s.block <= FileBlocks /\ server' = [server EXCEPT ![m.tid] = s]
        /\ wire' = (wire \ {m}) \cup {Data(m.tid, s)}
    BY <1>8, <2>1
  <2> QED BY <1>2, <1>8, <2>1, <2>3, <2>4, MoveStep
<1>9. CASE m # ArpReq /\ UseFault /\ UNCHANGED server
           /\ wire' = (wire \ {m}) \cup {Frame("error", m.port, m.tid, 0, 0)}
  <2>1. PICK f : f = Frame("error", m.port, m.tid, 0, 0)
    OBVIOUS
  <2>2. f \in FrameRec /\ f.k = "error"
    BY <1>3, <2>1, FrameType DEF Kinds, Frame
  <2>3. faults' \in Nat
    BY <1>0, <1>9 DEF UseFault
  <2> QED BY <1>4, <1>9, <2>1, <2>2, <2>3
<1> QED BY <1>1, <1>5, <1>6, <1>7, <1>8, <1>9 DEF Answer

-----------------------------------------------------------------------------
(* The theorems                                                             *)

LEMMA NetInvInit == Init => NetInv
<1> SUFFICES ASSUME Init PROVE NetInv
  OBVIOUS
<1>1. net = [boot |-> 0, running |-> FALSE, ok |-> FALSE, NetState |-> "continue",
             handler |-> "none", timer |-> "none", ether |-> FALSE, TftpState |-> "rrq",
             port |-> 0, tid |-> 0, count |-> 0, block |-> 0, last |-> 0, size |-> 0,
             tx |-> {}, used |-> {}, clash |-> FALSE]
  BY DEF Init
<1>2. net \in NetRec
  <2>1. 0 \in 0 .. FileBlocks /\ 0 \in Nat /\ 0 \in Ports \cup {0}
        /\ {} \in SUBSET FrameRec /\ {} \in SUBSET Ports
    BY Bounds
  <2> QED BY <1>1, <2>1 DEF NetRec
<1>3. /\ mem = [b \in 0 .. FileBlocks |-> Nothing] /\ rx = <<>> /\ wire = {} /\ server = <<>>
      /\ faults = MaxFaults
  BY DEF Init
<1>4. NetTypeOK
  <2>1. mem \in [0 .. FileBlocks -> Nat \X Nat] /\ mem[0] = Nothing
    BY <1>3, Bounds DEF Nothing
  <2>2. net.tx = {} /\ net.tid = 0 /\ net.count = 0
    BY <1>1
  <2>3. rx \in Seq(FrameRec) /\ Len(rx) = 0 /\ server \in Seq(Session) /\ Len(server) = 0
    BY <1>3
  <2> QED BY <1>2, <1>3, <2>1, <2>2, <2>3, Bounds DEF NetTypeOK
<1>5. Traffic
  BY <1>1, <1>3 DEF Traffic
<1>6. Waits /\ TimerCoversWait
  BY <1>1 DEF Waits, TimerCoversWait
<1> QED BY <1>1, <1>4, <1>5, <1>6 DEF NetInv

\* Types, the timer that covers every wait, and the bookkeeping of traffic, waits and transfer
\* hold in every state, however long the file, whatever the network does.
THEOREM NetInvariance == NetSpec => []NetInv
<1>1. ASSUME NetInv, [Next]_vars PROVE NetInv'
  <2>1. CASE UNCHANGED vars
    BY <1>1, <2>1 DEF vars, NetInv, NetTypeOK, TimerCoversWait, Traffic, FrameOK, Waits,
                      OurTransfer, Whole
  <2>2. CASE Next
    BY <1>1, <2>2, BootStep, EthRxStep, ExpireStep, EndTurnStep, AbortStep, NetworkStep,
       ServeStep DEF Next, Loop
  <2> QED BY <1>1, <2>1, <2>2
<1> QED BY <1>1, NetInvInit, PTL DEF NetSpec

\* A boot that reports a size has its own file whole in memory, and the server is only told of
\* blocks that are stored (net.c, tftp.c).
THEOREM NetBootTruthful == NetSpec => []BootTruthful
<1>1. ASSUME NetInv PROVE BootTruthful
  <2>1. LoadedIsWhole
    <3> SUFFICES ASSUME net.ok, ~net.clash
                 PROVE  Whole(net.boot, FileBlocks) /\ net.size = FileBlocks
      BY DEF LoadedIsWhole
    <3>1. net.handler = "tftp" /\ net.size = FileBlocks
      BY <1>1 DEF NetInv, Waits
    <3>2. OurTransfer
      BY <1>1, <3>1 DEF NetInv
    <3> QED BY <3>1, <3>2 DEF OurTransfer
  <2>2. AckMeansStored
    <3> SUFFICES ASSUME NEW m \in wire, net.handler = "tftp", m.k = "ack",
                        m.port = net.port, ~net.clash
                 PROVE  Whole(net.boot, m.block)
      BY DEF AckMeansStored
    <3>1. Whole(net.boot, net.size) /\ m.block \in 1 .. net.size
      BY <1>1 DEF NetInv, OurTransfer
    <3>2. net.size \in Nat
      BY <1>1, NetFields DEF NetInv, NetTypeOK
    <3>3. \A b \in 1 .. m.block : b \in 1 .. net.size
      BY <3>1, <3>2
    <3> QED BY <3>1, <3>3 DEF Whole
  <2> QED BY <2>1, <2>2 DEF BootTruthful
<1> QED BY <1>1, NetInvariance, PTL

-----------------------------------------------------------------------------
(* The address from the network                                             *)

LEMMA AddressNumbers ==
    /\ Servers \subseteq Nat \ {0} /\ Neighbours \subseteq Nat
    /\ Protocols \subseteq {"bootp", "dhcp", "rarp"}
    /\ \A s, i \in Nat : Address(s, i) \in Nat
BY BootpAssumption DEF Address

Datagrams == [type : MessageTypes, id : Nat, server : Servers \cup {0}, ip : Nat]

LEMMA DatagramType ==
    ASSUME NEW t \in MessageTypes, NEW i \in Nat, NEW s \in Servers \cup {0}, NEW ip \in Nat
    PROVE  /\ Datagram(t, i, s, ip) \in Datagrams
           /\ Datagram(t, i, s, ip).type = t /\ Datagram(t, i, s, ip).id = i
           /\ Datagram(t, i, s, ip).server = s /\ Datagram(t, i, s, ip).ip = ip
BY DEF Datagram, Datagrams

LEMMA DatagramFields ==
    ASSUME AddressTypeOK, NEW m \in messages
    PROVE  /\ m.type \in MessageTypes /\ m.id \in Nat /\ m.server \in Servers \cup {0}
           /\ m.server \in Nat /\ m.ip \in Nat /\ m \in Datagrams
<1>1. m \in Datagrams
  BY DEF AddressTypeOK, Datagrams
<1>2. m.type \in MessageTypes /\ m.id \in Nat /\ m.server \in Servers \cup {0} /\ m.ip \in Nat
  BY <1>1 DEF Datagrams
<1>3. m.server \in Nat
  <2>1. CASE m.server \in Servers
    BY <2>1, BootpAssumption
  <2> QED BY <1>2, <2>1
<1> QED BY <1>1, <1>2, <1>3

LEMMA AddressFields ==
    ASSUME AddressTypeOK
    PROVE  /\ protocol \in {"bootp", "dhcp", "rarp"} /\ id \in Nat /\ Try \in Nat /\ 0 \in Nat
           /\ NetOurIP \in Nat /\ NetServerIP \in Nat /\ asked \in Nat
           /\ messages \subseteq Datagrams
BY AddressNumbers DEF AddressTypeOK, Datagrams

-----------------------------------------------------------------------------

LEMMA AddressInitInv == AddressInit => AddressInv
<1> SUFFICES ASSUME AddressInit PROVE AddressInv
  OBVIOUS
<1>1. handler = "none" /\ dhcp_state = "INIT" /\ messages = {}
  BY DEF AddressInit
<1>2. lease \in [Servers -> SUBSET Nat]
  BY DEF AddressInit
<1>3. AddressTypeOK
  <2>1. /\ protocol \in Protocols /\ autoload \in Autoload /\ timer \in BOOLEAN
        /\ area \in Areas \cup {<<>>}
    BY DEF AddressInit
  <2>2. {Try, id} \subseteq Nat /\ {NetOurIP, NetServerIP, asked} \subseteq Nat
    BY DEF AddressInit
  <2> QED BY <1>1, <1>2, <2>1, <2>2 DEF AddressTypeOK
<1>4. AddressOurs
  BY <1>1 DEF AddressOurs
<1> QED BY <1>1, <1>3, <1>4 DEF AddressInv

\* A request of ours, by NetLoop or by a timer.
LEMMA RequestsStep ==
    ASSUME AddressInv, NEW try \in Nat, Requests(try), handler \in {"none", protocol},
           UNCHANGED <<protocol, autoload, asked, lease, area>>,
           {NetOurIP', NetServerIP'} \subseteq Nat
    PROVE  AddressInv'
<1> DEFINE new == Datagram(IF protocol = "dhcp" THEN "DISCOVER" ELSE "REQUEST", id', 0, 0)
<1>1. /\ AddressTypeOK /\ id' = id + 1 /\ messages' = messages \cup {new} /\ handler' = protocol
      /\ Try' = try + 1 /\ timer' = TRUE
      /\ dhcp_state' = IF protocol = "dhcp" THEN "SELECTING" ELSE dhcp_state
  BY DEF AddressInv, Requests
<1>2. id \in Nat /\ id' \in Nat /\ try + 1 \in Nat /\ id \in 0 .. id' /\ protocol \in {"bootp", "dhcp", "rarp"}
  <2>1. id \in Nat /\ protocol \in {"bootp", "dhcp", "rarp"}
    BY <1>1, AddressFields
  <2> QED BY <1>1, <2>1
<1>3. MessageTypes' = MessageTypes
  BY DEF MessageTypes
<1>4. new \in Datagrams /\ new.type \in {"DISCOVER", "REQUEST"} /\ new.id = id'
  <2> DEFINE t == IF protocol = "dhcp" THEN "DISCOVER" ELSE "REQUEST"
  <2>1. t \in MessageTypes /\ t \in {"DISCOVER", "REQUEST"} /\ 0 \in Servers \cup {0} /\ 0 \in Nat
    BY DEF MessageTypes
  <2> HIDE DEF t
  <2>2. Datagram(t, id', 0, 0) \in Datagrams /\ Datagram(t, id', 0, 0).type = t /\ Datagram(t, id', 0, 0).id = id'
    BY <1>2, <2>1, DatagramType
  <2> QED BY <2>1, <2>2 DEF t
<1>5. AddressTypeOK'
  <2>1. messages' \subseteq Datagrams
    BY <1>1, <1>4, AddressFields
  <2>2. /\ protocol' \in Protocols /\ autoload' \in Autoload /\ handler' \in {"none", protocol', "arp", "success"}
        /\ timer' \in BOOLEAN /\ dhcp_state' \in {"INIT", "SELECTING", "REQUESTING", "BOUND"}
        /\ asked' \in Nat /\ lease' \in [Servers -> SUBSET Nat] /\ area' \in Areas \cup {<<>>}
    BY <1>1 DEF AddressTypeOK
  <2>3. Try' \in Nat
    BY <1>1, <1>2
  <2> QED BY <1>2, <1>3, <2>1, <2>2, <2>3 DEF AddressTypeOK, Datagrams
<1>6. ASSUME NEW m \in messages
      PROVE  Wanted(m)' /\ Asking(m)'
  <2>1. Wanted(m) /\ Asking(m)
    BY DEF AddressInv
  <2>2. m.id \in 1 .. id => m.id \in 1 .. id' /\ m.id # id'
    BY <1>1, <1>2
  <2>3. m.type = "ASK" => m.id # id'
    BY <2>1, <2>2 DEF Wanted
  <2>4. Wanted(m)'
    BY <1>1, <2>1, <2>2 DEF Wanted, Ours
  <2> QED BY <2>3, <2>4 DEF Asking
<1>7. ASSUME NEW m \in messages', m = new
      PROVE  Wanted(m)' /\ Asking(m)'
  <2>1. id' \in 1 .. id'
    BY <1>1, <1>2
  <2>2. m.type \in {"DISCOVER", "REQUEST"} /\ m.id = id'
    BY <1>4, <1>7
  <2> QED BY <2>1, <2>2 DEF Wanted, Asking
<1>8. AddressOurs' /\ id' > 0
  <2>1. handler' \notin {"arp", "success"} /\ id' > 0
    BY <1>1, <1>2
  <2> QED BY <2>1 DEF AddressOurs
<1>9. \A m \in messages' : m \in messages \/ m = new
  BY <1>1
<1> HIDE DEF new
<1> QED BY <1>5, <1>6, <1>7, <1>8, <1>9 DEF AddressInv

LEMMA AddressStartStep ==
    ASSUME AddressInv, Start \/ Timeout
    PROVE  AddressInv'
<1>1. AddressTypeOK /\ Try \in Nat /\ NetOurIP \in Nat /\ NetServerIP \in Nat
  BY AddressFields DEF AddressInv
<1>2. CASE Start
  <2>1. PICK try \in {Try, 0} : Requests(try)
    BY <1>2 DEF Start, NetLoop
  <2> QED BY <1>1, <1>2, <2>1, RequestsStep DEF Start, NetLoop
<1>3. CASE Timeout
  <2>1. CASE Try >= TIMEOUT_COUNT
    <3>1. PICK try \in {Try, 0} : Requests(try)
      BY <1>3, <2>1 DEF Timeout, NetLoop
    <3> QED BY <1>1, <1>3, <2>1, <3>1, RequestsStep DEF Timeout, NetLoop
  <2>2. CASE ~(Try >= TIMEOUT_COUNT)
    BY <1>1, <1>3, <2>2, RequestsStep DEF Timeout
  <2> QED BY <2>1, <2>2
<1> QED BY <1>2, <1>3

\* A packet that changes no message, no promise and no request.
LEMMA MessagesStay ==
    ASSUME AddressInv, UNCHANGED <<protocol, id, messages, lease, asked>>,
           dhcp_state' = dhcp_state \/ dhcp_state' # "SELECTING"
    PROVE  \A m \in messages' : Wanted(m)' /\ Asking(m)'
BY DEF AddressInv, Wanted, Ours, Asking

LEMMA BootpHandlerStep ==
    ASSUME AddressInv, NEW m \in messages, BootpHandler(m)
    PROVE  AddressInv'
<1>1. AddressTypeOK /\ Wanted(m) /\ handler = "bootp" /\ BootpCheckPkt(m)
  BY DEF AddressInv, BootpHandler
<1>2. protocol = "bootp" /\ m.type \in MessageTypes /\ m.server \in Nat /\ m.ip \in Nat
  BY <1>1, DatagramFields DEF AddressTypeOK
<1>3. m.type = "REPLY" /\ m.id = id
  BY <1>1, <1>2 DEF MessageTypes, BootpCheckPkt
<1>4. NetOurIP' = m.ip /\ NetServerIP' = m.server /\ handler' \in {"arp", "success"} /\ area' \in Areas
      /\ timer' = FALSE /\ UNCHANGED <<protocol, autoload, dhcp_state, Try, id, asked, messages, lease>>
  BY DEF BootpHandler, BootpCopyNetParams, GoesOn
<1>5. AddressTypeOK'
  BY <1>1, <1>2, <1>4 DEF AddressTypeOK, MessageTypes
<1>6. AddressOurs'
  <2>1. id \notin Neighbours => m.ip = Address(m.server, id)
    BY <1>1, <1>3 DEF Wanted, Ours
  <2> QED BY <1>2, <1>4, <2>1 DEF AddressOurs
<1> QED BY <1>4, <1>5, <1>6, MessagesStay DEF AddressInv

LEMMA RarpReplyStep ==
    ASSUME AddressInv, NEW m \in messages, RarpReply(m)
    PROVE  AddressInv'
<1>1. AddressTypeOK /\ Wanted(m) /\ protocol = "rarp" /\ m.type = "REPLY"
  BY DEF AddressInv, RarpReply
<1>2. m.server \in Nat /\ m.ip \in Nat
  BY <1>1, DatagramFields
<1>3. NetOurIP' = m.ip /\ NetServerIP' = m.server /\ handler' \in {handler, "arp"}
      /\ UNCHANGED <<protocol, autoload, timer, dhcp_state, Try, id, asked, messages, lease, area>>
  BY DEF RarpReply, BootpCopyNetParams
<1>4. AddressTypeOK'
  BY <1>1, <1>2, <1>3 DEF AddressTypeOK, MessageTypes
<1>5. m.id \in 1 .. id /\ m.ip = Address(m.server, m.id)
  BY <1>1 DEF Wanted, Ours
<1>6. AddressOurs'
  BY <1>1, <1>3, <1>5 DEF AddressOurs
<1> QED BY <1>3, <1>4, <1>6, MessagesStay DEF AddressInv

\* The choice of an offer: no question for this request has been asked yet.
LEMMA DhcpSelectingStep ==
    ASSUME AddressInv, NEW m \in messages, DhcpSelecting(m)
    PROVE  AddressInv'
<1> DEFINE ask == Datagram("ASK", id, m.server, m.ip)
<1>1. /\ AddressTypeOK /\ Wanted(m) /\ handler = "dhcp" /\ dhcp_state = "SELECTING" /\ m.id = id
      /\ m.type \in {"REPLY", "OFFER", "ACK", "NAK"}
  BY DEF AddressInv, DhcpSelecting, BootpCheckPkt
<1>2. /\ protocol = "dhcp" /\ m.type \in MessageTypes /\ m.server \in Servers \cup {0} /\ m.server \in Nat
      /\ m.ip \in Nat /\ id \in Nat
  BY <1>1, DatagramFields, AddressFields DEF AddressTypeOK
<1>3. /\ dhcp_state' = "REQUESTING" /\ NetOurIP' = m.ip /\ NetServerIP' = m.server /\ timer' = TRUE /\ asked' = m.ip
      /\ messages' = messages \cup {ask}
      /\ UNCHANGED <<protocol, autoload, handler, Try, id, settings, lease, area>>
  BY DEF DhcpSelecting, BootpCopyNetParams
<1>4. \A q \in messages : ~(q.type = "ASK" /\ q.id = id)
  BY <1>1 DEF AddressInv, Asking
<1>5. m.id \notin Neighbours => m.type = "OFFER" /\ m.ip = Address(m.server, m.id)
  <2>1. m.id \notin Neighbours => m.type # "NAK"
    BY <1>1, <1>4 DEF Wanted, Ours
  <2>2. m.id \notin Neighbours => m.type # "ACK"
    <3>1. SUFFICES ASSUME m.id \notin Neighbours, m.type = "ACK" PROVE FALSE
      OBVIOUS
    <3>2. Datagram("ASK", m.id, m.server, m.ip) \in messages
      BY <1>1, <3>1 DEF Wanted, Ours
    <3>3. Datagram("ASK", m.id, m.server, m.ip).type = "ASK" /\ Datagram("ASK", m.id, m.server, m.ip).id = id
      BY <1>1 DEF Datagram
    <3> QED BY <1>4, <3>2, <3>3
  <2>3. m.type # "REPLY"
    BY <1>2 DEF MessageTypes
  <2> QED BY <1>1, <2>1, <2>2, <2>3 DEF Wanted, Ours
<1>6. ask \in Datagrams /\ ask.type = "ASK" /\ ask.id = id /\ ask.server = m.server /\ ask.ip = m.ip
  <2>1. "ASK" \in MessageTypes
    BY <1>2 DEF MessageTypes
  <2> QED BY <1>2, <2>1, DatagramType
<1>7. AddressTypeOK'
  <2>1. messages' \subseteq Datagrams
    BY <1>1, <1>3, <1>6, AddressFields
  <2> QED BY <1>1, <1>2, <1>3, <2>1 DEF AddressTypeOK, MessageTypes, Datagrams
<1>8. ASSUME NEW q \in messages
      PROVE  Wanted(q)' /\ Asking(q)'
  <2>1. Wanted(q)
    BY DEF AddressInv
  <2>2. Wanted(q)'
    BY <1>3, <2>1 DEF Wanted, Ours
  <2> QED BY <1>3, <1>4, <2>2 DEF Asking
<1>9. ASSUME NEW q \in messages', q = ask
      PROVE  Wanted(q)' /\ Asking(q)'
  <2>1. id \in 1 .. id
    BY <1>1, <1>2 DEF AddressInv
  <2>2. q.type = "ASK" /\ q.id = id /\ q.server = m.server /\ q.ip = m.ip
    BY <1>6, <1>9
  <2>3. id' = id /\ protocol' = protocol /\ asked' = m.ip /\ dhcp_state' # "SELECTING"
    BY <1>3
  <2>4. Ours(q.id)' => m.ip = Address(m.server, m.id)
    BY <1>1, <1>2, <1>5, <2>2, <2>3 DEF Ours
  <2> QED BY <1>1, <2>1, <2>2, <2>3, <2>4 DEF Wanted, Asking
<1>10. AddressOurs'
  BY <1>1, <1>3 DEF AddressOurs
<1>11. \A q \in messages' : q \in messages \/ q = ask
  BY <1>3
<1> HIDE DEF ask
<1> QED BY <1>3, <1>7, <1>8, <1>9, <1>10, <1>11 DEF AddressInv

\* The acknowledgement answers the question asked, and its server has promised the address.
LEMMA DhcpRequestingStep ==
    ASSUME AddressInv, NEW m \in messages, DhcpRequesting(m)
    PROVE  AddressInv'
<1>1. /\ AddressTypeOK /\ Wanted(m) /\ handler = "dhcp" /\ m.id = id /\ m.type = "ACK"
      /\ \A q \in messages : Wanted(q) /\ Asking(q)
  BY DEF AddressInv, DhcpRequesting, BootpCheckPkt
<1>2. protocol = "dhcp" /\ m.server \in Nat /\ m.ip \in Nat
  BY <1>1, DatagramFields DEF AddressTypeOK
<1>3. /\ NetOurIP' = m.ip /\ NetServerIP' = m.server /\ dhcp_state' = "BOUND"
      /\ handler' \in {"arp", "success"} /\ area' \in Areas
      /\ UNCHANGED <<protocol, autoload, timer, Try, id, asked, messages, lease>>
  BY DEF DhcpRequesting, BootpCopyNetParams, GoesOn
<1>4. AddressTypeOK'
  BY <1>1, <1>2, <1>3 DEF AddressTypeOK, MessageTypes
<1>5. ASSUME id \notin Neighbours
      PROVE  m.ip = asked /\ m.ip = Address(m.server, id) /\ m.server \in Servers /\ m.ip \in lease[m.server]
  <2> DEFINE q == Datagram("ASK", id, m.server, m.ip)
  <2>1. q \in messages /\ m.server \in Servers /\ m.ip \in lease[m.server]
    BY <1>1, <1>5 DEF Wanted, Ours
  <2>2. q.type = "ASK" /\ q.id = id /\ q.server = m.server /\ q.ip = m.ip
    BY DEF Datagram
  <2>3. Wanted(q) /\ Asking(q)
    BY <1>1, <2>1
  <2> HIDE DEF q
  <2> QED BY <1>5, <2>1, <2>2, <2>3 DEF Wanted, Asking, Ours
<1>6. AddressOurs'
  <2>1. protocol' = "dhcp" /\ id' = id /\ lease' = lease /\ asked' = asked
    BY <1>2, <1>3
  <2>2. SUFFICES ASSUME id \notin Neighbours
                 PROVE  /\ NetOurIP' = asked' /\ NetOurIP' = Address(NetServerIP', id')
                        /\ NetServerIP' \in Servers /\ asked' \in lease'[NetServerIP']
    BY <2>1 DEF AddressOurs
  <2> QED BY <1>3, <1>5, <2>1, <2>2
<1> QED BY <1>3, <1>4, <1>6, MessagesStay DEF AddressInv

\* A message of a server's, for the neighbour or of a kind that can be for us; promises only grow.
LEMMA ServerStep ==
    ASSUME AddressInv, UNCHANGED <<protocol, autoload, client>>,
           NEW new \in Datagrams, messages' = messages \cup {new},
           lease' \in [Servers -> SUBSET Nat], \A s \in Servers : lease[s] \subseteq lease'[s],
           Wanted(new)', new.type # "ASK"
    PROVE  AddressInv'
<1>1. /\ AddressTypeOK /\ AddressOurs /\ id' = id /\ dhcp_state' = dhcp_state /\ asked' = asked
      /\ handler' = handler /\ NetOurIP' = NetOurIP /\ NetServerIP' = NetServerIP /\ protocol' = protocol
  BY DEF AddressInv, client
<1>2. AddressTypeOK'
  <2>1. messages' \subseteq Datagrams
    BY <1>1, AddressFields
  <2> QED BY <1>1, <2>1 DEF AddressTypeOK, client, Datagrams, MessageTypes
<1>3. ASSUME NEW m \in messages'
      PROVE  Wanted(m)' /\ Asking(m)'
  <2>1. CASE m \in messages
    <3>1. Wanted(m) /\ Asking(m)
      BY <2>1 DEF AddressInv
    <3>2. m.server \in Servers /\ m.ip \in lease[m.server] => m.ip \in lease'[m.server]
      OBVIOUS
    <3> QED BY <1>1, <3>1, <3>2 DEF Wanted, Ours, Asking
  <2>2. CASE m = new
    BY <2>2 DEF Asking
  <2> QED BY <2>1, <2>2
<1>4. AddressOurs'
  <2>1. CASE protocol = "dhcp"
    <3>1. SUFFICES ASSUME handler' \in {"arp", "success"}, id' \notin Neighbours
                   PROVE  /\ NetOurIP' = asked' /\ NetOurIP' = Address(NetServerIP', id')
                          /\ NetServerIP' \in Servers /\ asked' \in lease'[NetServerIP']
      BY <1>1, <2>1 DEF AddressOurs
    <3>2. /\ NetOurIP = asked /\ NetOurIP = Address(NetServerIP, id)
          /\ NetServerIP \in Servers /\ asked \in lease[NetServerIP]
      BY <1>1, <2>1, <3>1 DEF AddressOurs
    <3> QED BY <1>1, <3>2
  <2>2. CASE protocol = "bootp"
    BY <1>1, <2>2 DEF AddressOurs
  <2>3. CASE protocol = "rarp"
    BY <1>1, <2>3 DEF AddressOurs
  <2> QED BY <1>1, <2>1, <2>2, <2>3, AddressFields
<1> QED BY <1>1, <1>2, <1>3, <1>4 DEF AddressInv

LEMMA AnswersStep ==
    ASSUME AddressInv, NEW s \in Servers, NEW m \in messages, Answers(s, m)
    PROVE  AddressInv'
<1>1. /\ AddressTypeOK /\ Wanted(m) /\ UNCHANGED <<protocol, autoload, client>> /\ UNCHANGED <<id, protocol>>
      /\ lease \in [Servers -> SUBSET Nat]
  BY DEF AddressInv, AddressTypeOK, Answers, client
<1>2. m.type \in MessageTypes /\ m.id \in Nat /\ m.ip \in Nat /\ s \in Nat /\ Address(s, m.id) \in Nat
  <2>1. m.type \in MessageTypes /\ m.id \in Nat /\ m.ip \in Nat
    BY <1>1, DatagramFields
  <2>2. s \in Nat
    BY BootpAssumption
  <2> QED BY <2>1, <2>2, AddressNumbers
<1>3. ASSUME m.type \in {"REQUEST", "DISCOVER"}, NEW t \in {"REPLY", "OFFER"} \cap MessageTypes, UNCHANGED lease,
             messages' = messages \cup {Datagram(t, m.id, s, Address(s, m.id))}
      PROVE  AddressInv'
  <2> DEFINE new == Datagram(t, m.id, s, Address(s, m.id))
  <2>1. /\ new \in Datagrams /\ new.type = t /\ new.id = m.id /\ new.server = s
        /\ new.ip = Address(s, m.id)
    BY <1>2, DatagramType
  <2>2. m.id \in 1 .. id
    BY <1>1, <1>3 DEF Wanted
  <2> HIDE DEF new
  <2>3. Wanted(new)'
    BY <1>1, <1>3, <2>1, <2>2 DEF Wanted
  <2>4. messages' = messages \cup {new} /\ new.type # "ASK"
    BY <1>3, <2>1 DEF new
  <2> QED BY <1>1, <1>3, <2>1, <2>3, <2>4, ServerStep
<1>4. ASSUME m.type = "ASK", messages' = messages \cup {Datagram("NAK", m.id, s, 0)}, UNCHANGED lease
      PROVE  AddressInv'
  <2> DEFINE new == Datagram("NAK", m.id, s, 0)
  <2>0. "NAK" \in MessageTypes
    BY <1>2, <1>4 DEF MessageTypes
  <2>1. new \in Datagrams /\ new.type = "NAK" /\ new.id = m.id
    BY <1>2, <2>0, DatagramType
  <2>2. m.id \in 1 .. id
    BY <1>1, <1>4 DEF Wanted
  <2> HIDE DEF new
  <2>4. messages' = messages \cup {new} /\ new.type # "ASK"
    BY <1>4, <2>1 DEF new
  <2>3. Wanted(new)'
    BY <1>1, <1>4, <2>1, <2>2, <2>4 DEF Wanted
  <2> QED BY <1>1, <1>4, <2>1, <2>3, <2>4, ServerStep
<1>5. ASSUME m.type = "ASK", m.server = s, messages' = messages \cup {Datagram("ACK", m.id, s, m.ip)},
             lease' = [lease EXCEPT ![s] = lease[s] \cup {m.ip}]
      PROVE  AddressInv'
  <2> DEFINE new == Datagram("ACK", m.id, s, m.ip)
  <2>0. "ACK" \in MessageTypes
    BY <1>2, <1>5 DEF MessageTypes
  <2>1. new \in Datagrams /\ new.type = "ACK" /\ new.id = m.id /\ new.server = s /\ new.ip = m.ip
    BY <1>2, <2>0, DatagramType
  <2>2. m.id \in 1 .. id
    BY <1>1, <1>5 DEF Wanted
  <2>3. lease' \in [Servers -> SUBSET Nat] /\ m.ip \in lease'[s] /\ \A t \in Servers : lease[t] \subseteq lease'[t]
    BY <1>1, <1>2, <1>5
  <2>4. Datagram("ASK", m.id, s, m.ip) = m
    <3>1. m \in Datagrams
      BY <1>1, DatagramFields
    <3> QED BY <1>5, <3>1 DEF Datagram, Datagrams
  <2> HIDE DEF new
  <2>5. messages' = messages \cup {new} /\ new.type # "ASK"
    BY <1>5, <2>1 DEF new
  <2>6. Wanted(new)'
    <3>1. Datagram("ASK", new.id, new.server, new.ip) \in messages'
      BY <2>1, <2>4, <2>5
    <3> QED BY <1>1, <2>1, <2>2, <2>3, <3>1 DEF Wanted
  <2> QED BY <1>1, <2>1, <2>3, <2>5, <2>6, ServerStep
<1>6. CASE m.type = "REQUEST"
  <2>1. "REPLY" \in MessageTypes
    BY <1>2, <1>6 DEF MessageTypes
  <2> QED BY <1>3, <1>6, <2>1 DEF Answers
<1>7. CASE m.type = "DISCOVER"
  <2>1. "OFFER" \in MessageTypes
    BY <1>2, <1>7 DEF MessageTypes
  <2> QED BY <1>3, <1>7, <2>1 DEF Answers
<1>8. CASE m.type = "ASK"
  BY <1>4, <1>5, <1>8 DEF Answers
<1> QED BY <1>6, <1>7, <1>8 DEF Answers

LEMMA AnswersNeighbourStep ==
    ASSUME AddressInv, NEW s \in Servers, NEW i \in Neighbours, AnswersNeighbour(s, i)
    PROVE  AddressInv'
<1>1. /\ AddressTypeOK /\ UNCHANGED <<protocol, autoload, client, lease>> /\ protocol # "rarp"
      /\ lease \in [Servers -> SUBSET Nat]
  BY DEF AddressInv, AddressTypeOK, AnswersNeighbour
<1>2. PICK t \in {"ACK", "REPLY"} \cap MessageTypes :
         messages' = messages \cup {Datagram(t, i, s, 100 + Address(s, i))}
  <2>1. (IF protocol = "dhcp" THEN "ACK" ELSE "REPLY") \in {"ACK", "REPLY"} \cap MessageTypes
    BY DEF MessageTypes
  <2> QED BY <2>1 DEF AnswersNeighbour
<1>3. i \in Nat /\ s \in Nat /\ 100 + Address(s, i) \in Nat
  <2>1. i \in Nat /\ s \in Nat
    BY BootpAssumption
  <2>2. Address(s, i) \in Nat
    BY <2>1, AddressNumbers
  <2> QED BY <2>1, <2>2
<1> DEFINE new == Datagram(t, i, s, 100 + Address(s, i))
<1>4. new \in Datagrams /\ new.type \in {"ACK", "REPLY"} /\ new.id = i
  BY <1>2, <1>3, DatagramType
<1>5. messages' = messages \cup {new}
  BY <1>2
<1> HIDE DEF new
<1>6. Wanted(new)'
  <2>1. ~Ours(i)'
    BY <1>1 DEF Ours
  <2>2. new.type \notin {"REQUEST", "DISCOVER", "ASK"}
    BY <1>4
  <2> QED BY <1>4, <2>1, <2>2 DEF Wanted, Ours
<1>7. new.type # "ASK"
  BY <1>4
<1> QED BY <1>1, <1>4, <1>5, <1>6, <1>7, ServerStep

LEMMA AddressInvStep == AddressInv /\ [AddressNext]_addressVars => AddressInv'
<1> SUFFICES ASSUME AddressInv, [AddressNext]_addressVars PROVE AddressInv'
  OBVIOUS
<1>1. CASE Start \/ Timeout
  BY <1>1, AddressStartStep
<1>2. CASE Receives
  BY <1>2, BootpHandlerStep, DhcpSelectingStep, DhcpRequestingStep, RarpReplyStep DEF Receives
<1>3. CASE UNCHANGED addressVars
  <2>1. UNCHANGED <<protocol, autoload, lease, messages, handler, timer, dhcp_state, Try, id, NetOurIP, NetServerIP, asked, area>>
    BY <1>3 DEF addressVars, client
  <2> QED BY <2>1 DEF AddressInv, AddressTypeOK, AddressOurs, MessageTypes, Wanted, Ours, Asking
<1> QED BY <1>1, <1>2, <1>3, AnswersStep, AnswersNeighbourStep DEF AddressNext

\* What can be on the wire and what it says of the client, for any servers, neighbours and number of
\* requests, whatever is lost, repeated and late.
THEOREM AddressInvariance == AddressSpec => []AddressInv
<1> QED BY AddressInitInv, AddressInvStep, PTL DEF AddressSpec

\* The address that is used is one a server gave this client for the request under way, and by DHCP
\* one it has promised, unless a neighbour's identifier is the same (bootp.c:74-121, 778-855).
THEOREM AddressesOurs == AddressSpec => []AddressOurs
<1>1. AddressInv => AddressOurs
  BY DEF AddressInv
<1> QED BY <1>1, AddressInvariance, PTL

-----------------------------------------------------------------------------
(* The rings of the Ethernet driver: slots                                  *)

LEMMA RingNumbers ==
    /\ ETH_TXBD_NUM \in Nat \ {0} /\ ETH_RXBD_NUM \in Nat \ {0}
    /\ Null = ETH_TXBD_NUM /\ NoFrame \in Nat
    /\ MaxSends \in Nat /\ MaxArrivals \in Nat /\ MaxInits \in Nat
BY EthAssumption DEF Null, NoFrame

LEMMA DivMod ==
    ASSUME NEW n \in Nat \ {0}, NEW x \in Int
    PROVE  x \div n \in Int /\ x % n \in 0 .. n - 1 /\ x = n * (x \div n) + (x % n)
OBVIOUS

\* The remainder is the only one.
LEMMA Remainder ==
    ASSUME NEW n \in Nat \ {0}, NEW q \in Int, NEW r \in 0 .. n - 1
    PROVE  (n * q + r) % n = r
<1> DEFINE x == n * q + r
           d == x \div n
           m == x % n
<1>1. x \in Int /\ d \in Int /\ m \in 0 .. n - 1 /\ x = n * d + m
  BY DivMod
<1>2. CASE d > q
  <2>1. n * d >= n * (q + 1)
    BY <1>1, <1>2
  <2> QED BY <1>1, <2>1
<1>3. CASE d < q
  <2>1. n * q >= n * (d + 1)
    BY <1>1, <1>3
  <2> QED BY <1>1, <2>1
<1>4. d = q => m = r
  BY <1>1
<1> QED BY <1>1, <1>2, <1>3, <1>4

\* Numbers less than a ring apart have different places in it, a ring apart the same.
LEMMA Places ==
    ASSUME NEW n \in Nat \ {0}, NEW a \in Nat
    PROVE  /\ (a + n) % n = a % n
           /\ ((a % n) + 1) % n = (a + 1) % n
           /\ \A b \in Nat : a < b /\ b < a + n => a % n # b % n
<1> DEFINE d == a \div n
           m == a % n
<1>1. d \in Int /\ m \in 0 .. n - 1 /\ a = n * d + m
  BY DivMod
<1>2. (a + n) % n = m
  <2>1. d + 1 \in Int /\ n * (d + 1) + m = a + n
    BY <1>1
  <2>2. (n * (d + 1) + m) % n = m
    BY <1>1, <2>1, Remainder
  <2> QED BY <2>1, <2>2
<1>3. (m + 1) % n = (a + 1) % n
  <2>1. CASE m + 1 < n
    <3>1. m + 1 \in 0 .. n - 1 /\ n * d + (m + 1) = a + 1
      BY <1>1, <2>1
    <3>2. (n * d + (m + 1)) % n = m + 1
      BY <1>1, <3>1, Remainder
    <3>3. (m + 1) % n = m + 1
      BY <3>1
    <3> QED BY <3>1, <3>2, <3>3
  <2>2. CASE ~(m + 1 < n)
    <3>1. m + 1 = n /\ 0 \in 0 .. n - 1 /\ d + 1 \in Int /\ n * (d + 1) + 0 = a + 1
      BY <1>1, <2>2
    <3>2. (n * (d + 1) + 0) % n = 0
      BY <3>1, Remainder
    <3>3. 0 + n \in Nat /\ n * 1 + 0 = n /\ (n * 1 + 0) % n = 0
      BY <3>1, Remainder
    <3> QED BY <3>1, <3>2, <3>3
  <2> QED BY <2>1, <2>2
<1>4. ASSUME NEW b \in Nat, a < b, b < a + n, b % n = m
      PROVE  FALSE
  <2> DEFINE e == b \div n
  <2>1. e \in Int /\ b = n * e + m
    BY <1>4, DivMod
  <2>2. CASE e > d
    <3>1. n * e >= n * (d + 1)
      BY <1>1, <2>1, <2>2
    <3> QED BY <1>1, <1>4, <2>1, <3>1
  <2>3. CASE e < d
    <3>1. n * d >= n * (e + 1)
      BY <1>1, <2>1, <2>3
    <3> QED BY <1>1, <1>4, <2>1, <3>1
  <2> QED BY <1>1, <1>4, <2>1, <2>2, <2>3
<1> QED BY <1>2, <1>3, <1>4

LEMMA TxSlots ==
    ASSUME NEW f \in Nat \ {0}
    PROVE  /\ TxSlot(f) \in 0 .. ETH_TXBD_NUM - 1 /\ TxSlot(f) \in Nat /\ TxSlot(1) = 0
           /\ (TxSlot(f) + 1) % ETH_TXBD_NUM = TxSlot(f + 1)
           /\ TxSlot(f + ETH_TXBD_NUM) = TxSlot(f)
           /\ \A g \in Nat : f < g /\ g < f + ETH_TXBD_NUM => TxSlot(f) # TxSlot(g)
<1> DEFINE a == f - 1
           n == ETH_TXBD_NUM
<1>1. a \in Nat /\ n \in Nat \ {0} /\ f = a + 1 /\ f + n - 1 = a + n
  BY RingNumbers
<1>2. /\ (a + n) % n = a % n /\ ((a % n) + 1) % n = (a + 1) % n
      /\ \A b \in Nat : a < b /\ b < a + n => a % n # b % n
  BY <1>1, Places
<1>3. a % n \in 0 .. n - 1 /\ 0 % n = 0
  BY <1>1, DivMod
<1>4. ASSUME NEW g \in Nat, f < g, g < f + n
      PROVE  TxSlot(f) # TxSlot(g)
  <2>1. g - 1 \in Nat /\ a < g - 1 /\ g - 1 < a + n
    BY <1>1, <1>4
  <2>2. a % n # (g - 1) % n
    BY <1>2, <2>1
  <2> QED BY <2>2 DEF TxSlot
<1>5. TxSlot(f) = a % n /\ TxSlot(f + n) = (a + n) % n /\ TxSlot(f + 1) = (a + 1) % n /\ TxSlot(1) = 0 % n
  <2>1. f + 1 - 1 = a + 1 /\ 1 - 1 = 0
    BY <1>1
  <2> QED BY <1>1, <2>1 DEF TxSlot
<1>6. \A i \in 0 .. n - 1 : i \in Nat
  BY <1>1
<1> HIDE DEF a
<1> QED BY <1>2, <1>3, <1>4, <1>5, <1>6

LEMMA RxSlots ==
    ASSUME NEW f \in Nat \ {0}
    PROVE  /\ RxSlot(f) \in 0 .. ETH_RXBD_NUM - 1 /\ RxSlot(f) \in Nat /\ RxSlot(1) = 0
           /\ (RxSlot(f) + 1) % ETH_RXBD_NUM = RxSlot(f + 1)
           /\ RxSlot(f + ETH_RXBD_NUM) = RxSlot(f)
           /\ \A g \in Nat : f < g /\ g < f + ETH_RXBD_NUM => RxSlot(f) # RxSlot(g)
<1> DEFINE a == f - 1
           n == ETH_RXBD_NUM
<1>1. a \in Nat /\ n \in Nat \ {0} /\ f = a + 1 /\ f + n - 1 = a + n
  BY RingNumbers
<1>2. /\ (a + n) % n = a % n /\ ((a % n) + 1) % n = (a + 1) % n
      /\ \A b \in Nat : a < b /\ b < a + n => a % n # b % n
  BY <1>1, Places
<1>3. a % n \in 0 .. n - 1 /\ 0 % n = 0
  BY <1>1, DivMod
<1>4. ASSUME NEW g \in Nat, f < g, g < f + n
      PROVE  RxSlot(f) # RxSlot(g)
  <2>1. g - 1 \in Nat /\ a < g - 1 /\ g - 1 < a + n
    BY <1>1, <1>4
  <2>2. a % n # (g - 1) % n
    BY <1>2, <2>1
  <2> QED BY <2>2 DEF RxSlot
<1>5. RxSlot(f) = a % n /\ RxSlot(f + n) = (a + n) % n /\ RxSlot(f + 1) = (a + 1) % n /\ RxSlot(1) = 0 % n
  <2>1. f + 1 - 1 = a + 1 /\ 1 - 1 = 0
    BY <1>1
  <2> QED BY <1>1, <2>1 DEF RxSlot
<1>6. \A i \in 0 .. n - 1 : i \in Nat
  BY <1>1
<1> HIDE DEF a
<1> QED BY <1>2, <1>3, <1>4, <1>5, <1>6

-----------------------------------------------------------------------------
(* The rings: types                                                         *)

LEMMA RingFields ==
    ASSUME RingTypeOK
    PROVE  /\ tx_bd \in [0 .. ETH_TXBD_NUM - 1 -> [ready : BOOLEAN, addr : 0 .. Null]]
           /\ rx_bd \in [0 .. ETH_RXBD_NUM - 1 -> [empty : BOOLEAN, bad : BOOLEAN, frame : Nat]]
           /\ buf \in [0 .. Null -> Nat]
           /\ tx_next \in 0 .. ETH_TXBD_NUM - 1 /\ tx_last \in 0 .. ETH_TXBD_NUM - 1
           /\ rx_next \in 0 .. ETH_RXBD_NUM - 1
           /\ mac.tx \in 0 .. ETH_TXBD_NUM - 1 /\ mac.rx \in 0 .. ETH_RXBD_NUM - 1
           /\ mac.on \in BOOLEAN
           /\ ethLog.given \in Nat /\ ethLog.wire \in Seq(Nat) /\ ethLog.arrived \in Seq(BOOLEAN)
           /\ ethLog.got \in Seq(Nat) /\ ethLog.full \in BOOLEAN
           /\ Len(ethLog.wire) \in Nat /\ Len(ethLog.arrived) \in Nat /\ Len(ethLog.got) \in Nat
<1>1. /\ ethLog.given \in Nat /\ ethLog.wire \in Seq(Nat) /\ ethLog.arrived \in Seq(BOOLEAN)
      /\ ethLog.got \in Seq(Nat) /\ ethLog.full \in BOOLEAN
  BY DEF RingTypeOK, EthLogs
<1>2. Len(ethLog.wire) \in Nat /\ Len(ethLog.arrived) \in Nat /\ Len(ethLog.got) \in Nat
  BY <1>1
<1>3. mac.tx \in 0 .. ETH_TXBD_NUM - 1 /\ mac.rx \in 0 .. ETH_RXBD_NUM - 1 /\ mac.on \in BOOLEAN
  BY DEF RingTypeOK, Macs
<1>4. tx_next \in 0 .. ETH_TXBD_NUM - 1 /\ tx_last \in 0 .. ETH_TXBD_NUM - 1 /\ rx_next \in 0 .. ETH_RXBD_NUM - 1
  BY DEF RingTypeOK
<1> QED BY <1>1, <1>2, <1>3, <1>4 DEF RingTypeOK

LEMMA Wraps ==
    ASSUME NEW n \in Nat \ {0}, NEW i \in 0 .. n - 1
    PROVE  (i + 1) % n \in 0 .. n - 1
<1>1. i + 1 \in Int
  OBVIOUS
<1> QED BY <1>1, DivMod

\* The rings as they start.
LEMMA Pools ==
    /\ init_tx_bd_pool \in [0 .. ETH_TXBD_NUM - 1 -> [ready : BOOLEAN, addr : 0 .. Null]]
    /\ init_rx_bd_pool \in [0 .. ETH_RXBD_NUM - 1 -> [empty : BOOLEAN, bad : BOOLEAN, frame : Nat]]
    /\ \A i \in 0 .. ETH_TXBD_NUM - 1 : init_tx_bd_pool[i].addr = i /\ ~init_tx_bd_pool[i].ready
    /\ \A i \in 0 .. ETH_RXBD_NUM - 1 : init_rx_bd_pool[i].empty
<1>1. \A i \in 0 .. ETH_TXBD_NUM - 1 : i \in 0 .. Null
  BY RingNumbers
<1> QED BY <1>1, RingNumbers DEF init_tx_bd_pool, init_rx_bd_pool

LEMMA RingInitType == RingInit => RingTypeOK
<1> SUFFICES ASSUME RingInit PROVE RingTypeOK
  OBVIOUS
<1>1. buf \in [0 .. Null -> Nat]
  BY RingNumbers DEF RingInit
<1>2. {tx_next, tx_last} \subseteq 0 .. ETH_TXBD_NUM - 1 /\ rx_next \in 0 .. ETH_RXBD_NUM - 1
  BY RingNumbers DEF RingInit
<1>3. mac \in Macs
  BY RingNumbers DEF RingInit, Macs
<1>4. ethLog \in EthLogs
  BY DEF RingInit, EthLogs
<1> QED BY <1>1, <1>2, <1>3, <1>4, Pools DEF RingInit, RingTypeOK

LEMMA SendPacketType ==
    ASSUME RingTypeOK, SendPacket
    PROVE  RingTypeOK'
<1>0. ethLog.given + 1 \in Nat
  <2>1. ethLog.given \in Nat
    BY RingFields
  <2> QED BY <2>1
<1> USE RingFields
<1>1. eth_get_tx_buf \in 0 .. Null
  <2>1. Null \in 0 .. Null /\ tx_bd[tx_next].addr \in 0 .. Null
    BY RingNumbers
  <2> QED BY <2>1 DEF eth_get_tx_buf
<1>2. buf' \in [0 .. Null -> Nat]
  <2>1. buf' = [buf EXCEPT ![eth_get_tx_buf] = ethLog.given + 1]
    BY DEF SendPacket
  <2> QED BY <1>0, <1>1, <2>1
<1>3. tx_bd' \in [0 .. ETH_TXBD_NUM - 1 -> [ready : BOOLEAN, addr : 0 .. Null]]
  BY <1>1 DEF SendPacket
<1>4. (tx_next + 1) % ETH_TXBD_NUM \in 0 .. ETH_TXBD_NUM - 1 /\ (tx_last + 1) % ETH_TXBD_NUM \in 0 .. ETH_TXBD_NUM - 1
  BY RingNumbers, Wraps
<1>5. {tx_next', tx_last'} \subseteq 0 .. ETH_TXBD_NUM - 1
  BY <1>4 DEF SendPacket
<1>6. ethLog' \in EthLogs
  <2>1. NoBuffer \in BOOLEAN
    BY DEF NoBuffer, RingTypeOK
  <2>2. (ethLog.full \/ NoBuffer) \in BOOLEAN
    OBVIOUS
  <2>3. ethLog' = [ethLog EXCEPT !.given = ethLog.given + 1, !.full = ethLog.full \/ NoBuffer]
    BY DEF SendPacket
  <2> QED BY <1>0, <2>3, <2>2 DEF RingTypeOK, EthLogs
<1> QED BY <1>2, <1>3, <1>5, <1>6 DEF SendPacket, RingTypeOK

LEMMA eth_rxType ==
    ASSUME RingTypeOK, eth_rx
    PROVE  RingTypeOK'
<1> USE RingFields
<1>1. rx_bd' \in [0 .. ETH_RXBD_NUM - 1 -> [empty : BOOLEAN, bad : BOOLEAN, frame : Nat]]
  BY DEF eth_rx, Advance
<1>2. rx_next' \in 0 .. ETH_RXBD_NUM - 1
  BY RingNumbers, Wraps DEF eth_rx
<1>3. ethLog' \in EthLogs
  <2>1. rx_bd[rx_next].frame \in Nat
    OBVIOUS
  <2>2. Append(ethLog.got, rx_bd[rx_next].frame) \in Seq(Nat)
    BY <2>1
  <2> QED BY <2>2 DEF eth_rx, RingTypeOK, EthLogs
<1> QED BY <1>1, <1>2, <1>3 DEF eth_rx, RingTypeOK

LEMMA MacSendsType ==
    ASSUME RingTypeOK, MacSends
    PROVE  RingTypeOK'
<1> USE RingFields
<1>1. tx_bd' \in [0 .. ETH_TXBD_NUM - 1 -> [ready : BOOLEAN, addr : 0 .. Null]]
  BY DEF MacSends
<1>2. mac' \in Macs
  <2>1. (mac.tx + 1) % ETH_TXBD_NUM \in 0 .. ETH_TXBD_NUM - 1
    BY RingNumbers, Wraps
  <2> QED BY <2>1 DEF MacSends, RingTypeOK, Macs
<1>3. ethLog' \in EthLogs
  <2>1. buf[tx_bd[mac.tx].addr] \in Nat
    <3>1. tx_bd[mac.tx].addr \in 0 .. Null
      OBVIOUS
    <3> QED BY <3>1
  <2>2. Append(ethLog.wire, buf[tx_bd[mac.tx].addr]) \in Seq(Nat)
    BY <2>1
  <2> QED BY <2>2 DEF MacSends, RingTypeOK, EthLogs
<1> QED BY <1>1, <1>2, <1>3 DEF MacSends, RingTypeOK

LEMMA MacReceivesType ==
    ASSUME RingTypeOK, NEW bad \in BOOLEAN, MacReceives(bad)
    PROVE  RingTypeOK'
<1> USE RingFields
<1>1. rx_bd' \in [0 .. ETH_RXBD_NUM - 1 -> [empty : BOOLEAN, bad : BOOLEAN, frame : Nat]]
  <2>0. \A m \in Nat : [empty |-> FALSE, bad |-> bad, frame |-> m + 1] \in [empty : BOOLEAN, bad : BOOLEAN, frame : Nat]
    OBVIOUS
  <2>1. [empty |-> FALSE, bad |-> bad, frame |-> Len(ethLog.arrived) + 1] \in [empty : BOOLEAN, bad : BOOLEAN, frame : Nat]
    BY <2>0, RingFields
  <2>2. rx_bd' = [rx_bd EXCEPT ![mac.rx] = [empty |-> FALSE, bad |-> bad, frame |-> Len(ethLog.arrived) + 1]]
    BY DEF MacReceives
  <2> QED BY <2>1, <2>2
<1>2. mac' \in Macs
  <2>1. (mac.rx + 1) % ETH_RXBD_NUM \in 0 .. ETH_RXBD_NUM - 1
    BY RingNumbers, Wraps
  <2> QED BY <2>1 DEF MacReceives, RingTypeOK, Macs
<1>3. ethLog' \in EthLogs
  <2>1. Append(ethLog.arrived, bad) \in Seq(BOOLEAN)
    OBVIOUS
  <2>2. ethLog' = [ethLog EXCEPT !.arrived = Append(ethLog.arrived, bad)]
    BY DEF MacReceives
  <2> QED BY <2>1, <2>2 DEF RingTypeOK, EthLogs
<1> QED BY <1>1, <1>2, <1>3 DEF MacReceives, RingTypeOK

LEMMA RingTypeStep ==
    ASSUME RingTypeOK, [RingNext]_ringVars
    PROVE  RingTypeOK'
<1>1. CASE EthInit
  <2>1. 0 \in 0 .. ETH_TXBD_NUM - 1 /\ 0 \in 0 .. ETH_RXBD_NUM - 1
    BY RingNumbers
  <2>2. mac' \in Macs
    BY <1>1, <2>1 DEF EthInit, RingTypeOK, Macs
  <2>3. ethLog' \in EthLogs
    <3>1. <<>> \in Seq(Nat) /\ <<>> \in Seq(BOOLEAN) /\ ethLog.inits + 1 \in Nat
      BY DEF RingTypeOK, EthLogs
    <3>2. ethLog' = [ethLog EXCEPT !.inits = ethLog.inits + 1, !.given = 0, !.wire = <<>>, !.arrived = <<>>,
                                   !.got = <<>>, !.full = FALSE]
      BY <1>1 DEF EthInit
    <3> QED BY <3>1, <3>2 DEF RingTypeOK, EthLogs
  <2> QED BY <1>1, <2>2, <2>3 DEF EthInit, RingTypeOK
<1>2. CASE Enabled
  <2>1. 0 \in 0 .. ETH_TXBD_NUM - 1 /\ 0 \in 0 .. ETH_RXBD_NUM - 1
    BY RingNumbers
  <2> QED BY <1>2, <2>1, Pools DEF Enabled, RxStart, RingTypeOK, Macs
<1>3. CASE EthHalt
  BY <1>3 DEF EthHalt, RingTypeOK, Macs
<1>4. CASE LinkChanges
  BY <1>4 DEF LinkChanges, RingTypeOK, Macs
<1>5. CASE UNCHANGED ringVars
  BY <1>5 DEF ringVars, RingTypeOK
<1> QED BY <1>1, <1>2, <1>3, <1>4, <1>5, SendPacketType, eth_rxType, MacSendsType, MacReceivesType
        DEF RingNext

-----------------------------------------------------------------------------
(* The rings: sending                                                       *)

\* As long as the ring was never full, the driver's place is free exactly when it has room.
LEMMA RoomForOne ==
    ASSUME RingTypeOK, SendRing, ethPc = "idle", ~ethLog.full, ~NoBuffer
    PROVE  ethLog.given < Len(ethLog.wire) + ETH_TXBD_NUM
<1> DEFINE w == Len(ethLog.wire)
<1>1. w \in Nat /\ ethLog.given \in Nat /\ ETH_TXBD_NUM \in Nat \ {0} /\ w + 1 \in Nat \ {0}
  <2>1. w \in Nat /\ ethLog.given \in Nat
    BY RingFields
  <2> QED BY <2>1, RingNumbers
<1>2. ethLog.given <= w + ETH_TXBD_NUM /\ tx_next = TxSlot(ethLog.given + 1)
  BY DEF SendRing
<1>3. ASSUME ethLog.given = w + ETH_TXBD_NUM
      PROVE  FALSE
  <2>1. TxSlot(w + 1 + ETH_TXBD_NUM) = TxSlot(w + 1) /\ TxSlot(w + 1) \in 0 .. ETH_TXBD_NUM - 1
    BY <1>1, TxSlots
  <2>2. w + 1 + ETH_TXBD_NUM = ethLog.given + 1
    BY <1>1, <1>3
  <2>3. tx_next = TxSlot(w + 1) /\ tx_next \in 0 .. ETH_TXBD_NUM - 1
    BY <1>2, <2>1, <2>2
  <2>4. w + 1 \in Unsent
    BY <1>1, <1>3 DEF Unsent
  <2>5. tx_bd[tx_next].ready
    BY <2>3, <2>4 DEF SendRing
  <2> QED BY <2>5 DEF NoBuffer
<1> QED BY <1>1, <1>2, <1>3

LEMMA SendPacketOrder ==
    ASSUME RingInv, SendPacket, ethLog'.full = FALSE
    PROVE  SendRing' /\ RingInOrder'
<1> DEFINE w == Len(ethLog.wire)
           g == ethLog.given
           n == ETH_TXBD_NUM
<1>1. /\ RingTypeOK /\ SendRing /\ RingInOrder /\ ethPc = "idle" /\ ethPc' = "idle"
      /\ ethLog' = [ethLog EXCEPT !.given = g + 1, !.full = ethLog.full \/ NoBuffer]
      /\ mac' = mac
  BY DEF RingInv, SendPacket
<1>2. ~ethLog.full /\ ~NoBuffer
  <2>1. ethLog'.full = (ethLog.full \/ NoBuffer)
    BY <1>1 DEF RingTypeOK, EthLogs
  <2> QED BY <2>1
<1>3. w \in Nat /\ g \in Nat /\ n \in Nat \ {0} /\ g + 1 \in Nat \ {0} /\ g < w + n /\ w <= g
  <2>1. g < w + n
    BY <1>1, <1>2, RoomForOne
  <2>2. w <= g
    BY <1>1, <1>2 DEF SendRing
  <2>3. w \in Nat /\ g \in Nat
    BY <1>1, RingFields
  <2> QED BY <2>1, <2>2, <2>3, RingNumbers
<1>4. /\ tx_next = TxSlot(g + 1) /\ tx_last = tx_next /\ ~tx_full /\ mac.tx = TxSlot(w + 1)
      /\ tx_next \in 0 .. n - 1
      /\ \A i \in 0 .. n - 1 : tx_bd[i].addr = i /\ (tx_bd[i].ready <=> \E f \in Unsent : TxSlot(f) = i)
      /\ \A i \in DOMAIN ethLog.wire : ethLog.wire[i] = i
      /\ \A f \in Unsent : tx_bd[TxSlot(f)].ready /\ buf[tx_bd[TxSlot(f)].addr] = f
  BY <1>1, <1>2, RingFields DEF SendRing, RingInOrder
<1>5. eth_get_tx_buf = tx_next /\ tx_next \in 0 .. Null
  <2>1. eth_get_tx_buf = tx_next
    BY <1>2, <1>4 DEF eth_get_tx_buf
  <2> QED BY <1>3, <1>4, <2>1, RingNumbers
<1>6. /\ buf' = [buf EXCEPT ![tx_next] = g + 1]
      /\ tx_bd' = [tx_bd EXCEPT ![tx_next] = [ready |-> TRUE, addr |-> tx_next]]
      /\ tx_next' = (tx_next + 1) % n /\ tx_last' = (tx_next + 1) % n /\ tx_full' = FALSE
  BY <1>2, <1>4, <1>5 DEF SendPacket
<1>7. /\ ethLog'.given = g + 1 /\ ethLog'.wire = ethLog.wire /\ Unsent' = w + 1 .. g + 1
      /\ g + 1 \in Unsent' /\ Unsent = w + 1 .. g /\ Unsent' = Unsent \cup {g + 1}
  <2>1. ethLog'.given = g + 1 /\ ethLog'.wire = ethLog.wire
    BY <1>1 DEF RingTypeOK, EthLogs
  <2>2. Unsent' = w + 1 .. g + 1 /\ Unsent = w + 1 .. g
    BY <2>1 DEF Unsent
  <2> QED BY <1>3, <2>1, <2>2
<1>8. ASSUME NEW f \in Unsent
      PROVE  TxSlot(f) # tx_next /\ TxSlot(f) \in 0 .. n - 1
  <2>1. f \in Nat \ {0} /\ f < g + 1 /\ g + 1 < f + n
    BY <1>3, <1>7
  <2> QED BY <1>3, <1>4, <2>1, TxSlots
<1>9. /\ tx_bd \in [0 .. n - 1 -> [ready : BOOLEAN, addr : 0 .. Null]] /\ buf \in [0 .. Null -> Nat]
  BY <1>1, RingFields
<1>10. ASSUME NEW i \in 0 .. n - 1
       PROVE  tx_bd'[i].addr = i /\ (tx_bd'[i].ready <=> \E f \in Unsent' : TxSlot(f) = i)
  <2>1. CASE i = tx_next
    <3>1. tx_bd'[i].addr = i /\ tx_bd'[i].ready
      BY <1>4, <1>6, <1>9, <2>1
    <3>2. TxSlot(g + 1) = i
      BY <1>4, <2>1
    <3> QED BY <1>7, <3>1, <3>2
  <2>2. CASE i # tx_next
    <3>1. tx_bd'[i] = tx_bd[i]
      BY <1>6, <1>9, <2>2
    <3>2. (\E f \in Unsent' : TxSlot(f) = i) <=> (\E f \in Unsent : TxSlot(f) = i)
      BY <1>4, <1>7, <2>2
    <3> QED BY <1>4, <3>1, <3>2
  <2> QED BY <2>1, <2>2
<1>11. SendRing'
  <2>1. (tx_next + 1) % n = TxSlot(g + 1 + 1)
    BY <1>3, <1>4, TxSlots
  <2>2. w <= g + 1 /\ g + 1 <= w + n
    BY <1>3
  <2> QED BY <1>1, <1>4, <1>6, <1>7, <1>10, <2>1, <2>2 DEF SendRing, TxSlot
<1>12. ASSUME NEW f \in Unsent'
       PROVE  tx_bd'[TxSlot(f)].ready /\ buf'[tx_bd'[TxSlot(f)].addr] = f
  <2>1. CASE f = g + 1
    <3>1. TxSlot(f) = tx_next
      BY <1>4, <2>1
    <3>2. tx_bd'[tx_next].ready /\ tx_bd'[tx_next].addr = tx_next
      BY <1>4, <1>6, <1>9
    <3>3. buf'[tx_next] = g + 1
      BY <1>5, <1>6, <1>9
    <3> QED BY <2>1, <3>1, <3>2, <3>3
  <2>2. CASE f \in Unsent
    <3>1. TxSlot(f) # tx_next /\ TxSlot(f) \in 0 .. n - 1
      BY <1>8, <2>2
    <3>2. tx_bd'[TxSlot(f)] = tx_bd[TxSlot(f)] /\ tx_bd[TxSlot(f)].addr = TxSlot(f)
      BY <1>4, <1>6, <1>9, <3>1
    <3>3. TxSlot(f) \in 0 .. Null
      BY <1>3, <3>1, RingNumbers
    <3>4. buf'[TxSlot(f)] = buf[TxSlot(f)]
      BY <1>6, <1>9, <3>1, <3>3
    <3> QED BY <1>4, <2>2, <3>2, <3>4
  <2> QED BY <1>7, <2>1, <2>2
<1> QED BY <1>4, <1>7, <1>11, <1>12 DEF RingInOrder, TxSlot

LEMMA MacSendsOrder ==
    ASSUME RingInv, MacSends, ethPc = "idle", ~ethLog.full
    PROVE  SendRing' /\ RingInOrder'
<1> DEFINE w == Len(ethLog.wire)
           g == ethLog.given
           n == ETH_TXBD_NUM
<1>1. /\ RingTypeOK /\ SendRing /\ RingInOrder /\ ethPc' = "idle"
      /\ ethLog' = [ethLog EXCEPT !.wire = Append(ethLog.wire, buf[tx_bd[mac.tx].addr])]
      /\ tx_bd' = [tx_bd EXCEPT ![mac.tx].ready = FALSE]
      /\ mac' = [mac EXCEPT !.tx = (mac.tx + 1) % n]
      /\ UNCHANGED <<buf, tx_next, tx_last, tx_full>> /\ tx_bd[mac.tx].ready
  BY DEF RingInv, MacSends
<1>2. /\ w \in Nat /\ g \in Nat /\ n \in Nat \ {0} /\ w + 1 \in Nat \ {0} /\ mac.tx \in 0 .. n - 1
      /\ tx_bd \in [0 .. n - 1 -> [ready : BOOLEAN, addr : 0 .. Null]] /\ ethLog.wire \in Seq(Nat)
      /\ buf \in [0 .. Null -> Nat] /\ ethLog.full \in BOOLEAN
  <2>1. w \in Nat /\ g \in Nat
    BY <1>1, RingFields
  <2>2. n \in Nat \ {0} /\ w + 1 \in Nat \ {0}
    BY <2>1, RingNumbers
  <2> QED BY <1>1, <2>1, <2>2, RingFields
<1>3. /\ tx_next = TxSlot(g + 1) /\ tx_last = tx_next /\ ~tx_full /\ mac.tx = TxSlot(w + 1)
      /\ w <= g /\ g <= w + n
      /\ \A i \in 0 .. n - 1 : tx_bd[i].addr = i /\ (tx_bd[i].ready <=> \E f \in Unsent : TxSlot(f) = i)
      /\ \A i \in DOMAIN ethLog.wire : ethLog.wire[i] = i
      /\ \A f \in Unsent : tx_bd[TxSlot(f)].ready /\ buf[tx_bd[TxSlot(f)].addr] = f
  BY <1>1 DEF SendRing, RingInOrder
<1>4. Unsent = w + 1 .. g
  BY DEF Unsent
<1>5. ASSUME NEW f \in Unsent, f # w + 1
      PROVE  TxSlot(f) # TxSlot(w + 1)
  <2>1. w \in Nat /\ g \in Nat /\ n \in Nat /\ g <= w + n
    BY <1>2, <1>3
  <2>2. f \in w + 1 .. g /\ f # w + 1
    BY <1>4, <1>5
  <2>3. f \in Nat /\ w + 1 < f /\ f < w + 1 + n
    BY <2>1, <2>2
  <2> QED BY <1>2, <2>3, TxSlots
<1>6. w + 1 \in Unsent
  <2>1. PICK f \in Unsent : TxSlot(f) = TxSlot(w + 1)
    BY <1>1, <1>2, <1>3
  <2> QED BY <1>5, <2>1
<1>7. buf[tx_bd[mac.tx].addr] = w + 1 /\ w + 1 <= g
  BY <1>2, <1>3, <1>4, <1>6
<1>8. /\ ethLog'.wire = Append(ethLog.wire, w + 1) /\ Len(ethLog'.wire) = w + 1
      /\ ethLog'.given = g /\ ethLog'.full = ethLog.full
      /\ Unsent' = w + 2 .. g /\ Unsent = Unsent' \cup {w + 1} /\ w + 1 \notin Unsent'
  <2>1. ethLog'.wire = Append(ethLog.wire, w + 1) /\ ethLog'.given = g /\ ethLog'.full = ethLog.full
    BY <1>1, <1>7 DEF RingTypeOK, EthLogs
  <2>2. Len(ethLog'.wire) = w + 1
    BY <1>2, <2>1
  <2>3. Unsent' = w + 2 .. g
    BY <1>2, <2>1, <2>2 DEF Unsent
  <2> QED BY <1>2, <1>4, <1>7, <2>1, <2>2, <2>3
<1>9. mac'.tx = TxSlot(w + 1 + 1)
  <2>1. mac'.tx = (mac.tx + 1) % n
    BY <1>1 DEF RingTypeOK, Macs
  <2> QED BY <1>2, <1>3, <2>1, TxSlots
<1>10. /\ \A i \in 0 .. n - 1 : i # mac.tx => tx_bd'[i] = tx_bd[i]
       /\ ~tx_bd'[mac.tx].ready /\ tx_bd'[mac.tx].addr = tx_bd[mac.tx].addr
  BY <1>1, <1>2
<1>11. ASSUME NEW i \in 0 .. n - 1
       PROVE  tx_bd'[i].addr = i /\ (tx_bd'[i].ready <=> \E f \in Unsent' : TxSlot(f) = i)
  <2>1. CASE i = mac.tx
    BY <1>3, <1>5, <1>8, <1>10, <2>1
  <2>2. CASE i # mac.tx
    BY <1>3, <1>8, <1>10, <2>2
  <2> QED BY <2>1, <2>2
<1>12. SendRing'
  <2>1. w + 1 <= g /\ g <= w + 1 + n
    BY <1>2, <1>3, <1>7
  <2> QED BY <1>1, <1>3, <1>8, <1>9, <1>11, <2>1 DEF SendRing, TxSlot
<1>13. ASSUME NEW f \in Unsent'
       PROVE  tx_bd'[TxSlot(f)].ready /\ buf'[tx_bd'[TxSlot(f)].addr] = f
  <2>1. f \in Unsent /\ TxSlot(f) # mac.tx
    BY <1>3, <1>5, <1>8
  <2>2. TxSlot(f) \in 0 .. n - 1
    <3>1. f \in Nat \ {0}
      BY <1>2, <1>8
    <3> QED BY <3>1, TxSlots
  <2>3. tx_bd'[TxSlot(f)] = tx_bd[TxSlot(f)]
    BY <1>10, <2>1, <2>2
  <2> QED BY <1>1, <1>3, <2>1, <2>3
<1>14. ASSUME NEW i \in DOMAIN ethLog'.wire
       PROVE  ethLog'.wire[i] = i
  <2>1. DOMAIN ethLog.wire = 1 .. w /\ DOMAIN ethLog'.wire = 1 .. w + 1 /\ 1 .. w + 1 = (1 .. w) \cup {w + 1}
    <3>1. w \in Nat /\ w + 1 \in Nat /\ ethLog.wire \in Seq(Nat)
      BY <1>2
    <3>2. 1 .. w + 1 = (1 .. w) \cup {w + 1}
      BY <3>1
    <3>3. DOMAIN ethLog.wire = 1 .. w
      BY <3>1
    <3>4. ethLog'.wire \in Seq(Nat) /\ Len(ethLog'.wire) = w + 1
      BY <1>8, <3>1
    <3>5. DOMAIN ethLog'.wire = 1 .. w + 1
      BY <3>4
    <3> QED BY <3>2, <3>3, <3>5
  <2>2. CASE i = w + 1
    BY <1>2, <1>8, <2>2
  <2>3. CASE i \in 1 .. w
    BY <1>2, <1>3, <1>8, <2>1, <2>3
  <2> QED BY <2>1, <2>2, <2>3
<1> QED BY <1>8, <1>12, <1>13, <1>14 DEF RingInOrder, TxSlot

LEMMA SendStep ==
    ASSUME RingInv, RingTypeOK', [RingNext]_ringVars
    PROVE  SendRing' /\ RingInOrder'
<1>1. CASE EthInit
  BY <1>1 DEF EthInit, SendRing, RingInOrder
<1>2. CASE Enabled
  <2>1. /\ ethLog'.given = 0 /\ ethLog'.wire = <<>> /\ ethLog.wire = <<>> /\ Unsent' = {}
    BY <1>2 DEF Enabled, RingInv, Stopped, Unsent
  <2>2. tx_next' = 0 /\ tx_last' = 0 /\ ~tx_full' /\ mac'.tx = 0 /\ tx_bd' = init_tx_bd_pool
    BY <1>2 DEF Enabled, RingInv, Stopped, RingTypeOK, Macs
  <2>3. TxSlot(0 + 1) = 0 /\ Len(ethLog'.wire) = 0
    BY <2>1, TxSlots
  <2>4. ETH_TXBD_NUM \in Nat
    BY RingNumbers
  <2>5. \A i \in 0 .. ETH_TXBD_NUM - 1 :
            tx_bd'[i].addr = i /\ (tx_bd'[i].ready <=> \E f \in Unsent' : TxSlot(f) = i)
    BY <2>1, <2>2, Pools
  <2>6. SendRing'
    BY <2>1, <2>2, <2>3, <2>4, <2>5 DEF SendRing, TxSlot
  <2> QED BY <2>1, <2>6 DEF RingInOrder
<1>3. CASE EthHalt
  BY <1>3 DEF EthHalt, SendRing, RingInOrder
<1>4. CASE SendPacket
  <2>1. ethLog'.full \in BOOLEAN
    BY DEF RingTypeOK, EthLogs
  <2>2. CASE ethLog'.full = TRUE
    BY <2>2 DEF SendRing, RingInOrder
  <2> QED BY <1>4, <2>1, <2>2, SendPacketOrder
<1>5. CASE eth_rx
  <2>1. ethLog'.given = ethLog.given /\ ethLog'.wire = ethLog.wire /\ ethLog'.full = ethLog.full
    BY <1>5 DEF eth_rx, RingInv, RingTypeOK, EthLogs
  <2> QED BY <1>5, <2>1 DEF eth_rx, RingInv, SendRing, RingInOrder, Unsent, TxSlot
<1>6. CASE LinkChanges
  <2>1. mac'.tx = mac.tx
    BY <1>6 DEF LinkChanges, RingInv, RingTypeOK, Macs
  <2> QED BY <1>6, <2>1 DEF LinkChanges, RingInv, SendRing, RingInOrder, Unsent, TxSlot
<1>7. CASE MacSends
  <2>1. ethPc = "idle" /\ ethPc' = ethPc /\ ethLog'.full = ethLog.full
    BY <1>7 DEF MacSends, RingInv, Stopped, RingTypeOK, EthLogs
  <2>2. CASE ethLog.full
    BY <2>1, <2>2 DEF SendRing, RingInOrder
  <2> QED BY <1>7, <2>1, <2>2, MacSendsOrder
<1>8. ASSUME NEW bad \in BOOLEAN, MacReceives(bad)
      PROVE  SendRing' /\ RingInOrder'
  <2>1. /\ mac'.tx = mac.tx /\ ethLog'.given = ethLog.given /\ ethLog'.wire = ethLog.wire
        /\ ethLog'.full = ethLog.full
    BY <1>8 DEF MacReceives, RingInv, RingTypeOK, EthLogs, Macs
  <2> QED BY <1>8, <2>1 DEF MacReceives, RingInv, SendRing, RingInOrder, Unsent, TxSlot
<1>9. CASE UNCHANGED ringVars
  BY <1>9 DEF ringVars, RingInv, SendRing, RingInOrder, Unsent, TxSlot
<1> QED BY <1>1, <1>2, <1>3, <1>4, <1>5, <1>6, <1>7, <1>8, <1>9 DEF RingNext

-----------------------------------------------------------------------------
(* The rings: receiving                                                     *)

\* The frames that wait behind the first n fill the ring from the driver's place on.
LEMMA NextToRead ==
    ASSUME RingTypeOK, NEW n \in 0 .. Len(ethLog.arrived), ReceiveRing(n)
    PROVE  /\ n \in Nat /\ RxSlot(n + 1) = rx_next
           /\ \A f \in Held(n) : /\ f \in Nat \ {0} /\ RxSlot(f) \in 0 .. ETH_RXBD_NUM - 1
                                 /\ f # n + 1 => RxSlot(f) # rx_next
           /\ rx_bd[rx_next].empty <=> n + 1 \notin Held(n)
           /\ rx_bd[rx_next].empty <=> Held(n) = {}
<1> DEFINE a == Len(ethLog.arrived)
           N == ETH_RXBD_NUM
<1>1. a \in Nat /\ n \in Nat /\ N \in Nat \ {0} /\ a <= n + N /\ n <= a /\ Held(n) = n + 1 .. a
  <2>1. a \in Nat
    BY RingFields
  <2>2. N \in Nat \ {0} /\ a <= n + N
    BY RingNumbers DEF ReceiveRing
  <2>3. Held(n) = n + 1 .. a
    BY DEF Held
  <2> QED BY <2>1, <2>2, <2>3
<1>2. RxSlot(n + 1) = rx_next /\ rx_next \in 0 .. N - 1
  BY RingFields DEF ReceiveRing
<1>3. ASSUME NEW f \in Held(n)
      PROVE  /\ f \in Nat \ {0} /\ RxSlot(f) \in 0 .. N - 1
             /\ f # n + 1 => RxSlot(f) # rx_next
  <2>1. f \in Nat \ {0} /\ n + 1 \in Nat \ {0} /\ n + 1 <= f /\ f < n + 1 + N
    BY <1>1
  <2>2. RxSlot(f) \in 0 .. N - 1
    BY <2>1, RxSlots
  <2>3. CASE f # n + 1
    <3>1. n + 1 < f
      BY <2>1, <2>3
    <3>2. RxSlot(n + 1) # RxSlot(f)
      BY <2>1, <3>1, RxSlots
    <3> QED BY <1>2, <2>1, <2>2, <3>2
  <2> QED BY <2>1, <2>2, <2>3
<1>4. rx_bd[rx_next].empty <=> ~\E f \in Held(n) : RxSlot(f) = rx_next
  BY <1>2 DEF ReceiveRing
<1>5. (\E f \in Held(n) : RxSlot(f) = rx_next) <=> n + 1 \in Held(n)
  BY <1>2, <1>3
<1>6. Held(n) = {} <=> n + 1 \notin Held(n)
  BY <1>1
<1> QED BY <1>1, <1>2, <1>3, <1>4, <1>5, <1>6

LEMMA eth_rxReceives ==
    ASSUME RingTypeOK, eth_rx, NEW n \in 0 .. Len(ethLog.arrived), Received(n), ReceiveRing(n)
    PROVE  n + 1 \in 0 .. Len(ethLog'.arrived) /\ Received(n + 1)' /\ ReceiveRing(n + 1)'
<1> DEFINE a == Len(ethLog.arrived)
           N == ETH_RXBD_NUM
           bd == rx_bd[rx_next]
<1>1. /\ ~bd.empty /\ rx_bd' = [rx_bd EXCEPT ![rx_next] = Advance(bd)] /\ rx_next' = (rx_next + 1) % N
      /\ ethLog' = [ethLog EXCEPT !.got = IF bd.bad THEN ethLog.got ELSE Append(ethLog.got, bd.frame)]
      /\ mac' = mac
  BY DEF eth_rx
<1>2. a \in Nat /\ n \in Nat /\ N \in Nat \ {0} /\ a <= n + N
  <2>1. a \in Nat
    BY RingFields
  <2> QED BY <2>1, RingNumbers DEF ReceiveRing
<1>3. /\ n + 1 \in Held(n) /\ n + 1 <= a /\ RxSlot(n + 1) = rx_next
      /\ \A f \in Held(n) : RxSlot(f) \in 0 .. N - 1 /\ (f # n + 1 => RxSlot(f) # rx_next)
  <2>1. n + 1 \in Held(n)
    BY <1>1, NextToRead
  <2>2. n + 1 <= a
    BY <1>2, <2>1 DEF Held
  <2>3. RxSlot(n + 1) = rx_next
    BY DEF ReceiveRing
  <2>4. ASSUME NEW f \in Held(n)
        PROVE  RxSlot(f) \in 0 .. N - 1 /\ (f # n + 1 => RxSlot(f) # rx_next)
    BY NextToRead
  <2> QED BY <2>1, <2>2, <2>3, <2>4
<1>4. bd = [empty |-> FALSE, bad |-> ethLog.arrived[n + 1], frame |-> n + 1]
  BY <1>3 DEF Received
<1>5. bd.bad = ethLog.arrived[n + 1] /\ bd.frame = n + 1
  BY <1>4
<1>6. /\ ethLog'.arrived = ethLog.arrived
      /\ ethLog'.got = IF bd.bad THEN ethLog.got ELSE Append(ethLog.got, n + 1)
  BY <1>1, <1>5 DEF RingTypeOK, EthLogs
<1>7. Held(n) = n + 1 .. a /\ Held(n + 1)' = n + 2 .. a /\ Held(n + 1)' = Held(n) \ {n + 1}
  <2>1. Held(n) = n + 1 .. a /\ Held(n + 1)' = n + 1 + 1 .. a
    BY <1>6 DEF Held
  <2>2. n + 1 + 1 = n + 2 /\ n + 2 .. a = (n + 1 .. a) \ {n + 1}
    BY <1>2
  <2> QED BY <2>1, <2>2
<1>8. rx_bd \in [0 .. N - 1 -> [empty : BOOLEAN, bad : BOOLEAN, frame : Nat]] /\ rx_next \in 0 .. N - 1
      /\ ethLog.got \in Seq(Nat) /\ ethLog.arrived \in Seq(BOOLEAN) /\ Len(ethLog.got) \in Nat
  BY RingFields
<1>9. /\ \A i \in 0 .. N - 1 : i # rx_next => rx_bd'[i] = rx_bd[i]
      /\ rx_bd'[rx_next].empty
  <2>1. Advance(bd).empty = TRUE
    BY <1>4 DEF Advance
  <2> QED BY <1>1, <1>8, <2>1
<1>10. ReceiveRing(n + 1)'
  <2>1. rx_next' = RxSlot(n + 1 + 1) /\ mac'.rx = RxSlot(a + 1) /\ a <= n + 1 + N
    <3>1. (RxSlot(n + 1) + 1) % N = RxSlot(n + 1 + 1)
      BY <1>2, RxSlots
    <3>2. mac'.rx = RxSlot(a + 1)
      BY <1>1 DEF ReceiveRing
    <3>3. a <= n + 1 + N
      BY <1>2
    <3> QED BY <1>1, <1>3, <3>1, <3>2, <3>3
  <2>2. ASSUME NEW i \in 0 .. N - 1
        PROVE  rx_bd'[i].empty <=> ~\E f \in Held(n + 1)' : RxSlot(f) = i
    <3>1. CASE i = rx_next
      BY <1>3, <1>7, <1>9, <3>1
    <3>2. CASE i # rx_next
      <4>1. rx_bd'[i].empty <=> ~\E f \in Held(n) : RxSlot(f) = i
        BY <1>9, <3>2 DEF ReceiveRing
      <4> QED BY <1>3, <1>7, <3>2, <4>1
    <3> QED BY <3>1, <3>2
  <2> QED BY <1>6, <2>1, <2>2 DEF ReceiveRing, RxSlot
<1>11. ASSUME NEW f \in Held(n + 1)'
       PROVE  rx_bd'[RxSlot(f)] = [empty |-> FALSE, bad |-> ethLog'.arrived[f], frame |-> f]
  BY <1>3, <1>6, <1>7, <1>9 DEF Received
<1>12. /\ \A i, j \in DOMAIN ethLog.got : i < j => ethLog.got[i] < ethLog.got[j]
       /\ {ethLog.got[i] : i \in DOMAIN ethLog.got} = {f \in 1 .. n : ~ethLog.arrived[f]}
  BY DEF Received
<1>13. 1 .. n + 1 = (1 .. n) \cup {n + 1} /\ n + 1 \notin 1 .. n
  BY <1>2
<1>14. /\ \A i, j \in DOMAIN ethLog'.got : i < j => ethLog'.got[i] < ethLog'.got[j]
       /\ {ethLog'.got[i] : i \in DOMAIN ethLog'.got} = {f \in 1 .. n + 1 : ~ethLog'.arrived[f]}
  <2>1. CASE bd.bad
    BY ZenonT(60), <1>5, <1>6, <1>12, <1>13, <2>1
  <2>2. CASE ~bd.bad
    <3> DEFINE k == Len(ethLog.got)
    <3>1. ethLog'.got = Append(ethLog.got, n + 1) /\ k \in Nat
      BY <1>6, <1>8, <2>2
    <3>2. /\ DOMAIN ethLog.got = 1 .. k /\ DOMAIN ethLog'.got = 1 .. k + 1
          /\ 1 .. k + 1 = (1 .. k) \cup {k + 1} /\ ethLog'.got[k + 1] = n + 1
          /\ \A i \in 1 .. k : ethLog'.got[i] = ethLog.got[i]
      <4>1. n + 1 \in Nat /\ 1 .. k + 1 = (1 .. k) \cup {k + 1}
        BY <1>2, <3>1
      <4>2. Len(ethLog'.got) = k + 1 /\ ethLog'.got \in Seq(Nat)
        BY <1>8, <3>1, <4>1
      <4>3. DOMAIN ethLog.got = 1 .. k /\ DOMAIN ethLog'.got = 1 .. k + 1
        BY <1>8, <4>2
      <4> QED BY <1>8, <3>1, <4>1, <4>3
    <3>3. \A i \in 1 .. k : ethLog.got[i] \in 1 .. n
      BY <1>12, <3>2
    <3>4. {ethLog'.got[i] : i \in DOMAIN ethLog'.got} = {ethLog.got[i] : i \in DOMAIN ethLog.got} \cup {n + 1}
      BY <3>2
    <3>5. {f \in 1 .. n + 1 : ~ethLog'.arrived[f]} = {f \in 1 .. n : ~ethLog.arrived[f]} \cup {n + 1}
      BY <1>5, <1>6, <1>13, <2>2
    <3>6. ASSUME NEW i \in 1 .. k + 1, NEW j \in 1 .. k + 1, i < j
          PROVE  ethLog'.got[i] < ethLog'.got[j]
      <4>1. i \in 1 .. k
        BY <3>1, <3>6
      <4>2. CASE j = k + 1
        <5>1. ethLog.got[i] < n + 1
          BY <1>2, <3>3, <4>1
        <5> QED BY <3>2, <4>1, <4>2, <5>1
      <4>3. CASE j \in 1 .. k
        BY <1>12, <3>2, <3>6, <4>1, <4>3
      <4> QED BY <3>1, <4>2, <4>3
    <3> QED BY <1>12, <3>2, <3>4, <3>5, <3>6
  <2> QED BY <2>1, <2>2
<1>15. Received(n + 1)'
  BY <1>6, <1>11, <1>14 DEF Received, RxSlot
<1>16. n + 1 \in 0 .. Len(ethLog'.arrived)
  BY <1>2, <1>3, <1>6
<1> QED BY <1>10, <1>15, <1>16

LEMMA MacReceivesKeeps ==
    ASSUME RingTypeOK, NEW bad \in BOOLEAN, MacReceives(bad), NEW n \in 0 .. Len(ethLog.arrived),
           Received(n), ReceiveRing(n)
    PROVE  n \in 0 .. Len(ethLog'.arrived) /\ Received(n)' /\ ReceiveRing(n)'
<1> DEFINE a == Len(ethLog.arrived)
           N == ETH_RXBD_NUM
           new == [empty |-> FALSE, bad |-> bad, frame |-> a + 1]
<1>1. /\ rx_bd[mac.rx].empty /\ rx_bd' = [rx_bd EXCEPT ![mac.rx] = new]
      /\ mac' = [mac EXCEPT !.rx = (mac.rx + 1) % N] /\ rx_next' = rx_next
      /\ ethLog' = [ethLog EXCEPT !.arrived = Append(ethLog.arrived, bad)]
  BY DEF MacReceives
<1>2. a \in Nat /\ n \in Nat /\ N \in Nat \ {0} /\ a <= n + N /\ n <= a /\ a + 1 \in Nat \ {0}
  <2>1. a \in Nat
    BY RingFields
  <2> QED BY <2>1, RingNumbers DEF ReceiveRing
<1>3. mac.rx = RxSlot(a + 1) /\ mac.rx \in 0 .. N - 1 /\ Held(n) = n + 1 .. a
  BY RingFields DEF ReceiveRing, Held
<1>4. a < n + N
  <2>1. SUFFICES ASSUME a = n + N PROVE FALSE
    BY <1>2
  <2>2. n + 1 \in Nat \ {0} /\ n + 1 + N = a + 1
    BY <1>2, <2>1
  <2>3. RxSlot(n + 1 + N) = RxSlot(n + 1)
    BY <2>2, RxSlots
  <2>4. RxSlot(n + 1) = mac.rx
    BY <1>3, <2>2, <2>3
  <2>5. n + 1 \in Held(n)
    BY <1>2, <1>3, <2>1
  <2> QED BY <1>1, <1>3, <2>4, <2>5 DEF ReceiveRing
<1>5. /\ ethLog'.arrived = Append(ethLog.arrived, bad) /\ ethLog'.got = ethLog.got
      /\ mac'.rx = (mac.rx + 1) % N
  BY <1>1 DEF RingTypeOK, EthLogs, Macs
<1>6. /\ Len(ethLog'.arrived) = a + 1 /\ ethLog'.arrived[a + 1] = bad
      /\ \A f \in 1 .. a : ethLog'.arrived[f] = ethLog.arrived[f]
  <2>1. ethLog.arrived \in Seq(BOOLEAN)
    BY RingFields
  <2> QED BY <1>2, <1>5, <2>1
<1>7. Held(n)' = n + 1 .. a + 1 /\ Held(n)' = Held(n) \cup {a + 1}
  <2>1. Held(n)' = n + 1 .. a + 1
    BY <1>6 DEF Held
  <2>2. n + 1 .. a + 1 = (n + 1 .. a) \cup {a + 1}
    BY <1>2
  <2> QED BY <1>3, <2>1, <2>2
<1>8. ASSUME NEW f \in Held(n)
      PROVE  f \in 1 .. a /\ RxSlot(f) \in 0 .. N - 1 /\ RxSlot(f) # mac.rx
  <2>1. f \in Nat \ {0} /\ f < a + 1 /\ a + 1 < f + N /\ f \in 1 .. a
    BY <1>2, <1>3, <1>4
  <2> QED BY <1>2, <1>3, <2>1, RxSlots
<1>9. rx_bd \in [0 .. N - 1 -> [empty : BOOLEAN, bad : BOOLEAN, frame : Nat]]
  BY RingFields
<1>10. rx_bd'[mac.rx] = new /\ \A i \in 0 .. N - 1 : i # mac.rx => rx_bd'[i] = rx_bd[i]
  BY <1>1, <1>3, <1>9
<1>11. ReceiveRing(n)'
  <2>1. mac'.rx = RxSlot(a + 1 + 1) /\ a + 1 <= n + N
    <3>1. (RxSlot(a + 1) + 1) % N = RxSlot(a + 1 + 1)
      BY <1>2, RxSlots
    <3>2. a + 1 <= n + N
      BY <1>2, <1>4
    <3> QED BY <1>3, <1>5, <3>1, <3>2
  <2>2. rx_next' = RxSlot(n + 1)
    BY <1>1 DEF ReceiveRing
  <2>3. ASSUME NEW i \in 0 .. N - 1
        PROVE  rx_bd'[i].empty <=> ~\E f \in Held(n)' : RxSlot(f) = i
    <3>1. CASE i = mac.rx
      <4>1. ~rx_bd'[i].empty
        BY <1>10, <3>1
      <4> QED BY <1>3, <1>7, <3>1, <4>1
    <3>2. CASE i # mac.rx
      <4>1. rx_bd'[i].empty <=> ~\E f \in Held(n) : RxSlot(f) = i
        BY <1>10, <3>2 DEF ReceiveRing
      <4> QED BY <1>3, <1>7, <3>2, <4>1
    <3> QED BY <3>1, <3>2
  <2> QED BY <1>6, <2>1, <2>2, <2>3 DEF ReceiveRing, RxSlot
<1>12. ASSUME NEW f \in Held(n)'
       PROVE  rx_bd'[RxSlot(f)] = [empty |-> FALSE, bad |-> ethLog'.arrived[f], frame |-> f]
  <2>1. CASE f = a + 1
    BY <1>3, <1>6, <1>10, <2>1
  <2>2. CASE f \in Held(n)
    <3>1. rx_bd[RxSlot(f)] = [empty |-> FALSE, bad |-> ethLog.arrived[f], frame |-> f]
      BY <2>2 DEF Received
    <3>2. rx_bd'[RxSlot(f)] = rx_bd[RxSlot(f)] /\ ethLog'.arrived[f] = ethLog.arrived[f]
      BY <1>6, <1>8, <1>10, <2>2
    <3> QED BY <3>1, <3>2
  <2> QED BY <1>7, <2>1, <2>2
<1>13. {f \in 1 .. n : ~ethLog'.arrived[f]} = {f \in 1 .. n : ~ethLog.arrived[f]}
  <2>1. \A f \in 1 .. n : f \in 1 .. a
    BY <1>2
  <2> QED BY <1>6, <2>1
<1>14. Received(n)'
  <2>1. /\ \A i, j \in DOMAIN ethLog'.got : i < j => ethLog'.got[i] < ethLog'.got[j]
        /\ {ethLog'.got[i] : i \in DOMAIN ethLog'.got} = {f \in 1 .. n : ~ethLog'.arrived[f]}
    BY <1>5, <1>13 DEF Received
  <2> QED BY <1>12, <2>1 DEF Received, RxSlot
<1> QED BY <1>2, <1>6, <1>11, <1>14

LEMMA ReceiveStep ==
    ASSUME RingInv, RingTypeOK', [RingNext]_ringVars, ethPc' = "idle"
    PROVE  \E n \in 0 .. Len(ethLog'.arrived) : Received(n)' /\ ReceiveRing(n)'
<1>1. CASE Enabled
  <2>1. /\ ethLog'.arrived = <<>> /\ ethLog'.got = <<>> /\ Len(ethLog'.arrived) = 0
        /\ Held(0)' = {} /\ 0 \in 0 .. Len(ethLog'.arrived)
    BY <1>1 DEF Enabled, RingInv, Stopped, Held
  <2>2. rx_next' = 0 /\ mac'.rx = 0 /\ rx_bd' = init_rx_bd_pool
    BY <1>1 DEF Enabled, RxStart, RingInv, Stopped, RingTypeOK, Macs
  <2>3. RxSlot(0 + 1) = 0
    BY RxSlots
  <2>4. 0 <= 0 + ETH_RXBD_NUM
    BY RingNumbers
  <2>5. ReceiveRing(0)'
    BY <2>1, <2>2, <2>3, <2>4, Pools DEF ReceiveRing, RxSlot
  <2>6. Received(0)'
    <3>1. {ethLog'.got[i] : i \in DOMAIN ethLog'.got} = {} /\ DOMAIN ethLog'.got = {}
      BY <2>1
    <3>2. 1 .. 0 = {}
      OBVIOUS
    <3> QED BY <2>1, <3>1, <3>2 DEF Received
  <2> QED BY <2>1, <2>5, <2>6
<1>2. CASE EthInit \/ EthHalt
  BY <1>2 DEF EthInit, EthHalt
<1>3. ASSUME ~Enabled, ~(EthInit \/ EthHalt)
      PROVE  ethPc = "idle"
  BY <1>3 DEF RingNext, SendPacket, eth_rx, LinkChanges, MacSends, MacReceives, ringVars
<1>4. ASSUME ethPc = "idle"
      PROVE  \E n \in 0 .. Len(ethLog.arrived) : Received(n) /\ ReceiveRing(n)
  BY <1>4 DEF RingInv
<1>5. CASE eth_rx
  <2>1. PICK n \in 0 .. Len(ethLog.arrived) : Received(n) /\ ReceiveRing(n)
    BY <1>4, <1>5 DEF eth_rx
  <2> QED BY <1>5, <2>1, eth_rxReceives DEF RingInv
<1>6. ASSUME NEW bad \in BOOLEAN, MacReceives(bad)
      PROVE  \E n \in 0 .. Len(ethLog'.arrived) : Received(n)' /\ ReceiveRing(n)'
  <2>1. ethPc = "idle"
    BY <1>6 DEF MacReceives
  <2>2. PICK n \in 0 .. Len(ethLog.arrived) : Received(n) /\ ReceiveRing(n)
    BY <1>4, <2>1
  <2> QED BY <1>6, <2>2, MacReceivesKeeps DEF RingInv
<1>7. ASSUME UNCHANGED <<rx_bd, rx_next, ethPc>>, mac'.rx = mac.rx, ethLog'.arrived = ethLog.arrived,
             ethLog'.got = ethLog.got
      PROVE  \E n \in 0 .. Len(ethLog'.arrived) : Received(n)' /\ ReceiveRing(n)'
  <2>1. PICK n \in 0 .. Len(ethLog.arrived) : Received(n) /\ ReceiveRing(n)
    BY <1>4, <1>7
  <2>2. Received(n)' /\ ReceiveRing(n)'
    BY <1>7, <2>1 DEF Received, ReceiveRing, Held, RxSlot
  <2> QED BY <1>7, <2>1, <2>2
<1>8. CASE SendPacket \/ LinkChanges \/ MacSends \/ UNCHANGED ringVars
  <2>1. UNCHANGED <<rx_bd, rx_next, ethPc>>
    BY <1>8 DEF SendPacket, LinkChanges, MacSends, ringVars
  <2>2. mac'.rx = mac.rx /\ ethLog'.arrived = ethLog.arrived /\ ethLog'.got = ethLog.got
    BY <1>8 DEF SendPacket, LinkChanges, MacSends, ringVars, RingInv, RingTypeOK, Macs, EthLogs
  <2> QED BY <1>7, <2>1, <2>2
<1> QED BY <1>1, <1>2, <1>5, <1>6, <1>8 DEF RingNext

-----------------------------------------------------------------------------
(* The rings: theorems                                                      *)

LEMMA RingInvInit == RingInit => RingInv
<1> SUFFICES ASSUME RingInit PROVE RingInv
  OBVIOUS
<1>1. RingTypeOK
  BY RingInitType
<1>2. ethPc = "off" /\ mac.on = FALSE
  BY DEF RingInit
<1> QED BY <1>1, <1>2 DEF RingInv, Stopped, SendRing, RingInOrder

LEMMA StoppedStep ==
    ASSUME RingInv, [RingNext]_ringVars
    PROVE  Stopped'
<1>1. CASE EthInit
  BY <1>1 DEF EthInit, RingInv, RingTypeOK, Macs, EthLogs, Stopped
<1>2. CASE Enabled \/ SendPacket \/ eth_rx \/ MacSends \/ (\E bad \in BOOLEAN : MacReceives(bad))
  <2>1. ethPc' = "idle"
    BY <1>2 DEF Enabled, SendPacket, eth_rx, MacSends, MacReceives, RingInv, Stopped
  <2> QED BY <2>1 DEF Stopped
<1>3. CASE EthHalt
  BY <1>3 DEF EthHalt, RingInv, RingTypeOK, Macs, Stopped
<1>4. CASE LinkChanges
  BY <1>4 DEF LinkChanges, RingInv, RingTypeOK, Macs, Stopped
<1>5. CASE UNCHANGED ringVars
  BY <1>5 DEF ringVars, RingInv, Stopped
<1> QED BY <1>1, <1>2, <1>3, <1>4, <1>5 DEF RingNext

LEMMA RingInvStep == RingInv /\ [RingNext]_ringVars => RingInv'
<1> SUFFICES ASSUME RingInv, [RingNext]_ringVars PROVE RingInv'
  OBVIOUS
<1>1. RingTypeOK'
  BY RingTypeStep DEF RingInv
<1>2. SendRing' /\ RingInOrder'
  BY <1>1, SendStep
<1>3. ethPc' = "idle" => \E n \in 0 .. Len(ethLog'.arrived) : Received(n)' /\ ReceiveRing(n)'
  BY <1>1, ReceiveStep
<1> QED BY <1>1, <1>2, <1>3, StoppedStep DEF RingInv

\* Both ends of either ring count the same frames, whatever the network, the link and the callers do,
\* for every size of the rings.
THEOREM RingInvariance == RingSpec => []RingInv
<1> QED BY RingInvInit, RingInvStep, PTL DEF RingSpec

LEMMA RingInvExact == RingInv => RingsExact
<1> SUFFICES ASSUME RingInv PROVE RingsExact
  OBVIOUS
<1>1. SUFFICES ASSUME ethPc = "idle"
               PROVE  /\ \E n \in 0 .. Len(ethLog.arrived) : Received(n)
                      /\ rx_bd[rx_next].empty => \A i \in DOMAIN rx_bd : rx_bd[i].empty
  BY DEF RingInv, RingsExact, RingReceives
<1>2. PICK n \in 0 .. Len(ethLog.arrived) : Received(n) /\ ReceiveRing(n)
  BY <1>1 DEF RingInv
<1>3. DOMAIN rx_bd = 0 .. ETH_RXBD_NUM - 1 /\ RingTypeOK
  BY DEF RingInv, RingTypeOK
<1>4. ASSUME rx_bd[rx_next].empty, NEW i \in DOMAIN rx_bd
      PROVE  rx_bd[i].empty
  <2>1. Held(n) = {}
    BY <1>2, <1>3, <1>4, NextToRead
  <2> QED BY <1>2, <1>3, <1>4, <2>1 DEF ReceiveRing
<1> QED BY <1>2, <1>4

\* Frames leave once, whole and in order as long as no send found the ring full, and of those that
\* arrive none is lost, doubled or out of order (eth.c:40-283, net.c:297-310).
THEOREM RingsInOrder == RingSpec => []RingsExact
<1> QED BY RingInvariance, RingInvExact, PTL
=============================================================================
