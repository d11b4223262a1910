------------------------------ MODULE Smc91111 ------------------------------
(***************************************************************************)
(* The monitor's driver of the LAN91C111 (orpmon/drivers/smc91111.c), which *)
(* boards with SMC91111_LAN use in place of eth.c.  The chip's registers   *)
(* lie in four banks behind one window; its memory is divided in packets   *)
(* that a processor command gives to the driver, to the transmitter or     *)
(* back; commands, transmission and reception go on beside the driver.     *)
(*                                                                         *)
(* The code between two polls is one step: the list of its register        *)
(* accesses, done in order.  Bytes of a buffer are pairs of the frame and  *)
(* the place; bytes from its length on lie behind the frame.               *)
(***************************************************************************)
EXTENDS Integers, Sequences, FiniteSets

CONSTANTS Packets,         \* packets of the chip's memory
          Lens,            \* lengths NetSendPacket is given
          Arrivals,        \* frames from outside: their lengths, and which of them are damaged
          Caps,            \* values of PHY_STAT_REG's capabilities
          Zlen,            \* ETH_ZLEN
          PageBytes,       \* 256, the size of an MMU page
          MaxPages,        \* 7
          MemoryWait,      \* MEMORY_WAIT_TIME
          AllocTries,      \* SMC_ALLOC_MAX_TRY
          ResetTries,      \* polls for the reset of the PHY
          AnegTries,       \* polls for the auto-negotiation
          MaxSends,        \* bound: calls of eth_send
          MaxArrivals,     \* bound: frames from outside
          MaxInits,        \* bound: calls of eth_init
          MaxSlow          \* bound: waits that outlast a driver's timeout, bad answers of the chip

SmcAssumption ==
    /\ Arrivals \subseteq [len : Nat \ {0}, err : BOOLEAN]
    /\ Packets # {} /\ IsFiniteSet(Packets) /\ Lens \subseteq Nat \ {0} /\ Caps \subseteq 0 .. 31
    /\ {Zlen, PageBytes, MemoryWait, AllocTries, ResetTries, AnegTries} \subseteq Nat \ {0}
    /\ {MaxPages, MaxSends, MaxArrivals, MaxInits, MaxSlow} \subseteq Nat

VARIABLES chip,  \* the registers, the memory and the frames that left
          phy,   \* the PHY's registers and what it is about
          drv,   \* the locals of the call in progress
          log    \* what was sent, what arrived and what was received

vars == <<chip, phy, drv, log>>

-----------------------------------------------------------------------------
(* The serial management interface, bit by bit: the driver composes the    *)
(* bits of a frame, clocks them through a register of the chip and looks   *)
(* at the input after every rising edge; the PHY at the other end follows  *)
(* the frame at the rising edges and drives its answer behind them.        *)

PhyAddr == 0                       \* SMC_PHY_ADDR
One == 1  Zero == 0  Z == 2        \* MDOE with MDO, MDOE alone, neither

\* Most significant bit first.
BitsOf(value, n) == [i \in 1 .. n |-> (value \div 2 ^ (n - i)) % 2]
ValueOf(bits) == LET v[k \in 0 .. Len(bits)] == IF k = 0 THEN 0 ELSE 2 * v[k - 1] + bits[k] IN v[Len(bits)]
Preamble == [i \in 1 .. 32 |-> One]

\* Fault: two turnaround bits, as in the frame of a write.
ReadBits_TwoTa(reg) ==
    Preamble \o <<Zero, One, One, Zero>> \o BitsOf(PhyAddr, 5) \o BitsOf(reg, 5) \o [i \in 1 .. 19 |-> Z]
\* The array bits of a read: one turnaround bit, sixteen of data and the last clock.
ReadBits(reg) ==
    Preamble \o <<Zero, One, One, Zero>> \o BitsOf(PhyAddr, 5) \o BitsOf(reg, 5) \o [i \in 1 .. 18 |-> Z]

WriteBits(reg, data) ==
    Preamble \o <<Zero, One, Zero, One>> \o BitsOf(PhyAddr, 5) \o BitsOf(reg, 5) \o <<Z, Z>> \o BitsOf(data, 16) \o <<Z>>

\* input_idx is the clock behind the turnaround: input[k] is what the driver saw after edge k.
InputIdx(bits) == Len(bits) - 16
Recovered(input) == ValueOf(SubSeq(input, InputIdx(input), Len(input) - 1))

-----------------------------------------------------------------------------
(* The PHY.  An edge takes bit k of the frame in; a frame starts behind    *)
(* 32 ones, and a bit nobody drives reads as one.                          *)

Level(b) == IF b = Z THEN 1 ELSE b
Start(bits) == CHOOSE k \in 33 .. Len(bits) :
                   Level(bits[k]) = 0 /\ \A j \in 1 .. k - 1 : Level(bits[j]) = 1
Field(bits, from, n) == ValueOf([i \in 1 .. n |-> Level(bits[Start(bits) + from + i - 1])])
Addressed(bits) == Field(bits, 0, 2) = 1 /\ Field(bits, 4, 5) = PhyAddr
IsRead(bits) == Addressed(bits) /\ Field(bits, 2, 2) = 2
IsWrite(bits) == Addressed(bits) /\ Field(bits, 2, 2) = 1
Register(bits) == Field(bits, 9, 5)
Data(bits) == Field(bits, 16, 16)

\* What the PHY drives behind edge k: zero at the turnaround, then the register.
Driven(bits, value, k) ==
    LET d == k - (Start(bits) + 14)
    IN IF IsRead(bits) /\ d \in 1 .. 16 THEN BitsOf(value, 16)[d] ELSE IF IsRead(bits) /\ d = 0 THEN 0 ELSE 1

-----------------------------------------------------------------------------
(* A call as its caller sees it; regs are the PHY's registers.             *)

smc_read_phy_register(regs, reg) ==
    LET bits == ReadBits(reg)
    IN Recovered([k \in DOMAIN bits |-> Driven(bits, regs[Register(bits)], k)])

smc_write_phy_register(regs, reg, data) ==
    LET bits == WriteBits(reg, data)
    IN IF IsWrite(bits) /\ Register(bits) \in DOMAIN regs THEN [regs EXCEPT ![Register(bits)] = Data(bits)] ELSE regs

-----------------------------------------------------------------------------
(* The chip.                                                               *)

Bank ==
    [RCR |-> 0, TCR |-> 0, RPC |-> 0, CONFIG |-> 1, ADDR0 |-> 1, CTL |-> 1, MII |-> 3,
     MMU_CMD |-> 2, PN |-> 2, AR |-> 2, RXFIFO |-> 2, PTR |-> 2, DATA |-> 2, INT |-> 2, IM |-> 2]

None == <<0, 0>>
Odd == <<0, 1>>                    \* 0x2000 of a control word
Errors == <<0, 2>>                 \* RS_ERRORS of a status word
Count(n) == <<0, n>>
Even(n) == n - (n % 2)
Byte(frame, i) == <<frame.id, i>>

Idle == [bank |-> 0, stray |-> {}, rx |-> FALSE, tx |-> FALSE, busy |-> FALSE, pn |-> None, mem |-> [p \in Packets |-> <<>>],
         owner |-> [p \in Packets |-> "free"], alloc |-> "none", ar |-> None, allocInt |-> FALSE, emptyInt |-> FALSE,
         txfifo |-> <<>>, rxfifo |-> <<>>]

Command(c, cmd) ==
    [CASE cmd = "reset" -> [c EXCEPT !.owner = [p \in Packets |-> "free"], !.txfifo = <<>>, !.rxfifo = <<>>,
                                     !.alloc = "none", !.allocInt = FALSE]
       [] cmd = "alloc" -> [c EXCEPT !.alloc = "asked", !.allocInt = FALSE]
       [] cmd = "enqueue" -> [c EXCEPT !.txfifo = Append(@, c.pn), !.owner[c.pn] = "tx"]
       [] cmd = "release" -> [c EXCEPT !.rxfifo = Tail(@), !.owner[Head(c.rxfifo)] = "free"]
     EXCEPT !.busy = TRUE]

\* A write to a register in the bank selected.
Written(c, reg, v) ==
    CASE reg = "RCR" /\ v = "reset" -> [c EXCEPT !.rx = FALSE, !.tx = FALSE, !.allocInt = FALSE, !.emptyInt = FALSE]
      [] reg = "RCR" /\ v # "low byte" -> [c EXCEPT !.rx = v = "on"]
      [] reg = "TCR" -> [c EXCEPT !.tx = v = "on"]
      [] reg = "MMU_CMD" -> Command(c, v)
      [] reg = "PN" -> [c EXCEPT !.pn = v]
      [] reg = "PTR" /\ v = "start" -> [c EXCEPT !.mem[c.pn] = <<>>]
      [] reg = "DATA" -> [c EXCEPT !.mem[c.pn] = Append(@, v)]
      [] reg = "INT" -> [c EXCEPT !.allocInt = @ /\ v # "alloc", !.emptyInt = @ /\ v # "empty"]
      [] OTHER -> c

Sel(bank) == [op |-> "select", reg |-> bank, v |-> 0]
Rd(reg) == [op |-> "read", reg |-> reg, v |-> 0]
Wr(reg, v) == [op |-> "write", reg |-> reg, v |-> v]

Access(c, a) ==
    CASE a.op = "select" -> [c EXCEPT !.bank = a.reg]
      [] c.bank # Bank[a.reg] -> [c EXCEPT !.stray = @ \cup {a.reg}]
      [] a.op = "write" -> Written(c, a.reg, a.v)
      [] OTHER -> c
Does(c, accesses) == LET d[k \in 0 .. Len(accesses)] == IF k = 0 THEN c ELSE Access(d[k - 1], accesses[k]) IN d[Len(accesses)]

\* A frame in a packet of the memory: its status, its count, the halfwords and the control word.
Packet(status, count, frame, last) ==
    << <<status, None>>, <<Count(count), None>> >>
        \o [i \in 1 .. Even(count) \div 2 - 3 |-> <<Byte(frame, 2 * i - 2), Byte(frame, 2 * i - 1)>>] \o <<last>>
\* The bytes of halfwords from to to.
BytesOf(m, from, to) == [i \in 1 .. 2 * (to - from + 1) |-> m[from + (i - 1) \div 2][1 + ((i - 1) % 2)]]
\* What the transmitter makes of a packet.
OnWire(m) ==
    LET last == Even(m[2][1][2]) \div 2
    IN IF m[last][2] = Odd THEN Append(BytesOf(m, 3, last - 1), m[last][1]) ELSE BytesOf(m, 3, last - 1)

-----------------------------------------------------------------------------
(* The driver.                                                             *)

PHY_CNTL_REG == 0  PHY_STAT_REG == 1  PHY_AD_REG == 4  PHY_MASK_REG == 19
RST == 2 ^ 15  SPEED == 2 ^ 13  ANEG_EN == 2 ^ 12  ANEG_RST == 2 ^ 9  DPLX == 2 ^ 8
ANEG_ACK == 2 ^ 5  REM_FLT == 2 ^ 4
Has(word, bit) == (word \div bit) % 2 = 1

Init ==
    /\ chip = Idle
    /\ \E caps \in Caps : phy = [regs |-> [r \in {0, 1, 4, 19} |-> IF r = PHY_STAT_REG THEN caps * 2 ^ 11 ELSE 0],
                                 doing |-> "nothing"]
    /\ drv = [pc |-> "off", tries |-> 0, wait |-> 0, old |-> None, frame |-> [id |-> 0, len |-> 0], buf |-> <<>>, good |-> FALSE]
    /\ log = [inits |-> 0, slow |-> 0, wire |-> <<>>, sends |-> <<>>, arrived |-> <<>>, got |-> <<>>, phy |-> "none"]

\* Fault: the bank of the caller is not selected again.
MiiFrame_Stays(c) == Does(c, <<Sel(3), Rd("MII"), Wr("MII", "bits")>>)
\* The accesses around a frame of the management interface, or around several frames in a row.
MiiFrame(c) == Does(c, <<Sel(3), Rd("MII"), Wr("MII", "bits"), Sel(c.bank)>>)

\* A write to the PHY, and what it makes the PHY do.
PhyWrites(p, reg, data) ==
    LET q == [p EXCEPT !.regs = smc_write_phy_register(@, reg, data)]
    IN IF reg # PHY_CNTL_REG THEN q
       ELSE [q EXCEPT !.doing = IF Has(q.regs[PHY_CNTL_REG], RST) THEN "resetting" ELSE "negotiating",
                      !.regs[PHY_STAT_REG] = (@ \div 2 ^ 11) * 2 ^ 11]

\* eth_init and eth_reset, up to the wait for the MMU.
EthInit ==
    /\ drv.pc \in {"off", "idle"} /\ log.inits < MaxInits
    /\ drv' = [drv EXCEPT !.pc = "mmu_release"]
    /\ chip' = Does(chip, <<Sel(0), Wr("RCR", "reset"), Sel(1), Wr("CONFIG", "default"), Rd("CONFIG"),
                            Wr("CONFIG", "power"), Sel(0), Wr("RCR", "clear"), Wr("TCR", "clear"),
                            Sel(1), Wr("CTL", "default"), Sel(2), Rd("MMU_CMD")>>)
    /\ log' = [log EXCEPT !.inits = @ + 1, !.wire = <<>>, !.sends = <<>>, !.arrived = <<>>, !.got = <<>>, !.phy = "none"]
    /\ UNCHANGED phy

\* smc_wait_mmu_release_complete gives up after 200 polls: the reset is given either way.
MmuReset ==
    /\ drv.pc = "mmu_release"
    /\ drv' = [drv EXCEPT !.pc = "mmu_reset"]
    /\ chip' = Does(chip, <<Rd("MMU_CMD"), Wr("MMU_CMD", "reset")>>)
    /\ UNCHANGED <<phy, log>>

\* The end of eth_reset, the receiver and transmitter on, and smc_phy_configure up to its first poll.
PhyReset ==
    /\ drv.pc = "mmu_reset" /\ ~chip.busy
    /\ drv' = [drv EXCEPT !.pc = "phy_reset", !.tries = ResetTries]
    /\ chip' = MiiFrame(Does(chip, <<Wr("IM", "none"), Sel(0), Wr("TCR", "on"), Wr("RCR", "on"), Wr("RPC", "default")>>))
    /\ phy' = PhyWrites(phy, PHY_CNTL_REG, RST)
    /\ UNCHANGED log

\* The MAC address ends eth_init, whatever came of the PHY.
MacAddress(c) == Does(c, <<Sel(1), Wr("ADDR0", "address")>>)
Ends(outcome, c) ==
    /\ drv' = [drv EXCEPT !.pc = "idle", !.tries = 0]
    /\ log' = [log EXCEPT !.phy = outcome]
    /\ chip' = MacAddress(c)

\* The capabilities of PHY_STAT_REG, one by one, in the layout of PHY_AD_REG.
Advertises(stat) ==
    1 + (IF Has(stat, 2 ^ 15) THEN 2 ^ 9 ELSE 0) + (IF Has(stat, 2 ^ 14) THEN 2 ^ 8 ELSE 0) + (IF Has(stat, 2 ^ 13) THEN 2 ^ 7 ELSE 0)
      + (IF Has(stat, 2 ^ 12) THEN 2 ^ 6 ELSE 0) + (IF Has(stat, 2 ^ 11) THEN 2 ^ 5 ELSE 0)

\* A poll for the end of the reset; one that succeeds in the last try is taken for a timeout.
PollReset ==
    LET reset == ~Has(smc_read_phy_register(phy.regs, PHY_CNTL_REG), RST)
        stat == smc_read_phy_register(phy.regs, PHY_STAT_REG)
    IN /\ drv.pc = "phy_reset"
       /\ \/ /\ drv.tries = 1
             /\ Ends("reset timed out", MiiFrame(chip)) /\ UNCHANGED phy
          \/ /\ drv.tries > 1 /\ ~reset
             /\ drv' = [drv EXCEPT !.tries = @ - 1]
             /\ chip' = MiiFrame(chip) /\ UNCHANGED <<phy, log>>
          \/ /\ drv.tries > 1 /\ reset
             /\ drv' = [drv EXCEPT !.pc = "aneg", !.tries = AnegTries]
             /\ chip' = MiiFrame(MiiFrame(Does(MiiFrame(MiiFrame(chip)), <<Sel(0), Wr("RPC", "default")>>)))
             /\ phy' = PhyWrites(PhyWrites(PhyWrites(phy, PHY_MASK_REG, 2 ^ 16 - 1), PHY_AD_REG, Advertises(stat)),
                                 PHY_CNTL_REG, ANEG_EN + ANEG_RST)
             /\ UNCHANGED log

\* Fault: a remote fault does not start the negotiation again.
OnFault_Waits(p, status) == p
OnFault(p, status) == IF Has(status, REM_FLT) THEN PhyWrites(p, PHY_CNTL_REG, ANEG_EN + ANEG_RST + SPEED + DPLX) ELSE p

\* A poll for the end of the auto-negotiation.  Reading clears the remote fault.
PollAneg ==
    LET status == smc_read_phy_register(phy.regs, PHY_STAT_REG)
        seen == [phy EXCEPT !.regs[PHY_STAT_REG] = IF Has(@, REM_FLT) THEN @ - REM_FLT ELSE @]
        done == Has(status, ANEG_ACK)
    IN /\ drv.pc = "aneg"
       /\ phy' = IF done THEN seen ELSE OnFault(seen, status)
       /\ IF done \/ drv.tries = 1
          THEN Ends(IF drv.tries = 1 THEN "timed out" ELSE IF Has(status, REM_FLT) THEN "fault" ELSE "up",
                    Does(MiiFrame(chip), <<Wr("RPC", "default")>>))
          ELSE drv' = [drv EXCEPT !.tries = @ - 1] /\ chip' = MiiFrame(chip) /\ UNCHANGED log

\* Bytes of registers, as everywhere in this driver, are the low ones at the even addresses: the
\* receiver's enable lies in the other byte of RCR.
EthHalt ==
    /\ drv.pc = "idle"
    /\ drv' = [drv EXCEPT !.pc = "off"]
    /\ chip' = Does(chip, <<Sel(2), Wr("IM", "none"), Sel(0), Wr("RCR", "low byte"), Wr("TCR", "low byte")>>)
    /\ UNCHANGED <<phy, log>>

-----------------------------------------------------------------------------
(* eth_send.                                                               *)

Length(len) == IF Zlen < len THEN len ELSE Zlen
NumPages(len) == (Even(Length(len)) + 6) \div PageBytes
Returns(outcome) == [log EXCEPT !.sends[drv.frame.id].outcome = outcome]
Sent == [drv EXCEPT !.pc = "idle", !.old = None, !.tries = 0, !.wait = 0]

EthSend(len) ==
    LET frame == [id |-> Len(log.sends) + 1, len |-> len]
        big == NumPages(len) > MaxPages
    IN /\ drv.pc = "idle" /\ Len(log.sends) < MaxSends
       /\ log' = [log EXCEPT !.sends = Append(@, [len |-> len, outcome |-> IF big THEN "too big" ELSE "none"])]
       /\ drv' = IF big THEN drv
                 ELSE [drv EXCEPT !.pc = "alloc", !.tries = 1, !.wait = MemoryWait, !.old = chip.pn, !.frame = frame]
       /\ chip' = Does(chip, <<Sel(2), Rd("PN"), Rd("PTR")>> \o (IF big THEN <<>> ELSE <<Sel(2), Wr("MMU_CMD", "alloc")>>))
       /\ UNCHANGED phy

\* Fault: the length without its six bytes.
CountOf_Plain(length) == length
CountOf(length) == length + 6

\* The last byte is looked for length - 1 bytes behind the pointer that has moved on already.
Control(frame, length) == IF length % 2 = 0 THEN <<None, None>> ELSE <<Byte(frame, 2 * (length - 1)), Odd>>
Fill(frame, length) == Packet(None, CountOf(length), frame, Control(frame, length))

\* A poll for the packet; with it the frame is copied and handed to the transmitter.
PollAlloc ==
    LET data == Fill(drv.frame, Length(drv.frame.len))
    IN /\ drv.pc = "alloc"
       /\ \/ /\ chip.allocInt /\ chip.ar # None
             /\ chip' = Does(chip, <<Rd("INT"), Wr("INT", "alloc"), Rd("AR"), Wr("PN", chip.ar), Wr("PTR", "start")>>
                                       \o [i \in DOMAIN data |-> Wr("DATA", data[i])] \o <<Wr("MMU_CMD", "enqueue"), Sel(2)>>)
             /\ drv' = [drv EXCEPT !.pc = "empty"]
             /\ UNCHANGED log
          \/ /\ chip.allocInt /\ chip.ar = None
             /\ chip' = Does(chip, <<Rd("INT"), Wr("INT", "alloc"), Rd("AR")>>)
             /\ drv' = Sent /\ log' = Returns("failed")
          \/ /\ ~chip.allocInt /\ drv.wait > 1
             /\ drv' = [drv EXCEPT !.wait = @ - 1]
             /\ chip' = Does(chip, <<Rd("INT")>>) /\ UNCHANGED log
          \/ /\ ~chip.allocInt /\ drv.wait = 1 /\ drv.tries < AllocTries
             /\ drv' = [drv EXCEPT !.wait = MemoryWait, !.tries = @ + 1]
             /\ chip' = Does(chip, <<Rd("INT")>>) /\ UNCHANGED log
          \/ /\ ~chip.allocInt /\ drv.wait = 1 /\ drv.tries = AllocTries
             /\ chip' = Does(chip, <<Rd("INT")>>)
             /\ drv' = Sent /\ log' = Returns("no memory")
       /\ UNCHANGED phy

\* poll4int sees the transmitter empty, or its time is over.
PollEmpty ==
    /\ drv.pc = "empty"
    /\ \/ /\ chip.emptyInt
          /\ chip' = Does(chip, <<Rd("INT"), Sel(chip.bank), Wr("INT", "empty")>>)
          /\ drv' = [drv EXCEPT !.pc = "sent"] /\ UNCHANGED log
       \/ /\ ~chip.emptyInt /\ log.slow < MaxSlow
          /\ chip' = Does(chip, <<Rd("INT"), Sel(chip.bank)>>)
          /\ drv' = [drv EXCEPT !.pc = "late"] /\ log' = [log EXCEPT !.slow = @ + 1]
    /\ UNCHANGED phy

\* The MMU is ready.  The registers saved are restored unless the time was over.
SendReturns ==
    /\ drv.pc \in {"sent", "late"} /\ ~chip.busy
    /\ chip' = Does(chip, <<Rd("MMU_CMD")>> \o (IF drv.pc = "sent" THEN <<Wr("PN", drv.old), Wr("PTR", "old")>> ELSE <<>>))
    /\ log' = Returns(IF drv.pc = "sent" THEN "sent" ELSE "timeout")
    /\ drv' = Sent
    /\ UNCHANGED phy

-----------------------------------------------------------------------------
(* eth_rx.                                                                 *)

\* The oldest frame is copied, its control word with it, unless its status tells an error.
EthRx ==
    LET m == chip.mem[Head(chip.rxfifo)]
        packet_length == m[2][1][2] - 4
    IN /\ drv.pc = "idle" /\ chip.rxfifo # <<>>
       /\ chip' = Does(chip, <<Sel(2), Rd("PN"), Rd("PTR"), Rd("RXFIFO"), Wr("PTR", "receive"), Rd("DATA"), Rd("MMU_CMD")>>)
       /\ drv' = [drv EXCEPT !.pc = "rx_copied", !.old = chip.pn, !.good = m[1][1] # Errors,
                             !.buf = IF m[1][1] = Errors THEN @ ELSE BytesOf(m, 3, 2 + packet_length \div 2)]
       /\ UNCHANGED <<phy, log>>
NothingReceived ==
    /\ drv.pc = "idle" /\ chip.rxfifo = <<>> /\ chip.bank # 2
    /\ chip' = Does(chip, <<Sel(2), Rd("PN"), Rd("PTR"), Rd("RXFIFO")>>)
    /\ UNCHANGED <<phy, drv, log>>

\* Fault: the packet stays with the receiver.
ReleaseRx_Keeps == <<Rd("MMU_CMD")>>
ReleaseRx == <<Rd("MMU_CMD"), Wr("MMU_CMD", "release")>>

Release ==
    /\ drv.pc = "rx_copied" /\ ~chip.busy
    /\ chip' = Does(chip, ReleaseRx)
    /\ drv' = [drv EXCEPT !.pc = "rx_released"]
    /\ UNCHANGED <<phy, log>>

\* receive gets the copy.
Received ==
    /\ drv.pc = "rx_released" /\ ~chip.busy
    /\ chip' = Does(chip, <<Rd("MMU_CMD"), Wr("PN", drv.old), Wr("PTR", "old")>>)
    /\ log' = [log EXCEPT !.got = IF drv.good THEN Append(@, drv.buf) ELSE @]
    /\ drv' = [Sent EXCEPT !.buf = <<>>, !.good = FALSE]
    /\ UNCHANGED phy

-----------------------------------------------------------------------------
(* The chip, the PHY and the network beside the driver.                    *)

Free == {p \in Packets : chip.owner[p] = "free"}
First == CHOOSE p \in Free : TRUE

MmuReady ==
    /\ chip.busy /\ chip' = [chip EXCEPT !.busy = FALSE]
    /\ UNCHANGED <<phy, drv, log>>

\* The packet asked for, at once or when one is free again; a bad chip answers without one.
Allocates ==
    /\ chip.alloc = "asked"
    /\ \/ /\ Free # {}
          /\ chip' = [chip EXCEPT !.alloc = "none", !.allocInt = TRUE, !.ar = First, !.owner[First] = "cpu"]
          /\ UNCHANGED log
       \/ /\ log.slow < MaxSlow
          /\ chip' = [chip EXCEPT !.alloc = "none", !.allocInt = TRUE, !.ar = None]
          /\ log' = [log EXCEPT !.slow = @ + 1]
    /\ UNCHANGED <<phy, drv>>

\* A frame leaves and its packet is free again.
Transmits ==
    LET p == Head(chip.txfifo)
    IN /\ chip.tx /\ chip.txfifo # <<>>
       /\ chip' = [chip EXCEPT !.txfifo = Tail(@), !.owner[p] = "free", !.emptyInt = @ \/ Len(chip.txfifo) = 1]
       /\ log' = [log EXCEPT !.wire = Append(@, OnWire(chip.mem[p]))]
       /\ UNCHANGED <<phy, drv>>

Arrives(a) ==
    LET frame == [id |-> Len(log.arrived) + 1, len |-> a.len]
        last == IF a.len % 2 = 0 THEN <<None, None>> ELSE <<Byte(frame, a.len - 1), Odd>>
    IN /\ chip.rx /\ Free # {} /\ Len(log.arrived) < MaxArrivals
       /\ chip' = [chip EXCEPT !.mem[First] = Packet(IF a.err THEN Errors ELSE None, Even(a.len) + 6, frame, last),
                               !.owner[First] = "rx", !.rxfifo = Append(@, First)]
       /\ log' = [log EXCEPT !.arrived = Append(@, a)]
       /\ UNCHANGED <<phy, drv>>

\* The reset ends, a negotiation ends or finds a fault at the other end.
PhyActs ==
    /\ \/ /\ phy.doing = "resetting"
          /\ phy' = [phy EXCEPT !.doing = "nothing", !.regs[PHY_CNTL_REG] = 0] /\ UNCHANGED log
       \/ /\ phy.doing = "negotiating" /\ ~Has(phy.regs[PHY_STAT_REG], ANEG_ACK)
          /\ phy' = [phy EXCEPT !.doing = "nothing", !.regs[PHY_STAT_REG] = @ + ANEG_ACK] /\ UNCHANGED log
       \/ /\ phy.doing = "negotiating" /\ ~Has(phy.regs[PHY_STAT_REG], REM_FLT) /\ log.slow < MaxSlow
          /\ phy' = [phy EXCEPT !.doing = "nothing", !.regs[PHY_STAT_REG] = @ + REM_FLT]
          /\ log' = [log EXCEPT !.slow = @ + 1]
    /\ UNCHANGED <<chip, drv>>

Next ==
    \/ EthInit \/ MmuReset \/ PhyReset \/ PollReset \/ PollAneg \/ EthHalt
    \/ (\E len \in Lens : EthSend(len)) \/ PollAlloc \/ PollEmpty \/ SendReturns
    \/ EthRx \/ NothingReceived \/ Release \/ Received
    \/ MmuReady \/ Allocates \/ Transmits \/ (\E a \in Arrivals : Arrives(a)) \/ PhyActs

-----------------------------------------------------------------------------
(* Properties.                                                             *)

\* Every register is accessed with its bank selected, whatever the call before left selected.
RegistersInBank == chip.stray = {}

IsPrefixOf(frame, bytes) == \A k \in 1 .. Even(frame.len) : bytes[k] = Byte(frame, k - 1)
Padded(id) == [id |-> id, len |-> Length(log.sends[id].len)]
SentId(i) == log.wire[i][1][1]

\* Frames leave once, in order and whole, padded to the least length; none that was given up does.
\* The last byte of an odd frame is not the frame's.
SentWhole ==
    \A i \in DOMAIN log.wire :
        /\ Len(log.wire[i]) = Padded(SentId(i)).len /\ IsPrefixOf(Padded(SentId(i)), log.wire[i])
        /\ log.sends[SentId(i)].outcome \in {"none", "sent", "timeout"}
        /\ i > 1 => SentId(i - 1) < SentId(i)

\* A call that saw the transmitter empty has its frame on the wire, unless a call before it was late.
SentTruthful ==
    \A id \in DOMAIN log.sends :
        log.sends[id].outcome = "sent" /\ (\A j \in 1 .. id : log.sends[j].outcome # "timeout")
            => \E i \in DOMAIN log.wire : SentId(i) = id

\* What is received is every good frame, once, in order and whole, a control word or byte behind it.
ReceivedWhole ==
    LET good == {k \in DOMAIN log.arrived : ~log.arrived[k].err}
        Before(k) == Cardinality({j \in good : j <= k})
    IN Len(log.got) <= Cardinality(good) /\ \A k \in good : Before(k) <= Len(log.got) =>
           LET frame == [id |-> k, len |-> log.arrived[k].len]
               bytes == log.got[Before(k)]
           IN /\ Len(bytes) = Even(frame.len) + 2
              /\ \A b \in 1 .. frame.len : bytes[b] = Byte(frame, b - 1)

\* A packet is lost to the driver only with a call that waited in vain for it.
PacketsReturn ==
    drv.pc \in {"off", "idle", "alloc", "empty"} =>
        Cardinality({p \in Packets : chip.owner[p] = "cpu"})
            <= Cardinality({id \in DOMAIN log.sends : log.sends[id].outcome = "no memory"}) + (IF drv.pc = "alloc" THEN 1 ELSE 0)

\* A link reported up has finished its negotiation, with the capabilities of this PHY and no others.
LinkTruthful ==
    log.phy = "up" => /\ Has(phy.regs[PHY_STAT_REG], ANEG_ACK)
                      /\ phy.regs[PHY_AD_REG] = (phy.regs[PHY_STAT_REG] \div 2 ^ 11) * 2 ^ 5 + 1

\* A fault of the other end does not leave the PHY idle while the driver still waits for it.
NegotiationGoesOn == drv.pc = "aneg" => phy.doing # "nothing" \/ phy.regs[PHY_STAT_REG] % 2 ^ 6 # 0
=============================================================================
