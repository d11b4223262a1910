------------------------------ MODULE MCBridge ------------------------------
(* The JTAG bridge's parts below the GDB server, for TLC.  They share no state: a behaviour
   exercises one of them, and the others stay in one of their initial states. *)
EXTENDS DbgBurst

VARIABLES part,
          bench, wire, conf, found, scan, at,
          reader, sending, target, toServer, toClient, gdb,
          ftdi, dev, ftCall, ftPc, usb,
          todo, place, stPc, success, insn, sum, seen, cpu, ram, enabled, overrun, hw,
          cable, bit, gdb_in, gdb_out, toSim, toJp, sim,
          legHost, legUnit, tap, legMem, ctrl, legCall, legPc, left,
          bsFile, pos, last, bsPc, what, opens, valid, buf, info

Parts == {"burst", "chain", "packet", "ft2232", "selftest", "simulator", "legacy", "bsdl"}

MCAddrs == 0 .. 2
MCCalls == {"wb_read", "wb_write", "cpu0_read", "cpu0_write", "cpu0_read_ctrl", "cpu1_write_ctrl"}

MCInvalid == -1
MCId(manuf, rest) == <<1>> \o [i \in 1 .. 11 |-> (manuf \div 2 ^ (i - 1)) % 2]
                          \o [i \in 1 .. 20 |-> (rest \div 2 ^ (i - 1)) % 2]
D(id, ir, idcode, debug, user1, virtual, file) ==
    [id |-> id, ir |-> ir, idcode |-> idcode, debug |-> debug, user1 |-> user1, virtual |-> virtual, file |-> file]
MCDevice ==
    [or1k |-> D(MCId(371, 83217), 4, 2, 8, MCInvalid, FALSE, TRUE),
     xilinx |-> D(MCId(73, 70000), 6, 9, MCInvalid, 2, FALSE, TRUE),
     altera |-> D(MCId(110, 8369), 10, 6, MCInvalid, MCInvalid, TRUE, TRUE),
     plain |-> D(<<>>, 5, MCInvalid, MCInvalid, MCInvalid, FALSE, FALSE),
     wide |-> D(MCId(1024, 1), 27, 1, MCInvalid, MCInvalid, FALSE, TRUE)]

Chain == INSTANCE JtagChain WITH
             Device <- MCDevice, Stack <- {0, 1}, ScanLens <- {1, 8, 33}, LostAt <- {2, 30},
             Chains <- {<<"or1k">>, <<"plain", "or1k", "plain">>, <<"altera", "xilinx">>, <<"wide", "plain", "or1k">>},
             Cables <- {"vpi", "usbblaster", "usbblaster_ftdi", "xpc_usb", "ft2232"},
             MaxDevices <- 6, MaxScans <- 2, MaxLost <- 1
\* The packet buffer holds thirteen characters.
Packet == INSTANCE RspPacket WITH
              MAX_GPRS <- 3, RegDigits <- 2, Bytes <- {35, 125}, Size <- 8, Noise <- {48},
              Kinds <- {"X", "M", "m", "P", "p", "g", "readspr", "writespr", "break"},
              MaxNoise <- 1, MaxRequests <- 2
Ft == INSTANCE Ft2232 WITH
          call <- ftCall, pc <- ftPc, FTDI_MAXRECV <- 2, FTDX_MAXSEND <- 7, Chunk <- 2,
          Lengths <- {1, 8, 17, 34}, MaxCalls <- 3, MaxFaults <- 2

\* Six address lines; faults of each, of pairs low and high, and of words inside and outside the blocks.
MCFault == {<<"stuck", k>> : k \in 0 .. 5} \cup {<<"joined", j, 5>> : j \in 0 .. 4}
           \cup {<<"joined", 0, 1>>, <<"joined", 1, 3>>} \cup {<<"word", w>> : w \in {0, 5, 7, 8, 9, 12, 20}}
Tests == INSTANCE SelfTest WITH
             at <- place, pc <- stPc, mem <- ram, Lines <- 6, Faults <- MCFault, LinkFails <- {TRUE}, MaxR1 <- 210,
             Switches <- {{"TEST_SRAM", "TEST_OR1K"},
                          {"HAS_MEMORY_CONTROLLER", "TEST_SDRAM", "TEST_SRAM", "TEST_OR1K"}}
Sim == INSTANCE SimCable WITH
           TIMEOUT_COUNT <- 3, Settle <- 2, Datum <- {1, 2}, MaxBits <- 3, MaxDeaths <- 1
Legacy == INSTANCE LegacyDbg WITH
              host <- legHost, unit <- legUnit, mem <- legMem, call <- legCall, pc <- legPc,
              Adrs <- 0 .. 3, BadAdrs <- {2}, Widths <- {1, 2}, MaxWords <- 2, SoftRetries <- 2,
              MaxCalls <- 2, MaxFaults <- 3

Seqs == INSTANCE SequencesExt
\* Files: the three attributes in some order, something between them, and one statement broken.
BW(word) == <<word>>
Sp == BW("space")
Num(n) == <<"num", n>>
OpCode(n) == <<"op", n>>
Semi == BW(";")
Attribute(a) == <<BW("ATTRIBUTE"), Sp, BW(a), Sp, BW("of"), Sp, BW("name"), Sp, BW(":"), Sp, BW("entity"), Sp, BW("is"), Sp>>
MCLength == Attribute("ir") \o <<Num(4), Semi>>
MCOpcodes == Attribute("cmds") \o <<BW("quote"), BW("EXTEST"), Sp, BW("("), OpCode(0), BW(")"), BW(","), BW("quote"), Sp,
                 BW("&"), Sp, BW("quote"), BW("IDCODE"), BW("("), OpCode(2), BW(","), Sp, OpCode(3), BW(")"), BW(","), Sp,
                 BW("DEBUG"), Sp, BW("("), OpCode(8), BW(")"), BW("quote"), Semi>>
MCIdcode == Attribute("id") \o <<BW("quote"), <<"bit", "X">>, <<"bit", 1>>, BW("quote"), Sp, BW("&"), Sp,
                BW("quote"), <<"bit", 0>>, BW("quote"), Sp, Semi>>
UseGlued == <<BW("USE"), Sp, BW("std"), Semi>>
Between == {UseGlued, <<BW("USE"), Sp, BW("std"), Sp, Semi>>, <<BW("ENTITY"), Sp, BW("name"), Sp, BW("is")>>,
            <<BW("PORT"), Sp, BW("("), BW("p"), BW(":"), BW("("), Num(1), BW(")"), Semi, Sp, BW(")"), Sp, Semi>>,
            <<BW("CONSTANT"), Sp, BW("c"), Sp, BW(":"), BW("is"), Sp, BW("v"), Semi>>,
            <<BW("ATTRIBUTE"), Sp, BW("other"), Sp, BW("is"), Sp, BW("quote"), Semi, BW("quote"), Semi>>}
Orders == {<<MCLength, MCOpcodes, MCIdcode>>, <<MCIdcode, MCLength, MCOpcodes>>, <<MCOpcodes, MCIdcode, MCLength>>}
Broken(st, k) == IF k > 2 /\ k < Len(st) /\ st[k] = Sp
                 THEN <<SubSeq(st, 1, k) \o <<BW("--"), Semi>>, <<BW("--"), BW("is")>>, <<Sp>> \o SubSeq(st, k + 1, Len(st))>>
                 ELSE <<st>>
MCFile(o, b, p, n, k) ==
    LET f == SubSeq(o, 1, p) \o <<b>> \o SubSeq(o, p + 1, 3)
    IN [lines |-> Seqs!FlattenSeq([i \in DOMAIN f |-> IF i = n THEN Broken(f[i], k) ELSE <<f[i]>>])
                  \o << <<BW("END"), Sp, BW("name"), Semi>> >>,
        missed |-> IF p < 3 /\ b = UseGlued THEN {o[p + 1][3][1]} ELSE {},
        ir |-> 4, id |-> <<"X", 1, 0>>, cmds |-> [DEBUG |-> 8, IDCODE |-> 2, USER1 |-> -1]]
Bsdl == INSTANCE BsdlParse WITH
            file <- bsFile, pc <- bsPc,
            Files <- {MCFile(o, b, p, n, k) : o \in Orders, b \in Between, p \in 0 .. 3, n \in 1 .. 4, k \in {0, 4, 8, 12, 20, 23}}

ASSUME Tests!SelfTestAssumption /\ Sim!SimCableAssumption /\ Legacy!LegacyAssumption
ASSUME Chain!ChainAssumption /\ Packet!PacketAssumption /\ Ft!FtAssumption

chain == <<bench, wire, conf, found, scan, at>>
packet == <<reader, sending, target, toServer, toClient, gdb>>
ft == <<ftdi, dev, ftCall, ftPc, usb>>
tests == <<todo, place, stPc, success, insn, sum, seen, cpu, ram, enabled, overrun, hw>>
simulator == <<cable, bit, gdb_in, gdb_out, toSim, toJp, sim>>
legacy == <<legHost, legUnit, tap, legMem, ctrl, legCall, legPc, left>>
bsdl == <<bsFile, pos, last, bsPc, what, opens, valid, buf, info>>
below == <<chain, packet, ft>>
beside == <<tests, simulator, legacy, bsdl>>

BridgeInit ==
    /\ part \in Parts
    /\ Init /\ (part # "burst" => env = [faults |-> MaxFaults, calls |-> 0, lost |-> FALSE, xilinx |-> TRUE])
    /\ Packet!Init /\ Ft!Init
    /\ \/ part = "chain" /\ Chain!Init
       \/ /\ part # "chain" /\ at = "unused"
          /\ bench = 0 /\ wire = 0 /\ conf = 0 /\ found = 0 /\ scan = 0
    /\ \/ part = "selftest" /\ Tests!Init
       \/ /\ part # "selftest" /\ stPc = "unused" /\ todo = <<>> /\ place = 0 /\ success = FALSE /\ insn = 0
          /\ sum = 0 /\ seen = 0 /\ cpu = 0 /\ ram = 0 /\ enabled = FALSE /\ overrun = FALSE /\ hw = 0
    /\ \/ part = "simulator" /\ Sim!Init
       \/ /\ part # "simulator" /\ cable = 0 /\ bit = 0 /\ gdb_in = 0 /\ gdb_out = 0 /\ toSim = 0 /\ toJp = 0 /\ sim = 0
    /\ \/ part = "bsdl" /\ Bsdl!Init
       \/ /\ part # "bsdl" /\ bsFile = 0 /\ pos = 0 /\ last = <<>> /\ bsPc = "unused" /\ what = 0
          /\ opens = 0 /\ valid = FALSE /\ buf = 0 /\ info = 0
    /\ Legacy!Init

InBurst(A) == part = "burst" /\ A /\ UNCHANGED <<part, below, beside>>
InChain(A) == part = "chain" /\ A /\ UNCHANGED <<part, vars, packet, ft, beside>>
InPacket(A) == part = "packet" /\ A /\ UNCHANGED <<part, vars, chain, ft, beside>>
InFt(A) == part = "ft2232" /\ A /\ UNCHANGED <<part, vars, chain, packet, beside>>
InTests(A) == part = "selftest" /\ A /\ UNCHANGED <<part, vars, below, simulator, legacy, bsdl>>
InSim(A) == part = "simulator" /\ A /\ UNCHANGED <<part, vars, below, tests, legacy, bsdl>>
InLegacy(A) == part = "legacy" /\ A /\ UNCHANGED <<part, vars, below, tests, simulator, bsdl>>
InBsdl(A) == part = "bsdl" /\ A /\ UNCHANGED <<part, vars, below, tests, simulator, legacy>>

BridgeNext ==
    \/ InBurst(NewCall) \/ InBurst(SelectModule) \/ InBurst(SelectFails) \/ InBurst(BurstCommand)
    \/ InBurst(CommandFails) \/ InBurst(Transfer) \/ InBurst(ReadTimesOut) \/ InBurst(WriteFails)
    \/ InBurst(CheckCrc) \/ InBurst(Retry) \/ InBurst(NoRetry) \/ InBurst(CheckError) \/ InBurst(ErrorFails)
    \/ (\E s \in BOOLEAN : InBurst(CtrlWrite(s))) \/ InBurst(CtrlRead) \/ InBurst(CtrlFails)
    \/ InChain(Chain!TapReset) \/ InChain(Chain!EnumerateChain) \/ InChain(Chain!ConfigureChain)
    \/ InChain(Chain!CheckIdcode) \/ InChain(Chain!EnableDebugModule) \/ InChain(Chain!LosesTransfer)
    \/ InChain(Chain!RetryDo) \/ InChain(Chain!ScanWhole)
    \/ InPacket(Packet!get_packet) \/ InPacket(Packet!AwaitAck) \/ InPacket(Packet!Ask) \/ InPacket(Packet!AskBreak)
    \/ InPacket(Packet!AskAgain) \/ InPacket(Packet!GetAnswer) \/ InPacket(Packet!GetAgain)
    \/ InFt(Ft!NewCall) \/ InFt(Ft!Return) \/ InFt(Ft!Flush) \/ InFt(Ft!FlushSome) \/ InFt(Ft!ReceiveSome)
    \/ InFt(Ft!ReceiveFails) \/ InFt(Ft!Buffer) \/ InFt(Ft!FlushCall) \/ InFt(Ft!ReadBuffered)
    \/ InFt(Ft!ReadSome) \/ InFt(Ft!ReadDirectFails)
    \/ InTests(Tests!Execute) \/ InTests(Tests!Strays) \/ InTests(Tests!check) \/ InTests(Tests!Controls)
    \/ InTests(Tests!Stalled) \/ InTests(Tests!Poll) \/ InTests(Tests!Writes) \/ InTests(Tests!Reads)
    \/ InTests(Tests!WriteBlock) \/ InTests(Tests!ReadBlock) \/ InTests(Tests!Triples) \/ InTests(Tests!Result)
    \/ InSim(Sim!cable_rtl_sim_init) \/ InSim(Sim!cable_vpi_init) \/ (\E r \in BOOLEAN, d \in {1, 2} : InSim(Sim!NewBit(r, d)))
    \/ InSim(Sim!Raise) \/ InSim(Sim!Done) \/ InSim(Sim!FileF) \/ InSim(Sim!FileOpen) \/ InSim(Sim!FileWrite)
    \/ InSim(Sim!FileAcked) \/ InSim(Sim!FileInout) \/ InSim(Sim!VpiOut) \/ InSim(Sim!VpiAck) \/ InSim(Sim!VpiAckFails)
    \/ InSim(Sim!VpiInout) \/ InSim(Sim!VpiTdo) \/ InSim(Sim!cable_vpi_wait) \/ InSim(Sim!Waited)
    \/ InSim(Sim!ReadMem) \/ InSim(Sim!OpenAck) \/ InSim(Sim!WriteAck) \/ InSim(Sim!FilePins)
    \/ InSim(Sim!init_sock) \/ InSim(Sim!jp_check_con) \/ InSim(Sim!JpInPins) \/ InSim(Sim!JpInTdo) \/ InSim(Sim!JpInWait)
    \/ InSim(Sim!vpi_jp_out) \/ InSim(Sim!Clock) \/ InSim(Sim!Dies)
    \/ InLegacy(Legacy!NewCall)
    \/ (\E result \in Legacy!Results : \/ InLegacy(Legacy!legacy_dbg_set_chain(result)) \/ InLegacy(Legacy!legacy_dbg_command(result))
                                      \/ InLegacy(Legacy!legacy_dbg_go(result)) \/ InLegacy(Legacy!legacy_dbg_ctrl(result))
                                      \/ InLegacy(Legacy!legacy_dbg_ctrl_read(result)))
    \/ InBsdl(Bsdl!AtLine) \/ InBsdl(Bsdl!Finished) \/ InBsdl(Bsdl!Skip) \/ InBsdl(Bsdl!Port) \/ InBsdl(Bsdl!Header)
    \/ InBsdl(Bsdl!Copy) \/ InBsdl(Bsdl!Value)
bridgevars == <<part, vars, below, beside>>
BridgeSpec == BridgeInit /\ [][BridgeNext]_bridgevars /\ WF_bridgevars(InBurst(Step))

\* A call of the older unit that returns success has read what is there or written what it was given,
\* and nothing outside its range; the bridge never mistakes the unit's chain (LegacyDbg).
OlderUnitRight == [](Legacy!LegacyTruthful /\ Legacy!LegacyChainMirrors) /\ Legacy!LegacyStaysInRange
\* Enumeration finds the devices that are there; once start-up or a retry has selected the debug
\* unit its instruction is in place, and a data scan is exact wherever the target sits in the chain
\* (JtagChain); what is known of a device is what its file states (BsdlParse); and to a simulated chip
\* every bit goes once, with time to settle, and comes back as it was shown (SimCable).
ScansReachTarget ==
    /\ part = "chain" => Chain!ChainFound /\ Chain!TargetSelected /\ Chain!ScanExact /\ Chain!SanityTestPasses
    /\ part = "bsdl" => Bsdl!LayoutIndifferent /\ Bsdl!ParserEnds
    /\ part = "simulator" => Sim!BitExact /\ Sim!HalfPeriods
\* The self-test passes on a sound system, and only there as far as its tests reach, and leaves the
\* program it tested with as it wrote it (SelfTest).
SelfTestTruthful ==
    part = "selftest" => Tests!SoundSystemPasses /\ Tests!TrapsRemoved /\ Tests!FaultsFound
\* A request answered has done what the client meant, and the answer is its own (RspPacket).
PacketsExact == Packet!RequestsTakeEffect /\ Packet!AnswersExact
\* A read is given the answers to its own commands, a call leaves none behind, and the loops
\* without end wait for answers that come (Ft2232).
AnswersInOrder == Ft!OwnAnswers /\ Ft!NothingHeldBack /\ Ft!WaitsForAnswers
=============================================================================
