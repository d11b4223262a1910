----------------------------- MODULE MCMonitor ------------------------------
(* Parts of the boot monitor that share no state, for TLC: the image directory (FlashDir), a disk
   read through ATA, the console and its shells, a load over XMODEM, the address asked for over the
   network, and the two Ethernet drivers.  A behaviour exercises one of them; the variables of the others stay as they
   are. *)
EXTENDS FlashDir, Modem, Bootp, EthRing, TLC

VARIABLES part,
          usage, current_pio_mode, ctrl, pctr, pftr, dev, inode, dos, walk, got, good, hung, commands,
          console, port, strokes, held, shift_state, kbd_buf, kbd_head, kbd_tail, meant, overrun,
          shellPc, ch, shell, str, screen, cx, cy, prompt, smudged, parsed,
          chip, phy, drv, log

MCNums == {0, 1, 2, 5}
MCLens == {1, 5}

\* A disk and a compact flash card on a controller with timings of their own.
Disk == INSTANCE AtaDos WITH
            Kind <- (0 :> "ata" @@ 1 :> "cfa"), Pio <- (0 :> 4 @@ 1 :> 2), HostType <- 2, Base <- 2, Sectors <- 8,
            Counts <- {1, 2}, Fats <- 1, PerFat <- 1, PerCluster <- 1, PerSector <- 2, RootEntries <- 5,
            MaxOpens <- 2, MaxCommands <- 4
\* A ring of three codes, three by three characters, and lines of up to four at the UART.
Console == INSTANCE Shell WITH
               pc <- shellPc, torn <- smudged, KBDBUF_SIZE <- 3, CHARSX <- 3, CHARSY <- 3,
               Keys <- {"x", "1", "bs", "enter"}, Shifts <- {"left"}, MaxKeys <- 5, PORT <- 2,
               UartLines <- UNION {[1 .. n -> {"x", "1", " ", "esc", "bs", "nul"}] : n \in 0 .. 4}
\* Areas of up to two options.
Options == {<<0>>, <<1, 7>>, <<13, 9>>}
MCAreas == UNION {[1 .. n -> Options] : n \in 0 .. 2}

\* Frames shorter than the least, odd and too big for the chip's memory of two packets.
Frame(len, err) == [len |-> len, err |-> err]
MCArrivals == {Frame(4, FALSE), Frame(5, FALSE), Frame(5, TRUE)}
Smc == INSTANCE Smc91111 WITH
           Packets <- {<<1, 1>>, <<1, 2>>}, Lens <- {3, 5, 8}, Arrivals <- MCArrivals,
           Caps <- {21}, Zlen <- 4, PageBytes <- 6, MaxPages <- 1, MemoryWait <- 1, AllocTries <- 2,
           ResetTries <- 2, AnegTries <- 3, MaxSends <- 2, MaxArrivals <- 1, MaxInits <- 1, MaxSlow <- 1

ASSUME Smc!SmcAssumption
ASSUME Disk!DiskAssumption /\ Console!ShellAssumption /\ ModemAssumption

disk == <<usage, current_pio_mode, ctrl, pctr, pftr, dev, inode, dos, walk, got, good, hung, commands>>
cons == <<console, port, strokes, held, shift_state, kbd_buf, kbd_head, kbd_tail, meant, overrun,
          shellPc, ch, shell, str, screen, cx, cy, prompt, smudged, parsed>>
smc == <<chip, phy, drv, log>>
drivers == <<smc, ringVars>>

MonitorInit ==
    /\ part \in {"flash", "disk", "console", "load", "address", "smc", "ring"}
    /\ Init
    /\ \/ part = "disk" /\ Disk!Init
       \/ part # "disk" /\ usage = 0 /\ current_pio_mode = 0 /\ ctrl = 0 /\ pctr = 0 /\ pftr = 0 /\ dev = 0
                        /\ inode = 0 /\ dos = 0 /\ walk = 0 /\ got = 0 /\ good = 0 /\ hung = 0
                        /\ commands = 0
    /\ \/ part = "console" /\ Console!Init
       \/ part # "console" /\ console = 0 /\ port = 0 /\ strokes = 0 /\ held = 0 /\ shift_state = 0
                           /\ kbd_buf = 0 /\ kbd_head = 0 /\ kbd_tail = 0 /\ meant = 0 /\ overrun = 0
                           /\ shellPc = 0 /\ ch = 0 /\ shell = 0 /\ str = 0 /\ screen = 0 /\ cx = 0 /\ cy = 0
                           /\ prompt = 0 /\ smudged = 0 /\ parsed = 0
    /\ ModemInit
    /\ part # "load" => mode = "xmodem" /\ file = <<2, 5, 2>>
    /\ AddressInit
    /\ part # "address" => protocol = "bootp" /\ autoload = FALSE
    /\ \/ part = "smc" /\ Smc!Init
       \/ part # "smc" /\ chip = 0 /\ phy = 0 /\ drv = 0 /\ log = 0
    /\ RingInit

InFlash(A) == part = "flash" /\ A /\ UNCHANGED <<part, disk, cons, modemVars, addressVars, drivers>>
InDisk(A) == part = "disk" /\ A /\ UNCHANGED <<part, vars, cons, modemVars, addressVars, drivers>>
InConsole(A) == part = "console" /\ A /\ UNCHANGED <<part, vars, disk, modemVars, addressVars, drivers>>
InLoad(A) == part = "load" /\ A /\ UNCHANGED <<part, vars, disk, cons, addressVars, drivers>>
InAddress(A) == part = "address" /\ A /\ UNCHANGED <<part, vars, disk, cons, modemVars, drivers>>
InSmc(A) == part = "smc" /\ A /\ UNCHANGED <<part, vars, disk, cons, modemVars, addressVars, ringVars>>
InRing(A) == part = "ring" /\ A /\ UNCHANGED <<part, vars, disk, cons, modemVars, addressVars, smc>>

MonitorNext ==
    \/ InFlash(Next)
    \/ InDisk(Disk!Atabug) \/ InDisk(Disk!Hdbug) \/ InDisk(Disk!EntryInBuffer) \/ InDisk(Disk!EntryInNext)
    \/ InConsole(Console!Stroke) \/ InConsole(Console!keyboard_interrupt) \/ InConsole(Console!Getc)
    \/ InConsole(Console!LineChar) \/ InConsole(Console!LineEnd) \/ InConsole(Console!CtrlC)
    \/ InConsole(Console!BusyEnds) \/ InConsole(Console!UartLine)
    \/ InLoad(Receive) \/ InLoad(Send) \/ InLoad(Reply) \/ InLoad(AnswerLost)
    \/ InAddress(Start) \/ InAddress(Timeout) \/ InAddress(Receives)
    \/ (\E s \in {1, 2} : part = "address" /\ \E m \in messages : InAddress(Answers(s, m)))
    \/ (\E s \in {1, 2} : InAddress(AnswersNeighbour(s, 2)))
    \/ InSmc(Smc!EthInit) \/ InSmc(Smc!MmuReset) \/ InSmc(Smc!PhyReset) \/ InSmc(Smc!PollReset) \/ InSmc(Smc!PollAneg)
    \/ InSmc(Smc!EthHalt) \/ (\E len \in {3, 5, 8} : InSmc(Smc!EthSend(len))) \/ InSmc(Smc!PollAlloc)
    \/ InSmc(Smc!PollEmpty) \/ InSmc(Smc!SendReturns) \/ InSmc(Smc!EthRx) \/ InSmc(Smc!NothingReceived)
    \/ InSmc(Smc!Release) \/ InSmc(Smc!Received) \/ InSmc(Smc!MmuReady) \/ InSmc(Smc!Allocates) \/ InSmc(Smc!Transmits)
    \/ (\E a \in MCArrivals : InSmc(Smc!Arrives(a)))
    \/ InSmc(Smc!PhyActs)
    \/ InRing(EthInit) \/ InRing(Enabled) \/ InRing(EthHalt) \/ InRing(SendPacket) \/ InRing(eth_rx)
    \/ InRing(LinkChanges) \/ InRing(MacSends) \/ (\E bad \in BOOLEAN : InRing(MacReceives(bad)))
monitorvars == <<part, vars, disk, cons, modemVars, addressVars, drivers>>
MonitorSpec == MonitorInit /\ [][MonitorNext]_monitorvars

\* What a request or a listing hands out is what was asked for, from a device that is open, in a
\* mode it supports (AtaDos).
DiskReadsRight == part = "disk" => Disk!AskedIsGiven /\ Disk!TimingSupported
\* Keys come in the order of the strokes, the screen shows the line that is executed, and it is
\* executed with the words it was typed with (Shell).
ConsoleExact == part = "console" => Console!KeysInOrder /\ Console!EchoIsLine /\ Console!SplitRight
\* What the monitor is given, by a disk or at the keyboard, is what it takes.
InputExact == DiskReadsRight /\ ConsoleExact
\* The registers of the first driver's chip are reached in their banks, a link reported up is the
\* one asked for, and frames leave and arrive once, in order and whole (Smc91111).
FramesExact ==
    part = "smc" => /\ Smc!RegistersInBank /\ Smc!SentWhole /\ Smc!SentTruthful /\ Smc!ReceivedWhole
                    /\ Smc!PacketsReturn /\ Smc!LinkTruthful /\ Smc!NegotiationGoesOn
\* What the service and the driver promise besides AddressOurs (Bootp) and RingsExact (EthRing), the
\* options of a reply read whole and in order among it, and the invariants behind those two.
NetworkRight == OptionsRead /\ AddressInv /\ FramesExact /\ RingInv
=============================================================================
