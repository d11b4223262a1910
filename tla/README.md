# Verification of the multi-chip OpenRISC SoC

The repository holds a package of four chiplets. Each chiplet is an OpenRISC SoC
(`soc/rtl/or1k_soc_top.v`) built around a Wishbone crossbar, with three die-to-die
links to its neighbours, a matrix multiplier, and a collection of OpenCores
peripherals; a monitor program boots images over the network and keeps them in flash,
and a program on the host connects GDB to the debug unit. This directory models the
hardware the repository itself contributes (the links and the multiplier) and the
programs that hold protocol state: test programs, monitor services and drivers, the JTAG
bridge and the graphics library. TLC checks all of them on small instances. TLAPS proves,
for every value of the constants, the safety of eight parts: both halves of the link and
the link joined from them, the matrix multiplier, the directory of images in flash, the
boot over the network, the load over the serial line, the GDB server and the calls of the
debug API. Paths below are relative to `src/soc/`;
`OM` is `sw/orpmon`, `AB` is `sw/adv_jtag_bridge`.

## 1. Inventory

| Component | State it keeps | Operations | Interacts by | Hard behaviour | What makes it correct |
|---|---|---|---|---|---|
| Link, transmit half (`rtl/d2d/verilog/d2d_link_top.v`) | CSRs, DMA engine, 8-slot TX FIFO, pointers in both domains, sender | fetch two words, write a flit, cross pointers, send or retry | Wishbone master, `tx_valid`/`tx_ready` | two clocks, stale pointers, a latch and a register without reset | every flit read is presented once, in order; nothing dropped or overwritten |
| Link, receive half (same file) | port, 8-slot RX FIFO, pointers, DMA engine | take a flit, cross pointers, store two words | `rx_valid`/`rx_ready`, Wishbone master | as above, backpressure one cycle late | every flit taken is stored once, in order, whole |
| Link wrapper (`d2d_link_wrapper.v`) | grant, last grant | grant RX or TX, return | shared bus, acknowledges | two engines, one bus | an acknowledge reaches the engine it is for, both get the bus |
| Package (`rtl/multi_chip_package.v`, `rtl/chiplet.v`) | wiring, clocks | - | links between four chips | chips start independently, two clock rates | a transfer arrives whole; every transfer ends |
| Test programs (`sw/sdram_test/main.c`) | buffers, counts of passed and failed rows | set up, start, poll, compare | CSRs | polls with a limit, a status that lags | done means copied; a failure is counted, and only a failure |
| Multiplier (`rtl/gemm/verilog/gemm_dma_packed_pipe_dp.v`) | CSRs, DMA, FSM of 26 states, three scratchpads, counters | load A and B, multiply, activate, quantize, saturate, write C | Wishbone slave and master | registered writes and pipelined indices, late status bits, packings | C equals the golden model when the program stops polling; nothing else is written |
| SD boot (`sw/sd_boot_loader/main.c`, `sw/sdram_test/bootmain.c`) | shift register, memory | command, read, compare, jump | SPI master | writes ignored while a transfer runs | the image is in memory whole at the jump |
| Graphics library (`sw/gfx/drivers/gfx/bare`) | copies of the hardware's registers, surfaces, pages | bind, set, draw, flip | registers, interrupts of the VGA core | an engine that still draws, two builds of one library | the page shown is not drawn into; pixels without gaps |
| Network boot (`OM/services/net.c`, `arp.c`, `tftp.c`, `OM/drivers/eth.c`) | handler, timer, state of the transfer, receive ring | ARP, request, acknowledge, time out, start again | frames | loss, repetition, reordering, late sessions, timeouts | the file is in memory whole when its size is returned; a boot ends |
| Addresses (`OM/services/bootp.c`, `rarp.c`) | identifier, state, timer | request, take a reply, parse options | frames | replies to others and to earlier requests | the address used is one promised to us |
| Ethernet drivers (`OM/drivers/eth.c`, `smc91111.c`) | descriptor rings; banks and packets of the chip | initialise, send, receive, halt | controller, PHY | a controller that goes on beside the driver | frames leave and arrive once, in order, whole |
| Flash images (`OM/cmds/load.c`, `OM/drivers/flash.c`) | directory, flash | place, list, store, delete, save, boot | flash | power failures, arrays shifted by hand | images never overlap; a listed image is whole |
| Serial load (`OM/services/modem.c`) | block number, buffer, length | XMODEM and YMODEM | UART | garbled bytes, lost answers, numbers that wrap | the file is in memory in order |
| Disk (`OM/drivers/ata.c`, `OM/services/dos.c`, `OM/cmds/hdbug.c`, `atabug.c`) | modes, cluster buffer and its place | open, request, walk a directory | ATA registers | failing requests, copies of a device's mode | what is given out is what was asked for |
| Console (`OM/drivers/keyboard.c`, `OM/common/common.c`, `screen.c`) | ring, shift state, line, cursor | interrupt, getc, edit, split | keyboard, screen, UART | an interrupt between any two accesses | keys in order; the line executed is the line shown |
| GDB server (`AB/rsp-server.c`) | `rsp`, breakpoint table, cached NPC, state of the polling thread, pipe | one handler per request, continue, step, stop, report; packets | socket, pipe, condition variable, debug unit | two threads, the processor and the client in any order; a stop that races a request | flags and copies tell the truth; every stop is reported, once, with its reason |
| Debug unit access (`AB/dbg_api.c`, `adv_dbg_commands.c`, `chain_commands.c`; older unit: `legacy_dbg_commands.c`) | selected module and register, retry count | select, burst read and write, control registers, reset and retry | cable, mutex | corrupted bits, timeouts, bus errors, resumed bursts | success means done; nothing else is written; calls return |
| Start-up and cables (`AB/chain_commands.c`, `cable_*.c`, `bsdl_parse.c`, `sim_lib`, `sim_rtl`) | chain's layout, clock level, buffers | enumerate, shift, flush, parse | pins, USB, files, socket | bypass bits, short reads, two programs on one file | a scan reaches the target's register and comes back |
| Self-test (`AB/or32_selftest.c`) | - | test memory, step the processor | debug API | faults that cancel out | passes on a sound system, and leaves it as it was |
| Interconnect (`rtl/wb_conmax`) | grants, priorities | arbitrate, route | all masters and slaves | contention, priorities, a grant held over a cycle | mutual exclusion, no starvation at one priority |
| Peripherals (`uart16550`, `wbuart`, `ethernet`, `mem_if`, `mmc_sd`, `spi`, `gpio`, `gfx`, `flash_sram`, `rom_wb`) | FIFOs, shift registers, command FSMs | register accesses, transfers | Wishbone, pins, interrupts | FIFO limits, timeouts, crossings | transfers are complete and status bits tell the truth |
| Processor (`rtl/or1200`), debug units (`rtl/dbg_interface`, `rtl/adv_debug_sys`) | pipeline, caches, MMU; JTAG chains, bursts | instructions; read, write, stall | Wishbone, TCK | crossings, CRC | - |

`PROJECT.json` lists every component with what is modelled of it, and every hazard
with the line where it bites. The last three rows are not modelled.

## 2. Modules

```
FlitChannel            what a stage of the link promises: a bounded, reliable, ordered channel
D2DRing                ring pointers, Gray code, flits
 |- D2DTx              transmit half; refines FlitChannel     <- D2DHalvesProofs
 |- D2DRx              receive half; refines FlitChannel      <- D2DHalvesProofs
 |- D2DLink            D2DTx + D2DRx + two D2DArb; refines FlitChannel   <- D2DLinkProofs
D2DArb                 the wrapper's arbiter
Gemm                   matrix multiplier, its program, the golden model  <- GemmProofs
Modem                  serial load, sender and line           <- MonitorProofs
NetBoot                network boot, network and server       <- NetworkProofs
Bootp                  address by BOOTP, DHCP or RARP, servers           <- NetworkProofs
EthRing                rings of the first Ethernet driver, MAC           <- NetworkProofs
RspServer              GDB server, polling thread, processor, client     <- RspProofs
DbgBurst               debug unit access, link and debug unit <- DbgBurstProofs
FlashDir               image directory, flash, power failures <- MonitorProofs
GfxDriver              both builds of the graphics library, engine, VGA core   <- GfxProofs
MCBoard                Gemm (by MCGemm), GemmCheck, PackageTest, GfxDriver, GfxRaster, SdBoot
MCBridge               DbgBurst, JtagChain, RspPacket, Ft2232, SelfTest, SimCable, LegacyDbg, BsdlParse
MCMonitor              FlashDir, AtaDos, Shell, Modem, Bootp, Smc91111, EthRing
MCD2DTx MCD2DRx MCD2DLink MCGemm MCNetBoot MCRspServer    instances of one specification
```

A module right of an arrow holds the theorems about the one left of it. The three hosts
(`MCBoard`, `MCBridge`, `MCMonitor`) run parts that share no state: the variable `part` is
chosen at the start, the actions of that part are the only ones taken, and the others' variables
stay as they are. A host is a way to give TLC several small specifications in one run; it adds
no interaction and hides none.

**Steps are clock edges.** In the link, one action is one edge of `wb_clk` or `d2d_clk`
(or of both at once); all registers of that domain change together, from the values
before the edge, as non-blocking assignments do. The two domains meet through
registers only. When both clocks rise together, a register that samples the other
domain captures any mix of its source's old and new bits (`Mix` in `D2DRing`), which is
what makes the Gray code matter. Names are those of the Verilog, and every
combinational helper (`tx_fifo_full`, `SideReady`, `SendGo`) is an operator.

| Module | Variables | Actions and code |
|---|---|---|
| `D2DTx` | control, address and length registers; DMA engine; FIFO, its pointers and Gray copies on each side; sender; `sent` and `presented` (history) | `TxDmaIdle` ... `TxDmaDone`: the arms of the TX DMA case statement; `TxFifoWrite`, `SyncReadPtr`: write side; `TxFifoRead`, `SyncEnable`: read side; `SendNothing`, `SendNext`, `SendRetry`, `SendReturn`: the sender's arms. `TxWbTick`, `TxD2dTick`, `TxBothTick` compose them into edges |
| `D2DRx` | the mirror image; `received` and `stored` (history) | `RxDmaIdle` ... `RxDmaDone`, `RxFifoRead`, `PortTake`, `PortWait`, `RxFifoWrite`, `SyncControl` |
| `D2DArb` | `arb_state`, `last_was_rx` | `ArbIdle`, `ArbGrant`, acknowledge routing |
| `D2DLink` | both halves, two arbiters, two counters that tie the clock rates | `WbTick`, `D2dTick`, `BothTick`; `SetUpA` and `SetUpB` are the writes of `d2d_test` |
| `Gemm` | register slave bits, `MODE`, Wishbone master, FSM, counters, RAM ports, scratchpads, memory at C, program | one `Next`: program access or none, `Handshake`, one `Fsm` arm, `DpRam` |
| `GemmCheck` | what the tests wrote, operands as packed, a result with at most one element changed, counts | `load_input_matrices`, `Engine`, `gemm_check_results` (a row a step) |
| `PackageTest` | one die's program; what its peers have started, what has arrived | `StartTx`, `StartRx`, `PollTurn`, `Check`; the other dies and the links |
| `SdBoot` | program, SPI master, flash that streams, memory | one action per poll, transfer and copy of the two loaders |
| `GfxDriver` | both builds' settings, the engine, the VGA core, the page pointers | the calls of the library under one program, the engine's end, the end of a frame |
| `GfxRaster` | a surface, the pixels drawn | rectangles, sprites, lines, triangles, curves of `orgfx_sw.c` |
| `RspServer` | `rsp`; `todo`, the steps a handler has still to take; `th`, the polling thread with `target_handler_state`; `pipe`; processor, memory; both directions of the socket; client | `rsp_client_request`, `PipeEvent`, `PollError` are the outcomes of `poll` in `handle_rsp` and fill `todo` with the handler's steps; `put_packet` ... `StateStep` take one; `HandlerTop` ... `HandlerHalt` are the sections of `target_handler` between its locks; `Execute` is an instruction |
| `RspPacket` | the reader's place, the reply being sent, both streams, target, client | `get_packet`, `put_packet` character by character, handlers with data |
| `DbgBurst` | `host`: the statics of the bridge; `unit`: the debug unit; memory behind each module; stall bits; the call in progress | `StartCall` enters a function of `dbg_api.c`; `SelectModule`, `BurstCommand`, `Transfer`, `CheckCrc`, `CheckError`, `CtrlRead`, `CtrlWrite` are its scans; `SelectFails`, `CommandFails`, `ReadTimesOut`, `WriteFails`, `ErrorFails`, `CtrlFails` the failures of each, `Retry` and `NoRetry` what follows |
| `LegacyDbg` | the same for the older unit | chain, command and go scans with their retries |
| `JtagChain` | TAPs of a chain at their pins, the bridge's configuration, a scan | start-up, enumeration, instruction and data scans over five cables |
| `Ft2232`, `SimCable` | buffers on both sides, device or simulator | writes, flushes, short reads; files and socket with both halves |
| `BsdlParse`, `SelfTest` | place in the file and what was found; list of accesses still to make | a loop that fetches a line; an access |
| `NetBoot` | `net`: the statics of `net.c`, `arp.c`, `tftp.c`; memory at the load address; receive ring; wire; server | `Boot` enters `NetLoop`; `EthRx`, `Expire`, `EndTurn`, `Abort` are what a turn of its loop does; the handlers are operators on `net` with the code's names |
| `Bootp` | statics of `bootp.c` and `rarp.c`, messages, leases | `Start`, `Timeout`, `Receives`, the servers |
| `Smc91111`, `EthRing` | chip with banks and packets, PHY, driver; descriptors and buffers | the driver's code between two polls; the controller's steps |
| `FlashDir` | `gcfg`, `flash`, the command and its locals; `torn`, `unwritten` (history) | `Download` (tboot, sboot), `DeleteOne`, `DeleteAll`, `SaveConf`, `BootImage`; `EraseCfg`, `ProgramCfg`, `EraseImage`, `ProgramImage` are the parts of a command between which power may fail |
| `AtaDos`, `Shell`, `Modem` | statics of the drivers and services with their devices | a command or an entry of a directory; a stroke, an interrupt, a character; a byte of a block |

Abstractions: a word of memory is known by its address, so a flit is the pair of its
words' addresses (which makes loss, duplication, reordering and mixing of halves all
visible); registers that nothing reads are left out (`rx_d2d_state` is only ever IDLE,
`rd_ptr_bin` and `tx_fifo_rd_ptr_gray` are dead, `dma_rdata` after a write is never
used); pointers are the low bits the code indexes and compares with. In `Gemm` the
stages `w0_x`, `w1_y`, `w2_z` of the writeback are one group of four lanes, since each
is overwritten from the one before.

In the programs a step is what no other actor can see the inside of: the section between
two accesses to shared state in `RspServer` (the code's locks are the reason for most of
them), one scan of the chain in `DbgBurst` (`dbg_access_mutex` is held for a whole call, so
that calls never interleave), one handler called by the loop in `NetBoot`, one erase or
program of the directory or of an image in `FlashDir`. A word is the pair of its writer and
its index, a block of a file the pair of file and number, a block of flash the pair of
download and number: what is mixed up, skipped or stale shows.

Operators whose comment begins with "Fault:" are plausible mistakes, used in
`PROJECT.json` to show that each property notices one; no action uses them.

## 3. What is checked

| Run | Instance | Shows |
|---|---|---|
| `tx` | ring of 4 slots, runs of 3 flits, up to 6 flits in all, start, gating and reset in any order | no strobed flit dropped (`StrobeFindsRoom`), no unread slot overwritten (`TxNoOverwrite`), the inductive invariant of the proof (`TxInv`), the half refines the channel (`ReliableTx`) |
| `rx` | ring of 4 slots, runs of 3, up to 5 flits taken | the inductive invariant, with ready only where there is room and no unread slot overwritten (`RxInv`); the half refines the channel (`ReliableRx`) |
| `link` | two dies, 4 flits through rings of 4, up to 2 wb edges per d2d period | no flit lost between the dies, with all the facts that proof rests on (`PacedInv`, of which `NoFlitLost` is a part), memory to memory is a channel (`ReliableLink`), the done bit means that every word is at its place (`DoneMeansCopied`) |
| `link_live` | two dies, 3 flits | both started, in either order, leads to done for good (`TransferCompletes`) |
| `link_slow` | as `link`, 4 wb edges per d2d period | finding 1: `NoFlitLost` is violated |
| `board` | see below | operands complete when used and every sum stored when read (`EngineInv`); result equals the golden model when the poll ends, and the done bit is never that of another run (`ResultTruthful`); the poll ends (`PollEnds`); the page shown is not drawn into and both builds of the library are set up alike (`DriverRight`); pixels without gaps, no test counts a pass that is none, the loader jumps to an image that is in place (but for a word that does not keep its value, which it has reported where the read-back reaches), and the graphics library's inductive invariant holds (`PartsRight`) |
| `gemm_overrun`, `gemm_bytes` | one run of the multiplier | findings 2 and 3 |
| `rsp` | two addresses, ten kinds of request, two requests, one break, at one address bus faults and stops for a reason the server does not know, spurious wake-ups, failed polls | the inductive invariant with the copies of NPC and step mode (`RspInv`), `target_running` is set while the processor runs (`RunningIsFlagged`), a stop reply is about a stop and gives its reason, if the server knows it (`StopReplyTruthful`), memory holds a trap exactly where the table has an entry (`TableMatchesMemory`), stops are reported, but for the race of section 4 (`StopReportedUnlessOvertaken`) |
| `bridge` | see below | the inductive invariant of the debug API's calls: success means done (`BurstInv`); nothing else is written (`WritesStayInRange`); every call returns once faults end (`CallReturns`); scans reach the target (`ScansReachTarget`); packets and their answers (`PacketsExact`); the FT2232's answers (`AnswersInOrder`); the self-test (`SelfTestTruthful`); the older unit (`OlderUnitRight`) |
| `net` | two boots, files of two blocks, three ports, two faults | the inductive invariant, with a timer for every wait (`NetInv`), a boot that succeeds has its own file whole and what is acknowledged is stored (`BootTruthful`), every boot ends (`BootEnds`) |
| `monitor` | see below | images do not overlap (`ImagesDisjoint`), a listed image is whole (`ImagesWhole`), an insertion or deletion touches no other entry (`OthersStay`), the inductive invariant (`FlashInv`); disk and console (`InputExact`), the serial load (`FileInPlace`), the address taken is ours (`AddressOurs`) and its options are read whole, the second driver's frames and the invariants behind `AddressOurs` and `RingsExact` (`NetworkRight`), the first driver's rings (`RingsExact`) |

**Bounds of the links.** A ring of four slots fills, empties and wraps within the
flits allowed: with four flits each pointer goes once round and comes back to zero. Two-bit
Gray words have neighbouring words that differ in either bit. In `tx` and `rx` the number of
flits is bounded by a state constraint (`Bounded`); the length registers are above the number
of slots minus one (or several runs follow one another), so WAIT3, RETRY and backpressure
all happen. The three-bit Gray functions of the code are evaluated directly: `MCD2DRx`
instantiates `D2DRing` with eight slots and TLC evaluates `GrayAssumption` on it. The
theorems remove these bounds altogether. The bound that matters is the ratio of the clocks,
and it cannot be removed (finding 1).

**Bounds of the multiplier and the board.** The order must be at least 3 (see
`SizeAssumption`); with 4 each index takes a first, middle and last value. Elements have 8
and 4 bits and accumulators 16, so that saturation at both ends happens with small numbers;
the code has 16, 8 and 32. Two runs in any pair of four modes let one find what the other
left. The graphics library has four surfaces, four calls and texts of two pieces; its pixels
lie on a target of five by four with two steps a pixel. The package's test moves two words
on each link and gives a poll up after one turn, the least that tells a late link from one
that is in time. The loaders copy three groups of blocks of two words, with one word that may be damaged.

**Bounds of the bridge.** Three addresses, the middle one always failing; a block of three words
has a first, middle and last one to fail at; two bus errors exceed `MaxBusErrors` with the
failing address; two calls let one find what the other left, with and without the Xilinx
work-around. The chains are a single device, one with bypass bits on both sides, one with two
vendors, and one with a register as long as a word; scans of 1, 8 and 33 bits lie below, at and
beyond a byte and a word, and one clock may be lost. Packets go through a buffer of thirteen
characters with one character of noise. The FT2232's buffers hold two answers and seven commands, so that scans of 17
and 34 bits overflow them. The self-test has six address lines with every line stuck, pairs
joined, and words inside and outside its blocks damaged. The simulator's cables shift three
bits with one end of the simulator. The older unit has two calls and three faults. The BSDL
files are three orders of the attributes, with six things between them and a statement broken
at six places.

**Bounds of the monitor and of the network.** In `FlashDir` three slots are a first, middle
and last entry; lengths of one and five bytes with blocks of two give partly filled blocks
and holes of every size, one too small included; four downloads and one power failure. The disk
has two devices with different modes, one sector a cluster, and four commands. The keyboard's
ring holds three codes for five strokes, the screen is three by three characters, and lines at
the UART have up to four. Block numbers of the serial load count modulo four over files of
three and five blocks. Two servers and a neighbour answer address requests. Both Ethernet
drivers wrap their two descriptors, or fill the chip's two packets. In `NetBoot` block numbers
wrap after four, two boots give late frames of the first to the second, and three ports let the
second take a used or a fresh one, after an earlier restart too. In `RspServer` two addresses
are a breakpoint and another instruction; two requests and a break are enough for a release, a
stop, and a second release that meets the report of the first. Bus faults happen at one of the
addresses only, which makes the other one that can be continued from.

**Assumptions about the environment.** `PowerUpAssumption`: the unreset latch
`n_tx_d2d_state` does not power up as RETRY. `GapAssumption`: the program's register
accesses are at least three edges apart; the busy bit follows a start by two edges, so a
faster poll would end at once (the processor, crossing the interconnect, is slower). In
`D2DLink`, `MinWb`, `MaxWb` and `MaxD2d` tie the clock rates. The program places C where
the words behind it hold neither operand. In `DbgBurst` a corrupted stream never has the
right CRC. In `Ft2232` a command sent twice gives its answers twice, but does not move the chain twice. In `NetBoot` frames that are not for us and malformed frames are dropped unseen,
and the MAC sends what it is given before the loop takes its next step (`EthRing` drops this
for the driver); `FileBlocks < BlockMod` says that a file is shorter than the wrap. In
`RspServer` the debug unit answers every access, and a client sends one request at a time and
acknowledges what it gets; it may disconnect at any time. In `FlashDir` erasing and
programming work unless power fails. On the serial line bytes change and answers are lost, but
no byte of a block is: the receiver has no timeout there.

**Fairness.** Both clocks run for ever and the counters tie them, so weak fairness of
the next-state relation gives infinitely many edges of each. The bus answers every
access in the end: in `D2DLink` this is stated as the strobe each wrapper shows the bus
being down again and again (a wrapper that keeps a grant without a strobe gets no help
from it), in `Gemm`, and in `BoardSpec` for it, as weak fairness of the acknowledge while the
strobe is up (the strobe stays up until it); the program keeps polling. In `RspServer` both
threads, the released processor and a present client's acknowledgements go on; in `DbgBurst`,
and in `BridgeSpec` for it, the call in progress goes on, and its faults are bounded; in
`NetBoot` the loop turns, a frame that is not lost arrives and the server answers. The other
parts of the hosts have no fairness: nothing is claimed of their ends. Nothing is assumed of
software setting up a transfer: liveness starts from "both chips started".

## 4. Findings

1. *Slow d2d clock* (`link_slow`). In `TX_D2D_IDLE` the sender shows a flit, for one cycle, if the
   registered ready is up (d2d_link_top.v:827-834). On the edge on which the port takes that flit
   ready is still up, so a sender with a second flit in its FIFO shows it right behind. But with
   the first flit the port takes ready down for a cycle (894-899): it does not look at the second,
   which is lost. Two flits wait for the sender at once when the fetch engine runs several wb
   edges within one d2d period. The port is documented as an asynchronous clock domain
   (line 37). Three wb edges per d2d period are enough for TLC to find the loss; with two the
   sender never finds two flits, which is proved (section 5).
2. *Words behind the result* (`gemm_overrun`). `WORDS_TOTAL` counts elements and is
   compared before the increment: N*N + 1 words are written where N*N/2 or N*N/4 belong
   to the matrix.
3. *8-bit results* (`gemm_bytes`). `acc_addr_b` advances five times for a word of four.

Also seen while the models were written. Those marked T were found or confirmed by TLC in an
instance that is not kept.

Links and multiplier:
- A receive length below the transmit length loses flits after done (T); a start written to a
  busy multiplier starts another run; at N = 16 sums may leave the 32-bit accumulator.
- `mode_signed` has no effect: elements are sign-extended always
  (gemm_dma_packed_pipe_dp.v:47); with the bit clear the result is not the golden model's (T).
- `gemm_check_results` compares an int16 with `out & 0xffff` and its switch has no breaks; `main`
  prints PASS_CODE on CPU 0 whatever failed; polls wait for three engines even if the enable tables
  have fewer. In `bootmain.c` the flash stays selected and streams, and a poll may be given up early.

GDB server:
- *Lost wake-up* (T). After its report the polling thread sets `target_handler_state` to 0
  (rsp-server.c:2899). If the client has sent the next continue or step by then, the GO of
  `set_stall_state` (2963) is overwritten: nobody polls, and the stop is never reported. The
  comment at 2959 says the thread is woken to poll for a new stall. `StopReported` states it, and
  fails; `StopReportedUnlessOvertaken` excuses exactly this race and says that there is no other.
- A reason that `rsp_exception` does not know, or several at once, is ignored with a warning (590), but
  the stop is reported: with the signal of an earlier stop.
- `rsp_client_close` writes DSR = 0 and `rsp_server_request` does not restore it: the next
  client's breakpoints do not stop the processor. Before the first release the thread may
  already poll (a client connects with state 1) and report a stop nobody asked for.
  `put_packet` takes a break character for a missing acknowledgement and sends again.
- rsp-server.c:81-88 and 2249 promise GDB_BUF_MAX characters, `get_packet` (1131) takes
  GDB_BUF_MAX - 2 and drops longer packets (T). A `G` packet is one of these, so
  `rsp_write_all_regs` is never reached (`RspServer` models the drop, `RspPacket` both); it reads digits from
  `data[0]`, the `G` itself; `hex` returns -1, which lets a corrupted digit pass as f; the
  checksum is blind to a zero byte that is dropped.

Debug unit access:
- *Retries without end* (T). `adbg_burst_command` calls `retry_ok` at every attempt
  (adv_dbg_commands.c:319), so `NUM_SOFT_RETRIES` is never reached and a dead link keeps the mutex
  for ever; chain_commands.c:458 says retries are counted. `CallReturns` is checked with fewer faults
  than `NUM_SOFT_RETRIES` and a link that recovers, and does not speak of this loop.
- A write whose CRC differs and whose reset fails ends the program (adv_dbg_commands.c:718). A failure of the
  cable in a selection or an access to a register is returned, but what the bridge noted as selected stays.
  From there on (`env.lost`) the properties claim nothing: they would not hold.
- *Bus error of another call* (T). A call that gives up at `MAX_BUS_ERRORS`, or a read behind a
  Xilinx BSCAN (whose work-around forgets the selection, so that the error register is not read),
  leaves the error in the unit. The next call takes it for its own and resumes at that address.
- `dbg_cpu1_write` selects the first processor's module (dbg_api.c:580).
- Older unit: `retry_ok` in `set_chain` resets the count, so that a command's retries never run out
  (chain_commands.c:459); when retries are used up the TAP is left off Idle and later calls fail for
  good; `legacy_dbg_ctrl(data & 2, ...)` sends one bit of the value 2, so the reset bit is never set;
  block writes of words and halfwords leave the caller's data byte-swapped; `set_chain`'s result is
  ignored inside command, control and go.

Scan chain, cables, parser, self-test:
- `tap_set_ir` with a shift of 32 or more wipes the instruction word although
  chain_commands.c:203 says "Deal with spill into the next word"; the FT2232 leaves upper bits
  uninitialised; most cables swallow transfer errors; the usbblaster's read through libusb places bytes by
  `i & 3`.
- FT2232: a short read leaves `to_recv` above zero and the next flush without reads waits for ever;
  a negative count is added to the indexes; a failed flush leaves its commands behind, and one that
  sent a part of them sends that part again.
- Simulator cables: the bridge truncates `gdb_out` before the simulator reads it again; the old value is
  processed twice, its acknowledgement overwrites the new byte and the bridge waits for ever. A first bit read
  before any falling edge waits for ever; `cable_vpi_inout` ignores an error of out and returns
  0x80 as a bit; `recv` returning 0 loops; `num_read` is not initialised; ports lack `htons`.
- BSDL: `use X;` without a space eats the following statement; `ATTRIBUTE` alone on its line gives
  a null token; a missing `;` or a truncated file loops for ever; "entity" and "is" are known in lower
  case only; the entity's name is allocated one byte short; a leading zero makes a length octal.
- Self-test: block tests pass 0x20 as words and halfwords over arrays of 0x20 bytes;
  `test_sdram_2` and `test_sram` compare only the last word; lines stuck high and low lines joined to
  high ones are not found; the sum of the results lets wrong values compensate.

Network and Ethernet:
- `ArpTry` is counted in debug builds only (arp.c:77), so `TIMEOUT_COUNT` never ends ARP; a
  missing file is asked for again for ever. A port drawn twice lets blocks of an old session
  into a new file (T). A late error in the batch of frames that held the last block turns success
  into a restart. Block 65536 is stored before the load address.
- `NetSendPacket` ignores a NULL from `eth_get_tx_buf`: it copies to address 0 and overwrites a
  descriptor not yet sent, and `tx_next` and `tx_last` stay out of step (T).
- `bootp.c`, `rarp.c` and `smc91111.c` are not compiled as configured. The reply to a request is known by
  its identifier only; `NetBootFileSize` is cleared at every field; DHCP options do not
  skip pads, and take one that runs past the end, which `BootpVendorProcess` leaves out; they end for
  an unsigned char only (661);
  the DHCP request names `siaddr` as its server; a NAK is left to the timer; a RARP reply is taken at
  any time; `#ifdef BOOTP` tests an enumeration constant.
- LAN91C111: of odd frames the last byte is read behind the advanced pointer; the received length
  includes the control word; a reset or negotiation that succeeds in the last try is taken for a
  timeout; the path of `eth_send` that times out leaves packet number and pointer unrestored and its packet
  unreleased; `while (saved_ptr & PTR_NOTEMPTY)` looks at a saved value for ever; `eth_halt` writes
  only the low byte of RCR, so that reception stays enabled.

Monitor:
- *Image listed and not written* (T). `tboot 0`, or a number beyond the list, lists the image last and
  copies it to where the slot of the number typed points, which is RAM. An image that ends at the end of
  flash, or that was placed in the last hole, whose limit lies beyond it, is listed and refused by
  `copy_memory_run`. `ReportedImageWritten` states it.
- Power failing while the directory is programmed loses it; `save_global_cfg` does not verify,
  and a failed programming returns with interrupts disabled.
- ATA and DOS: `ata_request` writes the device register without the device bit; `usage` is kept per device
  but reset per host; `dos_open` reads neither the first cluster nor looks for an entry; a failed
  `cluster_reset` leaves `sentry` = 0 over an old buffer; the status is looked at once, a later
  error hangs `ata_read_dport`; `dos_namecmp` never matches; `argument & (ARG_PIO4|ARG_PIO3)` is
  true for modes 1 and 2; `hdbug_mount` wants `argc == 2`; umount never releases.
- Console: `\b` moves the pointer below the line's start, lines and arguments have no limit; a trailing
  blank adds an empty argument; a key without a character puts a NUL in the line; of two shift keys
  held, releasing one loses the shift; `ctrlc` takes two characters and blocks for the second.
- Serial load: the length counts refused blocks; YMODEM's closing block of a file that ends at the wrap
  is taken as data; block 255 repeated moves the range twice; a changed header makes every
  following byte a header.

Graphics: `activeSurface` is never updated; a failed `init_surface` returns -1, the screen's id;
`surfaces[NUM_SURFACES]` of `orgfx_sw.c` holds the screen and the depth buffer as well as the images and
nobody looks whether it is full (163), so that the last images are written behind it: the model's programs
load none for which it has no room (`RoomInTable`); flip resets target and clip in hardware
only; the clip rectangle is never applied in `orgfx_sw.c`; `clear_zbuffer` and `set_pixel` do
not wait for the engine; `set_pixel` writes 32 bits for a pixel of 16; corners between pixels may leave gaps.

## 5. What is proved

Every theorem holds for every value of the constants that satisfies the module's assumptions, which
TLC evaluates for the instances (`GrayAssumption` for the code's eight slots too). None of the
properties is inductive; the invariants that are, are checked by TLC in the runs as well.

**Transmit half** (`D2DHalvesProofs`): `TxInvariance`, `TxTypeCorrect`, `TxStrobeSafe`,
`TxNeverOverwrites`, and `TxReliable`, the refinement of `FlitChannel`. `TxInv` adds what makes
the properties inductive. `Ordered`: seen from the oldest copy of the read pointer, all copies
of it, the read pointer, all copies of the write pointer and the write pointer follow each
other around the ring, so every count errs on the safe side. `OneStep`: a Gray word is at most
one step behind its pointer, hence every sample of it is the old or the new word.
`StartUp`: until the unreset binary copy of the write pointer is valid the enable has
not come through. `Room`: the engine offers a flit only on a count that is not too low.
`Fetched`, `Contents`, `Presented`: the data in the engine, in the ring and in the
sender is what the history says. The proof shows each conjunct preserved by an edge of
`wb_clk`, an edge of `d2d_clk` and both together; the module begins with the arithmetic of
pointers it rests on (a pointer stepping on, a copy catching up, distances adding up).
The refinement follows: presenting is Leave, taking up is Enter, and `Ordered` bounds
what is inside.

**Receive half** (`D2DHalvesProofs`): `RxInvariance`, `RxTypeCorrect`, `RxNeverDrops` (a ready port
has room, and its slot is read), `RxReliable`. The argument mirrors the transmit half's, with two
differences: the port counts its own write at once but sees the read pointer late, and a flit
leaves the half as two words with any number of bus cycles between, so that what is delivered is
the pairs of words stored, and the word in hand is tied to the flit at the read pointer.

**Link** (`D2DLinkProofs`). `LinkHalves` and `LinkImplementsTx`: joined to each other, to two
arbiters and to tied clocks, each half takes only steps of its own specification, so that its
theorems hold. Under `[]NoFlitLost`, for any ratio of the clocks: `LinkReliable` composes the two
refinements into one channel of two rings; `LinkInvariance` and `LinkCopies` say that done means
copied when software never sets RESET (`NoReset`).

For clocks with at most two wb edges to a d2d period (`Rate`) and programs as `d2d_test` has them
(`Programs`: no RESET, START and ENABLE set at once, nothing longer sent than received) the
condition is proved: `LinkPaced`, `LinkLosesNothing`, `LinkReliableAtRate`, `LinkCopiesAtRate`. No
flit is lost because the sender never finds two. The write pointer moves at most every fifth wb edge
(`Strobing` says which stages of the fetch lie ahead, `Until` counts the edges they take at
least), and its Gray word takes two d2d edges to the sender's count. So at a rate of two each move
has come through before the next sets out: at most one of the copies is behind, by one
(`GrayStep`, `BinStep`, `CountStep`). Hence (`Handshake`) a sender that finds ready up in IDLE has
at most one flit to show, and none after it has just shown one: it shows flits singly, with a look at
ready between them that accounts for the flit before. Ready does not drop between the look and the
flit, because the FIFO had a slot, nothing else fills it, and B still wants what A still has to send
(`Budget`, `StaysUp`). The bound is the best possible: with three wb edges TLC finds the loss. What the
theorems say of the code is that a d2d clock not slower than half of wb_clk is safe.

**Multiplier** (`GemmProofs`), for every order of the matrices above two with whole words, every pair of
widths, any operands, every mode and any delay of the bus: `EngineCorrect` (the property `EngineInv`),
`EngineTypeCorrect`, and `ResultCorrect` (the property `ResultTruthful`). `EngineInv` goes along the
engine's own order of work. `Undisturbed` says that the program leaves the engine alone from its start to
its end, and what the status bits mean in between; `Requested`, that what is on the bus is the request of
the state the engine is in. `Loading` ties the state, the counter and the bytes still to be unpacked to
the part of the scratchpads that is filled. `Summing` says of each stage of the multiply which row, column
and term it holds and which the indices come to next: the accumulator is the sum of the terms before
it, and the elements behind it are stored (`Stored`, which counts a write still in the RAM port's
register). `ProductStored` and `Written` do the same for the writeback: the lanes of a group
at each of its steps, and the words in memory at C behind it (16-bit elements; those of 8 bits go wrong,
section 4). Accumulation wraps at twice
the width after each term while the reference sums without bound: cutting after every term is cutting
once (`AccSum`), so the wrapped sum is the exact one cut. The reference equals it where its numbers
fit the accumulator: that is the theorem's hypothesis, `Representable`, which is a fact about operands and
which TLC evaluates in `MCGemm`. `PowerAssumption` gives the prover what it needs of `2^b`.

**Serial load** (`MonitorProofs`), for any size of block and range of numbers, any file, and any number of
faults: `ModemCorrect` (`ModemInv`), `ModemTypeCorrect` and `FileLoaded` (the property `FileInPlace`).
`ModemInv` has two parts, both under the provisos of the property (`Clean`), which nothing restores once
they are gone. `InTurn`: while a message is under way nobody else speaks, and what the receiver has
taken of it followed by what is to come is the message that was sent, but for one byte behind the
header. `InRange`: `bno` is the range of the block the receiver waits for, and every block before it is in
place; the sender is one acknowledgement behind at most. The steps: a header is SOH or EOT as sent;
a changed number disagrees with its complement (`WholeBlock`); a changed byte changes the CRC, for each
step of it maps two values to two (`CrcTells`), so what is acknowledged is what was sent, and
what is refused is written over in the same place; the null block at the end of YMODEM lands behind the file.
An answer lost behind the last number of a range would leave the two a range apart, which is the
proviso `lastTwice` (section 4). Proving it showed a place where the model was not the code: an
EOT in the place of the null block waits for a second byte as any other does.

Both sums and the CRC are recursive functions. That such a function exists, and what it is at each
argument, follows from the least counterexample (`WFMin`) instead of the induction theorems, which the
provers cannot use: recursion over data is in reach that far.

**Images in flash** (`MonitorProofs`), for every number of slots, block size, size of flash,
base, set of lengths and of numbers typed, and without a bound on downloads or power failures:
`FlashInvariance`, `FlashTypeCorrect`, `ImagesNeverOverlap`, `ListedImagesWhole` and the action
property `OthersKeepOrder`.
`ImagesWhole` is not inductive: a copy destroys an image if its destination is not its own.
`FlashInv` ties the steps of a command together. `Directories`: both the saved directory and
the one being saved are typed, inside the limit, without overlap, and hold RAM addresses in
the slots behind the last image (so that a number beyond the list aims at RAM). `Copies`: the
number typed names the image just listed or no image (`Aimed`), and its address is among the
unwritten ones. `Wholes`: while a directory is being saved its images are whole too. The
lemmas on `get_good_addr` (what it returns lies in a hole), on insertion (`PrepareGood`) and
deletion (`RemoveGood`) carry most of the argument; `OthersApart` and `OthersWhole` say that
writing the blocks of one image leaves the blocks of the others. `OthersKeepOrder` follows from
`SameList`: a directory and the same without its entry at one place are the same list, because
images that share no block are different entries.

**Network boot** (`NetworkProofs`), for any number of ports, boots, faults, descriptors and
tries, and any file shorter than the wrap of the block numbers: `NetInvariance` and
`NetBootTruthful`. `Waits` is about the loop: a handler that waits has its timer, and counts
below the limit. `Traffic` says that every frame on the wire or in the ring is about a session
the server has, and no block beyond the session's. `OurTransfer` is the argument for
truth: while our port is fresh (not drawn before), all there is of it belongs to this transfer. At the
request nothing of it exists; every request frame then opens a session for this boot's file, which
sends its first block only, until one session is held to; that session alone moves, by one
block beyond those stored. So a block that is taken is the next, from the right file. A port
drawn twice is what `clash` excludes (section 4).

**Address from the network** (`NetworkProofs`), for any servers, neighbours, vendor areas, tries and
number of requests, and whatever is lost, repeated, reordered and late: `AddressInvariance` and
`AddressesOurs` (the property `AddressOurs`). The handlers know a reply by its identifier and look no
further, so the argument is about what can be on the wire. `Wanted`: a message with an identifier that no
neighbour uses is for a request already made; an offer or a reply has the server's address for it; an
acknowledgement or a refusal answers a question of ours, and with an acknowledgement goes the
server's promise. `Asking`: a question with the identifier of the request under way comes after the
choice of an offer and is for what was chosen. So the first packet that is taken in SELECTING, whatever
its type, is an offer: an acknowledgement or a refusal with this identifier would need a question
that has not been asked. Where a neighbour's identifier is the same, nothing is claimed (section 4).

**Rings of the Ethernet driver** (`NetworkProofs`), for rings of any size (the code's mask is a
remainder for powers of two), any link changes, restarts, damaged frames and speed of the
MAC: `RingInvariance` and `RingsInOrder` (the property `RingsExact`). Neither end of a ring knows where the
other is; each finds its own next descriptor ready or not. `SendRing` and `ReceiveRing` say that both
count the same frames: a frame's slot is its number around the ring, the ready descriptors are those of
the frames between the two counts, and the counts are at most a ring apart, so that no two of these frames
share a slot (`Places`). The ring is full when the slot of the next frame is that of the oldest, which is
what the ready bit shows (`RoomForOne`). The driver looks at that bit in sending and goes on if there
is no buffer (section 4): `RingInOrder` speaks of behaviours in which no send found the ring full.
Receiving needs no such condition, because there the MAC looks at the descriptor and leaves the frame out.

**GDB server** (`RspProofs`), for any memory, set of requests, number of clients, breaks and
faults: `RspInvariance`, `RspRunningFlagged`, `RspStopTruthful`, `RspTableRight`. The server's
programs of micro steps are well formed (`Formed`: a release is preceded by setting the flag,
the step mode is set up before a release, memory and registers are written first), which makes each step
provable without regard to the request it came from. `Releases` and `Reports` are the handshake with the polling
thread: the flag comes down only while the processor stands still, and a byte in the pipe or a
report under way speaks of a processor that does. They hold until a release overtakes a report
(`overtaken`, a history variable set by the code's race at line 2899), and no longer. `Copies`
and `StepMode` do the same for NPC and single step; `Requested` says that requests travel alone.
The proof uses `RspCore`, which is `RspInv` with the type of `todo` (a set TLC cannot enumerate).

**Graphics library** (`GfxProofs`), for any screen, number and sizes of images, rectangles, values and any
calls: `GfxInvariance`, `GfxTypeCorrect` and `DriverIsRight` (the property `DriverRight`). Two claims are in
it. That the builds agree is shown call by call: `Alike` says that both tables list the same surfaces with the
same sizes, that texture, source rectangle, enables and values are the same, and that the copies are
what the registers hold; each function of `orgfx.c` with its counterpart in `orgfx_sw.c` keeps it, and `Settles`
or `BindTargets` say what it does to the target. What a program binds is lost to a flip in hardware
only, which is the history `apart` (section 4). That nothing is drawn into the page shown (`NoTearing`)
follows from where things lie (`Layout`): the first screen at the start of memory, the second `Far` behind
it, and all images and the depth buffer between them; from what is drawn on (`Hidden`): an image or the
page that is not shown; and from the order of a flip (`Paging`): it waits for the engine, nothing is
drawn until the page has changed, and the other page is bound then. The engine keeps the addresses it was
started with, so a target bound while it draws would not do; every call waits for it first. `RoomAssumption`
says that the images fit below the second screen: the library adds a constant to its address and
never compares, so a program with more or larger images than that draws into the screen. `GfxInit` and the
theorems speak of a program that calls `orgfxplus_init` once.

**Debug API** (`DbgBurstProofs`), for any memory, failing addresses, lengths, numbers of calls and
faults: `BurstInvariance`, `CallsTruthful`, `RangeOfWrites`. `Underway` and `BurstAsAsked`: what is left of a
call begins at its address, also after a resumed burst, and the burst the unit is in is that.
`OwnErrors`: an error in the unit is at one of the call's own words, unless it was there before.
`Agreed`: behind a CRC that agrees every word is in place, unless the unit holds a bus error,
which is what is looked at next. The hypothesis `NoSecondWrite` leaves out `dbg_cpu1_write`,
which selects the wrong module (section 4), so that for it the theorem is false.

**Only model-checked.** The test programs, the pixels of the graphics library, the loaders, the
disk, the console, the options of an address, the second Ethernet driver, the scan chain and its
cables, packets, the older unit, the parser, the self-test. Of the modules with proofs: all liveness
(`TransferCompletes`, `PollEnds`, `StopReportedUnlessOvertaken`, `CallReturns`, `BootEnds`), which is
outside the prover's reach. What the recursive Gray functions compute is outside it too, which is
why they enter the proofs as an assumption.

## 6. Not modelled

The map covers some 23 % of the implementation's lines by our own count. What is left is mostly of
three kinds: third-party cores whose correctness is of another sort (the OR1200 pipeline, SDRAM
timing, the OpenCores peripherals), tables, fonts and formatting (`cprintf.c`, the font utilities),
and commands of the monitor without state of their own. Of the modelled programs: byte and halfword
accesses of the debug API (as word accesses), `copy_cmd`, header fields and checksums of frames,
depths and blending of the graphics, the opening of USB devices, and image numbers beyond twice the
number of slots, which read behind the arrays. The interconnect is the largest piece of the
repository's own control logic not yet modelled.

## 7. Plan

1. Theorems on the packets of the GDB server (`PacketsExact`) and on the disk (`InputExact`).
2. The wrapper with both engines contending for one bus, and the status register.
3. Interconnect: the round-robin arbiter and the priority selection of `wb_conmax`.
4. Peripherals in this order: `wb_uart` and `uart16550` FIFOs, the SDRAM command
   sequencer, the Ethernet FIFOs, the SD command state machine.

Not planned: the processor, vendor blocks, third-party peripherals without control
state of their own, and simulation models.
