------------------------------ MODULE JtagChain ------------------------------
(***************************************************************************)
(* The JTAG bridge's way to the debug unit: start-up (configure_chain),    *)
(* chain enumeration, instruction and data scans of chain_commands.c, and  *)
(* the cable drivers under them, down to the levels of TCK, TMS, TDI and   *)
(* TRST.                                                                   *)
(*                                                                         *)
(* The scan chain is modelled at its pins, by the JTAG standard: all TAPs  *)
(* step on the rising edge, TDO and the updated registers change on the    *)
(* falling edge.  Device 1 of a chain is the one nearest to TDO, index 0   *)
(* of the code.  A register is a sequence of bits, the bit that leaves     *)
(* first in front.  A driver is the sequence of its pin changes, so that   *)
(* the level a call leaves the clock at is what the next call starts with. *)
(*                                                                         *)
(* BSDL files are taken as parsed, one at most for an IDCODE.  Shifts of a *)
(* word by its width or more wrap, as on the x86 the parallel port drivers *)
(* tie the program to.                                                     *)
(***************************************************************************)
EXTENDS Integers, Sequences, FiniteSets

CONSTANTS Device,       \* what is soldered: name -> [id, ir, idcode, debug, user1, virtual, file]
          Chains,       \* chains of devices
          Cables,       \* cable drivers in use
          ScanLens,         \* bits of a data scan
          Stack,        \* what uninitialized words hold: sets of bits
          MaxDevices,   \* MAX_DEVICES
          MaxScans,     \* bound: data scans and retries
          LostAt,       \* bound: which transfers of a scan may be lost
          MaxLost       \* bound: transfers to the cable that are lost

VARIABLES bench,   \* the set-up: cable, chain, target, command line
          wire,    \* pins and chain
          conf,    \* the globals of chain_commands.c
          found,   \* idcodes
          scan,    \* the last data scan, scans made, transfers lost
          at       \* where the program is

chainvars == <<bench, wire, conf, found, scan, at>>

Cmds == 0 .. 1023
Invalid == -1
Bits(v, n) == [i \in 1 .. n |-> IF i > 30 THEN 0 ELSE (v \div 2 ^ (i - 1)) % 2]
Ones(n) == [i \in 1 .. n |-> 1]
Zeros(n) == [i \in 1 .. n |-> 0]
IdCode(manuf, rest) == <<1>> \o Bits(manuf, 11) \o Bits(rest, 20)
NoId == <<>>
Manuf(id) == IF id = NoId THEN Ones(11) ELSE SubSeq(id, 2, 12)
Altera == Bits(110, 11)
Xilinx_ == Bits(73, 11)
AllCables == {"rtl_sim", "vpi", "xpc3", "xess", "usbblaster", "usbblaster_ftdi", "xpc_usb", "ft2232"}

ChainAssumption ==
    /\ Cables \subseteq AllCables /\ Stack \subseteq {0, 1}
    /\ {MaxDevices, MaxScans, MaxLost} \subseteq Nat /\ LostAt \subseteq Nat \ {0} /\ ScanLens \subseteq Nat \ {0}
    /\ \A c \in Chains : Len(c) > 0 /\ \A i \in DOMAIN c : c[i] \in DOMAIN Device
    /\ \A d \in DOMAIN Device : Len(Device[d].id) \in {0, 32} /\ Device[d].ir \in 2 .. 32

-----------------------------------------------------------------------------
(* The chain at its pins.                                                  *)

Dev(i) == Device[bench.chain[i]]
N == Len(bench.chain)
Index == 1 .. N

TapNext == [Reset |-> <<"Idle", "Reset">>, Idle |-> <<"Idle", "SelectDR">>,
            SelectDR |-> <<"CaptureDR", "SelectIR">>, SelectIR |-> <<"CaptureIR", "Reset">>,
            CaptureDR |-> <<"ShiftDR", "Exit1DR">>, CaptureIR |-> <<"ShiftIR", "Exit1IR">>,
            ShiftDR |-> <<"ShiftDR", "Exit1DR">>, ShiftIR |-> <<"ShiftIR", "Exit1IR">>,
            Exit1DR |-> <<"PauseDR", "UpdateDR">>, Exit1IR |-> <<"PauseIR", "UpdateIR">>,
            PauseDR |-> <<"PauseDR", "Exit2DR">>, PauseIR |-> <<"PauseIR", "Exit2IR">>,
            Exit2DR |-> <<"ShiftDR", "UpdateDR">>, Exit2IR |-> <<"ShiftIR", "UpdateIR">>,
            UpdateDR |-> <<"Idle", "SelectDR">>, UpdateIR |-> <<"Idle", "SelectDR">>]

vjtag_cmd_vir == 14
vjtag_cmd_vdr == 12
\* ALT_VJTAG_CMD_DEBUG with the bit that marks the virtual instruction.
VirDebug == Bits(24, 5)
Is(ir, cmd, n) == cmd # Invalid /\ ir = Bits(cmd, n)
Bypassed(ir) == ir = Ones(Len(ir))
\* Which data register the instruction of device i selects.
DataRegister(w, i) ==
    LET d == Dev(i)
        ir == w.ir[i]
    IN CASE Bypassed(ir) -> "bypass"
         [] d.id # NoId /\ Is(ir, d.idcode, d.ir) -> "id"
         [] Is(ir, d.debug, d.ir) \/ Is(ir, d.user1, d.ir) -> "debug"
         [] d.virtual /\ Is(ir, vjtag_cmd_vir, d.ir) -> "vir"
         [] d.virtual /\ Is(ir, vjtag_cmd_vdr, d.ir) /\ w.vir = VirDebug -> "debug"
         [] OTHER -> "bypass"
Captured(w, i) == LET r == DataRegister(w, i)
                  IN CASE r = "id" -> Dev(i).id [] r = "debug" -> w.dr [] r = "vir" -> w.vir [] OTHER -> <<0>>

Join[f \in [Index -> Seq({0, 1})], n \in 0 .. N] == IF n = 0 THEN <<>> ELSE Join[f, n - 1] \o f[n]
\* Part i of sr, the parts being as long as those of f.
Part(f, sr, i) == LET from == Len(Join[f, i - 1]) IN SubSeq(sr, from + 1, from + Len(f[i]))
ResetIr == [i \in Index |-> IF Dev(i).id = NoId THEN Ones(Dev(i).ir) ELSE Bits(Dev(i).idcode, Dev(i).ir)]

Rising(w) ==
    [w EXCEPT !.tap = TapNext[w.tap][w.tms + 1],
              !.sr = CASE w.tap = "CaptureDR" -> Join[[i \in Index |-> Captured(w, i)], N]
                       [] w.tap = "CaptureIR" -> Join[[i \in Index |-> <<1>> \o Zeros(Dev(i).ir - 1)], N]
                       [] w.tap \in {"ShiftDR", "ShiftIR"} -> Append(Tail(@), w.tdi)
                       [] w.tap \in {"Reset", "UpdateDR", "UpdateIR"} -> <<>>
                       [] OTHER -> @]
Falling(w) ==
    CASE w.tap \in {"ShiftDR", "ShiftIR"} -> [w EXCEPT !.tdo = Head(w.sr)]
      [] w.tap = "UpdateIR" -> [w EXCEPT !.ir = [i \in Index |-> Part(w.ir, w.sr, i)]]
      [] w.tap = "UpdateDR" ->
           LET f == [i \in Index |-> Captured(w, i)]
               new(r, old) == IF \E i \in Index : DataRegister(w, i) = r
                              THEN Part(f, w.sr, CHOOSE i \in Index : DataRegister(w, i) = r) ELSE old
           IN [w EXCEPT !.dr = new("debug", @), !.vir = new("vir", @)]
      [] w.tap = "Reset" -> [w EXCEPT !.ir = ResetIr]
      [] OTHER -> w

\* The levels of the pins after a transfer to the cable; read: whether TDO is returned,
\* as it was before the change or as it is after it.
Pins(clk, tms, tdi, trst, read) == [clk |-> clk, tms |-> tms, tdi |-> tdi, trst |-> trst, read |-> read]
Drive(w, p) ==
    LET v == [w EXCEPT !.clk = p.clk, !.tms = p.tms, !.tdi = p.tdi]
    IN IF p.trst = 0 THEN [v EXCEPT !.tap = "Reset", !.ir = ResetIr]
       ELSE IF w.clk < p.clk THEN Rising(v)
       ELSE IF w.clk > p.clk THEN Falling(v) ELSE v

\* The transfers s one after the other, the k-th lost, with the bits they return.
RECURSIVE Play(_, _, _)
Transfer(before, after, read) ==
    [bits |-> CASE read = "no" -> <<>> [] read = "before" -> <<before.tdo>> [] read = "after" -> <<after.tdo>>,
     wire |-> after]
Both(a, b) == [bits |-> a.bits \o b.bits, wire |-> b.wire]
Then(a, s, k) == Both(a, Play(a.wire, s, k))
Play(w, s, k) ==
    LET half == Len(s) \div 2
    IN IF s = <<>> THEN [bits |-> <<>>, wire |-> w]
       ELSE IF Len(s) = 1 THEN Transfer(w, IF k = 1 THEN w ELSE Drive(w, s[1]), s[1].read)
       ELSE Then(Play(w, SubSeq(s, 1, half), k), SubSeq(s, half + 1, Len(s)), k - half)

-----------------------------------------------------------------------------
(* The cables.  A packet holds TMS, TDI (named TDO in the code), TRST.     *)

Cable == bench.cable
\* The drivers of the USB cables and of the xpc3 have no TRST pin.
Trst(trst) == IF trst /\ Cable \in {"xess", "rtl_sim", "vpi"} THEN 0 ELSE 1
Out(clk, tms, tdi, trst) == Pins(clk, tms, tdi, Trst(trst), "no")
\* When a transfer that reads samples TDO: before it changes the pins, or after.
cable_xpc3_inout == "before"
cable_xess_inout == "before"
cable_rtl_sim_inout == "before"
cable_vpi_inout == "before"
cable_usbblaster_inout == "after"
usb_blaster_write_read == "after"
cable_xpcusb_inout == "after"
Sampled ==
    CASE Cable = "xpc3" -> cable_xpc3_inout [] Cable = "xess" -> cable_xess_inout
      [] Cable = "rtl_sim" -> cable_rtl_sim_inout [] Cable = "vpi" -> cable_vpi_inout
      [] Cable = "usbblaster" -> cable_usbblaster_inout
      [] Cable = "usbblaster_ftdi" -> usb_blaster_write_read [] OTHER -> cable_xpcusb_inout
InOut(clk, tms, tdi) == Pins(clk, tms, tdi, 1, Sampled)

cable_common_write_bit(tms, tdi, trst) == <<Out(0, tms, tdi, trst), Out(1, tms, tdi, trst)>>
cable_common_read_write_bit(tms, tdi) == <<Out(0, tms, tdi, FALSE), InOut(1, tms, tdi)>>
\* Reads with the edge that drops the clock.
cable_xpcusb_read_write_bit(tms, tdi) == <<InOut(0, tms, tdi), Out(1, tms, tdi, FALSE)>>
\* The FT2232's engine leaves the clock low, and TMS at the second bit of the command's byte.
Mpsse(tms, tdi, read) == <<Pins(0, tms, tdi, 1, IF read THEN "after" ELSE "no"), Pins(1, tms, tdi, 1, "no"),
                           Pins(0, 0, tdi, 1, "no")>>
\* The USB-Blaster's byte-shift mode starts from a low clock.
ByteShift(tdi, read) == <<Pins(0, 0, tdi, 1, IF read THEN "before" ELSE "no"), Pins(1, 0, tdi, 1, "no"),
                          Pins(0, 0, tdi, 1, "no")>>

cable_write_bit(tms, tdi, trst) ==
    IF Cable = "ft2232" THEN Mpsse(tms, tdi, FALSE) ELSE cable_common_write_bit(tms, tdi, trst)
cable_read_write_bit(tms, tdi) ==
    CASE Cable = "ft2232" -> Mpsse(tms, tdi, TRUE)
      [] Cable = "xpc_usb" -> cable_xpcusb_read_write_bit(tms, tdi)
      [] OTHER -> cable_common_read_write_bit(tms, tdi)

RECURSIVE Flat(_)
Flat(ss) == IF ss = <<>> THEN <<>> ELSE IF Len(ss) = 1 THEN ss[1]
            ELSE LET half == Len(ss) \div 2
                 IN Flat(SubSeq(ss, 1, half)) \o Flat(SubSeq(ss, half + 1, Len(ss)))
Lift(last) == IF last THEN 1 ELSE 0
Stream(out, set_last_bit, Bit(_, _)) ==
    Flat([i \in DOMAIN out |-> Bit(Lift(set_last_bit /\ i = Len(out)), out[i])])
cable_common_write_stream(out, set_last_bit) ==
    LET bit(tms, tdi) == cable_write_bit(tms, tdi, FALSE) IN Stream(out, set_last_bit, bit)
cable_common_read_stream(out, set_last_bit) == Stream(out, set_last_bit, cable_read_write_bit)

\* Whole bytes, of which the last one is kept back when it must carry TMS.
ByteBits(len, set_last_bit) ==
    LET bytes == len \div 8 IN 8 * (IF len % 8 = 0 /\ set_last_bit THEN bytes - 1 ELSE bytes)
\* Fault: the clock is not lowered first.
LowerClock_Not(s) == s
LowerClock(s) == <<Out(0, 0, 0, FALSE)>> \o s
BlasterStream(out, set_last_bit, read, Rest(_, _)) ==
    LET n == ByteBits(Len(out), set_last_bit)
        left == SubSeq(out, n + 1, Len(out))
    IN IF n = 0 THEN Rest(out, set_last_bit)
       ELSE LowerClock(Flat([i \in 1 .. n |-> ByteShift(out[i], read)]))
            \o (IF left = <<>> THEN <<>> ELSE Rest(left, set_last_bit))

MpsseStream(out, with_tms, read) ==
    LET bit(tms, tdi) == Mpsse(tms, tdi, read) IN Stream(out, with_tms, bit)

cable_write_stream(out, set_last_bit) ==
    CASE Cable = "ft2232" -> MpsseStream(out, set_last_bit, FALSE)
      [] Cable = "usbblaster" -> BlasterStream(out, set_last_bit, FALSE, cable_common_write_stream)
      [] OTHER -> cable_common_write_stream(out, set_last_bit)
cable_read_write_stream(out, set_last_bit) ==
    CASE Cable = "ft2232" -> MpsseStream(out, set_last_bit, TRUE)
      [] Cable = "usbblaster" -> BlasterStream(out, set_last_bit, TRUE, cable_common_read_stream)
      [] OTHER -> cable_common_read_stream(out, set_last_bit)

\* The words the caller finds the bits in: all drivers but the FT2232's clear them first.
Words(bits) == LET size == 32 * ((Len(bits) + 31) \div 32)
               IN [i \in 1 .. size |-> IF i <= Len(bits) THEN bits[i]
                                       ELSE IF Cable = "ft2232" THEN bench.stack ELSE 0]

-----------------------------------------------------------------------------
(* chain_commands.c.                                                       *)

Tms(n) == Flat([i \in 1 .. n |-> cable_write_bit(1, 0, FALSE)])
Low(n) == Flat([i \in 1 .. n |-> cable_write_bit(0, 0, FALSE)])

\* Whatever state the TAPs are in: five clocks with TMS are enough; those without TRST leave
\* the reset state with the bit that asserts it.
tap_reset == Low(1) \o Tms(8) \o cable_write_bit(0, 0, TRUE) \o Low(1)

\* The combined instruction register, built word by word: ones but for the target's bits.
\* The mask of the bits above them is shifted by more than 31 when they reach the end of a word.
IrStream(ir) ==
    LET size == conf.IR_size + conf.IR_prefix_bits + conf.IR_postfix_bits
        offset == conf.IR_postfix_bits \div 32
        shift == conf.IR_postfix_bits % 32
        above == (shift + conf.IR_size) % 32
        IrBit(j) == IF j < conf.IR_size THEN Bits(ir, 32)[j + 1] ELSE 0
        first(j) == IF j < shift \/ j >= above THEN 1 ELSE IrBit(j - shift)
        second(j) == IF j >= conf.IR_size - (32 - shift) THEN 1 ELSE IrBit(j + 32 - shift)
        BitAt(b) == CASE b \div 32 = offset -> first(b % 32)
                      [] b \div 32 = offset + 1 /\ shift + conf.IR_size > 32 -> second(b % 32)
                      [] OTHER -> 1
    IN [i \in 1 .. size |-> BitAt(i - 1)]
tap_set_ir(ir) ==
    Tms(2) \o Low(2) \o cable_write_stream(IrStream(ir), TRUE) \o Tms(1) \o Low(1)

tap_set_shift_dr == Tms(1) \o Low(2)
tap_exit_to_idle == Tms(1) \o Low(1)

\* Fault: one bit too many for the devices before the target.
Past_TooFar == IF conf.DR_prefix_bits = 0 THEN <<>> ELSE Low(conf.DR_prefix_bits) \o Tms(1)
\* Past the devices between the cable's data output and the target.
Past == IF conf.DR_prefix_bits = 0 THEN <<>> ELSE Low(conf.DR_prefix_bits - 1) \o Tms(1)
jtag_write_stream(out) == cable_write_stream(out, conf.DR_prefix_bits = 0) \o Past
jtag_read_write_stream(out) ==
    Low(conf.DR_postfix_bits) \o cable_read_write_stream(out, conf.DR_prefix_bits = 0) \o Past

tap_enable_debug_module ==
    IF conf.altera_virtual_jtag
    THEN tap_set_ir(vjtag_cmd_vir) \o tap_set_shift_dr \o jtag_write_stream(VirDebug) \o tap_exit_to_idle
         \o tap_set_ir(vjtag_cmd_vdr)
    ELSE tap_set_ir(conf.jtag_cmd_debug)

\* The end marker, from its bit i on, as it is shifted through the chain.
Marker(i, n) == [j \in 1 .. n |-> IF i + j - 1 <= 7 THEN 1 ELSE 0]
\* One device after the other: a 0 stands for a bypass register, a 1 begins an IDCODE, or the
\* marker, which comes back as a manufacturer's code of 0x3f.
RECURSIVE Enumerate(_, _, _)
WithRest(manuf, r, i, ids) ==
    Enumerate(r.wire, i + 32,
              Append(ids, [j \in 1 .. 32 |-> IF j = 1 \/ (j > 12 /\ r.bits[j - 12] = 1) THEN 1 ELSE manuf[j - 1]]))
WithManuf(m, i, ids) ==
    IF Words(m.bits) = Bits(63, 32) THEN [wire |-> m.wire, ids |-> ids]
    ELSE WithRest(Words(m.bits), Play(m.wire, cable_read_write_stream(Marker(i + 12, 20), FALSE), 0), i, ids)
WithBit(b, i, ids) ==
    IF b.bits[1] = 0 THEN Enumerate(b.wire, i + 1, Append(ids, NoId))
    ELSE WithManuf(Play(b.wire, cable_read_write_stream(Marker(i + 1, 11), FALSE), 0), i, ids)
Enumerate(w, i, ids) ==
    IF Len(ids) >= MaxDevices THEN [wire |-> w, ids |-> ids]
    ELSE WithBit(Play(w, cable_read_write_bit(0, Marker(i, 1)[1]), 0), i, ids)
jtag_enumerate_chain ==
    LET e == Enumerate(Play(wire, tap_set_shift_dr, 0).wire, 1, <<>>)
    IN [e EXCEPT !.wire = Play(@, Tms(2) \o Low(1), 0).wire]

-----------------------------------------------------------------------------
(* adv_jtag_bridge.c: start-up.                                            *)

\* Several devices of one kind share their IDCODE and its file.
get_bsdl_info(id) == {Device[d] : d \in {e \in DOMAIN Device : id # NoId /\ Device[e].id = id /\ Device[e].file}}
Lookup(id, field) ==
    IF get_bsdl_info(id) = {} THEN Invalid ELSE (CHOOSE d \in get_bsdl_info(id) : TRUE)[field]
bsdl_get_IR_size(id) == Lookup(id, "ir")
bsdl_get_debug_cmd(id) == Lookup(id, "debug")
bsdl_get_user1_cmd(id) == Lookup(id, "user1")
bsdl_get_idcode_cmd(id) == Lookup(id, "idcode")

\* The command line knows what the files do not, when it is given at all.
get_IR_size(i) == IF bench.options /\ i <= N THEN Dev(i).ir ELSE bsdl_get_IR_size(found[i])
get_debug_cmd(i) ==
    IF Manuf(found[i]) = Xilinx_ THEN bsdl_get_user1_cmd(found[i])
    ELSE IF bench.options /\ i <= N /\ Dev(i).debug # Invalid THEN Dev(i).debug ELSE bsdl_get_debug_cmd(found[i])

RECURSIVE IrTotal(_, _)
IrTotal(from, to) == IF from > to THEN 0 ELSE get_IR_size(from) + IrTotal(from + 1, to)
\* Fault: the lengths of the two sides of the target are exchanged.
Configured_Swapped(t, virtual) ==
    [target |-> t, IR_size |-> get_IR_size(t),
     IR_prefix_bits |-> IrTotal(1, t - 1), IR_postfix_bits |-> IrTotal(t + 1, Len(found)),
     DR_prefix_bits |-> Len(found) - t, DR_postfix_bits |-> t - 1,
     jtag_cmd_debug |-> get_debug_cmd(t), altera_virtual_jtag |-> virtual]
Configured(t, virtual) ==
    [target |-> t, IR_size |-> get_IR_size(t),
     IR_prefix_bits |-> IrTotal(t + 1, Len(found)), IR_postfix_bits |-> IrTotal(1, t - 1),
     DR_prefix_bits |-> Len(found) - t, DR_postfix_bits |-> t - 1,
     jtag_cmd_debug |-> get_debug_cmd(t), altera_virtual_jtag |-> virtual]

NoConf == [target |-> 0, IR_size |-> 0, IR_prefix_bits |-> 0, IR_postfix_bits |-> 0, DR_prefix_bits |-> 0,
           DR_postfix_bits |-> 0, jtag_cmd_debug |-> 0, altera_virtual_jtag |-> FALSE]
NoScan == [out |-> <<>>, in |-> <<>>, held |-> <<>>, made |-> 0, lost |-> 0, off |-> FALSE]

\* The TAPs are in any state, with any instruction, after whatever used them before.
Init ==
    /\ bench \in UNION {[cable : Cables, chain : {c}, target : 1 .. Len(c) + 1, options : BOOLEAN, stack : Stack]
                          : c \in Chains}
    /\ Cable # "ft2232" => bench.stack = CHOOSE b \in Stack : TRUE
    /\ \E tap \in DOMAIN TapNext, clk \in 0 .. 1 :
         /\ Cable = "ft2232" => clk = 0
         /\ wire = [clk |-> clk, tms |-> 0, tdi |-> 0, tdo |-> 1, tap |-> tap, vir |-> Zeros(5), dr |-> <<0>>,
                    ir |-> [i \in Index |-> Ones(Dev(i).ir)],
                    sr |-> Zeros(IF tap \in {"CaptureIR", "ShiftIR", "Exit1IR", "PauseIR", "Exit2IR", "UpdateIR"}
                                 THEN Len(Join[[i \in Index |-> Ones(Dev(i).ir)], N]) ELSE N)]
    /\ conf = NoConf /\ found = <<>> /\ scan = NoScan /\ at = "start"

Put(s) == wire' = Play(wire, s, 0).wire
Exit == at' = "exit" /\ UNCHANGED <<wire, conf>>

TapReset ==
    /\ at = "start" /\ at' = "reset"
    /\ Put(tap_reset)
    /\ UNCHANGED <<bench, conf, found, scan>>

EnumerateChain ==
    /\ at = "reset" /\ at' = "found"
    /\ LET e == jtag_enumerate_chain IN found' = e.ids /\ wire' = e.wire
    /\ UNCHANGED <<bench, conf, scan>>

\* A target beyond the chain, an unknown length or an unknown DEBUG command end the program.
ConfigureChain ==
    /\ at = "found"
    /\ LET t == bench.target
           virtual == Manuf(found[t]) = Altera
       IN IF \/ t > Len(found)
             \/ \E i \in DOMAIN found : get_IR_size(i) < 0
             \/ ~virtual /\ get_debug_cmd(t) = Invalid
          THEN Exit
          ELSE at' = "configured" /\ conf' = Configured(t, virtual) /\ UNCHANGED wire
    /\ UNCHANGED <<bench, found, scan>>

\* The sanity test only warns.
CheckIdcode ==
    /\ at = "configured" /\ at' = "checked"
    /\ LET cmd == bsdl_get_idcode_cmd(found[conf.target])
           r == Play(wire, tap_set_ir(cmd) \o tap_set_shift_dr \o jtag_read_write_stream(Zeros(32))
                           \o tap_exit_to_idle, 0)
       IN IF cmd = Invalid THEN UNCHANGED <<wire, scan>>
          ELSE wire' = r.wire /\ scan' = [scan EXCEPT !.in = Words(r.bits)]
    /\ UNCHANGED <<bench, conf, found>>

EnableDebugModule ==
    /\ at = "checked" /\ at' = "enabled"
    /\ Put(tap_enable_debug_module)
    /\ UNCHANGED <<bench, conf, found, scan>>

Pattern(n) == [i \in 1 .. n |-> IF i % 3 = 0 \/ i = n THEN 1 ELSE 0]
Other(n) == [i \in 1 .. n |-> IF i % 5 = 1 THEN 1 ELSE 0]

\* A scan of the register the debug unit presents, of n bits; transfer k to the cable may be lost.
DataScan(n, read, k) ==
    /\ at = "enabled" /\ scan.made < MaxScans
    /\ LET w == [wire EXCEPT !.dr = IF wire.tap = "Idle" THEN Other(n) ELSE @]
           s == tap_set_shift_dr
                \o (IF read THEN jtag_read_write_stream(Pattern(n)) ELSE jtag_write_stream(Pattern(n)))
                \o tap_exit_to_idle
           r == Play(w, s, k)
       IN /\ k \in 0 .. Len(s)
          /\ wire' = r.wire
          /\ scan' = [out |-> Pattern(n), in |-> IF read THEN Words(r.bits) ELSE <<>>, held |-> w.dr,
                      made |-> scan.made + 1, lost |-> scan.lost + (IF k > 0 THEN 1 ELSE 0),
                      off |-> scan.off \/ k > 0]
    /\ UNCHANGED <<bench, conf, found, at>>
LosesTransfer == scan.lost < MaxLost /\ \E n \in ScanLens, read \in BOOLEAN : \E k \in LostAt : DataScan(n, read, k)

\* retry_do: reset and instruction, from wherever a scan that went wrong has left the TAPs.
RetryDo ==
    /\ at = "enabled" /\ scan.made < MaxScans
    /\ Put(tap_reset \o tap_enable_debug_module)
    /\ scan' = [scan EXCEPT !.made = @ + 1, !.off = FALSE, !.out = <<>>, !.in = <<>>, !.held = <<>>]
    /\ UNCHANGED <<bench, conf, found, at>>

ScanWhole == \E n \in ScanLens, read \in BOOLEAN : DataScan(n, read, 0)
Next == TapReset \/ EnumerateChain \/ ConfigureChain \/ CheckIdcode \/ EnableDebugModule
        \/ ScanWhole \/ LosesTransfer \/ RetryDo
ChainSpec == Init /\ [][Next]_chainvars

-----------------------------------------------------------------------------
(* Properties.                                                             *)

\* The FT2232's driver leaves the bits above those it read as they were.
Clean == Cable # "ft2232" \/ bench.stack = 0
\* The target's bits end within a word of the combined instruction register.
WithinWord == (conf.IR_postfix_bits % 32) + conf.IR_size < 32

\* Enumeration finds the devices that are there, in their order, with the IDCODEs they have,
\* whatever state the TAPs and the clock were in.
ChainFound == at \notin {"start", "reset"} /\ Clean => found = [i \in Index |-> Dev(i).id]

\* Once start-up or a retry has selected the debug unit the target's instruction leads to it, all
\* other devices are bypassed and the TAPs wait in Run-Test/Idle.
TargetSelected ==
    at = "enabled" /\ Clean /\ WithinWord /\ ~scan.off =>
        /\ wire.tap = "Idle"
        /\ \A i \in Index : DataRegister(wire, i) = IF i = conf.target THEN "debug" ELSE "bypass"

\* A scan leaves the bits written in the target's register and returns those the register held,
\* wherever the target sits in the chain, on every cable and for every length.
ScanExact ==
    at = "enabled" /\ Clean /\ WithinWord /\ ~scan.off /\ scan.out # <<>> =>
        /\ wire.dr = scan.out
        /\ scan.in # <<>> => SubSeq(scan.in, 1, Len(scan.held)) = scan.held

\* The sanity test of start-up reads the IDCODE enumeration has found.
SanityTestPasses ==
    at = "checked" /\ Clean /\ WithinWord /\ scan.in # <<>> => scan.in = found[conf.target]
=============================================================================
