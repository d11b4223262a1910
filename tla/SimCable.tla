------------------------------ MODULE SimCable ------------------------------
(***************************************************************************)
(* The bridge's two cables to a simulated chip (cable_sim.c) with the      *)
(* simulator's half of each: files that both sides rewrite (dbg_comm.v),   *)
(* and a socket read by a VPI task each time step (jp-io-vpi.c,            *)
(* dbg_comm_vpi.v).  On top of them are the bits of cable_common.c.        *)
(*                                                                         *)
(* A byte is the pins: TCK, and the other three as one datum.  The target  *)
(* puts a bit of its choice on TDO after each falling edge of TCK; for the *)
(* socket it may take some clocks to do so, for the files none, as those   *)
(* have no wait.  Reading a file, truncating it by opening and writing it  *)
(* are steps of their own.                                                 *)
(***************************************************************************)
EXTENDS Integers, Sequences

CONSTANTS TIMEOUT_COUNT,  \* clocks of half a TCK period
          Settle,         \* clocks the target may need, at most
          Datum,          \* what the other pins are set to
          MaxBits,        \* bound: bits written or read
          MaxDeaths       \* bound: the simulator's end

SimCableAssumption == {TIMEOUT_COUNT, Settle, MaxBits, MaxDeaths} \subseteq Nat /\ Settle <= TIMEOUT_COUNT

VARIABLES
    cable,      \* which one, and whether its option names the place where the simulator is
    bit,        \* the bit under way: the program's locals, and bits made
    gdb_in, gdb_out,        \* the two files
    toSim, toJp,            \* the socket
    sim         \* the simulator

cablevars == <<cable, bit, gdb_in, gdb_out, toSim, toJp, sim>>

Byte(tck, d) == <<"pins", tck, d>>
Ack(b) == [b EXCEPT ![1] = "ack"]
Tck(b) == b[2]
Level(tdo) == <<"tdo", tdo>>
Nothing == <<>>   \* no byte, an empty file
F == <<"F">>
GetTdo == <<"0x80">>
WaitTime == <<"0x81">>
TimedOut == <<"0xFF">>

Init ==
    /\ cable \in [name : {"rtl_sim", "vpi"}, place : BOOLEAN]
    /\ bit = [pc |-> "init", reads |-> FALSE, data |-> 0, tck |-> 0, num_read |-> Nothing,
              inval |-> Nothing, err |-> FALSE, made |-> 0]
    /\ gdb_in = Nothing /\ gdb_out = Nothing /\ toSim = <<>> /\ toJp = <<>>
    \* memory and in_word_r are zero, and so TCK is low; the clock count starts stopped.
    /\ sim = [alive |-> TRUE, listens |-> FALSE, got_con |-> FALSE, memory |-> Ack(Byte(0, 0)),
              in_word |-> Byte(0, 0), pins |-> Byte(0, 0), at |-> "loop", settling |-> -1,
              next |-> 0, vpi_out |-> 0, clk_count |-> TIMEOUT_COUNT + 1, since |-> 0,
              count_comp |-> FALSE, waiting |-> FALSE, rises |-> 0, early |-> FALSE]

Files == cable.name = "rtl_sim"
Socket == cable.name = "vpi"
\* The bridge's wrong directory holds files of its own; only the simulator's are followed.
Shared == Files /\ cable.place
At(pc) == bit.pc = pc
Current == Byte(bit.tck, bit.data)

-----------------------------------------------------------------------------
(* The bridge.                                                              *)

cable_rtl_sim_init ==
    /\ At("init") /\ Files
    /\ gdb_in' = Nothing /\ bit' = [bit EXCEPT !.pc = "idle"]
    /\ UNCHANGED <<cable, gdb_out, toSim, toJp, sim>>
\* A connection waits until the simulator accepts it, once; nobody listens at another port.
cable_vpi_init ==
    /\ At("init") /\ Socket
    /\ bit' = [bit EXCEPT !.pc = IF cable.place /\ sim.listens /\ sim.alive THEN "idle" ELSE "failed"]
    /\ UNCHANGED <<cable, gdb_in, gdb_out, toSim, toJp, sim>>

\* cable_common_write_bit and cable_common_read_write_bit: the clock is dropped with the data set.
NewBit(reads, d) ==
    /\ At("idle") /\ bit.made < MaxBits
    /\ bit' = [bit EXCEPT !.pc = "out", !.reads = reads, !.data = d, !.tck = 0, !.err = FALSE]
    /\ UNCHANGED <<cable, gdb_in, gdb_out, toSim, toJp, sim>>
\* After a byte: the wait, if the cable has one, then the clock is raised.
AfterOut == IF Socket THEN "wait" ELSE IF bit.tck = 1 THEN "done" ELSE "raise"
AfterWait == IF bit.tck = 1 THEN "done" ELSE "raise"
Raise ==
    /\ At("raise")
    /\ bit' = [bit EXCEPT !.tck = 1, !.pc = IF bit.reads THEN "inout" ELSE "out"]
    /\ UNCHANGED <<cable, gdb_in, gdb_out, toSim, toJp, sim>>
Done == /\ At("done") /\ bit' = [bit EXCEPT !.pc = "idle", !.made = @ + 1]
        /\ UNCHANGED <<cable, gdb_in, gdb_out, toSim, toJp, sim>>

\* cable_rtl_sim_out: no answer in gdb_in yet, the byte in gdb_out, and a loop until the byte has
\* come back acknowledged.  What num_read holds before the first number is the last call's.
FileF == /\ At("out") /\ Files
         /\ gdb_in' = (IF Shared THEN F ELSE gdb_in) /\ bit' = [bit EXCEPT !.pc = "open"]
         /\ UNCHANGED <<cable, gdb_out, toSim, toJp, sim>>
FileOpen == /\ At("open")
            /\ gdb_out' = (IF Shared THEN Nothing ELSE gdb_out) /\ bit' = [bit EXCEPT !.pc = "write"]
            /\ UNCHANGED <<cable, gdb_in, toSim, toJp, sim>>
FileWrite == /\ At("write")
             /\ gdb_out' = (IF Shared THEN Current ELSE gdb_out) /\ bit' = [bit EXCEPT !.pc = "acked"]
             /\ UNCHANGED <<cable, gdb_in, toSim, toJp, sim>>
FileAcked ==
    /\ At("acked")
    /\ LET read == IF Shared /\ gdb_out # Nothing THEN gdb_out ELSE bit.num_read
       IN bit' = [bit EXCEPT !.num_read = read, !.pc = IF read = Ack(Current) THEN AfterOut ELSE "acked"]
    /\ UNCHANGED <<cable, gdb_in, gdb_out, toSim, toJp, sim>>
\* cable_rtl_sim_inout: a number is awaited in gdb_in, then the byte goes out.
FileInout ==
    /\ At("inout") /\ Shared /\ gdb_in \notin {Nothing, F}
    /\ bit' = [bit EXCEPT !.inval = gdb_in, !.pc = "out"]
    /\ UNCHANGED <<cable, gdb_in, gdb_out, toSim, toJp, sim>>

Send(b) == toSim' = IF sim.alive THEN Append(toSim, b) ELSE toSim
\* cable_vpi_out: bytes are received until the right one has come.
VpiOut == /\ At("out") /\ Socket /\ Send(Current) /\ bit' = [bit EXCEPT !.pc = "ack"]
          /\ UNCHANGED <<cable, gdb_in, gdb_out, toJp, sim>>
VpiAck ==
    /\ At("ack") /\ toJp # <<>> /\ toJp' = Tail(toJp)
    /\ bit' = [bit EXCEPT !.pc = IF Head(toJp) = Ack(Current) THEN AfterOut ELSE "ack"]
    /\ UNCHANGED <<cable, gdb_in, gdb_out, toSim, sim>>
\* An error ends the call; the end of the stream does not.
VpiAckFails ==
    /\ At("ack") /\ toJp = <<>> /\ ~sim.alive
    /\ bit' = [bit EXCEPT !.pc = AfterOut, !.err = (~bit.reads \/ bit.tck = 0)]
    /\ UNCHANGED <<cable, gdb_in, gdb_out, toSim, toJp, sim>>
\* cable_vpi_inout: the level of TDO, then the byte, whose errors are not looked at.
VpiInout == /\ At("inout") /\ Socket /\ Send(GetTdo) /\ bit' = [bit EXCEPT !.pc = "tdo"]
            /\ UNCHANGED <<cable, gdb_in, gdb_out, toJp, sim>>
VpiTdo ==
    /\ At("tdo")
    /\ \/ toJp # <<>> /\ toJp' = Tail(toJp) /\ bit' = [bit EXCEPT !.inval = Head(toJp), !.pc = "out"]
       \/ toJp = <<>> /\ ~sim.alive /\ UNCHANGED toJp /\ bit' = [bit EXCEPT !.inval = GetTdo, !.pc = "out"]
    /\ UNCHANGED <<cable, gdb_in, gdb_out, toSim, sim>>
\* cable_vpi_wait: any byte will do, and so does none when the connection is gone.
cable_vpi_wait == /\ At("wait") /\ Send(WaitTime) /\ bit' = [bit EXCEPT !.pc = "waits"]
                  /\ UNCHANGED <<cable, gdb_in, gdb_out, toJp, sim>>
Waited ==
    /\ At("waits") /\ (toJp # <<>> \/ ~sim.alive)
    /\ toJp' = (IF toJp = <<>> THEN <<>> ELSE Tail(toJp)) /\ bit' = [bit EXCEPT !.pc = AfterWait]
    /\ UNCHANGED <<cable, gdb_in, gdb_out, toSim, sim>>

-----------------------------------------------------------------------------
(* The simulator.                                                           *)

\* The pins follow in_word_r; on a falling edge the target picks its next bit.
Applied(s, b, settling) ==
    [s EXCEPT !.pins = b, !.in_word = b, !.rises = @ + (IF Tck(s.pins) = 0 /\ Tck(b) = 1 THEN 1 ELSE 0),
              !.settling = IF Tck(s.pins) = 1 /\ Tck(b) = 0 THEN settling ELSE @]

\* dbg_comm.v: the file is read each Tp, and one that cannot be read as a number leaves memory as
\* it was.  The pins and the file of TDO change when the loop lets other processes go on.
ReadMem ==
    /\ Files /\ sim.at = "loop" /\ sim.alive
    /\ LET m == IF gdb_out = Nothing THEN sim.memory ELSE gdb_out
       IN sim' = IF m[1] = "ack" THEN [sim EXCEPT !.memory = m]
                 ELSE [sim EXCEPT !.memory = m, !.in_word = m, !.at = "open"]
    /\ UNCHANGED <<cable, bit, gdb_in, gdb_out, toSim, toJp>>
OpenAck == /\ sim.at = "open" /\ gdb_out' = Nothing /\ sim' = [sim EXCEPT !.at = "ack"]
           /\ UNCHANGED <<cable, bit, gdb_in, toSim, toJp>>
WriteAck == /\ sim.at = "ack" /\ gdb_out' = Ack(sim.memory) /\ sim' = [sim EXCEPT !.at = "pins"]
            /\ UNCHANGED <<cable, bit, gdb_in, toSim, toJp>>
FilePins ==
    /\ sim.at = "pins"
    /\ \E b \in {0, 1} :
         LET falls == Tck(sim.pins) = 1 /\ Tck(sim.in_word) = 0
         IN /\ sim' = [Applied(sim, sim.in_word, -1) EXCEPT !.at = "loop", !.next = IF falls THEN b ELSE @]
            /\ gdb_in' = IF falls THEN Level(b) ELSE gdb_in
            /\ ~falls => b = 0
    /\ UNCHANGED <<cable, bit, gdb_out, toSim, toJp>>

init_sock == /\ Socket /\ ~sim.listens /\ ~sim.got_con /\ sim' = [sim EXCEPT !.listens = TRUE]
             /\ UNCHANGED <<cable, bit, gdb_in, gdb_out, toSim, toJp>>
\* The listening socket is closed with the first connection.
jp_check_con == /\ Socket /\ sim.listens /\ bit.pc \notin {"init", "failed"}
                /\ sim' = [sim EXCEPT !.got_con = TRUE, !.listens = FALSE]
                /\ UNCHANGED <<cable, bit, gdb_in, gdb_out, toSim, toJp>>
Polled == Socket /\ sim.alive /\ sim.got_con /\ toSim # <<>>
\* Both counts start again with a byte.
Counted_Clock(s) == [s EXCEPT !.clk_count = 0]   \* Fault: a byte does not take back that the time is over.
Counted(s) == [s EXCEPT !.count_comp = FALSE, !.clk_count = 0]
\* vpi_jp_in of a byte of pins: they change, and it is acknowledged.
JpInPins ==
    /\ Polled /\ Head(toSim) \notin {GetTdo, WaitTime}
    /\ \E d \in 0 .. Settle, b \in {0, 1} :
         LET v == Head(toSim)
             falls == Tck(sim.pins) = 1 /\ Tck(v) = 0
         IN /\ sim' = [Counted(Applied(sim, v, d)) EXCEPT
                        !.since = 0, !.next = IF falls THEN b ELSE @,
                        !.early = @ \/ (sim.rises + Tck(sim.pins) > 0 /\ sim.since < TIMEOUT_COUNT)]
            /\ ~falls => d = 0 /\ b = 0
    /\ toJp' = Append(toJp, Ack(Head(toSim))) /\ toSim' = Tail(toSim)
    /\ UNCHANGED <<cable, bit, gdb_in, gdb_out>>
JpInTdo ==
    /\ Polled /\ Head(toSim) = GetTdo
    /\ toJp' = Append(toJp, Level(sim.vpi_out)) /\ toSim' = Tail(toSim)
    /\ UNCHANGED <<cable, bit, gdb_in, gdb_out, sim>>
JpInWait ==
    /\ Polled /\ Head(toSim) = WaitTime /\ toSim' = Tail(toSim)
    /\ IF sim.count_comp THEN toJp' = Append(toJp, TimedOut) /\ UNCHANGED sim
       ELSE sim' = [sim EXCEPT !.waiting = TRUE] /\ UNCHANGED toJp
    /\ UNCHANGED <<cable, bit, gdb_in, gdb_out>>
\* $jp_out: TDO has changed.
vpi_jp_out ==
    /\ Socket /\ sim.settling >= 0
    /\ sim' = [sim EXCEPT !.vpi_out = sim.next, !.settling = -1]
    /\ UNCHANGED <<cable, bit, gdb_in, gdb_out, toSim, toJp>>
\* A rising edge of the system clock: the count, or jp_wait_time at its end.
Clock ==
    /\ Socket /\ sim.alive /\ sim.clk_count <= TIMEOUT_COUNT /\ sim.settling # 0
    /\ LET ticked == [sim EXCEPT !.clk_count = @ + 1, !.since = @ + 1, !.settling = IF @ > 0 THEN @ - 1 ELSE @]
       IN IF sim.clk_count < TIMEOUT_COUNT THEN sim' = ticked /\ UNCHANGED toJp
          ELSE /\ sim' = [ticked EXCEPT !.count_comp = TRUE, !.waiting = FALSE]
               /\ toJp' = IF sim.waiting THEN Append(toJp, TimedOut) ELSE toJp
    /\ UNCHANGED <<cable, bit, gdb_in, gdb_out, toSim>>
\* The simulator ends, and the connection with it.
Dies == /\ Socket /\ sim.alive /\ sim.got_con /\ MaxDeaths > 0
        /\ sim' = [sim EXCEPT !.alive = FALSE] /\ toSim' = <<>>
        /\ UNCHANGED <<cable, bit, gdb_in, gdb_out, toJp>>

Next ==
    \/ cable_rtl_sim_init \/ cable_vpi_init \/ (\E r \in BOOLEAN, d \in Datum : NewBit(r, d)) \/ Raise \/ Done
    \/ FileF \/ FileOpen \/ FileWrite \/ FileAcked \/ FileInout
    \/ VpiOut \/ VpiAck \/ VpiAckFails \/ VpiInout \/ VpiTdo \/ cable_vpi_wait \/ Waited
    \/ ReadMem \/ OpenAck \/ WriteAck \/ FilePins
    \/ init_sock \/ jp_check_con \/ JpInPins \/ JpInTdo \/ JpInWait \/ vpi_jp_out \/ Clock \/ Dies
Spec == Init /\ [][Next]_cablevars

-----------------------------------------------------------------------------

\* A bit made while the simulator lives has raised TCK once over its own data; a bit read is the one
\* the target showed for this bit's falling edge, and not the one of the bit before.
BitExact ==
    At("done") /\ sim.alive =>
        /\ sim.rises + (IF sim.at \in {"open", "ack", "pins"} /\ Tck(sim.pins) = 0 THEN 1 ELSE 0) = bit.made + 1
        /\ sim.in_word = Current \/ sim.pins = Current
        /\ bit.reads /\ bit.made > 0 => bit.inval = Level(sim.next)
\* Over the socket the pins stay as they are for half a period.
HalfPeriods == ~sim.early \/ ~sim.alive
=============================================================================
