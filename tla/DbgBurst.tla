------------------------------ MODULE DbgBurst ------------------------------
(***************************************************************************)
(* The JTAG bridge's access to the advanced debug unit: the calls of       *)
(* dbg_api.c, the module selections, control registers and bursts of       *)
(* adv_dbg_commands.c, and the reset and retry of chain_commands.c, in the *)
(* high-speed build (USE_HISPEED, the Makefile's default).                 *)
(*                                                                         *)
(* dbg_access_mutex is held for the whole of a call, so that calls of the  *)
(* server and of the polling thread follow one another in any order; a     *)
(* call is a sequence of scans, each of them one step.  An address counts  *)
(* words; a word of data is a pair of the writing call and its index.  The *)
(* debug unit is modelled by what the bridge relies on: the selected       *)
(* module, the index register of each module, the bus error register,      *)
(* which keeps the first failing address until it is reset, and the words  *)
(* a burst takes from the stream.                                          *)
(*                                                                         *)
(* Faults: bits corrupted on the way (the CRC then differs), a burst whose *)
(* status bit never comes, a bus error once at an address or always at the *)
(* addresses of Bad, and scans, streams and resets that the cable reports  *)
(* as failed.  A call that gives up in the middle of a scan leaves the TAP *)
(* and the unit anywhere; env.lost says so from there on.                  *)
(***************************************************************************)
EXTENDS Integers, Sequences, FiniteSets

CONSTANTS Addrs,         \* word addresses, 0 .. n-1
          Bad,           \* addresses that always end in a bus error
          Calls,         \* kinds of call the threads make
          Xilinx,        \* values of global_xilinx_bscan
          DeadLink,      \* whether the status bit may stay away for good
          MaxBusErrors,  \* MAX_BUS_ERRORS
          NumSoftRetries,\* NUM_SOFT_RETRIES
          MaxFaults,     \* bound: faults that happen once
          MaxLen,        \* bound: words of a block
          MaxCalls       \* bound: calls made

Modules == {"wb", "cpu0", "cpu1"}
CallKinds == {"wb_read", "wb_write", "cpu0_read", "cpu0_write", "cpu1_read", "cpu1_write",
              "cpu0_read_ctrl", "cpu0_write_ctrl", "cpu1_read_ctrl", "cpu1_write_ctrl"}

ASSUME DbgAssumption ==
    /\ Addrs # {} /\ IsFiniteSet(Addrs) /\ Addrs = 0 .. Cardinality(Addrs) - 1
    /\ Bad \subseteq Addrs /\ Calls \subseteq CallKinds /\ Xilinx \subseteq BOOLEAN
    /\ DeadLink \in BOOLEAN
    /\ {MaxBusErrors, NumSoftRetries, MaxFaults, MaxLen, MaxCalls} \subseteq Nat

VARIABLES host,   \* current_chain, desired_chain, current_reg_idx, soft_retry_no
          unit,   \* the debug unit: selected module, index registers, bus error register
          mem,    \* what lies behind each module
          stall,  \* the stall bit of each processor
          call,   \* the call in progress, or the one that returned last
          pc,     \* where it is
          env     \* faults left, calls made, the cable, and (a history variable) whether a
                  \* scan failed after which nobody knows what the unit has taken

vars == <<host, unit, mem, stall, call, pc, env>>

None == "none"
NoErr == Cardinality(Addrs)
Old == <<0, 0>>
Junk == <<0, 1>>
Last == Cardinality(Addrs) - 1
Cpus == {"cpu0", "cpu1"}

\* The module a call selects; dbg_cpu1_write names the wrong one.
Selects(k) == CASE k \in {"wb_read", "wb_write"} -> "wb"
                [] k \in {"cpu1_read", "cpu1_read_ctrl", "cpu1_write_ctrl"} -> "cpu1"
                [] OTHER -> "cpu0"
IsRead(k) == k \in {"wb_read", "cpu0_read", "cpu1_read"}
IsWrite(k) == k \in {"wb_write", "cpu0_write", "cpu1_write"}
IsBurst(k) == IsRead(k) \/ IsWrite(k)

Init ==
    /\ host = [chain |-> None, desired |-> None, regs |-> {}, soft |-> 0]
    /\ unit = [sel |-> None, regs |-> {}, err |-> NoErr, burst |-> <<>>]
    /\ mem = [m \in Modules |-> [a \in Addrs |-> Old]]
    /\ stall = [c \in Cpus |-> FALSE]
    /\ call = [k |-> None, start |-> 0, len |-> 0, data |-> <<>>, i |-> 0, addr |-> 0, errs |-> 0,
               crc |-> TRUE, err |-> FALSE, orphan |-> FALSE,
               bit |-> FALSE, ret |-> None]
    /\ pc = "idle"
    /\ env \in [faults : {MaxFaults}, calls : {0}, lost : {FALSE}, xilinx : Xilinx]

-----------------------------------------------------------------------------
(* Scans and their bookkeeping.                                            *)

\* adbg_select_module: a scan only when another module is selected.
adbg_select_module(h, m) == [h EXCEPT !.chain = m, !.desired = m]
ScanSelect(u, h, m) == IF h.chain = m THEN u ELSE [u EXCEPT !.sel = m]

\* retry_do: TAP reset and debug instruction; every selection is forgotten.
tap_reset(h) == [h EXCEPT !.chain = None, !.regs = {}]
tap_set_ir(h) == [h EXCEPT !.chain = None]
tap_enable_debug_module(h) == tap_set_ir(h)
\* Fault: reset and instruction go out with the selection left as it was.
retry_do_KeepsChain(h) == [h EXCEPT !.regs = {}, !.soft = @ + 1]
retry_do(h) == [tap_enable_debug_module(tap_reset(h)) EXCEPT !.soft = @ + 1]
retry_ok(h) == [h EXCEPT !.soft = 0]

UseFault == env.faults > 0 /\ env' = [env EXCEPT !.faults = @ - 1]
LoseTrack == env.faults > 0 /\ env' = [env EXCEPT !.faults = @ - 1, !.lost = TRUE]
Return(ret) == pc' = "idle" /\ call' = [call EXCEPT !.ret = ret]

-----------------------------------------------------------------------------
(* The calls.                                                              *)

\* A thread enters the API; an earlier call may have left a bus error in the unit.
StartCall(k, start, len) ==
    /\ pc = "idle" /\ env.calls < MaxCalls
    /\ call' = [k |-> k, start |-> start, len |-> len,
                data |-> IF IsRead(k) THEN [j \in 1 .. len |-> Junk] ELSE [j \in 1 .. len |-> <<env.calls + 1, j>>],
                i |-> 0, addr |-> start, errs |-> 0, crc |-> TRUE, err |-> FALSE, orphan |-> unit.err # NoErr,
                bit |-> FALSE, ret |-> None]
    /\ env' = [env EXCEPT !.calls = @ + 1]
    /\ pc' = "select"
    /\ UNCHANGED <<host, unit, mem, stall>>

\* Every call begins with the selection of its module.
SelectModule ==
    /\ pc = "select"
    /\ LET m == Selects(call.k) IN
         /\ host' = adbg_select_module(host, m)
         /\ unit' = ScanSelect(unit, host, m)
    /\ pc' = IF IsBurst(call.k) THEN "command" ELSE "ctrl"
    /\ UNCHANGED <<mem, stall, call, env>>

\* The cable fails during the selection: the call returns the error, current_chain is set nevertheless.
SelectFails ==
    /\ pc = "select" /\ host.chain # Selects(call.k) /\ LoseTrack
    /\ host' = adbg_select_module(host, Selects(call.k))
    /\ Return("cable")
    /\ UNCHANGED <<unit, mem, stall>>

\* adbg_burst_command: a burst of the words that are left.  A negative length spills into the
\* low half of the address, which becomes all ones.
adbg_burst_command(addr, n) ==
    LET h == adbg_select_module(host, host.desired) IN
    /\ host' = retry_ok(h)
    /\ unit' = [ScanSelect(unit, host, host.desired) EXCEPT !.burst = <<IF n < 0 THEN Last ELSE addr, n>>]

\* The cable fails during the command, or during a selection before it, which then resets no
\* count of retries: the call returns the error, whatever the unit has seen.
CommandFails ==
    /\ pc = "command" /\ env.faults > 0
    /\ \/ host' = retry_ok(adbg_select_module(host, host.desired))
       \/ host.chain # host.desired /\ host' = adbg_select_module(host, host.desired)
    /\ \E lost \in {env.lost \/ host.chain # host.desired, TRUE} : env' = [env EXCEPT !.faults = @ - 1, !.lost = lost]
    /\ Return("cable")
    /\ UNCHANGED <<unit, mem, stall>>

\* An error still carried along from before a retry is returned once the command is out.
BurstCommand ==
    /\ pc = "command"
    /\ adbg_burst_command(call.addr, call.len - call.i)
    /\ IF call.err THEN Return("cable") ELSE pc' = "data" /\ UNCHANGED call
    /\ UNCHANGED <<mem, stall, env>>

\* Fault: the work-around is taken for every device.
AfterCommand_Always(h) == tap_enable_debug_module(tap_set_ir(h))

\* The Xilinx work-around goes through the instruction register and forgets the selection.
AfterCommand(h) == IF env.xilinx THEN tap_enable_debug_module(tap_set_ir(h)) ELSE h

\* The words of the burst the unit takes from, or gives to, a stream of len words and the CRC.
Taken == LET n == unit.burst[2] IN IF n < 0 \/ n > call.len + 1 THEN call.len + 1 ELSE n
Touched == {a \in Addrs : a >= unit.burst[1] /\ a < unit.burst[1] + Taken}
FirstError(fails) ==
    IF unit.sel # "wb" \/ unit.err # NoErr \/ Touched \cap fails = {} THEN unit.err
    ELSE CHOOSE a \in Touched \cap fails : \A b \in Touched \cap fails : a <= b

\* Fault: a burst that took part of the stream passes for whole.
StreamCrc_Partial(corrupt) == ~corrupt /\ unit.sel # None

\* The CRC sent is that of all the data; the unit compares it with that of the words it took.
StreamCrc(corrupt) == ~corrupt /\ unit.sel # None /\ unit.burst[2] = call.len

\* adbg_wb_burst_read: the data in one shot, whatever the length of the burst was.
BurstRead(fails, corrupt, err) ==
    /\ pc = "data" /\ IsRead(call.k)
    /\ host' = AfterCommand(host)
    /\ LET base == unit.burst[1]
           word(j) == IF j > Taken \/ base + j - 1 \notin Addrs \ fails \/ unit.sel = None THEN Junk
                      ELSE mem[unit.sel][base + j - 1]
       IN call' = [call EXCEPT !.data = [j \in 1 .. call.len |-> IF corrupt THEN Junk ELSE word(j)],
                               !.crc = StreamCrc(corrupt), !.err = err]
    /\ unit' = [unit EXCEPT !.err = FirstError(fails)]
    /\ pc' = "crc"
    /\ UNCHANGED <<mem, stall>>

\* What a write's stream leaves in the memory of the selected module.
Stored(fails, corrupt) ==
    LET base == unit.burst[1]
        word(a) == IF a - base + 1 > call.len \/ corrupt THEN Junk ELSE call.data[a - base + 1]
    IN IF unit.sel = None THEN mem
       ELSE [mem EXCEPT ![unit.sel] = [a \in Addrs |-> IF a \in Touched \ fails THEN word(a) ELSE @[a]]]

\* adbg_wb_burst_write: all the data from the first word on, then the CRC.
BurstWrite(fails, corrupt, err) ==
    /\ pc = "data" /\ IsWrite(call.k)
    /\ mem' = Stored(fails, corrupt)
    /\ call' = [call EXCEPT !.crc = StreamCrc(corrupt), !.err = err]
    /\ unit' = [unit EXCEPT !.err = FirstError(fails)]
    /\ pc' = "crc"
    /\ UNCHANGED <<host, stall>>

BadHere == IF unit.sel = "wb" THEN Bad ELSE {}
Stream(fails, corrupt, err) == BurstRead(fails, corrupt, err) \/ BurstWrite(fails, corrupt, err)
\* An error of the cable that does not end the burst at once (in a read, in a write behind its
\* data) is kept and returned in the end.
Transfer ==
    \/ Stream(BadHere, FALSE, FALSE) /\ UNCHANGED env
    \/ Stream(BadHere, TRUE, FALSE) /\ UseFault
    \/ \E a \in Addrs : unit.sel = "wb" /\ Stream(Bad \cup {a}, FALSE, FALSE) /\ UseFault
    \/ \E corrupt \in BOOLEAN : Stream(BadHere, corrupt, TRUE) /\ LoseTrack

\* A read waits MAX_READ_STATUS_WAIT bits in vain for the status: the whole block again.
ReadTimesOut ==
    /\ pc = "data" /\ IsRead(call.k)
    /\ IF DeadLink THEN UNCHANGED env ELSE UseFault
    /\ host' = AfterCommand(host)
    /\ pc' = "failed" /\ call' = [call EXCEPT !.i = 0, !.addr = call.start]
    /\ UNCHANGED <<unit, mem, stall>>

\* A write's stream fails in the cable, the words below cut done: what is left of the block again.
\* With nothing left the loop that looks at the error is not entered, and it goes on to the CRC.
WriteFails ==
    /\ pc = "data" /\ IsWrite(call.k)
    /\ \E cut \in Addrs \cup {NoErr} :
         /\ mem' = Stored(BadHere \cup {a \in Addrs : a >= cut}, FALSE)
         /\ unit' = [unit EXCEPT !.err = FirstError({a \in BadHere : a < cut})]
    /\ IF call.i < call.len THEN pc' = "failed" /\ UseFault /\ UNCHANGED call
       ELSE pc' = "crc" /\ LoseTrack /\ call' = [call EXCEPT !.crc = FALSE, !.err = TRUE]
    /\ UNCHANGED <<host, stall>>

\* Fault: the CRC is not looked at.
CheckCrc_Ignored ==
    /\ pc = "crc" /\ pc' = "error"
    /\ UNCHANGED <<host, unit, call, mem, stall, env>>

\* The CRC of the stream against the unit's: with another one the whole block again.
CheckCrc ==
    /\ pc = "crc"
    /\ IF call.crc THEN pc' = "error" /\ UNCHANGED call
       ELSE pc' = "mismatch" /\ call' = [call EXCEPT !.i = 0, !.addr = call.start]
    /\ UNCHANGED <<host, unit, mem, stall, env>>

\* A reset, and the burst command again.
Retry ==
    /\ pc \in {"failed", "mismatch"} /\ host.soft < NumSoftRetries
    /\ host' = retry_do(host) /\ unit' = [unit EXCEPT !.sel = None]
    /\ pc' = "command"
    /\ UNCHANGED <<mem, stall, call, env>>

\* No retry, for they are used up (which they never are, each command starting the count again) or
\* the cable fails in the reset: the call returns its error, but a write whose CRC differs ends
\* the program.
NoRetry ==
    /\ pc \in {"failed", "mismatch"}
    /\ IF host.soft >= NumSoftRetries
       THEN UNCHANGED <<host, unit>> /\ env' = [env EXCEPT !.lost = @ \/ pc = "failed"]
       ELSE /\ LoseTrack /\ host' = tap_enable_debug_module(tap_reset(host))
            /\ unit' \in {unit, [unit EXCEPT !.sel = None]}
    /\ IF pc = "failed" THEN Return("retries")
       ELSE IF IsRead(call.k) THEN Return("crc") ELSE pc' = "exit" /\ UNCHANGED call
    /\ UNCHANGED <<mem, stall>>

\* adbg_ctrl_read and adbg_ctrl_write select the register's index with the access.
adbg_select_ctrl_reg(h) == [h EXCEPT !.regs = @ \cup {h.chain}]
ScanReg(u) == IF u.sel = None THEN u ELSE [u EXCEPT !.regs = @ \cup {u.sel}]

\* Fault: the whole length again from the failing address on.
Resume_Whole(c, err) == [c EXCEPT !.errs = @ + 1, !.i = 0, !.addr = err]
\* Fault: on with the word after the failing one.
Resume_Next(c, err) == [c EXCEPT !.errs = @ + 1, !.i = err + 1 - c.start, !.addr = err + 1]
\* Fault: the bus error is not counted.
Resume_Uncounted(c, err) == [c EXCEPT !.i = err - c.start, !.addr = err]
\* What is left starts at the failing address.
Resume(c, err) == [c EXCEPT !.errs = @ + 1, !.i = err - c.start, !.addr = err]

Tired(errs) == errs + 1 > MaxBusErrors

\* After a burst on the Wishbone the error register is read: finish, give up, or reset the
\* register and go on from the address it holds.
CheckError ==
    /\ pc = "error"
    /\ LET h == adbg_select_ctrl_reg(host)
       IN IF host.chain # "wb" \/ unit.err = NoErr
          THEN /\ Return(IF call.err THEN "cable" ELSE "ok")
               /\ host' = IF host.chain # "wb" THEN retry_ok(host) ELSE retry_ok(h)
               /\ unit' = IF host.chain # "wb" THEN unit ELSE ScanReg(unit)
          ELSE /\ host' = retry_ok(h)
               /\ IF Tired(call.errs)
                  THEN /\ Return("bus")
                       /\ unit' = ScanReg(unit)
                  ELSE /\ pc' = "command"
                       /\ call' = Resume(call, unit.err)
                       /\ unit' = [ScanReg(unit) EXCEPT !.err = NoErr]
    /\ UNCHANGED <<mem, stall, env>>

\* The cable fails in an access to the error register: whatever is read, the call returns the
\* error, after one more command at most.
ErrorFails ==
    /\ pc = "error" /\ host.chain = "wb" /\ LoseTrack
    /\ host' = retry_ok(adbg_select_ctrl_reg(host))
    /\ unit' \in {unit, ScanReg(unit), [ScanReg(unit) EXCEPT !.err = NoErr]}
    /\ Return("cable")
    /\ UNCHANGED <<mem, stall>>

\* The status register of a processor's module: reset and stall.
CtrlWrite(s) ==
    /\ pc = "ctrl" /\ call.k \in {"cpu0_write_ctrl", "cpu1_write_ctrl"}
    /\ stall' = IF unit.sel \in Cpus THEN [stall EXCEPT ![unit.sel] = s] ELSE stall
    /\ host' = retry_ok(adbg_select_ctrl_reg(host)) /\ unit' = ScanReg(unit)
    /\ Return("ok")
    /\ UNCHANGED <<mem, env>>

CtrlRead ==
    /\ pc = "ctrl" /\ call.k \in {"cpu0_read_ctrl", "cpu1_read_ctrl"}
    /\ host' = retry_ok(adbg_select_ctrl_reg(host))
    /\ unit' = IF host.chain \in host.regs THEN unit ELSE ScanReg(unit)
    /\ call' = [call EXCEPT !.ret = "ok",
                            !.bit = unit.sel \in Cpus /\ unit.sel \in unit'.regs /\ stall[unit.sel]]
    /\ pc' = "idle"
    /\ UNCHANGED <<mem, stall, env>>

\* The cable fails in either: the register counts as selected, the stall bit is set or not.
CtrlFails ==
    /\ pc = "ctrl" /\ LoseTrack
    /\ host' = retry_ok(adbg_select_ctrl_reg(host)) /\ unit' \in {unit, ScanReg(unit)}
    /\ \/ UNCHANGED stall
       \/ /\ call.k \in {"cpu0_write_ctrl", "cpu1_write_ctrl"} /\ unit.sel \in Cpus
          /\ \E s \in BOOLEAN : stall' = [stall EXCEPT ![unit.sel] = s]
    /\ Return("cable")
    /\ UNCHANGED mem

-----------------------------------------------------------------------------
Lens(k) == IF k \in {"wb_read", "wb_write"} THEN 1 .. MaxLen ELSE {1}
NewCall == \E k \in Calls, start \in Addrs : \E len \in Lens(k) :
             start + len <= Cardinality(Addrs) /\ StartCall(k, start, len)
Step == SelectModule \/ SelectFails \/ BurstCommand \/ CommandFails \/ Transfer \/ ReadTimesOut \/ WriteFails
        \/ CheckCrc \/ Retry \/ NoRetry \/ CheckError \/ ErrorFails
        \/ (\E s \in BOOLEAN : CtrlWrite(s)) \/ CtrlRead \/ CtrlFails
Next == NewCall \/ Step
DbgSpec == Init /\ [][Next]_vars /\ WF_vars(Step)

-----------------------------------------------------------------------------
(* Properties.                                                             *)

CallType ==
    [k : CallKinds \cup {None}, start : Addrs, len : Nat, data : Seq(Nat \X Nat), i : Int, addr : Addrs,
     errs : 0 .. MaxBusErrors, crc : BOOLEAN, err : BOOLEAN, orphan : BOOLEAN, bit : BOOLEAN,
     ret : {None, "ok", "cable", "crc", "retries", "bus"}]

HostType == [chain : Modules \cup {None}, desired : Modules \cup {None}, regs : SUBSET Modules, soft : 0 .. NumSoftRetries]
UnitType ==
    [sel : Modules \cup {None}, regs : SUBSET Modules, err : Addrs \cup {NoErr}, burst : {<<>>} \cup (Addrs \X Int)]
EnvType == [faults : 0 .. MaxFaults, calls : 0 .. MaxCalls, lost : BOOLEAN, xilinx : Xilinx]

DbgTypeOK ==
    /\ host \in HostType /\ unit \in UnitType /\ env \in EnvType
    /\ mem \in [Modules -> [Addrs -> Nat \X Nat]]
    /\ stall \in [Cpus -> BOOLEAN]
    /\ pc \in {"idle", "select", "command", "data", "failed", "crc", "mismatch", "error", "ctrl", "exit"}
    /\ call \in CallType /\ Len(call.data) = call.len /\ call.start + call.len <= Cardinality(Addrs)

\* The module a call's name promises, and the words it is about.
Module(k) == IF k = "cpu1_write" THEN "cpu1" ELSE Selects(k)
CallWords == call.start .. call.start + call.len - 1
Returned(ret) == pc = "idle" /\ call.ret = ret /\ ~env.lost

\* The copies that save scans never disagree with the debug unit, through resets and retries,
\* unless the cable failed in a scan that nothing repeats.
SelectionMirrors ==
    ~env.lost => (host.chain # None => unit.sel = host.chain) /\ host.regs \subseteq unit.regs

\* A read that reports success returns what is there, whatever was corrupted, timed out or
\* refused on the way; not so for bus errors behind a Xilinx BSCAN.
ReadTruthful ==
    Returned("ok") =>
        /\ IsRead(call.k) /\ ~(env.xilinx /\ call.k = "wb_read") =>
               \A j \in 1 .. call.len : call.data[j] = mem[Module(call.k)][call.start + j - 1]
        /\ call.k \in {"cpu0_read_ctrl", "cpu1_read_ctrl"} => call.bit = stall[Module(call.k)]

\* A write that reports success has written every word, although a resumed burst starts
\* again with the first word of the data.
WriteDone ==
    Returned("ok") /\ IsBurst(call.k) /\ ~IsRead(call.k) =>
        \A j \in 1 .. call.len : mem[Module(call.k)][call.start + j - 1] = call.data[j]

\* No step changes a word outside the range of the call in progress, provided the call did not
\* find a bus error of an earlier one in the unit.
WritesStayInRange ==
    [][\A m \in Modules, a \in Addrs :
         mem'[m][a] # mem[m][a] /\ ~env.lost /\ ~call.orphan => m = Module(call.k) /\ a \in CallWords]_vars

\* A call that succeeds leaves no bus error for the next one to find.
ErrorRegisterClean == Returned("ok") /\ ~env.xilinx /\ Module(call.k) = "wb" => unit.err = NoErr

Bursting == pc \in {"command", "data", "failed", "crc", "mismatch", "error"}

\* Where a call is: its module is the one desired, and what is left of it begins at its address.
Underway ==
    /\ pc # "idle" => call.k \in Calls /\ call.len > 0 /\ call.ret = None
    /\ pc = "select" => call.i = 0 /\ call.addr = call.start
    /\ pc = "ctrl" => ~IsBurst(call.k) /\ host.chain = Selects(call.k)
    /\ Bursting => IsBurst(call.k) /\ host.desired = Selects(call.k) /\ call.addr = call.start + call.i
    /\ pc = "data" => host.chain = host.desired
    /\ pc \in {"crc", "error"} => host.chain = host.desired \/ (env.xilinx /\ IsRead(call.k) /\ host.chain = None)

\* The burst the unit is in is what is left of the call, in the call's module.
BurstAsAsked ==
    pc \in {"data", "crc", "error"} =>
        /\ unit.burst = <<IF call.len < call.i THEN Last ELSE call.addr, call.len - call.i>>
        /\ ~env.lost => unit.sel = host.desired

\* A bus error that the call did not find in the unit is at one of its own words, and so is what is left.
OwnErrors ==
    pc # "idle" /\ ~env.lost /\ ~call.orphan =>
        /\ call.i \in 0 .. call.len - 1
        /\ unit.err # NoErr => unit.err \in CallWords

\* Behind a CRC that agrees every word is in place, unless the unit holds a bus error.
Agreed ==
    /\ pc = "error" => call.crc
    /\ pc \in {"crc", "error"} /\ call.crc /\ ~env.lost =>
           /\ call.i = 0
           /\ \/ unit.sel = "wb" /\ unit.err # NoErr
              \/ \A j \in 1 .. call.len : mem[unit.sel][call.start + j - 1] = call.data[j]

\* The inductive invariant: with it calls are truthful and leave the unit as the next call expects it.
BurstInv ==
    /\ DbgTypeOK /\ SelectionMirrors /\ Underway /\ BurstAsAsked /\ OwnErrors /\ Agreed
    /\ ReadTruthful /\ WriteDone /\ ErrorRegisterClean

\* Every call returns and releases the mutex, or ends the program: retries end when faults do, and
\* an address that always fails is given up.
CallReturns == pc \notin {"idle", "exit"} ~> pc \in {"idle", "exit"}
=============================================================================
