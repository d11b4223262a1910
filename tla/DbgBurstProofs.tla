--------------------------- MODULE DbgBurstProofs ---------------------------
(* Calls of the debug API are truthful for any memory, any addresses that   *)
(* always fail, any calls and any faults: what the bridge remembers of the  *)
(* debug unit's selection is so, a call that succeeds has done what it      *)
(* says, and a write stays in its range.                                    *)
EXTENDS DbgBurst, TLAPS, FiniteSetTheorems, WellFoundedInduction

-----------------------------------------------------------------------------
(* Constants and kinds of call.                                             *)

LEMMA AddrFacts ==
    /\ NoErr \in Nat /\ NoErr >= 1 /\ Cardinality(Addrs) = NoErr /\ Addrs = 0 .. NoErr - 1
    /\ NoErr \notin Addrs /\ Last \in Addrs /\ 0 \in Addrs /\ Last = NoErr - 1
<1>1. Cardinality(Addrs) \in Nat
  BY DbgAssumption, FS_CardinalityType
<1>2. Cardinality(Addrs) >= 1
  BY <1>1, DbgAssumption
<1> QED
  BY <1>1, <1>2, DbgAssumption DEF NoErr, Last

LEMMA KindFacts ==
    ASSUME NEW k \in CallKinds
    PROVE  /\ Selects(k) \in Modules /\ Selects(k) # None
           /\ IsRead(k) => IsBurst(k) /\ Module(k) = Selects(k) /\ (Selects(k) = "wb" => k = "wb_read")
           /\ k # "cpu1_write" => Module(k) = Selects(k)
           /\ Module(k) = "wb" <=> Selects(k) = "wb"
           /\ ~IsBurst(k) => k \in {"cpu0_read_ctrl", "cpu1_read_ctrl", "cpu0_write_ctrl", "cpu1_write_ctrl"}
           /\ k \in {"cpu0_read_ctrl", "cpu1_read_ctrl"} => ~IsBurst(k) /\ Selects(k) \in Cpus /\ Module(k) = Selects(k)
BY DEF CallKinds, Selects, Modules, None, IsRead, IsWrite, IsBurst, Module, Cpus

LEMMA ConstantFacts ==
    /\ MaxBusErrors \in Nat /\ NumSoftRetries \in Nat /\ MaxFaults \in Nat /\ MaxLen \in Nat /\ MaxCalls \in Nat
    /\ Calls \subseteq CallKinds /\ Bad \subseteq Addrs /\ Xilinx \subseteq BOOLEAN
BY DbgAssumption

-----------------------------------------------------------------------------
(* Parts of the invariant that say nothing of some states.                  *)

Position == Underway /\ BurstAsAsked /\ OwnErrors /\ Agreed
Truth == ReadTruthful /\ WriteDone /\ ErrorRegisterClean

\* A call in progress has reported nothing yet.
LEMMA Silent == ASSUME pc' # "idle" PROVE Truth'
BY DEF Truth, ReadTruthful, WriteDone, ErrorRegisterClean, Returned

\* A call that returned asks nothing of the unit, ...
LEMMA Done == ASSUME pc' = "idle" PROVE Position'
BY DEF Position, Underway, Bursting, BurstAsAsked, OwnErrors, Agreed

\* ... and one that returned an error has promised nothing.
LEMMA GivenUp == ASSUME pc' = "idle", call'.ret # "ok" PROVE Position' /\ Truth'
BY Done DEF Truth, ReadTruthful, WriteDone, ErrorRegisterClean, Returned

LEMMA InvParts == BurstInv <=> DbgTypeOK /\ SelectionMirrors /\ Position /\ Truth
BY DEF BurstInv, Position, Truth

LEMMA InvPartsNext == BurstInv' <=> DbgTypeOK' /\ SelectionMirrors' /\ Position' /\ Truth'
BY DEF BurstInv, Position, Truth

-----------------------------------------------------------------------------
(* The start of a call.                                                     *)

LEMMA InitInv == Init => BurstInv
<1> SUFFICES ASSUME Init PROVE BurstInv
  OBVIOUS
<1> USE AddrFacts, ConstantFacts
<1>1. DbgTypeOK
  <2>1. call \in CallType /\ Len(call.data) = call.len /\ call.start + call.len <= Cardinality(Addrs)
    BY DEF Init, CallType, None
  <2>2. mem \in [Modules -> [Addrs -> Nat \X Nat]]
    BY DEF Init, Old
  <2>3. unit \in UnitType
    BY DEF Init, UnitType
  <2>4. env \in EnvType
    <3>1. PICK x \in Xilinx : env = [faults |-> MaxFaults, calls |-> 0, lost |-> FALSE, xilinx |-> x]
      BY DEF Init
    <3> QED
      BY <3>1 DEF EnvType
  <2>5. host \in HostType
    BY DEF Init, HostType
  <2>6. stall \in [Cpus -> BOOLEAN] /\ pc = "idle"
    BY DEF Init
  <2> QED
    BY <2>1, <2>2, <2>3, <2>4, <2>5, <2>6 DEF DbgTypeOK
<1>2. SelectionMirrors
  BY DEF Init, SelectionMirrors
<1>3. Position
  BY DEF Init, Position, Underway, Bursting, BurstAsAsked, OwnErrors, Agreed
<1>4. Truth
  BY DEF Init, Truth, ReadTruthful, WriteDone, ErrorRegisterClean, Returned, None
<1> QED
  BY <1>1, <1>2, <1>3, <1>4, InvParts

LEMMA NewCallInv == ASSUME BurstInv, NewCall PROVE BurstInv'
<1> USE AddrFacts, ConstantFacts
<1>0. DbgTypeOK /\ SelectionMirrors
  BY DEF BurstInv
<1>1. PICK k \in Calls, start \in Addrs : \E len \in Lens(k) : start + len <= Cardinality(Addrs) /\ StartCall(k, start, len)
  BY DEF NewCall
<1>2. PICK len \in Lens(k) : start + len <= Cardinality(Addrs) /\ StartCall(k, start, len)
  BY <1>1
<1>3. len \in Nat /\ len > 0
  BY DEF Lens
<1>4. /\ pc = "idle" /\ pc' = "select" /\ UNCHANGED <<host, unit, mem, stall>>
      /\ env.calls < MaxCalls /\ env' = [env EXCEPT !.calls = @ + 1]
      /\ call' = [k |-> k, start |-> start, len |-> len,
                  data |-> IF IsRead(k) THEN [j \in 1 .. len |-> Junk] ELSE [j \in 1 .. len |-> <<env.calls + 1, j>>],
                  i |-> 0, addr |-> start, errs |-> 0, crc |-> TRUE, err |-> FALSE, orphan |-> unit.err # NoErr,
                  bit |-> FALSE, ret |-> None]
  BY <1>2 DEF StartCall
<1>5. /\ call'.k = k /\ call'.start = start /\ call'.len = len /\ call'.i = 0 /\ call'.addr = start
      /\ call'.errs = 0 /\ call'.crc = TRUE /\ call'.orphan = (unit.err # NoErr) /\ call'.bit = FALSE /\ call'.ret = None
      /\ call'.data = IF IsRead(k) THEN [j \in 1 .. len |-> Junk] ELSE [j \in 1 .. len |-> <<env.calls + 1, j>>]
  BY <1>4
<1>6. env.calls \in Nat /\ env' \in EnvType
  <2>1. env \in EnvType
    BY <1>0 DEF DbgTypeOK
  <2>2. env.calls \in 0 .. MaxCalls /\ env.calls + 1 \in 0 .. MaxCalls
    BY <2>1, <1>4 DEF EnvType
  <2> QED
    BY <2>1, <2>2, <1>4, SMTT(40) DEF EnvType
<1>7. call'.data \in Seq(Nat \X Nat) /\ Len(call'.data) = len
  <2>1. CASE IsRead(k)
    BY <2>1, <1>3, <1>5 DEF Junk
  <2>2. CASE ~IsRead(k)
    BY <2>2, <1>3, <1>5, <1>6
  <2> QED
    BY <2>1, <2>2
<1>8. call' \in CallType
  BY <1>1, <1>3, <1>4, <1>7 DEF CallType, None
<1>9. DbgTypeOK'
  BY <1>0, <1>2, <1>4, <1>5, <1>6, <1>7, <1>8 DEF DbgTypeOK
<1>10. SelectionMirrors'
  BY <1>0, <1>4, <1>6 DEF SelectionMirrors, DbgTypeOK, EnvType
<1>11. Position'
  <2>1. Underway' /\ BurstAsAsked' /\ Agreed'
    BY <1>3, <1>4, <1>5 DEF Underway, Bursting, BurstAsAsked, Agreed
  <2>2. ~call'.orphan => unit'.err = NoErr
    BY <1>4, <1>5
  <2> QED
    BY <2>1, <2>2, <1>3, <1>5 DEF Position, OwnErrors
<1> QED
  BY <1>4, <1>9, <1>10, <1>11, Silent, InvPartsNext

-----------------------------------------------------------------------------
(* Steps of a call.                                                         *)

\* What a step may take for granted.
Known ==
    /\ DbgTypeOK /\ SelectionMirrors /\ Underway /\ BurstAsAsked /\ OwnErrors /\ Agreed
    /\ host \in HostType /\ unit \in UnitType /\ env \in EnvType /\ call \in CallType
    /\ call.start + call.len <= NoErr /\ Len(call.data) = call.len
    /\ env.lost \in BOOLEAN /\ env.xilinx \in BOOLEAN
    /\ pc # "idle" => call.k \in Calls /\ call.k \in CallKinds /\ Selects(call.k) \in Modules /\ Selects(call.k) # None

LEMMA WhatIsKnown == ASSUME BurstInv PROVE Known
<1>1. DbgTypeOK /\ SelectionMirrors /\ Underway /\ BurstAsAsked /\ OwnErrors /\ Agreed
  BY DEF BurstInv
<1>2. host \in HostType /\ unit \in UnitType /\ env \in EnvType /\ call \in CallType
  BY <1>1 DEF DbgTypeOK
<1>3. call.start + call.len <= NoErr /\ Len(call.data) = call.len
  BY <1>1, AddrFacts DEF DbgTypeOK
<1>4. env.lost \in BOOLEAN /\ env.xilinx \in BOOLEAN
  BY <1>2, ConstantFacts DEF EnvType
<1>5. pc # "idle" => call.k \in Calls
  BY <1>1 DEF Underway
<1>6. ASSUME pc # "idle" PROVE call.k \in CallKinds /\ Selects(call.k) \in Modules /\ Selects(call.k) # None
  BY <1>5, <1>6, ConstantFacts, KindFacts
<1> QED
  BY <1>1, <1>2, <1>3, <1>4, <1>5, <1>6 DEF Known

\* The type of the state after a step that leaves the memories.
LEMMA StepType ==
    ASSUME Known, host' \in HostType, unit' \in UnitType, env' \in EnvType, call' \in CallType,
           Len(call'.data) = call'.len, call'.start + call'.len <= Cardinality(Addrs),
           mem' \in [Modules -> [Addrs -> Nat \X Nat]], stall' \in [Cpus -> BOOLEAN],
           pc' \in {"idle", "select", "command", "data", "failed", "crc", "mismatch", "error", "ctrl", "exit"}
    PROVE  DbgTypeOK'
BY DEF DbgTypeOK

\* The fault counter of a step that uses a fault, and of one that does not.
LEMMA FaultUsed ==
    ASSUME Known, NEW lost \in BOOLEAN,
           \/ env.faults > 0 /\ env' = [env EXCEPT !.faults = @ - 1, !.lost = lost]
           \/ env.faults > 0 /\ env' = [env EXCEPT !.faults = @ - 1] /\ lost = env.lost
           \/ env' = env /\ lost = env.lost
    PROVE  env' \in EnvType /\ env'.lost = lost /\ env'.xilinx = env.xilinx
<1>1. env \in EnvType
  BY DEF Known
<1>2. env.faults > 0 => env.faults - 1 \in 0 .. MaxFaults
  BY <1>1, ConstantFacts DEF EnvType
<1> QED
  BY <1>1, <1>2 DEF EnvType

\* A call that returns.
LEMMA ResultType ==
    ASSUME Known, NEW ret \in {"ok", "cable", "crc", "retries", "bus"}, call' = [call EXCEPT !.ret = ret]
    PROVE  /\ call' \in CallType /\ Len(call'.data) = call'.len /\ call'.start + call'.len <= Cardinality(Addrs)
           /\ call'.ret = ret /\ call'.k = call.k /\ call'.start = call.start /\ call'.len = call.len
           /\ call'.data = call.data /\ call'.bit = call.bit /\ call'.err = call.err
BY AddrFacts DEF Known, CallType

LEMMA SameCallType ==
    ASSUME Known, call' = call
    PROVE  call' \in CallType /\ Len(call'.data) = call'.len /\ call'.start + call'.len <= Cardinality(Addrs)
BY AddrFacts DEF Known

\* Errors are still the call's own when nothing they are about has changed.
LEMMA OwnErrorsStay ==
    ASSUME Known, pc # "idle", call' = call, unit'.err = unit.err, env.lost => env'.lost
    PROVE  OwnErrors'
<1>1. OwnErrors
  BY DEF Known
<1> QED
  BY <1>1 DEF OwnErrors, CallWords

\* A call that gives up with an error: what is known of the unit is as before, or nothing any more.
LEMMA GivesUpInv ==
    ASSUME Known, pc' = "idle", NEW ret \in {"cable", "crc", "retries", "bus"}, call' = [call EXCEPT !.ret = ret],
           host' \in HostType, unit' \in UnitType, env' \in EnvType,
           mem' \in [Modules -> [Addrs -> Nat \X Nat]], stall' \in [Cpus -> BOOLEAN],
           SelectionMirrors'
    PROVE  BurstInv'
<1>1. /\ call' \in CallType /\ Len(call'.data) = call'.len /\ call'.start + call'.len <= Cardinality(Addrs)
      /\ call'.ret # "ok"
  BY ResultType
<1>2. DbgTypeOK'
  BY <1>1, StepType
<1> QED
  BY <1>1, <1>2, GivenUp, InvPartsNext

\* A fault after which nobody knows what the unit has taken.
LEMMA Lost == ASSUME Known, LoseTrack PROVE env' \in EnvType /\ env'.lost /\ SelectionMirrors'
<1>1. env.faults > 0 /\ env' = [env EXCEPT !.faults = @ - 1, !.lost = TRUE]
  BY DEF LoseTrack
<1>2. env' \in EnvType /\ env'.lost = TRUE
  BY <1>1, FaultUsed
<1> QED
  BY <1>2 DEF SelectionMirrors

\* An access to a control register leaves its module's register selected.
LEMMA RegisterTypes ==
    ASSUME Known, host' = retry_ok(adbg_select_ctrl_reg(host)), host.chain \in Modules
    PROVE  host' \in HostType /\ ScanReg(unit) \in UnitType /\ [ScanReg(unit) EXCEPT !.err = NoErr] \in UnitType
<1>1. host \in HostType /\ unit \in UnitType /\ 0 \in 0 .. NumSoftRetries
  BY ConstantFacts DEF Known
<1>2. host' = [host EXCEPT !.regs = host.regs \cup {host.chain}, !.soft = 0]
  BY <1>1 DEF retry_ok, adbg_select_ctrl_reg, HostType
<1>3. host' \in HostType
  BY <1>1, <1>2 DEF HostType
<1>4. ScanReg(unit) \in UnitType
  BY <1>1 DEF ScanReg, UnitType
<1> QED
  BY <1>3, <1>4 DEF UnitType

LEMMA SelectModuleInv == ASSUME BurstInv, SelectModule PROVE BurstInv'
<1> USE AddrFacts, ConstantFacts
<1> DEFINE m == Selects(call.k)
<1>1. Known
  BY WhatIsKnown
<1>2. /\ pc = "select" /\ host' = [host EXCEPT !.chain = m, !.desired = m]
      /\ unit' = IF host.chain = m THEN unit ELSE [unit EXCEPT !.sel = m]
      /\ pc' = IF IsBurst(call.k) THEN "command" ELSE "ctrl"
      /\ UNCHANGED <<mem, stall, call, env>>
  BY DEF SelectModule, adbg_select_module, ScanSelect
<1>3. call.k \in Calls /\ m \in Modules /\ m # None /\ call.i = 0 /\ call.addr = call.start /\ call.len > 0 /\ call.ret = None
  BY <1>1, <1>2 DEF Known, Underway
<1> HIDE DEF m
<1>4. /\ host' \in HostType /\ unit' \in UnitType
      /\ host'.chain = m /\ host'.desired = m /\ host'.regs = host.regs
      /\ unit'.regs = unit.regs /\ unit'.err = unit.err
      /\ unit'.sel = IF host.chain = m THEN unit.sel ELSE m
  BY <1>1, <1>2, <1>3 DEF Known, HostType, UnitType
<1>5. ~env.lost => unit'.sel = m
  BY <1>1, <1>3, <1>4 DEF Known, SelectionMirrors
<1>6. DbgTypeOK'
  BY <1>1, <1>2, <1>4, StepType, SameCallType DEF Known, DbgTypeOK
<1>7. SelectionMirrors'
  BY <1>1, <1>2, <1>4, <1>5 DEF SelectionMirrors, Known
<1>8. Position'
  <2>1. Underway'
    BY <1>2, <1>3, <1>4, <1>1 DEF Underway, Bursting, Known, CallType, m
  <2>2. BurstAsAsked' /\ Agreed'
    BY <1>2 DEF BurstAsAsked, Agreed
  <2>3. OwnErrors'
    BY <1>1, <1>2, <1>4, OwnErrorsStay
  <2> QED
    BY <2>1, <2>2, <2>3 DEF Position
<1>9. pc' # "idle"
  BY <1>2
<1> QED
  BY <1>6, <1>7, <1>8, <1>9, Silent, InvPartsNext

LEMMA SelectFailsInv == ASSUME BurstInv, SelectFails PROVE BurstInv'
<1>1. Known
  BY WhatIsKnown
<1>2. /\ pc = "select" /\ pc' = "idle" /\ LoseTrack
      /\ host' = [host EXCEPT !.chain = Selects(call.k), !.desired = Selects(call.k)]
      /\ call' = [call EXCEPT !.ret = "cable"]
      /\ UNCHANGED <<unit, mem, stall>>
  BY DEF SelectFails, Return, adbg_select_module
<1>3. host' \in HostType
  BY <1>1, <1>2 DEF Known, HostType
<1> QED
  BY <1>1, <1>2, <1>3, Lost, GivesUpInv DEF Known, DbgTypeOK

LEMMA CommandFailsInv == ASSUME BurstInv, CommandFails PROVE BurstInv'
<1> USE AddrFacts, ConstantFacts
<1>1. Known
  BY WhatIsKnown
<1>2. /\ pc = "command" /\ pc' = "idle" /\ env.faults > 0
      /\ \/ host' = [host EXCEPT !.chain = host.desired, !.desired = host.desired, !.soft = 0]
         \/ host' = [host EXCEPT !.chain = host.desired, !.desired = host.desired]
      /\ call' = [call EXCEPT !.ret = "cable"]
      /\ UNCHANGED <<unit, mem, stall>>
  BY DEF CommandFails, Return, adbg_select_module, retry_ok
<1>3. PICK lost \in {env.lost \/ host.chain # host.desired, TRUE} : env' = [env EXCEPT !.faults = @ - 1, !.lost = lost]
  BY DEF CommandFails
<1>4. host' \in HostType /\ host'.chain = host.desired /\ host'.regs = host.regs
  <2>1. host \in HostType /\ 0 \in 0 .. NumSoftRetries
    BY <1>1 DEF Known
  <2> QED
    BY <2>1, <1>2 DEF HostType
<1>5. env' \in EnvType /\ env'.lost = lost /\ lost \in BOOLEAN
  <2>1. lost \in BOOLEAN
    BY <1>1 DEF Known
  <2> QED
    BY <1>1, <1>2, <1>3, <2>1, FaultUsed
<1>6. ~lost => ~env.lost /\ host.chain = host.desired
  BY <1>1 DEF Known
<1>7. SelectionMirrors'
  BY <1>1, <1>2, <1>4, <1>5, <1>6 DEF SelectionMirrors, Known
<1> QED
  BY <1>1, <1>2, <1>4, <1>5, <1>7, GivesUpInv DEF Known, DbgTypeOK

LEMMA BurstCommandInv == ASSUME BurstInv, BurstCommand PROVE BurstInv'
<1> USE AddrFacts, ConstantFacts
<1> DEFINE n == call.len - call.i
           at == IF n < 0 THEN Last ELSE call.addr
<1>1. Known
  BY WhatIsKnown
<1>2. /\ pc = "command"
      /\ host' = [host EXCEPT !.chain = host.desired, !.desired = host.desired, !.soft = 0]
      /\ unit' = [(IF host.chain = host.desired THEN unit ELSE [unit EXCEPT !.sel = host.desired]) EXCEPT !.burst = <<at, n>>]
      /\ \/ call.err /\ pc' = "idle" /\ call' = [call EXCEPT !.ret = "cable"]
         \/ pc' = "data" /\ call' = call
      /\ UNCHANGED <<mem, stall, env>>
  BY DEF BurstCommand, Return, adbg_burst_command, adbg_select_module, ScanSelect, retry_ok
<1>3. /\ call.k \in Calls /\ call.len > 0 /\ call.ret = None /\ IsBurst(call.k) /\ host.desired = Selects(call.k)
      /\ host.desired \in Modules /\ host.desired # None /\ call.addr = call.start + call.i
  BY <1>1, <1>2 DEF Known, Underway, Bursting
<1>4. n \in Int /\ at \in Addrs /\ (n < 0 <=> call.len < call.i)
  BY <1>1 DEF Known, CallType
<1> HIDE DEF at, n
<1>5. /\ host' \in HostType /\ host'.chain = host.desired /\ host'.desired = host.desired /\ host'.regs = host.regs
  <2>1. host \in HostType
    BY <1>1 DEF Known
  <2>2. 0 \in 0 .. NumSoftRetries
    BY ConstantFacts
  <2> QED
    BY <2>1, <2>2, <1>2 DEF HostType
<1>6. /\ unit' \in UnitType /\ unit'.regs = unit.regs /\ unit'.err = unit.err /\ unit'.burst = <<at, n>>
      /\ unit'.sel = IF host.chain = host.desired THEN unit.sel ELSE host.desired
  BY <1>1, <1>2, <1>3, <1>4 DEF Known, UnitType
<1>7. ~env.lost => unit'.sel = host.desired
  BY <1>1, <1>3, <1>6 DEF Known, SelectionMirrors
<1>8. SelectionMirrors'
  BY <1>1, <1>2, <1>5, <1>6, <1>7 DEF SelectionMirrors, Known
<1>9. CASE pc' = "idle" /\ call' = [call EXCEPT !.ret = "cable"]
  BY <1>1, <1>2, <1>5, <1>6, <1>8, <1>9, GivesUpInv DEF Known, DbgTypeOK
<1>10. CASE pc' = "data" /\ call' = call
  <2>1. DbgTypeOK'
    BY <1>1, <1>2, <1>5, <1>6, <1>10, StepType, SameCallType DEF Known, DbgTypeOK
  <2>2. Underway'
    BY <1>2, <1>3, <1>5, <1>10 DEF Underway, Bursting
  <2>3. BurstAsAsked'
    BY <1>2, <1>4, <1>5, <1>6, <1>7, <1>10 DEF BurstAsAsked, at, n
  <2>4. Agreed'
    BY <1>10 DEF Agreed
  <2>5. OwnErrors'
    BY <1>1, <1>2, <1>6, <1>10, OwnErrorsStay
  <2>6. Truth'
    BY <1>10, Silent
  <2> QED
    BY <1>8, <2>1, <2>2, <2>3, <2>4, <2>5, <2>6, InvPartsNext DEF Position
<1> QED
  BY <1>2, <1>9, <1>10

\* After a reset nothing counts as selected, and the burst is to be commanded again.
LEMMA RetryInv == ASSUME BurstInv, Retry PROVE BurstInv'
<1> USE AddrFacts, ConstantFacts
<1>1. Known /\ pc \in {"failed", "mismatch"} /\ host.soft < NumSoftRetries
  BY WhatIsKnown DEF Retry
<1>2. /\ pc' = "command" /\ host' = retry_do(host) /\ unit' = [unit EXCEPT !.sel = None]
      /\ UNCHANGED <<mem, stall, call, env>>
  BY DEF Retry
<1>3. host' \in HostType /\ host'.chain = None /\ host'.regs = {} /\ host'.desired = host.desired
  <2>1. host \in HostType /\ host.soft + 1 \in 0 .. NumSoftRetries
    BY <1>1 DEF Known, HostType
  <2> QED
    BY <1>2, <2>1 DEF retry_do, tap_enable_debug_module, tap_reset, tap_set_ir, HostType
<1>4. unit' \in UnitType /\ unit'.err = unit.err
  BY <1>1, <1>2 DEF Known, UnitType
<1>5. DbgTypeOK'
  BY <1>1, <1>2, <1>3, <1>4, StepType, SameCallType DEF Known, DbgTypeOK
<1>6. SelectionMirrors'
  BY <1>3 DEF SelectionMirrors
<1>7. Underway'
  BY <1>1, <1>2, <1>3 DEF Known, Underway, Bursting
<1>8. OwnErrors'
  BY <1>1, <1>2, <1>4, OwnErrorsStay
<1>9. BurstAsAsked' /\ Agreed' /\ pc' # "idle"
  BY <1>2 DEF BurstAsAsked, Agreed
<1> QED
  BY <1>5, <1>6, <1>7, <1>8, <1>9, Silent, InvPartsNext DEF Position

LEMMA NoRetryInv == ASSUME BurstInv, NoRetry PROVE BurstInv'
<1> USE AddrFacts, ConstantFacts
<1>1. Known /\ pc \in {"failed", "mismatch"} /\ UNCHANGED <<mem, stall>>
  BY WhatIsKnown DEF NoRetry
<1>2. host' \in HostType /\ unit' \in UnitType /\ env' \in EnvType /\ (env.lost => env'.lost) /\ SelectionMirrors'
      /\ unit'.err = unit.err /\ host'.desired = host.desired
  <2>1. CASE host.soft >= NumSoftRetries
    <3>1. UNCHANGED <<host, unit>> /\ env' = [env EXCEPT !.lost = env.lost \/ pc = "failed"]
      BY <1>1, <2>1 DEF NoRetry, Known, EnvType
    <3>2. env' \in EnvType /\ (env.lost => env'.lost)
      BY <1>1, <3>1 DEF Known, EnvType
    <3> QED
      BY <1>1, <3>1, <3>2 DEF Known, SelectionMirrors
  <2>2. CASE ~(host.soft >= NumSoftRetries)
    <3>1. LoseTrack /\ host' = tap_enable_debug_module(tap_reset(host)) /\ unit' \in {unit, [unit EXCEPT !.sel = None]}
      BY <2>2 DEF NoRetry
    <3>2. host' \in HostType /\ unit' \in UnitType /\ unit'.err = unit.err /\ host'.desired = host.desired
      BY <1>1, <3>1 DEF tap_enable_debug_module, tap_reset, tap_set_ir, Known, HostType, UnitType
    <3> QED
      BY <1>1, <3>1, <3>2, Lost
  <2> QED
    BY <2>1, <2>2
<1>3. CASE pc = "failed" \/ IsRead(call.k)
  <2>1. PICK ret \in {"retries", "crc"} : pc' = "idle" /\ call' = [call EXCEPT !.ret = ret]
    BY <1>3 DEF NoRetry, Return
  <2> QED
    BY <1>1, <1>2, <2>1, GivesUpInv DEF Known, DbgTypeOK
<1>4. CASE ~(pc = "failed" \/ IsRead(call.k))
  <2>1. pc' = "exit" /\ UNCHANGED call
    BY <1>4 DEF NoRetry
  <2>2. DbgTypeOK'
    BY <1>1, <1>2, <2>1, StepType, SameCallType DEF Known, DbgTypeOK
  <2>3. Underway'
    BY <1>1, <2>1 DEF Known, Underway, Bursting
  <2>4. OwnErrors'
    BY <1>1, <1>2, <2>1, OwnErrorsStay
  <2>5. BurstAsAsked' /\ Agreed' /\ pc' # "idle"
    BY <2>1 DEF BurstAsAsked, Agreed
  <2> QED
    BY <1>2, <2>2, <2>3, <2>4, <2>5, Silent, InvPartsNext DEF Position
<1> QED
  BY <1>3, <1>4

\* The whole block is to be tried again.
LEMMA WholeAgainInv ==
    ASSUME Known, pc \in {"data", "crc"}, pc' \in {"failed", "mismatch"}, call' = [call EXCEPT !.i = 0, !.addr = call.start],
           host' \in HostType, host'.desired = host.desired, UNCHANGED <<unit, mem, stall>>,
           env' \in EnvType, env'.lost = env.lost, SelectionMirrors'
    PROVE  BurstInv'
<1> USE AddrFacts
<1>1. /\ call' \in CallType /\ call'.i = 0 /\ call'.addr = call.start /\ call'.start = call.start /\ call'.len = call.len
      /\ call'.k = call.k /\ call'.ret = call.ret /\ call'.data = call.data /\ call'.orphan = call.orphan
  <2>1. call \in CallType /\ 0 \in Int /\ call.start \in Addrs
    BY DEF Known, CallType
  <2> QED
    BY <2>1 DEF CallType
<1>2. DbgTypeOK'
  BY <1>1, StepType DEF Known, DbgTypeOK
<1>3. Underway /\ OwnErrors /\ call.start \in Int /\ call.len \in Nat
  BY DEF Known, CallType
<1>4. Underway'
  BY <1>1, <1>3 DEF Underway, Bursting
<1>5. OwnErrors'
  BY <1>1, <1>3 DEF OwnErrors, CallWords, Underway
<1>6. BurstAsAsked' /\ Agreed' /\ pc' # "idle"
  BY DEF BurstAsAsked, Agreed
<1> QED
  BY <1>2, <1>4, <1>5, <1>6, Silent, InvPartsNext DEF Position

\* The Xilinx work-around only forgets the selection.
LEMMA AfterCommandFacts ==
    ASSUME Known
    PROVE  /\ AfterCommand(host) \in HostType
           /\ AfterCommand(host).desired = host.desired /\ AfterCommand(host).regs = host.regs
           /\ AfterCommand(host).chain = IF env.xilinx THEN None ELSE host.chain
<1>1. host \in HostType
  BY DEF Known
<1>2. CASE env.xilinx
  <2>1. AfterCommand(host) = [[host EXCEPT !.chain = None] EXCEPT !.chain = None]
    BY <1>2 DEF AfterCommand, tap_enable_debug_module, tap_set_ir
  <2> QED
    BY <1>1, <1>2, <2>1 DEF HostType
<1>3. CASE ~env.xilinx
  BY <1>1, <1>3 DEF AfterCommand
<1> QED
  BY <1>2, <1>3

LEMMA ReadTimesOutInv == ASSUME BurstInv, ReadTimesOut PROVE BurstInv'
<1>1. Known
  BY WhatIsKnown
<1>2. /\ pc = "data" /\ pc' = "failed" /\ call' = [call EXCEPT !.i = 0, !.addr = call.start]
      /\ host' = AfterCommand(host) /\ UNCHANGED <<unit, mem, stall>>
      /\ env' = env \/ (env.faults > 0 /\ env' = [env EXCEPT !.faults = @ - 1])
  BY DEF ReadTimesOut, UseFault
<1>3. env.lost \in BOOLEAN
  BY <1>1 DEF Known
<1>4. env' \in EnvType /\ env'.lost = env.lost
  BY <1>1, <1>2, <1>3, FaultUsed
<1>5. host' \in HostType /\ host'.desired = host.desired /\ SelectionMirrors'
  BY <1>1, <1>2, <1>4, AfterCommandFacts DEF Known, SelectionMirrors
<1> QED
  BY <1>1, <1>2, <1>4, <1>5, WholeAgainInv

LEMMA CheckCrcInv == ASSUME BurstInv, CheckCrc PROVE BurstInv'
<1>1. Known /\ pc = "crc" /\ UNCHANGED <<host, unit, mem, stall, env>>
  BY WhatIsKnown DEF CheckCrc
<1>2. SelectionMirrors'
  BY <1>1 DEF Known, SelectionMirrors
<1>3. CASE call.crc
  <2>1. pc' = "error" /\ UNCHANGED call
    BY <1>3 DEF CheckCrc
  <2>2. DbgTypeOK'
    BY <1>1, <2>1, StepType, SameCallType DEF Known, DbgTypeOK
  <2>3. Underway /\ BurstAsAsked /\ Agreed
    BY <1>1 DEF Known
  <2>4. Underway'
    BY <1>1, <2>1, <2>3 DEF Underway, Bursting
  <2>5. BurstAsAsked'
    BY <1>1, <2>1, <2>3 DEF BurstAsAsked
  <2>6. Agreed'
    BY <1>1, <1>3, <2>1, <2>3 DEF Agreed
  <2>7. OwnErrors'
    BY <1>1, <2>1, OwnErrorsStay
  <2>8. pc' # "idle"
    BY <2>1
  <2> QED
    BY <1>2, <2>2, <2>4, <2>5, <2>6, <2>7, <2>8, Silent, InvPartsNext DEF Position
<1>4. CASE ~call.crc
  <2>1. pc' = "mismatch" /\ call' = [call EXCEPT !.i = 0, !.addr = call.start]
    BY <1>4 DEF CheckCrc
  <2> QED
    BY <1>1, <1>2, <2>1, WholeAgainInv DEF Known
<1> QED
  BY <1>3, <1>4

-----------------------------------------------------------------------------
(* The end of a call.                                                       *)

\* dbg_cpu1_write selects the first processor's module and so writes elsewhere: such calls are
\* left out.
NoSecondWrite == "cpu1_write" \notin Calls

LEMMA CheckErrorInv == ASSUME NoSecondWrite, BurstInv, CheckError PROVE BurstInv'
<1> USE AddrFacts, ConstantFacts
<1> DEFINE h == IF host.chain # "wb" THEN host ELSE [host EXCEPT !.regs = @ \cup {host.chain}]
           u == IF host.chain # "wb" THEN unit ELSE ScanReg(unit)
<1>1. Known /\ pc = "error" /\ UNCHANGED <<mem, stall, env>>
  BY WhatIsKnown DEF CheckError
<1>2. Underway /\ BurstAsAsked /\ OwnErrors /\ Agreed /\ SelectionMirrors /\ host \in HostType /\ unit \in UnitType /\ call \in CallType
  BY <1>1 DEF Known
<1>3. /\ call.k \in CallKinds /\ call.k \in Calls /\ IsBurst(call.k) /\ host.desired = Selects(call.k) /\ host.desired \in Modules
      /\ host.desired # None /\ call.len > 0 /\ call.ret = None
      /\ host.chain = host.desired \/ (env.xilinx /\ IsRead(call.k) /\ host.chain = None)
  BY <1>1, <1>2 DEF Underway, Bursting, Known
<1>4. /\ host' \in HostType /\ host'.desired = host.desired /\ host'.chain = host.chain
      /\ host'.regs = IF host.chain # "wb" THEN host.regs ELSE host.regs \cup {"wb"}
  <2>1. host' = retry_ok(h)
    BY DEF CheckError, adbg_select_ctrl_reg
  <2>2. h \in HostType /\ h.desired = host.desired /\ h.chain = host.chain
        /\ h.regs = IF host.chain # "wb" THEN host.regs ELSE host.regs \cup {"wb"}
    BY <1>2 DEF HostType, Modules
  <2>3. 0 \in 0 .. NumSoftRetries
    OBVIOUS
  <2> HIDE DEF h
  <2> QED
    BY <2>1, <2>2, <2>3 DEF retry_ok, HostType
<1>5. /\ u \in UnitType /\ u.sel = unit.sel /\ unit.regs \subseteq u.regs /\ u.err = unit.err
      /\ host.chain = "wb" /\ ~env.lost => "wb" \in u.regs
  <2>1. host.chain = "wb" /\ ~env.lost => unit.sel = "wb"
    BY <1>2 DEF SelectionMirrors, None
  <2> QED
    BY <1>2, <2>1 DEF ScanReg, UnitType, None
<1>6. CASE host.chain # "wb" \/ unit.err = NoErr
  <2>0. pc' = "idle" /\ call' = [call EXCEPT !.ret = IF call.err THEN "cable" ELSE "ok"] /\ unit' = u
    BY <1>6 DEF CheckError, Return
  <2> HIDE DEF u
  <2>a. SelectionMirrors'
    BY <1>1, <1>2, <1>4, <1>5, <2>0 DEF SelectionMirrors
  <2>b. CASE call.err
    BY <1>1, <1>4, <1>5, <2>0, <2>a, <2>b, GivesUpInv DEF Known, DbgTypeOK
  <2> SUFFICES ASSUME ~call.err PROVE BurstInv'
    BY <2>b
  <2>1. pc' = "idle" /\ call' = [call EXCEPT !.ret = "ok"] /\ unit' = u
    BY <2>0
  <2>2. /\ call' \in CallType /\ Len(call'.data) = call'.len /\ call'.start + call'.len <= Cardinality(Addrs)
        /\ call'.ret = "ok" /\ call'.k = call.k /\ call'.start = call.start /\ call'.len = call.len
        /\ call'.data = call.data /\ call'.bit = call.bit
    BY <1>1, <2>1, ResultType
  <2>3. DbgTypeOK'
    BY <1>1, <1>4, <1>5, <2>1, <2>2, StepType DEF Known, DbgTypeOK
  <2>5. ~env.lost => /\ unit.sel = Selects(call.k)
                     /\ \/ unit.sel = "wb" /\ unit.err # NoErr
                        \/ \A j \in 1 .. call.len : mem[unit.sel][call.start + j - 1] = call.data[j]
    BY <1>1, <1>2, <1>3 DEF BurstAsAsked, Agreed
  <2>6. ReadTruthful' /\ WriteDone'
    <3>0. call.k # "cpu1_write"
      BY <1>3 DEF NoSecondWrite
    <3>1. ASSUME ~env.lost, ~(env.xilinx /\ call.k = "wb_read")
          PROVE  \A j \in 1 .. call.len : mem[Module(call.k)][call.start + j - 1] = call.data[j]
      <4>1. ~(unit.sel = "wb" /\ unit.err # NoErr)
        BY <1>3, <1>6, <2>5, <3>1, KindFacts DEF None
      <4>2. Module(call.k) = unit.sel
        BY <1>3, <2>5, <3>0, <3>1, KindFacts
      <4> QED
        BY <2>5, <3>1, <4>1, <4>2
    <3>2. ~(call.k \in {"cpu0_read_ctrl", "cpu1_read_ctrl"})
      BY <1>3, KindFacts
    <3>3. IsBurst(call.k) /\ ~IsRead(call.k) => call.k # "wb_read"
      BY DEF IsRead
    <3>4. UNCHANGED <<mem, stall, env>> /\ call'.k = call.k /\ call'.start = call.start /\ call'.len = call.len /\ call'.data = call.data
      BY <1>1, <2>2
    <3>5. ReadTruthful'
      BY <3>1, <3>2, <3>4 DEF ReadTruthful, Returned
    <3>6. WriteDone'
      BY <3>1, <3>3, <3>4 DEF WriteDone, Returned
    <3> QED
      BY <3>5, <3>6
  <2>7. ErrorRegisterClean'
    <3>1. Module(call.k) = "wb" /\ ~env.xilinx => host.chain = "wb"
      BY <1>3, KindFacts
    <3> QED
      BY <1>1, <1>5, <1>6, <2>1, <2>2, <3>1 DEF ErrorRegisterClean, Returned
  <2> QED
    BY <2>a, <2>1, <2>3, <2>6, <2>7, Done, InvPartsNext DEF Truth
<1>7. CASE host.chain = "wb" /\ unit.err # NoErr /\ Tired(call.errs)
  <2>1. pc' = "idle" /\ call' = [call EXCEPT !.ret = "bus"] /\ unit' = u
    BY <1>7 DEF CheckError, Return
  <2> HIDE DEF u
  <2>2. SelectionMirrors'
    BY <1>1, <1>2, <1>4, <1>5, <2>1 DEF SelectionMirrors
  <2> QED
    BY <1>1, <1>4, <1>5, <2>1, <2>2, GivesUpInv DEF Known, DbgTypeOK
<1>8. CASE host.chain = "wb" /\ unit.err # NoErr /\ ~Tired(call.errs)
  <2>1. pc' = "command" /\ call' = Resume(call, unit.err) /\ unit' = [u EXCEPT !.err = NoErr]
    BY <1>8 DEF CheckError
  <2> HIDE DEF u
  <2>2. unit' \in UnitType /\ unit'.sel = unit.sel /\ unit'.regs = u.regs /\ unit'.err = NoErr
    BY <1>5, <2>1 DEF UnitType
  <2>3. unit.err \in Addrs /\ call.errs + 1 \in 0 .. MaxBusErrors /\ call.start \in Addrs
    BY <1>2, <1>8 DEF UnitType, CallType, Tired
  <2>4. /\ call' \in CallType /\ call'.i = unit.err - call.start /\ call'.addr = unit.err /\ call'.start = call.start
        /\ call'.len = call.len /\ call'.k = call.k /\ call'.ret = call.ret /\ call'.data = call.data /\ call'.orphan = call.orphan
    <3>1. unit.err - call.start \in Int
      BY <2>3
    <3> QED
      BY <1>2, <2>1, <2>3, <3>1 DEF Resume, CallType
  <2>5. DbgTypeOK'
    BY <1>1, <1>4, <2>1, <2>2, <2>4, StepType DEF Known, DbgTypeOK
  <2>6. SelectionMirrors'
    BY <1>1, <1>2, <1>4, <1>5, <2>2 DEF SelectionMirrors
  <2>7. Underway'
    BY <1>3, <1>4, <2>1, <2>3, <2>4 DEF Underway, Bursting
  <2>8. OwnErrors'
    <3>1. ~env.lost /\ ~call.orphan => unit.err \in call.start .. call.start + call.len - 1
      BY <1>1, <1>2, <1>8 DEF OwnErrors, CallWords
    <3>2. call.len \in Nat
      BY <1>2 DEF CallType
    <3> QED
      BY <1>1, <2>2, <2>3, <2>4, <3>1, <3>2 DEF OwnErrors
  <2>9. BurstAsAsked' /\ Agreed' /\ pc' # "idle"
    BY <2>1 DEF BurstAsAsked, Agreed
  <2> QED
    BY <2>5, <2>6, <2>7, <2>8, <2>9, Silent, InvPartsNext DEF Position
<1> QED
  BY <1>6, <1>7, <1>8

\* On the Wishbone what the error register holds after a fault of the cable counts for nothing.
LEMMA ErrorFailsInv == ASSUME BurstInv, ErrorFails PROVE BurstInv'
<1>1. Known /\ pc = "error" /\ host.chain = "wb" /\ LoseTrack /\ UNCHANGED <<mem, stall>>
  BY WhatIsKnown DEF ErrorFails
<1>2. /\ host' = retry_ok(adbg_select_ctrl_reg(host))
      /\ unit' \in {unit, ScanReg(unit), [ScanReg(unit) EXCEPT !.err = NoErr]}
      /\ pc' = "idle" /\ call' = [call EXCEPT !.ret = "cable"]
  BY DEF ErrorFails, Return
<1>3. host' \in HostType /\ unit' \in UnitType
  BY <1>1, <1>2, RegisterTypes DEF Known, Modules
<1> QED
  BY <1>1, <1>2, <1>3, Lost, GivesUpInv DEF Known, DbgTypeOK

-----------------------------------------------------------------------------
(* The data of a burst.                                                     *)

LEMMA Least ==
    ASSUME NEW S, S \subseteq Nat, S # {}
    PROVE  (CHOOSE a \in S : \A b \in S : a <= b) \in S
<1> DEFINE R == OpToRel(<, Nat)
<1>1. IsWellFoundedOn(R, Nat)
  BY NatLessThanWellFounded
<1>2. \A x, y \in Nat : y < x => <<y, x>> \in R
  BY DEF OpToRel
<1> HIDE DEF R
<1>3. PICK a \in S : \A b \in S : ~(<<b, a>> \in R)
  BY <1>1, WFMin
<1>4. ASSUME NEW b \in S PROVE a <= b
  <2>1. a \in Nat /\ b \in Nat
    OBVIOUS
  <2>2. ~(b < a)
    BY <1>2, <1>3, <2>1, Zenon
  <2> QED
    BY <2>1, <2>2
<1> QED
  BY <1>3, <1>4

\* What the unit takes is part of the call; a burst as long as the call is all of it.
LEMMA BurstFacts ==
    ASSUME Known, pc = "data"
    PROVE  /\ unit.burst[1] \in Addrs /\ unit.burst[2] \in Int /\ Taken \in Nat /\ Touched \subseteq Addrs
           /\ ~env.lost /\ ~call.orphan => Touched \subseteq CallWords
           /\ unit.burst[2] = call.len => call.i = 0 /\ unit.burst[1] = call.start /\ Taken = call.len /\ Touched = CallWords
<1> USE AddrFacts
<1>1. /\ call \in CallType /\ Underway /\ BurstAsAsked /\ OwnErrors /\ call.start + call.len <= NoErr
  BY DEF Known
<1>2. /\ call.start \in Nat /\ call.start >= 0 /\ call.len \in Nat /\ call.i \in Int /\ call.addr \in Addrs
      /\ call.addr = call.start + call.i
  BY <1>1 DEF CallType, Underway, Bursting
<1> DEFINE at == IF call.len < call.i THEN Last ELSE call.addr
           n == call.len - call.i
<1>3. unit.burst = <<at, n>>
  BY <1>1 DEF BurstAsAsked
<1>4. at \in Addrs /\ n \in Int
  BY <1>2
<1>5. unit.burst[1] = at /\ unit.burst[2] = n
  BY <1>3
<1>6. Taken = (IF n < 0 \/ n > call.len + 1 THEN call.len + 1 ELSE n)
  BY <1>5 DEF Taken
<1>7. Taken \in Nat
  BY <1>2, <1>4, <1>6
<1>8. Touched \subseteq Addrs
  BY DEF Touched
<1>9. ASSUME ~env.lost, ~call.orphan PROVE Touched \subseteq CallWords
  <2>1. call.i \in 0 .. call.len - 1
    BY <1>1, <1>9 DEF OwnErrors
  <2>2. at = call.start + call.i /\ Taken = call.len - call.i
    BY <1>2, <1>6, <2>1
  <2>3. ASSUME NEW a \in Touched PROVE a \in CallWords
    <3>1. a \in Int /\ a >= at /\ a < at + Taken
      BY <1>5, <1>8 DEF Touched
    <3> HIDE DEF at
    <3>2. a >= call.start + call.i /\ a < call.start + call.len
      BY <1>2, <2>1, <2>2, <3>1, SMTT(40)
    <3> QED
      BY <1>2, <2>1, <3>1, <3>2 DEF CallWords
  <2> QED
    BY <2>3
<1>10. ASSUME n = call.len PROVE call.i = 0 /\ at = call.start /\ Taken = call.len /\ Touched = CallWords
  <2>1. call.i = 0 /\ at = call.start /\ Taken = call.len
    BY <1>2, <1>6, <1>10, SMTT(40)
  <2>2. \A a \in Addrs : a >= call.start /\ a < call.start + call.len <=> a \in CallWords
    BY <1>2 DEF CallWords
  <2>3. CallWords \subseteq Addrs
    BY <1>1, <1>2 DEF CallWords
  <2>4. Touched = {a \in Addrs : a >= call.start /\ a < call.start + call.len}
    BY <1>5, <2>1 DEF Touched
  <2>5. \A a : a \in Touched <=> a \in CallWords
    BY <2>2, <2>3, <2>4
  <2> QED
    BY <2>1, <2>5
<1> QED
  BY <1>4, <1>5, <1>7, <1>8, <1>9, <1>10

\* The error register keeps an older address; otherwise it takes the first that failed.
LEMMA FirstErrorFacts ==
    ASSUME Known, pc = "data", NEW fails \in SUBSET Addrs
    PROVE  /\ FirstError(fails) \in Addrs \cup {NoErr}
           /\ unit.err # NoErr => FirstError(fails) = unit.err
           /\ FirstError(fails) \in Touched \/ FirstError(fails) = unit.err
           /\ FirstError(fails) = NoErr /\ unit.sel = "wb" => Touched \cap fails = {}
<1> USE AddrFacts
<1>1. unit.err \in Addrs \cup {NoErr} /\ Touched \subseteq Addrs
  BY BurstFacts DEF Known, UnitType
<1>2. CASE unit.sel # "wb" \/ unit.err # NoErr \/ Touched \cap fails = {}
  <2>1. FirstError(fails) = unit.err
    BY <1>2 DEF FirstError
  <2> QED
    BY <1>1, <1>2, <2>1
<1>3. CASE ~(unit.sel # "wb" \/ unit.err # NoErr \/ Touched \cap fails = {})
  <2> DEFINE S == Touched \cap fails
  <2>1. FirstError(fails) = CHOOSE a \in S : \A b \in S : a <= b
    BY <1>3 DEF FirstError
  <2>2. S \subseteq Nat /\ S # {}
    BY <1>1, <1>3
  <2> HIDE DEF S
  <2>3. FirstError(fails) \in S
    BY <2>1, <2>2, Least
  <2> QED
    BY <1>1, <1>3, <2>3 DEF S
<1> QED
  BY <1>2, <1>3

\* A transfer is a read or a write in which some words fail, on the Wishbone only.
LEMMA TransferCases ==
    ASSUME Known, Transfer
    PROVE  \E fails \in SUBSET Addrs, corrupt, err \in BOOLEAN :
             /\ unit.sel # "wb" => fails = {}
             /\ Stream(fails, corrupt, err)
             /\ env' \in EnvType /\ (env.lost => env'.lost) /\ env'.xilinx = env.xilinx
<1> USE ConstantFacts
<1>1. env.lost \in BOOLEAN
  BY DEF Known
<1>2. ASSUME env' = env \/ UseFault \/ LoseTrack
      PROVE  env' \in EnvType /\ (env.lost => env'.lost) /\ env'.xilinx = env.xilinx
  <2>1. CASE env' = env \/ UseFault
    BY <1>1, <2>1, FaultUsed DEF UseFault
  <2>2. CASE LoseTrack
    BY <2>2, FaultUsed DEF LoseTrack
  <2> QED
    BY <1>2, <2>1, <2>2
<1>3. BadHere \in SUBSET Addrs /\ (unit.sel # "wb" => BadHere = {})
  BY DEF BadHere
<1>4. CASE Stream(BadHere, FALSE, FALSE) /\ UNCHANGED env
  BY <1>2, <1>3, <1>4
<1>5. CASE Stream(BadHere, TRUE, FALSE) /\ UseFault
  BY <1>2, <1>3, <1>5
<1>6. CASE \E a \in Addrs : unit.sel = "wb" /\ Stream(Bad \cup {a}, FALSE, FALSE) /\ UseFault
  <2>1. PICK a \in Addrs : unit.sel = "wb" /\ Stream(Bad \cup {a}, FALSE, FALSE) /\ UseFault
    BY <1>6
  <2>2. Bad \cup {a} \in SUBSET Addrs
    OBVIOUS
  <2> QED
    BY <1>2, <2>1, <2>2
<1>7. CASE \E corrupt \in BOOLEAN : Stream(BadHere, corrupt, TRUE) /\ LoseTrack
  BY <1>2, <1>3, <1>7
<1> QED
  BY <1>4, <1>5, <1>6, <1>7 DEF Transfer

\* What a stream of data leaves, when the words it was given or gave are those behind the unit.
LEMMA StreamInv ==
    ASSUME Known, pc = "data", pc' = "crc", NEW fails \in SUBSET Addrs, NEW corrupt \in BOOLEAN,
           host' = host \/ (IsRead(call.k) /\ host' = AfterCommand(host)),
           unit' = [unit EXCEPT !.err = FirstError(fails)],
           env' \in EnvType, env.lost => env'.lost, env'.xilinx = env.xilinx,
           call' \in CallType, Len(call'.data) = call'.len, call'.crc = StreamCrc(corrupt),
           call'.k = call.k, call'.start = call.start, call'.len = call.len, call'.i = call.i, call'.addr = call.addr,
           call'.ret = call.ret, call'.orphan = call.orphan,
           mem' \in [Modules -> [Addrs -> Nat \X Nat]], stall' = stall,
           /\ ~corrupt /\ unit.sel # None /\ unit.burst[2] = call.len /\ (unit.sel = "wb" => Touched \cap fails = {})
           => \A j \in 1 .. call.len : mem'[unit.sel][call.start + j - 1] = call'.data[j]
    PROVE  BurstInv'
<1> USE AddrFacts, ConstantFacts
<1>1. Underway /\ BurstAsAsked /\ OwnErrors /\ SelectionMirrors /\ host \in HostType /\ unit \in UnitType
  BY DEF Known
<1>2. host' \in HostType /\ host'.desired = host.desired /\ host'.regs = host.regs
      /\ (host'.chain = host.chain \/ (host'.chain = None /\ IsRead(call.k) /\ env.xilinx))
  BY <1>1, AfterCommandFacts
<1>3. unit' \in UnitType /\ unit'.sel = unit.sel /\ unit'.regs = unit.regs /\ unit'.burst = unit.burst /\ unit'.err = FirstError(fails)
  <2>1. FirstError(fails) \in Addrs \cup {NoErr}
    BY FirstErrorFacts
  <2> QED
    BY <1>1, <2>1 DEF UnitType
<1>4. DbgTypeOK'
  <2>1. call'.start + call'.len <= Cardinality(Addrs) /\ stall \in [Cpus -> BOOLEAN]
    BY DEF Known, DbgTypeOK
  <2> QED
    BY <1>2, <1>3, <2>1, StepType
<1>5. SelectionMirrors'
  BY <1>1, <1>2, <1>3 DEF SelectionMirrors
<1>6. /\ call.k \in Calls /\ call.len > 0 /\ call.ret = None /\ IsBurst(call.k) /\ host.desired = Selects(call.k)
      /\ call.addr = call.start + call.i /\ host.chain = host.desired
  BY <1>1 DEF Underway, Bursting
<1>7. Underway'
  BY <1>2, <1>6 DEF Underway, Bursting
<1>8. BurstAsAsked'
  BY <1>1, <1>2, <1>3 DEF BurstAsAsked
<1>9. OwnErrors'
  <2>1. ~env.lost /\ ~call.orphan => call.i \in 0 .. call.len - 1 /\ (unit.err # NoErr => unit.err \in CallWords)
    BY <1>1 DEF OwnErrors
  <2>2. ~env.lost /\ ~call.orphan /\ unit'.err # NoErr => unit'.err \in CallWords
    BY <1>3, <2>1, BurstFacts, FirstErrorFacts
  <2> QED
    BY <2>1, <2>2 DEF OwnErrors, CallWords
<1>10. Agreed'
  <2>1. ASSUME call'.crc, ~env.lost
        PROVE  /\ call.i = 0
               /\ \/ unit'.sel = "wb" /\ unit'.err # NoErr
                  \/ \A j \in 1 .. call.len : mem'[unit.sel][call.start + j - 1] = call'.data[j]
    <3>1. ~corrupt /\ unit.sel # None /\ unit.burst[2] = call.len
      BY <2>1 DEF StreamCrc
    <3>2. CASE unit.sel = "wb" /\ FirstError(fails) # NoErr
      BY <1>3, <3>1, <3>2, BurstFacts
    <3>3. CASE ~(unit.sel = "wb" /\ FirstError(fails) # NoErr)
      <4>1. unit.sel = "wb" => Touched \cap fails = {}
        BY <3>3, FirstErrorFacts
      <4> QED
        BY <3>1, <4>1, BurstFacts
    <3> QED
      BY <3>2, <3>3
  <2> QED
    BY <1>3, <2>1 DEF Agreed
<1> QED
  BY <1>4, <1>5, <1>7, <1>8, <1>9, <1>10, Silent, InvPartsNext DEF Position

LEMMA FunctionSeq ==
    ASSUME NEW S, NEW n \in Nat, NEW f \in [1 .. n -> S]
    PROVE  f \in Seq(S) /\ Len(f) = n
OBVIOUS

LEMMA BurstReadInv ==
    ASSUME Known, NEW fails \in SUBSET Addrs, NEW corrupt \in BOOLEAN, NEW err \in BOOLEAN,
           BurstRead(fails, corrupt, err), unit.sel # "wb" => fails = {},
           env' \in EnvType, env.lost => env'.lost, env'.xilinx = env.xilinx
    PROVE  BurstInv'
<1> USE AddrFacts
<1> DEFINE base == unit.burst[1]
           word(j) == IF j > Taken \/ base + j - 1 \notin Addrs \ fails \/ unit.sel = None THEN Junk
                      ELSE mem[unit.sel][base + j - 1]
           data == [j \in 1 .. call.len |-> IF corrupt THEN Junk ELSE word(j)]
<1>1. /\ pc = "data" /\ pc' = "crc" /\ IsRead(call.k) /\ host' = AfterCommand(host)
      /\ call' = [call EXCEPT !.data = data, !.crc = StreamCrc(corrupt), !.err = err]
      /\ unit' = [unit EXCEPT !.err = FirstError(fails)]
      /\ UNCHANGED <<mem, stall>>
  BY DEF BurstRead
<1>2. /\ call \in CallType /\ unit \in UnitType /\ mem \in [Modules -> [Addrs -> Nat \X Nat]] /\ call.len \in Nat
      /\ call.start + call.len <= NoErr /\ call.start \in Addrs
  BY DEF Known, DbgTypeOK, CallType
<1>3. ASSUME NEW j \in 1 .. call.len PROVE data[j] \in Nat \X Nat
  <2>1. Junk \in Nat \X Nat
    BY DEF Junk
  <2>2. word(j) \in Nat \X Nat
    <3>1. CASE j > Taken \/ base + j - 1 \notin Addrs \ fails \/ unit.sel = None
      BY <2>1, <3>1
    <3>2. CASE ~(j > Taken \/ base + j - 1 \notin Addrs \ fails \/ unit.sel = None)
      <4>1. unit.sel \in Modules /\ base + j - 1 \in Addrs
        BY <1>2, <3>2 DEF UnitType
      <4> HIDE DEF base
      <4>2. mem[unit.sel] \in [Addrs -> Nat \X Nat]
        BY <1>2, <4>1
      <4>3. mem[unit.sel][base + j - 1] \in Nat \X Nat
        BY <4>1, <4>2
      <4> QED
        BY <3>2, <4>3
    <3> QED
      BY <3>1, <3>2
  <2> HIDE DEF word
  <2> QED
    BY <2>1, <2>2
<1>4. data \in Seq(Nat \X Nat) /\ Len(data) = call.len
  <2> HIDE DEF word
  <2>1. data \in [1 .. call.len -> Nat \X Nat]
    BY <1>3
  <2> HIDE DEF data
  <2> QED
    BY <1>2, <2>1, FunctionSeq
<1>5. ASSUME ~corrupt, unit.sel # None, unit.burst[2] = call.len, unit.sel = "wb" => Touched \cap fails = {}
      PROVE  \A j \in 1 .. call.len : mem[unit.sel][call.start + j - 1] = data[j]
  <2>1. base = call.start /\ Taken = call.len /\ Touched = CallWords
    BY <1>1, <1>5, BurstFacts
  <2>2. ASSUME NEW j \in 1 .. call.len PROVE mem[unit.sel][call.start + j - 1] = data[j]
    <3>1. call.start + j - 1 \in CallWords /\ call.start + j - 1 \in Addrs
      BY <1>2 DEF CallWords
    <3>2. call.start + j - 1 \notin fails
      BY <1>5, <2>1, <3>1
    <3>3. ~(j > Taken)
      BY <1>2, <2>1
    <3>4. word(j) = mem[unit.sel][call.start + j - 1]
      BY <1>5, <2>1, <3>1, <3>2, <3>3
    <3> HIDE DEF word
    <3> QED
      BY <1>5, <3>4
  <2> QED
    BY <2>2
<1> HIDE DEF data
<1>6. StreamCrc(corrupt) \in BOOLEAN
  BY DEF StreamCrc
<1>7. /\ call' \in CallType /\ call'.data = data /\ call'.crc = StreamCrc(corrupt)
      /\ call'.k = call.k /\ call'.start = call.start /\ call'.len = call.len /\ call'.i = call.i /\ call'.addr = call.addr
      /\ call'.ret = call.ret /\ call'.orphan = call.orphan
  BY <1>1, <1>2, <1>4, <1>6 DEF CallType
<1>8. mem' \in [Modules -> [Addrs -> Nat \X Nat]] /\ mem' = mem /\ stall' = stall /\ Len(call'.data) = call'.len
  BY <1>1, <1>2, <1>4, <1>7
<1>9. /\ ~corrupt /\ unit.sel # None /\ unit.burst[2] = call.len /\ (unit.sel = "wb" => Touched \cap fails = {})
      => \A j \in 1 .. call.len : mem'[unit.sel][call.start + j - 1] = call'.data[j]
  BY <1>5, <1>7, <1>8
<1> QED
  BY <1>1, <1>7, <1>8, <1>9, StreamInv

\* What a burst of a write puts into the memory of the selected module.
LEMMA WriteFacts ==
    ASSUME Known, pc = "data", NEW fails \in SUBSET Addrs, NEW corrupt \in BOOLEAN, mem' = Stored(fails, corrupt)
    PROVE  /\ mem' \in [Modules -> [Addrs -> Nat \X Nat]]
           /\ unit.sel = None => mem' = mem
           /\ \A m \in Modules, a \in Addrs : (m = unit.sel /\ a \in Touched \ fails) \/ mem'[m][a] = mem[m][a]
           /\ \A a \in Addrs : unit.sel # None /\ a \in Touched \ fails /\ a - unit.burst[1] + 1 <= call.len /\ ~corrupt
                              => mem'[unit.sel][a] = call.data[a - unit.burst[1] + 1]
<1> USE AddrFacts
<1> DEFINE word(a) == IF a - unit.burst[1] + 1 > call.len \/ corrupt THEN Junk ELSE call.data[a - unit.burst[1] + 1]
           row == [a \in Addrs |-> IF a \in Touched \ fails THEN word(a) ELSE mem[unit.sel][a]]
<1>1. mem' = IF unit.sel = None THEN mem
             ELSE [mem EXCEPT ![unit.sel] = [a \in Addrs |-> IF a \in Touched \ fails THEN word(a) ELSE @[a]]]
  BY DEF Stored
<1>2. unit.sel # None => mem' = [mem EXCEPT ![unit.sel] = row]
  BY <1>1
<1>3. /\ call \in CallType /\ unit \in UnitType /\ mem \in [Modules -> [Addrs -> Nat \X Nat]] /\ call.len \in Nat
      /\ call.data \in Seq(Nat \X Nat) /\ Len(call.data) = call.len
  BY DEF Known, DbgTypeOK, CallType
<1>4. ASSUME NEW a \in Touched PROVE word(a) \in Nat \X Nat
  <2>1. Junk \in Nat \X Nat
    BY DEF Junk
  <2>2. CASE a - unit.burst[1] + 1 > call.len \/ corrupt
    BY <2>1, <2>2
  <2>3. CASE ~(a - unit.burst[1] + 1 > call.len \/ corrupt)
    <3>1. unit.burst[1] \in Int /\ a \in Int /\ a >= unit.burst[1]
      BY <1>1, BurstFacts DEF Touched
    <3>2. a - unit.burst[1] + 1 \in 1 .. Len(call.data)
      BY <1>3, <2>3, <3>1, SMTT(40)
    <3>3. \A i \in 1 .. Len(call.data) : call.data[i] \in Nat \X Nat
      BY <1>3
    <3>4. call.data[a - unit.burst[1] + 1] \in Nat \X Nat
      BY <3>2, <3>3
    <3> QED
      BY <2>3, <3>4
  <2> QED
    BY <2>2, <2>3
<1> HIDE DEF word
<1>5. unit.sel # None => unit.sel \in Modules /\ row \in [Addrs -> Nat \X Nat]
  BY <1>3, <1>4 DEF UnitType
<1>6. \A a \in Addrs : a \in Touched \ fails \/ row[a] = mem[unit.sel][a]
  OBVIOUS
<1>7. \A a \in Addrs : a \in Touched \ fails => row[a] = word(a)
  OBVIOUS
<1> HIDE DEF row
<1>8. mem' \in [Modules -> [Addrs -> Nat \X Nat]] /\ (unit.sel = None => mem' = mem)
  BY <1>1, <1>2, <1>3, <1>5
<1>9. \A m \in Modules, a \in Addrs : (m = unit.sel /\ a \in Touched \ fails) \/ mem'[m][a] = mem[m][a]
  BY <1>1, <1>2, <1>3, <1>5, <1>6
<1>10. unit.sel # None => mem'[unit.sel] = row
  BY <1>2, <1>3, <1>5
<1>11. \A a : a - unit.burst[1] + 1 <= call.len /\ a \in Int /\ ~corrupt => word(a) = call.data[a - unit.burst[1] + 1]
  <2>1. unit.burst[1] \in Int
    BY <1>1, BurstFacts
  <2> QED
    BY <1>3, <2>1 DEF word
<1> QED
  BY <1>7, <1>8, <1>9, <1>10, <1>11, SMTT(40)

LEMMA BurstWriteInv ==
    ASSUME Known, NEW fails \in SUBSET Addrs, NEW corrupt \in BOOLEAN, NEW err \in BOOLEAN,
           BurstWrite(fails, corrupt, err), unit.sel # "wb" => fails = {},
           env' \in EnvType, env.lost => env'.lost, env'.xilinx = env.xilinx
    PROVE  BurstInv'
<1> USE AddrFacts
<1>1. /\ pc = "data" /\ pc' = "crc" /\ call' = [call EXCEPT !.crc = StreamCrc(corrupt), !.err = err]
      /\ mem' = Stored(fails, corrupt) /\ unit' = [unit EXCEPT !.err = FirstError(fails)]
      /\ UNCHANGED <<host, stall>>
  BY DEF BurstWrite
<1>2. /\ call \in CallType /\ call.len \in Nat /\ call.start + call.len <= NoErr /\ call.start \in Addrs /\ Len(call.data) = call.len
  BY DEF Known, CallType
<1>3. StreamCrc(corrupt) \in BOOLEAN
  BY DEF StreamCrc
<1>4. /\ call' \in CallType /\ call'.data = call.data /\ call'.crc = StreamCrc(corrupt)
      /\ call'.k = call.k /\ call'.start = call.start /\ call'.len = call.len /\ call'.i = call.i /\ call'.addr = call.addr
      /\ call'.ret = call.ret /\ call'.orphan = call.orphan
  BY <1>1, <1>2, <1>3 DEF CallType
<1>5. ASSUME ~corrupt, unit.sel # None, unit.burst[2] = call.len, unit.sel = "wb" => Touched \cap fails = {}
      PROVE  \A j \in 1 .. call.len : mem'[unit.sel][call.start + j - 1] = call.data[j]
  <2>1. unit.burst[1] = call.start /\ Touched = CallWords
    BY <1>1, <1>5, BurstFacts
  <2>2. ASSUME NEW j \in 1 .. call.len PROVE mem'[unit.sel][call.start + j - 1] = call.data[j]
    <3> DEFINE a == call.start + j - 1
    <3>1. a \in CallWords /\ a \in Addrs /\ a - call.start + 1 = j /\ j <= call.len
      BY <1>2, SMTT(40) DEF CallWords
    <3>2. a \in Touched \ fails
      BY <1>5, <2>1, <3>1
    <3> HIDE DEF a
    <3>3. mem'[unit.sel][a] = call.data[a - call.start + 1]
      BY <1>1, <1>5, <2>1, <3>1, <3>2, WriteFacts
    <3> QED
      BY <3>1, <3>3 DEF a
  <2> QED
    BY <2>2
<1>6. mem' \in [Modules -> [Addrs -> Nat \X Nat]] /\ Len(call'.data) = call'.len
  BY <1>1, <1>2, <1>4, WriteFacts
<1>7. /\ ~corrupt /\ unit.sel # None /\ unit.burst[2] = call.len /\ (unit.sel = "wb" => Touched \cap fails = {})
      => \A j \in 1 .. call.len : mem'[unit.sel][call.start + j - 1] = call'.data[j]
  BY <1>4, <1>5
<1> QED
  BY <1>1, <1>4, <1>6, <1>7, StreamInv

LEMMA TransferInv == ASSUME BurstInv, Transfer PROVE BurstInv'
<1>1. Known
  BY WhatIsKnown
<1>2. PICK fails \in SUBSET Addrs, corrupt, err \in BOOLEAN :
        /\ unit.sel # "wb" => fails = {}
        /\ Stream(fails, corrupt, err)
        /\ env' \in EnvType /\ (env.lost => env'.lost) /\ env'.xilinx = env.xilinx
  BY <1>1, TransferCases
<1> QED
  BY <1>1, <1>2, BurstReadInv, BurstWriteInv DEF Stream

\* A write cut short by the cable has left an error of its own at most, and waits to be retried;
\* one that looks finished is no longer known to be anything.
LEMMA WriteFailsInv == ASSUME BurstInv, WriteFails PROVE BurstInv'
<1> USE AddrFacts, ConstantFacts
<1>1. Known /\ pc = "data" /\ IsWrite(call.k) /\ UNCHANGED <<host, stall>>
  BY WhatIsKnown DEF WriteFails
<1>2. PICK cut \in Addrs \cup {NoErr} :
        /\ mem' = Stored(BadHere \cup {a \in Addrs : a >= cut}, FALSE)
        /\ unit' = [unit EXCEPT !.err = FirstError({a \in BadHere : a < cut})]
  BY DEF WriteFails
<1>3. mem' \in [Modules -> [Addrs -> Nat \X Nat]]
  <2>1. BadHere \cup {a \in Addrs : a >= cut} \in SUBSET Addrs
    BY DEF BadHere
  <2> QED
    BY <1>1, <1>2, <2>1, WriteFacts
<1> DEFINE new == FirstError({a \in BadHere : a < cut})
<1>4. /\ new \in Addrs \cup {NoErr} /\ (unit.err # NoErr => new = unit.err) /\ (new \in Touched \/ new = unit.err)
  <2>1. {a \in BadHere : a < cut} \in SUBSET Addrs
    BY DEF BadHere
  <2> QED
    BY <1>1, <2>1, FirstErrorFacts
<1> HIDE DEF new
<1>5. /\ unit' \in UnitType /\ unit'.sel = unit.sel /\ unit'.regs = unit.regs /\ unit'.burst = unit.burst /\ unit'.err = new
  BY <1>1, <1>2, <1>4 DEF Known, UnitType, new
<1>6. Underway /\ BurstAsAsked /\ OwnErrors /\ SelectionMirrors /\ host \in HostType /\ call \in CallType
  BY <1>1 DEF Known
<1>7. CASE call.i < call.len
  <2>1. pc' = "failed" /\ UseFault /\ UNCHANGED call
    BY <1>7 DEF WriteFails
  <2>2. env' \in EnvType /\ env'.lost = env.lost
    BY <1>1, <2>1, FaultUsed DEF UseFault, Known
  <2>3. DbgTypeOK'
    BY <1>1, <1>3, <1>5, <2>1, <2>2, StepType, SameCallType DEF Known, DbgTypeOK
  <2>4. SelectionMirrors'
    BY <1>1, <1>5, <1>6, <2>2 DEF SelectionMirrors
  <2>5. Underway'
    BY <1>1, <1>6, <2>1 DEF Underway, Bursting
  <2>6. OwnErrors'
    <3>1. ~env.lost /\ ~call.orphan => /\ call.i \in 0 .. call.len - 1
                                      /\ Touched \subseteq CallWords /\ (unit.err # NoErr => unit.err \in CallWords)
      BY <1>1, <1>6, BurstFacts DEF OwnErrors
    <3>2. ~env.lost /\ ~call.orphan /\ new # NoErr => new \in CallWords
      BY <1>4, <3>1
    <3> QED
      BY <1>5, <2>1, <2>2, <3>1, <3>2 DEF OwnErrors, CallWords
  <2>7. BurstAsAsked' /\ Agreed' /\ pc' # "idle"
    BY <2>1 DEF BurstAsAsked, Agreed
  <2> QED
    BY <2>3, <2>4, <2>5, <2>6, <2>7, Silent, InvPartsNext DEF Position
<1>8. CASE ~(call.i < call.len)
  <2>1. pc' = "crc" /\ LoseTrack /\ call' = [call EXCEPT !.crc = FALSE, !.err = TRUE]
    BY <1>8 DEF WriteFails
  <2>2. env' \in EnvType /\ env'.lost /\ SelectionMirrors' /\ env'.xilinx = env.xilinx
    BY <1>1, <2>1, Lost, FaultUsed DEF LoseTrack
  <2>3. /\ call' \in CallType /\ call'.data = call.data /\ ~call'.crc
        /\ call'.k = call.k /\ call'.start = call.start /\ call'.len = call.len /\ call'.i = call.i /\ call'.addr = call.addr
        /\ call'.ret = call.ret /\ call'.orphan = call.orphan
    BY <1>6, <2>1 DEF CallType
  <2>4. DbgTypeOK'
    BY <1>1, <1>3, <1>5, <2>1, <2>2, <2>3, StepType DEF Known, DbgTypeOK
  <2>5. Underway'
    BY <1>1, <1>6, <2>1, <2>3 DEF Underway, Bursting
  <2>6. BurstAsAsked'
    BY <1>1, <1>5, <1>6, <2>1, <2>2, <2>3 DEF BurstAsAsked
  <2>7. OwnErrors' /\ Agreed' /\ pc' # "idle"
    BY <2>1, <2>2, <2>3 DEF OwnErrors, Agreed
  <2> QED
    BY <2>2, <2>4, <2>5, <2>6, <2>7, Silent, InvPartsNext DEF Position
<1> QED
  BY <1>7, <1>8

-----------------------------------------------------------------------------
(* The control registers.                                                   *)

\* Accesses select the register of the module on the chain.
LEMMA RegistersSelected ==
    ASSUME Known, host' = retry_ok(adbg_select_ctrl_reg(host)), env' = env, host.chain \in Modules,
           unit' = ScanReg(unit) \/ (host.chain \in host.regs /\ unit' = unit)
    PROVE  /\ host' \in HostType /\ unit' \in UnitType /\ SelectionMirrors'
           /\ unit'.sel = unit.sel /\ (~env.lost => unit.sel = host.chain /\ host.chain \in unit'.regs)
<1> USE AddrFacts, ConstantFacts
<1>1. host \in HostType /\ unit \in UnitType /\ SelectionMirrors
  BY DEF Known
<1>2. host' \in HostType /\ host'.chain = host.chain /\ host'.regs = host.regs \cup {host.chain}
  <2>1. host' = [host EXCEPT !.regs = host.regs \cup {host.chain}, !.soft = 0]
    BY <1>1 DEF retry_ok, adbg_select_ctrl_reg, HostType
  <2>2. 0 \in 0 .. NumSoftRetries
    OBVIOUS
  <2> QED
    BY <1>1, <2>1, <2>2 DEF HostType
<1>3. unit' \in UnitType /\ unit'.sel = unit.sel /\ unit.regs \subseteq unit'.regs
  BY <1>1 DEF ScanReg, UnitType
<1>4. ~env.lost => unit.sel = host.chain /\ host.regs \subseteq unit.regs
  BY <1>1 DEF SelectionMirrors, Modules, None
<1>5. ~env.lost => host.chain \in unit'.regs
  <2>1. CASE unit' = ScanReg(unit)
    BY <1>1, <1>4, <2>1 DEF ScanReg, UnitType, Modules, None
  <2>2. CASE host.chain \in host.regs /\ unit' = unit
    BY <1>4, <2>2
  <2> QED
    BY <2>1, <2>2
<1>6. SelectionMirrors'
  BY <1>1, <1>2, <1>3, <1>4, <1>5 DEF SelectionMirrors
<1> QED
  BY <1>2, <1>3, <1>4, <1>5, <1>6

LEMMA CtrlWriteInv == ASSUME BurstInv, NEW s \in BOOLEAN, CtrlWrite(s) PROVE BurstInv'
<1> USE AddrFacts
<1>1. Known
  BY WhatIsKnown
<1>2. /\ pc = "ctrl" /\ pc' = "idle" /\ call.k \in {"cpu0_write_ctrl", "cpu1_write_ctrl"}
      /\ stall' = IF unit.sel \in Cpus THEN [stall EXCEPT ![unit.sel] = s] ELSE stall
      /\ host' = retry_ok(adbg_select_ctrl_reg(host)) /\ unit' = ScanReg(unit)
      /\ call' = [call EXCEPT !.ret = "ok"] /\ UNCHANGED <<mem, env>>
  BY DEF CtrlWrite, Return
<1>3. call.k \in CallKinds /\ host.chain = Selects(call.k) /\ host.chain \in Modules
  BY <1>1, <1>2 DEF Known, Underway
<1>4. host' \in HostType /\ unit' \in UnitType /\ SelectionMirrors'
  BY <1>1, <1>2, <1>3, RegistersSelected
<1>5. /\ call' \in CallType /\ Len(call'.data) = call'.len /\ call'.start + call'.len <= Cardinality(Addrs) /\ call'.k = call.k
  BY <1>1, <1>2, ResultType
<1>6. stall' \in [Cpus -> BOOLEAN]
  <2>1. stall \in [Cpus -> BOOLEAN]
    BY <1>1 DEF Known, DbgTypeOK
  <2> QED
    BY <1>2, <2>1
<1>7. DbgTypeOK'
  BY <1>1, <1>2, <1>4, <1>5, <1>6, StepType DEF Known, DbgTypeOK
<1>8. Module(call.k) # "wb" /\ ~IsBurst(call.k) /\ ~IsRead(call.k) /\ call.k \notin {"cpu0_read_ctrl", "cpu1_read_ctrl"}
  BY <1>2 DEF Module, Selects, IsBurst, IsRead, IsWrite
<1>9. Truth'
  BY <1>5, <1>8 DEF Truth, ReadTruthful, WriteDone, ErrorRegisterClean
<1> QED
  BY <1>2, <1>4, <1>7, <1>9, Done, InvPartsNext

LEMMA CtrlReadInv == ASSUME BurstInv, CtrlRead PROVE BurstInv'
<1> USE AddrFacts
<1> DEFINE stalled == unit.sel \in Cpus /\ unit.sel \in unit'.regs /\ stall[unit.sel]
<1>1. Known
  BY WhatIsKnown
<1>2. /\ pc = "ctrl" /\ pc' = "idle" /\ call.k \in {"cpu0_read_ctrl", "cpu1_read_ctrl"}
      /\ host' = retry_ok(adbg_select_ctrl_reg(host))
      /\ unit' = IF host.chain \in host.regs THEN unit ELSE ScanReg(unit)
      /\ call' = [call EXCEPT !.ret = "ok", !.bit = stalled] /\ UNCHANGED <<mem, stall, env>>
  BY DEF CtrlRead
<1>3. call.k \in CallKinds /\ host.chain = Selects(call.k) /\ host.chain \in Modules
  BY <1>1, <1>2 DEF Known, Underway
<1>4. /\ host' \in HostType /\ unit' \in UnitType /\ SelectionMirrors'
      /\ (~env.lost => unit.sel = host.chain /\ host.chain \in unit'.regs)
  BY <1>1, <1>2, <1>3, RegistersSelected
<1>5. call \in CallType /\ Len(call.data) = call.len /\ call.start + call.len <= NoErr /\ stall \in [Cpus -> BOOLEAN]
  BY <1>1 DEF Known, DbgTypeOK
<1>6. stalled \in BOOLEAN
  BY <1>5
<1>7. /\ ~env.lost => stalled = stall[Module(call.k)]
  BY <1>2, <1>3, <1>4, <1>5, KindFacts
<1> HIDE DEF stalled
<1>8. /\ call' \in CallType /\ Len(call'.data) = call'.len /\ call'.start + call'.len <= Cardinality(Addrs) /\ call'.k = call.k
      /\ call'.bit = stalled
  BY <1>2, <1>5, <1>6 DEF CallType
<1>9. DbgTypeOK'
  BY <1>1, <1>2, <1>4, <1>5, <1>8, StepType DEF Known, DbgTypeOK
<1>10. Module(call.k) # "wb" /\ ~IsBurst(call.k) /\ ~IsRead(call.k)
  BY <1>2 DEF Module, Selects, IsBurst, IsRead, IsWrite
<1>11. Truth'
  BY <1>2, <1>7, <1>8, <1>10 DEF Truth, ReadTruthful, WriteDone, ErrorRegisterClean, Returned
<1> QED
  BY <1>2, <1>4, <1>9, <1>11, Done, InvPartsNext

LEMMA CtrlFailsInv == ASSUME BurstInv, CtrlFails PROVE BurstInv'
<1>1. Known /\ pc = "ctrl" /\ LoseTrack /\ UNCHANGED mem
  BY WhatIsKnown DEF CtrlFails
<1>2. /\ host' = retry_ok(adbg_select_ctrl_reg(host)) /\ unit' \in {unit, ScanReg(unit)}
      /\ pc' = "idle" /\ call' = [call EXCEPT !.ret = "cable"]
  BY DEF CtrlFails, Return
<1>3. host.chain \in Modules
  BY <1>1 DEF Known, Underway
<1>4. host' \in HostType /\ unit' \in UnitType
  BY <1>1, <1>2, <1>3, RegisterTypes DEF Known
<1>5. stall' \in [Cpus -> BOOLEAN]
  <2>1. stall \in [Cpus -> BOOLEAN]
    BY <1>1 DEF Known, DbgTypeOK
  <2>2. CASE UNCHANGED stall
    BY <2>1, <2>2
  <2>3. CASE \E s \in BOOLEAN : stall' = [stall EXCEPT ![unit.sel] = s]
    BY <2>1, <2>3
  <2> QED
    BY <2>2, <2>3 DEF CtrlFails
<1> QED
  BY <1>1, <1>2, <1>4, <1>5, Lost, GivesUpInv DEF Known, DbgTypeOK

-----------------------------------------------------------------------------
(* The specification.                                                       *)

LEMMA StutterInv == ASSUME BurstInv, UNCHANGED vars PROVE BurstInv'
<1>1. UNCHANGED <<host, unit, mem, stall, call, pc, env>>
  BY DEF vars
<1>2. DbgTypeOK' /\ SelectionMirrors' /\ Underway' /\ BurstAsAsked' /\ OwnErrors' /\ Agreed'
  BY <1>1 DEF BurstInv, DbgTypeOK, SelectionMirrors, Underway, Bursting, BurstAsAsked, OwnErrors, Agreed, CallWords
<1>3. ReadTruthful' /\ WriteDone' /\ ErrorRegisterClean'
  BY <1>1 DEF BurstInv, ReadTruthful, WriteDone, ErrorRegisterClean, Returned
<1> QED
  BY <1>2, <1>3 DEF BurstInv

LEMMA NextInv == ASSUME NoSecondWrite, BurstInv, [Next]_vars PROVE BurstInv'
<1>1. CASE Next
  BY <1>1, NewCallInv, SelectModuleInv, SelectFailsInv, BurstCommandInv, CommandFailsInv, TransferInv,
     ReadTimesOutInv, WriteFailsInv, CheckCrcInv, RetryInv, NoRetryInv, CheckErrorInv, ErrorFailsInv,
     CtrlWriteInv, CtrlReadInv, CtrlFailsInv DEF Next, Step
<1>2. CASE UNCHANGED vars
  BY <1>2, StutterInv
<1> QED
  BY <1>1, <1>2

\* For any memory, any addresses that always fail and any faults, what the bridge remembers of the
\* debug unit's selection is so, what is left of a call is in the call's range, and a call that
\* succeeds has read or written what it says and leaves no bus error behind.
THEOREM BurstInvariance == ASSUME NoSecondWrite PROVE DbgSpec => []BurstInv
<1>1. BurstInv /\ [Next]_vars => BurstInv'
  BY NextInv
<1> QED
  BY <1>1, InitInv, PTL DEF DbgSpec

\* A read or a write that reports success did it, bus errors, retries and resumed bursts or not.
THEOREM CallsTruthful == ASSUME NoSecondWrite PROVE DbgSpec => [](ReadTruthful /\ WriteDone)
<1>1. BurstInv => ReadTruthful /\ WriteDone
  BY DEF BurstInv
<1> QED
  BY <1>1, BurstInvariance, PTL

\* Only the burst of a write, whole or cut short, changes a memory: the words of its call, in its call's module.
LEMMA RangeKept ==
    ASSUME NoSecondWrite, BurstInv, [Next]_vars, NEW m \in Modules, NEW a \in Addrs,
           mem'[m][a] # mem[m][a], ~env.lost, ~call.orphan
    PROVE  m = Module(call.k) /\ a \in CallWords
<1>1. Known
  BY WhatIsKnown
<1>2. mem' # mem
  OBVIOUS
<1>3. Transfer \/ WriteFails
  BY <1>2 DEF Next, Step, NewCall, StartCall, SelectModule, SelectFails, BurstCommand, CommandFails, ReadTimesOut,
     CheckCrc, Retry, NoRetry, CheckError, ErrorFails, CtrlWrite, CtrlRead, CtrlFails, vars
<1>4. PICK fails \in SUBSET Addrs, corrupt \in BOOLEAN : pc = "data" /\ mem' = Stored(fails, corrupt)
  <2>1. CASE Transfer
    <3>1. PICK fails \in SUBSET Addrs, corrupt, err \in BOOLEAN : Stream(fails, corrupt, err)
      BY <1>1, <2>1, TransferCases
    <3> QED
      BY <1>2, <3>1 DEF Stream, BurstRead, BurstWrite
  <2>2. CASE WriteFails
    <3>1. PICK cut \in Addrs \cup {NoErr} : mem' = Stored(BadHere \cup {b \in Addrs : b >= cut}, FALSE)
      BY <2>2 DEF WriteFails
    <3>2. BadHere \cup {b \in Addrs : b >= cut} \in SUBSET Addrs
      BY ConstantFacts DEF BadHere
    <3> QED
      BY <2>2, <3>1, <3>2 DEF WriteFails
  <2> QED
    BY <1>3, <2>1, <2>2
<1>5. pc = "data"
  BY <1>4
<1>6. m = unit.sel /\ a \in Touched
  BY <1>1, <1>4, WriteFacts
<1>7. a \in CallWords
  BY <1>1, <1>5, <1>6, BurstFacts
<1>8. call.k \in Calls /\ call.k \in CallKinds /\ unit.sel = Selects(call.k)
  BY <1>1, <1>5 DEF Known, Underway, Bursting, BurstAsAsked
<1>9. Module(call.k) = Selects(call.k)
  BY <1>8, KindFacts DEF NoSecondWrite
<1> QED
  BY <1>6, <1>7, <1>8, <1>9

\* No call changes a word outside its range or behind another module, whatever fails.
THEOREM RangeOfWrites == ASSUME NoSecondWrite PROVE DbgSpec => WritesStayInRange
<1>1. BurstInv /\ [Next]_vars =>
      [\A m \in Modules, a \in Addrs :
         mem'[m][a] # mem[m][a] /\ ~env.lost /\ ~call.orphan => m = Module(call.k) /\ a \in CallWords]_vars
  BY RangeKept
<1> QED
  BY <1>1, BurstInvariance, PTL DEF DbgSpec, WritesStayInRange
=============================================================================
