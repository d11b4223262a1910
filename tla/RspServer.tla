----------------------------- MODULE RspServer -----------------------------
(***************************************************************************)
(* The GDB server of the JTAG bridge (sw/adv_jtag_bridge/rsp-server.c):    *)
(* the thread that serves one GDB client at a time (handle_rsp, called in  *)
(* a loop by main), the thread that polls the processor for a stop         *)
(* (target_handler), and between them rsp, target_handler_state with its   *)
(* condition variable, and a pipe.                                         *)
(*                                                                         *)
(* A handler of the server is a program of micro steps: the server puts    *)
(* the program into todo and takes one step at a time, so that the polling *)
(* thread, the processor and the client act between any two accesses to    *)
(* shared state.  Accesses made while the processor is stalled and nobody  *)
(* else looks are one step.                                                *)
(*                                                                         *)
(* The client is GDB as the protocol has it: one request at a time, an     *)
(* acknowledgement for every packet, a break only while it waits for a     *)
(* stop; it may leave at any time.  Registers other than the program       *)
(* counters, and the payloads of replies, are left out; calls into the     *)
(* debug unit are taken to succeed.                                        *)
(***************************************************************************)
EXTENDS Naturals, Sequences, FiniteSets

CONSTANTS Addrs,       \* addresses of the program, 0 .. n-1, executed round and round
          Targets,     \* those of them that requests name
          Requests,    \* the kinds of request the client sends
          Faults,      \* the exceptions, other than a trap, that the instruction of an address may
                       \* raise; "other" is a reason rsp_exception has no case for, or several
          Spurious,    \* whether pthread_cond_wait may return without a signal
          PollErrors,  \* whether poll() may fail
          MaxRequests, \* bound: requests sent
          MaxBreaks,   \* bound: breaks sent
          MaxSessions  \* bound: clients that connect

ASSUME RspAssumption ==
    /\ Addrs # {} /\ IsFiniteSet(Addrs) /\ Addrs = 0 .. Cardinality(Addrs) - 1
    /\ Targets \subseteq Addrs
    /\ Faults \in [Addrs -> SUBSET {"BUSEE", "IIE", "other"}]
    /\ {Spurious, PollErrors} \subseteq BOOLEAN
    /\ {MaxRequests, MaxBreaks, MaxSessions} \subseteq Nat

VARIABLES rsp,      \* the server's central data
          todo,     \* micro steps the server has still to take
          reading,  \* inside get_packet, waiting for the start of a packet
          up,       \* main is still calling handle_rsp
          th,       \* the polling thread: where it is, target_handler_state, and whether (a
            \* history variable) a release has overtaken the report of an earlier stop
          pipe,     \* bytes in the pipe
          cpu,      \* the processor and its debug registers
          mem,      \* the program's memory
          toServer, toClient, \* the two directions of the connection
          gdb       \* the client

serverVars == <<rsp, todo, reading, up>>
targetVars == <<cpu, mem>>
clientVars == <<toServer, toClient, gdb>>
vars == <<rsp, todo, reading, up, th, pipe, cpu, mem, toServer, toClient, gdb>>

None == "none"
NoAddr == Cardinality(Addrs)
Trap == "l.trap"
Code == {"old", "new"}

\* The reasons that the switch of rsp_exception knows, and GDB's signal for each.
Reasons == {None, "TE", "BUSEE", "IIE", "other"}
Known == Reasons \ {"other"}
Signal(drr) == CASE drr \in {None, "TE"} -> "TRAP"
                 [] drr = "BUSEE"        -> "BUS"
                 [] drr = "IIE"          -> "ILL"

Step(op) == <<[op |-> op, arg |-> None]>>
StepTo(op, arg) == <<[op |-> op, arg |-> arg]>>
Put(text) == StepTo("put", [m |-> text, sig |-> None])
StopReply(sig) == [m |-> "S", sig |-> sig]

-----------------------------------------------------------------------------
(* The programs of the server's functions.                                 *)

\* Fault: the flag is set after the release.
set_stall_state_Late(stall, then) ==
    IF stall = 1 THEN Step("stall") ELSE Step("go") \o Step("run") \o StepTo("wake", then)

\* Stop or release the processor, in the order of set_stall_state.  What the caller does
\* next to its own client_waiting and single_step_mode is part of the last step.
set_stall_state(stall, then) ==
    IF stall = 1 THEN Step("stall") ELSE Step("run") \o Step("go") \o StepTo("wake", then)

\* Leave debug control; a running processor is stopped for it and released.
rsp_client_close(running) ==
    IF running
    THEN set_stall_state(1, None) \o Step("clearDsr") \o set_stall_state(0, None) \o Step("close")
    ELSE Step("clearDsr") \o Step("close")

rsp_continue_generic == Step("noSingle") \o set_stall_state(0, "continued")
rsp_step_generic     == Step("single") \o set_stall_state(0, "stepped")
rsp_report_exception == Step("report")
rsp_restart          == StepTo("setNpc", 0)

\* Requests by what they make the server do.
OkRequests     == {"!", "H", "T", "qSymbol"}
EmptyRequests  == {"qC", "qGetTLSAddr", "qP", "qXfer", "QPassSignals", "QTDP", "vCont?", "vFile"}
ErrorRequests  == {"A", "qCRC", "vFlashErase", "vFlashWrite", "vFlashDone", "v"}
TextRequests   == {"qfThreadInfo", "qsThreadInfo", "qL", "qOffsets", "qSupported", "qThreadExtraInfo"}
SilentRequests == {"b", "B", "C", "d", "F", "k", "r", "t", "q", "Q", "vCont"}
StepRequests   == {"s", "i", "S", "I"}
ReadRequests   == {"g", "m", "p", "readspr"}
ResumeRequests == {"c"} \cup StepRequests

rsp_continue(r) ==
    (IF r.addr = NoAddr THEN <<>> ELSE StepTo("setNpc", r.addr)) \o rsp_continue_generic
rsp_query(k) ==
    IF k \in EmptyRequests THEN Put("") ELSE IF k \in ErrorRequests THEN Put("E01")
    ELSE IF k \in OkRequests THEN Put("OK") ELSE IF k \in TextRequests THEN Put("text") ELSE <<>>
rsp_vpkt(k) ==
    IF k = "vAttach" THEN StepTo("put", StopReply("TRAP"))
    ELSE IF k = "vRun" THEN rsp_restart \o StepTo("put", StopReply("TRAP"))
    ELSE rsp_query(k)

\* What a stopped target's request does.
Program(r) ==
    CASE r.k = "?" -> rsp_report_exception
      [] r.k = "c" -> rsp_continue(r)
      [] r.k \in StepRequests -> rsp_step_generic
      [] r.k = "D" -> Put("OK") \o rsp_client_close(FALSE) \o set_stall_state(0, None)
      [] r.k = "R" -> rsp_restart
      [] r.k = "P" -> StepTo("setNpc", r.addr) \o Put("OK")
      [] r.k \in {"M", "X"} -> StepTo("writeMem", r.addr) \o Put("OK")
      [] r.k = "Z" -> StepTo("insert", r.addr) \o Put("OK")
      [] r.k = "z" -> StepTo("remove", r.addr) \o Put("OK")
      [] r.k \in ReadRequests -> Put("text")
      [] r.k \in {"vAttach", "vRun"} -> rsp_vpkt(r.k)
      [] OTHER -> rsp_query(r.k)

\* Requests that name an address.
WithAddr == {"P", "M", "X", "Z", "z"}
Request == {[k |-> k, addr |-> NoAddr] : k \in Requests \ WithAddr}
           \cup [k : Requests \cap (WithAddr \cup {"c"}), addr : Targets]
Ack == [k |-> "+", addr |-> NoAddr]
Break == [k |-> "break", addr |-> NoAddr]
Eof == [k |-> "eof", addr |-> NoAddr]

-----------------------------------------------------------------------------
(* The table of matchpoints: the instruction kept for an address, or None. *)

mp_hash_init == [a \in Addrs |-> None]
\* Fault: an entry that is there already is replaced, by the trap itself.
mp_hash_add_Replaces(h, a, instr) == [h EXCEPT ![a] = instr]
mp_hash_add(h, a, instr) == IF h[a] = None THEN [h EXCEPT ![a] = instr] ELSE h
mp_hash_delete(h, a) == [h EXCEPT ![a] = None]

\* The state rsp_init leaves: the processor stalled, stops directed to the debug unit.
Init ==
    /\ rsp = [client |-> FALSE, waiting |-> FALSE, running |-> FALSE, single |-> FALSE,
              sigval |-> None, mp |-> mp_hash_init, npc |-> NoAddr]
    /\ todo = <<>> /\ reading = FALSE /\ up = TRUE
    /\ th = [pc |-> "top", state |-> 0, overtaken |-> FALSE]
    /\ pipe = 0
    /\ cpu = [stalled |-> TRUE, npc |-> 0, hidden |-> FALSE, ppc |-> 0, dsr |-> TRUE, st |-> FALSE, drr |-> None]
    /\ mem = [a \in Addrs |-> "old"]
    /\ toServer = <<>> /\ toClient = <<>>
    /\ gdb = [state |-> "away", requests |-> 0, breaks |-> 0, sessions |-> 0, image |-> [a \in Addrs |-> "old"]]

-----------------------------------------------------------------------------
(* The client.                                                             *)

\* A client connects and is accepted (rsp_server_request).
Connect ==
    /\ up /\ ~rsp.client /\ todo = <<>> /\ gdb.state = "away" /\ gdb.sessions < MaxSessions
    /\ rsp' = [rsp EXCEPT !.client = TRUE, !.waiting = FALSE]
    /\ th' = [th EXCEPT !.state = 1]
    /\ gdb' = [gdb EXCEPT !.state = "idle", !.sessions = @ + 1]
    /\ reading' = FALSE
    /\ UNCHANGED <<todo, up, pipe, targetVars, toServer, toClient>>

\* A client writes no code over a breakpoint of its own.
SendRequest(r) ==
    /\ gdb.state = "idle" /\ toServer = <<>> /\ gdb.requests < MaxRequests
    /\ r.k \in {"M", "X"} => rsp.mp[r.addr] = None \/ gdb.sessions > 1
    /\ toServer' = Append(toServer, r)
    /\ gdb' = [gdb EXCEPT !.state = IF r.k \in ResumeRequests THEN "run"
                                    ELSE IF r.k \in SilentRequests \cup {"R"} THEN "idle" ELSE "reply",
                          !.requests = @ + 1]
    /\ UNCHANGED <<serverVars, th, pipe, targetVars, toClient>>

SendBreak ==
    /\ gdb.state = "run" /\ gdb.breaks < MaxBreaks
    /\ toServer' = Append(toServer, Break)
    /\ gdb' = [gdb EXCEPT !.breaks = @ + 1]
    /\ UNCHANGED <<serverVars, th, pipe, targetVars, toClient>>

\* Every packet is acknowledged; a stop, or any reply that is not console output, ends the wait.
Receive ==
    /\ toClient # <<>>
    /\ toServer' = Append(toServer, Ack)
    /\ toClient' = Tail(toClient)
    /\ gdb' = [gdb EXCEPT !.state = IF @ = "run" /\ Head(toClient).m # "S" THEN @ ELSE "idle"]
    /\ UNCHANGED <<serverVars, th, pipe, targetVars>>

Leave ==
    /\ gdb.state # "away"
    /\ toServer' = Append(toServer, Eof)
    /\ toClient' = <<>>
    /\ gdb' = [gdb EXCEPT !.state = "away"]
    /\ UNCHANGED <<serverVars, th, pipe, targetVars>>

-----------------------------------------------------------------------------
(* The server: handle_rsp with an empty todo, then one micro step at a time. *)

\* Fault: no copy is kept.
set_npc_NoCopy(a) ==
    /\ cpu' = [cpu EXCEPT !.npc = a, !.hidden = TRUE]
    /\ UNCHANGED rsp

\* A written NPC reads back 0 until the next instruction, so the server keeps a copy.
set_npc(a) ==
    /\ cpu' = [cpu EXCEPT !.npc = a, !.hidden = TRUE]
    /\ rsp' = [rsp EXCEPT !.npc = a]

\* A stop on a breakpoint goes back to the breakpoint's address.
StopNpc ==
    IF rsp.sigval = "TRAP" /\ rsp.mp[cpu.ppc] # None THEN set_npc(cpu.ppc) ELSE UNCHANGED <<cpu, rsp>>

\* A 'G' packet, the longest of all, is one character longer than get_packet reads: it is
\* dropped without an acknowledgement, and the client waits for an answer until it leaves.
Skipped(r) == r = Ack \/ r.k = "G"

\* A readable client: get_packet skips everything up to a packet or a break.
rsp_client_request ==
    /\ up /\ rsp.client /\ todo = <<>> /\ toServer # <<>>
    /\ LET r == Head(toServer) IN
         /\ toServer' = Tail(toServer)
         /\ reading' = Skipped(r)
         /\ todo' = CASE Skipped(r) -> <<>>
                      [] r = Eof -> rsp_client_close(rsp.running)
                      [] r = Break -> IF rsp.running THEN set_stall_state(1, None) ELSE <<>>
                      [] OTHER -> IF rsp.running THEN Put("O") ELSE Program(r)
    /\ UNCHANGED <<rsp, up, th, pipe, targetVars, toClient, gdb>>

\* A byte in the pipe, when the client has nothing to say: report the stop.
PipeEvent ==
    /\ up /\ rsp.client /\ todo = <<>> /\ ~reading /\ toServer = <<>> /\ pipe > 0
    /\ pipe' = pipe - 1
    /\ IF rsp.waiting
       THEN StopNpc /\ todo' = rsp_report_exception \o Step("reported")
       ELSE todo' = <<>> /\ UNCHANGED <<rsp, cpu>>
    /\ UNCHANGED <<reading, up, th, mem, clientVars>>

\* poll() fails: the client and the server are closed and main returns.
PollError ==
    /\ PollErrors /\ up /\ todo = <<>> /\ ~reading
    /\ todo' = rsp_client_close(rsp.running) \o Step("serverClose") \o Step("return")
    /\ UNCHANGED <<rsp, reading, up, th, pipe, targetVars, clientVars>>

handle_rsp == rsp_client_request \/ PipeEvent \/ PollError

At(op) == up /\ todo # <<>> /\ Head(todo).op = op
Arg == Head(todo).arg
Next1 == todo' = Tail(todo)

\* put_packet: send, then wait for an acknowledgement; anything else means send again.
\* A stop reply is built from the signal of that moment.
put_packet ==
    /\ At("put") \/ At("report")
    /\ LET text == IF At("report") THEN StopReply(rsp.sigval) ELSE Arg IN
         /\ toClient' = IF rsp.client /\ gdb.state # "away" THEN Append(toClient, text) ELSE toClient
         /\ todo' = (IF rsp.client THEN StepTo("ack", text) ELSE <<>>) \o Tail(todo)
    /\ UNCHANGED <<rsp, reading, up, th, pipe, targetVars, toServer, gdb>>

AwaitAck ==
    /\ At("ack") /\ toServer # <<>>
    /\ toServer' = Tail(toServer)
    /\ todo' = CASE Head(toServer) = Ack -> Tail(todo)
                 [] Head(toServer) = Eof -> rsp_client_close(rsp.running) \o Tail(todo)
                 [] OTHER -> StepTo("put", Arg) \o Tail(todo)
    /\ UNCHANGED <<rsp, reading, up, th, pipe, targetVars, toClient, gdb>>

\* The end of rsp_client_close: the polling thread is told to stop, the connection is gone.
CloseStep ==
    /\ At("close") /\ Next1
    /\ rsp' = [rsp EXCEPT !.client = FALSE]
    /\ th' = [th EXCEPT !.state = 0]
    /\ toServer' = <<>> /\ toClient' = <<>>
    /\ gdb' = [gdb EXCEPT !.state = "away"]
    /\ UNCHANGED <<reading, up, pipe, targetVars>>

\* Steps on the server's own data.
DataStep ==
    /\ \/ At("run") /\ rsp' = [rsp EXCEPT !.npc = NoAddr, !.running = TRUE]
       \/ At("reported") /\ rsp' = [rsp EXCEPT !.waiting = FALSE]
    /\ Next1
    /\ UNCHANGED <<reading, up, th, pipe, targetVars, clientVars>>

\* The single-step trigger is set once; traps are directed to the debug unit with it.
SetSingle ==
    /\ cpu' = IF rsp.single THEN [cpu EXCEPT !.drr = None]
              ELSE [cpu EXCEPT !.drr = None, !.st = TRUE, !.dsr = TRUE]
    /\ rsp' = [rsp EXCEPT !.single = TRUE]

\* Steps on the processor's registers.  A scan through the chain lasts longer than an
\* instruction, so that a released processor has executed one before it is stopped.
CpuAccess ==
    /\ \/ At("stall") /\ (cpu.stalled \/ ~cpu.hidden) /\ cpu' = [cpu EXCEPT !.stalled = TRUE] /\ UNCHANGED rsp
       \/ At("clearDsr") /\ cpu' = [cpu EXCEPT !.dsr = FALSE] /\ UNCHANGED rsp
       \/ At("noSingle") /\ cpu' = [cpu EXCEPT !.drr = None, !.st = FALSE] /\ UNCHANGED rsp
       \/ At("single") /\ SetSingle
       \/ At("setNpc") /\ set_npc(Arg)
    /\ Next1
    /\ UNCHANGED <<reading, up, th, pipe, mem, clientVars>>

\* Release the processor; a stall bit the polling thread has read is out of date from here
\* on, and so is the byte it has put into the pipe.
GoStep ==
    /\ At("go") /\ Next1
    /\ cpu' = [cpu EXCEPT !.stalled = FALSE]
    /\ th' = [th EXCEPT !.overtaken = @ \/ pipe > 0 \/ th.pc \in {"clear", "log", "halt"}]
    /\ UNCHANGED <<rsp, reading, up, pipe, mem, clientVars>>

\* 'Z0': read the old instruction, remember it, put a trap in its place.
rsp_insert_matchpoint(a) ==
    /\ rsp' = [rsp EXCEPT !.mp = mp_hash_add(@, a, mem[a])]
    /\ mem' = [mem EXCEPT ![a] = Trap]

\* 'z0': put back what the table holds.
rsp_remove_matchpoint(a) ==
    /\ rsp' = [rsp EXCEPT !.mp = mp_hash_delete(@, a)]
    /\ mem' = IF rsp.mp[a] = None THEN mem ELSE [mem EXCEPT ![a] = rsp.mp[a]]

MemAccess ==
    /\ \/ At("writeMem") /\ mem' = [mem EXCEPT ![Arg] = "new"] /\ gdb' = [gdb EXCEPT !.image[Arg] = "new"] /\ UNCHANGED rsp
       \/ At("insert") /\ rsp_insert_matchpoint(Arg) /\ UNCHANGED gdb
       \/ At("remove") /\ rsp_remove_matchpoint(Arg) /\ UNCHANGED gdb
    /\ Next1
    /\ UNCHANGED <<reading, up, th, pipe, cpu, toServer, toClient>>

\* target_handler_state is set with the mutex held; only the release signals the condition.
StateStep ==
    /\ \/ /\ At("wake")
          /\ th' = [th EXCEPT !.pc = IF @ = "wait" THEN "woken" ELSE @, !.state = 1,
                              !.overtaken = @ \/ th.pc = "halt"]
          /\ rsp' = [rsp EXCEPT !.waiting = @ \/ Arg # None, !.single = @ /\ Arg # "continued"]
          /\ UNCHANGED up
       \/ At("serverClose") /\ th' = [th EXCEPT !.state = 2] /\ UNCHANGED <<rsp, up>>
       \/ At("return") /\ up' = FALSE /\ UNCHANGED <<rsp, th>>
    /\ Next1
    /\ UNCHANGED <<reading, pipe, targetVars, clientVars>>

ServerStep ==
    \/ put_packet \/ AwaitAck  \/ CloseStep \/ DataStep
    \/ CpuAccess \/ GoStep \/ MemAccess \/ StateStep

-----------------------------------------------------------------------------
(* The polling thread.                                                     *)

HandlerAt(pc) == up /\ th.pc = pc
KeepHandler == UNCHANGED <<todo, reading, up, targetVars, clientVars>>

\* What the state asks for, tested once, also after a wait: detach, go, anything else.
Obeyed == IF th.state = 2 THEN [th EXCEPT !.pc = "exit", !.state = 0]
          ELSE [th EXCEPT !.pc = IF th.state = 1 THEN "poll" ELSE "halt"]

\* Lock and look: wait, or do what is asked for.
HandlerTop ==
    /\ HandlerAt("top")
    /\ th' = IF th.state = 0 THEN [th EXCEPT !.pc = "wait"] ELSE Obeyed
    /\ UNCHANGED <<rsp, pipe>> /\ KeepHandler

HandlerSpurious ==
    /\ Spurious /\ HandlerAt("wait")
    /\ th' = [th EXCEPT !.pc = "woken"]
    /\ UNCHANGED <<rsp, pipe>> /\ KeepHandler

\* Back from the condition variable.
HandlerWoken ==
    /\ HandlerAt("woken")
    /\ th' = Obeyed
    /\ UNCHANGED <<rsp, pipe>> /\ KeepHandler

\* Poll the stall bit, unless detached.
HandlerPoll ==
    /\ HandlerAt("poll")
    /\ \/ th.state = 2 /\ th' = [th EXCEPT !.pc = "exit"]
       \/ th.state # 2 /\ cpu.stalled /\ th' = [th EXCEPT !.pc = "clear", !.overtaken = @ \/ At("go")]
    /\ UNCHANGED <<rsp, pipe>> /\ KeepHandler

HandlerClear ==
    /\ HandlerAt("clear")
    /\ rsp' = [rsp EXCEPT !.running = FALSE]
    /\ th' = [th EXCEPT !.pc = "log", !.overtaken = @ \/ At("go")]
    /\ UNCHANGED pipe /\ KeepHandler

\* Fault: a pending signal is kept.
rsp_exception_KeepsFirst ==
    /\ HandlerAt("log")
    /\ rsp' = [rsp EXCEPT !.sigval = IF @ = None /\ cpu.drr \in Known THEN Signal(cpu.drr) ELSE @]
    /\ pipe' = pipe + 1
    /\ th' = [th EXCEPT !.pc = "halt"]
    /\ KeepHandler

\* Fault: the byte goes into the pipe for the first stop only.
rsp_exception_NoByte ==
    /\ HandlerAt("log")
    /\ rsp' = [rsp EXCEPT !.sigval = IF cpu.drr \in Known THEN Signal(cpu.drr) ELSE @]
    /\ pipe' = IF rsp.sigval = None THEN pipe + 1 ELSE pipe
    /\ th' = [th EXCEPT !.pc = "halt"]
    /\ KeepHandler

\* rsp_exception: the reason read replaces a pending one, unless it is not known, which is
\* ignored with a warning; then a byte goes into the pipe all the same.
rsp_exception ==
    /\ HandlerAt("log")
    /\ rsp' = [rsp EXCEPT !.sigval = IF cpu.drr \in Known THEN Signal(cpu.drr) ELSE @]
    /\ pipe' = pipe + 1
    /\ th' = [th EXCEPT !.pc = "halt"]
    /\ KeepHandler

HandlerHalt ==
    /\ HandlerAt("halt")
    /\ th' = [th EXCEPT !.pc = "top", !.state = 0]
    /\ UNCHANGED <<rsp, pipe>> /\ KeepHandler

target_handler ==
    \/ HandlerTop \/ HandlerWoken \/ HandlerPoll \/ HandlerClear \/ rsp_exception
    \/ HandlerHalt

-----------------------------------------------------------------------------
(* The processor, as far as the server can see it.                         *)

After(a) == (a + 1) % Cardinality(Addrs)

\* One instruction.  A trap or a fault stops only if the DSR directs it to the debug unit.
Execute(fault) ==
    /\ up /\ ~cpu.stalled
    /\ LET reason == IF mem[cpu.npc] = Trap THEN "TE" ELSE fault
           stops == reason # None /\ cpu.dsr
       IN cpu' = [cpu EXCEPT !.ppc = cpu.npc, !.npc = After(cpu.npc), !.hidden = FALSE,
                             !.stalled = stops \/ cpu.st, !.drr = IF stops THEN reason ELSE @]
    /\ UNCHANGED <<serverVars, th, pipe, mem, clientVars>>

CpuStep == \E fault \in {None} \cup Faults[cpu.npc] : Execute(fault)

-----------------------------------------------------------------------------
ClientStep == Connect \/ (\E r \in Request : SendRequest(r)) \/ SendBreak \/ Receive \/ Leave
Next == ClientStep \/ handle_rsp \/ ServerStep \/ target_handler \/ HandlerSpurious \/ CpuStep

\* The threads run, the processor executes when released, a present client acknowledges.
Fairness ==
    /\ WF_vars(rsp_client_request) /\ WF_vars(PipeEvent) /\ WF_vars(ServerStep)
    /\ WF_vars(target_handler) /\ WF_vars(CpuStep) /\ WF_vars(Receive)
RspSpec == Init /\ [][Next]_vars /\ Fairness

-----------------------------------------------------------------------------
(* Properties.                                                             *)

RspType == [client : BOOLEAN, waiting : BOOLEAN, running : BOOLEAN, single : BOOLEAN,
            sigval : {None, "TRAP", "BUS", "ILL"}, mp : [Addrs -> Code \cup {None, Trap}], npc : Addrs \cup {NoAddr}]
HandlerType == [pc : {"top", "wait", "woken", "poll", "clear", "log", "halt", "exit"}, state : 0 .. 2,
                overtaken : BOOLEAN]
CpuType == [stalled : BOOLEAN, npc : Addrs, hidden : BOOLEAN, ppc : Addrs, dsr : BOOLEAN, st : BOOLEAN,
            drr : Reasons]
GdbType == [state : {"away", "idle", "reply", "run"}, requests : Nat, breaks : Nat, sessions : Nat,
            image : [Addrs -> Code]]

RspTypeOK ==
    /\ rsp \in RspType /\ reading \in BOOLEAN /\ up \in BOOLEAN
    /\ th \in HandlerType /\ pipe \in Nat /\ cpu \in CpuType /\ mem \in [Addrs -> Code \cup {Trap}]
    /\ toServer \in Seq(Request \cup {Ack, Break, Eof})
    /\ gdb \in GdbType

\* The first client is being served and nobody is closing its connection.
Serving == gdb.sessions = 1 /\ rsp.client /\ \A i \in DOMAIN todo : todo[i].op \notin {"clearDsr", "close"}

\* And no release has overtaken the report of an earlier stop.
InStep == Serving /\ ~th.overtaken

\* While the processor executes, target_running says so: that flag alone keeps handlers
\* from touching the registers of a running processor (set_stall_state).
RunningIsFlagged == InStep /\ ~cpu.stalled => rsp.running

\* The signal is that of the reason in the register, when that is one the server knows.
Signalled == cpu.drr \in Known => rsp.sigval = Signal(cpu.drr)

\* A stop that is about to be reported is one: the processor stands still, and the signal
\* is that of the reason it stopped for, not of an earlier stop (where the server knows
\* the reason: for one it does not know, the code reports the earlier signal).
StopReplyTruthful ==
    InStep /\ Len(todo) = 2 /\ At("report") /\ todo[2].op = "reported"
        => cpu.stalled /\ ~rsp.running /\ Signalled

\* Whatever is inserted, removed, repeated or written: memory holds a trap exactly where
\* the table has an entry, and the entry is the instruction the client put there.
TableMatchesMemory ==
    Serving => \A a \in Addrs : IF rsp.mp[a] = None THEN mem[a] = gdb.image[a]
                                ELSE mem[a] = Trap /\ rsp.mp[a] = gdb.image[a]

\* What the server keeps of the processor to save accesses is the processor's: the copy of the
\* next program counter, which alone knows a value written while the debug unit hides it, and
\* single_step_mode, which mirrors the trigger.
NpcIsKnown ==
    InStep /\ ~rsp.running /\ todo = <<>>
        => (rsp.npc # NoAddr => rsp.npc = cpu.npc) /\ (cpu.hidden => rsp.npc # NoAddr)
StepModeMirrors == Serving /\ todo = <<>> => rsp.single = cpu.st
CopiesMirror == NpcIsKnown /\ StepModeMirrors

\* A stop of the processor is reported to a waiting client.  Two ways to miss it are left
\* out: a release that overtook the polling thread on its way back to STOP, which then
\* overwrites the GO, and a server that sits in get_packet after an acknowledgement too many.
StopReportedUnlessOvertaken ==
    (cpu.stalled /\ rsp.waiting /\ Serving) ~> (~rsp.waiting \/ ~Serving \/ th.overtaken \/ reading)

\* What the comment at set_stall_state promises: the thread is woken to poll for a new
\* stall, so a stop is always reported to a waiting client.
StopReported == (cpu.stalled /\ rsp.waiting /\ Serving) ~> (~rsp.waiting \/ ~Serving)

-----------------------------------------------------------------------------
(* The inductive invariant.                                                *)

\* How the server's programs are built: a release says so first, single-step mode is set up
\* before a release, registers and memory are written before anything else is done, and a
\* plain continue, nothing but that, ends with the wake-up that clears single_step_mode.
FirstOnly == {"setNpc", "writeMem", "insert", "remove"}
Continues(m) == m.op = "wake" /\ m.arg = "continued"
Formed(s) ==
    \A i \in DOMAIN s :
      /\ s[i].op = "go" => i = 1 \/ s[i - 1].op = "run"
      /\ s[i].op = "run" => i < Len(s) /\ s[i + 1].op = "go"
      /\ s[i].op \in {"single", "noSingle"} => i < Len(s) /\ s[i + 1].op = "run"
      /\ s[i].op = "noSingle" => Len(s) = i + 3 /\ Continues(s[i + 3])
      /\ s[i].op \in FirstOnly => i = 1 /\ s[i].arg \in Addrs
      /\ s[i].op = "report" => i = 1
      /\ Continues(s[i]) => /\ i = Len(s) /\ (i > 3 => s[i - 3].op = "noSingle")
                            /\ \A j \in 1 .. i - 1 : s[j].op \in {"setNpc", "noSingle", "run", "go"}
Programs == Formed(todo) /\ (todo # <<>> /\ Head(todo).op \in FirstOnly => ~rsp.running)

\* The flag is up before the processor is released, and comes down only while it stands still.
Releases ==
    ~th.overtaken => /\ ~cpu.stalled \/ At("go") => rsp.running
                     /\ th.pc = "clear" => cpu.stalled

\* Unless a release is under way, a byte in the pipe, a stop about to be logged and a stop about
\* to be reported all speak of a processor that stands still.
NoGo(s) == \A i \in DOMAIN s : s[i].op # "go"
Stopped == cpu.stalled /\ ~rsp.running
Reports ==
    ~th.overtaken /\ NoGo(todo) =>
        /\ th.pc = "log" => Stopped
        /\ pipe > 0 \/ (At("report") /\ Len(todo) = 2 /\ todo[2].op = "reported")
               => Stopped /\ Signalled

\* The copy of the next program counter is given up with the flag, and is missing only until
\* the released processor has shown a new one.
Copies ==
    ~th.overtaken =>
        /\ rsp.running => rsp.npc = NoAddr
        /\ rsp.npc # NoAddr => rsp.npc = cpu.npc
        /\ cpu.hidden /\ rsp.npc = NoAddr => rsp.running /\ (~cpu.stalled \/ At("go"))

\* single_step_mode differs from the trigger only on the way through a plain continue.
StepMode ==
    /\ \A i \in DOMAIN todo : Continues(todo[i]) /\ i <= 3 => ~cpu.st
    /\ rsp.single = cpu.st \/ (~cpu.st /\ \E i \in DOMAIN todo : Continues(todo[i]))

\* A request travels alone.  While a breakpoint is being inserted the client cannot send: it waits for
\* the answer, or its acknowledgement of another one is still unread.
Requested ==
    /\ \A i \in DOMAIN toServer : i > 1 => toServer[i] \in {Ack, Break, Eof}
    /\ ~rsp.client => gdb.state = "away" /\ toServer = <<>>
    /\ ~rsp.client \/ gdb.state = "away" => toClient = <<>>
    /\ At("insert") => gdb.state # "idle" \/ toServer # <<>>
    /\ toServer # <<>> /\ toServer[1].k = "Z" => gdb.state # "idle" \/ Len(toServer) > 1
    /\ toServer # <<>> /\ toServer[1].k \in {"M", "X"}
           => gdb.sessions > 1 \/ (rsp.mp[toServer[1].addr] = None /\ ~At("insert"))
    /\ At("writeMem") => gdb.sessions > 1 \/ rsp.mp[Arg] = None

Table ==
    gdb.sessions <= 1 => \A a \in Addrs : IF rsp.mp[a] = None THEN mem[a] = gdb.image[a]
                                          ELSE mem[a] = Trap /\ rsp.mp[a] = gdb.image[a]

RspInv ==
    /\ RspTypeOK /\ Programs /\ Releases /\ Reports /\ Copies /\ StepMode /\ Requested /\ Table
    /\ CopiesMirror
=============================================================================
