----------------------------- MODULE LegacyDbg -----------------------------
(***************************************************************************)
(* The bridge built for the older debug unit (legacy_dbg_commands.c, and   *)
(* the DBG_HW_LEGACY branches of dbg_api.c).  A call sets the scan chain,  *)
(* tells the unit the command, and lets it go; each of the three is one    *)
(* scan with a CRC both ways and a status.  Only the first two are made    *)
(* again, after a reset of the TAP.  Whoever returns an error leaves the   *)
(* TAP where the scan ended, and every scan counts on Run-Test/Idle.       *)
(*                                                                         *)
(* A word is a sequence of bytes, the most significant in front, and the   *)
(* host keeps it the other way round.  The unit, external, takes what its  *)
(* CRC approves of, and keeps chain and command until it is reset.         *)
(*                                                                         *)
(* Faults: a scan corrupted on the way to the unit, or on the way back.    *)
(***************************************************************************)
EXTENDS Integers, Sequences, FiniteSets, SequencesExt

CONSTANTS Adrs,          \* byte addresses of each module, 0 .. n-1
          BadAdrs,       \* Wishbone addresses that answer with an error
          Widths,        \* bytes of a word
          MaxWords,      \* bound: words of a block
          SoftRetries,   \* NUM_SOFT_RETRIES
          MaxCalls,      \* bound: calls
          MaxFaults      \* bound: scans corrupted

LegacyAssumption ==
    /\ Adrs = 0 .. Cardinality(Adrs) - 1 /\ BadAdrs \subseteq Adrs /\ Widths \subseteq {1, 2, 4}
    /\ {MaxWords, SoftRetries, MaxCalls, MaxFaults} \subseteq Nat

VARIABLES
    host,   \* current_chain, desired_chain, soft_retry_no
    unit,   \* its chain, command, and whether the TAP's instruction is DEBUG
    tap,    \* the state the TAP is in
    mem, ctrl,   \* behind the unit: bytes, and the reset and stall bits
    call,   \* the call, or the one that returned last
    pc, left

legacyvars == <<host, unit, tap, mem, ctrl, call, pc, left>>

Chains == {"wb", "cpu0", "cpu1"}
None == "none"
Cpus == {"cpu0", "cpu1"}

Init ==
    /\ host = [chain |-> None, desired |-> None, soft |-> 0]
    /\ unit = [chain |-> None, cmd |-> <<>>, debug |-> TRUE]
    /\ tap = "Idle"
    /\ mem = [m \in Chains |-> [a \in Adrs |-> <<"old", m, a>>]]
    /\ ctrl = [c \in Cpus |-> <<0, 0>>]
    /\ call = [kind |-> None, reads |-> FALSE, chain |-> None, adr |-> 0, width |-> 1, words |-> <<>>, data |-> <<>>,
               bits |-> <<0, 0>>, ret |-> None]
    /\ pc = <<"idle", "idle">> /\ left = [calls |-> MaxCalls, faults |-> MaxFaults]

-----------------------------------------------------------------------------
(* Scans.                                                                   *)

\* tap_set_shift_dr and a scan that ends with TMS set, from the state the TAP is in: bits reach
\* a register from Run-Test/Idle alone, and from Select-DR they overwrite the instruction.
TapAfter == [Idle |-> "Exit1DR", Exit1DR |-> "SelectDR", SelectDR |-> "Exit1IR", Exit1IR |-> "SelectDR"]
\* How the scan goes: "ok", "refused" by the unit, its answer "garbled", or "lost" on the way.
Heard == tap = "Idle" /\ unit.debug
Scan(result) ==
    /\ result \in (IF Heard THEN {"ok", "refused", "garbled"} ELSE {"lost"})
    /\ left' = IF result \in {"refused", "garbled"} THEN [left EXCEPT !.faults = @ - 1] ELSE left
    /\ result \in {"refused", "garbled"} => left.faults > 0
Arrives(result) == result \in {"ok", "garbled"}
\* tap_exit_to_idle comes with success only.
TapEnds(ok) == IF ok THEN "Idle" ELSE TapAfter[tap]

\* retry_do: tap_reset, and the debug instruction again; the counter when it is used up.
MayRetry == host.soft < SoftRetries
\* Fault: after the reset the unit is taken to be on its chain still.
Retried_Keeps == /\ host' = [host EXCEPT !.chain = host.desired, !.soft = @ + 1]
                 /\ unit' = [unit EXCEPT !.chain = None, !.cmd = <<>>, !.debug = TRUE]
                 /\ tap' = "Idle"
Retried == /\ host' = [host EXCEPT !.chain = None, !.soft = @ + 1]
           /\ unit' = [unit EXCEPT !.chain = None, !.cmd = <<>>, !.debug = TRUE]
           /\ tap' = "Idle"
NotRetried(u) == /\ UNCHANGED host
                 /\ unit' = [u EXCEPT !.debug = @ /\ tap # "SelectDR"]
                 /\ tap' = TapEnds(FALSE)
Returns(ret) == pc' = <<"idle", "idle">> /\ call' = [call EXCEPT !.ret = ret]

\* legacy_dbg_set_chain: the call's own failure ends it; one inside an operation is not looked at.
legacy_dbg_set_chain(result) ==
    /\ pc[2] = "chain"
    /\ LET u == IF Arrives(result) THEN [unit EXCEPT !.chain = host.desired, !.cmd = <<>>] ELSE unit
           on == IF pc[1] = "call" THEN <<call.kind, "chain">> ELSE <<pc[1], "scan">>
       IN CASE host.chain = host.desired ->
                 result = "ok" /\ pc' = on /\ UNCHANGED <<host, unit, tap, call, left>>
            [] host.chain # host.desired /\ result = "ok" ->
                 /\ Scan(result) /\ unit' = u /\ tap' = TapEnds(TRUE) /\ pc' = on /\ UNCHANGED call
                 /\ host' = [host EXCEPT !.chain = host.desired, !.soft = 0]
            [] OTHER ->
                 /\ Scan(result)
                 /\ IF MayRetry THEN Retried /\ UNCHANGED <<pc, call>>
                    ELSE /\ host' = [host EXCEPT !.chain = None] /\ tap' = TapEnds(FALSE)
                         /\ unit' = [u EXCEPT !.debug = @ /\ tap # "SelectDR"]
                         /\ IF pc[1] = "call" THEN Returns("error") ELSE pc' = on /\ UNCHANGED call
    /\ UNCHANGED <<mem, ctrl>>

\* What an operation does when it has failed, and when it has not.
Fails(u) == IF MayRetry /\ pc[1] # "go" THEN Retried /\ pc' = <<pc[1], "chain">> /\ UNCHANGED call
            ELSE NotRetried(u) /\ Returns("error")
Succeeds(u) == unit' = u /\ tap' = TapEnds(TRUE) /\ host' = [host EXCEPT !.soft = 0]

-----------------------------------------------------------------------------
(* Operations.  A unit without a chain takes no command.                     *)

Bytes == Len(call.words) * call.width
Covered == {a \in Adrs : a >= unit.cmd[2] /\ a < unit.cmd[2] + Bytes}
Takes(result) == Arrives(result) /\ unit.chain # None
legacy_dbg_command(result) ==
    /\ pc = <<"command", "scan">> /\ Scan(result)
    /\ LET u == IF Takes(result) THEN [unit EXCEPT !.cmd = <<call.reads, call.adr, Bytes>>] ELSE unit
       IN IF result = "ok" /\ unit.chain # None
          THEN Succeeds(u) /\ pc' = <<"go", "chain">> /\ UNCHANGED call
          ELSE Fails(u)
    /\ UNCHANGED <<mem, ctrl>>

\* The host's image of the words, in the order in which the bytes lie in memory.
Image(words) == FlattenSeq([w \in DOMAIN words |-> Reverse(words[w])])
Words(image, width) == [w \in 1 .. Len(image) \div width |-> Reverse(SubSeq(image, (w - 1) * width + 1, w * width))]
\* ntohl and ntohs on every word of an image.
Swap_Not(image, width) == image   \* Fault: the bytes stay as the host keeps them.
Swap(image, width) == FlattenSeq([w \in 1 .. Len(image) \div width |-> Reverse(SubSeq(image, (w - 1) * width + 1, w * width))])

BusError == unit.chain = "wb" /\ Covered \cap BadAdrs # {}
\* The go is sent once.  The data are swapped when a read has succeeded, and a write's before.
legacy_dbg_go(result) ==
    /\ pc = <<"go", "scan">> /\ Scan(result)
    /\ LET does == Takes(result) /\ unit.cmd # <<>> /\ unit.cmd[1] = call.reads /\ unit.cmd[3] = Bytes
           ok == does /\ result = "ok" /\ ~BusError
           image == IF call.reads THEN [i \in 1 .. Bytes |-> mem[unit.chain][unit.cmd[2] + i - 1]]
                    ELSE Swap(Image(call.words), call.width)
       IN /\ mem' = IF does /\ ~call.reads
                    THEN [mem EXCEPT ![unit.chain] =
                            [a \in Adrs |-> IF a \in Covered /\ ~(unit.chain = "wb" /\ a \in BadAdrs)
                                            THEN image[a - unit.cmd[2] + 1] ELSE @[a]]]
                    ELSE mem
          /\ IF ok THEN /\ Succeeds([unit EXCEPT !.cmd = <<>>]) /\ pc' = <<"idle", "idle">>
                        /\ call' = [call EXCEPT !.ret = "ok",
                                                !.data = IF call.reads THEN Words(Swap(image, call.width), call.width) ELSE @]
             ELSE Fails([unit EXCEPT !.cmd = IF does THEN <<>> ELSE @])
    /\ UNCHANGED ctrl

\* legacy_dbg_ctrl is given data & 2 for the reset, and a stream of one bit takes the lowest.
ResetSent(bit) == (2 * bit) % 2
legacy_dbg_ctrl(result) ==
    /\ pc = <<"ctrl", "scan">> /\ Scan(result)
    /\ ctrl' = IF Takes(result) /\ unit.chain \in Cpus
               THEN [ctrl EXCEPT ![unit.chain] = <<ResetSent(call.bits[1]), call.bits[2]>>] ELSE ctrl
    /\ IF result = "ok" /\ unit.chain # None THEN Succeeds(unit) /\ Returns("ok") ELSE Fails(unit)
    /\ UNCHANGED mem
legacy_dbg_ctrl_read(result) ==
    /\ pc = <<"ctrl_read", "scan">> /\ Scan(result)
    /\ IF result = "ok" /\ unit.chain # None
       THEN /\ Succeeds(unit) /\ pc' = <<"idle", "idle">>
            /\ call' = [call EXCEPT !.ret = "ok", !.bits = IF unit.chain \in Cpus THEN ctrl[unit.chain] ELSE <<0, 0>>]
       ELSE Fails(unit)
    /\ UNCHANGED <<mem, ctrl>>

-----------------------------------------------------------------------------
(* dbg_api.c.                                                                *)

\* A call of the API, under the mutex.  The CPU's registers are numbered by their bytes here.
StartCall(kind, reads, chain, adr, width, n, bits) ==
    /\ pc = <<"idle", "idle">> /\ left.calls > 0
    /\ left' = [left EXCEPT !.calls = @ - 1]
    /\ host' = [host EXCEPT !.desired = chain]
    /\ call' = [kind |-> kind, reads |-> reads, chain |-> chain, adr |-> adr, width |-> width,
                words |-> [w \in 1 .. n |-> [i \in 1 .. width |-> <<"new", left.calls, w, i>>]],
                data |-> <<>>, bits |-> bits, ret |-> None]
    /\ pc' = <<"call", "chain">>
    /\ UNCHANGED <<unit, tap, mem, ctrl>>
dbg_wb(reads, adr, width, n) ==
    adr + width * n <= Cardinality(Adrs) /\ StartCall("command", reads, "wb", adr, width, n, <<0, 0>>)
dbg_cpu(reads, cpu, adr) ==
    adr % 4 = 0 /\ adr + 4 <= Cardinality(Adrs) /\ StartCall("command", reads, cpu, adr, 4, 1, <<0, 0>>)
dbg_cpu_write_ctrl(cpu, bits) == StartCall("ctrl", FALSE, cpu, 0, 1, 0, bits)
dbg_cpu_read_ctrl(cpu) == StartCall("ctrl_read", TRUE, cpu, 0, 1, 0, <<0, 0>>)

Results == {"ok", "refused", "garbled", "lost"}
NewCall ==
    \/ \E r \in BOOLEAN, a \in Adrs, w \in Widths, n \in 1 .. MaxWords : dbg_wb(r, a, w, n)
    \/ \E r \in BOOLEAN, c \in Cpus, a \in Adrs : dbg_cpu(r, c, a)
    \/ \E c \in Cpus, b \in {0, 1} \X {0, 1} : dbg_cpu_write_ctrl(c, b)
    \/ \E c \in Cpus : dbg_cpu_read_ctrl(c)
Operation(result) == \/ legacy_dbg_set_chain(result) \/ legacy_dbg_command(result) \/ legacy_dbg_go(result)
                     \/ legacy_dbg_ctrl(result) \/ legacy_dbg_ctrl_read(result)
Next == NewCall \/ \E result \in Results : Operation(result)
Spec == Init /\ [][Next]_legacyvars

-----------------------------------------------------------------------------

Succeeded == pc = <<"idle", "idle">> /\ call.ret = "ok"
\* A call that returns success has read what is there, or written all it was given, whatever was
\* corrupted and wherever calls before it left the TAP; the reset bit, which never gets through,
\* put aside.
LegacyTruthful ==
    Succeeded =>
        CASE call.kind = "command" ->
                 \A w \in DOMAIN call.words : \A i \in 1 .. call.width :
                     mem[call.chain][call.adr + (w - 1) * call.width + i - 1] =
                         (IF call.reads THEN call.data ELSE call.words)[w][i]
          [] call.kind = "ctrl" -> ctrl[call.chain][2] = call.bits[2]
          [] OTHER -> call.bits = ctrl[call.chain]
\* The copy of the chain that saves scans agrees with the unit.
LegacyChainMirrors == host.chain # None => unit.chain = host.chain
\* A step changes memory only where the call in progress is about.
LegacyStaysInRange ==
    [][\A m \in Chains, a \in Adrs :
         mem'[m][a] # mem[m][a] => m = call.chain /\ a \in call.adr .. call.adr + Bytes - 1]_legacyvars
=============================================================================
