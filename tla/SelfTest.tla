------------------------------ MODULE SelfTest ------------------------------
(***************************************************************************)
(* The bridge's self-test (or32_selftest.c): the processor is stalled, the *)
(* memory is tried, and the processor is made to run a loop of eleven      *)
(* instructions by single steps and trap instructions put in and taken out *)
(* again, while it runs for itself between a GO and the poll that finds it *)
(* stopped.                                                                *)
(*                                                                         *)
(* A test is a sequence of accesses.  Words are numbered from SDRAM_BASE,  *)
(* which is SRAM_BASE too.  The memory may have one fault of its address   *)
(* lines or of a word.  The processor does what the loop needs of it, with *)
(* its data at 0x40000030 in a memory that has no fault; what it does with *)
(* a word that is none of the loop's is not followed.                      *)
(***************************************************************************)
EXTENDS Integers, Sequences, SequencesExt

CONSTANTS Lines,      \* address lines of the memory, words
          Switches,   \* sets of the tests and initializations compiled in
          Faults,     \* of the memory
          LinkFails,  \* the debug link may fail
    MaxR1       \* bound: the processor is followed until its r1 gets here

SelfTestAssumption ==
    /\ Lines \in Nat /\ Lines >= 5 /\ LinkFails \subseteq BOOLEAN /\ MaxR1 \in Nat
    /\ \A s \in Switches : s \subseteq {"HAS_MEMORY_CONTROLLER", "TEST_SDRAM", "TEST_SRAM", "TEST_OR1K"}

VARIABLES
    todo, at, pc,    \* scripts left, the access in the first of them, "run", "exited" or "returned"
    success,         \* the error codes ORed
    insn, sum,       \* the instruction saved, the sum of what was read
    seen,            \* the registers as they were read
    cpu, mem, enabled, overrun, \* the processor, the memory, its controller, the test's own stack
    hw               \* what is wrong, and what is compiled in

vars == <<todo, at, pc, success, insn, sum, seen, cpu, mem, enabled, overrun, hw>>

-----------------------------------------------------------------------------
(* The memory.                                                              *)

Word == 0 .. 2 ^ Lines - 1
Bit(a, k) == (a \div 2 ^ k) % 2
\* Where an access to a word goes: a line may be stuck at zero, or two lines joined.
Where(a) ==
    CASE hw.fault[1] = "stuck" -> a - Bit(a, hw.fault[2]) * 2 ^ hw.fault[2]
      [] hw.fault[1] = "joined" ->
           LET j == hw.fault[2]
               k == hw.fault[3]
           IN IF Bit(a, j) = Bit(a, k) THEN a ELSE a + (1 - Bit(a, j)) * 2 ^ j + (1 - Bit(a, k)) * 2 ^ k
      [] OTHER -> a
Put(m, a, v) == [m EXCEPT ![Where(a)] = IF hw.fault = <<"word", a>> THEN <<"garbage">> ELSE v]
Get(m, a) == IF enabled THEN m[Where(a)] ELSE <<"garbage">>

-----------------------------------------------------------------------------
(* The processor: a delay slot, and a trap that stalls.                     *)

Trap == <<"trap">>
\* The loop, from word 0.
Program == <<<<"xor">>, <<"clear">>, <<"base">>, <<"base">>, <<"inc">>, <<"inc">>, <<"store">>, <<"inc">>,
             <<"load">>, <<"jump">>, <<"add">>>>
Loop == 4

\* An instruction; one in a delay slot is followed by the jump's target.
Executed(c, i) ==
    LET next == [c EXCEPT !.ppc = c.npc, !.npc = IF c.delay # -1 THEN c.delay ELSE @ + 1, !.delay = -1,
                          !.stalled = c.step \/ i = Trap]
    IN CASE i = <<"clear">> -> [next EXCEPT !.r1 = 0]
         [] i = <<"inc">> -> [next EXCEPT !.r1 = @ + 1]
         [] i = <<"add">> -> [next EXCEPT !.r1 = @ + c.r3]
         [] i = <<"store">> -> [next EXCEPT !.cell = c.r1]
         [] i = <<"load">> -> [next EXCEPT !.r3 = c.cell]
         [] i = <<"jump">> -> [next EXCEPT !.delay = Loop]
         [] i \in {<<"xor">>, <<"base">>, Trap} -> next
         [] OTHER -> [next EXCEPT !.lost = TRUE]
Execute ==
    /\ pc = "run" /\ ~cpu.stalled /\ ~cpu.lost /\ cpu.r1 < MaxR1
    /\ cpu' = Executed(cpu, IF cpu.npc \in Word THEN Get(mem, cpu.npc) ELSE <<"garbage">>)
    /\ UNCHANGED <<todo, at, pc, success, insn, sum, seen, mem, enabled, overrun, hw>>
\* A processor that has left the loop may stall or not.
Strays ==
    /\ pc = "run" /\ cpu.lost /\ ~cpu.stalled /\ cpu' = [cpu EXCEPT !.stalled = TRUE]
    /\ UNCHANGED <<todo, at, pc, success, insn, sum, seen, mem, enabled, overrun, hw>>

-----------------------------------------------------------------------------
(* The tests.                                                               *)

Write(a, v) == [op |-> "write", a |-> a, v |-> v]
Read(a) == [op |-> "read", a |-> a]
Compare(a, v) == [op |-> "compare", a |-> a, v |-> v]
Op(o) == [op |-> o]

stall_cpus == <<Op("stall"), Op("stalled")>>
init_mc == <<Op("controller")>>
init_sram == <<Op("controller")>>

\* One bit of the address at a time from 0x10, then blocks by words, halfwords and bytes.
Walk == [k \in 1 .. Lines - 2 |-> 2 ^ (k + 1)]
test_sdram ==
    [k \in DOMAIN Walk |-> Write(Walk[k], <<"walk", Walk[k]>>)] \o [k \in DOMAIN Walk |-> Compare(Walk[k], <<"walk", Walk[k]>>)]
    \o <<[op |-> "write_block", size |-> 4], [op |-> "read_block", size |-> 4],
         [op |-> "write_block", size |-> 2], [op |-> "read_block", size |-> 2],
         [op |-> "write_block", size |-> 1], [op |-> "read_block", size |-> 1]>>
\* Nine words are written and read; the last one counts.
Nine(last) == [w \in 1 .. 9 |-> Write(w - 1, <<IF w = 9 THEN last ELSE "pattern", w - 1>>)]
              \o [w \in 1 .. 8 |-> Read(w - 1)] \o <<Compare(8, <<last, 8>>)>>
test_sdram_2 == <<Write(0, <<"first", 0>>), Compare(0, <<"first", 0>>), Write(0, <<"pattern", 0>>), Compare(0, <<"pattern", 0>>)>>
                \o Tail(Nine("deadbeef"))
test_sram == Nine("dedababa")

\* GO and the poll that ends it.
Go(n) == [k \in 1 .. 2 * n |-> IF k % 2 = 1 THEN Op("go") ELSE Op("poll")]
SetPc(a) == <<[op |-> "npc", a |-> a]>>
Step(on) == <<[op |-> "step", on |-> on]>>
\* What the test prints as expected: NPC, PPC and R1.
Triple(npc, ppc, r1) == <<[op |-> "triple", expected |-> <<npc, ppc, r1>>]>>
\* Fault: the trap stays until the next test has run.
WithTrap_Left(a, start, triple) ==
    <<[op |-> "save", a |-> a], Write(a, Trap)>> \o start \o Go(1) \o triple
\* A trap is put in the place of an instruction, which comes back when the registers have been read.
WithTrap(a, start, triple) ==
    <<[op |-> "save", a |-> a], Write(a, Trap)>> \o start \o Go(1) \o triple \o <<[op |-> "restore", a |-> a]>>
test_or1k_cpu0 ==
    [i \in 1 .. 11 |-> Write(i - 1, Program[i])]
    \o SetPc(0) \o Step(TRUE) \o Go(11) \o Triple(4, 10, 5) \o Step(FALSE)
    \o WithTrap(10, <<>>, Triple(4, 10, 8))
    \o WithTrap(9, SetPc(4), Triple(10, 9, 11))
    \o WithTrap(8, SetPc(9), Triple(9, 8, 24))
    \o WithTrap(7, SetPc(8), Triple(8, 7, 49))
    \o WithTrap(8, SetPc(7), Triple(9, 8, 50))
    \o WithTrap(4, SetPc(8), Triple(5, 4, 99))
    \o Step(TRUE) \o Go(5) \o Triple(10, 9, 101)
    \o SetPc(9) \o Go(2) \o Triple(4, 10, 201)
    \o <<Op("result")>>
\* What the sum must be, deaddae1 and deaddead put aside: the addresses are bytes.
Expected == 1100

-----------------------------------------------------------------------------
(* dbg_test.                                                                *)

Compiled(switch, scripts) == IF switch \in hw.switches THEN scripts ELSE <<>>
Init ==
    /\ hw \in [fault : {<<"none">>} \cup Faults, switches : Switches, link : LinkFails, stalls : BOOLEAN]
    /\ todo = <<"stall_cpus">> /\ at = 1 /\ pc = "run" /\ success = TRUE
    /\ insn = <<"garbage">> /\ sum = 0 /\ seen = <<>>
    /\ cpu = [npc |-> 0, ppc |-> 0, delay |-> -1, r1 |-> 0, r3 |-> 0, cell |-> 0, step |-> FALSE, stalled |-> FALSE, lost |-> TRUE]
    /\ mem = [a \in Word |-> <<"garbage">>]
    /\ enabled = ("HAS_MEMORY_CONTROLLER" \notin hw.switches) /\ overrun = FALSE

Script(name) ==
    CASE name = "stall_cpus" -> stall_cpus [] name = "init_mc" -> init_mc [] name = "init_sram" -> init_sram
      [] name = "test_sdram" -> test_sdram [] name = "test_sdram_2" -> test_sdram_2
      [] name = "test_sram" -> test_sram [] name = "test_or1k_cpu0" -> test_or1k_cpu0
Now == Script(todo[1])[at]
Running(ops) == pc = "run" /\ todo # <<>> /\ Now.op \in ops

\* The next access, or the next test with ok added to what the tests have returned.
GoesOn(ok) ==
    LET ends == at = Len(Script(todo[1])) \/ ~ok
        left == IF todo[1] = "stall_cpus"
                THEN Compiled("HAS_MEMORY_CONTROLLER", <<"init_mc", "init_sram">>)
                     \o Compiled("TEST_SDRAM", <<"test_sdram", "test_sdram_2">>)
                     \o Compiled("TEST_SRAM", <<"test_sram">>) \o Compiled("TEST_OR1K", <<"test_or1k_cpu0">>)
                ELSE Tail(todo)
        stop == ~ok /\ todo[1] = "stall_cpus"
    IN /\ todo' = IF ~ends THEN todo ELSE IF stop THEN <<>> ELSE left
       /\ at' = IF ends THEN 1 ELSE at + 1
       /\ success' = (success /\ ok)
       /\ pc' = IF todo' = <<>> THEN "returned" ELSE "run"

\* CHECK: an error of the link ends the program.
check == /\ pc = "run" /\ hw.link /\ pc' = "exited"
         /\ UNCHANGED <<todo, at, success, insn, sum, seen, cpu, mem, enabled, overrun, hw>>

Controls ==
    /\ Running({"stall", "controller", "npc", "step", "go"})
    /\ cpu' = CASE Now.op = "stall" -> [cpu EXCEPT !.stalled = hw.stalls]
                [] Now.op = "npc" -> [cpu EXCEPT !.npc = Now.a, !.delay = -1, !.lost = FALSE]
                [] Now.op = "step" -> [cpu EXCEPT !.step = Now.on]
                [] Now.op = "go" -> [cpu EXCEPT !.stalled = FALSE]
                [] OTHER -> cpu
    /\ enabled' = (enabled \/ Now.op = "controller")
    /\ GoesOn(TRUE) /\ UNCHANGED <<insn, sum, seen, mem, overrun, hw>>
\* stall_cpus asks once, a test until the processor has stopped.
Stalled == /\ Running({"stalled"}) /\ GoesOn(cpu.stalled)
           /\ UNCHANGED <<insn, sum, seen, cpu, mem, enabled, overrun, hw>>
Poll == /\ Running({"poll"}) /\ cpu.stalled /\ GoesOn(TRUE)
        /\ UNCHANGED <<insn, sum, seen, cpu, mem, enabled, overrun, hw>>

Writes ==
    /\ Running({"write", "restore"})
    /\ mem' = Put(mem, Now.a, IF Now.op = "write" THEN Now.v ELSE insn)
    /\ GoesOn(TRUE) /\ UNCHANGED <<insn, sum, seen, cpu, enabled, overrun, hw>>
Reads ==
    /\ Running({"read", "compare", "save"})
    /\ insn' = Get(mem, Now.a)
    /\ GoesOn(Now.op # "compare" \/ insn' = Now.v)
    /\ UNCHANGED <<sum, seen, cpu, mem, enabled, overrun, hw>>

\* A block has 0x20 elements whatever their size; of words, an array holds eight, and of halfwords
\* sixteen.  What is read comes back over them, and over what lies behind.
WordsOf(size) == 0 .. 8 * size - 1
InArray == 0 .. 7
Pattern(size, w) == IF w \in InArray THEN <<"block", size, w>> ELSE <<"behind", w>>
WriteBlock ==
    /\ Running({"write_block"})
    /\ LET after[w \in -1 .. 8 * Now.size - 1] ==
               IF w = -1 THEN mem ELSE Put(after[w - 1], w, Pattern(Now.size, w))
       IN mem' = after[8 * Now.size - 1]
    /\ GoesOn(TRUE) /\ UNCHANGED <<insn, sum, seen, cpu, enabled, overrun, hw>>
ReadBlock ==
    /\ Running({"read_block"})
    /\ overrun' = (overrun \/ \E w \in WordsOf(Now.size) \ InArray : Get(mem, w) # Pattern(Now.size, w))
    /\ GoesOn(\A w \in InArray : Get(mem, w) = Pattern(Now.size, w))
    /\ UNCHANGED <<insn, sum, seen, cpu, mem, enabled, hw>>

Triples ==
    /\ Running({"triple"})
    /\ seen' = Append(seen, <<<<cpu.npc, cpu.ppc, cpu.r1>>, Now.expected>>)
    /\ sum' = sum + 4 * cpu.npc + 4 * cpu.ppc + cpu.r1
    /\ GoesOn(TRUE) /\ UNCHANGED <<insn, success, cpu, mem, enabled, overrun, hw>>
\* The registers of a processor that has left the loop are not followed.
Result ==
    /\ Running({"result"})
    /\ \E right \in IF cpu.lost THEN BOOLEAN ELSE {sum = Expected} : GoesOn(right)
    /\ UNCHANGED <<insn, sum, seen, cpu, mem, enabled, overrun, hw>>

Next == \/ Execute \/ Strays \/ check \/ Controls \/ Stalled \/ Poll \/ Writes \/ Reads
        \/ WriteBlock \/ ReadBlock \/ Triples \/ Result
Spec == Init /\ [][Next]_vars

-----------------------------------------------------------------------------

\* A system without a fault passes whatever is compiled in, and every triple is the one the test
\* prints as expected: the processor is where each trap and each step should have left it.
SoundSystemPasses ==
    hw.fault = <<"none">> /\ hw.stalls =>
        /\ success /\ ~overrun
        /\ \A n \in DOMAIN seen : seen[n][1] = seen[n][2]
\* Every trap has been taken out again when the test returns: the loop is as it was written.
TrapsRemoved ==
    pc = "returned" /\ hw.fault = <<"none">> /\ "TEST_OR1K" \in hw.switches /\ hw.stalls =>
        \A i \in 1 .. 11 : mem[i - 1] = Program[i]
\* With the memory's tests compiled in, a fault is found when it is at a word the tests read back,
\* at a line stuck among the lowest three, or at two lines of which the words tried tell apart:
\* both among the lowest five or both walked.  A line stuck higher up is not found, since nothing
\* is written under two addresses that then meet, and neither is a low line joined to a high one.
FaultsFound ==
    pc = "returned" /\ success /\ "TEST_SDRAM" \in hw.switches =>
        CASE hw.fault[1] = "word" -> hw.fault[2] > 8 /\ \A k \in DOMAIN Walk : hw.fault[2] # Walk[k]
          [] hw.fault[1] = "stuck" -> hw.fault[2] > 2
          [] hw.fault[1] = "joined" -> hw.fault[2] < 2 /\ hw.fault[3] > 4
          [] OTHER -> TRUE
=============================================================================
