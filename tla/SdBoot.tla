-------------------------------- MODULE SdBoot --------------------------------
(***************************************************************************)
(* Booting from the serial flash: the programs that copy the image behind  *)
(* address 0x100 of the memory and jump to it, over the SPI master         *)
(* (rtl/spi) and a flash that streams.                                     *)
(*                                                                         *)
(*   loader   sw/sd_boot_loader/main.c, which sim/bin/main.c is a copy of  *)
(*   blocks   sw/sdram_test/bootmain.c, which asks for every block anew,   *)
(*            and gives up a poll after Limit turns                        *)
(*                                                                         *)
(* A word of 32 bits is what a transfer moves in one step; the shift       *)
(* register is at once what is sent and what is received, and while a      *)
(* transfer runs writes to its registers are ignored.  The flash takes the *)
(* first 32 bits after it is selected for a command and sends words from   *)
(* then on.                                                                *)
(***************************************************************************)
EXTENDS Integers, Sequences, FiniteSets

CONSTANTS Groups,    \* transfers of four words copied
          PerBlock,  \* of them in a block of bootmain
          Verified,  \* groups whose words are read back
          Limit,     \* turns after which bootmain gives up a poll, 32
          Programs

BootAssumption == /\ Groups \in Nat \ {0} /\ PerBlock \in 1 .. Groups /\ Verified \in 0 .. Groups
                  /\ Limit \in Nat /\ Programs \subseteq {"loader", "blocks"}

VARIABLES
    prog, pc, group, turns, \* the program: its next access, groups copied, turns of the poll
    spi,                    \* the master: ss, shift (words RX_0 to RX_3), left (words to move), go
    flash,                  \* streaming: the next word sent, or -1 when the next is a command
    dram,                   \* mode ("off", "init", "ready"), and words by number from 0x100
    weak,                   \* a word that does not hold what is written to it, or -1
    failed                  \* FAIL_CODE has been written to the GPIO

vars == <<prog, pc, group, turns, spi, flash, dram, weak, failed>>

Word == 0 .. 4 * Groups - 1
Command(addr) == <<"read", addr>>

-----------------------------------------------------------------------------
(* The SPI master and the flash.                                            *)

\* CTRL with GO and a length; ignored while a transfer is running.
WriteCtrl(s, len) == IF s.left > 0 THEN s ELSE [s EXCEPT !.left = len, !.len = len]
WriteTx0(s, word) == IF s.left > 0 THEN s ELSE [s EXCEPT !.shift[1] = word]
Go == spi.left > 0

\* The flash answers a word with the next of its array, once it has had a command.
Shift ==
    /\ Go /\ pc # "jumped"
    /\ LET out == spi.shift[spi.left]
           in == IF flash = -1 \/ ~spi.ss THEN <<"floating">> ELSE <<"flash", flash>>
       IN /\ spi' = [spi EXCEPT !.left = @ - 1, !.shift[spi.left] = in]
          /\ flash' = IF ~spi.ss THEN flash
                      ELSE IF flash # -1 THEN flash + 1
                      ELSE IF out[1] = "read" THEN out[2] ELSE -1
    /\ UNCHANGED <<prog, pc, group, turns, dram, weak, failed>>

-----------------------------------------------------------------------------
(* The programs.                                                            *)

Init ==
    /\ prog \in Programs /\ pc = "select" /\ group = 0 /\ turns = 0
    /\ spi = [ss |-> FALSE, shift |-> [i \in 1 .. 4 |-> <<"zero">>], left |-> 0, len |-> 0]
    /\ flash = -1
    /\ dram = [mode |-> "off", words |-> [w \in Word |-> <<"old">>]]
    /\ weak \in IF prog = "loader" THEN {-1} \cup Word ELSE {-1}
    /\ failed = FALSE

\* spiMaster_init: slave select stays on from here; the loader turns it off first.
Select ==
    /\ pc = "select" /\ pc' = "command"
    /\ spi' = [spi EXCEPT !.ss = TRUE]
    /\ flash' = IF prog = "loader" THEN -1 ELSE flash
    /\ UNCHANGED <<prog, group, turns, dram, weak, failed>>

\* READ ARRAY from address 0, or from that of the block.
SendCommand(addr) == spi' = WriteCtrl(WriteTx0(spi, Command(addr)), 1)
spiMaster_init ==
    /\ pc = "command" /\ pc' = "poll_command" /\ turns' = 0
    /\ SendCommand(0)
    /\ UNCHANGED <<prog, group, flash, dram, weak, failed>>
\* The poll of GO: without end in the loader.
Poll(then) ==
    LET giveUp == turns + 1 > Limit
    IN /\ \/ ~Go /\ pc' = then /\ turns' = 0
          \/ /\ Go /\ prog = "blocks"
             /\ pc' = IF giveUp THEN then ELSE pc
             /\ turns' = IF giveUp THEN 0 ELSE turns + 1
       /\ UNCHANGED <<prog, group, spi, flash, dram, weak, failed>>
\* Fault: the poll after the command is left out.
PollCommand_Skipped ==
    /\ pc = "poll_command" /\ pc' = "dram"
    /\ UNCHANGED <<prog, group, turns, spi, flash, dram, weak, failed>>
PollCommand == pc = "poll_command" /\ Poll(IF prog = "loader" THEN "dram" ELSE "try")
\* bootmain reads four words to see that the image is there.
Try ==
    /\ pc = "try" /\ pc' = "poll_try" /\ spi' = WriteCtrl(spi, 4)
    /\ UNCHANGED <<prog, group, turns, flash, dram, weak, failed>>
PollTry == pc = "poll_try" /\ Poll("compare")
Rx == [i \in 1 .. 4 |-> spi.shift[5 - i]]
ExpectedStart == [i \in 1 .. 4 |-> <<"flash", i - 1>>]
Compare ==
    /\ pc = "compare" /\ pc' = "dram" /\ failed' = (failed \/ Rx # ExpectedStart)
    /\ UNCHANGED <<prog, group, turns, spi, flash, dram, weak>>

\* ddr_sdram_init: the controller is started, given time, and its mode register loaded.
ddr_sdram_init ==
    /\ pc = "dram"
    /\ dram' = [dram EXCEPT !.mode = IF @ = "off" THEN "init" ELSE "ready"]
    /\ pc' = IF dram.mode = "off" THEN "dram" ELSE IF prog = "loader" THEN "read" ELSE "block"
    /\ UNCHANGED <<prog, group, turns, spi, flash, weak, failed>>

\* copy_sd2ddr of bootmain: every block starts with a command.
StartBlock ==
    /\ pc = "block" /\ pc' = "poll_block"
    /\ SendCommand(4 * group)
    /\ UNCHANGED <<prog, group, turns, flash, dram, weak, failed>>
PollBlock == pc = "poll_block" /\ Poll("read")

\* spiRead4words.
StartRead ==
    /\ pc = "read" /\ pc' = "poll_read"
    /\ spi' = WriteCtrl(spi, 4)
    /\ UNCHANGED <<prog, group, turns, flash, dram, weak, failed>>
PollRead == pc = "poll_read" /\ Poll("store")
Stored(words, w, value) == [words EXCEPT ![w] = IF w = weak THEN <<"weak">> ELSE value]
\* The four words go to the memory, and the first ones are read back.
Store ==
    /\ pc = "store" /\ group' = group + 1
    /\ LET s(i, words) == Stored(words, 4 * group + i - 1, Rx[i])
           words == s(4, s(3, s(2, s(1, dram.words))))
       IN /\ dram' = IF dram.mode = "ready" THEN [dram EXCEPT !.words = words] ELSE dram
          /\ failed' = (failed \/ (prog = "loader" /\ group < Verified
                                   /\ \E i \in 1 .. 4 : dram'.words[4 * group + i - 1] # Rx[i]))
    /\ pc' = IF group' = Groups THEN "jump"
             ELSE IF prog = "blocks" /\ group' % PerBlock = 0 THEN "block" ELSE "read"
    /\ UNCHANGED <<prog, turns, spi, flash, weak>>
\* jumpToRAM, whatever has failed.
Jump == pc = "jump" /\ pc' = "jumped" /\ UNCHANGED <<prog, group, turns, spi, flash, dram, weak, failed>>

Next == \/ Shift \/ Select \/ spiMaster_init \/ PollCommand \/ Try \/ PollTry \/ Compare \/ ddr_sdram_init
        \/ StartBlock \/ PollBlock \/ StartRead \/ PollRead \/ Store \/ Jump
Spec == Init /\ [][Next]_vars

-----------------------------------------------------------------------------

InPlace == \A w \in Word : w # weak => dram.words[w] = <<"flash", w>>
\* When the loader jumps, the memory holds the image in order from its first word, and a word of
\* the part read back that did not keep its value has been reported (sd_boot_loader/main.c,
\* lines 249 to 310).
LoaderImageWhole ==
    pc = "jumped" /\ prog = "loader" =>
        InPlace /\ (weak \in 0 .. 4 * Verified - 1 => failed) /\ (weak = -1 => ~failed)
\* The same of bootmain.  It does not hold: the flash stays selected and streams on, so a second
\* command is not one and four bytes are lost, and a poll may be given up before its transfer ends.
BlocksImageWhole == pc = "jumped" /\ prog = "blocks" => InPlace
=============================================================================
