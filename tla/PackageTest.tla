----------------------------- MODULE PackageTest -----------------------------
(***************************************************************************)
(* The test of the package (d2d_test and main in sw/sdram_test/main.c):    *)
(* every die runs the same program, which fills three buffers, starts the  *)
(* three senders and the three receivers of its links, polls the done bits *)
(* with a limit and compares what has come with a table of what the die at *)
(* the other end of each link sends.                                       *)
(*                                                                         *)
(* One die, me, is followed step by step; of the others what matters is    *)
(* when they have filled and started their engines.  A link is the         *)
(* reliable channel that D2DLink shows it to be: words come in order once  *)
(* both ends have started.  A turn of a poll is one step, which reads the  *)
(* three STATUS registers: done bits do not fall, so the sum reaches three *)
(* in no other turn.                                                       *)
(***************************************************************************)
EXTENDS Integers, Sequences, FiniteSets

CONSTANTS Length,    \* words of a transfer, 256
          MaxTurns   \* turns of a poll that are not yet too many, 1000

PackageAssumption == Length \in Nat \ {0} /\ MaxTurns \in Nat

Die == 0 .. 3
Link == 0 .. 2
Halves == {"tx", "rx"}
Nothing == <<>>

VARIABLES
    me, pc, count, given_up,  \* the program of the die followed
    passCount, failCount,
    started,                  \* engines started: [die, link, half]
    buffer,                   \* what the buffers d2dN_mat_rx of me hold, a sequence of words
    ended                     \* links of me, by half, whose done bit is up

program == <<pc, count, given_up, passCount, failCount>>
vars == <<me, program, started, buffer, ended>>

-----------------------------------------------------------------------------
(* The wiring of multi_chip_package.                                        *)

Wires == {<<0, 0, 1, 0>>, <<0, 1, 2, 0>>, <<0, 2, 3, 0>>, <<1, 1, 2, 1>>, <<1, 2, 3, 2>>, <<2, 2, 3, 1>>}
\* The other end of link k of die d.
Peer(d, k) ==
    CHOOSE p \in Die \X Link : <<d, k, p[1], p[2]>> \in Wires \/ <<p[1], p[2], d, k>> \in Wires

\* What a die puts into its buffer for a link.
TxWord(d, k, i) == <<d, k, i>>

\* Fault: the entry of die 3 is that of a wiring in the order of the dies.
Val_InOrder(d, k) ==
    CASE k = 0 -> <<<<1, 0>>, <<0, 0>>, <<0, 1>>, <<0, 2>>>>[d + 1]
      [] k = 1 -> <<<<2, 0>>, <<2, 1>>, <<1, 1>>, <<1, 2>>>>[d + 1]
      [] k = 2 -> <<<<3, 0>>, <<3, 2>>, <<3, 1>>, <<2, 2>>>>[d + 1]
\* The table of the comparison: the die and link expected at link k of die d.
Val(d, k) ==
    CASE k = 0 -> <<<<1, 0>>, <<0, 0>>, <<0, 1>>, <<0, 2>>>>[d + 1]
      [] k = 1 -> <<<<2, 0>>, <<2, 1>>, <<1, 1>>, <<2, 2>>>>[d + 1]
      [] k = 2 -> <<<<3, 0>>, <<3, 2>>, <<3, 1>>, <<1, 2>>>>[d + 1]

-----------------------------------------------------------------------------

Init ==
    /\ me \in Die /\ pc = "fill" /\ count = 0 /\ given_up = {}
    /\ passCount = 0 /\ failCount = 0
    /\ started = {} /\ buffer = [k \in Link |-> Nothing] /\ ended = {}

\* The buffers are filled before the first sender is started; the engines start one by one.
StartEngine(k, half) ==
    /\ started' = started \cup {<<me, k, half>>}
    /\ pc' = IF k < 2 THEN pc ELSE IF half = "tx" THEN "rx" ELSE "poll_tx"
    /\ UNCHANGED <<me, count, given_up, passCount, failCount, buffer, ended>>

Running(d, half) == {e \in started : e[1] = d /\ e[3] = half}
StartTx ==
    \/ pc = "fill" /\ pc' = "tx" /\ UNCHANGED <<me, count, given_up, passCount, failCount, started, buffer, ended>>
    \/ pc = "tx" /\ StartEngine(Cardinality(Running(me, "tx")), "tx")
StartRx == pc = "rx" /\ StartEngine(Cardinality(Running(me, "rx")), "rx")

\* The other dies come up when they like and start their engines in the same order.
OtherStarts(d) ==
    /\ d # me
    /\ \/ Running(d, "tx") = {} /\ started' = started \cup ({d} \X Link \X {"tx"})
       \/ Running(d, "tx") # {} /\ Running(d, "rx") = {} /\ started' = started \cup ({d} \X Link \X {"rx"})
    /\ UNCHANGED <<me, program, buffer, ended>>

Open(d, k) == <<d, k, "tx">> \in started /\ LET p == Peer(d, k) IN <<p[1], p[2], "rx">> \in started

\* A word arrives at link k of me; done rises later.
Arrives(k) ==
    /\ Open(Peer(me, k)[1], Peer(me, k)[2])
    /\ Len(buffer[k]) < Length
    /\ buffer' = [buffer EXCEPT ![k] = Append(@, TxWord(Peer(me, k)[1], Peer(me, k)[2], Len(@)))]
    /\ UNCHANGED <<me, program, started, ended>>
EngineDone(k, half) ==
    /\ <<k, half>> \notin ended
    /\ IF half = "rx" THEN Len(buffer[k]) = Length ELSE Open(me, k)
    /\ ended' = ended \cup {<<k, half>>}
    /\ UNCHANGED <<me, program, started, buffer>>

\* Fault: one engine is enough.
EnginesDone_One(half) == \E k \in Link : <<k, half>> \in ended
EnginesDone(half) == \A k \in Link : <<k, half>> \in ended

\* A turn of the poll: three engines done, or too many turns (count++ > 1000).
PollTurn(half) ==
    /\ pc = "poll_" \o half
    /\ IF EnginesDone(half) \/ count > MaxTurns
       THEN /\ given_up' = IF EnginesDone(half) THEN given_up ELSE given_up \cup {half}
            /\ pc' = IF half = "tx" THEN "poll_rx" ELSE "check"
            /\ count' = 0
       ELSE pc' = pc /\ count' = count + 1 /\ UNCHANGED given_up
    /\ UNCHANGED <<me, passCount, failCount, started, buffer, ended>>

\* The buffers of a program just loaded hold zeros, the word <<0, 0, 0>>.
Compare(k, i) ==
    LET word == IF i < Len(buffer[k]) THEN buffer[k][i + 1] ELSE <<0, 0, 0>>
    IN word = <<Val(me, k)[1], Val(me, k)[2], i>>
Check ==
    /\ pc = "check" /\ pc' = "gemm"
    /\ LET ok == {p \in Link \X (0 .. Length - 1) : Compare(p[1], p[2])}
       IN passCount' = Cardinality(ok) /\ failCount' = 3 * Length - Cardinality(ok)
    /\ UNCHANGED <<me, count, given_up, started, buffer, ended>>

Next ==
    \/ StartTx \/ StartRx \/ Check
    \/ \E half \in Halves : PollTurn(half)
    \/ \E d \in Die : OtherStarts(d)
    \/ \E k \in Link : Arrives(k)
    \/ \E k \in Link, half \in Halves : EngineDone(k, half)
Spec == Init /\ [][Next]_vars

-----------------------------------------------------------------------------

\* A die whose receivers were all done when it stopped polling counts no failure: the table of
\* expected values is the wiring, and a done bit means the words are in the buffer (lines 725 to 879).
DoneMeansPassed == pc = "gemm" /\ "rx" \notin given_up => failCount = 0
\* A die that counts no failure has received every word of its three links from the right sender
\* (lines 832 to 879): zeros left in a buffer do not pass.
NoFalsePass ==
    pc = "gemm" /\ failCount = 0 =>
        \A k \in Link : Len(buffer[k]) = Length /\ passCount = 3 * Length
=============================================================================
