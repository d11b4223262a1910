--------------------------------- MODULE Modem ---------------------------------
(***************************************************************************)
(* Loading a file over the serial line (orpmon/services/modem.c): the      *)
(* receiver of XMODEM with CRC and of YMODEM, byte by byte, and a sender   *)
(* that repeats what is refused or not answered.                           *)
(*                                                                         *)
(* A block has BlockBytes bytes for 128 and one for its CRC; numbers count *)
(* modulo M for 256.  A byte is a number: a block number, a control        *)
(* character or data, whatever the receiver takes it for.  The line may    *)
(* change a byte on the way there or lose an answer; losing bytes is left  *)
(* out, for the receiver has no timeout once a block has begun.            *)
(***************************************************************************)
EXTENDS Integers, Sequences

CONSTANTS M,           \* block numbers, 256
          BlockBytes,  \* bytes of a block
          Contents,    \* data bytes a file may have
          FileLens,    \* blocks of a file
          Modes,       \* subset of {"xmodem", "ymodem"}
          RETRY,       \* turns of the wait for the sender
          MaxFaults

SOH == 1
EOT == 2
Other == -1 \* a byte that is none of the others
ModemAssumption ==
    /\ M \in Nat /\ M > EOT /\ BlockBytes \in Nat \ {0} /\ Modes \subseteq {"xmodem", "ymodem"}
    /\ Contents \subseteq 0 .. 255 /\ FileLens \subseteq Nat \ {0} /\ RETRY \in Nat /\ MaxFaults \in Nat

VARIABLES
    modemPc, modemMode, mTimeoutCount, bno, length, mybuf, \* the receiver; mybuf is what it has of a block
    memory,                                           \* bytes written, by offset from src_addr
    mode, file, sending, next, again,                 \* the sender: "C", "block", "eot", "null" or "done"
    toRecv, toSend,                                   \* bytes on the way
    faults, headHit, lastTwice                        \* a header was changed; the last number came twice

receiver == <<modemPc, modemMode, mTimeoutCount, bno, length, mybuf, memory>>
sender == <<mode, file, sending, next, again>>
modemVars == <<receiver, sender, toRecv, toSend, faults, headHit, lastTwice>>

\* The CRC of the first bytes of a block, by their number.
Crc(bytes) ==
    LET Upto[i \in 0 .. Len(bytes)] == IF i = 0 THEN 0 ELSE (3 * Upto[i - 1] + bytes[i]) % 1000
    IN Upto
updcrc(bytes) == M + Crc(bytes)[Len(bytes)]
Packet(n, bytes) == <<SOH, n % M, M - 1 - (n % M)>> \o bytes \o <<updcrc(bytes)>>
NullBlock == [i \in 1 .. BlockBytes |-> 0]
FileBlock(n) == [i \in 1 .. BlockBytes |-> file[n]]

-----------------------------------------------------------------------------
(* The receiver.                                                            *)

ModemInit ==
    /\ modemPc = "wait" /\ modemMode = 1 /\ mTimeoutCount = 0 /\ bno = 0 /\ length = 0 /\ mybuf = <<>>
    /\ memory = [a \in {} |-> 0]
    /\ mode \in Modes /\ file \in UNION {[1 .. n -> Contents] : n \in FileLens}
    /\ sending = "C" /\ next = (IF mode = "ymodem" THEN 0 ELSE 1) /\ again = FALSE
    /\ toRecv = <<>> /\ toSend = <<>> /\ faults = 0 /\ headHit = FALSE /\ lastTwice = FALSE

Idle == UNCHANGED <<sender, faults, headHit, lastTwice>>
Answer(bytes) == toSend' = toSend \o bytes

\* Every timeout offers CRC mode again, until the last: then the receiver waits without a word.
mStartTimeout ==
    /\ modemPc = "wait" /\ toRecv = <<>> /\ mTimeoutCount < RETRY
    /\ mTimeoutCount' = mTimeoutCount + 1
    /\ IF mTimeoutCount' >= RETRY THEN UNCHANGED toSend ELSE Answer(<<"C">>)
    /\ Idle /\ UNCHANGED <<modemPc, modemMode, bno, length, mybuf, memory, toRecv>>

\* getBlock: the header decides.  A header nobody knows is refused, and so is every byte after it.
Header ==
    /\ modemPc \in {"wait", "header", "last"} /\ toRecv # <<>>
    /\ toRecv' = Tail(toRecv)
    /\ \/ /\ Head(toRecv) = SOH
          /\ modemPc' = (IF modemPc = "last" THEN "last block" ELSE "block")
          /\ mybuf' = <<>> /\ UNCHANGED toSend
       \/ /\ Head(toRecv) = EOT
          /\ modemPc' = (IF modemMode = 1 THEN "returned"
                         ELSE IF modemPc = "last" THEN "last eot" ELSE "second eot")
          /\ Answer(<<IF modemMode = 1 THEN "ACK" ELSE "NAK">>) /\ UNCHANGED mybuf
       \/ /\ Head(toRecv) \notin {SOH, EOT}
          /\ modemPc' = (IF modemPc = "last" THEN "returned" ELSE "header")
          /\ Answer(<<"NAK">>) /\ UNCHANGED mybuf
    /\ Idle /\ UNCHANGED <<modemMode, mTimeoutCount, bno, length, memory>>
\* YMODEM's end comes twice; the null block is still to come, unless the end came in its place.
SecondEot ==
    /\ modemPc \in {"second eot", "last eot"} /\ toRecv # <<>>
    /\ toRecv' = Tail(toRecv) /\ modemPc' = (IF modemPc = "second eot" THEN "last" ELSE "returned")
    /\ Answer(IF Head(toRecv) = EOT THEN <<"ACK", "C">> ELSE <<"ACK">>)
    /\ Idle /\ UNCHANGED <<modemMode, mTimeoutCount, bno, length, mybuf, memory>>

InBlock == modemPc \in {"block", "last block"}
TakeByte ==
    /\ InBlock /\ toRecv # <<>> /\ Len(mybuf) < BlockBytes + 3
    /\ mybuf' = Append(mybuf, Head(toRecv)) /\ toRecv' = Tail(toRecv)
    /\ Idle /\ UNCHANGED <<modemPc, modemMode, mTimeoutCount, bno, length, memory, toSend>>

bNo == mybuf[1]
nBno == mybuf[2]
data == SubSeq(mybuf, 3, BlockBytes + 2)
Ends == modemPc' = IF modemPc = "block" THEN "header" ELSE "returned"
\* Fault: the next range starts behind the last block's number.
NextRange_Late == IF bNo = 0 THEN bno + 1 ELSE bno
\* The numbers' next range starts with the last of this one.
NextRange == IF bNo = M - 1 THEN bno + 1 ELSE bno
Offset(j) == (bno * M + bNo - 1) * BlockBytes + j - 1

\* A whole block: YMODEM's first one only names the file.
StartBlock ==
    /\ InBlock /\ Len(mybuf) = BlockBytes + 3
    /\ bNo = 0 /\ nBno = M - 1 /\ bno = 0
    /\ modemMode' = 2 /\ Answer(<<"ACK", "C">>) /\ Ends
    /\ Idle /\ UNCHANGED <<mTimeoutCount, bno, length, mybuf, memory, toRecv>>
\* Data go to memory before the CRC is looked at.
DataBlock ==
    /\ InBlock /\ Len(mybuf) = BlockBytes + 3
    /\ ~(bNo = 0 /\ nBno = M - 1 /\ bno = 0) /\ M - 1 - bNo = nBno
    /\ length' = length + BlockBytes
    /\ memory' = [a \in DOMAIN memory \cup {Offset(j) : j \in 1 .. BlockBytes} |->
                     IF a \in {Offset(j) : j \in 1 .. BlockBytes} THEN data[a - Offset(1) + 1] ELSE memory[a]]
    /\ IF updcrc(data) = mybuf[BlockBytes + 3] THEN Answer(<<"ACK">>) /\ bno' = NextRange
       ELSE Answer(<<"NAK">>) /\ bno' = bno
    /\ Ends /\ Idle /\ UNCHANGED <<modemMode, mTimeoutCount, mybuf, toRecv>>
WrongNumber ==
    /\ InBlock /\ Len(mybuf) = BlockBytes + 3 /\ M - 1 - bNo # nBno
    /\ Answer(<<"NAK">>)
    /\ Ends /\ Idle /\ UNCHANGED <<modemMode, mTimeoutCount, bno, length, mybuf, memory, toRecv>>

-----------------------------------------------------------------------------
(* The sender and the line.                                                 *)

\* What is under way is sent whole, after older answers have been thrown away.
Message ==
    CASE sending = "block" -> Packet(next, IF next = 0 THEN NullBlock ELSE FileBlock(next))
      [] sending = "eot" -> <<EOT>>
      [] sending = "null" -> Packet(0, NullBlock)
Garbled(m) == {[m EXCEPT ![i] = Other] : i \in 1 .. Len(m)}
Send ==
    /\ sending \in {"block", "eot", "null"} /\ again /\ toRecv = <<>>
    /\ toSend' = <<>> /\ again' = FALSE
    /\ \/ toRecv' = Message /\ UNCHANGED <<faults, headHit>>
       \/ /\ faults < MaxFaults /\ faults' = faults + 1
          /\ \E g \in Garbled(Message) : toRecv' = g /\ headHit' = (headHit \/ g[1] # Message[1])
    /\ UNCHANGED <<receiver, mode, file, sending, next, lastTwice>>

Sends(what, n) == sending' = what /\ next' = n /\ again' = TRUE
Acked ==
    \/ sending = "block" /\ next = 0 /\ sending' = "C" /\ next' = 1 /\ again' = FALSE
    \/ sending = "block" /\ next \in 1 .. Len(file) - 1 /\ Sends("block", next + 1)
    \/ sending = "block" /\ next = Len(file) /\ Sends("eot", next)
    \/ sending = "eot" /\ mode = "ymodem" /\ Sends("null", next)
    \/ sending = "eot" /\ mode = "xmodem" /\ sending' = "done" /\ UNCHANGED <<next, again>>
    \/ sending = "null" /\ sending' = "done" /\ UNCHANGED <<next, again>>
Reply ==
    /\ toSend # <<>> /\ ~again /\ sending # "done"
    /\ toSend' = Tail(toSend)
    /\ CASE sending = "C" /\ Head(toSend) = "C" -> Sends("block", next)
         [] sending # "C" /\ Head(toSend) = "ACK" -> Acked
         [] sending # "C" /\ Head(toSend) = "NAK" -> again' = TRUE /\ UNCHANGED <<sending, next>>
         [] OTHER -> UNCHANGED <<sending, next, again>>
    /\ UNCHANGED <<receiver, mode, file, toRecv, faults, headHit, lastTwice>>
\* An answer is lost, and what it answered sent again.
AnswerLost ==
    /\ faults < MaxFaults /\ faults' = faults + 1
    /\ toRecv = <<>> /\ toSend # <<>> /\ ~again /\ sending \in {"block", "eot", "null"}
    /\ modemPc \in {"header", "last", "second eot", "last eot"}
    /\ toSend' = <<>> /\ again' = TRUE
    /\ lastTwice' = (lastTwice \/ (sending = "block" /\ Head(toSend) = "ACK" /\ next % M = M - 1))
    /\ UNCHANGED <<receiver, mode, file, sending, next, toRecv, headHit>>

Receive == mStartTimeout \/ Header \/ SecondEot \/ TakeByte \/ StartBlock \/ DataBlock \/ WrongNumber
ModemNext == Receive \/ Send \/ Reply \/ AnswerLost
ModemSpec == ModemInit /\ [][ModemNext]_modemVars

-----------------------------------------------------------------------------
(* Why the file ends up in place.                                           *)

TypeOK ==
    /\ modemPc \in {"wait", "header", "block", "second eot", "last", "last block", "last eot", "returned"}
    /\ modemMode \in 1 .. 2 /\ mTimeoutCount \in 0 .. RETRY /\ bno \in Nat /\ length \in Nat
    /\ mybuf \in Seq(Int) /\ Len(mybuf) <= BlockBytes + 3
    /\ DOMAIN memory \subseteq Int
    /\ mode \in Modes /\ file \in Seq(Contents) /\ Len(file) > 0
    /\ sending \in {"C", "block", "eot", "null", "done"} /\ next \in 0 .. Len(file) /\ again \in BOOLEAN
    /\ toRecv \in Seq(Int) /\ toSend \in Seq({"C", "ACK", "NAK"})
    /\ faults \in 0 .. MaxFaults /\ headHit \in BOOLEAN /\ lastTwice \in BOOLEAN

\* The provisos of FileInPlace, which nothing restores once they are gone.
Clean == ~headHit /\ ~lastTwice /\ (mode = "ymodem" => Len(file) < M)

\* What is on its way is what the sender sends, but for one byte behind the header perhaps: in a
\* block, what the receiver has taken of it and what is to come.
UnderWay == InBlock \/ toRecv # <<>>
Arriving == {Message} \cup {[Message EXCEPT ![i] = Other] : i \in 2 .. Len(Message)}
Carried(m) ==
    IF InBlock
    THEN /\ m[1] = SOH /\ Len(m) = 1 + Len(mybuf) + Len(toRecv)
         /\ \A i \in 1 .. Len(mybuf) : mybuf[i] = m[1 + i]
         /\ \A i \in 1 .. Len(toRecv) : toRecv[i] = m[1 + Len(mybuf) + i]
    ELSE toRecv = m
\* Nobody speaks while a message is under way, and it is answered when it is over.
InTurn ==
    /\ UnderWay => /\ sending \in {"block", "eot", "null"} /\ ~again /\ toSend = <<>>
                   /\ \E m \in Arriving : Carried(m)
    /\ modemPc = "wait" => (sending = "C" \/ again \/ UnderWay)
    /\ modemPc \in {"second eot", "last eot"} => (sending = "eot" /\ (again \/ toSend \in {<<>>, <<"NAK">>}))
    /\ (sending = "block" /\ ~again) => \/ toSend \in {<<>>, <<"ACK">>, <<"NAK">>}
                                       \/ (next = 0 /\ toSend = <<"ACK", "C">>)

\* The first n blocks are in memory.
Placed(n) == \A i \in 0 .. n * BlockBytes - 1 : i \in DOMAIN memory /\ memory[i] = file[(i \div BlockBytes) + 1]
\* The receiver's range is that of the block it waits for, and every block before it is in memory.
UpTo(n) == bno = n \div M /\ Placed(n - 1)
Acknowledged == ~again /\ toSend # <<>> /\ Head(toSend) = "ACK"
InRange ==
    /\ sending = "C" => next \in {0, 1} /\ UpTo(next)
    /\ sending = "block" => UpTo(IF Acknowledged THEN next + 1 ELSE next)
    /\ sending \in {"eot", "null", "done"} => Placed(Len(file))
    /\ sending = "null" => mode = "ymodem"
    /\ modemPc \in {"second eot", "last", "last block", "last eot", "returned"} =>
          sending \in {"eot", "null", "done"}
ModemInv == TypeOK /\ (Clean => InTurn /\ InRange)

-----------------------------------------------------------------------------

\* When the load returns, the file is in memory, block after block, whatever was refused or sent
\* again (modem.c:93-241): unless a block's header was changed, the last number of a range was
\* acknowledged twice, or the closing block of YMODEM follows a whole range of numbers.  Until then
\* sender and receiver take turns, and every block before the one they are at is in place.
FileInPlace == ModemInv /\ (modemPc = "returned" /\ Clean => Placed(Len(file)))
\* What no property claims, for it does not hold: that the number of bytes returned is that of the file.
LengthRight == modemPc = "returned" => length = Len(file) * BlockBytes
=============================================================================
