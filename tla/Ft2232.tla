------------------------------- MODULE Ft2232 -------------------------------
(***************************************************************************)
(* The buffers between the JTAG bridge and an FT2232 cable                 *)
(* (sw/adv_jtag_bridge/cable_ft2232.c).  Commands wait in send_buf until   *)
(* they are flushed; the answers scheduled with them (to_recv) are then    *)
(* read into recv_buf, where reads find them.                              *)
(*                                                                         *)
(* A command is the call it belongs to, its size and the bytes it answers  *)
(* with; an answer is that call and its place in it.  The device answers   *)
(* every command in order.  USB may fail a write or end it short, and may  *)
(* deliver less than was asked for or an error on a read.  What the bits   *)
(* mean is the subject of JtagChain; that the chain moves twice for a      *)
(* command sent twice is left out.                                         *)
(***************************************************************************)
EXTENDS Integers, Sequences

CONSTANTS FTDI_MAXRECV, FTDX_MAXSEND,
          Chunk,      \* 65536: bytes of one command
          Lengths,    \* bits of a call
          MaxCalls,   \* bound: calls
          MaxFaults   \* bound: failed writes, failed and short reads

FtAssumption ==
    /\ {FTDI_MAXRECV, FTDX_MAXSEND, MaxCalls, MaxFaults} \subseteq Nat
    /\ Chunk \in Nat \ {0} /\ Lengths \subseteq Nat \ {0}

VARIABLES ftdi,  \* send_buf, to_recv, recv_buf; whether recv_write_idx has gone wrong
          dev,   \* answers the device holds
          call,  \* the call in progress, or the one that returned last
          pc,    \* where it is: between operations, in the loop of flush, in that of read
          usb    \* faults left; history: a read was short, a write failed, answers were lost or out of step

ftvars == <<ftdi, dev, call, pc, usb>>

Smaller(a, b) == IF a < b THEN a ELSE b
From(s, i) == SubSeq(s, i, Len(s))

-----------------------------------------------------------------------------
(* The calls, as the operations on the connection they make.               *)

Op(k, size, recv) == [k |-> k, size |-> size, recv |-> recv]
\* cable_ft2232_write_bytes, _write_bits: commands of at most Chunk bytes, of eight bits, of one TMS bit.
RECURSIVE WriteBytes(_, _)
WriteBytes(n, read) ==
    IF n = 0 THEN <<>>
    ELSE LET c == Smaller(n, Chunk)
         IN <<Op("bytes", c + 3, IF read THEN c ELSE 0)>> \o WriteBytes(n - c, read)
WriteBits(n, read) == IF n = 0 THEN <<>> ELSE <<Op("bits", 3, IF read THEN 1 ELSE 0)>>
Read(n) == IF n = 0 THEN <<>> ELSE <<Op("read", 0, n)>>

Bytes(len, tms) == (len - tms) \div 8
Rest(len, tms) == (len - tms) % 8
cable_ft2232_write_stream(len, read, tms) ==
    WriteBytes(Bytes(len, tms), read) \o WriteBits(Rest(len, tms), read) \o WriteBits(tms, read)
cable_ft2232_read_stream(len, tms) ==
    Read(Bytes(len, tms)) \o Read(IF Rest(len, tms) > 0 THEN 1 ELSE 0) \o Read(tms)
cable_ftdi_flush == <<Op("flush", 0, 0)>>

\* Fault: the commands of a write stay in the buffer.
cable_ftdi_write_stream_NoFlush(len, tms) == cable_ft2232_write_stream(len, FALSE, tms)
cable_ftdi_write_stream(len, tms) == cable_ft2232_write_stream(len, FALSE, tms) \o cable_ftdi_flush
cable_ftdi_read_stream(len, tms) == cable_ft2232_write_stream(len, TRUE, tms) \o cable_ft2232_read_stream(len, tms)

\* The answers of call n up to place i.
Answers(n, i) == [j \in 1 .. i |-> <<n, j>>]
Asked(len, tms) == Bytes(len, tms) + (IF Rest(len, tms) > 0 THEN 1 ELSE 0) + tms

StartCall(read, len, tms) ==
    /\ pc = "idle" /\ call.n < MaxCalls /\ ~ftdi.wrong
    /\ pc' = "op"
    /\ call' = [n |-> call.n + 1, read |-> read, asked |-> IF read THEN Asked(len, tms) ELSE 0, made |-> 0,
                todo |-> IF read THEN cable_ftdi_read_stream(len, tms) ELSE cable_ftdi_write_stream(len, tms),
                flushed |-> FALSE, got |-> <<>>]
    /\ UNCHANGED <<ftdi, dev, usb>>

-----------------------------------------------------------------------------
(* usbconn_ftdi_flush, _write, _read.                                      *)

Now == Head(call.todo)
\* The operation is over; one that fails takes the other chunks of its stream with it.
Later(s, failed) ==
    IF failed /\ Head(s).k = "bytes"
    THEN LET rest == {i \in DOMAIN s : s[i].k # "bytes"} IN From(s, CHOOSE i \in rest : \A j \in rest : i <= j)
    ELSE Tail(s)
Over(c, failed) == [c EXCEPT !.todo = Later(@, failed), !.flushed = FALSE]

IsWrite(op) == op.k \in {"bytes", "bits"}
Buffered(s) == IF s = <<>> THEN 0 ELSE s[Len(s)].upto
\* A write flushes first when too many answers or too many bytes would wait, a read always.
Flushes(op) ==
    IsWrite(op) => \/ ftdi.to_recv + op.recv > FTDI_MAXRECV
                   \/ Buffered(ftdi.send) > FTDX_MAXSEND /\ ftdi.to_recv = 0

Return ==
    /\ pc = "op" /\ call.todo = <<>> /\ pc' = "idle"
    /\ UNCHANGED <<ftdi, dev, call, usb>>

AnswersOf(s) == [j \in 1 .. (IF s = <<>> THEN 0 ELSE s[Len(s)].answers) |->
                   LET i == CHOOSE i \in DOMAIN s : s[i].answers >= j /\ (i > 1 => s[i - 1].answers < j)
                   IN <<s[i].n, s[i].first + j - (IF i > 1 THEN s[i - 1].answers ELSE 0) - 1>>]
Flush ==
    /\ pc = "op" /\ call.todo # <<>> /\ Flushes(Now) /\ ~call.flushed
    /\ IF ftdi.send = <<>> THEN pc' = pc /\ UNCHANGED <<ftdi, dev>>
       ELSE /\ ftdi' = [ftdi EXCEPT !.send = <<>>]
            /\ dev' = dev \o AnswersOf(ftdi.send)
            /\ pc' = IF ftdi.to_recv > 0 THEN "receive" ELSE pc
    /\ call' = [call EXCEPT !.flushed = TRUE]
    /\ UNCHANGED usb
\* A write that fails, or stops after k commands, perhaps inside the next: the whole buffer stays to
\* be sent again, what needed the flush is given up.  Nobody counts the answers of commands sent twice,
\* and a command that was cut takes what is sent next for its data: from then on answers are lost.
FlushFails(k, cut) ==
    /\ pc = "op" /\ call.todo # <<>> /\ Flushes(Now) /\ ~call.flushed /\ usb.faults > 0
    /\ dev' = dev \o AnswersOf(SubSeq(ftdi.send, 1, k))
    /\ usb' = [usb EXCEPT !.faults = @ - 1, !.failed = TRUE, !.lost = @ \/ call.read \/ cut \/ dev' # dev]
    /\ call' = Over(call, TRUE)
    /\ UNCHANGED <<ftdi, pc>>

\* The loop of flush: until something comes, n bytes of those asked for.
\* Fault: what was received is not taken off the count.
Received_Kept(f, s) == [f EXCEPT !.recv = @ \o s]
Received(f, s) == [f EXCEPT !.recv = @ \o s, !.to_recv = @ - Len(s)]
Receive(n) ==
    /\ pc = "receive" /\ dev # <<>> /\ n \in 1 .. Smaller(ftdi.to_recv, Len(dev))
    /\ LET short == n < Smaller(ftdi.to_recv, Len(dev))
       IN /\ short => usb.faults > 0
          /\ usb' = IF short THEN [usb EXCEPT !.faults = @ - 1, !.short = TRUE] ELSE usb
    /\ ftdi' = Received(ftdi, SubSeq(dev, 1, n))
    /\ dev' = From(dev, n + 1)
    /\ pc' = "op"
    /\ UNCHANGED call
\* The error is counted as a byte: the write index moves back, before the buffer if it was at its start.
ReceiveFails ==
    /\ pc = "receive" /\ usb.faults > 0
    /\ usb' = [usb EXCEPT !.faults = @ - 1, !.lost = TRUE]
    /\ ftdi' = [ftdi EXCEPT !.to_recv = @ + 1, !.wrong = TRUE]
    /\ pc' = "idle"
    /\ UNCHANGED <<dev, call>>

Buffer ==
    /\ pc = "op" /\ call.todo # <<>> /\ IsWrite(Now) /\ (Flushes(Now) => call.flushed)
    /\ LET last == IF ftdi.send = <<>> THEN [upto |-> 0, answers |-> 0] ELSE ftdi.send[Len(ftdi.send)]
       IN ftdi' = [ftdi EXCEPT !.to_recv = @ + Now.recv,
                               !.send = Append(@, [n |-> call.n, first |-> call.made + 1, upto |-> last.upto + Now.size,
                                                   answers |-> last.answers + Now.recv])]
    /\ call' = [Over(call, FALSE) EXCEPT !.made = @ + Now.recv]
    /\ UNCHANGED <<dev, pc, usb>>

FlushCall ==
    /\ pc = "op" /\ call.todo # <<>> /\ Now.k = "flush" /\ call.flushed
    /\ call' = Over(call, FALSE)
    /\ UNCHANGED <<ftdi, dev, pc, usb>>

\* From the receive buffer first, then from the device.
\* Fault: the read index stays where it is.
Unread_Again(s, n) == s
Unread(s, n) == From(s, n + 1)
ReadBuffered ==
    /\ pc = "op" /\ call.todo # <<>> /\ Now.k = "read" /\ call.flushed
    /\ LET n == Smaller(Len(ftdi.recv), Now.recv)
           c == [call EXCEPT !.got = @ \o SubSeq(ftdi.recv, 1, n)]
       IN /\ ftdi' = [ftdi EXCEPT !.recv = Unread(@, n)]
          /\ IF n = Now.recv THEN call' = Over(c, FALSE) /\ pc' = pc
             ELSE call' = [c EXCEPT !.todo[1].recv = @ - n] /\ pc' = "direct"
    /\ UNCHANGED <<dev, usb>>
\* One read that brings something ends the loop; the bytes it leaves out are whatever was there.
ReadDirect(n) ==
    /\ pc = "direct" /\ dev # <<>> /\ n \in 1 .. Smaller(Now.recv, Len(dev))
    /\ n < Smaller(Now.recv, Len(dev)) => usb.faults > 0
    /\ usb' = IF n < Now.recv THEN [usb EXCEPT !.faults = IF n < Len(dev) THEN @ - 1 ELSE @, !.lost = TRUE] ELSE usb
    /\ call' = [Over(call, FALSE) EXCEPT !.got = @ \o SubSeq(dev, 1, n)]
    /\ dev' = From(dev, n + 1)
    /\ pc' = "op"
    /\ UNCHANGED ftdi
ReadDirectFails ==
    /\ pc = "direct" /\ usb.faults > 0
    /\ usb' = [usb EXCEPT !.faults = @ - 1, !.lost = TRUE]
    /\ call' = Over(call, TRUE) /\ pc' = "op"
    /\ UNCHANGED <<ftdi, dev>>

-----------------------------------------------------------------------------
\* cable_ftdi_init: buffers allocated, the device purged after the set-up commands.
Init ==
    /\ ftdi = [send |-> <<>>, to_recv |-> 0, recv |-> <<>>, wrong |-> FALSE]
    /\ dev = <<>> /\ pc = "idle"
    /\ call = [n |-> 0, read |-> FALSE, asked |-> 0, made |-> 0, todo |-> <<>>, flushed |-> FALSE, got |-> <<>>]
    /\ usb = [faults |-> MaxFaults, short |-> FALSE, failed |-> FALSE, lost |-> FALSE]

NewCall == \E read \in BOOLEAN, len \in Lengths, tms \in 0 .. 1 : StartCall(read, len, tms)
Upto(n) == 1 .. n
FlushSome == \E k \in DOMAIN ftdi.send, cut \in BOOLEAN : FlushFails(k - 1, cut)
ReceiveSome == \E n \in Upto(ftdi.to_recv) : Receive(n)
ReadSome == \E n \in Upto(Len(dev)) : ReadDirect(n)
Next == \/ NewCall \/ Return \/ Flush \/ FlushSome \/ ReceiveSome \/ ReceiveFails \/ Buffer \/ FlushCall
        \/ ReadBuffered \/ ReadSome \/ ReadDirectFails
FtSpec == Init /\ [][Next]_ftvars

-----------------------------------------------------------------------------
(* Properties.                                                             *)

\* A call that reads is given the answers to its own commands, all of them and in order, however
\* they were split between buffer and device; also after writes that failed and were sent later.
OwnAnswers == pc = "idle" /\ call.read /\ ~usb.lost => call.got = Answers(call.n, call.asked)

\* A call that has returned has left no command behind, but for a failed write, and no answer.
NothingHeldBack ==
    pc = "idle" /\ ~usb.lost => /\ ftdi.send # <<>> => usb.failed
                                /\ ftdi.recv = <<>> /\ dev = <<>>

\* The loops without end wait for answers that come, unless an earlier read was short: what it
\* left stays in to_recv, and a write then waits for it for ever.
WaitsForAnswers == pc \in {"receive", "direct"} /\ ~usb.lost /\ ~usb.short => dev # <<>>
=============================================================================
