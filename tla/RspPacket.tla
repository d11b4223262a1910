------------------------------ MODULE RspPacket ------------------------------
(***************************************************************************)
(* The packets of the GDB server (sw/adv_jtag_bridge/rsp-server.c): how    *)
(* get_packet finds them in the stream of characters, how put_packet sends *)
(* replies until one is acknowledged, and the encodings of the requests    *)
(* that carry data: memory in hexadecimal and in escaped binary, one       *)
(* register, all registers, and monitor commands.                          *)
(*                                                                         *)
(* A character is its code.  A word of a request ("readspr ") is one       *)
(* character, a number in a request one digit.  The client is GDB: it      *)
(* sends a packet again when it is refused or when nothing comes back.     *)
(* Characters on their way to the server may be changed.  Threads, stops   *)
(* and the copy of NPC are the subject of RspServer; the target is stalled *)
(* here.                                                                   *)
(***************************************************************************)
EXTENDS Integers, Sequences

CONSTANTS MAX_GPRS,     \* general purpose registers
          RegDigits,    \* hexadecimal digits of a register
          Bytes,        \* bytes that occur in memory and registers
          Size,         \* bytes of memory
          Kinds,        \* requests the client makes
          Noise,        \* what a changed character turns into
          MaxNoise,     \* bound: characters changed
          MaxRequests   \* bound: requests

VARIABLES reader,   \* get_packet: where it is, the buffer, the sums
          sending,  \* the packet put_packet waits for an acknowledgement of
          target,   \* memory and registers
          toServer, toClient,
          gdb       \* the client: its request, and what it believes of the target

packetvars == <<reader, sending, target, toServer, toClient, gdb>>

NUM_REGS == MAX_GPRS + 3
GDB_BUF_MAX == NUM_REGS * RegDigits + 1
Regs == 0 .. NUM_REGS - 1
PPC_REGNUM == MAX_GPRS
NPC_REGNUM == MAX_GPRS + 1
SR_REGNUM == MAX_GPRS + 2

PacketAssumption ==
    /\ {MAX_GPRS, RegDigits, Size, MaxNoise, MaxRequests} \subseteq Nat /\ RegDigits = 2 /\ Size < 16
    /\ Bytes \subseteq 0 .. 255 /\ Noise \subseteq 0 .. 255
    /\ Kinds \subseteq {"X", "M", "m", "P", "p", "G", "g", "readspr", "writespr", "break"}

-----------------------------------------------------------------------------
(* Characters.                                                             *)

Dollar == 36
Hash == 35
Star == 42
Plus == 43
Minus == 45
Comma == 44
Colon == 58
Equals == 61
Brace == 125
Break == 3
Read == 114
Write == 119
Blank == 32
Code == [X |-> 88, M |-> 77, m |-> 109, P |-> 80, p |-> 112, G |-> 71, g |-> 103, qRcmd |-> 113]
OK == <<79, 75>>
E01 == <<69, 48, 49>>

\* The exclusive or with 0x20.
Flip(c) == IF (c \div 32) % 2 = 1 THEN c - 32 ELSE c + 32

hexchars(n) == IF n < 10 THEN 48 + n ELSE 87 + n
hex(c) == CASE c \in 97 .. 102 -> c - 87 [] c \in 48 .. 57 -> c - 48 [] c \in 65 .. 70 -> c - 55 [] OTHER -> -1
HexOf(b) == <<hexchars(b \div 16), hexchars(b % 16)>>
ByteAt(s, i) == 16 * (hex(s[2 * i - 1]) % 16) + (hex(s[2 * i]) % 16)

Concat[s \in Seq(Seq(0 .. 255))] == IF s = <<>> THEN <<>> ELSE Head(s) \o Concat[Tail(s)]
Total[s \in Seq(0 .. 255)] == IF s = <<>> THEN 0 ELSE (Head(s) + Total[Tail(s)]) % 256
ascii2hex(s) == Concat[[i \in DOMAIN s |-> HexOf(s[i])]]
hex2ascii(s) == [i \in 1 .. Len(s) \div 2 |-> ByteAt(s, i)]
reg2hex(v) == HexOf(v)
hex2reg(s, at) == ByteAt(SubSeq(s, at + 1, at + RegDigits), 1)

\* Fault: the escape character itself is sent as it is.
Special_NoBrace == {Dollar, Hash, Star}
Special == {Dollar, Hash, Star, Brace}
Escaped(c) == IF c \in Special THEN <<Brace, Flip(c)>> ELSE <<c>>
Escape(s) == Concat[[i \in DOMAIN s |-> Escaped(s[i])]]
rsp_unescape[s \in Seq(0 .. 255)] ==
    IF s = <<>> THEN <<>>
    ELSE IF Head(s) = Brace /\ Len(s) > 1 THEN <<Flip(s[2])>> \o rsp_unescape[SubSeq(s, 3, Len(s))]
    ELSE <<Head(s)>> \o rsp_unescape[Tail(s)]

Frame(body) == <<Dollar>> \o body \o <<Hash>> \o HexOf(Total[body])

-----------------------------------------------------------------------------
(* The handlers: what a request, received whole, does and answers.         *)

NoChange(text) == [target |-> target, text |-> text]
Changed(field, f) == [target |-> [target EXCEPT ![field] = f], text |-> OK]
\* The number at place i of a request, and what follows the colon.
Num(s, i) == hex(s[i])
Data(s) == SubSeq(s, 6, Len(s))
Stored(addr, bytes) == [a \in DOMAIN target.mem |-> IF a \in addr .. addr + Len(bytes) - 1
                                                    THEN bytes[a - addr + 1] ELSE target.mem[a]]

\* sscanf takes the two numbers; a length that does not fit the data is cut short.
HasNumbers(s) == Len(s) >= 5 /\ s[3] = Comma /\ s[5] = Colon
\* Fault: the data are written as they came.
rsp_write_mem_bin_Raw(s) ==
    IF ~HasNumbers(s) THEN NoChange(E01)
    ELSE Changed("mem", Stored(Num(s, 2), SubSeq(Data(s), 1, Num(s, 4))))
rsp_write_mem_bin(s) ==
    LET bytes == rsp_unescape[Data(s)]
        len == IF Len(bytes) < Num(s, 4) THEN Len(bytes) ELSE Num(s, 4)
    IN IF ~HasNumbers(s) THEN NoChange(E01)
       ELSE Changed("mem", Stored(Num(s, 2), SubSeq(bytes, 1, len)))
rsp_write_mem(s) ==
    IF ~HasNumbers(s) \/ 2 * Num(s, 4) # Len(Data(s)) THEN NoChange(E01)
    ELSE Changed("mem", Stored(Num(s, 2), hex2ascii(Data(s))))
rsp_read_mem(s) ==
    LET len == IF 2 * Num(s, 4) >= GDB_BUF_MAX THEN (GDB_BUF_MAX - 1) \div 2 ELSE Num(s, 4)
    IN NoChange(ascii2hex([i \in 1 .. len |-> target.mem[Num(s, 2) + i - 1]]))

\* The debug unit has the other three registers in the order NPC, SR, PPC.
Spr(r) == CASE r = NPC_REGNUM -> MAX_GPRS [] r = SR_REGNUM -> MAX_GPRS + 1 [] r = PPC_REGNUM -> MAX_GPRS + 2
            [] OTHER -> r
Known(r) == r \in Regs
rsp_read_reg(s) == IF Known(Num(s, 2)) THEN NoChange(reg2hex(target.reg[Spr(Num(s, 2))])) ELSE NoChange(E01)
rsp_write_reg(s) ==
    IF Known(Num(s, 2)) THEN Changed("reg", [target.reg EXCEPT ![Spr(Num(s, 2))] = hex2reg(s, 3)]) ELSE NoChange(E01)

rsp_read_all_regs == NoChange(Concat[[r \in 1 .. NUM_REGS |-> reg2hex(target.reg[Spr(r - 1)])]])
\* The digits are taken from the first character of the packet on.
rsp_write_all_regs(s) ==
    Changed("reg", [x \in DOMAIN target.reg |->
        LET r == CHOOSE r \in Regs : Spr(r) = x
        IN hex2reg(s \o <<0, 0>>, r * RegDigits)])

\* The command is hexadecimal; so is the reply, padded to the width of a register.
Padded(v) == IF v < 16 THEN <<Blank, hexchars(v)>> ELSE HexOf(v)
rsp_command(s) ==
    LET cmd == hex2ascii(Tail(s))
        r == Spr(hex(cmd[2]))
    IN IF cmd[1] = Read THEN NoChange(ascii2hex(Padded(target.reg[r])))
       ELSE Changed("reg", [target.reg EXCEPT ![r] = hex2reg(cmd, 2)])

\* A packet that names no request is ignored without an answer.
Ignored == [target |-> target, text |-> <<>>]
Handler(s) ==
    IF s = <<>> THEN Ignored
    ELSE CASE s[1] = Code.X -> rsp_write_mem_bin(s)
           [] s[1] = Code.M -> rsp_write_mem(s)
           [] s[1] = Code.m -> rsp_read_mem(s)
           [] s[1] = Code.P -> rsp_write_reg(s)
           [] s[1] = Code.p -> rsp_read_reg(s)
           [] s[1] = Code.G -> rsp_write_all_regs(s)
           [] s[1] = Code.g -> rsp_read_all_regs
           [] s[1] = Code.qRcmd -> rsp_command(s)
           [] OTHER -> Ignored

-----------------------------------------------------------------------------
(* The server: one character at a time.                                    *)

Hunt == [at |-> "hunt", buf |-> <<>>, sum |-> 0, xmit |-> 0]
\* A start character begins the packet anew; a buffer filled ends it without an answer.
InBody(r, c) ==
    CASE c = Dollar -> [Hunt EXCEPT !.at = "body"]
      [] c = Hash -> [r EXCEPT !.at = "sum1"]
      [] c \notin {Dollar, Hash} -> IF Len(r.buf) + 1 = GDB_BUF_MAX - 1 THEN Hunt
                                    ELSE [r EXCEPT !.buf = Append(@, c), !.sum = (@ + c) % 256]

put_packet(text) == sending' = text /\ toClient' = toClient \o Frame(Escape(text))

get_packet ==
    /\ sending = <<>> /\ toServer # <<>> /\ toServer' = Tail(toServer)
    /\ UNCHANGED gdb
    /\ LET c == Head(toServer) IN
         \/ /\ reader.at = "hunt"
            /\ reader' = IF c = Dollar THEN [Hunt EXCEPT !.at = "body"] ELSE Hunt
            /\ UNCHANGED <<sending, target, toClient>>
         \/ /\ reader.at = "body"
            /\ reader' = InBody(reader, c)
            /\ UNCHANGED <<sending, target, toClient>>
         \/ /\ reader.at = "sum1"
            /\ reader' = [reader EXCEPT !.at = "sum2", !.xmit = 16 * hex(c)]
            /\ UNCHANGED <<sending, target, toClient>>
         \/ /\ reader.at = "sum2"
            /\ reader' = Hunt
            /\ IF (reader.xmit + hex(c)) % 256 # reader.sum
               THEN toClient' = Append(toClient, Minus) /\ UNCHANGED <<sending, target>>
               ELSE LET h == Handler(reader.buf) IN
                      /\ target' = h.target
                      /\ sending' = h.text
                      /\ toClient' = Append(toClient, Plus)
                                     \o (IF h.text = <<>> THEN <<>> ELSE Frame(Escape(h.text)))

\* Anything but an acknowledgement has the packet sent again.
AwaitAck ==
    /\ sending # <<>> /\ toServer # <<>> /\ toServer' = Tail(toServer)
    /\ IF Head(toServer) = Plus THEN sending' = <<>> /\ UNCHANGED toClient ELSE put_packet(sending)
    /\ UNCHANGED <<reader, target, gdb>>

-----------------------------------------------------------------------------
(* The client.                                                             *)

Digit(n) == hexchars(n)
Numbers(addr, len) == <<Digit(addr), Comma, Digit(len), Colon>>
Body(r) ==
    CASE r.k = "X" -> <<Code.X>> \o Numbers(r.addr, Len(r.data)) \o Escape(r.data)
      [] r.k = "M" -> <<Code.M>> \o Numbers(r.addr, Len(r.data)) \o ascii2hex(r.data)
      [] r.k = "m" -> <<Code.m>> \o Numbers(r.addr, r.len)
      [] r.k = "P" -> <<Code.P, Digit(r.addr), Equals>> \o HexOf(r.data[1])
      [] r.k = "p" -> <<Code.p, Digit(r.addr)>>
      [] r.k = "G" -> <<Code.G>> \o ascii2hex(r.data)
      [] r.k = "g" -> <<Code.g>>
      [] r.k = "readspr" -> <<Code.qRcmd>> \o ascii2hex(<<Read, Digit(r.addr)>>)
      [] r.k = "writespr" -> <<Code.qRcmd>> \o ascii2hex(<<Write, Digit(r.addr)>> \o HexOf(r.data[1]))
Request(k, addr, len, data) == [k |-> k, addr |-> addr, len |-> len, data |-> data]
NoRequest == Request("none", 0, 0, <<>>)
Strings(n) == [1 .. n -> Bytes]
Requests ==
    {Request(k, a, 0, d) : k \in Kinds \cap {"X", "M"}, a \in {1, Size - 2}, d \in Strings(1) \cup Strings(2)}
    \cup {Request("m", a, n, <<>>) : a \in {IF "m" \in Kinds THEN 0 ELSE Size}, n \in {1, Size}}
    \cup {Request(k, r, 0, d) : k \in Kinds \cap {"P", "writespr"}, r \in Regs, d \in Strings(1)}
    \cup {Request(k, r, 0, <<>>) : k \in Kinds \cap {"p", "readspr"}, r \in Regs}
    \cup {Request(k, 0, 0, [r \in 1 .. NUM_REGS |-> b]) : k \in Kinds \cap {"G", "g"}, b \in Bytes}

\* What the target should be after a request.
Image(t, r) ==
    CASE r.k \in {"X", "M"} ->
           [t EXCEPT !.mem = [a \in DOMAIN @ |-> IF a \in r.addr .. r.addr + Len(r.data) - 1
                                                 THEN r.data[a - r.addr + 1] ELSE @[a]]]
      [] r.k \in {"P", "writespr"} -> [t EXCEPT !.reg[Spr(r.addr)] = r.data[1]]
      [] r.k = "G" -> [t EXCEPT !.reg = [x \in DOMAIN @ |-> r.data[1 + CHOOSE i \in Regs : Spr(i) = x]]]
      [] OTHER -> t
\* The answer it should have.
Answer(t, r) ==
    CASE r.k \in {"X", "M", "P", "writespr", "G"} -> OK
      [] r.k = "m" -> LET len == IF 2 * r.len < GDB_BUF_MAX THEN r.len ELSE (GDB_BUF_MAX - 1) \div 2
                      IN ascii2hex([i \in 1 .. len |-> t.mem[r.addr + i - 1]])
      [] r.k = "p" -> HexOf(t.reg[Spr(r.addr)])
      [] r.k = "g" -> ascii2hex([i \in 1 .. NUM_REGS |-> t.reg[Spr(i - 1)]])
      [] r.k = "readspr" -> ascii2hex(Padded(t.reg[Spr(r.addr)]))

\* A packet on its way, one character of it changed perhaps.
Way(f) == IF gdb.noise = MaxNoise THEN {f} ELSE {f} \cup {[f EXCEPT ![i] = c] : i \in DOMAIN f, c \in Noise}
SendTo(r) ==
    \E f \in Way(Frame(Body(r))) :
        /\ toServer' = toServer \o f
        /\ gdb' = [gdb EXCEPT !.state = "sent", !.req = r, !.noise = @ + (IF f = Frame(Body(r)) THEN 0 ELSE 1),
                              !.image = IF gdb.state = "idle" THEN Image(@, r) ELSE @,
                              !.made = @ + (IF gdb.state = "idle" THEN 1 ELSE 0)]
        /\ UNCHANGED <<reader, sending, target, toClient>>
Ask == gdb.state = "idle" /\ gdb.made < MaxRequests /\ \E r \in Requests : SendTo(r)
AskBreak ==
    /\ "break" \in Kinds /\ gdb.state = "idle" /\ gdb.made < MaxRequests /\ toServer = <<>>
    /\ toServer' = <<Break>>
    /\ UNCHANGED <<reader, sending, target, toClient, gdb>>
\* Refused, or nothing comes back.
AskAgain ==
    /\ gdb.state = "sent"
    /\ toClient = <<Minus>> \/ (toClient = <<>> /\ toServer = <<>>)
    /\ \E f \in Way(Frame(Body(gdb.req))) :
         /\ toServer' = toServer \o f
         /\ gdb' = [gdb EXCEPT !.noise = @ + (IF f = Frame(Body(gdb.req)) THEN 0 ELSE 1)]
    /\ toClient' = <<>>
    /\ UNCHANGED <<reader, sending, target>>
GetAnswer ==
    /\ gdb.state = "sent" /\ Len(toClient) > 4 /\ Head(toClient) = Plus
    /\ toClient' = <<>>
    /\ LET body == SubSeq(toClient, 3, Len(toClient) - 3) IN
         \/ /\ toServer' = <<Plus>>
            /\ gdb' = [gdb EXCEPT !.state = "idle", !.got = rsp_unescape[body]]
         \/ /\ gdb.noise < MaxNoise
            /\ toServer' = <<Minus>>
            /\ gdb' = [gdb EXCEPT !.state = "refused", !.noise = @ + 1]
    /\ UNCHANGED <<reader, sending, target>>
GetAgain ==
    /\ gdb.state = "refused" /\ toClient # <<>>
    /\ toClient' = <<>> /\ toServer' = <<Plus>>
    /\ gdb' = [gdb EXCEPT !.state = "idle", !.got = rsp_unescape[SubSeq(toClient, 2, Len(toClient) - 3)]]
    /\ UNCHANGED <<reader, sending, target>>

Fresh == [mem |-> [a \in 0 .. Size - 1 |-> (7 * a + 35) % 256],
          reg |-> [x \in Regs |-> 11 * x]]
Init ==
    /\ reader = Hunt /\ sending = <<>> /\ target = Fresh
    /\ toServer = <<>> /\ toClient = <<>>
    /\ gdb = [state |-> "idle", req |-> NoRequest, image |-> Fresh, made |-> 0, noise |-> 0, got |-> <<>>]

Next == get_packet \/ AwaitAck \/ Ask \/ AskBreak \/ AskAgain \/ GetAnswer \/ GetAgain
PacketSpec == Init /\ [][Next]_packetvars

-----------------------------------------------------------------------------
(* Properties.                                                             *)

\* When a request is answered its bytes are in the target as the client meant them, whatever
\* characters they are and whatever was changed, refused or sent twice; nothing else changed.
RequestsTakeEffect == gdb.state = "idle" /\ gdb.made > 0 => target = gdb.image

\* The answer the client takes is the one its request calls for.
AnswersExact == gdb.state = "idle" /\ gdb.made > 0 => gdb.got = Answer(gdb.image, gdb.req)

\* What the comment at GDB_BUF_MAX and the answer to qSupported promise: a packet of GDB_BUF_MAX
\* characters, 'G' and all the registers, is taken.
LargestPacketTaken == gdb.state = "sent" /\ toServer = <<>> => reader.at # "hunt" \/ toClient # <<>>
=============================================================================
