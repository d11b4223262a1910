----------------------------- MODULE RspProofs -----------------------------
(***************************************************************************)
(* The GDB server and its polling thread (RspServer) agree with the        *)
(* processor, for every program, every set of requests and any number of   *)
(* clients: RspInv holds at the start and every step of the server, of the *)
(* thread, of the processor and of the client preserves it.                *)
(***************************************************************************)
EXTENDS RspServer, FiniteSetTheorems, TLAPS

Replies == [m : {"S", "OK", "", "E01", "text", "O"}, sig : {None, "TRAP", "BUS", "ILL"}]
Ops == {"stall", "go", "run", "wake", "clearDsr", "close", "noSingle", "single", "report",
        "setNpc", "writeMem", "insert", "remove", "put", "ack", "reported",
        "serverClose", "return"}
Args == Addrs \cup {None, "continued", "stepped"} \cup Replies
Micro == [op : Ops, arg : Args]

\* The invariant without what follows from the rest, and with what TLC cannot evaluate: the
\* type of todo, whose arguments are of several kinds.
RspCore ==
    /\ RspTypeOK /\ Programs /\ Releases /\ Reports /\ Copies /\ StepMode /\ Requested /\ Table
    /\ todo \in Seq(Micro)

-----------------------------------------------------------------------------
(* Programs of the server                                                   *)

LEMMA AddrFacts ==
    /\ NoAddr \in Nat \ {0} /\ Addrs = 0 .. NoAddr - 1 /\ NoAddr \notin Addrs /\ 0 \in Addrs
    /\ \A a \in Addrs : After(a) \in Addrs
<1>1. Cardinality(Addrs) \in Nat
  BY RspAssumption, FS_CardinalityType
<1>2. Addrs # {} /\ Addrs = 0 .. NoAddr - 1 /\ NoAddr \in Nat
  BY <1>1, RspAssumption DEF NoAddr
<1>3. NoAddr # 0 /\ NoAddr \notin Addrs /\ 0 \in Addrs
  BY <1>2
<1>4. \A a \in Addrs : (a + 1) % NoAddr \in Addrs
  BY <1>2, <1>3
<1> QED BY <1>2, <1>3, <1>4 DEF After, NoAddr

LEMMA MicroFacts == \A m \in Micro : m.op \in Ops /\ m.arg \in Args
BY DEF Micro

\* A program of one step.
LEMMA OneStep ==
    ASSUME NEW op \in Ops, NEW arg \in Args
    PROVE  /\ StepTo(op, arg) \in Seq(Micro) /\ Len(StepTo(op, arg)) = 1
           /\ StepTo(op, arg)[1] = [op |-> op, arg |-> arg]
           /\ StepTo(op, arg) # <<>> /\ Tail(StepTo(op, arg)) = <<>>
BY DEF StepTo, Micro

LEMMA StepIsStepTo == \A op : Step(op) = StepTo(op, None) 
BY DEF Step, StepTo

LEMMA ArgFacts == /\ None \in Args /\ "continued" \in Args /\ "stepped" \in Args
                  /\ Addrs \subseteq Args /\ Replies \subseteq Args
BY DEF Args

LEMMA SingleFormed ==
    ASSUME NEW op \in Ops \ {"run", "single", "noSingle"}, NEW arg \in Args,
           op \in FirstOnly => arg \in Addrs
    PROVE  Formed(StepTo(op, arg))
<1> DEFINE s == StepTo(op, arg)
<1>1. Len(s) = 1 /\ DOMAIN s = 1 .. 1 /\ s[1].op = op /\ s[1].arg = arg
  <2>1. s \in Seq(Micro) /\ Len(s) = 1 /\ s[1] = [op |-> op, arg |-> arg]
    BY OneStep
  <2> HIDE DEF s
  <2> QED BY <2>1
<1> HIDE DEF s
<1>2. \A i \in DOMAIN s : i = 1
  BY <1>1
<1>3. ASSUME NEW i \in DOMAIN s, Continues(s[i])
      PROVE  /\ i = Len(s) /\ (i > 3 => s[i - 3].op = "noSingle")
             /\ \A j \in 1 .. i - 1 : s[j].op \in {"setNpc", "noSingle", "run", "go"}
  BY <1>1, <1>2
<1>4. ASSUME NEW i \in DOMAIN s
      PROVE  /\ s[i].op = "go" => i = 1 \/ s[i - 1].op = "run"
             /\ s[i].op = "run" => i < Len(s) /\ s[i + 1].op = "go"
             /\ s[i].op \in {"single", "noSingle"} => i < Len(s) /\ s[i + 1].op = "run"
             /\ s[i].op = "noSingle" => Len(s) = i + 3 /\ Continues(s[i + 3])
             /\ s[i].op \in FirstOnly => i = 1 /\ s[i].arg \in Addrs
             /\ s[i].op = "report" => i = 1
  <2>1. i = 1 /\ s[i].op = op /\ s[i].arg = arg
    BY <1>1, <1>2
  <2> QED BY <2>1
<1>5. Formed(s)
  BY <1>3, <1>4 DEF Formed
<1> QED BY <1>5 DEF s

\* What remains of a program.
LEMMA TailFormed ==
    ASSUME NEW s \in Seq(Micro), Formed(s), s # <<>>
    PROVE  /\ Tail(s) \in Seq(Micro) /\ Len(Tail(s)) = Len(s) - 1 /\ Formed(Tail(s))
           /\ DOMAIN Tail(s) = 1 .. Len(s) - 1 /\ DOMAIN s = 1 .. Len(s) /\ Len(s) \in Nat \ {0}
           /\ \A i \in DOMAIN Tail(s) : Tail(s)[i] = s[i + 1] /\ i + 1 \in DOMAIN s
           /\ Head(s) = s[1] /\ s[1] \in Micro
           /\ Tail(s) # <<>> => /\ Head(Tail(s)) = s[2] /\ 2 \in DOMAIN s /\ s[2] \in Micro
                                /\ s[2].op \notin FirstOnly \cup {"report"}
                                /\ s[2].op = "go" => s[1].op = "run"
<1> DEFINE t == Tail(s)
<1>1. /\ t \in Seq(Micro) /\ Len(t) = Len(s) - 1 /\ Len(s) \in Nat \ {0}
      /\ DOMAIN t = 1 .. Len(s) - 1 /\ DOMAIN s = 1 .. Len(s)
      /\ \A i \in DOMAIN t : t[i] = s[i + 1] /\ i + 1 \in DOMAIN s /\ i \in Nat /\ i >= 1
      /\ Head(s) = s[1] /\ s[1] \in Micro
  OBVIOUS
<1> HIDE DEF t
<1>2. ASSUME NEW i \in DOMAIN t
      PROVE  /\ t[i].op = "go" => i = 1 \/ t[i - 1].op = "run"
             /\ t[i].op = "run" => i < Len(t) /\ t[i + 1].op = "go"
             /\ t[i].op \in {"single", "noSingle"} => i < Len(t) /\ t[i + 1].op = "run"
             /\ t[i].op = "noSingle" => Len(t) = i + 3 /\ Continues(t[i + 3])
             /\ t[i].op \in FirstOnly => i = 1 /\ t[i].arg \in Addrs
             /\ t[i].op = "report" => i = 1
  <2>1. i + 1 \in DOMAIN s /\ t[i] = s[i + 1] /\ i + 1 # 1 /\ (i + 1) - 1 = i
        /\ (i + 1 < Len(s) => i + 1 \in DOMAIN t /\ i < Len(t))
    BY <1>1
  <2>2. /\ s[i + 1].op = "go" => s[i].op = "run"
        /\ s[i + 1].op = "run" => i + 1 < Len(s) /\ s[i + 1 + 1].op = "go"
        /\ s[i + 1].op \in {"single", "noSingle"} => i + 1 < Len(s) /\ s[i + 1 + 1].op = "run"
        /\ s[i + 1].op = "noSingle" => Len(s) = i + 1 + 3 /\ Continues(s[i + 1 + 3])
        /\ s[i + 1].op \notin FirstOnly /\ s[i + 1].op # "report"
    BY <2>1 DEF Formed
  <2>3. i # 1 => i - 1 \in DOMAIN t /\ t[i - 1] = s[i]
    <3> SUFFICES ASSUME i # 1 PROVE i - 1 \in DOMAIN t /\ t[i - 1] = s[i]
      OBVIOUS
    <3>1. i - 1 \in DOMAIN t /\ (i - 1) + 1 = i
      BY <1>1
    <3> QED BY <1>1, <3>1
  <2>4. i + 1 < Len(s) => t[i + 1] = s[i + 1 + 1]
    BY <1>1, <2>1
  <2>5. s[i + 1].op = "noSingle" => Len(t) = i + 3 /\ t[i + 3] = s[i + 1 + 3]
    <3> SUFFICES ASSUME s[i + 1].op = "noSingle"
                 PROVE  Len(t) = i + 3 /\ t[i + 3] = s[i + 1 + 3]
      OBVIOUS
    <3>1. Len(s) = i + 1 + 3
      BY <2>2
    <3>2. Len(t) = i + 3 /\ i + 3 \in DOMAIN t /\ (i + 3) + 1 = i + 1 + 3
      BY <1>1, <3>1
    <3> QED BY <1>1, <3>2
  <2> QED BY <2>1, <2>2, <2>3, <2>4, <2>5
<1>3. ASSUME NEW i \in DOMAIN t, Continues(t[i])
      PROVE  /\ i = Len(t) /\ (i > 3 => t[i - 3].op = "noSingle")
             /\ \A j \in 1 .. i - 1 : t[j].op \in {"setNpc", "noSingle", "run", "go"}
  <2>1. /\ i + 1 = Len(s) /\ (i + 1 > 3 => s[i + 1 - 3].op = "noSingle")
        /\ \A j \in 1 .. i + 1 - 1 : s[j].op \in {"setNpc", "noSingle", "run", "go"}
    BY <1>1, <1>3 DEF Formed
  <2>2. i = Len(t)
    BY <1>1, <2>1
  <2>3. i > 3 => t[i - 3].op = "noSingle"
    <3> SUFFICES ASSUME i > 3 PROVE t[i - 3].op = "noSingle"
      OBVIOUS
    <3>1. i - 3 \in DOMAIN t /\ i + 1 - 3 = (i - 3) + 1 /\ i + 1 > 3
      BY <1>1
    <3> QED BY <1>1, <2>1, <3>1
  <2>4. \A j \in 1 .. i - 1 : t[j].op \in {"setNpc", "noSingle", "run", "go"}
    <3> TAKE j \in 1 .. i - 1
    <3>1. j \in DOMAIN t /\ j + 1 \in 1 .. i + 1 - 1
      BY <1>1
    <3> QED BY <1>1, <2>1, <3>1
  <2> QED BY <2>2, <2>3, <2>4
<1>4. Formed(t)
  BY <1>2, <1>3 DEF Formed
<1>5. ASSUME t # <<>>
      PROVE  /\ Head(t) = s[2] /\ 2 \in DOMAIN s /\ s[2] \in Micro
             /\ s[2].op \notin FirstOnly \cup {"report"}
             /\ s[2].op = "go" => s[1].op = "run"
  <2>1. Head(t) = t[1] /\ Len(t) >= 1
    BY <1>1, <1>5
  <2>2. 1 \in DOMAIN t /\ t[1] = s[2] /\ 2 \in DOMAIN s
    BY <1>1, <2>1
  <2> QED BY <1>1, <2>1, <2>2 DEF Formed
<1> QED BY <1>1, <1>4, <1>5 DEF t

\* One program in front of another.
LEMMA Join ==
    ASSUME NEW p \in Seq(Micro), NEW t \in Seq(Micro), Formed(p), Formed(t),
           \A i \in DOMAIN p : ~Continues(p[i]), \A i \in DOMAIN t : ~Continues(t[i]),
           t # <<>> => t[1].op \notin FirstOnly \cup {"go", "report"}
    PROVE  /\ p \o t \in Seq(Micro) /\ Formed(p \o t)
           /\ \A i \in DOMAIN (p \o t) : ~Continues((p \o t)[i])
           /\ p # <<>> => p \o t # <<>> /\ (p \o t)[1] = p[1]
           /\ Len(p \o t) = Len(p) + Len(t)
<1> DEFINE s == p \o t
<1>1. /\ s \in Seq(Micro) /\ Len(s) = Len(p) + Len(t) /\ DOMAIN s = 1 .. Len(p) + Len(t)
      /\ DOMAIN p = 1 .. Len(p) /\ DOMAIN t = 1 .. Len(t) /\ Len(p) \in Nat /\ Len(t) \in Nat
      /\ \A i \in DOMAIN p : s[i] = p[i] /\ i \in Nat /\ i >= 1 /\ i <= Len(p)
      /\ \A i \in DOMAIN t : s[Len(p) + i] = t[i] /\ i \in Nat /\ i >= 1
  OBVIOUS
<1> HIDE DEF s
<1>2. \A i \in DOMAIN s : i \in DOMAIN p \/ \E j \in DOMAIN t : i = Len(p) + j
  <2> TAKE i \in DOMAIN s
  <2>1. CASE i <= Len(p)
    BY <1>1, <2>1
  <2>2. CASE i > Len(p)
    <3>1. i - Len(p) \in DOMAIN t /\ i = Len(p) + (i - Len(p))
      BY <1>1, <2>2
    <3> QED BY <3>1
  <2> QED BY <1>1, <2>1, <2>2
<1>3. \A i \in DOMAIN s : ~Continues(s[i])
  BY <1>1, <1>2
<1>4. \A i \in DOMAIN p : /\ p[i].op # "noSingle"
                          /\ p[i].op \in {"run", "single"} => i + 1 \in DOMAIN p
  BY <1>1, SMTT(40) DEF Formed
<1>5. \A i \in DOMAIN t : t[i].op # "noSingle"
  BY <1>1 DEF Formed
<1>6. ASSUME NEW i \in DOMAIN s
      PROVE  /\ s[i].op = "go" => i = 1 \/ s[i - 1].op = "run"
             /\ s[i].op = "run" => i < Len(s) /\ s[i + 1].op = "go"
             /\ s[i].op \in {"single", "noSingle"} => i < Len(s) /\ s[i + 1].op = "run"
             /\ s[i].op # "noSingle"
             /\ s[i].op \in FirstOnly => i = 1 /\ s[i].arg \in Addrs
             /\ s[i].op = "report" => i = 1
  <2>1. CASE i \in DOMAIN p
    <3>1. s[i] = p[i] /\ (i # 1 => i - 1 \in DOMAIN p /\ s[i - 1] = p[i - 1])
          /\ (i + 1 \in DOMAIN p => s[i + 1] = p[i + 1] /\ i < Len(s))
      BY <1>1, <2>1
    <3> QED BY <1>1, <1>4, <2>1, <3>1 DEF Formed
  <2>2. ASSUME NEW j \in DOMAIN t, i = Len(p) + j
        PROVE  /\ s[i].op = "go" => i = 1 \/ s[i - 1].op = "run"
               /\ s[i].op = "run" => i < Len(s) /\ s[i + 1].op = "go"
               /\ s[i].op \in {"single", "noSingle"} => i < Len(s) /\ s[i + 1].op = "run"
               /\ s[i].op # "noSingle"
               /\ s[i].op \in FirstOnly => i = 1 /\ s[i].arg \in Addrs
               /\ s[i].op = "report" => i = 1
    <3>1. s[i] = t[j]
      BY <1>1, <2>2
    <3>2. j = 1 => s[i].op \notin FirstOnly \cup {"go", "report"}
      BY <1>1, <3>1
    <3>3. j # 1 => j - 1 \in DOMAIN t /\ s[i - 1] = t[j - 1]
      <4> SUFFICES ASSUME j # 1 PROVE j - 1 \in DOMAIN t /\ s[i - 1] = t[j - 1]
        OBVIOUS
      <4>1. j - 1 \in DOMAIN t /\ i - 1 = Len(p) + (j - 1)
        BY <1>1, <2>2
      <4> QED BY <1>1, <4>1
    <3>4. j < Len(t) => i < Len(s) /\ s[i + 1] = t[j + 1]
      <4> SUFFICES ASSUME j < Len(t) PROVE i < Len(s) /\ s[i + 1] = t[j + 1]
        OBVIOUS
      <4>1. j + 1 \in DOMAIN t /\ i + 1 = Len(p) + (j + 1)
        BY <1>1, <2>2
      <4>2. i < Len(s)
        BY <1>1, <2>2
      <4> QED BY <1>1, <4>1, <4>2
    <3> QED BY <1>5, <3>1, <3>2, <3>3, <3>4 DEF Formed
  <2> QED BY <1>2, <2>1, <2>2
<1>7. Formed(s)
  BY <1>3, <1>6 DEF Formed
<1>8. p # <<>> => s # <<>> /\ s[1] = p[1]
  <2> SUFFICES ASSUME p # <<>> PROVE s # <<>> /\ s[1] = p[1]
    OBVIOUS
  <2>1. 1 \in DOMAIN p
    BY <1>1
  <2> QED BY <1>1, <2>1
<1> QED BY <1>1, <1>3, <1>7, <1>8 DEF s

-----------------------------------------------------------------------------
(* The server's programs one by one                                         *)

\* A program that can stand behind another: it neither starts with a step that must come
\* first, nor continues without a trigger.
Quiet(s) ==
    /\ s \in Seq(Micro) /\ Formed(s) /\ \A i \in DOMAIN s : ~Continues(s[i])
    /\ s # <<>> => Head(s).op \notin FirstOnly \cup {"go", "report"}

LEMMA QuietJoin ==
    ASSUME NEW p, NEW t, Quiet(p), Quiet(t)
    PROVE  Quiet(p \o t)
<1>1. p \in Seq(Micro) /\ t \in Seq(Micro) /\ Formed(p) /\ Formed(t)
      /\ (\A i \in DOMAIN p : ~Continues(p[i])) /\ (\A i \in DOMAIN t : ~Continues(t[i]))
  BY DEF Quiet
<1>2. (t # <<>> => t[1].op \notin FirstOnly \cup {"go", "report"})
      /\ (p # <<>> => p[1].op \notin FirstOnly \cup {"go", "report"})
  BY <1>1 DEF Quiet
<1>3. /\ p \o t \in Seq(Micro) /\ Formed(p \o t)
      /\ \A i \in DOMAIN (p \o t) : ~Continues((p \o t)[i])
      /\ p # <<>> => p \o t # <<>> /\ (p \o t)[1] = p[1]
  BY <1>1, <1>2, Join
<1>4. p = <<>> => p \o t = t
  BY <1>1
<1>5. p \o t # <<>> => Head(p \o t) = (p \o t)[1]
  BY <1>3
<1>6. p \o t # <<>> => Head(p \o t).op \notin FirstOnly \cup {"go", "report"}
  BY <1>2, <1>3, <1>4, <1>5
<1> QED BY <1>3, <1>6 DEF Quiet

LEMMA QuietStep ==
    ASSUME NEW op \in Ops \ ({"run", "single", "noSingle", "go", "report"} \cup FirstOnly), NEW arg \in Args,
           ~(op = "wake" /\ arg = "continued")
    PROVE  Quiet(StepTo(op, arg))
<1> DEFINE s == StepTo(op, arg)
<1>1. Formed(s)
  BY SingleFormed
<1>2. s \in Seq(Micro) /\ Len(s) = 1 /\ s[1] = [op |-> op, arg |-> arg]
  BY OneStep
<1> HIDE DEF s
<1>3. DOMAIN s = 1 .. 1 /\ Head(s) = s[1] /\ s[1].op = op /\ s[1].arg = arg
  BY <1>2
<1>4. \A i \in DOMAIN s : i = 1
  BY <1>3
<1>5. ~Continues(s[1])
  BY <1>3 DEF Continues
<1> QED BY <1>1, <1>2, <1>3, <1>4, <1>5 DEF Quiet, s

LEMMA QuietNothing == Quiet(<<>>)
<1>1. DOMAIN <<>> = {} /\ <<>> \in Seq(Micro)
  OBVIOUS
<1> QED BY <1>1 DEF Quiet, Formed

\* Where the steps of two programs stand in the two together.
LEMMA Places ==
    ASSUME NEW p \in Seq(Micro), NEW t \in Seq(Micro)
    PROVE  /\ p \o t \in Seq(Micro) /\ Len(p \o t) = Len(p) + Len(t)
           /\ \A i \in 1 .. Len(p) : (p \o t)[i] = p[i]
           /\ \A i \in 1 .. Len(t) : (p \o t)[Len(p) + i] = t[i]
OBVIOUS

\* A release.
LEMMA ReleaseProgram ==
    ASSUME NEW then \in {None, "continued", "stepped"}
    PROVE  /\ set_stall_state(0, then) \in Seq(Micro) /\ Len(set_stall_state(0, then)) = 3
           /\ set_stall_state(0, then)[1].op = "run" /\ set_stall_state(0, then)[2].op = "go"
           /\ set_stall_state(0, then)[3].op = "wake" /\ set_stall_state(0, then)[3].arg = then
<1> DEFINE a == StepTo("run", None)
           b == StepTo("go", None)
           c == StepTo("wake", then)
<1>1. {"run", "go", "wake"} \subseteq Ops /\ {None, then} \subseteq Args
  BY ArgFacts DEF Ops
<1>2. a \in Seq(Micro) /\ Len(a) = 1 /\ a[1] = [op |-> "run", arg |-> None]
  BY <1>1, OneStep
<1>3. b \in Seq(Micro) /\ Len(b) = 1 /\ b[1] = [op |-> "go", arg |-> None]
  BY <1>1, OneStep
<1>4. c \in Seq(Micro) /\ Len(c) = 1 /\ c[1] = [op |-> "wake", arg |-> then]
  BY <1>1, OneStep
<1>5. set_stall_state(0, then) = (a \o b) \o c
  BY StepIsStepTo DEF set_stall_state
<1> HIDE DEF a, b, c
<1>6. a \o b \in Seq(Micro) /\ Len(a \o b) = 2 /\ (a \o b)[1] = a[1] /\ (a \o b)[2] = b[1]
  <2>1. 1 \in 1 .. Len(a) /\ 1 \in 1 .. Len(b) /\ Len(a) + 1 = 2
    BY <1>2, <1>3
  <2> QED BY <1>2, <1>3, <2>1, Places
<1> DEFINE d == a \o b
<1> HIDE DEF d
<1>7. d \o c \in Seq(Micro) /\ Len(d \o c) = 3 /\ (d \o c)[1] = d[1] /\ (d \o c)[2] = d[2] /\ (d \o c)[3] = c[1]
  <2>1. d \in Seq(Micro) /\ Len(d) = 2 /\ 1 \in 1 .. Len(d) /\ 2 \in 1 .. Len(d) /\ 1 \in 1 .. Len(c) /\ Len(d) + 1 = 3
    BY <1>4, <1>6 DEF d
  <2>2. d \o c \in Seq(Micro) /\ Len(d \o c) = 3
    <3>1. c \in Seq(Micro) /\ d \in Seq(Micro)
      BY <1>4, <2>1
    <3>2. d \o c \in Seq(Micro)
      BY <3>1
    <3>3. Len(d \o c) = Len(d) + Len(c)
      BY <3>1
    <3>4. Len(c) = 1 /\ Len(d) = 2
      BY <1>4, <2>1
    <3> QED BY <3>2, <3>3, <3>4
  <2>3. (d \o c)[Len(d) + 1] = c[1]
    BY <1>4, <2>1, Places
  <2>4. (d \o c)[1] = d[1] /\ (d \o c)[2] = d[2]
    BY <1>4, <2>1, Places
  <2> QED BY <2>1, <2>2, <2>3, <2>4
<1>8. (d \o c)[1] = a[1] /\ (d \o c)[2] = b[1] /\ (d \o c)[3] = c[1]
  BY <1>6, <1>7 DEF d
<1>9. set_stall_state(0, then) = d \o c
  BY <1>5 DEF d
<1> HIDE DEF d
<1>10. a[1].op = "run" /\ b[1].op = "go" /\ c[1].op = "wake" /\ c[1].arg = then
  BY <1>2, <1>3, <1>4
<1> QED BY <1>7, <1>8, <1>9, <1>10

LEMMA QuietRelease == Quiet(set_stall_state(0, None))
<1> DEFINE s == set_stall_state(0, None)
<1>1. /\ s \in Seq(Micro) /\ Len(s) = 3
      /\ s[1].op = "run" /\ s[2].op = "go" /\ s[3].op = "wake" /\ s[3].arg = None
  BY ReleaseProgram
<1> HIDE DEF s
<1>2. Head(s) = s[1] /\ DOMAIN s = 1 .. 3 /\ \A i \in DOMAIN s : i = 1 \/ i = 2 \/ i = 3
  BY <1>1
<1>3. \A i \in DOMAIN s : ~Continues(s[i])
  BY <1>1, <1>2 DEF Continues, None
<1>4. ASSUME NEW i \in DOMAIN s
      PROVE  /\ s[i].op = "go" => i = 1 \/ s[i - 1].op = "run"
             /\ s[i].op = "run" => i < Len(s) /\ s[i + 1].op = "go"
             /\ s[i].op \notin {"single", "noSingle", "report"} \cup FirstOnly
  BY <1>1, <1>2 DEF FirstOnly
<1>5. Formed(s)
  BY <1>3, <1>4 DEF Formed
<1> QED BY <1>1, <1>2, <1>3, <1>5 DEF Quiet, s, FirstOnly

LEMMA QuietPrograms ==
    /\ \A text \in Replies : Quiet(StepTo("put", text)) /\ Quiet(StepTo("ack", text))
    /\ \A text \in {"OK", "", "E01", "text", "O"} : Quiet(Put(text))
    /\ Quiet(set_stall_state(1, None))
    /\ \A b \in BOOLEAN : Quiet(rsp_client_close(b))
    /\ \A b \in BOOLEAN : Quiet(rsp_client_close(b) \o Step("serverClose") \o Step("return"))
    /\ Quiet(Put("OK") \o rsp_client_close(FALSE) \o set_stall_state(0, None))
<1>1. \A op \in {"stall", "clearDsr", "close", "serverClose", "return"} : Quiet(Step(op))
  <2> TAKE op \in {"stall", "clearDsr", "close", "serverClose", "return"}
  <2>1. op \in Ops \ ({"run", "single", "noSingle", "go", "report"} \cup FirstOnly) /\ None \in Args
    BY ArgFacts DEF Ops, FirstOnly
  <2>2. Quiet(StepTo(op, None))
    BY <2>1, QuietStep DEF None
  <2> QED BY <2>2, StepIsStepTo
<1>2. \A op \in {"put", "ack"}, text \in Replies : Quiet(StepTo(op, text))
  <2> TAKE op \in {"put", "ack"}, text \in Replies
  <2>1. op \in Ops \ ({"run", "single", "noSingle", "go", "report"} \cup FirstOnly) /\ text \in Args /\ op # "wake"
    BY ArgFacts DEF Ops, FirstOnly
  <2> QED BY <2>1, QuietStep
<1>3. \A text \in {"OK", "", "E01", "text", "O"} : Quiet(Put(text))
  <2> TAKE text \in {"OK", "", "E01", "text", "O"}
  <2>1. [m |-> text, sig |-> None] \in Replies
    BY DEF Replies
  <2> QED BY <1>2, <2>1 DEF Put
<1>4. Quiet(set_stall_state(1, None))
  BY <1>1 DEF set_stall_state
<1>5. ASSUME NEW b \in BOOLEAN PROVE Quiet(rsp_client_close(b))
  <2>1. CASE b
    <3>1. Quiet(set_stall_state(1, None) \o Step("clearDsr"))
      BY <1>1, <1>4, QuietJoin
    <3>2. Quiet(set_stall_state(1, None) \o Step("clearDsr") \o set_stall_state(0, None))
      BY <3>1, QuietRelease, QuietJoin
    <3>3. Quiet(set_stall_state(1, None) \o Step("clearDsr") \o set_stall_state(0, None) \o Step("close"))
      BY <1>1, <3>2, QuietJoin
    <3> QED BY <2>1, <3>3 DEF rsp_client_close
  <2>2. CASE ~b
    <3>1. Quiet(Step("clearDsr") \o Step("close"))
      BY <1>1, QuietJoin
    <3> QED BY <2>2, <3>1 DEF rsp_client_close
  <2> QED BY <2>1, <2>2
<1>6. ASSUME NEW b \in BOOLEAN PROVE Quiet(rsp_client_close(b) \o Step("serverClose") \o Step("return"))
  <2>1. Quiet(rsp_client_close(b) \o Step("serverClose"))
    BY <1>1, <1>5, QuietJoin
  <2> QED BY <1>1, <2>1, QuietJoin
<1>7. Quiet(Put("OK") \o rsp_client_close(FALSE) \o set_stall_state(0, None))
  <2>1. Quiet(Put("OK")) /\ Quiet(rsp_client_close(FALSE))
    BY <1>3, <1>5
  <2>2. Quiet(Put("OK") \o rsp_client_close(FALSE))
    BY <2>1, QuietJoin
  <2> QED BY <2>2, QuietRelease, QuietJoin
<1> QED BY <1>2, <1>3, <1>4, <1>5, <1>6, <1>7

\* What a stopped target's request may start.
Fits(s) ==
    /\ s \in Seq(Micro) /\ Formed(s) /\ \A i \in DOMAIN s : Continues(s[i]) => i > 3
    /\ s # <<>> => Head(s).op # "go" /\ (Head(s).op = "report" => Len(s) = 1)

LEMMA QuietFits == \A s : Quiet(s) => Fits(s)
BY DEF Quiet, Fits

LEMMA FirstThen ==
    ASSUME NEW op \in FirstOnly, NEW a \in Addrs, NEW t, Quiet(t)
    PROVE  /\ Fits(StepTo(op, a) \o t) /\ StepTo(op, a) \o t # <<>>
           /\ Head(StepTo(op, a) \o t) = [op |-> op, arg |-> a]
<1> DEFINE p == StepTo(op, a)
<1>1. op \in Ops \ {"run", "single", "noSingle"} /\ a \in Args /\ op \notin {"go", "report", "wake"}
  BY ArgFacts DEF Ops, FirstOnly
<1>2. p \in Seq(Micro) /\ Len(p) = 1 /\ p[1] = [op |-> op, arg |-> a] /\ p # <<>>
  BY <1>1, OneStep
<1>3. Formed(p)
  BY <1>1, SingleFormed
<1> HIDE DEF p
<1>4. \A i \in DOMAIN p : ~Continues(p[i])
  <2>1. \A i \in DOMAIN p : i = 1
    BY <1>2
  <2>2. ~Continues(p[1])
    BY <1>1, <1>2 DEF Continues
  <2> QED BY <2>1, <2>2
<1>5. t \in Seq(Micro) /\ Formed(t) /\ \A i \in DOMAIN t : ~Continues(t[i])
  BY DEF Quiet
<1>6. t # <<>> => t[1].op \notin FirstOnly \cup {"go", "report"}
  BY <1>5 DEF Quiet
<1>7. /\ p \o t \in Seq(Micro) /\ Formed(p \o t)
      /\ \A i \in DOMAIN (p \o t) : ~Continues((p \o t)[i])
      /\ p \o t # <<>> /\ (p \o t)[1] = p[1]
  BY <1>2, <1>3, <1>4, <1>5, <1>6, Join
<1>8. Head(p \o t) = p[1]
  BY <1>7
<1>9. Head(p \o t).op = op
  BY <1>2, <1>8
<1>10. Fits(p \o t)
  BY <1>1, <1>7, <1>9 DEF Fits
<1> QED BY <1>2, <1>7, <1>8, <1>10 DEF p

\* The program of a single step.
LEMMA StepProgram == Fits(rsp_step_generic) /\ Head(rsp_step_generic).op = "single"
<1> DEFINE a == Step("single")
           b == set_stall_state(0, "stepped")
           s == a \o b
<1>1. a \in Seq(Micro) /\ Len(a) = 1 /\ a[1] = [op |-> "single", arg |-> None]
  BY OneStep, StepIsStepTo, ArgFacts DEF Ops
<1>2. b \in Seq(Micro) /\ Len(b) = 3
      /\ b[1].op = "run" /\ b[2].op = "go" /\ b[3].op = "wake" /\ b[3].arg = "stepped"
  BY ReleaseProgram
<1> HIDE DEF a, b
<1>3. s \in Seq(Micro) /\ Len(s) = Len(a) + Len(b) /\ (\A i \in 1 .. Len(a) : s[i] = a[i])
      /\ (\A i \in 1 .. Len(b) : s[Len(a) + i] = b[i])
  BY <1>1, <1>2, Places
<1> HIDE DEF s
<1>4. Len(s) = 4 /\ s[1] = a[1] /\ s[1 + 1] = b[1] /\ s[1 + 2] = b[2] /\ s[1 + 3] = b[3]
  BY <1>1, <1>2, <1>3
<1>5. /\ s[1].op = "single" /\ s[2].op = "run" /\ s[3].op = "go" /\ s[4].op = "wake" /\ s[4].arg = "stepped"
      /\ Head(s) = s[1] /\ DOMAIN s = 1 .. 4 /\ \A i \in DOMAIN s : i = 1 \/ i = 2 \/ i = 3 \/ i = 4
  BY <1>1, <1>2, <1>3, <1>4
<1>6. \A i \in DOMAIN s : ~Continues(s[i])
  BY <1>5 DEF Continues
<1>7. ASSUME NEW i \in DOMAIN s
      PROVE  /\ s[i].op = "go" => i = 1 \/ s[i - 1].op = "run"
             /\ s[i].op = "run" => i < Len(s) /\ s[i + 1].op = "go"
             /\ s[i].op = "single" => i < Len(s) /\ s[i + 1].op = "run"
             /\ s[i].op \notin {"noSingle", "report"} \cup FirstOnly
  <2>1. i = 1 \/ i = 2 \/ i = 3 \/ i = 4
    BY <1>5
  <2> QED BY <1>4, <1>5, <2>1 DEF FirstOnly
<1>8. Formed(s)
  BY <1>6, <1>7 DEF Formed
<1>9. s = rsp_step_generic
  BY DEF s, a, b, rsp_step_generic
<1>10. Fits(s)
  BY <1>3, <1>5, <1>6, <1>8 DEF Fits
<1> QED BY <1>5, <1>9, <1>10

\* The program of a continue, with or without a new program counter.
LEMMA PlainContinue ==
    ASSUME NEW k \in {0, 1}, NEW s \in Seq(Micro), Len(s) = k + 4,
           k = 1 => s[1].op = "setNpc" /\ s[1].arg \in Addrs,
           s[k + 1].op = "noSingle", s[k + 2].op = "run", s[k + 3].op = "go",
           s[k + 4].op = "wake", s[k + 4].arg = "continued"
    PROVE  Fits(s) /\ Head(s).op \in {"setNpc", "noSingle"}
<1>1. /\ DOMAIN s = 1 .. k + 4 /\ Head(s) = s[1]
      /\ \A i \in DOMAIN s : \/ i = 1 /\ k = 1 /\ s[i].op = "setNpc" /\ s[i].arg \in Addrs
                             \/ i = k + 1 /\ s[i].op = "noSingle"
                             \/ i = k + 2 /\ s[i].op = "run"
                             \/ i = k + 3 /\ s[i].op = "go"
                             \/ i = k + 4 /\ s[i].op = "wake"
  OBVIOUS
<1>2. s[1].op \in {"setNpc", "noSingle"}
  OBVIOUS
<1>3. ASSUME NEW i \in DOMAIN s
      PROVE  /\ s[i].op = "go" => i = 1 \/ s[i - 1].op = "run"
             /\ s[i].op = "run" => i < Len(s) /\ s[i + 1].op = "go"
             /\ s[i].op \in {"single", "noSingle"} => i < Len(s) /\ s[i + 1].op = "run"
             /\ s[i].op = "noSingle" => Len(s) = i + 3 /\ Continues(s[i + 3])
             /\ s[i].op \in FirstOnly => i = 1 /\ s[i].arg \in Addrs
             /\ s[i].op = "report" => i = 1
  <2>1. \/ i = 1 /\ k = 1 /\ s[i].op = "setNpc" /\ s[i].arg \in Addrs
        \/ i = k + 1 /\ s[i].op = "noSingle"
        \/ i = k + 2 /\ s[i].op = "run"
        \/ i = k + 3 /\ s[i].op = "go"
        \/ i = k + 4 /\ s[i].op = "wake"
    BY <1>1
  <2> QED BY <2>1 DEF Continues, FirstOnly
<1>4. ASSUME NEW i \in DOMAIN s, Continues(s[i])
      PROVE  /\ i = Len(s) /\ (i > 3 => s[i - 3].op = "noSingle") /\ i > 3
             /\ \A j \in 1 .. i - 1 : s[j].op \in {"setNpc", "noSingle", "run", "go"}
  <2>1. i = k + 4
    BY <1>1, <1>4 DEF Continues
  <2>2. i - 3 = k + 1
    BY <2>1
  <2> QED BY <1>1, <2>1, <2>2
<1>5. Formed(s)
  BY <1>3, <1>4 DEF Formed
<1>6. \A i \in DOMAIN s : Continues(s[i]) => i > 3
  BY <1>4
<1> QED BY <1>1, <1>2, <1>5, <1>6 DEF Fits

LEMMA ContinueProgram ==
    ASSUME NEW r, r.addr \in Addrs \cup {NoAddr}
    PROVE  Fits(rsp_continue(r)) /\ Head(rsp_continue(r)).op \in {"setNpc", "noSingle"}
<1> DEFINE a == Step("noSingle")
           b == set_stall_state(0, "continued")
           s == a \o b
           c == StepTo("setNpc", r.addr)
           t == c \o s
<1>1. a \in Seq(Micro) /\ Len(a) = 1 /\ a[1] = [op |-> "noSingle", arg |-> None]
  BY OneStep, StepIsStepTo, ArgFacts DEF Ops
<1>2. b \in Seq(Micro) /\ Len(b) = 3
      /\ b[1].op = "run" /\ b[2].op = "go" /\ b[3].op = "wake" /\ b[3].arg = "continued"
  BY ReleaseProgram
<1>3. r.addr \in Addrs => c \in Seq(Micro) /\ Len(c) = 1 /\ c[1] = [op |-> "setNpc", arg |-> r.addr]
  BY OneStep, ArgFacts DEF Ops
<1> HIDE DEF a, b, c
<1>4. s \in Seq(Micro) /\ Len(s) = Len(a) + Len(b) /\ (\A i \in 1 .. Len(a) : s[i] = a[i])
      /\ (\A i \in 1 .. Len(b) : s[Len(a) + i] = b[i])
  BY <1>1, <1>2, Places
<1> HIDE DEF s
<1>5. Len(s) = 4 /\ s[1] = a[1] /\ s[1 + 1] = b[1] /\ s[1 + 2] = b[2] /\ s[1 + 3] = b[3]
  BY <1>1, <1>2, <1>4
<1>6. /\ s[1].op = "noSingle" /\ s[2].op = "run" /\ s[3].op = "go" /\ s[4].op = "wake" /\ s[4].arg = "continued"
  BY <1>1, <1>2, <1>5
<1>7. CASE r.addr = NoAddr
  <2>1. rsp_continue(r) = <<>> \o s
    BY <1>7 DEF rsp_continue, rsp_continue_generic, s, a, b
  <2>2. <<>> \o s = s
    BY <1>4
  <2>3. s[0 + 1].op = "noSingle" /\ s[0 + 2].op = "run" /\ s[0 + 3].op = "go" /\ Len(s) = 0 + 4
        /\ s[0 + 4].op = "wake" /\ s[0 + 4].arg = "continued" /\ 0 \in {0, 1}
    BY <1>5, <1>6
  <2>4. Fits(s) /\ Head(s).op \in {"setNpc", "noSingle"}
    BY <1>4, <2>3, PlainContinue
  <2> QED BY <2>1, <2>2, <2>4
<1>8. CASE r.addr # NoAddr
  <2>1. r.addr \in Addrs /\ rsp_continue(r) = t
    BY <1>8 DEF rsp_continue, rsp_continue_generic, s, a, b, c
  <2>2. t \in Seq(Micro) /\ Len(t) = Len(c) + Len(s) /\ (\A i \in 1 .. Len(c) : t[i] = c[i])
        /\ (\A i \in 1 .. Len(s) : t[Len(c) + i] = s[i])
    BY <1>3, <1>4, <2>1, Places
  <2> HIDE DEF t
  <2>3. Len(t) = 1 + 4 /\ t[1] = c[1] /\ t[1 + 1] = s[1] /\ t[1 + 2] = s[2] /\ t[1 + 3] = s[3] /\ t[1 + 4] = s[4]
    BY <1>3, <1>5, <2>1, <2>2
  <2>4. /\ t[1].op = "setNpc" /\ t[1].arg \in Addrs /\ t[1 + 1].op = "noSingle" /\ t[1 + 2].op = "run"
        /\ t[1 + 3].op = "go" /\ t[1 + 4].op = "wake" /\ t[1 + 4].arg = "continued"
    BY <1>3, <1>6, <2>1, <2>3
  <2>5. 1 \in {0, 1}
    OBVIOUS
  <2> QED BY <2>1, <2>2, <2>3, <2>4, <2>5, PlainContinue
<1> QED BY <1>7, <1>8

LEMMA ReportPrograms ==
    /\ Fits(rsp_report_exception) /\ rsp_report_exception # <<>> /\ Head(rsp_report_exception).op = "report"
    /\ LET s == rsp_report_exception \o Step("reported") IN
       /\ s \in Seq(Micro) /\ Formed(s) /\ s # <<>> /\ Head(s).op = "report"
       /\ \A i \in DOMAIN s : ~Continues(s[i])
       /\ NoGo(s)
<1> DEFINE p == StepTo("report", None)
           q == StepTo("reported", None)
           s == p \o q
<1>1. {"report", "reported"} \subseteq Ops \ ({"run", "single", "noSingle", "go", "wake"} \cup FirstOnly) /\ None \in Args
  BY ArgFacts DEF Ops, FirstOnly
<1>2. p \in Seq(Micro) /\ Len(p) = 1 /\ p[1] = [op |-> "report", arg |-> None] /\ Formed(p) /\ p # <<>>
  BY <1>1, OneStep, SingleFormed
<1>3. Quiet(q) /\ q[1] = [op |-> "reported", arg |-> None] /\ Len(q) = 1
  BY <1>1, OneStep, QuietStep
<1>4. rsp_report_exception = p /\ Step("reported") = q
  BY StepIsStepTo DEF rsp_report_exception
<1> HIDE DEF p, q
<1>5. \A i \in DOMAIN p : i = 1
  BY <1>2
<1>6. Head(p) = p[1] /\ p # <<>> /\ p[1].op = "report"
  <2>1. p \in Seq(Micro)
    BY <1>2
  <2>2. Head(p) = p[1]
    BY <2>1
  <2> QED BY <1>2, <2>2
<1>7. \A i \in DOMAIN p : ~Continues(p[i])
  BY <1>5, <1>6 DEF Continues
<1>8. Fits(p)
  BY <1>2, <1>6, <1>7 DEF Fits
<1>9. q \in Seq(Micro) /\ Formed(q) /\ (\A i \in DOMAIN q : ~Continues(q[i]))
      /\ (q # <<>> => q[1].op \notin FirstOnly \cup {"go", "report"})
  BY <1>3 DEF Quiet
<1>10. /\ s \in Seq(Micro) /\ Formed(s) /\ (\A i \in DOMAIN s : ~Continues(s[i]))
       /\ s # <<>> /\ s[1] = p[1]
  BY <1>2, <1>6, <1>7, <1>9, Join
<1>11. Len(s) = Len(p) + Len(q) /\ \A i \in 1 .. Len(q) : s[Len(p) + i] = q[i]
  BY <1>2, <1>9, Places
<1>12. s[1 + 1] = q[1] /\ Len(s) = 2
  BY <1>2, <1>3, <1>11
<1> HIDE DEF s
<1>13. \A i \in DOMAIN s : i = 1 \/ i = 2
  BY <1>10, <1>12
<1>14. s[1].op # "go" /\ s[2].op # "go" /\ Head(s) = s[1]
  BY <1>3, <1>6, <1>10, <1>12
<1>15. NoGo(s)
  BY <1>13, <1>14 DEF NoGo
<1>16. Head(s).op = "report"
  BY <1>6, <1>10, <1>14
<1>17. rsp_report_exception \o Step("reported") = s
  BY <1>4 DEF s
<1> QED BY <1>4, <1>6, <1>8, <1>10, <1>15, <1>16, <1>17

LEMMA RequestFacts ==
    \A r \in Request : /\ r.addr \in Addrs \cup {NoAddr}
                       /\ r.k \in WithAddr => r.addr \in Addrs
                       /\ r = [k |-> r.k, addr |-> r.addr]
<1> TAKE r \in Request
<1>1. CASE r \in {[k |-> k, addr |-> NoAddr] : k \in Requests \ WithAddr}
  <2>1. PICK k \in Requests \ WithAddr : r = [k |-> k, addr |-> NoAddr]
    BY <1>1
  <2> QED BY <2>1
<1>2. CASE r \in [k : Requests \cap (WithAddr \cup {"c"}), addr : Targets]
  <2>1. Targets \subseteq Addrs
    BY RspAssumption
  <2> QED BY <1>2, <2>1
<1> QED BY <1>1, <1>2 DEF Request

\* Every request starts a fitting program, and registers and memory are written for the
\* request that says so only.
LEMMA ProgramFits ==
    ASSUME NEW r \in Request
    PROVE  /\ Fits(Program(r))
           /\ Program(r) # <<>> =>
                /\ Head(Program(r)).op = "insert" => r.k = "Z"
                /\ Head(Program(r)).op = "writeMem" => r.k \in {"M", "X"} /\ Head(Program(r)).arg = r.addr
<1> DEFINE p == Program(r)
           Plain(s) == Head(s).op \notin {"insert", "writeMem"}
           Good == /\ Fits(p)
                   /\ p # <<>> => /\ Head(p).op = "insert" => r.k = "Z"
                                  /\ Head(p).op = "writeMem" => r.k \in {"M", "X"} /\ Head(p).arg = r.addr
<1> SUFFICES Good
  OBVIOUS
<1>1. /\ \A text \in {"OK", "", "E01", "text", "O"} : Quiet(Put(text))
      /\ \A text \in Replies : Quiet(StepTo("put", text))
      /\ Quiet(<<>>)
  BY QuietPrograms, QuietNothing
<1>2. StopReply("TRAP") \in Replies
  BY DEF StopReply, Replies
<1>3. ASSUME Quiet(p) PROVE Good
  <2>1. Fits(p)
    BY <1>3, QuietFits
  <2>2. p # <<>> => Head(p).op \notin FirstOnly
    BY <1>3 DEF Quiet
  <2> QED BY <2>1, <2>2 DEF FirstOnly
<1>4. CASE r.k = "?"
  <2>1. p = rsp_report_exception
    BY <1>4 DEF Program, StepRequests, ReadRequests
  <2>2. Fits(p) /\ Head(p).op = "report"
    BY <2>1, ReportPrograms
  <2> HIDE DEF p
  <2> QED BY <2>2
<1>5. CASE r.k = "c"
  <2>1. p = rsp_continue(r)
    BY <1>5 DEF Program, StepRequests, ReadRequests
  <2>2. r.addr \in Addrs \cup {NoAddr}
    BY RequestFacts
  <2>3. Fits(p) /\ Head(p).op \in {"setNpc", "noSingle"}
    BY <2>1, <2>2, ContinueProgram
  <2> HIDE DEF p
  <2> QED BY <2>3
<1>6. CASE r.k \in StepRequests
  <2>1. p = rsp_step_generic
    BY <1>6 DEF Program, StepRequests, ReadRequests
  <2>2. Fits(p) /\ Head(p).op = "single"
    BY <2>1, StepProgram
  <2> HIDE DEF p
  <2> QED BY <2>2
<1>7. CASE r.k = "D"
  <2>1. p = Put("OK") \o rsp_client_close(FALSE) \o set_stall_state(0, None)
    BY <1>7 DEF Program, StepRequests, ReadRequests
  <2>2. Quiet(p)
    BY <2>1, QuietPrograms
  <2> QED BY <1>3, <2>2
<1>8. ASSUME NEW op \in FirstOnly, NEW a \in Addrs, NEW t, Quiet(t), p = StepTo(op, a) \o t,
             op = "insert" => r.k = "Z", op = "writeMem" => r.k \in {"M", "X"} /\ a = r.addr
      PROVE  Good
  <2>1. Fits(p) /\ Head(p) = [op |-> op, arg |-> a]
    BY <1>8, FirstThen
  <2>2. Head(p).op = op /\ Head(p).arg = a
    BY <2>1
  <2> HIDE DEF p
  <2> QED BY <1>8, <2>1, <2>2
<1>9. {"setNpc", "writeMem", "insert", "remove"} \subseteq FirstOnly /\ 0 \in Addrs
  BY AddrFacts DEF FirstOnly
<1>10. CASE r.k = "R"
  <2>1. p = StepTo("setNpc", 0)
    BY <1>10 DEF Program, StepRequests, ReadRequests, rsp_restart
  <2>2. StepTo("setNpc", 0) = StepTo("setNpc", 0) \o <<>>
    BY DEF StepTo
  <2>3. p = StepTo("setNpc", 0) \o <<>>
    BY <2>1, <2>2
  <2> HIDE DEF p
  <2> QED BY <1>1, <1>8, <1>9, <2>3
<1>11. CASE r.k \in WithAddr
  <2>1. r.addr \in Addrs
    BY <1>11, RequestFacts
  <2>2. PICK op \in FirstOnly : /\ p = StepTo(op, r.addr) \o Put("OK")
                                /\ op = "insert" => r.k = "Z"
                                /\ op = "writeMem" => r.k \in {"M", "X"}
    <3>1. CASE r.k = "P"
      BY <3>1, <1>9 DEF Program, StepRequests, ReadRequests
    <3>2. CASE r.k \in {"M", "X"}
      BY <3>2, <1>9 DEF Program, StepRequests, ReadRequests
    <3>3. CASE r.k = "Z"
      BY <3>3, <1>9 DEF Program, StepRequests, ReadRequests
    <3>4. CASE r.k = "z"
      BY <3>4, <1>9 DEF Program, StepRequests, ReadRequests
    <3> QED BY <1>11, <3>1, <3>2, <3>3, <3>4 DEF WithAddr
  <2>3. Quiet(Put("OK"))
    BY <1>1
  <2> HIDE DEF p, Good
  <2> QED BY <1>8, <2>1, <2>2, <2>3
<1>12. CASE r.k = "vRun"
  <2>1. p = StepTo("setNpc", 0) \o StepTo("put", StopReply("TRAP"))
    BY <1>12 DEF Program, StepRequests, ReadRequests, rsp_vpkt, rsp_restart
  <2> HIDE DEF p, Good
  <2> QED BY <1>1, <1>2, <1>8, <1>9, <2>1
<1>13. CASE r.k = "vAttach"
  <2>1. p = StepTo("put", StopReply("TRAP"))
    BY <1>13 DEF Program, StepRequests, ReadRequests, rsp_vpkt
  <2> HIDE DEF p, Good
  <2> QED BY <1>1, <1>2, <1>3, <2>1
<1>14. CASE /\ r.k \notin {"?", "c", "D", "R", "vRun", "vAttach"} \cup StepRequests \cup WithAddr
  <2>1. p = Put("text") \/ p = rsp_query(r.k)
    BY <1>14 DEF Program, ReadRequests, WithAddr
  <2>2. Quiet(rsp_query(r.k))
    <3>1. rsp_query(r.k) \in {Put(""), Put("E01"), Put("OK"), Put("text"), <<>>}
      BY DEF rsp_query
    <3> HIDE DEF Put
    <3> QED BY <1>1, <3>1
  <2> HIDE DEF p, Good
  <2> QED BY <1>1, <1>3, <2>1, <2>2
<1> QED BY <1>4, <1>5, <1>6, <1>7, <1>10, <1>11, <1>12, <1>13, <1>14

-----------------------------------------------------------------------------
(* What a step leaves of the program                                        *)

LEMMA PopFacts ==
    ASSUME NEW s \in Seq(Micro), Formed(s), s # <<>>
    PROVE  /\ Tail(s) \in Seq(Micro) /\ Formed(Tail(s)) /\ Head(s) = s[1] /\ Head(s) \in Micro
           /\ Tail(s) # <<>> => /\ Head(Tail(s)).op \notin FirstOnly \cup {"report"}
                                /\ Head(Tail(s)).op = "go" => Head(s).op = "run"
           /\ NoGo(Tail(s)) => Head(s).op = "go" \/ NoGo(s)
           /\ NoGo(s) => NoGo(Tail(s)) /\ Head(s).op # "go"
           /\ Head(s).op = "run" => Tail(s) # <<>> /\ Head(Tail(s)).op = "go"
           /\ Head(s).op \in {"run", "single", "noSingle"} => ~NoGo(Tail(s))
           /\ Head(s).op = "noSingle" => \E i \in DOMAIN Tail(s) : Continues(Tail(s)[i])
           /\ (\E i \in DOMAIN Tail(s) : Continues(Tail(s)[i])) => \E i \in DOMAIN s : Continues(s[i])
           /\ (\E i \in DOMAIN s : Continues(s[i])) =>
                 Continues(Head(s)) \/ \E i \in DOMAIN Tail(s) : Continues(Tail(s)[i])
           /\ \A i \in DOMAIN Tail(s) : Continues(Tail(s)[i]) /\ i <= 3 =>
                 Head(s).op = "noSingle" \/ \E j \in DOMAIN s : Continues(s[j]) /\ j <= 3
           /\ Head(s).op \notin {"setNpc", "noSingle", "run", "go"} =>
                 \A i \in DOMAIN Tail(s) : ~Continues(Tail(s)[i])
<1> DEFINE t == Tail(s)
<1>1. /\ t \in Seq(Micro) /\ Len(t) = Len(s) - 1 /\ Formed(t)
      /\ DOMAIN t = 1 .. Len(s) - 1 /\ DOMAIN s = 1 .. Len(s) /\ Len(s) \in Nat \ {0}
      /\ \A i \in DOMAIN t : t[i] = s[i + 1] /\ i + 1 \in DOMAIN s
      /\ Head(s) = s[1] /\ s[1] \in Micro
      /\ t # <<>> => /\ Head(t) = s[2] /\ 2 \in DOMAIN s /\ s[2] \in Micro
                     /\ s[2].op \notin FirstOnly \cup {"report"}
                     /\ s[2].op = "go" => s[1].op = "run"
  BY TailFormed
<1> HIDE DEF t
<1>2. \A i \in DOMAIN s : i = 1 \/ (i - 1 \in DOMAIN t /\ t[i - 1] = s[i])
  <2> TAKE i \in DOMAIN s
  <2> SUFFICES ASSUME i # 1 PROVE i - 1 \in DOMAIN t /\ t[i - 1] = s[i]
    OBVIOUS
  <2>1. i - 1 \in DOMAIN t /\ (i - 1) + 1 = i
    BY <1>1
  <2> QED BY <1>1, <2>1
<1>3. 1 \in DOMAIN s
  BY <1>1
<1>4. t # <<>> => /\ Head(t).op \notin FirstOnly \cup {"report"}
                  /\ Head(t).op = "go" => Head(s).op = "run"
  BY <1>1
<1>5. NoGo(t) => Head(s).op = "go" \/ NoGo(s)
  <2> SUFFICES ASSUME NoGo(t), s[1].op # "go", NEW i \in DOMAIN s PROVE s[i].op # "go"
    BY <1>1 DEF NoGo
  <2> QED BY <1>2 DEF NoGo
<1>6. NoGo(s) => NoGo(t) /\ Head(s).op # "go"
  BY <1>1, <1>3 DEF NoGo
<1>7. ASSUME s[1].op = "run" PROVE t # <<>> /\ Head(t).op = "go" /\ ~NoGo(t)
  <2>1. 1 < Len(s) /\ s[1 + 1].op = "go"
    BY <1>3, <1>7 DEF Formed
  <2>2. 1 \in DOMAIN t /\ t[1].op = "go"
    BY <1>1, <2>1
  <2>3. t # <<>> /\ Head(t) = t[1]
    BY <1>1, <2>2
  <2> QED BY <2>2, <2>3 DEF NoGo
<1>8. ASSUME s[1].op \in {"single", "noSingle"} PROVE ~NoGo(t)
  <2>1. 1 < Len(s) /\ s[1 + 1].op = "run"
    BY <1>3, <1>8 DEF Formed
  <2>2. 2 \in DOMAIN s
    BY <1>1, <2>1
  <2>3. 2 < Len(s) /\ s[2 + 1].op = "go"
    BY <2>1, <2>2 DEF Formed
  <2>4. 2 \in DOMAIN t /\ t[2].op = "go"
    BY <1>1, <2>3
  <2> QED BY <2>4 DEF NoGo
<1>9. ASSUME s[1].op = "noSingle" PROVE \E i \in DOMAIN t : Continues(t[i])
  <2>1. Len(s) = 1 + 3 /\ Continues(s[1 + 3])
    BY <1>3, <1>9 DEF Formed
  <2>2. 3 \in DOMAIN t /\ t[3] = s[1 + 3]
    BY <1>1, <2>1
  <2> QED BY <2>1, <2>2
<1>10. (\E i \in DOMAIN t : Continues(t[i])) => \E i \in DOMAIN s : Continues(s[i])
  BY <1>1
<1>11. (\E i \in DOMAIN s : Continues(s[i])) =>
             Continues(Head(s)) \/ \E i \in DOMAIN t : Continues(t[i])
  <2> SUFFICES ASSUME NEW i \in DOMAIN s, Continues(s[i]), i # 1 PROVE \E j \in DOMAIN t : Continues(t[j])
    BY <1>1
  <2> QED BY <1>2
<1>12. ASSUME NEW i \in DOMAIN t, Continues(t[i]), i <= 3, s[1].op # "noSingle"
       PROVE  \E j \in DOMAIN s : Continues(s[j]) /\ j <= 3
  <2>1. i + 1 \in DOMAIN s /\ Continues(s[i + 1])
    BY <1>1, <1>12
  <2>2. \A j \in DOMAIN s : Continues(s[j]) /\ j > 3 => s[j - 3].op = "noSingle"
    BY DEF Formed
  <2>3. i # 3
    <3> SUFFICES ASSUME i = 3 PROVE FALSE
      OBVIOUS
    <3>1. i + 1 > 3 /\ i + 1 - 3 = 1
      OBVIOUS
    <3> QED BY <1>12, <2>1, <2>2, <3>1
  <2>4. i + 1 <= 3
    BY <1>1, <1>12, <2>3
  <2> QED BY <2>1, <2>4
<1>13. ASSUME s[1].op \notin {"setNpc", "noSingle", "run", "go"}, NEW i \in DOMAIN t, Continues(t[i])
       PROVE  FALSE
  <2>1. i + 1 \in DOMAIN s /\ Continues(s[i + 1])
    BY <1>1, <1>13
  <2>2. \A j \in 1 .. (i + 1) - 1 : s[j].op \in {"setNpc", "noSingle", "run", "go"}
    BY <2>1 DEF Formed
  <2>3. 1 \in 1 .. (i + 1) - 1
    BY <1>1
  <2> QED BY <1>13, <2>2, <2>3
<1>14. s[1] = Head(s)
  BY <1>1
<1>15. /\ Head(s).op = "run" => t # <<>> /\ Head(t).op = "go"
       /\ Head(s).op \in {"run", "single", "noSingle"} => ~NoGo(t)
       /\ Head(s).op = "noSingle" => \E i \in DOMAIN t : Continues(t[i])
  BY <1>7, <1>8, <1>9, <1>14
<1>16. /\ \A i \in DOMAIN t : Continues(t[i]) /\ i <= 3 =>
                 Head(s).op = "noSingle" \/ \E j \in DOMAIN s : Continues(s[j]) /\ j <= 3
       /\ Head(s).op \notin {"setNpc", "noSingle", "run", "go"} => \A i \in DOMAIN t : ~Continues(t[i])
  BY <1>12, <1>13, <1>14
<1>17. t \in Seq(Micro) /\ Formed(t) /\ Head(s) = s[1] /\ Head(s) \in Micro
  BY <1>1
<1> QED BY <1>4, <1>5, <1>6, <1>10, <1>11, <1>15, <1>16, <1>17 DEF t

\* Behind a step that is not part of a release nothing needs the step.
LEMMA QuietTail ==
    ASSUME NEW s \in Seq(Micro), Formed(s), s # <<>>,
           Head(s).op \notin {"setNpc", "noSingle", "run", "go"}
    PROVE  Quiet(Tail(s))
BY PopFacts DEF Quiet

\* A step that runs nothing and continues nothing: the rest of the program is as free of
\* a release as the whole.
LEMMA NoGoJoin ==
    ASSUME NEW p \in Seq(Micro), NEW t \in Seq(Micro), NoGo(p \o t)
    PROVE  NoGo(t)
<1> SUFFICES ASSUME NEW i \in DOMAIN t PROVE t[i].op # "go"
  BY DEF NoGo
<1>1. DOMAIN t = 1 .. Len(t) /\ DOMAIN p = 1 .. Len(p) /\ Len(p) \in Nat /\ Len(t) \in Nat
  OBVIOUS
<1>2. (p \o t)[Len(p) + i] = t[i] /\ Len(p \o t) = Len(p) + Len(t) /\ p \o t \in Seq(Micro)
  BY <1>1, Places
<1>3. Len(p) + i \in DOMAIN (p \o t)
  BY <1>1, <1>2
<1> QED BY <1>2, <1>3 DEF NoGo

-----------------------------------------------------------------------------
(* The parts of the invariant over a step of the program                    *)

\* The types field by field.
LEMMA Types ==
    ASSUME RspTypeOK
    PROVE  /\ {rsp.client, rsp.waiting, rsp.running, rsp.single, reading, up} \subseteq BOOLEAN
           /\ rsp.sigval \in {None, "TRAP", "BUS", "ILL"} /\ rsp.npc \in Addrs \cup {NoAddr}
           /\ rsp.mp \in [Addrs -> Code \cup {None, Trap}]
           /\ th.state \in 0 .. 2 /\ th.overtaken \in BOOLEAN /\ pipe \in Nat
           /\ {cpu.stalled, cpu.hidden, cpu.dsr, cpu.st} \subseteq BOOLEAN
           /\ cpu.npc \in Addrs /\ cpu.ppc \in Addrs /\ cpu.drr \in Reasons
           /\ mem \in [Addrs -> Code \cup {Trap}]
           /\ gdb.state \in {"away", "idle", "reply", "run"}
           /\ gdb.sessions \in Nat /\ gdb.image \in [Addrs -> Code]
BY DEF RspTypeOK, RspType, HandlerType, CpuType, GdbType

\* A record with one field changed.
LEMMA RspFields ==
    \A r \in RspType :
       /\ \A b \in BOOLEAN : /\ [r EXCEPT !.client = b] \in RspType /\ [r EXCEPT !.waiting = b] \in RspType
                             /\ [r EXCEPT !.running = b] \in RspType /\ [r EXCEPT !.single = b] \in RspType
       /\ \A g \in {None, "TRAP", "BUS", "ILL"} : [r EXCEPT !.sigval = g] \in RspType
       /\ \A h \in [Addrs -> Code \cup {None, Trap}] : [r EXCEPT !.mp = h] \in RspType
       /\ \A a \in Addrs \cup {NoAddr} : [r EXCEPT !.npc = a] \in RspType
BY DEF RspType

LEMMA HandlerFields ==
    \A r \in HandlerType :
       /\ \A p \in {"top", "wait", "woken", "poll", "clear", "log", "halt", "exit"} : [r EXCEPT !.pc = p] \in HandlerType
       /\ \A n \in 0 .. 2 : [r EXCEPT !.state = n] \in HandlerType
       /\ \A b \in BOOLEAN : [r EXCEPT !.overtaken = b] \in HandlerType
BY DEF HandlerType

LEMMA HandlerFields2 ==
    ASSUME NEW r \in HandlerType, NEW n \in 0 .. 2, NEW b \in BOOLEAN,
           NEW p \in {"top", "wait", "woken", "poll", "clear", "log", "halt", "exit"}
    PROVE  [r EXCEPT !.pc = p, !.state = n, !.overtaken = b] \in HandlerType
BY DEF HandlerType

LEMMA CpuFields ==
    \A r \in CpuType :
       /\ \A b \in BOOLEAN : /\ [r EXCEPT !.stalled = b] \in CpuType /\ [r EXCEPT !.hidden = b] \in CpuType
                             /\ [r EXCEPT !.dsr = b] \in CpuType /\ [r EXCEPT !.st = b] \in CpuType
       /\ \A a \in Addrs : [r EXCEPT !.npc = a] \in CpuType /\ [r EXCEPT !.ppc = a] \in CpuType
       /\ \A d \in Reasons : [r EXCEPT !.drr = d] \in CpuType
BY DEF CpuType

LEMMA GdbFields ==
    \A r \in GdbType :
       /\ \A c \in {"away", "idle", "reply", "run"} : [r EXCEPT !.state = c] \in GdbType
       /\ \A n \in Nat : /\ [r EXCEPT !.requests = n] \in GdbType /\ [r EXCEPT !.breaks = n] \in GdbType
                         /\ [r EXCEPT !.sessions = n] \in GdbType
       /\ \A m \in [Addrs -> Code] : [r EXCEPT !.image = m] \in GdbType
BY DEF GdbType

LEMMA GdbFields2 ==
    ASSUME NEW r \in GdbType, NEW c \in {"away", "idle", "reply", "run"}
    PROVE  /\ [r EXCEPT !.state = c, !.sessions = @ + 1] \in GdbType
           /\ [r EXCEPT !.state = c, !.requests = @ + 1] \in GdbType
<1>1. r.sessions + 1 \in Nat /\ r.requests + 1 \in Nat
  BY DEF GdbType
<1>2. \A n \in Nat : /\ [r EXCEPT !.state = c, !.sessions = n] \in GdbType
                     /\ [r EXCEPT !.state = c, !.requests = n] \in GdbType
  BY DEF GdbType
<1> QED BY <1>1, <1>2

\* The first step taken off.
LEMMA Popped ==
    ASSUME RspCore, todo # <<>>, todo' = Tail(todo)
    PROVE  /\ (todo \in Seq(Micro))' /\ Programs'
           /\ \A op \in FirstOnly \cup {"report"} : ~At(op)'
           /\ Head(todo).op # "run" => ~At("go")'
           /\ NoGo(todo)' => Head(todo).op = "go" \/ NoGo(todo)
<1>1. todo \in Seq(Micro) /\ Formed(todo)
  BY DEF RspCore, Programs
<1>2. /\ Tail(todo) \in Seq(Micro) /\ Formed(Tail(todo))
      /\ Tail(todo) # <<>> => /\ Head(Tail(todo)).op \notin FirstOnly \cup {"report"}
                              /\ Head(Tail(todo)).op = "go" => Head(todo).op = "run"
      /\ NoGo(Tail(todo)) => Head(todo).op = "go" \/ NoGo(todo)
  BY <1>1, PopFacts
<1>3. Formed(todo')
  BY <1>2
<1>4. Programs'
  BY <1>2, <1>3 DEF Programs
<1>5. NoGo(todo') => Head(todo).op = "go" \/ NoGo(todo)
  BY <1>2
<1>6. \A op \in FirstOnly \cup {"report"} : ~At(op)'
  BY <1>2 DEF At
<1>7. Head(todo).op # "run" => ~At("go")'
  BY <1>2 DEF At
<1> QED BY <1>2, <1>4, <1>5, <1>6, <1>7

LEMMA PoppedReleases ==
    ASSUME RspCore, todo # <<>>, todo' = Tail(todo), Head(todo).op \notin {"run", "go"},
           rsp'.running = rsp.running, cpu.stalled => cpu'.stalled,
           th'.pc = "clear" => th.pc = "clear", ~th'.overtaken => ~th.overtaken
    PROVE  Releases'
<1>1. ~At("go")'
  BY Popped
<1>2. ~th.overtaken => (~cpu.stalled => rsp.running) /\ (th.pc = "clear" => cpu.stalled)
  BY DEF RspCore, Releases
<1> QED BY <1>1, <1>2 DEF Releases

LEMMA PoppedReports ==
    ASSUME RspCore, todo # <<>>, todo' = Tail(todo), Head(todo).op # "go",
           rsp'.running = rsp.running, rsp'.sigval = rsp.sigval, cpu.stalled => cpu'.stalled,
           cpu'.drr = cpu.drr, pipe' = pipe,
           th'.pc = "log" => th.pc = "log", ~th'.overtaken => ~th.overtaken
    PROVE  Reports'
<1> SUFFICES ASSUME ~th'.overtaken, NoGo(todo)'
             PROVE  /\ th'.pc = "log" => Stopped'
                    /\ pipe' > 0 \/ At("report")' => Stopped' /\ Signalled'
  BY DEF Reports
<1>1. ~At("report")' /\ NoGo(todo)
  BY Popped DEF FirstOnly
<1>2. /\ th.pc = "log" => Stopped
      /\ pipe > 0 => Stopped /\ Signalled
  BY <1>1 DEF RspCore, Reports
<1>3. (Stopped => Stopped') /\ (Signalled => Signalled')
  BY DEF Stopped, Signalled
<1> QED BY <1>1, <1>2, <1>3

LEMMA PoppedCopies ==
    ASSUME RspCore, todo # <<>>, todo' = Tail(todo), Head(todo).op \notin {"run", "go"},
           rsp'.running = rsp.running, rsp'.npc = rsp.npc,
           cpu'.npc = cpu.npc, cpu'.hidden = cpu.hidden, cpu'.stalled = cpu.stalled,
           ~th'.overtaken => ~th.overtaken
    PROVE  Copies'
<1>1. ~At("go")
  BY DEF At
<1>2. ~th.overtaken =>
        /\ rsp.running => rsp.npc = NoAddr
        /\ rsp.npc # NoAddr => rsp.npc = cpu.npc
        /\ cpu.hidden /\ rsp.npc = NoAddr => rsp.running /\ ~cpu.stalled
  BY <1>1 DEF RspCore, Copies
<1> QED BY <1>2 DEF Copies

LEMMA PoppedStepMode ==
    ASSUME RspCore, todo # <<>>, todo' = Tail(todo), Head(todo).op \notin {"noSingle", "single"},
           ~Continues(Head(todo)), rsp'.single = rsp.single, cpu'.st = cpu.st
    PROVE  StepMode'
<1>1. todo \in Seq(Micro) /\ Formed(todo)
  BY DEF RspCore, Programs
<1>2. /\ (\E i \in DOMAIN todo : Continues(todo[i])) => \E i \in DOMAIN Tail(todo) : Continues(Tail(todo)[i])
      /\ \A i \in DOMAIN Tail(todo) : Continues(Tail(todo)[i]) /\ i <= 3 =>
            \E j \in DOMAIN todo : Continues(todo[j]) /\ j <= 3
  BY <1>1, PopFacts
<1>3. (\A i \in DOMAIN todo : Continues(todo[i]) /\ i <= 3 => ~cpu.st)
      /\ (rsp.single = cpu.st \/ (~cpu.st /\ \E i \in DOMAIN todo : Continues(todo[i])))
  BY DEF RspCore, StepMode
<1>4. \A i \in DOMAIN Tail(todo) : Continues(Tail(todo)[i]) /\ i <= 3 => ~cpu'.st
  BY <1>2, <1>3
<1>5. rsp'.single = cpu'.st \/ (~cpu'.st /\ \E i \in DOMAIN Tail(todo) : Continues(Tail(todo)[i]))
  BY <1>2, <1>3
<1> QED BY <1>4, <1>5 DEF StepMode, Continues

LEMMA PoppedRequested ==
    ASSUME RspCore, todo # <<>>, todo' = Tail(todo), toServer' = toServer, toClient' = toClient,
           gdb'.state = gdb.state, gdb'.sessions = gdb.sessions, rsp'.client = rsp.client,
           \A a \in Addrs : rsp.mp[a] = None => rsp'.mp[a] = None \/ At("insert")
    PROVE  Requested'
<1>1. ~At("insert")' /\ ~At("writeMem")'
  BY Popped DEF FirstOnly
<1>2. RspTypeOK /\ Requested
  BY DEF RspCore
<1>3. toServer # <<>> /\ toServer[1].k \in {"M", "X"} => toServer[1].addr \in Addrs
  <2>1. toServer # <<>> => toServer[1] \in Request \cup {Ack, Break, Eof}
    BY <1>2 DEF RspTypeOK
  <2> QED BY <2>1, RequestFacts DEF Ack, Break, Eof, WithAddr
<1>4. /\ \A i \in DOMAIN toServer : i > 1 => toServer[i] \in {Ack, Break, Eof}
      /\ ~rsp.client => gdb.state = "away" /\ toServer = <<>>
      /\ ~rsp.client \/ gdb.state = "away" => toClient = <<>>
      /\ toServer # <<>> /\ toServer[1].k = "Z" => gdb.state # "idle" \/ Len(toServer) > 1
      /\ toServer # <<>> /\ toServer[1].k \in {"M", "X"}
           => gdb.sessions > 1 \/ (rsp.mp[toServer[1].addr] = None /\ ~At("insert"))
  BY <1>2 DEF Requested
<1>5. toServer # <<>> /\ toServer[1].k \in {"M", "X"}
           => gdb.sessions > 1 \/ rsp'.mp[toServer[1].addr] = None
  BY <1>3, <1>4
<1> QED BY <1>1, <1>4, <1>5 DEF Requested

LEMMA KeptTable ==
    ASSUME RspCore, gdb'.sessions = gdb.sessions, rsp'.mp = rsp.mp, mem' = mem, gdb'.image = gdb.image
    PROVE  Table'
BY DEF RspCore, Table

\* A step that touches neither the processor as it is seen nor the copies of it.
LEMMA PoppedAside ==
    ASSUME RspCore, todo # <<>>, todo' = Tail(todo), Head(todo).op \notin {"run", "go", "single", "noSingle"},
           ~Continues(Head(todo)),
           rsp'.running = rsp.running, rsp'.sigval = rsp.sigval, rsp'.npc = rsp.npc, rsp'.single = rsp.single,
           cpu'.stalled = cpu.stalled, cpu'.npc = cpu.npc, cpu'.hidden = cpu.hidden, cpu'.st = cpu.st,
           cpu'.drr = cpu.drr, pipe' = pipe,
           th'.pc \in {"clear", "log"} => th'.pc = th.pc, ~th'.overtaken => ~th.overtaken
    PROVE  (todo \in Seq(Micro))' /\ Programs' /\ Releases' /\ Reports' /\ Copies' /\ StepMode'
<1>1. (todo \in Seq(Micro))' /\ Programs'
  BY Popped
<1>2. th'.pc = "clear" => th.pc = "clear"
  OBVIOUS
<1>3. th'.pc = "log" => th.pc = "log"
  OBVIOUS
<1>4. Releases'
  BY <1>2, PoppedReleases
<1>5. Reports'
  BY <1>3, PoppedReports
<1>6. Copies'
  BY PoppedCopies
<1>7. StepMode'
  BY PoppedStepMode
<1> QED BY <1>1, <1>4, <1>5, <1>6, <1>7

\* The address of a step on registers or memory.
LEMMA FirstArg ==
    ASSUME RspCore, todo # <<>>, Head(todo).op \in FirstOnly
    PROVE  Arg \in Addrs /\ ~rsp.running
<1>1. todo \in Seq(Micro) /\ Programs
  BY DEF RspCore
<1>2. 1 \in DOMAIN todo /\ Head(todo) = todo[1]
  BY <1>1
<1>3. Formed(todo) /\ ~rsp.running
  BY <1>1 DEF Programs
<1> QED BY <1>2, <1>3 DEF Formed, Arg

-----------------------------------------------------------------------------
(* The steps of the server                                                  *)

LEMMA CloseCore == RspCore /\ CloseStep => RspCore'
<1> SUFFICES ASSUME RspCore, CloseStep PROVE RspCore'
  OBVIOUS
<1>1. RspTypeOK
  BY DEF RspCore
<1>2. todo # <<>> /\ todo' = Tail(todo) /\ Head(todo).op = "close"
  BY DEF CloseStep, At, Next1
<1>3. /\ rsp' = [rsp EXCEPT !.client = FALSE] /\ th' = [th EXCEPT !.state = 0]
      /\ toServer' = <<>> /\ toClient' = <<>> /\ gdb' = [gdb EXCEPT !.state = "away"]
      /\ reading' = reading /\ up' = up /\ pipe' = pipe /\ cpu' = cpu /\ mem' = mem
  BY DEF CloseStep, targetVars
<1>4. /\ rsp'.running = rsp.running /\ rsp'.sigval = rsp.sigval /\ rsp'.npc = rsp.npc
      /\ rsp'.single = rsp.single /\ rsp'.mp = rsp.mp /\ rsp'.client = FALSE
      /\ th'.pc = th.pc /\ th'.overtaken = th.overtaken
      /\ gdb'.sessions = gdb.sessions /\ gdb'.image = gdb.image
      /\ gdb'.state = "away"
  BY <1>1, <1>3 DEF RspTypeOK
<1>5. RspTypeOK'
  <2>1. rsp' \in RspType
    BY <1>1, <1>3, RspFields DEF RspTypeOK
  <2>2. th' \in HandlerType
    BY <1>1, <1>3 DEF RspTypeOK, HandlerType
  <2>3. gdb' \in GdbType
    BY <1>1, <1>3, GdbFields DEF RspTypeOK
  <2> QED BY <1>1, <1>3, <2>1, <2>2, <2>3 DEF RspTypeOK
<1>6. ~Continues(Head(todo))
  BY <1>2 DEF Continues
<1>7. (todo \in Seq(Micro))' /\ Programs' /\ Releases' /\ Reports' /\ Copies' /\ StepMode'
  BY <1>2, <1>3, <1>4, <1>6, PoppedAside
<1>8. Requested'
  <2>1. ~At("insert")' /\ ~At("writeMem")'
    BY <1>2, Popped DEF FirstOnly
  <2> QED BY <1>3, <1>4, <2>1 DEF Requested
<1>9. Table'
  BY <1>3, <1>4, KeptTable
<1> QED BY <1>5, <1>7, <1>8, <1>9 DEF RspCore

LEMMA DataCore == RspCore /\ DataStep => RspCore'
<1> SUFFICES ASSUME RspCore, DataStep PROVE RspCore'
  OBVIOUS
<1>1. RspTypeOK
  BY DEF RspCore
<1>2. /\ up /\ todo # <<>> /\ todo' = Tail(todo) /\ reading' = reading /\ up' = up /\ th' = th /\ pipe' = pipe
      /\ cpu' = cpu /\ mem' = mem /\ toServer' = toServer /\ toClient' = toClient /\ gdb' = gdb
  BY DEF DataStep, At, Next1, targetVars, clientVars
<1>3. CASE Head(todo).op = "run"
  <2>1. rsp' = [rsp EXCEPT !.npc = NoAddr, !.running = TRUE]
    BY <1>3 DEF DataStep, At
  <2>2. /\ rsp'.running = TRUE /\ rsp'.npc = NoAddr /\ rsp'.sigval = rsp.sigval /\ rsp'.single = rsp.single
        /\ rsp'.mp = rsp.mp /\ rsp'.client = rsp.client
    BY <1>1, <2>1 DEF RspTypeOK
  <2>3. RspTypeOK'
    <3>1. rsp' \in RspType
      BY <1>1, <2>1 DEF RspTypeOK, RspType
    <3> QED BY <1>1, <1>2, <3>1 DEF RspTypeOK
  <2>4. (todo \in Seq(Micro))' /\ Programs'
    BY <1>2, Popped
  <2>5. Releases'
    BY <1>2, <2>2 DEF Releases, RspCore
  <2>6. ~NoGo(todo') /\ todo' # <<>> /\ Head(todo').op = "go"
    BY <1>2, <1>3, PopFacts DEF RspCore, Programs
  <2>7. Reports'
    BY <2>6 DEF Reports
  <2>8. Copies'
    <3>1. At("go")'
      BY <1>2, <2>6 DEF At
    <3> QED BY <2>2, <3>1 DEF Copies
  <2>9. StepMode'
    <3>1. ~Continues(Head(todo))
      BY <1>3 DEF Continues
    <3> QED BY <1>2, <1>3, <2>2, <3>1, PoppedStepMode
  <2>10. Requested'
    BY <1>2, <2>2, PoppedRequested
  <2>11. Table'
    BY <1>2, <2>2, KeptTable
  <2> QED BY <2>3, <2>4, <2>5, <2>7, <2>8, <2>9, <2>10, <2>11 DEF RspCore
<1>4. CASE Head(todo).op = "reported"
  <2>1. rsp' = [rsp EXCEPT !.waiting = FALSE]
    BY <1>4 DEF DataStep, At
  <2>2. /\ rsp'.running = rsp.running /\ rsp'.npc = rsp.npc /\ rsp'.sigval = rsp.sigval
        /\ rsp'.single = rsp.single /\ rsp'.mp = rsp.mp /\ rsp'.client = rsp.client
    BY <1>1, <2>1 DEF RspTypeOK
  <2>3. RspTypeOK'
    <3>1. rsp' \in RspType
      BY <1>1, <2>1 DEF RspTypeOK, RspType
    <3> QED BY <1>1, <1>2, <3>1 DEF RspTypeOK
  <2>4. ~Continues(Head(todo))
    BY <1>4 DEF Continues
  <2>5. (todo \in Seq(Micro))' /\ Programs' /\ Releases' /\ Reports' /\ Copies' /\ StepMode'
    BY <1>2, <1>4, <2>2, <2>4, PoppedAside
  <2>6. Requested'
    BY <1>2, <2>2, PoppedRequested
  <2>7. Table'
    BY <1>2, <2>2, KeptTable
  <2> QED BY <2>3, <2>5, <2>6, <2>7 DEF RspCore
<1> QED BY <1>3, <1>4 DEF DataStep, At

LEMMA GoCore == RspCore /\ GoStep => RspCore'
<1> SUFFICES ASSUME RspCore, GoStep PROVE RspCore'
  OBVIOUS
<1>1. RspTypeOK
  BY DEF RspCore
<1>2. /\ At("go") /\ todo # <<>> /\ todo' = Tail(todo) /\ Head(todo).op = "go"
      /\ cpu' = [cpu EXCEPT !.stalled = FALSE]
      /\ th' = [th EXCEPT !.overtaken = @ \/ pipe > 0 \/ th.pc \in {"clear", "log", "halt"}]
      /\ rsp' = rsp /\ reading' = reading /\ up' = up /\ pipe' = pipe /\ mem' = mem
      /\ toServer' = toServer /\ toClient' = toClient /\ gdb' = gdb
  BY DEF GoStep, At, Next1, clientVars
<1>3. /\ cpu'.stalled = FALSE /\ cpu'.npc = cpu.npc /\ cpu'.hidden = cpu.hidden /\ cpu'.st = cpu.st
      /\ th'.pc = th.pc
      /\ th'.overtaken = (th.overtaken \/ pipe > 0 \/ th.pc \in {"clear", "log", "halt"})
  BY <1>1, <1>2 DEF RspTypeOK
<1>4. RspTypeOK'
  <2>1. cpu' \in CpuType
    BY <1>1, <1>2, CpuFields DEF RspTypeOK
  <2>2. (th.overtaken \/ pipe > 0 \/ th.pc \in {"clear", "log", "halt"}) \in BOOLEAN
    OBVIOUS
  <2>3. th' \in HandlerType
    BY <1>1, <1>2, <2>2, HandlerFields DEF RspTypeOK
  <2> QED BY <1>1, <1>2, <2>1, <2>3 DEF RspTypeOK
<1>5. (todo \in Seq(Micro))' /\ Programs' /\ ~At("report")' /\ ~At("go")'
  BY <1>2, Popped
<1>6. ~th'.overtaken => ~th.overtaken /\ ~(pipe > 0) /\ th.pc \notin {"clear", "log"}
  BY <1>3
<1>7. ~th'.overtaken => rsp.running
  BY <1>2, <1>6 DEF RspCore, Releases
<1>8. Releases'
  BY <1>2, <1>3, <1>5, <1>6, <1>7 DEF Releases
<1>9. Reports'
  BY <1>2, <1>3, <1>5, <1>6 DEF Reports
<1>10. Copies'
  <2>1. ~th.overtaken =>
          /\ rsp.running => rsp.npc = NoAddr
          /\ rsp.npc # NoAddr => rsp.npc = cpu.npc
    BY DEF RspCore, Copies
  <2> QED BY <1>2, <1>3, <1>6, <1>7, <2>1 DEF Copies
<1>11. StepMode'
  <2>1. ~Continues(Head(todo))
    BY <1>2 DEF Continues
  <2> QED BY <1>2, <1>3, <2>1, PoppedStepMode
<1>12. Requested'
  BY <1>2, PoppedRequested
<1>13. Table'
  BY <1>2, KeptTable
<1> QED BY <1>4, <1>5, <1>8, <1>9, <1>10, <1>11, <1>12, <1>13 DEF RspCore

LEMMA CpuAccessCore == RspCore /\ CpuAccess => RspCore'
<1> SUFFICES ASSUME RspCore, CpuAccess PROVE RspCore'
  OBVIOUS
<1>1. RspTypeOK
  BY DEF RspCore
<1>2. /\ up /\ todo # <<>> /\ todo' = Tail(todo) /\ reading' = reading /\ up' = up /\ th' = th /\ pipe' = pipe
      /\ mem' = mem /\ toServer' = toServer /\ toClient' = toClient /\ gdb' = gdb
  BY DEF CpuAccess, At, Next1, clientVars
<1>3. (todo \in Seq(Micro))' /\ Programs'
  BY <1>2, Popped
<1>4. CASE Head(todo).op = "stall"
  <2>1. (cpu.stalled \/ ~cpu.hidden) /\ cpu' = [cpu EXCEPT !.stalled = TRUE] /\ rsp' = rsp
    BY <1>4 DEF CpuAccess, At
  <2>2. /\ cpu'.stalled = TRUE /\ cpu'.npc = cpu.npc /\ cpu'.hidden = cpu.hidden /\ cpu'.st = cpu.st
        /\ cpu'.drr = cpu.drr
    BY <1>1, <2>1 DEF RspTypeOK, CpuType
  <2>3. cpu' \in CpuType
    BY <1>1, <2>1, CpuFields DEF RspTypeOK
  <2>4. RspTypeOK'
    BY <1>1, <1>2, <2>1, <2>3 DEF RspTypeOK
  <2>5. ~Continues(Head(todo)) /\ ~At("go")
    BY <1>4 DEF Continues, At
  <2>6. Releases'
    BY <1>2, <1>4, <2>1, <2>2, PoppedReleases
  <2>7. Reports'
    BY <1>2, <1>4, <2>1, <2>2, PoppedReports
  <2>8. Copies'
    <3>1. ~th.overtaken =>
            /\ rsp.running => rsp.npc = NoAddr
            /\ rsp.npc # NoAddr => rsp.npc = cpu.npc
            /\ cpu.hidden /\ rsp.npc = NoAddr => rsp.running /\ ~cpu.stalled
      BY <2>5 DEF RspCore, Copies
    <3> QED BY <1>2, <2>1, <2>2, <3>1 DEF Copies
  <2>9. StepMode'
    BY <1>2, <1>4, <2>1, <2>2, <2>5, PoppedStepMode
  <2>10. Requested' /\ Table'
    BY <1>2, <2>1, PoppedRequested, KeptTable
  <2> QED BY <1>3, <2>4, <2>6, <2>7, <2>8, <2>9, <2>10 DEF RspCore
<1>5. CASE Head(todo).op = "clearDsr"
  <2>1. cpu' = [cpu EXCEPT !.dsr = FALSE] /\ rsp' = rsp
    BY <1>5 DEF CpuAccess, At
  <2>2. /\ cpu'.stalled = cpu.stalled /\ cpu'.npc = cpu.npc /\ cpu'.hidden = cpu.hidden
        /\ cpu'.st = cpu.st /\ cpu'.drr = cpu.drr
    BY <1>1, <2>1 DEF RspTypeOK, CpuType
  <2>3. cpu' \in CpuType
    BY <1>1, <2>1, CpuFields DEF RspTypeOK
  <2>4. RspTypeOK'
    BY <1>1, <1>2, <2>1, <2>3 DEF RspTypeOK
  <2>5. ~Continues(Head(todo))
    BY <1>5 DEF Continues
  <2>6. Releases' /\ Reports' /\ Copies' /\ StepMode'
    BY <1>2, <1>5, <2>1, <2>2, <2>5, PoppedAside
  <2>7. Requested' /\ Table'
    BY <1>2, <2>1, PoppedRequested, KeptTable
  <2> QED BY <1>3, <2>4, <2>6, <2>7 DEF RspCore
<1>6. ASSUME Head(todo).op \in {"noSingle", "single"}, cpu'.stalled = cpu.stalled, cpu'.npc = cpu.npc,
             cpu'.hidden = cpu.hidden, rsp'.running = rsp.running, rsp'.npc = rsp.npc, rsp'.mp = rsp.mp,
             rsp'.client = rsp.client
      PROVE  Releases' /\ Reports' /\ Copies' /\ Requested' /\ Table'
  <2>1. Releases'
    BY <1>2, <1>6, PoppedReleases
  <2>2. ~NoGo(todo')
    BY <1>2, <1>6, PopFacts DEF RspCore, Programs
  <2>3. Reports'
    BY <2>2 DEF Reports
  <2>4. Copies'
    BY <1>2, <1>6, PoppedCopies
  <2>5. Requested' /\ Table'
    BY <1>2, <1>6, PoppedRequested, KeptTable
  <2> QED BY <2>1, <2>3, <2>4, <2>5
<1>7. CASE Head(todo).op = "noSingle"
  <2>1. cpu' = [cpu EXCEPT !.drr = None, !.st = FALSE] /\ rsp' = rsp
    BY <1>7 DEF CpuAccess, At
  <2>2. /\ cpu'.stalled = cpu.stalled /\ cpu'.npc = cpu.npc /\ cpu'.hidden = cpu.hidden
        /\ cpu'.st = FALSE
    BY <1>1, <2>1 DEF RspTypeOK, CpuType
  <2>3. cpu' \in CpuType
    BY <1>1, <2>1 DEF RspTypeOK, CpuType, Reasons
  <2>4. RspTypeOK'
    BY <1>1, <1>2, <2>1, <2>3 DEF RspTypeOK
  <2>5. Releases' /\ Reports' /\ Copies' /\ Requested' /\ Table'
    BY <1>6, <1>7, <2>1, <2>2
  <2>6. \E i \in DOMAIN Tail(todo) : Continues(Tail(todo)[i])
    BY <1>2, <1>7, PopFacts DEF RspCore, Programs
  <2>7. StepMode'
    BY <1>2, <2>2, <2>6 DEF StepMode, Continues
  <2> QED BY <1>3, <2>4, <2>5, <2>7 DEF RspCore
<1>8. CASE Head(todo).op = "single"
  <2>1. SetSingle
    BY <1>8 DEF CpuAccess, At
  <2>2. /\ cpu' = IF rsp.single THEN [cpu EXCEPT !.drr = None]
                  ELSE [cpu EXCEPT !.drr = None, !.st = TRUE, !.dsr = TRUE]
        /\ rsp' = [rsp EXCEPT !.single = TRUE]
    BY <2>1 DEF SetSingle
  <2>3. /\ cpu'.stalled = cpu.stalled /\ cpu'.npc = cpu.npc /\ cpu'.hidden = cpu.hidden
        /\ (rsp.single => cpu'.st = cpu.st) /\ (~rsp.single => cpu'.st = TRUE)
    BY <1>1, <2>2 DEF RspTypeOK, CpuType
  <2>4. /\ rsp'.running = rsp.running /\ rsp'.npc = rsp.npc /\ rsp'.mp = rsp.mp /\ rsp'.client = rsp.client
        /\ rsp'.single = TRUE
    BY <1>1, <2>2 DEF RspTypeOK, RspType
  <2>5. cpu' \in CpuType
    BY <1>1, <2>2 DEF RspTypeOK, CpuType, Reasons
  <2>6. rsp' \in RspType
    BY <1>1, <2>2, RspFields DEF RspTypeOK
  <2>7. RspTypeOK'
    BY <1>1, <1>2, <2>5, <2>6 DEF RspTypeOK
  <2>8. Releases' /\ Reports' /\ Copies' /\ Requested' /\ Table'
    BY <1>6, <1>8, <2>3, <2>4
  <2>9. StepMode'
    <3>1. /\ \A i \in DOMAIN Tail(todo) : ~Continues(Tail(todo)[i])
          /\ (\E i \in DOMAIN todo : Continues(todo[i])) =>
                 Continues(Head(todo)) \/ \E i \in DOMAIN Tail(todo) : Continues(Tail(todo)[i])
      BY <1>2, <1>8, PopFacts DEF RspCore, Programs
    <3>2. ~\E i \in DOMAIN todo : Continues(todo[i])
      BY <1>8, <3>1 DEF Continues
    <3>3. rsp.single = cpu.st
      BY <3>2 DEF RspCore, StepMode
    <3>4. cpu'.st = TRUE
      <4>1. CASE rsp.single
        BY <1>1, <2>3, <3>3, <4>1, Types
      <4>2. CASE ~rsp.single
        BY <2>3, <4>2
      <4> QED BY <4>1, <4>2
    <3> QED BY <1>2, <2>4, <3>1, <3>4 DEF StepMode, Continues
  <2> QED BY <1>3, <2>7, <2>8, <2>9 DEF RspCore
<1>9. CASE Head(todo).op = "setNpc"
  <2>1. set_npc(Arg)
    BY <1>9 DEF CpuAccess, At
  <2>2. cpu' = [cpu EXCEPT !.npc = Arg, !.hidden = TRUE] /\ rsp' = [rsp EXCEPT !.npc = Arg]
    BY <2>1 DEF set_npc
  <2>3. Arg \in Addrs /\ ~rsp.running
    BY <1>2, <1>9, FirstArg DEF FirstOnly
  <2>4. /\ cpu'.stalled = cpu.stalled /\ cpu'.npc = Arg /\ cpu'.hidden = TRUE /\ cpu'.st = cpu.st
        /\ cpu'.drr = cpu.drr
    BY <1>1, <2>2 DEF RspTypeOK, CpuType
  <2>5. /\ rsp'.running = rsp.running /\ rsp'.npc = Arg /\ rsp'.mp = rsp.mp /\ rsp'.client = rsp.client
        /\ rsp'.single = rsp.single /\ rsp'.sigval = rsp.sigval
    BY <1>1, <2>2 DEF RspTypeOK, RspType
  <2>6. cpu' \in CpuType
    BY <1>1, <2>2, <2>3 DEF RspTypeOK, CpuType
  <2>7. rsp' \in RspType
    BY <1>1, <2>2, <2>3, RspFields DEF RspTypeOK
  <2>8. RspTypeOK'
    BY <1>1, <1>2, <2>6, <2>7 DEF RspTypeOK
  <2>9. Releases'
    BY <1>2, <1>9, <2>4, <2>5, PoppedReleases
  <2>10. Reports'
    BY <1>2, <1>9, <2>4, <2>5, PoppedReports
  <2>11. Copies'
    <3>1. Arg # NoAddr
      BY <2>3, AddrFacts
    <3> QED BY <2>3, <2>4, <2>5, <3>1 DEF Copies
  <2>12. StepMode'
    <3>1. ~Continues(Head(todo))
      BY <1>9 DEF Continues
    <3> QED BY <1>2, <1>9, <2>4, <2>5, <3>1, PoppedStepMode
  <2>13. Requested' /\ Table'
    BY <1>2, <2>5, PoppedRequested, KeptTable
  <2> QED BY <1>3, <2>8, <2>9, <2>10, <2>11, <2>12, <2>13 DEF RspCore
<1> QED BY <1>4, <1>5, <1>7, <1>8, <1>9 DEF CpuAccess, At

LEMMA MemAccessCore == RspCore /\ MemAccess => RspCore'
<1> SUFFICES ASSUME RspCore, MemAccess PROVE RspCore'
  OBVIOUS
<1>1. RspTypeOK
  BY DEF RspCore
<1>2. /\ up /\ todo # <<>> /\ todo' = Tail(todo) /\ reading' = reading /\ up' = up /\ th' = th /\ pipe' = pipe
      /\ cpu' = cpu /\ toServer' = toServer /\ toClient' = toClient
      /\ Head(todo).op \in {"writeMem", "insert", "remove"}
  BY DEF MemAccess, At, Next1
<1>3. Arg \in Addrs
  BY <1>2, FirstArg DEF FirstOnly
<1>4. ~Continues(Head(todo))
  BY <1>2 DEF Continues
<1>5. Table /\ Requested
  BY DEF RspCore
<1>6. mem \in [Addrs -> Code \cup {Trap}] /\ rsp.mp \in [Addrs -> Code \cup {None, Trap}]
      /\ gdb.image \in [Addrs -> Code] /\ gdb.sessions \in Nat
  BY <1>1, Types
<1>7. None \notin Code \cup {Trap}
  BY DEF None, Code, Trap
<1>8. CASE Head(todo).op = "writeMem"
  <2>1. mem' = [mem EXCEPT ![Arg] = "new"] /\ gdb' = [gdb EXCEPT !.image[Arg] = "new"] /\ rsp' = rsp
    BY <1>8 DEF MemAccess, At
  <2>2. /\ gdb'.state = gdb.state /\ gdb'.sessions = gdb.sessions
        /\ gdb'.image = [gdb.image EXCEPT ![Arg] = "new"]
    BY <1>1, <2>1 DEF RspTypeOK, GdbType
  <2>3. mem' \in [Addrs -> Code \cup {Trap}] /\ gdb'.image \in [Addrs -> Code]
    BY <1>3, <1>6, <2>1, <2>2 DEF Code
  <2>4. gdb' = [gdb EXCEPT !.image = gdb'.image]
    BY <1>1, <2>1, <2>2 DEF RspTypeOK, GdbType
  <2>5. gdb' \in GdbType
    BY <1>1, <2>3, <2>4, GdbFields DEF RspTypeOK
  <2>6. RspTypeOK'
    BY <1>1, <1>2, <2>1, <2>3, <2>5 DEF RspTypeOK
  <2>7. (todo \in Seq(Micro))' /\ Programs' /\ Releases' /\ Reports' /\ Copies' /\ StepMode'
    BY <1>2, <1>4, <1>8, <2>1, <2>2, PoppedAside
  <2>8. Requested'
    BY <1>2, <2>1, <2>2, PoppedRequested
  <2>9. Table'
    <3> SUFFICES ASSUME gdb.sessions <= 1, NEW a \in Addrs
                 PROVE  IF rsp.mp[a] = None THEN mem'[a] = gdb'.image[a]
                        ELSE mem'[a] = Trap /\ rsp.mp[a] = gdb'.image[a]
      BY <2>1, <2>2 DEF Table
    <3>1. IF rsp.mp[a] = None THEN mem[a] = gdb.image[a] ELSE mem[a] = Trap /\ rsp.mp[a] = gdb.image[a]
      BY <1>5 DEF Table
    <3>2. At("writeMem") /\ ~(gdb.sessions > 1)
      BY <1>2, <1>6, <1>8 DEF At
    <3>3. rsp.mp[Arg] = None
      BY <1>5, <3>2 DEF Requested
    <3>4. CASE a = Arg
      BY <1>3, <1>6, <2>1, <2>2, <3>3, <3>4
    <3>5. CASE a # Arg
      <4>1. mem'[a] = mem[a] /\ gdb'.image[a] = gdb.image[a]
        BY <1>6, <2>1, <2>2, <3>5
      <4> QED BY <3>1, <4>1
    <3> QED BY <3>4, <3>5
  <2> QED BY <2>6, <2>7, <2>8, <2>9 DEF RspCore
<1>9. CASE Head(todo).op = "insert"
  <2>1. /\ rsp' = [rsp EXCEPT !.mp = mp_hash_add(@, Arg, mem[Arg])] /\ mem' = [mem EXCEPT ![Arg] = Trap]
        /\ gdb' = gdb
    BY <1>9 DEF MemAccess, At, rsp_insert_matchpoint
  <2>2. /\ rsp'.running = rsp.running /\ rsp'.sigval = rsp.sigval /\ rsp'.npc = rsp.npc
        /\ rsp'.single = rsp.single /\ rsp'.client = rsp.client
        /\ rsp'.mp = mp_hash_add(rsp.mp, Arg, mem[Arg])
    BY <1>1, <2>1 DEF RspTypeOK, RspType
  <2>3. rsp'.mp \in [Addrs -> Code \cup {None, Trap}]
    BY <1>3, <1>6, <2>2 DEF mp_hash_add
  <2>4. rsp' \in RspType
    <3>1. rsp' = [rsp EXCEPT !.mp = rsp'.mp]
      BY <2>1, <2>2
    <3> QED BY <1>1, <2>3, <3>1, RspFields DEF RspTypeOK
  <2>5. mem' \in [Addrs -> Code \cup {Trap}]
    BY <1>3, <1>6, <2>1
  <2>6. RspTypeOK'
    BY <1>1, <1>2, <2>1, <2>4, <2>5 DEF RspTypeOK
  <2>7. (todo \in Seq(Micro))' /\ Programs' /\ Releases' /\ Reports' /\ Copies' /\ StepMode'
    BY <1>2, <1>4, <1>9, <2>1, <2>2, PoppedAside
  <2>8. Requested'
    <3>1. At("insert")
      BY <1>2, <1>9 DEF At
    <3> QED BY <1>2, <2>1, <2>2, <3>1, PoppedRequested
  <2>9. Table'
    <3> SUFFICES ASSUME gdb.sessions <= 1, NEW a \in Addrs
                 PROVE  IF rsp'.mp[a] = None THEN mem'[a] = gdb.image[a]
                        ELSE mem'[a] = Trap /\ rsp'.mp[a] = gdb.image[a]
      BY <2>1 DEF Table
    <3>1. IF rsp.mp[a] = None THEN mem[a] = gdb.image[a] ELSE mem[a] = Trap /\ rsp.mp[a] = gdb.image[a]
      BY <1>5 DEF Table
    <3>2. gdb.image[a] \in Code
      BY <1>6
    <3>3. CASE a = Arg
      <4>1. mem'[a] = Trap
        BY <1>3, <1>6, <2>1, <3>3
      <4>2. rsp'.mp[a] = gdb.image[a]
        <5>1. CASE rsp.mp[a] = None
          <6>1. rsp'.mp[a] = mem[a]
            BY <1>3, <1>6, <2>2, <3>3, <5>1 DEF mp_hash_add
          <6> QED BY <3>1, <5>1, <6>1
        <5>2. CASE rsp.mp[a] # None
          <6>1. rsp'.mp[a] = rsp.mp[a]
            BY <1>3, <1>6, <2>2, <3>3, <5>2 DEF mp_hash_add
          <6> QED BY <3>1, <5>2, <6>1
        <5> QED BY <5>1, <5>2
      <4> QED BY <1>7, <3>2, <4>1, <4>2
    <3>4. CASE a # Arg
      <4>1. mem'[a] = mem[a] /\ rsp'.mp[a] = rsp.mp[a]
        BY <1>6, <2>1, <2>2, <3>4 DEF mp_hash_add
      <4> QED BY <3>1, <4>1
    <3> QED BY <3>3, <3>4
  <2> QED BY <2>6, <2>7, <2>8, <2>9 DEF RspCore
<1>10. CASE Head(todo).op = "remove"
  <2>1. /\ rsp' = [rsp EXCEPT !.mp = mp_hash_delete(@, Arg)] /\ gdb' = gdb
        /\ mem' = IF rsp.mp[Arg] = None THEN mem ELSE [mem EXCEPT ![Arg] = rsp.mp[Arg]]
    BY <1>10 DEF MemAccess, At, rsp_remove_matchpoint
  <2>2. /\ rsp'.running = rsp.running /\ rsp'.sigval = rsp.sigval /\ rsp'.npc = rsp.npc
        /\ rsp'.single = rsp.single /\ rsp'.client = rsp.client
        /\ rsp'.mp = [rsp.mp EXCEPT ![Arg] = None]
    BY <1>1, <2>1 DEF RspTypeOK, RspType, mp_hash_delete
  <2>3. rsp'.mp \in [Addrs -> Code \cup {None, Trap}]
    BY <1>3, <1>6, <2>2
  <2>4. rsp' \in RspType
    <3>1. rsp' = [rsp EXCEPT !.mp = rsp'.mp]
      BY <2>1, <2>2 DEF mp_hash_delete
    <3> QED BY <1>1, <2>3, <3>1, RspFields DEF RspTypeOK
  <2>5. mem' \in [Addrs -> Code \cup {Trap}]
    <3>1. rsp.mp[Arg] # None => rsp.mp[Arg] \in Code \cup {Trap}
      BY <1>3, <1>6
    <3> QED BY <1>3, <1>6, <2>1, <3>1
  <2>6. RspTypeOK'
    BY <1>1, <1>2, <2>1, <2>4, <2>5 DEF RspTypeOK
  <2>7. (todo \in Seq(Micro))' /\ Programs' /\ Releases' /\ Reports' /\ Copies' /\ StepMode'
    BY <1>2, <1>4, <1>10, <2>1, <2>2, PoppedAside
  <2>8. Requested'
    <3>1. \A a \in Addrs : rsp.mp[a] = None => rsp'.mp[a] = None
      BY <1>6, <2>2
    <3> QED BY <1>2, <2>1, <2>2, <3>1, PoppedRequested
  <2>9. Table'
    <3> SUFFICES ASSUME gdb.sessions <= 1, NEW a \in Addrs
                 PROVE  IF rsp'.mp[a] = None THEN mem'[a] = gdb.image[a]
                        ELSE mem'[a] = Trap /\ rsp'.mp[a] = gdb.image[a]
      BY <2>1 DEF Table
    <3>1. IF rsp.mp[a] = None THEN mem[a] = gdb.image[a] ELSE mem[a] = Trap /\ rsp.mp[a] = gdb.image[a]
      BY <1>5 DEF Table
    <3>2. CASE a = Arg
      <4>1. rsp'.mp[a] = None
        BY <1>3, <1>6, <2>2, <3>2
      <4>2. mem'[a] = gdb.image[a]
        BY <1>3, <1>6, <2>1, <3>1, <3>2
      <4> QED BY <4>1, <4>2
    <3>3. CASE a # Arg
      <4>1. mem'[a] = mem[a] /\ rsp'.mp[a] = rsp.mp[a]
        BY <1>6, <2>1, <2>2, <3>3
      <4> QED BY <3>1, <4>1
    <3> QED BY <3>2, <3>3
  <2> QED BY <2>6, <2>7, <2>8, <2>9 DEF RspCore
<1> QED BY <1>2, <1>8, <1>9, <1>10

LEMMA StateCore == RspCore /\ StateStep => RspCore'
<1> SUFFICES ASSUME RspCore, StateStep PROVE RspCore'
  OBVIOUS
<1>1. RspTypeOK
  BY DEF RspCore
<1>2. /\ todo # <<>> /\ todo' = Tail(todo) /\ reading' = reading /\ pipe' = pipe
      /\ cpu' = cpu /\ mem' = mem /\ toServer' = toServer /\ toClient' = toClient /\ gdb' = gdb
      /\ Head(todo).op \in {"wake", "serverClose", "return"}
  BY DEF StateStep, At, Next1, targetVars, clientVars
<1>3. CASE Head(todo).op = "wake"
  <2>1. /\ th' = [th EXCEPT !.pc = IF @ = "wait" THEN "woken" ELSE @, !.state = 1,
                            !.overtaken = @ \/ th.pc = "halt"]
        /\ rsp' = [rsp EXCEPT !.waiting = @ \/ Arg # None, !.single = @ /\ Arg # "continued"]
        /\ up' = up
    BY <1>3 DEF StateStep, At
  <2>2. /\ rsp'.running = rsp.running /\ rsp'.sigval = rsp.sigval /\ rsp'.npc = rsp.npc
        /\ rsp'.client = rsp.client /\ rsp'.mp = rsp.mp
        /\ rsp'.single = (rsp.single /\ Arg # "continued")
    BY <1>1, <2>1 DEF RspTypeOK, RspType
  <2>3. th'.pc \in {"clear", "log"} => th'.pc = th.pc
    BY <1>1, <2>1 DEF RspTypeOK, HandlerType
  <2>4. ~th'.overtaken => ~th.overtaken
    BY <1>1, <2>1 DEF RspTypeOK, HandlerType
  <2>5. RspTypeOK'
    <3>1. (rsp.waiting \/ Arg # None) \in BOOLEAN /\ (rsp.single /\ Arg # "continued") \in BOOLEAN
      OBVIOUS
    <3>2. rsp' \in RspType
      BY <1>1, <2>1, <3>1 DEF RspTypeOK, RspType
    <3>3. (th.overtaken \/ th.pc = "halt") \in BOOLEAN
      OBVIOUS
    <3>4. th' \in HandlerType
      <4>1. th \in HandlerType
        BY <1>1 DEF RspTypeOK
      <4>2. (IF th.pc = "wait" THEN "woken" ELSE th.pc) \in {"top", "wait", "woken", "poll", "clear", "log", "halt", "exit"}
        BY <4>1 DEF HandlerType
      <4>3. th' = [th EXCEPT !.pc = IF th.pc = "wait" THEN "woken" ELSE th.pc, !.state = 1,
                             !.overtaken = th.overtaken \/ th.pc = "halt"]
        BY <2>1
      <4>4. 1 \in 0 .. 2
        OBVIOUS
      <4> QED BY <3>3, <4>1, <4>2, <4>3, <4>4, HandlerFields2
    <3> QED BY <1>1, <1>2, <2>1, <3>2, <3>4 DEF RspTypeOK
  <2>6. (todo \in Seq(Micro))' /\ Programs'
    BY <1>2, Popped
  <2>7. Releases'
    BY <1>2, <1>3, <2>2, <2>3, <2>4, PoppedReleases
  <2>8. Reports'
    BY <1>2, <1>3, <2>2, <2>3, <2>4, PoppedReports
  <2>9. Copies'
    BY <1>2, <1>3, <2>2, <2>4, PoppedCopies
  <2>10. StepMode'
    <3>1. CASE Continues(Head(todo))
      <4>1. todo \in Seq(Micro) /\ Formed(todo) /\ StepMode
        BY DEF RspCore, Programs
      <4>2. 1 \in DOMAIN todo /\ Head(todo) = todo[1]
        BY <1>2, <4>1
      <4>3. ~cpu.st
        BY <3>1, <4>1, <4>2 DEF StepMode
      <4>4. rsp'.single = FALSE
        BY <2>2, <3>1 DEF Continues, Arg
      <4>5. cpu.st \in BOOLEAN
        BY <1>1, Types
      <4>6. cpu'.st = FALSE
        BY <1>2, <4>3, <4>5
      <4> QED BY <4>4, <4>6 DEF StepMode
    <3>2. CASE ~Continues(Head(todo))
      <4>1. Arg # "continued"
        BY <1>3, <3>2 DEF Continues, Arg
      <4>2. rsp.single \in BOOLEAN
        BY <1>1, Types
      <4>3. rsp'.single = rsp.single
        BY <2>2, <4>1, <4>2
      <4> QED BY <1>2, <1>3, <3>2, <4>3, PoppedStepMode
    <3> QED BY <3>1, <3>2
  <2>11. Requested' /\ Table'
    BY <1>2, <2>2, PoppedRequested, KeptTable
  <2> QED BY <2>5, <2>6, <2>7, <2>8, <2>9, <2>10, <2>11 DEF RspCore
<1>4. CASE Head(todo).op \in {"serverClose", "return"}
  <2>1. /\ rsp' = rsp /\ up' \in BOOLEAN
        /\ th' = th \/ th' = [th EXCEPT !.state = 2]
    BY <1>1, <1>4 DEF StateStep, At, RspTypeOK
  <2>2. th'.pc = th.pc /\ th'.overtaken = th.overtaken
    BY <1>1, <2>1 DEF RspTypeOK, HandlerType
  <2>3. th' \in HandlerType
    BY <1>1, <2>1 DEF RspTypeOK, HandlerType
  <2>4. RspTypeOK'
    BY <1>1, <1>2, <2>1, <2>3 DEF RspTypeOK
  <2>5. ~Continues(Head(todo))
    BY <1>4 DEF Continues
  <2>6. (todo \in Seq(Micro))' /\ Programs' /\ Releases' /\ Reports' /\ Copies' /\ StepMode'
    BY <1>2, <1>4, <2>1, <2>2, <2>5, PoppedAside
  <2>7. Requested' /\ Table'
    BY <1>2, <2>1, PoppedRequested, KeptTable
  <2> QED BY <2>4, <2>6, <2>7 DEF RspCore
<1> QED BY <1>2, <1>3, <1>4

\* A step of the connection that puts a program in front of the rest, or in its place.
LEMMA Replaced ==
    ASSUME RspCore, todo # <<>>, Head(todo).op \in {"put", "report", "ack"}, NEW q, Quiet(q),
           todo' = q \o Tail(todo), rsp' = rsp, th' = th, pipe' = pipe, cpu' = cpu, gdb' = gdb, mem' = mem
    PROVE  /\ (todo \in Seq(Micro))' /\ Programs' /\ Releases' /\ Reports' /\ Copies' /\ StepMode' /\ Table'
           /\ \A op \in FirstOnly \cup {"report", "go"} : ~At(op)'
<1>1. todo \in Seq(Micro) /\ Formed(todo)
  BY DEF RspCore, Programs
<1>2. Quiet(Tail(todo))
  BY <1>1, QuietTail
<1>3. Quiet(todo')
  BY <1>2, QuietJoin
<1>4. /\ todo' \in Seq(Micro) /\ Formed(todo') /\ (\A i \in DOMAIN todo' : ~Continues(todo'[i]))
      /\ todo' # <<>> => Head(todo').op \notin FirstOnly \cup {"go", "report"}
  BY <1>3 DEF Quiet
<1>5. \A op \in FirstOnly \cup {"report", "go"} : ~At(op)'
  BY <1>4 DEF At
<1>6. Programs'
  BY <1>4 DEF Programs
<1>7. ~At("go") /\ ~At("go")'
  BY <1>5 DEF At
<1>8. Releases'
  BY <1>7 DEF RspCore, Releases
<1>9. Reports'
  <2> SUFFICES ASSUME ~th.overtaken, NoGo(todo')
               PROVE  (th.pc = "log" => Stopped) /\ (pipe > 0 => Stopped /\ Signalled)
    BY <1>5 DEF Reports, Stopped, Signalled
  <2>1. q \in Seq(Micro) /\ Tail(todo) \in Seq(Micro)
    BY <1>2 DEF Quiet
  <2>2. NoGo(Tail(todo))
    BY <2>1, NoGoJoin
  <2>3. NoGo(todo)
    BY <1>1, <2>2, PopFacts
  <2> QED BY <2>3 DEF RspCore, Reports
<1>10. Copies'
  BY <1>7 DEF RspCore, Copies
<1>11. StepMode'
  <2>1. (\E i \in DOMAIN todo : Continues(todo[i])) =>
           Continues(Head(todo)) \/ \E i \in DOMAIN Tail(todo) : Continues(Tail(todo)[i])
    BY <1>1, PopFacts
  <2>2. ~\E i \in DOMAIN todo : Continues(todo[i])
    BY <1>2, <2>1 DEF Quiet, Continues
  <2>3. rsp.single = cpu.st
    BY <2>2 DEF RspCore, StepMode
  <2> QED BY <1>4, <2>3 DEF StepMode, Continues
<1>12. Table'
  BY KeptTable
<1> QED BY <1>4, <1>5, <1>6, <1>8, <1>9, <1>10, <1>11, <1>12

LEMMA PutCore == RspCore /\ put_packet => RspCore'
<1> SUFFICES ASSUME RspCore, put_packet PROVE RspCore'
  OBVIOUS
<1> DEFINE text == IF At("report") THEN StopReply(rsp.sigval) ELSE Arg
           q == IF rsp.client THEN StepTo("ack", text) ELSE <<>>
<1>1. RspTypeOK /\ todo \in Seq(Micro)
  BY DEF RspCore
<1>2. /\ todo # <<>> /\ Head(todo).op \in {"put", "report"}
      /\ toClient' = IF rsp.client /\ gdb.state # "away" THEN Append(toClient, text) ELSE toClient
      /\ todo' = q \o Tail(todo)
      /\ rsp' = rsp /\ reading' = reading /\ up' = up /\ th' = th /\ pipe' = pipe /\ cpu' = cpu
      /\ mem' = mem /\ toServer' = toServer /\ gdb' = gdb
  BY DEF put_packet, At, targetVars
<1>3. text \in Args
  <2>1. Head(todo) \in Micro
    BY <1>1, <1>2
  <2>2. Arg \in Args
    BY <2>1, MicroFacts DEF Arg
  <2>3. StopReply(rsp.sigval) \in Args
    BY <1>1, Types, ArgFacts DEF StopReply, Replies
  <2> QED BY <2>2, <2>3
<1>4. Quiet(q)
  <2>1. Quiet(StepTo("ack", text))
    BY <1>3, QuietStep DEF Ops, FirstOnly
  <2> QED BY <2>1, QuietNothing
<1> HIDE DEF q
<1>5. RspTypeOK'
  BY <1>1, <1>2 DEF RspTypeOK
<1>6. /\ (todo \in Seq(Micro))' /\ Programs' /\ Releases' /\ Reports' /\ Copies' /\ StepMode' /\ Table'
      /\ ~At("insert")' /\ ~At("writeMem")'
  BY <1>2, <1>4, Replaced DEF FirstOnly
<1>7. Requested'
  <2>1. ~rsp.client \/ gdb.state = "away" => toClient' = <<>>
    BY <1>2 DEF RspCore, Requested
  <2> QED BY <1>2, <1>6, <2>1 DEF RspCore, Requested
<1> QED BY <1>5, <1>6, <1>7 DEF RspCore

\* The queue towards the server without its first message.
LEMMA QueueTail ==
    ASSUME RspTypeOK, Requested, toServer # <<>>
    PROVE  /\ Tail(toServer) \in Seq(Request \cup {Ack, Break, Eof})
           /\ Head(toServer) = toServer[1] /\ toServer[1] \in Request \cup {Ack, Break, Eof}
           /\ \A i \in DOMAIN Tail(toServer) : Tail(toServer)[i] \in {Ack, Break, Eof}
           /\ Tail(toServer) # <<>> => Tail(toServer)[1].k \notin {"M", "X", "Z"}
           /\ Len(toServer) > 1 => Tail(toServer) # <<>>
<1> DEFINE M == Request \cup {Ack, Break, Eof}
<1>1. toServer \in Seq(M)
  BY DEF RspTypeOK
<1> HIDE DEF M
<1>2. /\ Tail(toServer) \in Seq(M) /\ Head(toServer) = toServer[1] /\ toServer[1] \in M
      /\ \A i \in DOMAIN Tail(toServer) : Tail(toServer)[i] = toServer[i + 1] /\ i + 1 \in DOMAIN toServer /\ i + 1 > 1
      /\ Len(Tail(toServer)) = Len(toServer) - 1 /\ Len(toServer) \in Nat
  BY <1>1
<1>3. \A i \in DOMAIN Tail(toServer) : Tail(toServer)[i] \in {Ack, Break, Eof}
  BY <1>2 DEF Requested
<1>4. Tail(toServer) # <<>> => 1 \in DOMAIN Tail(toServer)
  BY <1>2
<1>5. \A m \in {Ack, Break, Eof} : m.k \notin {"M", "X", "Z"}
  BY DEF Ack, Break, Eof
<1>6. Tail(toServer) # <<>> => Tail(toServer)[1].k \notin {"M", "X", "Z"}
  BY <1>3, <1>4, <1>5
<1>7. Len(toServer) > 1 => Tail(toServer) # <<>>
  BY <1>2
<1> QED BY <1>2, <1>3, <1>6, <1>7 DEF M

LEMMA AwaitCore == RspCore /\ AwaitAck => RspCore'
<1> SUFFICES ASSUME RspCore, AwaitAck PROVE RspCore'
  OBVIOUS
<1>1. RspTypeOK /\ todo \in Seq(Micro) /\ Requested
  BY DEF RspCore
<1>2. /\ todo # <<>> /\ Head(todo).op = "ack" /\ toServer # <<>> /\ toServer' = Tail(toServer)
      /\ todo' = CASE Head(toServer) = Ack -> Tail(todo)
                   [] Head(toServer) = Eof -> rsp_client_close(rsp.running) \o Tail(todo)
                   [] OTHER -> StepTo("put", Arg) \o Tail(todo)
      /\ rsp' = rsp /\ reading' = reading /\ up' = up /\ th' = th /\ pipe' = pipe /\ cpu' = cpu
      /\ mem' = mem /\ toClient' = toClient /\ gdb' = gdb
  BY DEF AwaitAck, At, targetVars
<1>3. PICK q : Quiet(q) /\ todo' = q \o Tail(todo)
  <2>1. CASE Head(toServer) = Ack
    <3>1. todo' = Tail(todo)
      BY <1>2, <2>1 DEF Ack, Eof
    <3>2. Tail(todo) \in Seq(Micro)
      BY <1>1, <1>2
    <3>3. Tail(todo) = <<>> \o Tail(todo)
      BY <3>2
    <3> QED BY <3>1, <3>3, QuietNothing
  <2>2. CASE Head(toServer) = Eof
    <3>1. todo' = rsp_client_close(rsp.running) \o Tail(todo)
      BY <1>2, <2>2 DEF Ack, Eof
    <3>2. rsp.running \in BOOLEAN
      BY <1>1, Types
    <3> QED BY <3>1, <3>2, QuietPrograms
  <2>3. CASE Head(toServer) # Ack /\ Head(toServer) # Eof
    <3>1. todo' = StepTo("put", Arg) \o Tail(todo)
      BY <1>2, <2>3
    <3>2. Head(todo) \in Micro
      BY <1>1, <1>2
    <3>3. Arg \in Args
      BY <3>2, MicroFacts DEF Arg
    <3>4. Quiet(StepTo("put", Arg))
      BY <3>3, QuietStep DEF Ops, FirstOnly
    <3> QED BY <3>1, <3>4
  <2> QED BY <2>1, <2>2, <2>3
<1>4. /\ Tail(toServer) \in Seq(Request \cup {Ack, Break, Eof})
      /\ \A i \in DOMAIN Tail(toServer) : Tail(toServer)[i] \in {Ack, Break, Eof}
      /\ Tail(toServer) # <<>> => Tail(toServer)[1].k \notin {"M", "X", "Z"}
  BY <1>1, <1>2, QueueTail
<1>5. RspTypeOK'
  BY <1>1, <1>2, <1>4 DEF RspTypeOK
<1>6. /\ (todo \in Seq(Micro))' /\ Programs' /\ Releases' /\ Reports' /\ Copies' /\ StepMode' /\ Table'
      /\ ~At("insert")' /\ ~At("writeMem")'
  BY <1>2, <1>3, Replaced DEF FirstOnly
<1>7. Requested'
  <2>1. rsp.client /\ (~rsp.client \/ gdb.state = "away" => toClient = <<>>)
    BY <1>1, <1>2 DEF Requested
  <2> QED BY <1>2, <1>4, <1>6, <2>1 DEF Requested
<1> QED BY <1>5, <1>6, <1>7 DEF RspCore

\* A program started on an empty todo.
LEMMA Started ==
    ASSUME RspCore, todo = <<>>, Fits(todo'), rsp' = rsp, th' = th, pipe' = pipe, cpu' = cpu, gdb' = gdb,
           mem' = mem, todo' # <<>> /\ Head(todo').op \in FirstOnly => ~rsp.running
    PROVE  (todo \in Seq(Micro))' /\ Programs' /\ Releases' /\ Reports' /\ Copies' /\ StepMode' /\ Table'
<1>1. /\ todo' \in Seq(Micro) /\ Formed(todo') /\ (\A i \in DOMAIN todo' : Continues(todo'[i]) => i > 3)
      /\ todo' # <<>> => Head(todo').op # "go" /\ (Head(todo').op = "report" => Len(todo') = 1)
  BY DEF Fits
<1>2. Programs'
  BY <1>1 DEF Programs
<1>3. ~At("go") /\ ~At("go")'
  BY <1>1 DEF At
<1>4. Releases'
  BY <1>3 DEF RspCore, Releases
<1>5. Reports'
  <2>1. NoGo(todo)
    BY DEF NoGo
  <2>2. ~th.overtaken => (th.pc = "log" => Stopped) /\ (pipe > 0 => Stopped /\ Signalled)
    BY <2>1 DEF RspCore, Reports
  <2>3. ~(At("report")' /\ Len(todo') = 2)
    BY <1>1 DEF At
  <2> QED BY <2>2, <2>3 DEF Reports, Stopped, Signalled
<1>6. Copies'
  BY <1>3 DEF RspCore, Copies
<1>7. StepMode'
  <2>1. ~\E i \in DOMAIN todo : Continues(todo[i])
    OBVIOUS
  <2>2. rsp.single = cpu.st
    BY <2>1 DEF RspCore, StepMode
  <2>3. DOMAIN todo' \subseteq Nat
    BY <1>1
  <2>4. \A i \in DOMAIN todo' : Continues(todo'[i]) => ~(i <= 3)
    BY <1>1, <2>3
  <2> QED BY <2>2, <2>4 DEF StepMode, Continues
<1>8. Table'
  BY KeptTable
<1> QED BY <1>1, <1>2, <1>4, <1>5, <1>6, <1>7, <1>8

LEMMA ClientRequestCore == RspCore /\ rsp_client_request => RspCore'
<1> SUFFICES ASSUME RspCore, rsp_client_request PROVE RspCore'
  OBVIOUS
<1> DEFINE r == Head(toServer)
<1>1. RspTypeOK /\ Requested
  BY DEF RspCore
<1>2. /\ rsp.client /\ todo = <<>> /\ toServer # <<>> /\ toServer' = Tail(toServer) /\ reading' = Skipped(r)
      /\ todo' = CASE Skipped(r) -> <<>>
                   [] r = Eof -> rsp_client_close(rsp.running)
                   [] r = Break -> IF rsp.running THEN set_stall_state(1, None) ELSE <<>>
                   [] OTHER -> IF rsp.running THEN Put("O") ELSE Program(r)
      /\ rsp' = rsp /\ up' = up /\ th' = th /\ pipe' = pipe /\ cpu' = cpu
      /\ mem' = mem /\ toClient' = toClient /\ gdb' = gdb
  BY DEF rsp_client_request, targetVars
<1>3. /\ Tail(toServer) \in Seq(Request \cup {Ack, Break, Eof})
      /\ r = toServer[1] /\ r \in Request \cup {Ack, Break, Eof}
      /\ \A i \in DOMAIN Tail(toServer) : Tail(toServer)[i] \in {Ack, Break, Eof}
      /\ Tail(toServer) # <<>> => Tail(toServer)[1].k \notin {"M", "X", "Z"}
      /\ Len(toServer) > 1 => Tail(toServer) # <<>>
  BY <1>1, <1>2, QueueTail
<1> HIDE DEF r
<1>4. Ack # Eof /\ Ack # Break /\ Eof # Break /\ ~Skipped(Eof) /\ ~Skipped(Break)
  BY DEF Ack, Eof, Break, Skipped
<1>5. \/ Quiet(todo')
      \/ todo' = Program(r) /\ ~rsp.running /\ r \in Request
  <2>1. CASE Skipped(r)
    BY <1>2, <1>4, <2>1, QuietNothing
  <2>2. CASE r = Eof
    <3>1. rsp.running \in BOOLEAN
      BY <1>1, Types
    <3> QED BY <1>2, <1>4, <2>2, <3>1, QuietPrograms
  <2>3. CASE r = Break
    BY <1>2, <1>4, <2>3, QuietPrograms, QuietNothing
  <2>4. CASE ~Skipped(r) /\ r \notin {Eof, Break}
    <3>1. r \in Request /\ todo' = IF rsp.running THEN Put("O") ELSE Program(r)
      BY <1>2, <1>3, <2>4 DEF Skipped
    <3> QED BY <3>1, QuietPrograms
  <2> QED BY <2>1, <2>2, <2>3, <2>4
<1>6. /\ Fits(todo') /\ (todo' # <<>> /\ Head(todo').op \in FirstOnly => ~rsp.running)
      /\ todo' # <<>> => /\ Head(todo').op = "insert" => r.k = "Z"
                         /\ Head(todo').op = "writeMem" => r.k \in {"M", "X"} /\ Head(todo').arg = r.addr
  <2>1. CASE Quiet(todo')
    <3>1. Fits(todo')
      BY <2>1, QuietFits
    <3>2. todo' # <<>> => Head(todo').op \notin FirstOnly
      BY <2>1 DEF Quiet
    <3> QED BY <3>1, <3>2 DEF FirstOnly
  <2>2. CASE todo' = Program(r) /\ ~rsp.running /\ r \in Request
    BY <2>2, ProgramFits
  <2> QED BY <1>5, <2>1, <2>2
<1>7. RspTypeOK'
  BY <1>1, <1>2, <1>3 DEF RspTypeOK, Skipped
<1>8. (todo \in Seq(Micro))' /\ Programs' /\ Releases' /\ Reports' /\ Copies' /\ StepMode' /\ Table'
  BY <1>2, <1>6, Started
<1>9. Requested'
  <2>1. At("insert")' => gdb.state # "idle" \/ Tail(toServer) # <<>>
    <3>1. At("insert")' => r.k = "Z"
      BY <1>6 DEF At
    <3>2. r.k = "Z" => gdb.state # "idle" \/ Len(toServer) > 1
      BY <1>1, <1>2, <1>3 DEF Requested
    <3> QED BY <1>3, <3>1, <3>2
  <2>2. At("writeMem")' => gdb.sessions > 1 \/ rsp.mp[Arg'] = None
    <3>1. At("writeMem")' => r.k \in {"M", "X"} /\ Arg' = r.addr
      BY <1>6 DEF At, Arg
    <3>2. r.k \in {"M", "X"} => gdb.sessions > 1 \/ rsp.mp[r.addr] = None
      BY <1>1, <1>2, <1>3 DEF Requested
    <3> QED BY <3>1, <3>2
  <2>3. ~rsp.client \/ gdb.state = "away" => toClient = <<>>
    BY <1>1 DEF Requested
  <2> QED BY <1>2, <1>3, <2>1, <2>2, <2>3 DEF Requested
<1> QED BY <1>7, <1>8, <1>9 DEF RspCore

LEMMA PollErrorCore == RspCore /\ PollError => RspCore'
<1> SUFFICES ASSUME RspCore, PollError PROVE RspCore'
  OBVIOUS
<1>1. RspTypeOK /\ Requested
  BY DEF RspCore
<1>2. /\ todo = <<>> /\ todo' = rsp_client_close(rsp.running) \o Step("serverClose") \o Step("return")
      /\ rsp' = rsp /\ reading' = reading /\ up' = up /\ th' = th /\ pipe' = pipe /\ cpu' = cpu
      /\ mem' = mem /\ toServer' = toServer /\ toClient' = toClient /\ gdb' = gdb
  BY DEF PollError, targetVars, clientVars
<1>3. Quiet(todo')
  BY <1>1, <1>2, Types, QuietPrograms
<1>4. Fits(todo') /\ (todo' # <<>> => Head(todo').op \notin FirstOnly)
  BY <1>3, QuietFits DEF Quiet
<1>5. RspTypeOK'
  BY <1>1, <1>2 DEF RspTypeOK
<1>6. (todo \in Seq(Micro))' /\ Programs' /\ Releases' /\ Reports' /\ Copies' /\ StepMode' /\ Table'
  BY <1>2, <1>4, Started
<1>7. Requested'
  <2>1. ~At("insert") /\ ~At("insert")' /\ ~At("writeMem")'
    BY <1>2, <1>4 DEF At, FirstOnly
  <2> QED BY <1>1, <1>2, <2>1 DEF Requested
<1> QED BY <1>5, <1>6, <1>7 DEF RspCore

\* A stop seen in the pipe moves the program counter back to a breakpoint; then it is reported.
LEMMA PipeEventCore == RspCore /\ PipeEvent => RspCore'
<1> SUFFICES ASSUME RspCore, PipeEvent PROVE RspCore'
  OBVIOUS
<1>1. RspTypeOK /\ Requested /\ Releases /\ Reports /\ Copies /\ StepMode
  BY DEF RspCore
<1>2. /\ todo = <<>> /\ pipe > 0 /\ pipe' = pipe - 1 /\ rsp.client /\ toServer = <<>>
      /\ reading' = reading /\ up' = up /\ th' = th
      /\ mem' = mem /\ toServer' = toServer /\ toClient' = toClient /\ gdb' = gdb
  BY DEF PipeEvent, clientVars
<1>3. pipe \in Nat /\ pipe' \in Nat
  BY <1>1, <1>2, Types
<1>4. ~At("go") /\ ~At("insert") /\ NoGo(todo) /\ ~\E i \in DOMAIN todo : Continues(todo[i])
  BY <1>2 DEF At, NoGo
<1>5. rsp.single = cpu.st
  BY <1>1, <1>4 DEF StepMode
<1>6. /\ ~th.overtaken => cpu.stalled /\ ~rsp.running /\ Signalled
      /\ ~th.overtaken => (th.pc = "log" => Stopped)
  BY <1>1, <1>2, <1>4 DEF Reports, Stopped, Signalled
<1>7. /\ rsp'.running = rsp.running /\ rsp'.sigval = rsp.sigval /\ rsp'.single = rsp.single
      /\ rsp'.mp = rsp.mp /\ rsp'.client = rsp.client
      /\ cpu'.stalled = cpu.stalled /\ cpu'.st = cpu.st /\ cpu'.drr = cpu.drr
      /\ \/ rsp'.npc = rsp.npc /\ cpu'.npc = cpu.npc /\ cpu'.hidden = cpu.hidden
         \/ rsp'.npc \in Addrs /\ cpu'.npc = rsp'.npc /\ cpu'.hidden = TRUE
      /\ rsp' \in RspType /\ cpu' \in CpuType
  <2>1. CASE rsp' = rsp /\ cpu' = cpu
    BY <1>1, <2>1 DEF RspTypeOK
  <2>2. CASE set_npc(cpu.ppc)
    <3>1. cpu' = [cpu EXCEPT !.npc = cpu.ppc, !.hidden = TRUE] /\ rsp' = [rsp EXCEPT !.npc = cpu.ppc]
      BY <2>2 DEF set_npc
    <3>2. cpu.ppc \in Addrs
      BY <1>1, Types
    <3>3. rsp' \in RspType
      BY <1>1, <3>1, <3>2, RspFields DEF RspTypeOK
    <3>4. cpu' \in CpuType
      BY <1>1, <3>1, <3>2 DEF RspTypeOK, CpuType
    <3>5. /\ rsp'.running = rsp.running /\ rsp'.sigval = rsp.sigval /\ rsp'.single = rsp.single
          /\ rsp'.mp = rsp.mp /\ rsp'.client = rsp.client /\ rsp'.npc = cpu.ppc
      BY <1>1, <3>1 DEF RspTypeOK, RspType
    <3>6. /\ cpu'.stalled = cpu.stalled /\ cpu'.st = cpu.st /\ cpu'.drr = cpu.drr
          /\ cpu'.npc = cpu.ppc /\ cpu'.hidden = TRUE
      BY <1>1, <3>1 DEF RspTypeOK, CpuType
    <3> QED BY <3>2, <3>3, <3>4, <3>5, <3>6
  <2> QED BY <2>1, <2>2 DEF PipeEvent, StopNpc
<1>8. RspTypeOK'
  BY <1>1, <1>2, <1>3, <1>7 DEF RspTypeOK
<1>9. /\ todo' \in Seq(Micro) /\ Formed(todo') /\ (\A i \in DOMAIN todo' : ~Continues(todo'[i]))
      /\ todo' # <<>> => Head(todo').op = "report"
  <2>1. CASE rsp.waiting
    <3>1. todo' = rsp_report_exception \o Step("reported")
      BY <2>1 DEF PipeEvent
    <3> QED BY <3>1, ReportPrograms
  <2>2. CASE ~rsp.waiting
    <3>1. todo' = <<>>
      BY <2>2 DEF PipeEvent
    <3> QED BY <3>1, QuietNothing DEF Quiet
  <2> QED BY <2>1, <2>2
<1>10. ~At("go")' /\ ~At("insert")' /\ ~At("writeMem")'
  BY <1>9 DEF At
<1>11. Programs'
  BY <1>9 DEF Programs, FirstOnly
<1>12. Releases'
  BY <1>1, <1>2, <1>7, <1>10 DEF Releases
<1>13. Reports'
  BY <1>2, <1>6, <1>7 DEF Reports, Stopped, Signalled
<1>14. Copies'
  <2>1. ~th.overtaken =>
          /\ rsp.running => rsp.npc = NoAddr
          /\ rsp.npc # NoAddr => rsp.npc = cpu.npc
          /\ cpu.hidden /\ rsp.npc = NoAddr => rsp.running /\ ~cpu.stalled
    BY <1>1, <1>4 DEF Copies
  <2>2. \A a \in Addrs : a # NoAddr
    BY AddrFacts
  <2>3. CASE rsp'.npc = rsp.npc /\ cpu'.npc = cpu.npc /\ cpu'.hidden = cpu.hidden
    BY <1>2, <1>7, <2>1, <2>3 DEF Copies
  <2>4. CASE rsp'.npc \in Addrs /\ cpu'.npc = rsp'.npc /\ cpu'.hidden = TRUE
    BY <1>2, <1>6, <1>7, <2>2, <2>4 DEF Copies
  <2> QED BY <1>7, <2>3, <2>4
<1>15. StepMode'
  BY <1>5, <1>7, <1>9 DEF StepMode, Continues
<1>16. Requested'
  BY <1>1, <1>2, <1>7, <1>10 DEF Requested
<1>17. Table'
  BY <1>2, <1>7, KeptTable
<1> QED BY <1>8, <1>9, <1>11, <1>12, <1>13, <1>14, <1>15, <1>16, <1>17 DEF RspCore

-----------------------------------------------------------------------------
(* The client                                                               *)

\* A step that leaves the program, the processor and the thread's report alone.
LEMMA Steady ==
    ASSUME RspCore, todo' = todo, up' = up, pipe' = pipe, cpu' = cpu, th'.pc = th.pc,
           th'.overtaken = th.overtaken, rsp'.running = rsp.running, rsp'.sigval = rsp.sigval,
           rsp'.npc = rsp.npc, rsp'.single = rsp.single
    PROVE  (todo \in Seq(Micro))' /\ Programs' /\ Releases' /\ Reports' /\ Copies' /\ StepMode'
<1>1. \A op \in {"go", "report"} : At(op)' <=> At(op)
  BY DEF At
<1>2. (todo \in Seq(Micro))' /\ Programs'
  BY DEF RspCore, Programs
<1>3. Releases'
  BY <1>1 DEF RspCore, Releases
<1>4. Reports'
  BY <1>1 DEF RspCore, Reports, Stopped, Signalled
<1>5. Copies'
  BY <1>1 DEF RspCore, Copies
<1>6. StepMode'
  BY DEF RspCore, StepMode, Continues
<1> QED BY <1>2, <1>3, <1>4, <1>5, <1>6

LEMMA ConnectCore == RspCore /\ Connect => RspCore'
<1> SUFFICES ASSUME RspCore, Connect PROVE RspCore'
  OBVIOUS
<1>1. RspTypeOK /\ Requested /\ Table
  BY DEF RspCore
<1>2. /\ rsp' = [rsp EXCEPT !.client = TRUE, !.waiting = FALSE] /\ th' = [th EXCEPT !.state = 1]
      /\ gdb' = [gdb EXCEPT !.state = "idle", !.sessions = @ + 1]
      /\ reading' = FALSE /\ ~rsp.client /\ todo = <<>> /\ todo' = todo /\ up' = up /\ pipe' = pipe
      /\ cpu' = cpu /\ mem' = mem /\ toServer' = toServer /\ toClient' = toClient
  BY DEF Connect, targetVars
<1>3. /\ rsp'.running = rsp.running /\ rsp'.sigval = rsp.sigval /\ rsp'.single = rsp.single
      /\ rsp'.mp = rsp.mp /\ rsp'.npc = rsp.npc /\ rsp'.client = TRUE
      /\ th'.pc = th.pc /\ th'.overtaken = th.overtaken
      /\ gdb'.image = gdb.image /\ gdb'.state = "idle"
      /\ gdb'.sessions = gdb.sessions + 1
  BY <1>1, <1>2 DEF RspTypeOK, RspType, HandlerType, GdbType
<1>4. RspTypeOK'
  <2>1. rsp' \in RspType
    BY <1>1, <1>2 DEF RspTypeOK, RspType
  <2>2. th' \in HandlerType
    BY <1>1, <1>2 DEF RspTypeOK, HandlerType
  <2>3. gdb' \in GdbType
    BY <1>1, <1>2, GdbFields2 DEF RspTypeOK
  <2> QED BY <1>1, <1>2, <2>1, <2>2, <2>3 DEF RspTypeOK
<1>5. (todo \in Seq(Micro))' /\ Programs' /\ Releases' /\ Reports' /\ Copies' /\ StepMode'
  BY <1>2, <1>3, Steady
<1>6. Requested'
  <2>1. toServer = <<>> /\ toClient = <<>>
    BY <1>1, <1>2 DEF Requested
  <2>2. ~At("insert")' /\ ~At("writeMem")'
    BY <1>2 DEF At
  <2> QED BY <1>2, <1>3, <2>1, <2>2 DEF Requested
<1>7. Table'
  <2>1. gdb.sessions \in Nat /\ (gdb'.sessions <= 1 => gdb.sessions <= 1)
    BY <1>1, <1>3, Types
  <2> QED BY <1>1, <1>2, <1>3, <2>1 DEF Table
<1> QED BY <1>4, <1>5, <1>6, <1>7 DEF RspCore

\* A message at the end of the queue.
LEMMA QueueAppend ==
    ASSUME RspTypeOK, NEW m \in Request \cup {Ack, Break, Eof}
    PROVE  /\ Append(toServer, m) \in Seq(Request \cup {Ack, Break, Eof}) /\ Append(toServer, m) # <<>>
           /\ toServer # <<>> => Append(toServer, m)[1] = toServer[1] /\ Len(Append(toServer, m)) > 1
           /\ toServer = <<>> => Append(toServer, m)[1] = m /\ Len(Append(toServer, m)) = 1
           /\ \A i \in DOMAIN Append(toServer, m) :
                 \/ i \in DOMAIN toServer /\ Append(toServer, m)[i] = toServer[i]
                 \/ i = Len(toServer) + 1 /\ Append(toServer, m)[i] = m
<1> DEFINE M == Request \cup {Ack, Break, Eof}
<1>1. toServer \in Seq(M) /\ m \in M
  BY DEF RspTypeOK
<1> HIDE DEF M
<1>2. Append(toServer, m) \in Seq(M) /\ Append(toServer, m) # <<>>
  <2>1. Append(toServer, m) \in Seq(M)
    BY <1>1
  <2>2. Len(Append(toServer, m)) = Len(toServer) + 1 /\ Len(toServer) \in Nat
    BY <1>1
  <2>3. Len(<<>>) = 0
    OBVIOUS
  <2>4. Append(toServer, m) # <<>>
    BY <2>2, <2>3
  <2> QED BY <2>1, <2>4
<1>3. /\ toServer # <<>> => Append(toServer, m)[1] = toServer[1] /\ Len(Append(toServer, m)) > 1
      /\ toServer = <<>> => Append(toServer, m)[1] = m /\ Len(Append(toServer, m)) = 1
  BY <1>1
<1>4. \A i \in DOMAIN Append(toServer, m) :
         \/ i \in DOMAIN toServer /\ Append(toServer, m)[i] = toServer[i]
         \/ i = Len(toServer) + 1 /\ Append(toServer, m)[i] = m
  BY <1>1
<1> QED BY <1>2, <1>3, <1>4 DEF M

\* An acknowledgement, a break or the end of the connection behind what is queued.
LEMMA QueueControl ==
    ASSUME RspTypeOK, Requested, NEW m \in {Ack, Break, Eof}
    PROVE  /\ Append(toServer, m) \in Seq(Request \cup {Ack, Break, Eof}) /\ Append(toServer, m) # <<>>
           /\ \A i \in DOMAIN Append(toServer, m) : i > 1 => Append(toServer, m)[i] \in {Ack, Break, Eof}
           /\ Append(toServer, m)[1].k = "Z" => Len(Append(toServer, m)) > 1
           /\ Append(toServer, m)[1].k \in {"M", "X"} =>
                 gdb.sessions > 1 \/ (rsp.mp[Append(toServer, m)[1].addr] = None /\ ~At("insert"))
<1> DEFINE q == Append(toServer, m)
<1>1. /\ q \in Seq(Request \cup {Ack, Break, Eof}) /\ q # <<>>
      /\ toServer # <<>> => q[1] = toServer[1] /\ Len(q) > 1
      /\ toServer = <<>> => q[1] = m /\ Len(q) = 1
      /\ \A i \in DOMAIN q : \/ i \in DOMAIN toServer /\ q[i] = toServer[i]
                             \/ i = Len(toServer) + 1 /\ q[i] = m
  BY QueueAppend
<1> HIDE DEF q
<1>2. m.k \notin {"M", "X", "Z"}
  BY DEF Ack, Break, Eof
<1>3. \A i \in DOMAIN q : i > 1 => q[i] \in {Ack, Break, Eof}
  BY <1>1 DEF Requested
<1>4. q[1].k = "Z" => Len(q) > 1
  BY <1>1, <1>2
<1>5. q[1].k \in {"M", "X"} => gdb.sessions > 1 \/ (rsp.mp[q[1].addr] = None /\ ~At("insert"))
  BY <1>1, <1>2 DEF Requested
<1> QED BY <1>1, <1>3, <1>4, <1>5 DEF q

LEMMA SendRequestCore == \A r \in Request : RspCore /\ SendRequest(r) => RspCore'
<1> SUFFICES ASSUME NEW r \in Request, RspCore, SendRequest(r) PROVE RspCore'
  OBVIOUS
<1>1. RspTypeOK /\ Requested /\ Table
  BY DEF RspCore
<1> DEFINE next == IF r.k \in ResumeRequests THEN "run"
                   ELSE IF r.k \in SilentRequests \cup {"R"} THEN "idle" ELSE "reply"
<1>2. /\ gdb.state = "idle" /\ toServer = <<>>
      /\ r.k \in {"M", "X"} => rsp.mp[r.addr] = None \/ gdb.sessions > 1
      /\ toServer' = Append(toServer, r) /\ toClient' = toClient
      /\ gdb' = [gdb EXCEPT !.state = next, !.requests = @ + 1]
      /\ rsp' = rsp /\ todo' = todo /\ reading' = reading /\ up' = up /\ th' = th /\ pipe' = pipe
      /\ cpu' = cpu /\ mem' = mem
  BY DEF SendRequest, serverVars, targetVars
<1>3. next \in {"run", "idle", "reply"} /\ (r.k = "Z" => next = "reply")
  BY DEF ResumeRequests, StepRequests, SilentRequests
<1> HIDE DEF next
<1>4. /\ gdb'.state = next /\ gdb'.image = gdb.image
      /\ gdb'.sessions = gdb.sessions
  BY <1>1, <1>2 DEF RspTypeOK, GdbType
<1>5. /\ Append(toServer, r) \in Seq(Request \cup {Ack, Break, Eof}) /\ Append(toServer, r) # <<>>
      /\ Append(toServer, r)[1] = r /\ Len(Append(toServer, r)) = 1
  BY <1>1, <1>2, QueueAppend
<1>6. RspTypeOK'
  <2>1. gdb' \in GdbType
    BY <1>1, <1>2, <1>3, GdbFields2 DEF RspTypeOK
  <2> QED BY <1>1, <1>2, <1>5, <2>1 DEF RspTypeOK
<1>7. (todo \in Seq(Micro))' /\ Programs' /\ Releases' /\ Reports' /\ Copies' /\ StepMode'
  BY <1>2, <1>4, Steady
<1>8. Requested'
  <2>1. ~At("insert") /\ rsp.client
    BY <1>1, <1>2 DEF Requested
  <2>2. ~At("insert")' /\ (At("writeMem")' <=> At("writeMem")) /\ Arg' = Arg
    BY <1>2, <2>1 DEF At, Arg
  <2>3. DOMAIN Append(toServer, r) = 1 .. 1
    BY <1>5
  <2>4. \A i \in DOMAIN Append(toServer, r) : ~(i > 1)
    BY <2>3
  <2>5. /\ ~rsp.client \/ gdb.state = "away" => toClient = <<>>
        /\ At("writeMem") => gdb.sessions > 1 \/ rsp.mp[Arg] = None
    BY <1>1 DEF Requested
  <2> QED BY <1>2, <1>3, <1>4, <1>5, <2>1, <2>2, <2>4, <2>5 DEF Requested
<1>9. Table'
  BY <1>2, <1>4, KeptTable
<1> QED BY <1>6, <1>7, <1>8, <1>9 DEF RspCore

LEMMA SendBreakCore == RspCore /\ SendBreak => RspCore'
<1> SUFFICES ASSUME RspCore, SendBreak PROVE RspCore'
  OBVIOUS
<1>1. RspTypeOK /\ Requested /\ Table
  BY DEF RspCore
<1>2. /\ gdb.state = "run" /\ toServer' = Append(toServer, Break) /\ toClient' = toClient
      /\ gdb' = [gdb EXCEPT !.breaks = @ + 1]
      /\ rsp' = rsp /\ todo' = todo /\ reading' = reading /\ up' = up /\ th' = th /\ pipe' = pipe
      /\ cpu' = cpu /\ mem' = mem
  BY DEF SendBreak, serverVars, targetVars
<1>3. /\ gdb'.state = gdb.state /\ gdb'.image = gdb.image
      /\ gdb'.sessions = gdb.sessions
  BY <1>1, <1>2 DEF RspTypeOK, GdbType
<1> DEFINE q == Append(toServer, Break)
<1>4. /\ q \in Seq(Request \cup {Ack, Break, Eof}) /\ q # <<>>
      /\ \A i \in DOMAIN q : i > 1 => q[i] \in {Ack, Break, Eof}
      /\ q[1].k = "Z" => Len(q) > 1
      /\ q[1].k \in {"M", "X"} => gdb.sessions > 1 \/ (rsp.mp[q[1].addr] = None /\ ~At("insert"))
  BY <1>1, QueueControl
<1>5. toServer' = q
  BY <1>2
<1> HIDE DEF q
<1>6. RspTypeOK'
  <2>1. gdb' \in GdbType
    BY <1>1, <1>2, SMTT(40) DEF RspTypeOK, GdbType
  <2> QED BY <1>1, <1>2, <1>4, <1>5, <2>1 DEF RspTypeOK
<1>7. (todo \in Seq(Micro))' /\ Programs' /\ Releases' /\ Reports' /\ Copies' /\ StepMode'
  BY <1>2, <1>3, Steady
<1>8. Requested'
  <2>1. (\A op \in {"insert", "writeMem"} : At(op)' <=> At(op)) /\ Arg' = Arg
    BY <1>2 DEF At, Arg
  <2>2. /\ rsp.client /\ (~rsp.client \/ gdb.state = "away" => toClient = <<>>)
        /\ At("writeMem") => gdb.sessions > 1 \/ rsp.mp[Arg] = None
    BY <1>1, <1>2 DEF Requested
  <2> QED BY <1>2, <1>3, <1>4, <1>5, <2>1, <2>2 DEF Requested
<1>9. Table'
  BY <1>2, <1>3, KeptTable
<1> QED BY <1>6, <1>7, <1>8, <1>9 DEF RspCore

LEMMA ReceiveCore == RspCore /\ Receive => RspCore'
<1> SUFFICES ASSUME RspCore, Receive PROVE RspCore'
  OBVIOUS
<1>1. RspTypeOK /\ Requested /\ Table
  BY DEF RspCore
<1> DEFINE next == IF gdb.state = "run" /\ Head(toClient).m # "S" THEN gdb.state ELSE "idle"
<1>2. /\ toClient # <<>> /\ toServer' = Append(toServer, Ack) /\ toClient' = Tail(toClient)
      /\ gdb' = [gdb EXCEPT !.state = next]
      /\ rsp' = rsp /\ todo' = todo /\ reading' = reading /\ up' = up /\ th' = th /\ pipe' = pipe
      /\ cpu' = cpu /\ mem' = mem
  BY DEF Receive, serverVars, targetVars
<1>3. next \in {"run", "idle"}
  OBVIOUS
<1> HIDE DEF next
<1>4. /\ gdb'.state = next /\ gdb'.image = gdb.image
      /\ gdb'.sessions = gdb.sessions
  BY <1>1, <1>2 DEF RspTypeOK, GdbType
<1> DEFINE q == Append(toServer, Ack)
<1>5. /\ q \in Seq(Request \cup {Ack, Break, Eof}) /\ q # <<>>
      /\ \A i \in DOMAIN q : i > 1 => q[i] \in {Ack, Break, Eof}
      /\ q[1].k = "Z" => Len(q) > 1
      /\ q[1].k \in {"M", "X"} => gdb.sessions > 1 \/ (rsp.mp[q[1].addr] = None /\ ~At("insert"))
  BY <1>1, QueueControl
<1>6. toServer' = q
  BY <1>2
<1> HIDE DEF q
<1>7. RspTypeOK'
  <2>1. gdb' \in GdbType
    BY <1>1, <1>2, <1>3 DEF RspTypeOK, GdbType
  <2> QED BY <1>1, <1>2, <1>5, <1>6, <2>1 DEF RspTypeOK
<1>8. (todo \in Seq(Micro))' /\ Programs' /\ Releases' /\ Reports' /\ Copies' /\ StepMode'
  BY <1>2, <1>4, Steady
<1>9. Requested'
  <2>1. (\A op \in {"insert", "writeMem"} : At(op)' <=> At(op)) /\ Arg' = Arg
    BY <1>2 DEF At, Arg
  <2>2. /\ rsp.client /\ (At("writeMem") => gdb.sessions > 1 \/ rsp.mp[Arg] = None)
    BY <1>1, <1>2 DEF Requested
  <2> QED BY <1>2, <1>3, <1>4, <1>5, <1>6, <2>1, <2>2 DEF Requested
<1>10. Table'
  BY <1>2, <1>4, KeptTable
<1> QED BY <1>7, <1>8, <1>9, <1>10 DEF RspCore

LEMMA LeaveCore == RspCore /\ Leave => RspCore'
<1> SUFFICES ASSUME RspCore, Leave PROVE RspCore'
  OBVIOUS
<1>1. RspTypeOK /\ Requested /\ Table
  BY DEF RspCore
<1>2. /\ gdb.state # "away" /\ toServer' = Append(toServer, Eof) /\ toClient' = <<>>
      /\ gdb' = [gdb EXCEPT !.state = "away"]
      /\ rsp' = rsp /\ todo' = todo /\ reading' = reading /\ up' = up /\ th' = th /\ pipe' = pipe
      /\ cpu' = cpu /\ mem' = mem
  BY DEF Leave, serverVars, targetVars
<1>3. /\ gdb'.state = "away" /\ gdb'.image = gdb.image
      /\ gdb'.sessions = gdb.sessions
  BY <1>1, <1>2 DEF RspTypeOK, GdbType
<1> DEFINE q == Append(toServer, Eof)
<1>4. /\ q \in Seq(Request \cup {Ack, Break, Eof}) /\ q # <<>>
      /\ \A i \in DOMAIN q : i > 1 => q[i] \in {Ack, Break, Eof}
      /\ q[1].k = "Z" => Len(q) > 1
      /\ q[1].k \in {"M", "X"} => gdb.sessions > 1 \/ (rsp.mp[q[1].addr] = None /\ ~At("insert"))
  BY <1>1, QueueControl
<1>5. toServer' = q
  BY <1>2
<1> HIDE DEF q
<1>6. RspTypeOK'
  <2>1. gdb' \in GdbType
    BY <1>1, <1>2, GdbFields DEF RspTypeOK
  <2> QED BY <1>1, <1>2, <1>4, <1>5, <2>1 DEF RspTypeOK
<1>7. (todo \in Seq(Micro))' /\ Programs' /\ Releases' /\ Reports' /\ Copies' /\ StepMode'
  BY <1>2, <1>3, Steady
<1>8. Requested'
  <2>1. (\A op \in {"insert", "writeMem"} : At(op)' <=> At(op)) /\ Arg' = Arg
    BY <1>2 DEF At, Arg
  <2>2. /\ rsp.client /\ (At("writeMem") => gdb.sessions > 1 \/ rsp.mp[Arg] = None)
    BY <1>1, <1>2 DEF Requested
  <2> QED BY <1>2, <1>3, <1>4, <1>5, <2>1, <2>2 DEF Requested
<1>9. Table'
  BY <1>2, <1>3, KeptTable
<1> QED BY <1>6, <1>7, <1>8, <1>9 DEF RspCore

-----------------------------------------------------------------------------
(* The polling thread                                                       *)

\* The thread leaves the program, the processor and the client alone.
LEMMA ThreadFrame ==
    ASSUME RspCore, KeepHandler, rsp'.running => rsp.running, rsp'.single = rsp.single,
           rsp'.mp = rsp.mp, rsp'.client = rsp.client
    PROVE  /\ (todo \in Seq(Micro))' /\ Programs' /\ StepMode' /\ Requested' /\ Table'
           /\ \A op \in Ops : At(op)' <=> At(op)
<1>1. /\ todo' = todo /\ reading' = reading /\ up' = up /\ cpu' = cpu /\ mem' = mem
      /\ toServer' = toServer /\ toClient' = toClient /\ gdb' = gdb
  BY DEF KeepHandler, targetVars, clientVars
<1>2. \A op \in Ops : At(op)' <=> At(op)
  BY <1>1 DEF At
<1>3. (todo \in Seq(Micro))' /\ Programs'
  BY <1>1 DEF RspCore, Programs
<1>4. StepMode'
  BY <1>1 DEF RspCore, StepMode, Continues
<1>5. Requested'
  <2>1. (\A op \in {"insert", "writeMem"} : At(op)' <=> At(op)) /\ Arg' = Arg
    BY <1>1 DEF At, Arg
  <2> QED BY <1>1, <2>1 DEF RspCore, Requested
<1>6. Table'
  BY <1>1, KeptTable
<1> QED BY <1>2, <1>3, <1>4, <1>5, <1>6

\* A step of the thread that only moves the thread, never to a place where a stop is known.
LEMMA ThreadMoves ==
    ASSUME RspCore, KeepHandler, rsp' = rsp, pipe' = pipe, th' \in HandlerType,
           th'.pc \in {"clear", "log"} => th'.pc = th.pc, th'.overtaken = th.overtaken
    PROVE  RspCore'
<1>1. RspTypeOK
  BY DEF RspCore
<1>2. /\ todo' = todo /\ reading' = reading /\ up' = up /\ cpu' = cpu /\ mem' = mem
      /\ toServer' = toServer /\ toClient' = toClient /\ gdb' = gdb
  BY DEF KeepHandler, targetVars, clientVars
<1>3. RspTypeOK'
  BY <1>1, <1>2 DEF RspTypeOK
<1>4. /\ (todo \in Seq(Micro))' /\ Programs' /\ StepMode' /\ Requested' /\ Table'
      /\ \A op \in Ops : At(op)' <=> At(op)
  BY ThreadFrame
<1>5. (At("go")' <=> At("go")) /\ (At("report")' <=> At("report"))
  BY <1>4 DEF Ops
<1>6. th'.pc = "clear" => th.pc = "clear"
  OBVIOUS
<1>7. th'.pc = "log" => th.pc = "log"
  OBVIOUS
<1>8. Releases'
  BY <1>2, <1>5, <1>6 DEF RspCore, Releases
<1>9. Reports'
  BY <1>2, <1>5, <1>7 DEF RspCore, Reports, Stopped, Signalled
<1>10. Copies'
  BY <1>2, <1>5 DEF RspCore, Copies
<1> QED BY <1>3, <1>4, <1>8, <1>9, <1>10 DEF RspCore

LEMMA HandlerMovesCore ==
    RspCore /\ (HandlerTop \/ HandlerSpurious \/ HandlerWoken \/ HandlerHalt) => RspCore'
<1> SUFFICES ASSUME RspCore, HandlerTop \/ HandlerSpurious \/ HandlerWoken \/ HandlerHalt PROVE RspCore'
  OBVIOUS
<1>1. th \in HandlerType
  BY DEF RspCore, RspTypeOK
<1>2. KeepHandler /\ rsp' = rsp /\ pipe' = pipe
  BY DEF HandlerTop, HandlerSpurious, HandlerWoken, HandlerHalt
<1>3. \E p \in {"top", "wait", "woken", "poll", "halt", "exit"}, n \in 0 .. 2 :
        th' = [th EXCEPT !.pc = p] \/ th' = [th EXCEPT !.pc = p, !.state = n]
  <2>1. CASE HandlerTop
    BY <2>1 DEF HandlerTop, Obeyed
  <2>2. CASE HandlerSpurious
    BY <2>2 DEF HandlerSpurious
  <2>3. CASE HandlerWoken
    BY <2>3 DEF HandlerWoken, Obeyed
  <2>4. CASE HandlerHalt
    BY <2>4 DEF HandlerHalt
  <2> QED BY <2>1, <2>2, <2>3, <2>4
<1>4. PICK p \in {"top", "wait", "woken", "poll", "halt", "exit"}, n \in 0 .. 2 :
        th' = [th EXCEPT !.pc = p] \/ th' = [th EXCEPT !.pc = p, !.state = n]
  BY <1>3
<1>5. th'.pc = p /\ th'.overtaken = th.overtaken /\ th' \in HandlerType
  BY <1>1, <1>4 DEF HandlerType
<1> QED BY <1>2, <1>5, ThreadMoves

LEMMA HandlerPollCore == RspCore /\ HandlerPoll => RspCore'
<1> SUFFICES ASSUME RspCore, HandlerPoll PROVE RspCore'
  OBVIOUS
<1>1. RspTypeOK /\ th \in HandlerType
  BY DEF RspCore, RspTypeOK
<1>2. KeepHandler /\ rsp' = rsp /\ pipe' = pipe
  BY DEF HandlerPoll
<1>3. CASE th' = [th EXCEPT !.pc = "exit"]
  <2>1. th'.pc = "exit" /\ th'.overtaken = th.overtaken /\ th' \in HandlerType
    BY <1>1, <1>3 DEF HandlerType
  <2> QED BY <1>2, <2>1, ThreadMoves
<1>4. CASE cpu.stalled /\ th' = [th EXCEPT !.pc = "clear", !.overtaken = @ \/ At("go")]
  <2>1. (th.overtaken \/ At("go")) \in BOOLEAN
    BY DEF At
  <2>2. th'.pc = "clear" /\ (~th'.overtaken => ~th.overtaken) /\ th' \in HandlerType
    BY <1>1, <1>4, <2>1 DEF HandlerType
  <2>3. /\ todo' = todo /\ reading' = reading /\ up' = up /\ cpu' = cpu /\ mem' = mem
        /\ toServer' = toServer /\ toClient' = toClient /\ gdb' = gdb
    BY <1>2 DEF KeepHandler, targetVars, clientVars
  <2>4. RspTypeOK'
    BY <1>1, <1>2, <2>2, <2>3 DEF RspTypeOK
  <2>5. /\ (todo \in Seq(Micro))' /\ Programs' /\ StepMode' /\ Requested' /\ Table'
        /\ \A op \in Ops : At(op)' <=> At(op)
    BY <1>2, ThreadFrame
  <2>6. (At("go")' <=> At("go")) /\ (At("report")' <=> At("report"))
    BY <2>5 DEF Ops
  <2>7. Releases'
    BY <1>2, <1>4, <2>2, <2>3, <2>6 DEF RspCore, Releases
  <2>8. Reports'
    BY <1>2, <2>2, <2>3, <2>6 DEF RspCore, Reports, Stopped, Signalled
  <2>9. Copies'
    BY <1>2, <2>2, <2>3, <2>6 DEF RspCore, Copies
  <2> QED BY <2>4, <2>5, <2>7, <2>8, <2>9 DEF RspCore
<1> QED BY <1>3, <1>4 DEF HandlerPoll

LEMMA HandlerClearCore == RspCore /\ HandlerClear => RspCore'
<1> SUFFICES ASSUME RspCore, HandlerClear PROVE RspCore'
  OBVIOUS
<1>1. RspTypeOK /\ th \in HandlerType
  BY DEF RspCore, RspTypeOK
<1>2. /\ KeepHandler /\ pipe' = pipe /\ rsp' = [rsp EXCEPT !.running = FALSE] /\ th.pc = "clear"
      /\ th' = [th EXCEPT !.pc = "log", !.overtaken = @ \/ At("go")]
  BY DEF HandlerClear, HandlerAt
<1>3. /\ rsp'.running = FALSE /\ rsp'.sigval = rsp.sigval /\ rsp'.npc = rsp.npc
      /\ rsp'.single = rsp.single /\ rsp'.mp = rsp.mp /\ rsp'.client = rsp.client /\ rsp' \in RspType
  <2>1. rsp' \in RspType
    BY <1>1, <1>2, RspFields DEF RspTypeOK
  <2> QED BY <1>1, <1>2, <2>1 DEF RspTypeOK, RspType
<1>4. (th.overtaken \/ At("go")) \in BOOLEAN
  BY DEF At
<1>5. th'.pc = "log" /\ (~th'.overtaken => ~th.overtaken /\ ~At("go")) /\ th' \in HandlerType
  BY <1>1, <1>2, <1>4 DEF HandlerType
<1>6. /\ todo' = todo /\ reading' = reading /\ up' = up /\ cpu' = cpu /\ mem' = mem
      /\ toServer' = toServer /\ toClient' = toClient /\ gdb' = gdb
  BY <1>2 DEF KeepHandler, targetVars, clientVars
<1>7. RspTypeOK'
  BY <1>1, <1>2, <1>3, <1>5, <1>6 DEF RspTypeOK
<1>8. /\ (todo \in Seq(Micro))' /\ Programs' /\ StepMode' /\ Requested' /\ Table'
      /\ \A op \in Ops : At(op)' <=> At(op)
  BY <1>2, <1>3, ThreadFrame
<1>9. (At("go")' <=> At("go")) /\ (At("report")' <=> At("report"))
  BY <1>8 DEF Ops
<1>10. ~th'.overtaken => cpu.stalled /\ ~At("go")
  BY <1>2, <1>5 DEF RspCore, Releases
<1>11. Releases'
  BY <1>5, <1>6, <1>9, <1>10 DEF Releases
<1>12. Reports'
  <2>1. ~th'.overtaken => Stopped'
    BY <1>3, <1>6, <1>10 DEF Stopped
  <2>2. ~th.overtaken /\ NoGo(todo) =>
          (pipe > 0 \/ (At("report") /\ Len(todo) = 2 /\ todo[2].op = "reported")
               => Signalled)
    BY DEF RspCore, Reports
  <2> QED BY <1>2, <1>3, <1>5, <1>6, <1>9, <2>1, <2>2 DEF Reports, Signalled
<1>13. Copies'
  <2>1. ~th'.overtaken =>
          /\ rsp.npc # NoAddr => rsp.npc = cpu.npc
          /\ ~(cpu.hidden /\ rsp.npc = NoAddr)
    BY <1>5, <1>10 DEF RspCore, Copies
  <2> QED BY <1>3, <1>6, <2>1 DEF Copies
<1> QED BY <1>7, <1>8, <1>11, <1>12, <1>13 DEF RspCore

LEMMA SignalType == \A d \in Known : Signal(d) \in {"TRAP", "BUS", "ILL"}
<1> TAKE d \in Known
<1>1. d = None \/ d = "TE" \/ d = "BUSEE" \/ d = "IIE"
  BY DEF Known, Reasons
<1> QED BY <1>1 DEF Signal, None

LEMMA ExceptionCore == RspCore /\ rsp_exception => RspCore'
<1> SUFFICES ASSUME RspCore, rsp_exception PROVE RspCore'
  OBVIOUS
<1>1. RspTypeOK /\ th \in HandlerType
  BY DEF RspCore, RspTypeOK
<1>2. /\ KeepHandler /\ pipe' = pipe + 1 /\ th.pc = "log"
      /\ rsp' = [rsp EXCEPT !.sigval = IF cpu.drr \in Known THEN Signal(cpu.drr) ELSE @]
      /\ th' = [th EXCEPT !.pc = "halt"]
  BY DEF rsp_exception, HandlerAt
<1> DEFINE sigval == IF cpu.drr \in Known THEN Signal(cpu.drr) ELSE rsp.sigval
<1>3. sigval \in {None, "TRAP", "BUS", "ILL"} /\ rsp' = [rsp EXCEPT !.sigval = sigval]
  BY <1>1, <1>2, Types, SignalType DEF RspTypeOK, RspType
<1>4. rsp' \in RspType
  BY <1>1, <1>3, RspFields DEF RspTypeOK
<1>5. /\ rsp'.running = rsp.running /\ rsp'.npc = rsp.npc
      /\ rsp'.single = rsp.single /\ rsp'.mp = rsp.mp /\ rsp'.client = rsp.client
  BY <1>1, <1>2 DEF RspTypeOK, RspType
<1>6. Signalled'
  <2>1. rsp'.sigval = sigval /\ cpu' = cpu
    BY <1>1, <1>2, <1>3 DEF RspTypeOK, RspType, KeepHandler, targetVars
  <2> QED BY <2>1 DEF Signalled
<1>7. th'.pc = "halt" /\ th'.overtaken = th.overtaken /\ th' \in HandlerType
  BY <1>1, <1>2 DEF HandlerType
<1>8. /\ todo' = todo /\ reading' = reading /\ up' = up /\ cpu' = cpu /\ mem' = mem
      /\ toServer' = toServer /\ toClient' = toClient /\ gdb' = gdb
  BY <1>2 DEF KeepHandler, targetVars, clientVars
<1>9. pipe \in Nat /\ pipe' \in Nat
  BY <1>1, <1>2, Types
<1>10. RspTypeOK'
  BY <1>1, <1>4, <1>7, <1>8, <1>9 DEF RspTypeOK
<1>11. /\ (todo \in Seq(Micro))' /\ Programs' /\ StepMode' /\ Requested' /\ Table'
       /\ \A op \in Ops : At(op)' <=> At(op)
  BY <1>2, <1>5, ThreadFrame
<1>12. (At("go")' <=> At("go")) /\ (At("report")' <=> At("report"))
  BY <1>11 DEF Ops
<1>13. Releases'
  BY <1>5, <1>7, <1>8, <1>12 DEF RspCore, Releases
<1>14. Reports'
  <2>1. ~th.overtaken /\ NoGo(todo) => Stopped
    BY <1>2 DEF RspCore, Reports
  <2> QED BY <1>5, <1>6, <1>7, <1>8, <2>1 DEF Reports, Stopped, Signalled
<1>15. Copies'
  BY <1>5, <1>7, <1>8, <1>12 DEF RspCore, Copies
<1> QED BY <1>10, <1>11, <1>13, <1>14, <1>15 DEF RspCore

-----------------------------------------------------------------------------
(* The processor                                                            *)

LEMMA ExecuteCore == \A fault \in Reasons : RspCore /\ Execute(fault) => RspCore'
<1> SUFFICES ASSUME NEW fault \in Reasons, RspCore, Execute(fault) PROVE RspCore'
  OBVIOUS
<1>1. RspTypeOK
  BY DEF RspCore
<1> DEFINE reason == IF mem[cpu.npc] = Trap THEN "TE" ELSE fault
           stops == reason # None /\ cpu.dsr
           drr == IF stops THEN reason ELSE cpu.drr
           halt == stops \/ cpu.st
<1>2. /\ ~cpu.stalled
      /\ cpu' = [cpu EXCEPT !.ppc = cpu.npc, !.npc = After(cpu.npc), !.hidden = FALSE,
                            !.stalled = halt, !.drr = drr]
      /\ gdb' = gdb /\ rsp' = rsp /\ todo' = todo /\ reading' = reading /\ up' = up /\ th' = th /\ pipe' = pipe
      /\ mem' = mem /\ toServer' = toServer /\ toClient' = toClient
  BY DEF Execute, serverVars, clientVars
<1>3. halt \in BOOLEAN /\ drr \in Reasons /\ cpu.npc \in Addrs /\ After(cpu.npc) \in Addrs
  <2>1. cpu.npc \in Addrs /\ cpu.drr \in Reasons
    BY <1>1, Types
  <2>2. After(cpu.npc) \in Addrs
    BY <2>1, AddrFacts
  <2>3. drr \in Reasons
    BY <2>1 DEF Reasons
  <2>4. halt \in BOOLEAN
    OBVIOUS
  <2> QED BY <2>1, <2>2, <2>3, <2>4
<1> HIDE DEF halt, drr
<1>4. cpu' \in CpuType
  <2>1. cpu \in CpuType
    BY <1>1 DEF RspTypeOK
  <2> QED BY <1>2, <1>3, <2>1 DEF CpuType
<1>5. cpu'.hidden = FALSE /\ cpu'.st = cpu.st
  BY <1>1, <1>2 DEF RspTypeOK, CpuType
<1>8. RspTypeOK'
  BY <1>1, <1>2, <1>4 DEF RspTypeOK
<1>9. (\A op \in Ops : At(op)' <=> At(op)) /\ Arg' = Arg
  BY <1>2 DEF At, Arg
<1>10. (todo \in Seq(Micro))' /\ Programs'
  BY <1>2 DEF RspCore, Programs
<1>11. ~th.overtaken => rsp.running /\ th.pc # "clear"
  BY <1>2 DEF RspCore, Releases
<1>12. Releases'
  BY <1>2, <1>11 DEF Releases
<1>13. Reports'
  <2>1. ~th.overtaken /\ NoGo(todo) => ~Stopped /\ (th.pc = "log" => Stopped)
            /\ (pipe > 0 \/ (At("report") /\ Len(todo) = 2 /\ todo[2].op = "reported") => Stopped)
    BY <1>2 DEF RspCore, Reports, Stopped, Signalled
  <2>2. At("report")' <=> At("report")
    BY <1>9 DEF Ops
  <2> QED BY <1>2, <2>1, <2>2 DEF Reports
<1>14. Copies'
  <2>1. ~th.overtaken => rsp.npc = NoAddr
    BY <1>11 DEF RspCore, Copies
  <2> QED BY <1>2, <1>5, <2>1 DEF Copies
<1>15. StepMode'
  BY <1>2, <1>5 DEF RspCore, StepMode, Continues
<1>16. Requested'
  <2>1. \A op \in {"insert", "writeMem"} : At(op)' <=> At(op)
    BY <1>9 DEF Ops
  <2> QED BY <1>2, <1>9, <2>1 DEF RspCore, Requested
<1>17. Table'
  BY <1>2, KeptTable
<1> QED BY <1>8, <1>10, <1>12, <1>13, <1>14, <1>15, <1>16, <1>17 DEF RspCore

-----------------------------------------------------------------------------
(* The theorems                                                             *)

LEMMA InitCore == Init => RspCore
<1> SUFFICES ASSUME Init PROVE RspCore
  OBVIOUS
<1>1. /\ rsp = [client |-> FALSE, waiting |-> FALSE, running |-> FALSE, single |-> FALSE,
                sigval |-> None, mp |-> mp_hash_init, npc |-> NoAddr]
      /\ todo = <<>> /\ reading = FALSE /\ up = TRUE
      /\ th = [pc |-> "top", state |-> 0, overtaken |-> FALSE] /\ pipe = 0
      /\ cpu = [stalled |-> TRUE, npc |-> 0, hidden |-> FALSE, ppc |-> 0, dsr |-> TRUE, st |-> FALSE, drr |-> None]
      /\ mem = [a \in Addrs |-> "old"] /\ toServer = <<>> /\ toClient = <<>>
      /\ gdb = [state |-> "away", requests |-> 0, breaks |-> 0, sessions |-> 0,
                image |-> [a \in Addrs |-> "old"]]
  BY DEF Init
<1>2. ~At("go") /\ ~At("report") /\ ~At("insert") /\ ~At("writeMem")
  BY <1>1 DEF At
<1>3. RspTypeOK
  <2>1. mp_hash_init \in [Addrs -> Code \cup {None, Trap}]
    BY DEF mp_hash_init
  <2>2. rsp \in RspType
    BY <1>1, <2>1 DEF RspType
  <2>3. th \in HandlerType
    BY <1>1 DEF HandlerType
  <2>4. cpu \in CpuType
    BY <1>1, AddrFacts DEF CpuType, Reasons
  <2>5. [a \in Addrs |-> "old"] \in [Addrs -> Code]
    BY DEF Code
  <2>6. gdb \in GdbType
    BY <1>1, <2>5 DEF GdbType
  <2>7. mem \in [Addrs -> Code \cup {Trap}]
    BY <1>1 DEF Code
  <2>8. toServer \in Seq(Request \cup {Ack, Break, Eof})
    BY <1>1
  <2> QED BY <1>1, <2>2, <2>3, <2>4, <2>6, <2>7, <2>8 DEF RspTypeOK
<1>4. todo \in Seq(Micro) /\ Programs
  BY <1>1, QuietNothing DEF Quiet, Programs
<1>5. Releases /\ Reports /\ Copies
  BY <1>1, <1>2 DEF Releases, Reports, Copies
<1>6. StepMode
  BY <1>1 DEF StepMode
<1>7. Requested
  BY <1>1, <1>2 DEF Requested
<1>8. Table
  BY <1>1 DEF Table, mp_hash_init
<1> QED BY <1>3, <1>4, <1>5, <1>6, <1>7, <1>8 DEF RspCore

LEMMA StutterCore == RspCore /\ UNCHANGED vars => RspCore'
BY DEF RspCore, vars, RspTypeOK, Programs, Releases, Reports, Copies, StepMode, Requested, Table, At, Arg, Stopped, Signalled, Continues

LEMMA NextCore == RspCore /\ [Next]_vars => RspCore'
<1> SUFFICES ASSUME RspCore, [Next]_vars PROVE RspCore'
  OBVIOUS
<1>1. CASE ClientStep
  BY <1>1, ConnectCore, SendRequestCore, SendBreakCore, ReceiveCore, LeaveCore DEF ClientStep
<1>2. CASE handle_rsp
  BY <1>2, ClientRequestCore, PipeEventCore, PollErrorCore DEF handle_rsp
<1>3. CASE ServerStep
  BY <1>3, PutCore, AwaitCore, CloseCore, DataCore, CpuAccessCore, GoCore, MemAccessCore,
     StateCore DEF ServerStep
<1>4. CASE target_handler \/ HandlerSpurious
  BY <1>4, HandlerMovesCore, HandlerPollCore, HandlerClearCore, ExceptionCore DEF target_handler
<1>5. CASE CpuStep
  <2>1. cpu.npc \in Addrs
    BY Types DEF RspCore
  <2>2. {None} \cup Faults[cpu.npc] \subseteq Reasons
    BY <2>1, RspAssumption DEF Reasons
  <2> QED BY <1>5, <2>2, ExecuteCore DEF CpuStep
<1>6. CASE UNCHANGED vars
  BY <1>6, StutterCore
<1> QED BY <1>1, <1>2, <1>3, <1>4, <1>5, <1>6 DEF Next

\* What follows from the rest: with nothing under way the copies are the processor's.
LEMMA CopiesFollow == RspCore => CopiesMirror
<1> SUFFICES ASSUME RspCore PROVE CopiesMirror
  OBVIOUS
<1>1. Copies /\ StepMode
  BY DEF RspCore
<1>2. NpcIsKnown
  BY <1>1 DEF NpcIsKnown, Copies, InStep
<1>3. StepModeMirrors
  BY <1>1 DEF StepModeMirrors, StepMode
<1> QED BY <1>2, <1>3 DEF CopiesMirror

\* The invariant of the server, its polling thread and the processor, for every program, every
\* set of requests and any number of requests, breaks and clients.
THEOREM RspInvariance == RspSpec => []RspInv
<1>1. RspCore => RspInv
  BY CopiesFollow DEF RspCore, RspInv
<1> QED BY InitCore, NextCore, <1>1, PTL DEF RspSpec

\* While the processor executes target_running says so, unless a release has overtaken a report.
THEOREM RspRunningFlagged == RspSpec => []RunningIsFlagged
<1>1. RspInv => RunningIsFlagged
  BY DEF RspInv, Releases, RunningIsFlagged, InStep
<1> QED BY RspInvariance, <1>1, PTL

\* A stop that is about to be reported is one, and its signal is that of its reason.
THEOREM RspStopTruthful == RspSpec => []StopReplyTruthful
<1>1. RspCore => StopReplyTruthful
  <2> SUFFICES ASSUME RspCore, InStep, Len(todo) = 2, At("report"), todo[2].op = "reported"
               PROVE  cpu.stalled /\ ~rsp.running /\ Signalled
    BY DEF StopReplyTruthful
  <2>1. todo \in Seq(Micro) /\ Head(todo).op = "report"
    BY DEF RspCore, At
  <2>2. DOMAIN todo = 1 .. 2 /\ Head(todo) = todo[1]
    BY <2>1
  <2>3. \A i \in DOMAIN todo : i = 1 \/ i = 2
    BY <2>2
  <2>4. NoGo(todo)
    BY <2>1, <2>2, <2>3 DEF NoGo
  <2> QED BY <2>4 DEF RspCore, Reports, InStep, Stopped
<1> QED BY InitCore, NextCore, <1>1, PTL DEF RspSpec

\* While the first client is served, memory holds a trap exactly where the table has an entry,
\* and the entry is the instruction the client put there.
THEOREM RspTableRight == RspSpec => []TableMatchesMemory
<1>1. RspInv => TableMatchesMemory
  <2> SUFFICES ASSUME RspInv, Serving PROVE TableMatchesMemory
    BY DEF TableMatchesMemory
  <2>1. gdb.sessions <= 1
    BY DEF Serving
  <2> QED BY <2>1 DEF RspInv, Table, TableMatchesMemory
<1> QED BY RspInvariance, <1>1, PTL
=============================================================================
