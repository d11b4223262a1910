----------------------------- MODULE BsdlParse -----------------------------
(***************************************************************************)
(* The parser of BSDL files (bsdl_parse.c): from a file that describes a   *)
(* device it takes the length of the instruction register, the opcodes of  *)
(* DEBUG, USER1 and IDCODE, and the IDCODE itself.  It reads line by line  *)
(* and each loop of it that fetches a line is a step.                      *)
(*                                                                         *)
(* A file is a sequence of lines, a line one of atoms: a space, a mark, a  *)
(* word, a number, an opcode, or a bit of the IDCODE.  Lines end with a    *)
(* newline, and the name of an attribute stands on the line of ATTRIBUTE.  *)
(***************************************************************************)
EXTENDS Integers, Sequences, FiniteSetsExt

CONSTANTS Files   \* files: lines, the IR_size, cmds and id they state, and attributes that may be missed

W(word) == <<word>>
Sp == W("space")
Colon == W(":")
Semi == W(";")
Open == W("(")
Close == W(")")
Quote == W("quote")
Comma == W(",")
Comment == W("--")
Num(n) == <<"num", n>>
Op(n) == <<"op", n>>
IdBit(b) == <<"bit", b>>   \* 0, 1 or X
Invalid == -1

VARIABLES
    file, pos,  \* the lines, the next of them
    last,       \* what is left of the line
    pc, what,   \* which loop, and the attribute it is for
    opens, valid, buf,  \* brackets open, inside quotes, what has been copied
    info        \* IR_size, cmds, id, and which of the three have been found

parsevars == <<file, pos, last, pc, what, opens, valid, buf, info>>

Init ==
    /\ file \in Files
    /\ pos = 1 /\ last = <<>> /\ pc = "next" /\ what = "none" /\ opens = 0 /\ valid = FALSE /\ buf = <<>>
    /\ info = [ir |-> -1, cmds |-> [c \in {"DEBUG", "USER1", "IDCODE"} |-> Invalid], id |-> <<>>, found |-> {}]

-----------------------------------------------------------------------------
(* Strings.                                                                 *)

\* The first place of s that holds one of the marks, or 0.
First(at) == IF at = {} THEN 0 ELSE Min(at)
Find(s, marks) == First({i \in DOMAIN s : s[i] \in marks})
From(s, i) == SubSeq(s, i, Len(s))
\* strtok_r: the token, and what lies behind the delimiter that ended it.
Start(s, delims) == First({i \in DOMAIN s : s[i] \notin delims})
Token(s, delims) == LET t == From(s, Start(s, delims))
                        e == Find(t, delims)
                    IN IF Start(s, delims) = 0 THEN <<>> ELSE IF e = 0 THEN t ELSE SubSeq(t, 1, e - 1)
Rest(s, delims) == LET t == From(s, Start(s, delims))
                       e == Find(t, delims)
                   IN IF Start(s, delims) = 0 \/ e = 0 THEN <<>> ELSE From(t, e + 1)

N == Len(file.lines)
\* get_line: lines that are blank or a comment are passed over, and what follows "--" is cut off.
Content(line) == Start(line, {Sp}) # 0 /\ line[Start(line, {Sp})] # Comment
LineAt(p) == First({i \in p .. N : Content(file.lines[i])})
\* Fault: the comment at the end of a line stays.
Cut_Not(line) == line
Cut(line) == IF Find(line, {Comment}) = 0 THEN line ELSE SubSeq(line, 1, Find(line, {Comment}) - 1)
get_line(p) == IF LineAt(p) = 0 THEN <<>> ELSE From(Cut(file.lines[LineAt(p)]), Start(file.lines[LineAt(p)], {Sp}))
NextPos(p) == IF LineAt(p) = 0 THEN N + 1 ELSE LineAt(p) + 1
Fetch == last' = get_line(pos) /\ pos' = NextPos(pos)

-----------------------------------------------------------------------------
(* parse_extract_values.                                                    *)

Attributes == {"ir", "cmds", "id"}
AttributeOf(token) == IF Len(token) = 1 /\ token[1][1] \in Attributes THEN token[1][1] ELSE "other"
\* The main loop: the first word of a line says what is to be looked for.
AtLine ==
    /\ pc = "next" /\ pos <= N /\ info.found # Attributes
    /\ pos' = NextPos(pos)
    /\ LET line == get_line(pos)
           token == Token(line, {Sp})
           rest == Rest(line, {Sp})
           Goto(p, l) == pc' = p /\ last' = l
       IN /\ CASE token \in {<<>>, <<W("END")>>} -> Goto("done", rest)
               [] token \in {<<W("CONSTANT")>>, <<W("GENERIC")>>} -> Goto("skip", Rest(rest, {Sp}))
               \* The semicolon is a delimiter here.
               [] token = <<W("USE")>> -> Goto("skip", Rest(rest, {Sp, Semi}))
               [] token = <<W("PORT")>> -> Goto("port", rest)
               [] token = <<W("ATTRIBUTE")>> ->
                      Goto(IF AttributeOf(Token(rest, {Sp})) # "other" THEN "colon" ELSE "skip", Rest(rest, {Sp}))
               [] OTHER -> Goto("next", rest)
          /\ what' = IF token = <<W("ATTRIBUTE")>> THEN AttributeOf(Token(rest, {Sp})) ELSE what
    /\ opens' = 0 /\ valid' = FALSE /\ buf' = <<>> /\ UNCHANGED <<file, info>>
Finished == /\ pc = "next" /\ (pos > N \/ info.found = Attributes)
            /\ pc' = "done" /\ UNCHANGED <<file, pos, last, what, opens, valid, buf, info>>

\* To the semicolon, and what comes after it on its line is dropped.
Skip ==
    /\ pc = "skip"
    /\ IF Find(last, {Semi}) # 0 THEN pc' = "next" /\ UNCHANGED <<last, pos>> ELSE UNCHANGED pc /\ Fetch
    /\ UNCHANGED <<file, what, opens, valid, buf, info>>
\* A port list: one bracket, then pairs until it is closed, then the semicolon.
Port ==
    /\ pc = "port"
    /\ LET i == Find(last, IF opens = 0 THEN {Open} ELSE {Open, Close})
           now == IF i = 0 THEN opens ELSE IF last[i] = Open THEN opens + 1 ELSE opens - 1
       IN IF i = 0 THEN Fetch /\ UNCHANGED <<pc, opens>>
          ELSE last' = From(last, i + 1) /\ opens' = now /\ pc' = (IF now = 0 THEN "skip" ELSE "port") /\ UNCHANGED pos
    /\ UNCHANGED <<file, what, valid, buf, info>>
\* ": entity is", each on the line it is found on.
Mark == [colon |-> Colon, entity |-> W("entity"), is |-> W("is")]
After == [colon |-> "entity", entity |-> "is", is |-> "first"]
Header ==
    /\ pc \in DOMAIN Mark
    /\ LET i == Find(last, {Mark[pc]})
       IN IF i = 0 THEN Fetch /\ UNCHANGED pc
          ELSE last' = From(last, i) /\ pc' = After[pc] /\ UNCHANGED pos
    /\ UNCHANGED <<file, what, opens, valid, buf, info>>

\* What is copied from a line up to the semicolon: digits, or what stands between quotes.  A
\* semicolon between quotes ends the first line's copy and is copied from a later line.
Step(s, c, first) ==
    CASE s.done -> s
      [] c = Semi /\ (first \/ ~s.valid \/ what = "ir") -> [s EXCEPT !.done = TRUE]
      [] what = "ir" -> IF c[1] = "num" THEN [s EXCEPT !.buf = Append(@, c)] ELSE s
      [] c = Quote -> [s EXCEPT !.valid = ~@]
      [] OTHER -> IF s.valid THEN [s EXCEPT !.buf = Append(@, c)] ELSE s
Copied(line, first) ==
    LET s[i \in 0 .. Len(line)] == IF i = 0 THEN [done |-> FALSE, valid |-> valid, buf |-> buf] ELSE Step(s[i - 1], line[i], first)
    IN s[Len(line)]
Copy ==
    /\ pc \in {"first", "more"}
    /\ LET line == IF pc = "first" THEN last ELSE get_line(pos)
           s == Copied(line, pc = "first")
       IN /\ buf' = s.buf /\ valid' = s.valid /\ pc' = IF s.done THEN "value" ELSE "more"
          /\ pos' = IF pc = "first" THEN pos ELSE NextPos(pos)
    /\ UNCHANGED <<file, last, what, opens, info>>

\* parse_opcodes: pairs of a name and an opcode between commas.
Pairs == LET ends == {i \in 1 .. Len(buf) + 1 : i = Len(buf) + 1 \/ buf[i] = Comma}
             begin(e) == CHOOSE b \in {1} \cup {i + 1 : i \in ends} : b <= e /\ \A i \in ends : i < b \/ i >= e
         IN {SubSeq(buf, begin(e), e - 1) : e \in ends}
parse_opcodes ==
    LET of(c) == {p \in Pairs : Token(p, {Sp, Open}) = <<W(c)>>}
    IN [c \in DOMAIN info.cmds |->
          IF of(c) = {} THEN info.cmds[c]
          ELSE Token(Rest(CHOOSE p \in of(c) : TRUE, {Sp, Open}), {Sp, Open, Close})[1][2]]
Value ==
    /\ pc = "value" /\ pc' = "next"
    /\ info' = [info EXCEPT !.found = @ \cup {what},
                            !.ir = IF what = "ir" THEN buf[1][2] ELSE @,
                            !.cmds = IF what = "cmds" THEN parse_opcodes ELSE @,
                            !.id = IF what = "id" THEN [i \in DOMAIN buf |-> buf[i][2]] ELSE @]
    /\ UNCHANGED <<file, pos, last, what, opens, valid, buf>>

Next == AtLine \/ Finished \/ Skip \/ Port \/ Header \/ Copy \/ Value
Spec == Init /\ [][Next]_parsevars

-----------------------------------------------------------------------------

\* However the statements are ordered, broken into lines and commented, the values found are those
\* the file states.  Those of a statement may be missed whose predecessor is a USE that ends in a
\* semicolon without a space: the token takes the semicolon, and the search for it goes on.
LayoutIndifferent ==
    pc = "done" =>
        \A a \in Attributes \ file.missed :
            /\ a \in info.found
            /\ a = "ir" => info.ir = file.ir
            /\ a = "id" => info.id = file.id
            /\ a = "cmds" => info.cmds = file.cmds
\* No loop runs into the end of such a file, where it would stay.
ParserEnds == pc \notin {"done", "next", "value"} => pos <= N \/ last # <<>>
=============
