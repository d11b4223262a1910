--------------------------------- MODULE Shell ---------------------------------
(***************************************************************************)
(* The monitor's console: the keyboard's interrupt and its ring            *)
(* (orpmon/drivers/keyboard.c, int.c), getc and the editing of a line      *)
(* (common/common.c), the text on the screen (common/screen.c), and the    *)
(* split of a line into a command and its arguments, by the monitor and by *)
(* the shells of hdbug and atabug (cmds/hdbug.c, cmds/atabug.c).           *)
(*                                                                         *)
(* The interrupt comes between any two accesses of the program to the      *)
(* ring.  On the UART console nothing runs beside the program, and a line  *)
(* is read in one step.  A character stands for itself; "nul" is what the  *)
(* keyboard's table has for keys without one.                              *)
(***************************************************************************)
EXTENDS Integers, SequencesExt

CONSTANTS KBDBUF_SIZE,     \* of the ring
          CHARSX, CHARSY,  \* of the screen
          Keys, Shifts,    \* keys with a character, and the two shift keys
          MaxKeys,         \* strokes on the keyboard, for TLC
          UartLines,       \* lines typed at the UART
          PORT             \* codes the keyboard holds back itself

ShellAssumption == /\ KBDBUF_SIZE \in Nat \ {0, 1} /\ CHARSX \in Nat \ {0, 1} /\ CHARSY \in Nat \ {0, 1}
                   /\ Keys \subseteq {"x", "1", "space", "bs", "enter", "esc"}

VARIABLES
    console,                      \* bd.bi_console_type
    port, strokes, held,          \* codes on the way, strokes so far, shift keys held down
    shift_state, kbd_buf, kbd_head, kbd_tail,
    meant, overrun,               \* characters in the ring as typed; a code met a full ring
    pc, ch,                       \* where the program is, the character getc has
    shell, str,                   \* the shell and its line
    screen, cx, cy, prompt, torn, \* text, cursor, where the line starts; a backspace met a row's start
    parsed                        \* the last line, the shell it was typed to, and its words

keyboard == <<port, strokes, held, shift_state, kbd_buf, kbd_head, meant, overrun>>
line == <<shell, str, parsed>>
text == <<screen, cx, cy, prompt, torn>>
vars == <<console, keyboard, kbd_tail, pc, ch, line, text>>

-----------------------------------------------------------------------------
(* The keyboard.                                                            *)

scan2ascii(k, shift) ==
    CASE k = "x" -> IF shift = 1 THEN "X" ELSE "x"
      [] k = "1" -> IF shift = 1 THEN "!" ELSE "1"
      [] k = "space" -> " "
      [] k = "enter" -> "nl"
      [] k = "bs" -> IF shift = 1 THEN "nul" ELSE "bs"
      [] k = "esc" -> IF shift = 1 THEN "nul" ELSE "esc"

put_queue(q, c) ==
    [q EXCEPT !.buf[q.head] = c, !.head = (@ + 1) % KBDBUF_SIZE,
              !.full = @ \/ (q.head + 1) % KBDBUF_SIZE = kbd_tail, !.in = Append(@, c)]
\* Fault: a shift key let go is not looked at.
handle_scancode_NoRelease(q, code) ==
    IF code.key \in Shifts THEN IF code.make THEN [q EXCEPT !.shift = 1] ELSE q
    ELSE IF code.make THEN put_queue(q, scan2ascii(code.key, q.shift)) ELSE q
handle_scancode(q, code) ==
    IF code.key \in Shifts THEN [q EXCEPT !.shift = IF code.make THEN 1 ELSE 0]
    ELSE IF code.make THEN put_queue(q, scan2ascii(code.key, q.shift)) ELSE q

\* The handler stays until the controller has no more codes; what its user means by a key depends
\* on the shift keys held when it was struck.
keyboard_interrupt ==
    /\ console = "crt" /\ port # <<>>
    /\ LET before == [buf |-> kbd_buf, head |-> kbd_head, shift |-> shift_state, full |-> overrun, in |-> <<>>]
           q == FoldLeft(LAMBDA acc, code : handle_scancode(acc, code), before, port)
       IN /\ kbd_buf' = q.buf /\ kbd_head' = q.head /\ shift_state' = q.shift /\ overrun' = q.full
          /\ meant' = meant \o [i \in 1 .. Len(q.in) |-> SelectSeq(port, LAMBDA c : c.make /\ c.key \notin Shifts)[i].means]
    /\ port' = <<>>
    /\ UNCHANGED <<console, strokes, held, kbd_tail, pc, ch, line, text>>

Struck(k, make) == [key |-> k, make |-> make,
                    means |-> IF k \in Shifts THEN "shift" ELSE scan2ascii(k, IF held = {} THEN 0 ELSE 1)]
Stroke ==
    /\ console = "crt" /\ strokes < MaxKeys /\ Len(port) < PORT
    /\ strokes' = strokes + 1
    /\ \/ \E k \in Keys : port' = Append(port, Struck(k, TRUE)) /\ held' = held
       \/ \E s \in Shifts \ held : held = {} /\ held' = {s} /\ port' = Append(port, Struck(s, TRUE))
       \/ \E s \in held : held' = held \ {s} /\ port' = Append(port, Struck(s, FALSE))
    /\ UNCHANGED <<console, shift_state, kbd_buf, kbd_head, kbd_tail, meant, overrun, pc, ch, line, text>>

\* getc waits for a character, takes it, and moves on: the handler may come in between.
GetcTake(from, to) ==
    /\ console = "crt" /\ pc = from /\ kbd_head # kbd_tail
    /\ ch' = kbd_buf[kbd_tail] /\ pc' = to
    /\ UNCHANGED <<console, keyboard, kbd_tail, line, text>>
Advances(from, to) ==
    /\ pc = from /\ pc' = to
    /\ kbd_tail' = (kbd_tail + 1) % KBDBUF_SIZE
    /\ meant' = IF meant = <<>> THEN <<>> ELSE Tail(meant)
    /\ UNCHANGED <<console, port, strokes, held, shift_state, kbd_buf, kbd_head, overrun, ch, line, text>>

-----------------------------------------------------------------------------
(* The screen: t is its cells, the cursor, and where the line starts.        *)

Text == [cells |-> screen, x |-> cx, y |-> cy, prompt |-> prompt, torn |-> torn]
put_char_xy(t, c) == [t EXCEPT !.cells[t.y][t.x] = c]
scroll(t) ==
    [t EXCEPT !.cells = [y \in 0 .. CHARSY - 1 |->
                            IF y < CHARSY - 1 THEN t.cells[y + 1] ELSE [x \in 0 .. CHARSX - 1 |-> " "]],
              !.y = @ - 1, !.prompt = @ - CHARSX]
NewLine(t) == LET n == [t EXCEPT !.y = @ + 1, !.x = 0] IN IF n.y >= CHARSY THEN scroll(n) ELSE n
\* Fault: the cursor stays over the end of a row.
screen_putc_NoWrap(t, c) ==
    CASE c = "nl" -> NewLine(t)
      [] c = "bs" -> put_char_xy([t EXCEPT !.x = IF @ > 0 THEN @ - 1 ELSE @, !.torn = @ \/ t.x = 0], " ")
      [] OTHER -> [put_char_xy(t, c) EXCEPT !.x = IF @ + 1 >= CHARSX THEN @ ELSE @ + 1]
screen_putc(t, c) ==
    CASE c = "nl" -> NewLine(t)
      [] c = "bs" -> put_char_xy([t EXCEPT !.x = IF @ > 0 THEN @ - 1 ELSE @, !.torn = @ \/ t.x = 0], " ")
      [] OTHER -> LET n == [put_char_xy(t, c) EXCEPT !.x = @ + 1] IN IF n.x >= CHARSX THEN NewLine(n) ELSE n
TextBecomes(t) ==
    /\ screen' = t.cells /\ cx' = t.x /\ cy' = t.y /\ prompt' = t.prompt /\ torn' = t.torn
\* A new prompt, of one character.
Prompt(t) == LET n == screen_putc(screen_putc(t, "nl"), ">")
             IN [n EXCEPT !.prompt = n.y * CHARSX + n.x, !.torn = FALSE]
Shown == [i \in 1 .. cy * CHARSX + cx - prompt |->
             screen[(prompt + i - 1) \div CHARSX][(prompt + i - 1) % CHARSX]]

-----------------------------------------------------------------------------
(* The line.                                                                *)

\* One turn of the loop.  A backspace moves back even from the start; what is in front of the line
\* is written then, and the model goes no further.
Edit(cs, c) == IF c = "bs" THEN IF cs \in {<<>>, <<"lost">>} THEN <<"lost">> ELSE Front(cs)
               ELSE IF cs = <<"lost">> THEN cs ELSE Append(cs, c)

Blank(s, c) == c = " "
\* The monitor's words end at a blank, those of hdbug and atabug at anything without a glyph.
Separator(s, c) == c = " " \/ (s # "monitor" /\ c = "esc")
\* Up to the first nul.
CString(cs) == SubSeq(cs, 1, Min({i \in 1 .. Len(cs) : cs[i] = "nul"} \cup {Len(cs) + 1}) - 1)

\* Fault: blanks between arguments are not skipped.
Split_OneBlank(s, p, c) ==
    CASE p.at = "lead" /\ Blank(s, c) -> p
      [] Separator(s, c) -> [p EXCEPT !.words = Append(@, <<>>), !.at = "blank"]
      [] OTHER -> [p EXCEPT !.words[Len(p.words)] = Append(@, c), !.at = "word"]
\* A character of the split: an argument begins behind every word that something follows.
Split(s, p, c) ==
    CASE p.at = "lead" /\ Blank(s, c) -> p
      [] p.at = "blank" /\ Blank(s, c) -> p
      [] Separator(s, c) -> [p EXCEPT !.words = Append(@, <<>>), !.at = "blank"]
      [] OTHER -> [p EXCEPT !.words[Len(p.words)] = Append(@, c), !.at = "word"]
\* command_str and argv.
WordsIn(s, cs) ==
    LET after[n \in 0 .. Len(cs)] ==
            IF n = 0 THEN [words |-> <<<<>>>>, at |-> "lead"] ELSE Split(s, after[n - 1], cs[n])
    IN after[Len(cs)].words
Parsed(s, cs) == WordsIn(s, CString(cs))

\* What the words stand for: a shell is entered and left, a command with one parameter
\* (globals, cmds/global.c), one that runs until ^C, or one that is unknown.
Executes(s, words) ==
    CASE s = "monitor" /\ words[1] = <<"1">> -> [shell |-> s, pc |-> "busy"]
      [] s = "monitor" /\ words[1] = <<"x">> /\ Len(words) = 1 -> [shell |-> "hdbug", pc |-> "getc"]
      [] s # "monitor" /\ words[1] = <<"x">> -> [shell |-> "monitor", pc |-> "getc"]
      [] OTHER -> [shell |-> s, pc |-> "getc"]

Init ==
    /\ console \in {"crt", "uart"}
    /\ port = <<>> /\ strokes = 0 /\ held = {} /\ shift_state = 0
    /\ kbd_buf = [i \in 0 .. KBDBUF_SIZE - 1 |-> "old"] /\ kbd_head = 0 /\ kbd_tail = 0
    /\ meant = <<>> /\ overrun = FALSE
    /\ pc = "getc" /\ ch = "nl"
    /\ shell = "monitor" /\ str = <<>> /\ parsed = [line |-> <<>>, shell |-> shell, words |-> <<<<>>>>]
    /\ LET t == Prompt([cells |-> [y \in 0 .. CHARSY - 1 |-> [x \in 0 .. CHARSX - 1 |-> " "]],
                        x |-> 0, y |-> 0, prompt |-> 0, torn |-> FALSE])
       IN screen = t.cells /\ cx = t.x /\ cy = t.y /\ prompt = t.prompt /\ torn = t.torn

EndsLine(cs) ==
    LET words == Parsed(shell, cs)
        e == Executes(shell, words)
    IN /\ parsed' = [line |-> cs, shell |-> shell, words |-> words]
       /\ shell' = e.shell /\ pc' = e.pc
\* mon_command: a character is put into the line and on the screen, the last one ends it.
LineChar ==
    /\ pc = "key" /\ ch # "nl"
    /\ str' = Edit(str, ch) /\ TextBecomes(screen_putc(Text, ch))
    /\ pc' = IF str' = <<"lost">> THEN "lost" ELSE "getc"
    /\ UNCHANGED <<console, keyboard, kbd_tail, ch, shell, parsed>>
LineEnd ==
    /\ pc = "key" /\ ch = "nl"
    /\ EndsLine(str) /\ str' = <<>>
    /\ TextBecomes(Prompt(screen_putc(Text, "nl")))
    /\ UNCHANGED <<console, keyboard, kbd_tail, ch>>

\* At the UART a whole line; a command ends when it likes.  For TLC, two lines, the second to the
\* shell the first has entered.
UartLine ==
    /\ console = "uart" /\ pc \in {"getc", "busy"}
    /\ strokes < (IF shell = "monitor" THEN 1 ELSE 2) /\ strokes' = strokes + 1
    /\ \E keys \in UartLines :
           LET edited[n \in 0 .. Len(keys)] == IF n = 0 THEN <<>> ELSE Edit(edited[n - 1], keys[n])
           IN edited[Len(keys)] # <<"lost">> /\ EndsLine(edited[Len(keys)])
    /\ UNCHANGED <<console, port, held, shift_state, kbd_buf, kbd_head, meant, overrun, kbd_tail, ch, str, text>>

\* A command that looks for ^C: a character is taken, and one more waited for; the keyboard has no ^C.
CtrlC == \/ GetcTake("busy", "tested") \/ Advances("tested", "second")
         \/ GetcTake("second", "answer") \/ Advances("answer", "busy")
BusyEnds == /\ console = "crt" /\ pc = "busy" /\ pc' = "getc"
            /\ UNCHANGED <<console, keyboard, kbd_tail, ch, line, text>>

Getc == GetcTake("getc", "advance") \/ Advances("advance", "key")
Next == \/ Stroke \/ keyboard_interrupt \/ Getc \/ LineChar \/ LineEnd \/ CtrlC \/ BusyEnds
        \/ UartLine
Spec == Init /\ [][Next]_vars

-----------------------------------------------------------------------------

\* The program gets the characters meant, in the order of the strokes, with one of the shift keys
\* used at a time, until a code meets a full ring (keyboard.c:34-65, common.c:41-61).
KeysInOrder ==
    ~overrun => /\ pc \in {"advance", "tested", "answer"} => ch = Head(meant)
                /\ (kbd_head - kbd_tail) % KBDBUF_SIZE = Len(meant)
\* Unless a backspace met the start of a row, the screen shows the line that will be executed
\* (common.c:170-182, screen.c:43-69).
EchoIsLine == console = "crt" /\ ~torn /\ pc \in {"getc", "advance", "key"} => Shown = str
\* The words of a line are the longest stretches of it without a separator, in their order, up to
\* a character the keyboard has no code for (common.c:184-201, hdbug.c:97-118, atabug.c:138-158); in
\* the monitor an empty one follows exactly when the line is empty or ends with a blank.
WordsOf(s, cs) ==
    LET runs == {w \in (1 .. Len(cs)) \X (1 .. Len(cs)) :
                    /\ w[1] <= w[2] /\ \A i \in w[1] .. w[2] : ~Separator(s, cs[i])
                    /\ w[1] = 1 \/ Separator(s, cs[w[1] - 1])
                    /\ w[2] = Len(cs) \/ Separator(s, cs[w[2] + 1])}
        ordered == SetToSortSeq(runs, LAMBDA u, w : u[1] < w[1])
    IN [i \in 1 .. Len(ordered) |-> SubSeq(cs, ordered[i][1], ordered[i][2])]
SplitRight ==
    LET cs == CString(parsed.line)
        words == WordsOf(parsed.shell, cs)
    IN IF parsed.shell = "monitor"
       THEN parsed.words = words \o (IF cs = <<>> \/ cs[Len(cs)] = " " THEN <<<<>>>> ELSE <<>>)
       ELSE SelectSeq(parsed.words, LAMBDA w : w # <<>>) = words
=============================================================================
