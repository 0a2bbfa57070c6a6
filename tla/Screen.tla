------------------------------- MODULE Screen --------------------------------
(***************************************************************************)
(* A console (kernel/console.c): a stretch of video memory of which the    *)
(* CRT controller shows a window.  Programs print, which scrolls the       *)
(* window; the user scrolls too and selects consoles.  At the end of its   *)
(* memory the console starts again at the top, with the last lines copied  *)
(* there.                                                                  *)
(*                                                                         *)
(* Positions count words from the console's first, orig.  The words after  *)
(* con_size belong to the next console.                                    *)
(***************************************************************************)
EXTENDS Integers, SequencesExt

CONSTANTS
    SCR_WIDTH, ScrLines,    \* the screen
    ConLines,               \* lines of the console
    ScrChars,               \* printable characters
    MaxBack                 \* bound: characters a program takes back

ASSUME ScreenAssumption ==
    /\ {SCR_WIDTH, ScrLines, ConLines, MaxBack} \subseteq Nat \ {0}
    /\ ScrLines <= ConLines /\ MaxBack <= SCR_WIDTH * ScrLines
    /\ ScrChars \cap {" ", "?"} = {}

VARIABLES
    con,       \* CONSOLE: cursor, crtc_start, is_full
    vmem,      \* its words and the first ones of the next console
    crt,       \* the registers: where the cursor is, what is at the top
    shown,     \* it is the current console
    text,      \* the lines printed last, the one with the cursor last
    back,      \* how many characters can be taken back
    scrolled   \* the user has scrolled since the last character

scrVars == <<con, vmem, crt, shown, text, back, scrolled>>

SCR_SIZE == SCR_WIDTH * ScrLines
con_size == SCR_WIDTH * ConLines
Words    == 0..con_size + SCR_WIDTH - 1
LineOf(pos) == (pos \div SCR_WIDTH) * SCR_WIDTH

\* init_screen; what is in video memory before is left there.
ScrInit ==
    /\ con = [cursor |-> 0, crtc_start |-> 0, is_full |-> FALSE]
    /\ vmem = [w \in Words |-> "?"]
    /\ crt = <<0, 0>>
    /\ shown = TRUE
    /\ text = << <<>> >>
    /\ back = 0
    /\ scrolled = FALSE

clear_screen(m, pos) == [w \in Words |-> IF w \in pos..pos + SCR_WIDTH - 1 THEN " " ELSE m[w]]

\* The registers after flush of the console c.
flush(c) == IF shown THEN <<c.cursor, c.crtc_start>> ELSE crt

-----------------------------------------------------------------------------
(* Scrolling                                                               *)

newest(c) == LineOf(c.cursor)
oldest(c) == IF c.is_full THEN (newest(c) + SCR_WIDTH) % con_size ELSE 0

\* scroll_screen downwards: older lines come into sight.
ScrollDown(c) ==
    LET top == c.crtc_start
        up  == [c EXCEPT !.crtc_start = @ - SCR_WIDTH]
    IN  CASE ~c.is_full /\ top > 0 -> up
          [] c.is_full /\ top # oldest(c) ->
                IF c.cursor >= con_size - SCR_SIZE THEN IF top # 0 THEN up ELSE c
                ELSE IF top = 0 THEN [c EXCEPT !.crtc_start = con_size - SCR_SIZE]
                ELSE up
          [] OTHER -> c

\* scroll_screen upwards: newer lines come into sight.
ScrollUp(c) ==
    LET top == c.crtc_start
        dn  == [c EXCEPT !.crtc_start = @ + SCR_WIDTH]
    IN  CASE ~c.is_full /\ newest(c) >= top + SCR_SIZE -> dn
          [] c.is_full /\ top + SCR_SIZE - SCR_WIDTH # newest(c) ->
                IF top + SCR_SIZE = con_size THEN [c EXCEPT !.crtc_start = 0] ELSE dn
          [] OTHER -> c

Visible(c) == c.cursor \in c.crtc_start .. c.crtc_start + SCR_SIZE - 1

\* The window of c after k rounds of the loop in out_char, and the first round
\* after which the cursor is visible.
Windows(c) == LET w[k \in 0..ConLines] == IF k = 0 THEN c ELSE ScrollUp(w[k - 1]) IN w
Rounds(c)  == {k \in 0..ConLines : Visible(Windows(c)[k])}

-----------------------------------------------------------------------------
(* Printing                                                                *)

\* Mutant: the console starts again one character late.
AtEnd_Late(cursor) == cursor > con_size

AtEnd(cursor) == cursor >= con_size

\* Mutant: one line too few is kept when the console starts again.
Kept_OneLess == SCR_SIZE - 2 * SCR_WIDTH

\* The words that are kept when the console starts again: all of a screen but
\* the line of the cursor.
Kept == SCR_SIZE - SCR_WIDTH

\* The console that starts again at the top of its memory with the last lines.
Restarted(c) == [cursor |-> SCR_SIZE - SCR_WIDTH + (c.cursor % SCR_WIDTH),
                 crtc_start |-> 0, is_full |-> TRUE]
Copied(c, m) ==
    LET from == newest(c) + SCR_WIDTH - SCR_SIZE
    IN  clear_screen([w \in Words |-> IF w < Kept THEN m[from + w] ELSE m[w]],
                     Restarted(c).cursor)

\* out_char after the character has been put into memory m and the cursor of c
\* has moved: start again at the end, scroll until the cursor is visible.  (The
\* loop never ends if a cursor that went back is above the window of a console
\* that is not full; a program that takes back no more than it has typed on a
\* line does not get there.)
Settle(c, m) ==
    LET c1 == IF AtEnd(c.cursor) THEN Restarted(c) ELSE c
        m1 == IF AtEnd(c.cursor) THEN Copied(c, m) ELSE m
        k  == Min(Rounds(c1))
    IN
    /\ Rounds(c1) # {}
    /\ con' = Windows(c1)[k]
    /\ vmem' = IF k = 0 THEN m1 ELSE clear_screen(m1, c1.cursor)
    /\ crt' = flush(con')
    /\ scrolled' = FALSE
    /\ UNCHANGED shown

LastLines(t) == IF Len(t) > ScrLines + 1 THEN Tail(t) ELSE t

\* out_char of a printable character ...
OutPrintable(ch) ==
    LET line == Append(Last(text), ch)
        rest == Append(Front(text), line)
    IN
    /\ Settle([con EXCEPT !.cursor = @ + 1], [vmem EXCEPT ![con.cursor] = ch])
    /\ text' = LastLines(IF Len(line) = SCR_WIDTH THEN Append(rest, <<>>) ELSE rest)
    /\ back' = IF back < MaxBack THEN back + 1 ELSE back

\* ... of '\n' ...
OutNewline ==
    /\ Settle([con EXCEPT !.cursor = LineOf(con.cursor) + SCR_WIDTH], vmem)
    /\ text' = LastLines(Append(text, <<>>))
    /\ back' = 0

\* ... and of '\b'.
OutBackspace ==
    /\ back > 0 /\ con.cursor > 0
    /\ Settle([con EXCEPT !.cursor = @ - 1], [vmem EXCEPT ![con.cursor - 1] = " "])
    /\ LET t == IF Last(text) = <<>> THEN Front(text) ELSE text
       IN  text' = Append(Front(t), Front(Last(t)))
    /\ back' = back - 1

-----------------------------------------------------------------------------
(* The user                                                                *)

\* Shift with an arrow key.
scroll_screen(c) ==
    /\ c # con
    /\ con' = c
    /\ crt' = flush(c)
    /\ scrolled' = TRUE
    /\ UNCHANGED <<vmem, shown, text, back>>

\* A console is selected, this one or another.
select_console(this) ==
    /\ shown' = this
    /\ crt' = IF this THEN <<con.cursor, con.crtc_start>> ELSE <<-1, -1>>
    /\ UNCHANGED <<con, vmem, text, back, scrolled>>

ScrNext ==
    \/ \E ch \in ScrChars : OutPrintable(ch)
    \/ OutNewline
    \/ OutBackspace
    \/ scroll_screen(ScrollDown(con)) \/ scroll_screen(ScrollUp(con))
    \/ \E this \in BOOLEAN : select_console(this)

ScrSpec == ScrInit /\ [][ScrNext]_scrVars

-----------------------------------------------------------------------------
\* out_char's assertion holds, the window lies in the console on whole lines,
\* and the registers are those of the current console.
WindowInConsole ==
    /\ con.cursor \in 0..con_size - 1
    /\ con.crtc_start \in 0..con_size - SCR_SIZE
    /\ con.crtc_start % SCR_WIDTH = 0
    /\ shown => crt = <<con.cursor, con.crtc_start>>

\* Line i of the console, counted back from the line of the cursor.
LineBack(i) == newest(con) - i * SCR_WIDTH

\* After a character has been printed the user sees it, and above it what was
\* printed before: scrolling, starting again and what the user did with the
\* window lose nothing of the lines in sight.
TextShown ==
    ~scrolled =>
        /\ Visible(con)
        /\ \A i \in 0..Len(text) - 1 :
              LineBack(i) >= con.crtc_start =>
                  \A x \in 1..Len(text[Len(text) - i]) :
                      vmem[LineBack(i) + x - 1] = text[Len(text) - i][x]

\* Printing never writes into the next console, but for one way: the window was
\* scrolled back while the cursor is in the last line (clear_screen then clears
\* a whole line's length from the cursor on).
OthersUntouched ==
    [][\A w \in con_size..con_size + SCR_WIDTH - 1 : vmem'[w] # vmem[w] => scrolled]_scrVars

ScreenSound == WindowInConsole /\ TextShown
=============================================================================
