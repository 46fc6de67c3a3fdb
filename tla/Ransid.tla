------------------------------- MODULE Ransid -------------------------------
(***************************************************************************)
(* The escape sequence parser of src/drivers/vga/ransid.rs.  A byte is the *)
(* character it stands for, as a string; control characters and DEL, 127,  *)
(* are their ASCII names.                                                  *)
(* A style byte is its fields: the foreground (bits 0-2), bright (bit 3)   *)
(* and the background (bits 4-6).  Bit 7 is never set: a colour is at most *)
(* 7.                                                                      *)
(***************************************************************************)
EXTENDS Integers, Sequences

Digit == [c \in {"0", "1", "2", "3", "4", "5", "6", "7"} |->
            CASE c = "0" -> 0 [] c = "1" -> 1 [] c = "2" -> 2 [] c = "3" -> 3
              [] c = "4" -> 4 [] c = "5" -> 5 [] c = "6" -> 6 [] c = "7" -> 7]

Styles == [fg : 0..7, bright : BOOLEAN, bg : 0..7]

ParserStates == {"Esc", "Bracket", "Parse", "BgColor", "FgColor", "Equals", "EndVal"}

(* RansidState *)
Parsers == [state : ParserStates, style : Styles, next_style : Styles]

White == [fg |-> 7, bright |-> TRUE, bg |-> 0]

(* convert_color: from the order of ANSI colours to that of VGA.           *)
ConvertColor(c) == <<0, 4, 2, 6, 1, 5, 3, 7>>[Digit[c] + 1]

(* next_style = Color::White as u8                                         *)
Reset(style) == White

(* next_style &= 0xF8; next_style |= convert_color(..)                     *)
WithFg(style, c) == [style EXCEPT !.fg = ConvertColor(c)]

(* Mutant of WithBg: the new background is added to the old one.           *)
WithBgAdded(style, c) == [style EXCEPT !.bg = @ + ConvertColor(c)]

(* next_style &= 0x1F; next_style |= convert_color(..) << 4.  The mask     *)
(* keeps bit 4, the lowest of the background: it is or-ed with the new one.*)
WithBg(style, c) ==
  [style EXCEPT !.bg = IF style.bg % 2 = 1 /\ ConvertColor(c) % 2 = 0
                       THEN ConvertColor(c) + 1 ELSE ConvertColor(c)]

-----------------------------------------------------------------------------
(* What ransid_process does with a byte: the parser it leaves, and the     *)
(* character it returns, "NUL" for None.                                   *)

Goto(p, state, next_style) ==
  [to |-> [p EXCEPT !.state = state, !.next_style = next_style], ascii |-> "NUL"]

Echo(p, x) == [to |-> [p EXCEPT !.state = "Esc"], ascii |-> x]

(* Mutant of Abort: next_style keeps what the broken sequence put there.   *)
AbortKeepingNext(p, x) == [to |-> [p EXCEPT !.state = "Esc"], ascii |-> x]

(* Mutant of Abort: the parser stays where it is.                          *)
AbortInPlace(p, x) == [to |-> [p EXCEPT !.next_style = p.style], ascii |-> x]

(* The sequence is broken off and next_style forgotten.                    *)
Abort(p, x) == [to |-> [p EXCEPT !.state = "Esc", !.next_style = p.style], ascii |-> x]

ProcessEsc(p, x) ==
  IF x = "ESC" THEN Goto(p, "Bracket", p.next_style) ELSE Echo(p, x)

ProcessBracket(p, x) ==
  IF x = "[" THEN Goto(p, "Parse", p.next_style) ELSE Echo(p, x)

ProcessParse(p, x) ==
  CASE x = "3" -> Goto(p, "FgColor", p.next_style)
    [] x = "4" -> Goto(p, "BgColor", p.next_style)
    [] x = "0" -> Goto(p, "EndVal", Reset(p.next_style))
    [] x = "1" -> Goto(p, "EndVal", [p.next_style EXCEPT !.bright = TRUE])
    [] x = "=" -> Goto(p, "Equals", p.next_style)
    [] OTHER   -> Abort(p, x)

ProcessBgColor(p, x) ==
  IF x \in DOMAIN Digit THEN Goto(p, "EndVal", WithBg(p.next_style, x)) ELSE Abort(p, x)

ProcessFgColor(p, x) ==
  IF x \in DOMAIN Digit THEN Goto(p, "EndVal", WithFg(p.next_style, x)) ELSE Abort(p, x)

ProcessEquals(p, x) ==
  IF x = "1" THEN Goto(p, "EndVal", [p.next_style EXCEPT !.bright = FALSE]) ELSE Abort(p, x)

(* A byte that does not belong here is not returned, unlike elsewhere.     *)
ProcessEndVal(p, x) ==
  CASE x = ";" -> Goto(p, "Parse", p.next_style)
    [] x = "m" -> [to |-> [p EXCEPT !.state = "Esc", !.style = p.next_style], ascii |-> "NUL"]
    [] OTHER   -> Abort(p, "NUL")

(* ransid_process *)
Process(p, x) ==
  CASE p.state = "Esc"     -> ProcessEsc(p, x)
    [] p.state = "Bracket" -> ProcessBracket(p, x)
    [] p.state = "Parse"   -> ProcessParse(p, x)
    [] p.state = "BgColor" -> ProcessBgColor(p, x)
    [] p.state = "FgColor" -> ProcessFgColor(p, x)
    [] p.state = "Equals"  -> ProcessEquals(p, x)
    [] p.state = "EndVal"  -> ProcessEndVal(p, x)

(* The parser that ransid_process leaves.                                  *)
After(p, x) == Process(p, x).to

(* RansidState::new: a parser with style 0 has processed "\x1B[0m".        *)
New ==
  LET zero == [fg |-> 0, bright |-> FALSE, bg |-> 0]
      p    == [state |-> "Esc", style |-> zero, next_style |-> zero]
  IN  After(After(After(After(p, "ESC"), "["), "0"), "m")
=============================================================================
