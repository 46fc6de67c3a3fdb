------------------------------ MODULE Terminal ------------------------------
(***************************************************************************)
(* The Writer of src/drivers/vga/text_mode.rs: a screen of Height rows of  *)
(* Width cells in one buffer, and the parser of escape sequences in front  *)
(* of it.  A call of write_str has the SCREEN lock; its bytes are one      *)
(* action each, and so are the four spaces that a tab writes by a nested   *)
(* call.                                                                   *)
(***************************************************************************)
EXTENDS Ransid

CONSTANTS
  Width, Height,
  Bytes,       \* the bytes that are written
  MaxScroll,   \* bound on the rows scrolled off the screen
  Byte         \* 256: the cursor's position is sent in two bytes

ASSUME TerminalAssumption ==
  /\ Width \in Nat \ {0} /\ Height \in Nat \ {0} /\ MaxScroll \in Nat
  /\ Byte \in Nat \ {0} /\ Width * Height <= Byte * Byte

VARIABLES
  ransid,    \* Writer.state
  buf,       \* Writer.buf
  x, y,      \* Writer.x, Writer.y
  cursor,    \* the cursor position registers of the VGA controller
  writing,   \* a write_str is under way
  spaces,    \* the spaces of a tab still to be written
  above      \* history: the rows scrolled off the screen

screen == <<buf, x, y, above>>
vars == <<ransid, screen, cursor, writing, spaces>>

(* What the controller and its buffer held before.                         *)
Boot == [style |-> White, ch |-> "boot"]
NoCursor == [low |-> Byte, high |-> Byte]

(* 0xf00 *)
Blank == [style |-> White, ch |-> "NUL"]

Positions == 0..(Width * Height - 1)

(* Writer::default *)
Init ==
  /\ ransid = New
  /\ buf = [i \in Positions |-> Boot]
  /\ x = 0 /\ y = 0
  /\ cursor = NoCursor
  /\ writing = FALSE /\ spaces = 0
  /\ above = <<>>

-----------------------------------------------------------------------------
BufRow(b, r) == [c \in 0..(Width - 1) |-> b[r * Width + c]]

(* Mutant of Scrolled: the bottom row is not cleared.                      *)
ScrolledNotCleared(b) ==
  [i \in Positions |-> IF i < Width * (Height - 1) THEN b[i + Width] ELSE b[i]]

(* Every row moves up by one and the bottom row is cleared.                *)
Scrolled(b) ==
  [i \in Positions |-> IF i < Width * (Height - 1) THEN b[i + Width] ELSE Blank]

(* Mutant of Newline: no room is kept for the last row.                    *)
NewlineLate(b) ==
  /\ x' = 0
  /\ \/ y = Height /\ buf' = Scrolled(b) /\ above' = Append(above, BufRow(b, 0)) /\ UNCHANGED y
     \/ y < Height /\ y' = y + 1 /\ buf' = b /\ UNCHANGED above

(* newline, b being the buffer it finds.                                   *)
Newline(b) ==
  /\ x' = 0
  /\ \/ /\ y = Height - 1
        /\ buf' = Scrolled(b)
        /\ above' = Append(above, BufRow(b, 0))
        /\ UNCHANGED y
     \/ /\ y # Height - 1
        /\ y' = y + 1
        /\ buf' = b
        /\ UNCHANGED above

(* draw_char *)
DrawChar(style, ch) ==
  LET b == [buf EXCEPT ![y * Width + x] = [style |-> style, ch |-> ch]]
  IN  \/ x = Width - 1 /\ Newline(b)
      \/ /\ x # Width - 1
         /\ x' = x + 1
         /\ buf' = b
         /\ UNCHANGED <<y, above>>

(* Bytes outside ASCII_MIN..=ASCII_MAX are drawn as a square, 254.         *)
Glyph(ch) == IF ch \in {"ESC", "DEL"} THEN "square" ELSE ch

(* write_byte.  rest is how many spaces of a tab are left after it.        *)
WriteByte(ch, rest) ==
  LET r == Process(ransid, ch)
  IN  /\ ransid' = r.to
      /\ \/ r.ascii = "NUL" /\ spaces' = rest /\ UNCHANGED screen
         \/ r.ascii = "LF" /\ spaces' = rest /\ Newline(buf)
         \/ r.ascii = "TAB" /\ spaces' = 4 /\ UNCHANGED screen
         \/ r.ascii = "CR" /\ spaces' = rest /\ x' = 0 /\ UNCHANGED <<buf, y, above>>
         \/ /\ r.ascii \notin {"NUL", "LF", "TAB", "CR"}
            /\ spaces' = rest
            /\ DrawChar(ransid.style, Glyph(r.ascii))

(* Mutant of UpdateCursor: the high byte is not written.                   *)
UpdateCursorLow ==
  LET pos == y' * Width + x'
  IN  cursor' = [low |-> pos % Byte, high |-> IF cursor = NoCursor THEN 0 ELSE cursor.high]

(* update_cursor *)
UpdateCursor ==
  LET pos == y' * Width + x'
  IN  cursor' = [low |-> pos % Byte, high |-> (pos \div Byte) % Byte]

WriteStr ==
  /\ ~writing
  /\ writing' = TRUE
  /\ UNCHANGED <<ransid, screen, cursor, spaces>>

NextByte(ch) ==
  /\ writing /\ spaces = 0
  /\ Len(above) < MaxScroll
  /\ WriteByte(ch, 0)
  /\ UNCHANGED <<cursor, writing>>

TabSpace ==
  /\ spaces > 0
  /\ WriteByte(" ", spaces - 1)
  /\ IF spaces = 1 THEN UpdateCursor ELSE UNCHANGED cursor
  /\ UNCHANGED writing

WriteStrReturn ==
  /\ writing /\ spaces = 0
  /\ writing' = FALSE
  /\ UNCHANGED <<ransid, screen, spaces>>
  /\ UpdateCursor

Next ==
  \/ WriteStr
  \/ \E ch \in Bytes : NextByte(ch)
  \/ TabSpace
  \/ WriteStrReturn

Spec == Init /\ [][Next]_vars

-----------------------------------------------------------------------------
Cells == [style : Styles, ch : {Glyph(ch) : ch \in Bytes} \cup {" "}]

AnyCell == Cells \cup {Boot, Blank}

(* The position stays on the screen, so that no index is out of bounds.    *)
TypeOK ==
  /\ ransid \in Parsers
  /\ x \in 0..(Width - 1) /\ y \in 0..(Height - 1)
  /\ buf \in [Positions -> AnyCell]
  /\ above \in Seq([0..(Width - 1) -> AnyCell])
  /\ writing \in BOOLEAN /\ spaces \in 0..4

(* A tab comes out of the parser only when no escape sequence is under     *)
(* way: its spaces, which go through the parser too, are all drawn.        *)
TabOutsideSequence == spaces > 0 => ransid.state = "Esc"

(* When write_str has returned, the cursor that the controller shows is at *)
(* the place of the next character.                                        *)
CursorShown ==
  ~writing /\ cursor # NoCursor => cursor.high * Byte + cursor.low = y * Width + x

P == INSTANCE Paper WITH
       paper <- above \o [i \in 1..Height |-> BufRow(buf, i - 1)],
       line <- Len(above) + y + 1,
       column <- x

(* The screen is the end of a strip of paper: through wrapped lines, tabs, *)
(* returns and scrolling no character is lost, moved or left over.         *)
RefinesPaper == P!Spec
=============================================================================
