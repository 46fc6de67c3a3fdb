--------------------------- MODULE TerminalProofs ---------------------------
(***************************************************************************)
(* Proofs about module Terminal, for every size of the screen and every    *)
(* set of bytes: the position stays on the screen, the spaces of a tab are *)
(* drawn, the cursor is shown where the next character goes, and the       *)
(* screen with what has scrolled off it is a strip of paper.               *)
(***************************************************************************)
EXTENDS Terminal, SequenceTheorems, TLAPS

-----------------------------------------------------------------------------
(* The parser.                                                             *)

(* Colours stay below 8.                                                   *)
LEMMA ColourTyped ==
  ASSUME NEW style \in Styles, NEW c \in DOMAIN Digit
  PROVE  WithFg(style, c) \in Styles /\ WithBg(style, c) \in Styles
<1>1. Digit[c] \in 0..7
  BY DEF Digit
<1>2. ConvertColor(c) \in 0..7
  BY <1>1 DEF ConvertColor
<1>3. ConvertColor(c) % 2 = 0 => ConvertColor(c) + 1 \in 0..7
  BY <1>2
<1> QED
  BY <1>2, <1>3 DEF WithFg, WithBg, Styles

(* What ransid_process may do with a byte.                                 *)
IsOutcome(p, ch, r) ==
  \/ \E st \in ParserStates, n \in Styles : r = Goto(p, st, n)
  \/ r \in {Echo(p, ch), Abort(p, ch), Abort(p, "NUL"),
            [to |-> [p EXCEPT !.state = "Esc", !.style = p.next_style], ascii |-> "NUL"]}

(* ransid_process does one of them.                                        *)
LEMMA ProcessOutcome ==
  ASSUME NEW p \in Parsers, NEW ch
  PROVE  IsOutcome(p, ch, Process(p, ch))
<1>1. p.state \in ParserStates /\ p.next_style \in Styles
  BY DEF Parsers
<1>2. White \in Styles /\ \A b \in BOOLEAN : [p.next_style EXCEPT !.bright = b] \in Styles
  BY <1>1 DEF White, Styles
<1>3. \A st \in ParserStates, n \in Styles : IsOutcome(p, ch, Goto(p, st, n))
  BY DEF IsOutcome
<1>4. /\ IsOutcome(p, ch, Echo(p, ch)) /\ IsOutcome(p, ch, Abort(p, ch)) /\ IsOutcome(p, ch, Abort(p, "NUL"))
      /\ IsOutcome(p, ch, [to |-> [p EXCEPT !.state = "Esc", !.style = p.next_style], ascii |-> "NUL"])
  BY DEF IsOutcome
<1>5. ParserStates = {"Esc", "Bracket", "Parse", "BgColor", "FgColor", "Equals", "EndVal"}
  BY DEF ParserStates
<1>6. CASE p.state = "Esc"
  BY <1>1, <1>3, <1>4, <1>5, <1>6 DEF Process, ProcessEsc
<1>7. CASE p.state = "Bracket"
  BY <1>1, <1>3, <1>4, <1>5, <1>7 DEF Process, ProcessBracket
<1>8. CASE p.state = "Parse"
  <2>1. Process(p, ch) = ProcessParse(p, ch)
    BY <1>8 DEF Process
  <2>2. {"FgColor", "BgColor", "EndVal", "Equals"} \subseteq ParserStates
    BY <1>5
  <2>3. ProcessParse(p, ch) \in {Goto(p, "FgColor", p.next_style), Goto(p, "BgColor", p.next_style),
                                 Goto(p, "EndVal", White), Goto(p, "EndVal", [p.next_style EXCEPT !.bright = TRUE]),
                                 Goto(p, "Equals", p.next_style), Abort(p, ch)}
    BY DEF ProcessParse, Reset
  <2> QED
    BY <1>1, <1>2, <1>3, <1>4, <2>1, <2>2, <2>3, Zenon
<1>9. CASE p.state = "BgColor"
  BY <1>1, <1>3, <1>4, <1>5, <1>9, ColourTyped DEF Process, ProcessBgColor
<1>10. CASE p.state = "FgColor"
  BY <1>1, <1>3, <1>4, <1>5, <1>10, ColourTyped DEF Process, ProcessFgColor
<1>11. CASE p.state = "Equals"
  BY <1>1, <1>2, <1>3, <1>4, <1>5, <1>11, Zenon DEF Process, ProcessEquals
<1>12. CASE p.state = "EndVal"
  <2>1. Process(p, ch) = ProcessEndVal(p, ch)
    BY <1>12 DEF Process
  <2>2. CASE ch = ";"
    BY <1>1, <1>3, <1>5, <2>1, <2>2, Zenon DEF ProcessEndVal
  <2>3. CASE ch = "m"
    BY <1>4, <2>1, <2>3 DEF ProcessEndVal
  <2>4. CASE ch \notin {";", "m"}
    BY <1>4, <2>1, <2>4, Zenon DEF ProcessEndVal
  <2> QED
    BY <2>2, <2>3, <2>4, Zenon
<1> QED
  BY <1>1, <1>5, <1>6, <1>7, <1>8, <1>9, <1>10, <1>11, <1>12

(* ransid_process leaves a parser, returns the byte or nothing, and returns *)
(* the byte only when it leaves no sequence under way.                     *)
LEMMA ProcessFacts ==
  ASSUME NEW p \in Parsers, NEW ch
  PROVE  /\ Process(p, ch).to \in Parsers
         /\ Process(p, ch).ascii \in {ch, "NUL"}
         /\ Process(p, ch).ascii # "NUL" => Process(p, ch).to.state = "Esc"
         /\ p.state = "Esc" /\ ch # "ESC" => Process(p, ch) = Echo(p, ch)
<1> DEFINE r == Process(p, ch)
           done == [to |-> [p EXCEPT !.state = "Esc", !.style = p.next_style], ascii |-> "NUL"]
<1>1. p.state \in ParserStates /\ p.style \in Styles /\ p.next_style \in Styles
  BY DEF Parsers
<1>2. \/ \E st \in ParserStates, n \in Styles : r = Goto(p, st, n)
      \/ r \in {Echo(p, ch), Abort(p, ch), Abort(p, "NUL"), done}
  BY ProcessOutcome, Zenon DEF IsOutcome
<1>3. \A st \in ParserStates, n \in Styles : Goto(p, st, n).to \in Parsers /\ Goto(p, st, n).ascii = "NUL"
  BY <1>1, Zenon DEF Goto, Parsers
<1>4. \A z : /\ Echo(p, z).to \in Parsers /\ Echo(p, z).ascii = z /\ Echo(p, z).to.state = "Esc"
             /\ Abort(p, z).to \in Parsers /\ Abort(p, z).ascii = z /\ Abort(p, z).to.state = "Esc"
  BY <1>1, Zenon DEF Echo, Abort, Parsers, ParserStates
<1>5. done.to \in Parsers /\ done.ascii = "NUL"
  BY <1>1, Zenon DEF Parsers, ParserStates
<1> HIDE DEF r, done
<1>6. r.to \in Parsers /\ r.ascii \in {ch, "NUL"} /\ (r.ascii # "NUL" => r.to.state = "Esc")
  BY <1>2, <1>3, <1>4, <1>5
<1>7. p.state = "Esc" /\ ch # "ESC" => r = Echo(p, ch)
  BY DEF r, Process, ProcessEsc
<1> QED
  BY <1>6, <1>7 DEF r

(* RansidState::new is a parser.                                           *)
LEMMA NewTyped == New \in Parsers
<1> DEFINE zero == [fg |-> 0, bright |-> FALSE, bg |-> 0]
           p == [state |-> "Esc", style |-> zero, next_style |-> zero]
<1>1. p \in Parsers
  BY DEF Parsers, ParserStates, Styles
<1> HIDE DEF p
<1>2. \A q \in Parsers : \A ch : After(q, ch) \in Parsers
  BY ProcessFacts DEF After
<1>3. After(After(After(After(p, "ESC"), "["), "0"), "m") \in Parsers
  BY <1>1, <1>2
<1> QED
  BY <1>3 DEF New, p

-----------------------------------------------------------------------------
(* Places on the screen.                                                   *)

(* Multiplication is monotone.                                             *)
LEMMA TimesMonotone ==
  ASSUME NEW m \in Nat, NEW i \in Nat, NEW j \in Nat, i <= j
  PROVE  i * m <= j * m
<1>1. j - i \in Nat /\ j = i + (j - i)
  OBVIOUS
<1>2. PICK d \in Nat : j = i + d
  BY <1>1
<1>3. j * m = i * m + d * m /\ d * m \in Nat /\ i * m \in Nat
  BY <1>2
<1> QED
  BY <1>3

(* Every row and column is a place in the buffer, and those of the last    *)
(* row are the ones that scrolling clears.                                 *)
LEMMA Place ==
  ASSUME NEW r \in 0..(Height - 1), NEW c \in 0..(Width - 1)
  PROVE  /\ r * Width + c \in Positions
         /\ r * Width + c < Width * (Height - 1) <=> r < Height - 1
         /\ r * Width + c + Width = (r + 1) * Width + c
<1>1. Width \in Nat \ {0} /\ Height \in Nat \ {0} /\ r \in Nat /\ c \in Nat /\ c < Width
  BY TerminalAssumption
<1> DEFINE h == Height - 1
<1>2. h \in Nat /\ r <= h /\ Height = h + 1
  BY <1>1
<1> HIDE DEF h
<1>3. r * Width \in Nat /\ h * Width \in Nat /\ r * Width <= h * Width
  BY <1>1, <1>2, TimesMonotone
<1>4. Width * Height = h * Width + Width /\ Width * h = h * Width
  BY <1>1, <1>2
<1>5. (r + 1) * Width = r * Width + Width
  BY <1>1
<1>6. r < h => (r + 1) * Width <= h * Width
  BY <1>1, <1>2, TimesMonotone
<1>7. ~(r < h) => r = h
  BY <1>1, <1>2
<1>8. r * Width + c \in Positions
  <2>1. Positions = 0..(Width * Height - 1)
    BY DEF Positions
  <2>2. r * Width + c <= h * Width + Width - 1 /\ 0 <= r * Width + c /\ r * Width + c \in Int
    BY <1>1, <1>3
  <2> QED
    BY <1>3, <1>1, <1>4, <2>1, <2>2
<1>9. r * Width + c < Width * h <=> r < h
  BY <1>1, <1>3, <1>4, <1>5, <1>6, <1>7
<1> QED
  BY <1>1, <1>5, <1>3, <1>8, <1>9 DEF h

(* Two rows or columns are two places.                                     *)
LEMMA SamePlace ==
  ASSUME NEW r \in 0..(Height - 1), NEW c \in 0..(Width - 1),
         NEW s \in 0..(Height - 1), NEW d \in 0..(Width - 1),
         r * Width + c = s * Width + d
  PROVE  r = s /\ c = d
<1>1. Width \in Nat \ {0} /\ r \in Nat /\ s \in Nat /\ c \in Nat /\ d \in Nat /\ c < Width /\ d < Width
  BY TerminalAssumption
<1>2. r * Width \in Nat /\ s * Width \in Nat
  BY <1>1
<1>3. (r + 1) * Width = r * Width + Width /\ (s + 1) * Width = s * Width + Width
  BY <1>1
<1>4. r < s => (r + 1) * Width <= s * Width
  BY <1>1, TimesMonotone
<1>5. s < r => (s + 1) * Width <= r * Width
  BY <1>1, TimesMonotone
<1>6. ~(r < s)
  BY <1>1, <1>2, <1>3, <1>4
<1>7. ~(s < r)
  BY <1>1, <1>2, <1>3, <1>5
<1>8. r = s
  BY <1>1, <1>6, <1>7
<1> QED
  BY <1>1, <1>2, <1>8

-----------------------------------------------------------------------------
(* The strip of paper.                                                     *)
RowType == [0..(Width - 1) -> AnyCell]
Buffers == [Positions -> AnyCell]

Rows(b) == [i \in 1..Height |-> BufRow(b, i - 1)]
Strip(a, b) == a \o Rows(b)

(* The rows of a strip: those above the screen, then those on it.          *)
LEMMA StripFacts ==
  ASSUME NEW a \in Seq(RowType), NEW b \in Buffers
  PROVE  /\ Strip(a, b) \in Seq(RowType) /\ Len(Strip(a, b)) = Len(a) + Height
         /\ \A i \in 1..Len(a) : Strip(a, b)[i] = a[i]
         /\ \A i \in 1..Height : Strip(a, b)[Len(a) + i] = BufRow(b, i - 1)
<1>1. Height \in Nat \ {0}
  BY TerminalAssumption
<1>2. \A i \in 1..Height : BufRow(b, i - 1) \in RowType
  <2> TAKE i \in 1..Height
  <2>1. i - 1 \in 0..(Height - 1)
    BY <1>1
  <2>2. \A c \in 0..(Width - 1) : b[(i - 1) * Width + c] \in AnyCell
    BY <2>1, Place DEF Buffers
  <2> QED
    BY <2>2 DEF BufRow, RowType
<1> DEFINE t == Rows(b)
<1>3. t \in Seq(RowType) /\ Len(t) = Height /\ \A i \in 1..Height : t[i] = BufRow(b, i - 1)
  BY <1>1, <1>2 DEF Rows
<1> HIDE DEF t
<1>4. /\ a \o t \in Seq(RowType)
      /\ Len(a \o t) = Len(a) + Len(t)
      /\ \A i \in 1..(Len(a) + Len(t)) : (a \o t)[i] = IF i <= Len(a) THEN a[i] ELSE t[i - Len(a)]
  BY <1>3, ConcatProperties, Zenon
<1> DEFINE u == a \o t
<1>5. /\ u \in Seq(RowType) /\ Len(u) = Len(a) + Len(t)
      /\ \A i \in 1..(Len(a) + Len(t)) : u[i] = IF i <= Len(a) THEN a[i] ELSE t[i - Len(a)]
  BY <1>4
<1>6. u = Strip(a, b)
  BY DEF Strip, t
<1> HIDE DEF u
<1>7. Len(a) \in Nat
  OBVIOUS
<1>8. \A i \in 1..Len(a) : u[i] = a[i]
  BY <1>1, <1>3, <1>5, <1>7
<1>9. ASSUME NEW i \in 1..Height
      PROVE  u[Len(a) + i] = BufRow(b, i - 1)
  <2>1. Len(a) + i \in 1..(Len(a) + Len(t)) /\ ~(Len(a) + i <= Len(a)) /\ (Len(a) + i) - Len(a) = i
    BY <1>1, <1>3, <1>7
  <2> QED
    BY <1>3, <1>5, <2>1
<1> QED
  BY <1>3, <1>5, <1>6, <1>8, <1>9

(* Scrolling appends a blank row to the paper.                             *)
LEMMA ScrolledStrip ==
  ASSUME NEW a \in Seq(RowType), NEW b \in Buffers
  PROVE  /\ Scrolled(b) \in Buffers
         /\ BufRow(b, 0) \in RowType
         /\ Strip(Append(a, BufRow(b, 0)), Scrolled(b)) = Append(Strip(a, b), [c \in 0..(Width - 1) |-> Blank])
<1>1. Height \in Nat \ {0} /\ Width \in Nat \ {0}
  BY TerminalAssumption
<1>2. Blank \in AnyCell
  BY DEF AnyCell
<1>3. Scrolled(b) \in Buffers
  <2>1. ASSUME NEW i \in Positions, i < Width * (Height - 1)
        PROVE  i + Width \in Positions
    <3>1. Width * Height = Width * (Height - 1) + Width /\ Width * (Height - 1) \in Int
      BY <1>1
    <3> QED
      BY <1>1, <2>1, <3>1 DEF Positions
  <2> QED
    BY <1>2, <2>1 DEF Scrolled, Buffers
<1>4. \A r \in 0..(Height - 1) : BufRow(b, r) \in RowType
  BY Place DEF BufRow, RowType, Buffers
<1>5. BufRow(b, 0) \in RowType
  BY <1>1, <1>4
<1> DEFINE w == [c \in 0..(Width - 1) |-> Blank]
           a2 == Append(a, BufRow(b, 0))
           s == Strip(a2, Scrolled(b))
           t == Append(Strip(a, b), w)
           n == Len(a)
<1>6. w \in RowType
  BY <1>2 DEF RowType
<1>7. /\ a2 \in Seq(RowType) /\ Len(a2) = n + 1 /\ n \in Nat
      /\ \A i \in 1..n : a2[i] = a[i]
      /\ a2[n + 1] = BufRow(b, 0)
  BY <1>5
<1>8. ASSUME NEW k \in 1..Height
      PROVE  BufRow(Scrolled(b), k - 1) = IF k = Height THEN w ELSE BufRow(b, k)
  <2>1. k - 1 \in 0..(Height - 1) /\ k - 1 + 1 = k /\ k \in Int
    BY <1>1
  <2>2. ASSUME NEW c \in 0..(Width - 1)
        PROVE  Scrolled(b)[(k - 1) * Width + c] = IF k = Height THEN Blank ELSE b[k * Width + c]
    <3> DEFINE p == (k - 1) * Width + c
    <3>1. p \in Positions /\ (p < Width * (Height - 1) <=> k - 1 < Height - 1) /\ p + Width = k * Width + c
      BY <2>1, Place
    <3> HIDE DEF p
    <3>2. Scrolled(b)[p] = IF p < Width * (Height - 1) THEN b[p + Width] ELSE Blank
      BY <3>1 DEF Scrolled
    <3>3. k - 1 < Height - 1 <=> k # Height
      BY <1>1
    <3> QED
      BY <3>1, <3>2, <3>3 DEF p
  <2> QED
    BY <2>2, Zenon DEF BufRow
<1>9. /\ Strip(a, b) \in Seq(RowType) /\ Len(Strip(a, b)) = n + Height
      /\ \A i \in 1..n : Strip(a, b)[i] = a[i]
      /\ \A i \in 1..Height : Strip(a, b)[n + i] = BufRow(b, i - 1)
  BY StripFacts
<1> HIDE DEF w, a2
<1>10. /\ s \in Seq(RowType) /\ Len(s) = n + 1 + Height
       /\ \A i \in 1..(n + 1) : s[i] = a2[i]
       /\ \A i \in 1..Height : s[n + 1 + i] = BufRow(Scrolled(b), i - 1)
  <2> DEFINE d == Scrolled(b)
  <2> HIDE DEF d
  <2>1. d \in Buffers
    BY <1>3 DEF d
  <2>2. /\ Strip(a2, d) \in Seq(RowType) /\ Len(Strip(a2, d)) = Len(a2) + Height
        /\ \A i \in 1..Len(a2) : Strip(a2, d)[i] = a2[i]
        /\ \A i \in 1..Height : Strip(a2, d)[Len(a2) + i] = BufRow(d, i - 1)
    BY <1>7, <2>1, StripFacts, Zenon
  <2> QED
    BY <1>7, <2>2 DEF d
<1>11. /\ t \in Seq(RowType) /\ Len(t) = n + Height + 1
       /\ \A i \in 1..(n + Height) : t[i] = Strip(a, b)[i]
       /\ t[n + Height + 1] = w
  <2> DEFINE u == Strip(a, b)
  <2>1. u \in Seq(RowType) /\ Len(u) = n + Height
    BY <1>9
  <2> HIDE DEF u
  <2>2. /\ Append(u, w) \in Seq(RowType) /\ Len(Append(u, w)) = n + Height + 1
        /\ \A i \in 1..(n + Height) : Append(u, w)[i] = u[i]
        /\ Append(u, w)[n + Height + 1] = w
    BY <1>6, <2>1, AppendProperties
  <2> QED
    BY <2>2, Zenon DEF u
<1> HIDE DEF s, t, n
<1>12. ASSUME NEW i \in 1..(n + 1 + Height)
       PROVE  s[i] = t[i]
  <2>1. CASE i \in 1..n
    <3>1. i \in 1..(n + 1) /\ i \in 1..(n + Height)
      BY <1>1, <1>7, <2>1
    <3> QED
      BY <1>7, <1>9, <1>10, <1>11, <2>1, <3>1
  <2>2. CASE i = n + 1
    <3>1. i \in 1..(n + 1) /\ i \in 1..(n + Height) /\ 1 \in 1..Height
      BY <1>1, <1>7, <2>2
    <3>2. t[i] = BufRow(b, 0)
      BY <1>9, <1>11, <2>2, <3>1
    <3> QED
      BY <1>7, <1>10, <2>2, <3>1, <3>2
  <2>3. CASE i > n + 1
    <3>1. PICK k \in 1..Height : i = n + 1 + k
      <4>1. i - (n + 1) \in 1..Height /\ i = n + 1 + (i - (n + 1))
        BY <1>1, <1>7, <2>3
      <4> QED
        BY <4>1
    <3>2. s[i] = IF k = Height THEN w ELSE BufRow(b, k)
      BY <1>8, <1>10, <3>1
    <3>3. CASE k = Height
      <4>1. i = n + Height + 1
        BY <1>1, <1>7, <3>1, <3>3
      <4> QED
        BY <1>11, <3>2, <3>3, <4>1
    <3>4. CASE k # Height
      <4>1. k + 1 \in 1..Height /\ i = n + (k + 1) /\ i \in 1..(n + Height) /\ k + 1 - 1 = k
        BY <1>1, <1>7, <3>1, <3>4
      <4>2. t[i] = BufRow(b, k)
        BY <1>9, <1>11, <4>1
      <4> QED
        BY <3>2, <3>4, <4>2
    <3> QED
      BY <3>3, <3>4
  <2> QED
    BY <1>1, <1>7, <2>1, <2>2, <2>3
<1>13. Len(s) = n + 1 + Height /\ Len(t) = Len(s)
  BY <1>1, <1>7, <1>10, <1>11
<1>14. s = t
  BY <1>10, <1>11, <1>12, <1>13, SeqEqual
<1> QED
  BY <1>3, <1>5, <1>14 DEF s, t, a2, w

Put(b, p, cell) == [b EXCEPT ![p] = cell]
Typed(rows, l, c, cell) == [rows EXCEPT ![l][c] = cell]

(* Drawing a cell on the screen changes it on the paper.                   *)
LEMMA DrawnStrip ==
  ASSUME NEW a \in Seq(RowType), NEW b \in Buffers, NEW cell \in AnyCell,
         NEW r \in 0..(Height - 1), NEW c \in 0..(Width - 1)
  PROVE  /\ Put(b, r * Width + c, cell) \in Buffers
         /\ Strip(a, Put(b, r * Width + c, cell)) = Typed(Strip(a, b), Len(a) + r + 1, c, cell)
<1>1. Height \in Nat \ {0} /\ Width \in Nat \ {0} /\ Len(a) \in Nat
  BY TerminalAssumption
<1> DEFINE p == r * Width + c
           b2 == [b EXCEPT ![p] = cell]
           n == Len(a)
           u == Strip(a, b)
           s == Strip(a, b2)
           row == [BufRow(b, r) EXCEPT ![c] = cell]
           t == [u EXCEPT ![n + r + 1] = row]
<1>2. p \in Positions
  BY Place
<1> HIDE DEF p
<1>3. b2 \in Buffers /\ \A i \in Positions : b2[i] = IF i = p THEN cell ELSE b[i]
  BY <1>2 DEF Buffers
<1> HIDE DEF b2
<1>4. ASSUME NEW q \in 0..(Height - 1)
      PROVE  BufRow(b2, q) = IF q = r THEN row ELSE BufRow(b, q)
  <2>1. ASSUME NEW d \in 0..(Width - 1)
        PROVE  b2[q * Width + d] = IF q = r /\ d = c THEN cell ELSE b[q * Width + d]
    <3>1. q * Width + d \in Positions
      BY Place
    <3>2. q * Width + d = p <=> q = r /\ d = c
      BY SamePlace DEF p
    <3> QED
      BY <1>3, <3>1, <3>2
  <2>2. BufRow(b2, q) = [d \in 0..(Width - 1) |-> IF q = r /\ d = c THEN cell ELSE b[q * Width + d]]
    BY <2>1 DEF BufRow
  <2>3. row = [d \in 0..(Width - 1) |-> IF d = c THEN cell ELSE b[r * Width + d]]
    BY Zenon DEF BufRow
  <2>4. CASE q = r
    BY <2>2, <2>3, <2>4
  <2>5. CASE q # r
    BY <2>2, <2>5 DEF BufRow
  <2> QED
    BY <2>4, <2>5
<1>5. /\ u \in Seq(RowType) /\ Len(u) = n + Height
      /\ \A i \in 1..n : u[i] = a[i]
      /\ \A i \in 1..Height : u[n + i] = BufRow(b, i - 1)
  BY StripFacts
<1>6. /\ s \in Seq(RowType) /\ Len(s) = n + Height
      /\ \A i \in 1..n : s[i] = a[i]
      /\ \A i \in 1..Height : s[n + i] = BufRow(b2, i - 1)
  BY <1>3, StripFacts
<1>7. row \in RowType
  <2>1. BufRow(b, r) \in RowType
    BY Place DEF BufRow, RowType, Buffers
  <2> QED
    BY <2>1 DEF RowType
<1>8. n + r + 1 \in 1..(n + Height)
  BY <1>1
<1> HIDE DEF u, s, n, row
<1>9. /\ t \in Seq(RowType) /\ Len(t) = n + Height
      /\ \A i \in 1..(n + Height) : t[i] = IF i = n + r + 1 THEN row ELSE u[i]
  BY <1>5, <1>7, <1>8, ExceptSeq
<1> HIDE DEF t
<1>10. ASSUME NEW i \in 1..(n + Height)
       PROVE  s[i] = t[i]
  <2>1. CASE i \in 1..n
    <3>1. i # n + r + 1
      BY <1>1, <2>1 DEF n
    <3> QED
      BY <1>5, <1>6, <1>9, <2>1, <3>1
  <2>2. CASE i > n
    <3>1. PICK k \in 1..Height : i = n + k
      <4>1. i - n \in 1..Height /\ i = n + (i - n)
        BY <1>1, <2>2 DEF n
      <4> QED
        BY <4>1
    <3>2. k - 1 \in 0..(Height - 1) /\ (k - 1 = r <=> i = n + r + 1)
      BY <1>1, <3>1 DEF n
    <3>3. s[i] = BufRow(b2, k - 1) /\ u[i] = BufRow(b, k - 1)
      BY <1>5, <1>6, <3>1
    <3> QED
      BY <1>4, <1>9, <3>2, <3>3
  <2> QED
    BY <1>1, <2>1, <2>2 DEF n
<1>11. s = t
  BY <1>6, <1>9, <1>10, SeqEqual
<1>12. u[n + r + 1] = BufRow(b, r)
  <2>1. r + 1 \in 1..Height /\ n + (r + 1) = n + r + 1 /\ r + 1 - 1 = r
    BY <1>1 DEF n
  <2> QED
    BY <1>5, <2>1
<1>13. t = [u EXCEPT ![n + r + 1][c] = cell]
  BY <1>12 DEF t, row
<1> QED
  BY <1>3, <1>11, <1>13 DEF b2, p, n, u, s, Put, Typed

-----------------------------------------------------------------------------
(* The steps.                                                              *)
Types ==
  /\ x \in 0..(Width - 1) /\ y \in 0..(Height - 1)
  /\ buf \in Buffers /\ above \in Seq(RowType)

(* The strip, the line and the column that Terminal gives to Paper.        *)
LEMMA Mapping ==
  /\ above \o [i \in 1..Height |-> BufRow(buf, i - 1)] = Strip(above, buf)
  /\ (above \o [i \in 1..Height |-> BufRow(buf, i - 1)])' = Strip(above', buf')
BY DEF Strip, Rows, BufRow

(* newline is a Feed of the paper.                                         *)
LEMMA NewlineStep ==
  ASSUME Types, NEW b \in Buffers, Newline(b)
  PROVE  /\ Types'
         /\ Strip(above', buf') = IF Len(above) + y + 1 = Len(Strip(above, b))
                                  THEN Append(Strip(above, b), [c \in 0..(Width - 1) |-> Blank])
                                  ELSE Strip(above, b)
         /\ Len(above') + y' + 1 = Len(above) + y + 2
         /\ x' = 0
<1>1. Height \in Nat \ {0} /\ Width \in Nat \ {0} /\ Len(above) \in Nat
  BY TerminalAssumption DEF Types
<1>2. Len(Strip(above, b)) = Len(above) + Height
  BY StripFacts DEF Types
<1>3. x' = 0 /\ 0 \in 0..(Width - 1)
  BY <1>1 DEF Newline
<1>4. CASE /\ y = Height - 1
           /\ buf' = Scrolled(b)
           /\ above' = Append(above, BufRow(b, 0))
           /\ y' = y
  <2>1. /\ Scrolled(b) \in Buffers
        /\ BufRow(b, 0) \in RowType
        /\ Strip(above', buf') = Append(Strip(above, b), [c \in 0..(Width - 1) |-> Blank])
    BY <1>4, ScrolledStrip, Zenon DEF Types
  <2>2. above' \in Seq(RowType) /\ Len(above') = Len(above) + 1
    BY <1>4, <2>1 DEF Types
  <2>3. Len(above) + y + 1 = Len(Strip(above, b))
    BY <1>1, <1>2, <1>4
  <2>4. Len(above') + y' + 1 = Len(above) + y + 2 /\ y' \in 0..(Height - 1)
    BY <1>1, <1>4, <2>2
  <2> QED
    BY <1>3, <1>4, <2>1, <2>2, <2>3, <2>4, ZenonT(60) DEF Types
<1>5. CASE /\ y # Height - 1
           /\ y' = y + 1
           /\ buf' = b
           /\ above' = above
  <2>1. y \in 0..(Height - 1)
    BY DEF Types
  <2>2. y' \in 0..(Height - 1) /\ Len(above) + y + 1 # Len(Strip(above, b))
    BY <1>1, <1>2, <1>5, <2>1
  <2>3. Len(above') + y' + 1 = Len(above) + y + 2
    BY <1>1, <1>5, <2>1
  <2> QED
    BY <1>3, <1>5, <2>2, <2>3 DEF Types
<1> QED
  BY <1>4, <1>5 DEF Newline

(* So a Feed.                                                              *)
LEMMA NewlineFeeds ==
  ASSUME Types, Newline(buf)
  PROVE  P!Feed(Strip(above, buf))
<1>1. buf \in Buffers
  BY DEF Types
<1>2. /\ Strip(above', buf') = IF Len(above) + y + 1 = Len(Strip(above, buf))
                               THEN Append(Strip(above, buf), [c \in 0..(Width - 1) |-> Blank])
                               ELSE Strip(above, buf)
      /\ Len(above') + y' + 1 = Len(above) + y + 2
      /\ x' = 0
  BY <1>1, NewlineStep, Zenon
<1>3. Len(above') + y' + 1 = Len(above) + y + 1 + 1
  BY <1>2, TerminalAssumption DEF Types
<1> QED
  BY <1>2, <1>3, Mapping, Zenon DEF P!Feed, P!Row, P!Columns

(* draw_char is a Type.                                                    *)
LEMMA DrawCharStep ==
  ASSUME Types, NEW style, NEW ch, [style |-> style, ch |-> ch] \in Cells, DrawChar(style, ch)
  PROVE  Types' /\ P!Type
<1> DEFINE cell == [style |-> style, ch |-> ch]
           b == [buf EXCEPT ![y * Width + x] = cell]
           n == Len(above)
           rows == Strip(above, b)
<1>1. Height \in Nat \ {0} /\ Width \in Nat \ {0} /\ n \in Nat
  BY TerminalAssumption DEF Types
<1>2. cell \in Cells /\ cell \in AnyCell
  BY DEF AnyCell
<1>3. x \in 0..(Width - 1) /\ y \in 0..(Height - 1) /\ buf \in Buffers /\ above \in Seq(RowType)
  BY DEF Types
<1>4. \/ x = Width - 1 /\ Newline(b)
      \/ /\ x # Width - 1
         /\ x' = x + 1
         /\ buf' = b
         /\ y' = y /\ above' = above
  BY DEF DrawChar
<1> HIDE DEF cell
<1>5. b \in Buffers /\ rows = [Strip(above, buf) EXCEPT ![n + y + 1][x] = cell]
  <2>1. /\ Put(buf, y * Width + x, cell) \in Buffers
        /\ Strip(above, Put(buf, y * Width + x, cell)) = Typed(Strip(above, buf), n + y + 1, x, cell)
    BY <1>2, <1>3, DrawnStrip
  <2> QED
    BY <2>1 DEF Put, Typed
<1>6. y * Width + x \in Positions
  BY <1>3, Place
<1>7. b[y * Width + x] = cell
  BY <1>3, <1>6 DEF Buffers
<1> HIDE DEF b
<1>8. /\ rows \in Seq(RowType) /\ Len(rows) = n + Height
      /\ rows[n + y + 1][x] = cell
  <2>1. y + 1 \in 1..Height /\ y + 1 - 1 = y /\ n + (y + 1) = n + y + 1
    BY <1>1, <1>3
  <2>2. /\ rows \in Seq(RowType) /\ Len(rows) = n + Height
        /\ \A i \in 1..Height : rows[n + i] = BufRow(b, i - 1)
    BY <1>3, <1>5, StripFacts, Zenon
  <2> HIDE DEF rows, n
  <2>3. rows[n + (y + 1)] = BufRow(b, (y + 1) - 1)
    BY <2>1, <2>2
  <2>4. rows[n + y + 1] = BufRow(b, y)
    BY <1>1, <1>3, <2>1, <2>3
  <2> QED
    BY <1>3, <1>7, <2>2, <2>4 DEF BufRow
<1> HIDE DEF rows, n
<1>9. n + y + 1 \in 1..(n + Height)
  BY <1>1, <1>3
<1> DEFINE to == Strip(above', buf')
<1>10. ASSUME to[n + y + 1][x] = cell,
              \/ /\ x = Width - 1
                 /\ to = IF n + y + 1 = Len(rows)
                         THEN Append(rows, [c \in 0..(Width - 1) |-> Blank]) ELSE rows
                 /\ Len(above') + y' + 1 = n + y + 1 + 1
                 /\ x' = 0
              \/ /\ x < Width - 1
                 /\ to = rows
                 /\ x' = x + 1
                 /\ Len(above') + y' + 1 = n + y + 1
       PROVE  P!Type
  BY <1>2, <1>5, <1>10, Mapping, Zenon DEF P!Type, P!Feed, P!Row, P!Columns, n
<1>11. CASE x = Width - 1 /\ Newline(b)
  <2>1. /\ Types'
        /\ to = IF n + y + 1 = Len(rows)
                THEN Append(rows, [c \in 0..(Width - 1) |-> Blank]) ELSE rows
        /\ Len(above') + y' + 1 = n + y + 2
        /\ x' = 0
    BY <1>5, <1>11, NewlineStep, Zenon DEF n, rows
  <2>2. to[n + y + 1] = rows[n + y + 1]
    BY <1>8, <1>9, <2>1
  <2>3. n + y + 2 = n + y + 1 + 1
    BY <1>1, <1>3
  <2> QED
    BY <1>8, <1>10, <1>11, <2>1, <2>2, <2>3, Zenon
<1>12. CASE x # Width - 1 /\ x' = x + 1 /\ buf' = b /\ y' = y /\ above' = above
  <2>1. x' \in 0..(Width - 1) /\ x < Width - 1
    BY <1>1, <1>3, <1>12
  <2>2. Types'
    BY <1>3, <1>5, <1>12, <2>1 DEF Types
  <2>3. to = rows /\ Len(above') + y' + 1 = n + y + 1
    BY <1>12 DEF rows, n
  <2> QED
    BY <1>8, <1>10, <1>12, <2>1, <2>2, <2>3
<1> QED
  BY <1>4, <1>11, <1>12

(* The cursor registers hold the position.                                 *)
LEMMA CursorBytes ==
  ASSUME NEW pos \in Positions
  PROVE  ((pos \div Byte) % Byte) * Byte + (pos % Byte) = pos
<1>1. Byte \in Nat \ {0} /\ pos \in Nat /\ Width * Height \in Nat /\ pos < Width * Height /\ Width * Height <= Byte * Byte
  BY TerminalAssumption DEF Positions
<1>2. pos < Byte * Byte
  BY <1>1
<1> DEFINE q == pos \div Byte
<1>3. q \in Nat /\ pos = q * Byte + (pos % Byte) /\ pos % Byte \in Nat
  BY <1>1, SMTT(20)
<1> HIDE DEF q
<1>4. q < Byte
  <2>1. Byte <= q => Byte * Byte <= q * Byte
    BY <1>1, <1>3, TimesMonotone
  <2> QED
    BY <1>1, <1>2, <1>3, <2>1
<1>5. q % Byte = q
  BY <1>1, <1>3, <1>4
<1> QED
  BY <1>3, <1>5 DEF q

IInv ==
  /\ TypeOK
  /\ TabOutsideSequence
  /\ CursorShown
  /\ spaces > 0 => writing

(* What a byte may be drawn as.                                            *)
Glyphs == {Glyph(ch) : ch \in Bytes} \cup {" "}

(* What write_byte leaves.                                                 *)
Wrote(ch, rest) ==
  /\ ransid' \in Parsers /\ Types' /\ spaces' \in 0..4
  /\ spaces' = rest \/ ransid'.state = "Esc"
  /\ ransid.state = "Esc" /\ ch # "ESC" => ransid'.state = "Esc"
  /\ P!Next \/ UNCHANGED <<buf, x, y, above>>

(* write_byte keeps the position on the screen, and moves the paper.       *)
LEMMA WriteByteStep ==
  ASSUME TypeOK, NEW ch, Glyph(ch) \in Glyphs, NEW rest \in 0..4, WriteByte(ch, rest)
  PROVE  Wrote(ch, rest)
<1> SUFFICES /\ ransid' \in Parsers /\ Types' /\ spaces' \in 0..4
             /\ spaces' = rest \/ ransid'.state = "Esc"
             /\ ransid.state = "Esc" /\ ch # "ESC" => ransid'.state = "Esc"
             /\ P!Next \/ UNCHANGED <<buf, x, y, above>>
  BY DEF Wrote
<1> DEFINE r == Process(ransid, ch)
<1>1. Types /\ ransid \in Parsers
  BY DEF TypeOK, Types, Buffers, RowType
<1>2. /\ ransid' = r.to
      /\ \/ r.ascii = "NUL" /\ spaces' = rest /\ UNCHANGED screen
         \/ r.ascii = "LF" /\ spaces' = rest /\ Newline(buf)
         \/ r.ascii = "TAB" /\ spaces' = 4 /\ UNCHANGED screen
         \/ r.ascii = "CR" /\ spaces' = rest /\ x' = 0 /\ UNCHANGED <<buf, y, above>>
         \/ /\ r.ascii \notin {"NUL", "LF", "TAB", "CR"}
            /\ spaces' = rest
            /\ DrawChar(ransid.style, Glyph(r.ascii))
  BY DEF WriteByte
<1>3. /\ r.to \in Parsers /\ r.ascii \in {ch, "NUL"}
      /\ r.ascii # "NUL" => r.to.state = "Esc"
      /\ ransid.state = "Esc" /\ ch # "ESC" => r = Echo(ransid, ch)
  BY <1>1, ProcessFacts
<1>4. ransid.state = "Esc" /\ ch # "ESC" => r.to.state = "Esc"
  BY <1>1, <1>3 DEF Echo, Parsers
<1> HIDE DEF r
<1>5. CASE UNCHANGED screen /\ (spaces' = rest \/ (spaces' = 4 /\ r.ascii = "TAB"))
  BY <1>1, <1>2, <1>3, <1>4, <1>5 DEF Types, screen
<1>6. CASE spaces' = rest /\ Newline(buf)
  <2>1. Types'
    BY <1>1, <1>6, NewlineStep DEF Types
  <2>2. P!Next
    BY <1>1, <1>6, NewlineFeeds, Mapping, Zenon DEF P!Next
  <2> QED
    BY <1>2, <1>3, <1>4, <1>6, <2>1, <2>2
<1>7. CASE spaces' = rest /\ x' = 0 /\ UNCHANGED <<buf, y, above>>
  <2>1. Types'
    BY <1>1, <1>7, TerminalAssumption DEF Types
  <2>2. P!Return
    BY <1>7, Mapping DEF P!Return
  <2> QED
    BY <1>2, <1>3, <1>4, <1>7, <2>1, <2>2 DEF P!Next
<1>8. CASE /\ r.ascii \notin {"NUL", "LF", "TAB", "CR"}
           /\ spaces' = rest
           /\ DrawChar(ransid.style, Glyph(r.ascii))
  <2>1. r.ascii = ch
    BY <1>3, <1>8
  <2>2. ransid.style \in Styles
    BY <1>1 DEF Parsers
  <2>3. [style |-> ransid.style, ch |-> Glyph(ch)] \in Cells
    BY <2>2, Zenon DEF Cells, Glyphs
  <2>4. Types' /\ P!Type
    BY <1>1, <1>8, <2>1, <2>3, DrawCharStep
  <2> QED
    BY <1>2, <1>3, <1>4, <1>8, <2>4 DEF P!Next
<1> QED
  BY <1>2, <1>5, <1>6, <1>7, <1>8

(* Initially all holds, and the paper is blank.                            *)
LEMMA InitIInv == Init => IInv /\ P!Init
<1> SUFFICES ASSUME Init
             PROVE  IInv /\ P!Init
  OBVIOUS
<1>1. Height \in Nat \ {0} /\ Width \in Nat \ {0}
  BY TerminalAssumption
<1>2. Boot \in AnyCell /\ <<>> \in Seq(RowType)
  BY DEF AnyCell
<1>3. buf \in Buffers /\ \A i \in Positions : buf[i] = Boot
  BY <1>2 DEF Init, Buffers
<1>4. x = 0 /\ y = 0 /\ 0 \in 0..(Width - 1) /\ 0 \in 0..(Height - 1) /\ above = <<>>
  BY <1>1 DEF Init
<1>5. IInv
  <2>1. spaces = 0 /\ writing = FALSE /\ cursor = NoCursor /\ ransid \in Parsers
    BY NewTyped DEF Init
  <2>2. TypeOK
    <3>1. x \in 0..(Width - 1) /\ y \in 0..(Height - 1) /\ above \in Seq(RowType)
      BY <1>2, <1>4
    <3>2. writing \in BOOLEAN
      BY <2>1, Zenon
    <3>3. spaces = 0
      BY <2>1
    <3>4. spaces \in 0..4
      BY <3>3
    <3> QED
      BY <1>3, <2>1, <3>1, <3>2, <3>4 DEF TypeOK, Buffers, RowType
  <2> QED
    BY <2>1, <2>2 DEF IInv, TabOutsideSequence, CursorShown
<1>6. Strip(above, buf) = [i \in 1..Height |-> [c \in 0..(Width - 1) |-> Boot]]
  <2> DEFINE t == Rows(buf)
  <2>1. ASSUME NEW i \in 1..Height
        PROVE  BufRow(buf, i - 1) = [c \in 0..(Width - 1) |-> Boot]
    <3>1. i - 1 \in 0..(Height - 1)
      BY <1>1
    <3>2. \A c \in 0..(Width - 1) : buf[(i - 1) * Width + c] = Boot
      BY <1>3, <3>1, Place
    <3> QED
      BY <3>2 DEF BufRow
  <2>2. t = [i \in 1..Height |-> [c \in 0..(Width - 1) |-> Boot]]
    BY <2>1, Zenon DEF Rows
  <2>3. [c \in 0..(Width - 1) |-> Boot] \in RowType
    BY <1>2 DEF RowType
  <2>4. t \in Seq(RowType)
    BY <1>1, <2>2, <2>3
  <2> HIDE DEF t
  <2>5. <<>> \o t = t
    BY <2>4, ConcatEmptySeq
  <2> QED
    BY <1>4, <2>2, <2>5 DEF Strip, t
<1>7. Len(above) + y + 1 = 1
  BY <1>4
<1>8. P!Init
  BY <1>4, <1>6, <1>7, Mapping, Zenon DEF P!Init, P!Row, P!Columns
<1> QED
  BY <1>5, <1>8

(* Every step keeps the invariant and is a step on the paper.              *)
LEMMA StepIInv ==
  ASSUME IInv, [Next]_vars
  PROVE  IInv' /\ (P!Next \/ UNCHANGED <<buf, x, y, above>>)
<1>1. TypeOK /\ Types /\ TabOutsideSequence /\ CursorShown /\ (spaces > 0 => writing)
  BY DEF IInv, TypeOK, Types, Buffers, RowType
<1>2. ASSUME ransid' \in Parsers, Types', writing' \in BOOLEAN, spaces' \in 0..4
      PROVE  TypeOK'
  BY <1>2 DEF TypeOK, Types, Buffers, RowType
<1>3. Glyph(" ") \in Glyphs /\ \A ch \in Bytes : Glyph(ch) \in Glyphs
  BY Zenon DEF Glyphs, Glyph
<1>4. CASE WriteStr
  BY <1>1, <1>2, <1>4 DEF WriteStr, IInv, TypeOK, Types, screen, TabOutsideSequence, CursorShown
<1>5. ASSUME NEW ch \in Bytes, NextByte(ch)
      PROVE  IInv' /\ (P!Next \/ UNCHANGED <<buf, x, y, above>>)
  <2>1. writing /\ spaces = 0 /\ WriteByte(ch, 0) /\ writing' = writing
    BY <1>5 DEF NextByte
  <2>2. /\ ransid' \in Parsers /\ Types' /\ spaces' \in 0..4
        /\ spaces' = 0 \/ ransid'.state = "Esc"
        /\ P!Next \/ UNCHANGED <<buf, x, y, above>>
    <3>1. 0 \in 0..4
      OBVIOUS
    <3>2. Wrote(ch, 0)
      BY <1>1, <1>3, <2>1, <3>1, WriteByteStep, Zenon
    <3> QED
      BY <3>2 DEF Wrote
  <2>3. TypeOK'
    BY <1>1, <1>2, <2>1, <2>2
  <2> QED
    BY <2>1, <2>2, <2>3 DEF IInv, TabOutsideSequence, CursorShown
<1>6. CASE TabSpace
  <2>1. spaces > 0 /\ spaces \in 0..4 /\ WriteByte(" ", spaces - 1) /\ writing' = writing /\ writing = TRUE
    BY <1>1, <1>6, Zenon DEF TabSpace, TypeOK
  <2>2. spaces - 1 \in 0..4 /\ ransid.state = "Esc"
    <3>1. spaces - 1 \in 0..4
      <4>1. spaces > 0 /\ spaces \in 0..4
        BY <2>1, Zenon
      <4> QED
        BY <4>1
    <3>2. ransid.state = "Esc"
      BY <1>1, <2>1, Zenon DEF TabOutsideSequence
    <3> QED
      BY <3>1, <3>2
  <2>3. /\ ransid' \in Parsers /\ Types' /\ spaces' \in 0..4
        /\ ransid'.state = "Esc"
        /\ P!Next \/ UNCHANGED <<buf, x, y, above>>
    <3>1. Wrote(" ", spaces - 1)
      BY <1>1, <1>3, <2>1, <2>2, WriteByteStep, Zenon
    <3> QED
      BY <2>2, <3>1 DEF Wrote
  <2>4. TypeOK'
    BY <1>2, <2>1, <2>3, Zenon
  <2> QED
    BY <2>1, <2>3, <2>4, Zenon DEF IInv, TabOutsideSequence, CursorShown
<1>7. CASE WriteStrReturn
  <2>1. /\ spaces = 0 /\ writing' = FALSE /\ spaces' = spaces /\ ransid' = ransid
        /\ buf' = buf /\ x' = x /\ y' = y /\ above' = above
    BY <1>7 DEF WriteStrReturn, screen
  <2>2. TypeOK'
    BY <1>1, <2>1, Zenon DEF TypeOK
  <2>3. y * Width + x \in Positions
    BY <1>1, Place DEF Types
  <2> DEFINE pos == y' * Width + x'
  <2>4. pos \in Positions
    BY <2>1, <2>3
  <2>5. cursor' = [low |-> pos % Byte, high |-> (pos \div Byte) % Byte]
    BY <1>7 DEF WriteStrReturn, UpdateCursor
  <2> HIDE DEF pos
  <2>6. cursor'.high * Byte + cursor'.low = pos
    BY <2>4, <2>5, CursorBytes
  <2>7. CursorShown'
    BY <2>6 DEF CursorShown, pos
  <2> QED
    BY <2>1, <2>2, <2>7 DEF IInv, TabOutsideSequence
<1>8. CASE UNCHANGED vars
  BY <1>1, <1>8 DEF vars, screen, IInv, TypeOK, TabOutsideSequence, CursorShown, NoCursor
<1> QED
  BY <1>4, <1>5, <1>6, <1>7, <1>8 DEF Next

(* The invariant of the Writer.                                            *)
THEOREM WriterInvariant == Spec => []IInv
<1>1. IInv /\ [Next]_vars => IInv'
  BY StepIInv
<1> QED
  BY <1>1, InitIInv, PTL DEF Spec

(* On a screen of any size, whatever is written, the position stays on it: *)
(* draw_char and newline never index outside the buffer.                   *)
THEOREM WriterTyped == Spec => []TypeOK
<1>1. IInv => TypeOK
  BY DEF IInv
<1> QED
  BY <1>1, WriterInvariant, PTL

(* The spaces that write_byte writes for a tab are never taken for part of *)
(* an escape sequence.                                                     *)
THEOREM TabDrawn == Spec => []TabOutsideSequence
<1>1. IInv => TabOutsideSequence
  BY DEF IInv
<1> QED
  BY <1>1, WriterInvariant, PTL

(* After write_str the two bytes that update_cursor has sent are the place *)
(* of the next character, on every screen whose cells two bytes can count. *)
THEOREM CursorFollows == Spec => []CursorShown
<1>1. IInv => CursorShown
  BY DEF IInv
<1> QED
  BY <1>1, WriterInvariant, PTL

(* The Writer implements a strip of paper: no character is lost, moved or  *)
(* left over by wrapping, tabs, returns and scrolling.                     *)
THEOREM WriterIsPaper == Spec => RefinesPaper
<1>1. IInv /\ [Next]_vars => [P!Next]_(P!vars)
  <2> SUFFICES ASSUME IInv, [Next]_vars
               PROVE  P!Next \/ UNCHANGED P!vars
    OBVIOUS
  <2>1. ASSUME UNCHANGED <<buf, x, y, above>>
        PROVE  UNCHANGED P!vars
    BY <2>1, Mapping DEF P!vars
  <2> QED
    BY <2>1, StepIInv
<1>2. Init => P!Init
  BY InitIInv
<1> QED
  BY <1>1, <1>2, WriterInvariant, PTL DEF Spec, RefinesPaper, P!Spec
=============================================================================
