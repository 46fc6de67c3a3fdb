---------------------------- MODULE LoggerProofs ----------------------------
(***************************************************************************)
(* Proofs about module Logger, for every set of bytes that print! writes:  *)
(* wherever in an escape sequence a record finds the parser, after its     *)
(* eleventh byte the parser is outside a sequence and the style is white.  *)
(* The invariant follows the states that the parser can be in before each  *)
(* byte of a record.  The second half shows that a byte changes the style  *)
(* exactly as the whole sequence that it completes asks.                   *)
(***************************************************************************)
EXTENDS Logger, TLAPS

(* Colours stay below 8.                                                   *)
LEMMA ColourTyped ==
  ASSUME NEW style \in Styles, NEW c \in DOMAIN Digit
  PROVE  WithFg(style, c) \in Styles /\ WithBg(style, c) \in Styles
<1>1. Digit[c] \in 0..7
  BY DEF Digit
<1>2. ConvertColor(c) \in 0..7
  BY <1>1 DEF ConvertColor
<1>3. ConvertColor(c) % 2 = 0 => ConvertColor(c) + 1 \in 0..7
  BY <1>2
<1> QED
  BY <1>2, <1>3, Zenon DEF WithFg, WithBg, Styles

(* Process goes by the state of the parser.                                *)
LEMMA AfterCases ==
  ASSUME NEW p, NEW x
  PROVE  /\ p.state = "Esc" => After(p, x) = ProcessEsc(p, x).to
         /\ p.state = "Bracket" => After(p, x) = ProcessBracket(p, x).to
         /\ p.state = "Parse" => After(p, x) = ProcessParse(p, x).to
         /\ p.state = "BgColor" => After(p, x) = ProcessBgColor(p, x).to
         /\ p.state = "FgColor" => After(p, x) = ProcessFgColor(p, x).to
         /\ p.state = "Equals" => After(p, x) = ProcessEquals(p, x).to
         /\ p.state = "EndVal" => After(p, x) = ProcessEndVal(p, x).to
<1>1. p.state = "Esc" => Process(p, x) = ProcessEsc(p, x)
  BY Zenon DEF Process
<1>2. p.state = "Bracket" => Process(p, x) = ProcessBracket(p, x)
  BY Zenon DEF Process
<1>3. p.state = "Parse" => Process(p, x) = ProcessParse(p, x)
  BY Zenon DEF Process
<1>4. p.state = "BgColor" => Process(p, x) = ProcessBgColor(p, x)
  BY Zenon DEF Process
<1>5. p.state = "FgColor" => Process(p, x) = ProcessFgColor(p, x)
  BY Zenon DEF Process
<1>6. p.state = "Equals" => Process(p, x) = ProcessEquals(p, x)
  BY Zenon DEF Process
<1>7. p.state = "EndVal" => Process(p, x) = ProcessEndVal(p, x)
  BY Zenon DEF Process
<1>8. After(p, x) = Process(p, x).to
  BY Zenon DEF After
<1> QED
  BY <1>1, <1>2, <1>3, <1>4, <1>5, <1>6, <1>7, <1>8, Zenon

(* ransid_process leaves a parser.                                         *)
LEMMA AfterTyped ==
  ASSUME NEW p \in Parsers, NEW x
  PROVE  After(p, x) \in Parsers
<1>1. p.state \in ParserStates /\ p.style \in Styles /\ p.next_style \in Styles
  BY Zenon DEF Parsers
<1>2. White \in Styles /\ \A b \in BOOLEAN : [p.next_style EXCEPT !.bright = b] \in Styles
  BY <1>1 DEF White, Styles
<1>3. \A st \in ParserStates, n \in Styles : Goto(p, st, n).to \in Parsers
  BY <1>1, Zenon DEF Goto, Parsers
<1>4. \A y : Echo(p, y).to \in Parsers /\ Abort(p, y).to \in Parsers
  BY <1>1, Zenon DEF Echo, Abort, Parsers, ParserStates
<1>5. [p EXCEPT !.state = "Esc", !.style = p.next_style] \in Parsers
  BY <1>1, Zenon DEF Parsers, ParserStates
<1>6. ParserStates = {"Esc", "Bracket", "Parse", "BgColor", "FgColor", "Equals", "EndVal"}
  BY Zenon DEF ParserStates
<1>7. CASE p.state = "Esc"
  <2>1. After(p, x) = ProcessEsc(p, x).to
    BY <1>7, AfterCases, Zenon
  <2> QED
    BY <1>1, <1>3, <1>4, <1>6, <1>7, <2>1, ZenonT(60) DEF ProcessEsc
<1>8. CASE p.state = "Bracket"
  <2>1. After(p, x) = ProcessBracket(p, x).to
    BY <1>8, AfterCases, Zenon
  <2> QED
    BY <1>1, <1>3, <1>4, <1>6, <1>8, <2>1, ZenonT(60) DEF ProcessBracket
<1>9. CASE p.state = "Parse"
  <2>1. After(p, x) = ProcessParse(p, x).to
    BY <1>9, AfterCases, Zenon
  <2>2. {"FgColor", "BgColor", "EndVal", "Equals"} \subseteq ParserStates
    BY <1>6, Zenon
  <2>3. ProcessParse(p, x) \in {Goto(p, "FgColor", p.next_style), Goto(p, "BgColor", p.next_style),
                                Goto(p, "EndVal", White), Goto(p, "EndVal", [p.next_style EXCEPT !.bright = TRUE]),
                                Goto(p, "Equals", p.next_style), Abort(p, x)}
    BY SMTT(60) DEF ProcessParse, Reset
  <2> QED
    BY <1>1, <1>2, <1>3, <1>4, <2>1, <2>2, <2>3, ZenonT(60)
<1>10. CASE p.state = "BgColor"
  <2>1. After(p, x) = ProcessBgColor(p, x).to
    BY <1>10, AfterCases, Zenon
  <2> QED
    BY <1>1, <1>3, <1>4, <1>6, <1>10, ColourTyped, <2>1, ZenonT(60) DEF ProcessBgColor
<1>11. CASE p.state = "FgColor"
  <2>1. After(p, x) = ProcessFgColor(p, x).to
    BY <1>11, AfterCases, Zenon
  <2> QED
    BY <1>1, <1>3, <1>4, <1>6, <1>11, ColourTyped, <2>1, ZenonT(60) DEF ProcessFgColor
<1>12. CASE p.state = "Equals"
  <2>1. After(p, x) = ProcessEquals(p, x).to
    BY <1>12, AfterCases, Zenon
  <2> QED
    BY <1>1, <1>2, <1>3, <1>4, <1>6, <1>12, <2>1, ZenonT(60) DEF ProcessEquals
<1>13. CASE p.state = "EndVal"
  <2>1. After(p, x) = ProcessEndVal(p, x).to
    BY <1>13, AfterCases, Zenon
  <2>2. CASE x = ";"
    BY <1>1, <1>3, <1>6, <2>1, <2>2, ZenonT(60) DEF ProcessEndVal
  <2>3. CASE x = "m"
    BY <1>5, <2>1, <2>3, Zenon DEF ProcessEndVal
  <2>4. CASE x \notin {";", "m"}
    BY <1>4, <2>1, <2>4, Zenon DEF ProcessEndVal
  <2> QED
    BY <2>2, <2>3, <2>4, ZenonT(60)
<1> QED
  BY <1>1, <1>6, <1>7, <1>8, <1>9, <1>10, <1>11, <1>12, <1>13, ZenonT(60)

(* RansidState::new is a parser.                                           *)
LEMMA NewTyped == New \in Parsers
<1> DEFINE zero == [fg |-> 0, bright |-> FALSE, bg |-> 0]
           p == [state |-> "Esc", style |-> zero, next_style |-> zero]
<1>1. p \in Parsers
  BY DEF Parsers, ParserStates, Styles
<1> HIDE DEF p
<1>2. After(After(After(After(p, "ESC"), "["), "0"), "m") \in Parsers
  BY <1>1, AfterTyped, Zenon
<1> QED
  BY <1>2, Zenon DEF New, p

-----------------------------------------------------------------------------
(* What a concatenation is.                                                *)
LEMMA ConcatProperties ==
  ASSUME NEW S, NEW s \in Seq(S), NEW q \in Seq(S)
  PROVE  /\ s \o q \in Seq(S) /\ Len(s \o q) = Len(s) + Len(q)
         /\ \A i \in 1..(Len(s) + Len(q)) :
              (s \o q)[i] = IF i <= Len(s) THEN s[i] ELSE q[i - Len(s)]
OBVIOUS

(* The states that the parser may be in before each byte of a record.      *)
Before ==
  <<ParserStates, {"Esc", "Parse"}, {"Esc", "Bracket"}, {"Esc", "Parse"}, {"Esc", "FgColor"},
    {"Esc", "EndVal"}, {"Esc"}, {"Esc"}, {"Bracket"}, {"Parse"}, {"EndVal"},
    {"Esc"}, {"Esc"}, {"Esc"}, {"Esc"}>>

(* The record of a level from its i-th byte on is yet to be written.       *)
Rest(i, level) ==
  /\ Len(todo) = 16 - i
  /\ \A j \in 1..(16 - i) : todo[j] = Record(level)[i - 1 + j]

(* What the bytes of a record before the i-th have done to the parser.     *)
Reached(p, i) ==
  /\ p.state \in Before[i]
  /\ i = 11 => p.next_style = White
  /\ i > 11 => p.style = White

IInv ==
  /\ TypeOK
  /\ todo # <<>> => \E i \in 1..15, level \in 1..5 : Rest(i, level) /\ Reached(ransid, i)

(* The bytes of a record.                                                  *)
LEMMA RecordFacts ==
  ASSUME NEW level \in 1..5
  PROVE  /\ Record(level) \in Seq(RecordBytes) /\ Len(Record(level)) = 15
         /\ Record(level)[1] = "[" /\ Record(level)[2] = "ESC" /\ Record(level)[3] = "["
         /\ Record(level)[4] = "3" /\ Record(level)[5] \in DOMAIN Digit /\ Record(level)[6] = "m"
         /\ Record(level)[7] = "L" /\ Record(level)[8] = "ESC" /\ Record(level)[9] = "["
         /\ Record(level)[10] = "0" /\ Record(level)[11] = "m"
         /\ \A i \in 12..15 : Record(level)[i] # "ESC"
<1> DEFINE c == LevelColor[level]
           h == <<"[", "ESC", "[", "3", c, "m", "L", "ESC", "[", "0", "m">>
<1>1. c \in {"1", "2", "3", "5", "6"}
  BY DEF LevelColor
<1>2. c \in DOMAIN Digit /\ c \in RecordBytes
  BY <1>1, Zenon DEF Digit, RecordBytes
<1> HIDE DEF c
<1>3. h \in Seq(RecordBytes) /\ Len(h) = 11
  <2>1. {"[", "ESC", "3", "m", "L", "0"} \subseteq RecordBytes
    BY Zenon DEF RecordBytes
  <2>2. ASSUME NEW S, NEW c1 \in S, NEW c2 \in S, NEW c3 \in S, NEW c4 \in S, NEW c5 \in S,
               NEW c6 \in S, NEW c7 \in S, NEW c8 \in S, NEW c9 \in S, NEW c10 \in S, NEW c11 \in S
        PROVE  <<c1, c2, c3, c4, c5, c6, c7, c8, c9, c10, c11>> \in Seq(S)
    OBVIOUS
  <2> QED
    BY <1>2, <2>1, <2>2, Zenon
<1>4. Message \in Seq(RecordBytes) /\ Len(Message) = 4
  <2>1. {"]", " ", "a", "LF"} \subseteq RecordBytes
    BY Zenon DEF RecordBytes
  <2>2. ASSUME NEW S, NEW c1 \in S, NEW c2 \in S, NEW c3 \in S, NEW c4 \in S
        PROVE  <<c1, c2, c3, c4>> \in Seq(S)
    OBVIOUS
  <2> QED
    BY <2>1, <2>2, Zenon DEF Message
<1>5. \A i \in 1..4 : Message[i] # "ESC"
  <2>1. Message[1] = "]" /\ Message[2] = " " /\ Message[3] = "a" /\ Message[4] = "LF"
    BY Zenon DEF Message
  <2>2. Message[1] # "ESC" /\ Message[2] # "ESC" /\ Message[3] # "ESC" /\ Message[4] # "ESC"
    BY <2>1, Zenon
  <2>3. \A i \in 1..4 : i = 1 \/ i = 2 \/ i = 3 \/ i = 4
    OBVIOUS
  <2> QED
    BY <2>2, <2>3, Zenon
<1>6. Record(level) = h \o Message
  BY Zenon DEF Record, c
<1>7. /\ h[1] = "[" /\ h[2] = "ESC" /\ h[3] = "[" /\ h[4] = "3" /\ h[5] = c /\ h[6] = "m"
      /\ h[7] = "L" /\ h[8] = "ESC" /\ h[9] = "[" /\ h[10] = "0" /\ h[11] = "m"
  BY Zenon
<1> HIDE DEF h
<1>8. /\ h \o Message \in Seq(RecordBytes) /\ Len(h \o Message) = 15
      /\ \A i \in 1..11 : (h \o Message)[i] = h[i]
      /\ \A i \in 12..15 : (h \o Message)[i] = Message[i - 11]
  <2> DEFINE S == RecordBytes
             m == Message
  <2>1. h \in Seq(S) /\ m \in Seq(S) /\ Len(h) = 11 /\ Len(m) = 4
    BY <1>3, <1>4, Zenon
  <2> HIDE DEF S, m
  <2>2. /\ h \o m \in Seq(S)
        /\ Len(h \o m) = Len(h) + Len(m)
        /\ \A i \in 1..(Len(h) + Len(m)) :
             (h \o m)[i] = IF i <= Len(h) THEN h[i] ELSE m[i - Len(h)]
    BY <2>1, ConcatProperties, Zenon
  <2> DEFINE r == h \o m
  <2>3. /\ r \in Seq(S) /\ Len(r) = Len(h) + Len(m)
        /\ \A i \in 1..(Len(h) + Len(m)) : r[i] = IF i <= Len(h) THEN h[i] ELSE m[i - Len(h)]
    BY <2>2, Zenon
  <2> HIDE DEF r
  <2>4. /\ Len(r) = 15
        /\ (\A i \in 1..11 : r[i] = h[i]) /\ \A i \in 12..15 : r[i] = m[i - 11]
    BY <2>1, <2>3
  <2> QED
    BY <2>3, <2>4, Zenon DEF r, S, m
<1>9. \A i \in 12..15 : (h \o Message)[i] # "ESC"
  <2> TAKE i \in 12..15
  <2>1. i - 11 \in 1..4
    OBVIOUS
  <2> QED
    BY <2>1, <1>5, <1>8, ZenonT(60)
<1> DEFINE r == h \o Message
<1>10. \A i \in 1..11 : r[i] = h[i]
  BY <1>8, Zenon
<1> HIDE DEF r
<1>11. /\ r[1] = h[1] /\ r[2] = h[2] /\ r[3] = h[3] /\ r[4] = h[4] /\ r[5] = h[5] /\ r[6] = h[6]
       /\ r[7] = h[7] /\ r[8] = h[8] /\ r[9] = h[9] /\ r[10] = h[10] /\ r[11] = h[11]
  BY <1>10
<1>12. r = Record(level)
  BY <1>6, Zenon DEF r
<1>13. r \in Seq(RecordBytes) /\ Len(r) = 15 /\ \A i \in 12..15 : r[i] # "ESC"
  BY <1>8, <1>9, Zenon DEF r
<1> QED
  BY <1>2, <1>7, <1>11, <1>12, <1>13, SMTT(60)

(* A step of the parser from p to a, to a state and a next_style, and one  *)
(* that forgets the sequence.                                              *)
Goes(p, a, state, next_style) ==
  a.state = state /\ a.style = p.style /\ a.next_style = next_style
Drops(p, a) == Goes(p, a, "Esc", p.style)

(* All that ransid_process does.                                           *)
LEMMA Transitions ==
  ASSUME NEW p \in Parsers, NEW x
  PROVE  /\ p.state = "Esc" =>
              Goes(p, After(p, x), IF x = "ESC" THEN "Bracket" ELSE "Esc", p.next_style)
         /\ p.state = "Bracket" =>
              Goes(p, After(p, x), IF x = "[" THEN "Parse" ELSE "Esc", p.next_style)
         /\ p.state = "Parse" =>
              /\ x = "3" => Goes(p, After(p, x), "FgColor", p.next_style)
              /\ x = "4" => Goes(p, After(p, x), "BgColor", p.next_style)
              /\ x = "=" => Goes(p, After(p, x), "Equals", p.next_style)
              /\ x = "0" => Goes(p, After(p, x), "EndVal", White)
              /\ x = "1" => Goes(p, After(p, x), "EndVal", [p.next_style EXCEPT !.bright = TRUE])
              /\ x \notin {"3", "4", "=", "0", "1"} => Drops(p, After(p, x))
         /\ p.state = "FgColor" =>
              IF x \in DOMAIN Digit THEN Goes(p, After(p, x), "EndVal", WithFg(p.next_style, x))
              ELSE Drops(p, After(p, x))
         /\ p.state = "BgColor" =>
              IF x \in DOMAIN Digit THEN Goes(p, After(p, x), "EndVal", WithBg(p.next_style, x))
              ELSE Drops(p, After(p, x))
         /\ p.state = "Equals" =>
              IF x = "1" THEN Goes(p, After(p, x), "EndVal", [p.next_style EXCEPT !.bright = FALSE])
              ELSE Drops(p, After(p, x))
         /\ p.state = "EndVal" =>
              /\ x = ";" => Goes(p, After(p, x), "Parse", p.next_style)
              /\ x = "m" => /\ After(p, x).state = "Esc" /\ After(p, x).style = p.next_style
                            /\ After(p, x).next_style = p.next_style
              /\ x \notin {";", "m"} => Drops(p, After(p, x))
<1>1. p = [state |-> p.state, style |-> p.style, next_style |-> p.next_style]
  BY Zenon DEF Parsers
<1>2. \A st, n : Goes(p, Goto(p, st, n).to, st, n)
  BY <1>1, Zenon DEF Goto, Goes
<1>3. \A y : Drops(p, Abort(p, y).to) /\ Goes(p, Echo(p, y).to, "Esc", p.next_style)
  <2> TAKE y
  <2>1. Drops(p, Abort(p, y).to)
    BY <1>1, Zenon DEF Abort, Goes, Drops
  <2>2. Goes(p, Echo(p, y).to, "Esc", p.next_style)
    BY <1>1, Zenon DEF Echo, Goes
  <2> QED
    BY <2>1, <2>2, Zenon
<1>4. CASE p.state = "Esc"
  <2>1. After(p, x) = ProcessEsc(p, x).to
    BY <1>4, AfterCases, Zenon
  <2> QED
    BY <1>2, <1>3, <1>4, <2>1, ZenonT(60) DEF ProcessEsc
<1>5. CASE p.state = "Bracket"
  <2>1. After(p, x) = ProcessBracket(p, x).to
    BY <1>5, AfterCases, Zenon
  <2> QED
    BY <1>2, <1>3, <1>5, <2>1, ZenonT(60) DEF ProcessBracket
<1>6. CASE p.state = "Parse"
  <2>1. After(p, x) = ProcessParse(p, x).to
    BY <1>6, AfterCases, Zenon
  <2>2. x = "3" => Goes(p, After(p, x), "FgColor", p.next_style)
    BY <1>2, <2>1, Zenon DEF ProcessParse
  <2>3. x = "4" => Goes(p, After(p, x), "BgColor", p.next_style)
    BY <1>2, <2>1, Zenon DEF ProcessParse
  <2>4. x = "=" => Goes(p, After(p, x), "Equals", p.next_style)
    BY <1>2, <2>1, Zenon DEF ProcessParse
  <2>5. x = "0" => Goes(p, After(p, x), "EndVal", White)
    BY <1>2, <2>1, Zenon DEF ProcessParse, Reset
  <2>6. x = "1" => Goes(p, After(p, x), "EndVal", [p.next_style EXCEPT !.bright = TRUE])
    BY <1>2, <2>1, Zenon DEF ProcessParse
  <2>7. x \notin {"3", "4", "=", "0", "1"} => Drops(p, After(p, x))
    BY <1>3, <2>1, ZenonT(60) DEF ProcessParse
  <2> QED
    BY <1>6, <2>2, <2>3, <2>4, <2>5, <2>6, <2>7, Zenon
<1>7. CASE p.state = "FgColor"
  <2>1. After(p, x) = ProcessFgColor(p, x).to
    BY <1>7, AfterCases, Zenon
  <2> QED
    BY <1>2, <1>3, <1>7, <2>1, ZenonT(60) DEF ProcessFgColor
<1>8. CASE p.state = "BgColor"
  <2>1. After(p, x) = ProcessBgColor(p, x).to
    BY <1>8, AfterCases, Zenon
  <2> QED
    BY <1>2, <1>3, <1>8, <2>1, ZenonT(60) DEF ProcessBgColor
<1>9. CASE p.state = "Equals"
  <2>1. After(p, x) = ProcessEquals(p, x).to
    BY <1>9, AfterCases, Zenon
  <2> QED
    BY <1>2, <1>3, <1>9, <2>1, ZenonT(60) DEF ProcessEquals
<1>10. CASE p.state = "EndVal"
  <2>1. After(p, x) = ProcessEndVal(p, x).to
    BY <1>10, AfterCases, Zenon
  <2>2. x = ";" => Goes(p, After(p, x), "Parse", p.next_style)
    BY <1>2, <2>1, Zenon DEF ProcessEndVal
  <2>3. x = "m" => After(p, x) = [p EXCEPT !.state = "Esc", !.style = p.next_style]
    BY <2>1, Zenon DEF ProcessEndVal
  <2>4. x = "m" => /\ After(p, x).state = "Esc" /\ After(p, x).style = p.next_style
                   /\ After(p, x).next_style = p.next_style
    BY <1>1, <2>3, Zenon
  <2>5. x \notin {";", "m"} => Drops(p, After(p, x))
    BY <1>3, <2>1, Zenon DEF ProcessEndVal
  <2> QED
    BY <1>10, <2>2, <2>4, <2>5, Zenon
<1> QED
  BY <1>4, <1>5, <1>6, <1>7, <1>8, <1>9, <1>10, Zenon DEF Parsers, ParserStates

(* Where a byte takes the parser, for the bytes that a record has there.   *)
LEMMA AfterFacts ==
  ASSUME NEW p \in Parsers, NEW x
  PROVE  /\ p.state = "Esc" /\ x = "ESC" => After(p, x).state = "Bracket"
         /\ p.state = "Esc" /\ x # "ESC" => After(p, x).state = "Esc" /\ After(p, x).style = p.style
         /\ p.state = "Bracket" /\ x = "[" => After(p, x).state = "Parse"
         /\ p.state = "Bracket" /\ x # "[" => After(p, x).state = "Esc"
         /\ p.state = "Parse" /\ x = "3" => After(p, x).state = "FgColor"
         /\ p.state = "Parse" /\ x = "0" => After(p, x).state = "EndVal" /\ After(p, x).next_style = White
         /\ p.state = "FgColor" /\ x \in DOMAIN Digit => After(p, x).state = "EndVal"
         /\ p.state = "EndVal" /\ x = "m" => After(p, x).state = "Esc" /\ After(p, x).style = p.next_style
         /\ p.state \in ParserStates \ {"Bracket"} /\ x = "[" => After(p, x).state = "Esc"
         /\ p.state = "Parse" /\ x = "ESC" => After(p, x).state = "Esc"
<1> DEFINE a == After(p, x)
<1> HIDE DEF a
<1>1. CASE p.state = "Esc"
  <2>1. Goes(p, a, IF x = "ESC" THEN "Bracket" ELSE "Esc", p.next_style)
    BY <1>1, Transitions, Zenon DEF a
  <2> QED
    BY <1>1, <2>1, Zenon DEF Goes, a
<1>2. CASE p.state = "Bracket"
  <2>1. Goes(p, a, IF x = "[" THEN "Parse" ELSE "Esc", p.next_style)
    BY <1>2, Transitions, Zenon DEF a
  <2> QED
    BY <1>2, <2>1, Zenon DEF Goes, a
<1>3. CASE p.state = "Parse"
  <2>1. x \in {"[", "ESC"} => Drops(p, a)
    BY <1>3, Transitions, Zenon DEF a
  <2>2. /\ x = "3" => Goes(p, a, "FgColor", p.next_style)
        /\ x = "0" => Goes(p, a, "EndVal", White)
    BY <1>3, Transitions, Zenon DEF a
  <2> QED
    BY <1>3, <2>1, <2>2, Zenon DEF Drops, Goes, a
<1>4. CASE p.state \in {"FgColor", "BgColor"}
  <2>1. "[" \notin DOMAIN Digit
    BY Zenon DEF Digit
  <2>2. x = "[" => Drops(p, a)
    BY <1>4, <2>1, Transitions, Zenon DEF a
  <2>3. p.state = "FgColor" /\ x \in DOMAIN Digit => a.state = "EndVal"
    BY Transitions, Zenon DEF Goes, a
  <2> QED
    BY <1>4, <2>2, <2>3, Zenon DEF Drops, Goes, a
<1>5. CASE p.state = "Equals"
  <2>1. x = "[" => Drops(p, a)
    BY <1>5, Transitions, Zenon DEF a
  <2> QED
    BY <1>5, <2>1, Zenon DEF Drops, Goes, a
<1>6. CASE p.state = "EndVal"
  <2>1. x = "m" => a.state = "Esc" /\ a.style = p.next_style
    BY <1>6, Transitions, Zenon DEF a
  <2>2. x = "[" => Drops(p, a)
    BY <1>6, Transitions, Zenon DEF a
  <2> QED
    BY <1>6, <2>1, <2>2, Zenon DEF Drops, Goes, a
<1> QED
  BY <1>1, <1>2, <1>3, <1>4, <1>5, <1>6, Zenon DEF Parsers, ParserStates

(* Before takes the parser from byte to byte of a record.                  *)
LEMMA ReachedNext ==
  ASSUME NEW p \in Parsers, NEW i \in 1..14, NEW level \in 1..5, Reached(p, i)
  PROVE  Reached(After(p, Record(level)[i]), i + 1)
<1> DEFINE x == Record(level)[i]
           q == After(p, x)
<1>1. p.state \in ParserStates
  BY Zenon DEF Parsers
<1>2. /\ Before[1] = ParserStates /\ Before[2] = {"Esc", "Parse"} /\ Before[3] = {"Esc", "Bracket"}
      /\ Before[4] = {"Esc", "Parse"} /\ Before[5] = {"Esc", "FgColor"} /\ Before[6] = {"Esc", "EndVal"}
      /\ Before[7] = {"Esc"} /\ Before[8] = {"Esc"} /\ Before[9] = {"Bracket"} /\ Before[10] = {"Parse"}
      /\ Before[11] = {"EndVal"} /\ Before[12] = {"Esc"} /\ Before[13] = {"Esc"}
      /\ Before[14] = {"Esc"} /\ Before[15] = {"Esc"}
  BY Zenon DEF Before
<1>3. /\ p.state \in Before[i] /\ (i = 11 => p.next_style = White) /\ (i > 11 => p.style = White)
  BY Zenon DEF Reached
<1>4. DOMAIN Digit = {"0", "1", "2", "3", "4", "5", "6", "7"}
  BY Zenon DEF Digit
<1> SUFFICES /\ q.state \in Before[i + 1] /\ (i + 1 = 11 => q.next_style = White)
             /\ (i + 1 > 11 => q.style = White)
  BY Zenon DEF Reached
<1> HIDE DEF q, x
<1>5. CASE i = 1
  <2>1. x = "["
    BY <1>5, RecordFacts, Zenon DEF x
  <2>2. q.state = "Parse" \/ q.state = "Esc"
    BY <1>1, <2>1, AfterFacts, Zenon DEF q
  <2> QED
    BY <1>2, <1>5, <2>2, SMTT(60)
<1>6. CASE i \in {2, 8}
  <2>1. x = "ESC"
    BY <1>6, RecordFacts, Zenon DEF x
  <2> QED
    BY <1>2, <1>3, <1>6, <2>1, AfterFacts, SMTT(60) DEF q
<1>7. CASE i \in {3, 9}
  <2>1. x = "["
    BY <1>7, RecordFacts, Zenon DEF x
  <2>2. p.state = "Esc" \/ p.state = "Bracket"
    BY <1>2, <1>3, <1>7, SMTT(60)
  <2>3. q.state = IF p.state = "Bracket" THEN "Parse" ELSE "Esc"
    BY <2>1, <2>2, AfterFacts, SMTT(60) DEF q
  <2>4. i = 9 => p.state = "Bracket"
    BY <1>2, <1>3, SMTT(60)
  <2> QED
    BY <1>2, <1>7, <2>3, <2>4, SMTT(60)
<1>8. CASE i = 4
  <2>1. x = "3"
    BY <1>8, RecordFacts, Zenon DEF x
  <2> QED
    BY <1>2, <1>3, <1>8, <2>1, AfterFacts DEF q
<1>9. CASE i = 5
  <2>1. x \in DOMAIN Digit /\ x # "ESC"
    BY <1>4, <1>9, RecordFacts, Zenon DEF x
  <2>2. p.state = "Esc" \/ p.state = "FgColor"
    BY <1>2, <1>3, <1>9, SMTT(60)
  <2>3. q.state \in {"Esc", "EndVal"}
    BY <2>1, <2>2, AfterFacts, Zenon DEF q
  <2> QED
    BY <1>2, <1>9, <2>3, SMTT(60)
<1>10. CASE i = 6
  <2>1. x = "m"
    BY <1>10, RecordFacts, Zenon DEF x
  <2>2. p.state = "Esc" \/ p.state = "EndVal"
    BY <1>2, <1>3, <1>10
  <2>3. q.state = "Esc"
    BY <2>1, <2>2, AfterFacts DEF q
  <2> QED
    BY <1>2, <1>10, <2>3
<1>11. CASE i = 7
  <2>1. x = "L"
    BY <1>11, RecordFacts, Zenon DEF x
  <2> QED
    BY <1>2, <1>3, <1>11, <2>1, AfterFacts DEF q
<1>12. CASE i = 10
  <2>1. x = "0"
    BY <1>12, RecordFacts, Zenon DEF x
  <2> QED
    BY <1>2, <1>3, <1>12, <2>1, AfterFacts DEF q
<1>13. CASE i = 11
  <2>1. x = "m"
    BY <1>13, RecordFacts, Zenon DEF x
  <2> QED
    BY <1>2, <1>3, <1>13, <2>1, AfterFacts DEF q
<1>14. CASE i \in {12, 13, 14}
  <2>1. x # "ESC"
    <3>1. \A j \in 12..15 : Record(level)[j] # "ESC"
      BY RecordFacts, Zenon
    <3>2. i \in 12..15
      BY <1>14
    <3> QED
      BY <3>1, <3>2, Zenon DEF x
  <2> QED
    BY <1>2, <1>3, <1>14, <2>1, AfterFacts DEF q
<1> QED
  BY <1>5, <1>6, <1>7, <1>8, <1>9, <1>10, <1>11, <1>12, <1>13, <1>14

(* A byte keeps the types.                                                 *)
LEMMA ConsumeTyped ==
  ASSUME TypeOK, NEW x \in Bytes \cup RecordBytes, Consume(x)
  PROVE  ransid' \in Parsers /\ seen' \in Seq(Bytes \cup RecordBytes)
<1> DEFINE S == Bytes \cup RecordBytes
           n == After(ransid, x).state = "Esc"
<1>1. seen \in Seq(S) /\ x \in S /\ ransid \in Parsers
  BY Zenon DEF TypeOK
<1>2. seen' = (IF n THEN <<>> ELSE Append(seen, x)) /\ ransid' = After(ransid, x)
  BY Zenon DEF Consume
<1> HIDE DEF S, n
<1>3. seen' \in Seq(S)
  BY <1>1, <1>2, SMTT(60)
<1> QED
  BY <1>1, <1>2, <1>3, AfterTyped, ZenonT(60) DEF S

(* The next byte of a record.                                              *)
LEMMA LogByteStep ==
  ASSUME IInv, LogByte
  PROVE  IInv'
<1>1. TypeOK /\ todo # <<>> /\ todo \in Seq(RecordBytes) /\ ransid \in Parsers
  BY Zenon DEF IInv, LogByte, TypeOK
<1>2. PICK i \in 1..15, level \in 1..5 : Rest(i, level) /\ Reached(ransid, i)
  BY <1>1, Zenon DEF IInv
<1> DEFINE r == Record(level)
           x == Head(todo)
<1>3. Len(todo) = 16 - i /\ \A j \in 1..(16 - i) : todo[j] = r[i - 1 + j]
  BY <1>2, Zenon DEF Rest
<1>4. Consume(x) /\ todo' = Tail(todo)
  BY Zenon DEF LogByte
<1>5. x = todo[1] /\ x \in RecordBytes /\ Tail(todo) \in Seq(RecordBytes)
  BY <1>1
<1>6. ransid' = After(ransid, x)
  BY <1>4, Zenon DEF Consume
<1> HIDE DEF r, x
<1>7. x = r[i]
  BY <1>3, <1>5
<1>8. TypeOK'
  <2>1. ransid' \in Parsers /\ seen' \in Seq(Bytes \cup RecordBytes)
    BY <1>1, <1>4, <1>5, ConsumeTyped, Zenon
  <2> QED
    BY <1>4, <1>5, <2>1, Zenon DEF TypeOK
<1>9. todo' # <<>> => i < 15
  <2>1. Len(todo') = 15 - i
    BY <1>1, <1>3, <1>4, SMTT(60)
  <2>2. todo' \in Seq(RecordBytes)
    BY <1>4, <1>5, Zenon
  <2> QED
    BY <2>1, <2>2, SMTT(60)
<1>10. ASSUME i < 15
       PROVE  \E j \in 1..15, l \in 1..5 : Rest(j, l)' /\ Reached(ransid, j)'
  <2>1. i \in 1..14 /\ i + 1 \in 1..15
    BY <1>10, SMTT(60)
  <2>2. Reached(ransid', i + 1)
    BY <1>1, <1>2, <1>6, <1>7, <2>1, ReachedNext, Zenon DEF r
  <2>3. Len(todo') = 16 - (i + 1)
    BY <1>1, <1>3, <1>4, SMTT(60)
  <2>4. ASSUME NEW j \in 1..(16 - (i + 1))
        PROVE  todo'[j] = r[(i + 1) - 1 + j]
    <3>1. todo'[j] = todo[j + 1]
      BY <1>1, <1>3, <1>4, SMTT(60)
    <3>2. j + 1 \in 1..(16 - i) /\ i - 1 + (j + 1) = (i + 1) - 1 + j
      OBVIOUS
    <3> QED
      BY <1>3, <3>1, <3>2, Zenon
  <2>5. Rest(i + 1, level)'
    BY <2>3, <2>4, Zenon DEF Rest, r
  <2>6. Reached(ransid, i + 1)'
    BY <2>2, Zenon DEF Reached
  <2> QED
    BY <2>1, <2>5, <2>6, Zenon
<1> QED
  BY <1>8, <1>9, <1>10, Zenon DEF IInv

(* Every step keeps the invariant.                                         *)
LEMMA Inductive ==
  ASSUME IInv, [Next]_vars
  PROVE  IInv'
<1>1. ASSUME NEW x \in Bytes, PrintByte(x)
      PROVE  IInv'
  <2>1. todo = <<>> /\ todo' = todo /\ Consume(x) /\ TypeOK
    BY <1>1, Zenon DEF PrintByte, IInv
  <2>2. ransid' \in Parsers /\ seen' \in Seq(Bytes \cup RecordBytes)
    BY <2>1, ConsumeTyped, Zenon
  <2> QED
    BY <2>1, <2>2, Zenon DEF IInv, TypeOK
<1>2. ASSUME NEW level \in 1..5, LogCall(level)
      PROVE  IInv'
  <2>1. todo' = Record(level) /\ ransid' = ransid /\ seen' = seen /\ TypeOK
    BY <1>2, Zenon DEF LogCall, IInv
  <2>2. Record(level) \in Seq(RecordBytes) /\ Len(Record(level)) = 15
    BY RecordFacts, Zenon
  <2>3. Rest(1, level)'
    BY <2>1, <2>2 DEF Rest
  <2>4. Reached(ransid, 1)'
    <3>1. ransid'.state \in ParserStates
      BY <2>1, Zenon DEF TypeOK, Parsers
    <3>2. Before[1] = ParserStates
      BY Zenon DEF Before
    <3> QED
      BY <3>1, <3>2 DEF Reached
  <2>5. TypeOK'
    BY <2>1, <2>2, Zenon DEF TypeOK
  <2>6. \E i \in 1..15, l \in 1..5 : (Rest(i, l) /\ Reached(ransid, i))'
    <3>1. 1 \in 1..15
      OBVIOUS
    <3> QED
      BY <3>1, <2>3, <2>4, Zenon
  <2> QED
    BY <2>5, <2>6, Zenon DEF IInv
<1>3. CASE UNCHANGED vars
  BY <1>3, ZenonT(60) DEF IInv, TypeOK, Rest, Reached, vars
<1> QED
  BY <1>1, <1>2, <1>3, LogByteStep, Zenon DEF Next

(* The invariant of the screen's parser: wherever a record is, the bytes   *)
(* that it has written have brought ransid_process to one of a few states. *)
THEOREM LoggerInvariant == Spec => []IInv
<1>1. Init => IInv
  <2>1. <<>> \in Seq(Bytes \cup RecordBytes) /\ <<>> \in Seq(RecordBytes)
    OBVIOUS
  <2> QED
    BY <2>1, NewTyped, Zenon DEF Init, IInv, TypeOK
<1>2. IInv /\ [Next]_vars => IInv'
  BY Inductive, Zenon
<1> QED
  BY <1>1, <1>2, PTL DEF Spec

(* The parser of ransid.rs stays within its states and its styles within   *)
(* their three and four bits, whatever bytes are printed.                  *)
THEOREM LoggerTyped == Spec => []TypeOK
<1>1. IInv => TypeOK
  BY Zenon DEF IInv
<1> QED
  BY <1>1, LoggerInvariant, PTL

(* The message of a log record is white on black for every set of bytes    *)
(* that print! may have written before it.                                 *)
THEOREM MessageIsPlain == Spec => []MessagePlain
<1>1. IInv => MessagePlain
  <2> SUFFICES ASSUME IInv, todo # <<>>, Len(todo) <= Len(Message)
               PROVE  ransid.state = "Esc" /\ ransid.style = White
    BY Zenon DEF MessagePlain
  <2>1. PICK i \in 1..15, level \in 1..5 : Rest(i, level) /\ Reached(ransid, i)
    BY Zenon DEF IInv
  <2>2. Len(todo) <= 4
    BY Zenon DEF Message
  <2>3. i \in 12..15
    BY <2>1, <2>2 DEF Rest
  <2>4. Before[12] = {"Esc"} /\ Before[13] = {"Esc"} /\ Before[14] = {"Esc"} /\ Before[15] = {"Esc"}
    BY Zenon DEF Before
  <2>5. ransid.state \in Before[i] /\ ransid.style = White
    BY <2>1, <2>3, SMTT(60) DEF Reached
  <2>6. i = 12 \/ i = 13 \/ i = 14 \/ i = 15
    BY <2>3
  <2> QED
    BY <2>4, <2>5, <2>6, Zenon
<1> QED
  BY <1>1, LoggerInvariant, PTL
-----------------------------------------------------------------------------
(* Whole sequences.  The bytes seen are, by the state of the parser, a     *)
(* beginning of a sequence and a part of a parameter, and next_style is    *)
(* what the parameters of the beginning ask for.  That a sequence can be   *)
(* read in one way only needs induction on the number of its parameters.   *)
INSTANCE WellFoundedInduction

(* Induction on natural numbers, for a set of them.                        *)
LEMMA SetInduction ==
  ASSUME NEW T, 0 \in T, \A n \in Nat : n \in T => n + 1 \in T
  PROVE  \A n \in Nat : n \in T
<1> SUFFICES ASSUME Nat \ T # {}
             PROVE  FALSE
  BY Zenon
<1>1. PICK m \in Nat \ T : \A y \in Nat \ T : ~(<<y, m>> \in OpToRel(<, Nat))
  BY WFMin, NatLessThanWellFounded, Zenon
<1>2. m \in Nat /\ m # 0
  BY <1>1, Zenon
<1>3. m - 1 \in Nat /\ m - 1 < m /\ (m - 1) + 1 = m
  BY <1>2
<1>4. m - 1 \in T
  BY <1>1, <1>3, Zenon DEF OpToRel
<1> QED
  BY <1>1, <1>3, <1>4, Zenon

(* The beginning without parameters, and those with one more than X and x  *)
(* after it.                                                               *)
Base == {[bytes |-> <<"ESC", "[">>, asks |-> [style \in Styles |-> style]]}
Longer(X, x) == {Extended(o, q, x) : o \in X, q \in Params}

(* g is Opened up to n.                                                    *)
OpenedTo(g, n) == g = [k \in 0..n |-> IF k = 0 THEN Base ELSE Longer(g[k - 1], ";")]

(* Opened up to n exists for every n,                                      *)
LEMMA OpenedToExists == \A n \in Nat : \E g : OpenedTo(g, n)
<1> DEFINE T == {n \in Nat : \E g : OpenedTo(g, n)}
<1>1. 0 \in T
  <2> DEFINE g == [k \in 0..0 |-> Base]
  <2>1. \A k \in 0..0 : k = 0
    OBVIOUS
  <2>2. OpenedTo(g, 0)
    BY <2>1, Zenon DEF OpenedTo
  <2> HIDE DEF g
  <2> QED
    BY <2>2, Zenon
<1>2. ASSUME NEW n \in Nat, n \in T
      PROVE  n + 1 \in T
  <2>1. PICK g : OpenedTo(g, n)
    BY <1>2, Zenon
  <2> DEFINE h == [k \in 0..(n + 1) |-> IF k = 0 THEN Base ELSE Longer(g[k - 1], ";")]
  <2>2. \A k \in 0..n : g[k] = IF k = 0 THEN Base ELSE Longer(g[k - 1], ";")
    <3>1. g = [k \in 0..n |-> IF k = 0 THEN Base ELSE Longer(g[k - 1], ";")]
      BY <2>1, Zenon DEF OpenedTo
    <3> QED
      BY <3>1, Zenon
  <2>3. \A k \in 0..(n + 1) : k # 0 => k - 1 \in 0..n /\ k - 1 \in 0..(n + 1)
    OBVIOUS
  <2>4. \A k \in 0..n : k \in 0..(n + 1)
    OBVIOUS
  <2>5. \A k \in 0..n : h[k] = g[k]
    BY <2>2, <2>4, Zenon
  <2>6. \A k \in 0..(n + 1) : k # 0 => h[k - 1] = g[k - 1]
    BY <2>3, <2>5, Zenon
  <2>7. OpenedTo(h, n + 1)
    BY <2>6, Zenon DEF OpenedTo
  <2>8. n + 1 \in Nat
    OBVIOUS
  <2> HIDE DEF h
  <2> QED
    BY <2>7, <2>8, Zenon
<1> HIDE DEF T
<1>3. \A n \in Nat : n \in T
  BY <1>1, <1>2, SetInduction, Zenon
<1> QED
  BY <1>3, Zenon DEF T

(* and there is one only.                                                  *)
LEMMA OpenedToUnique ==
  ASSUME NEW n \in Nat, NEW m \in Nat, NEW g, NEW h, OpenedTo(g, n), OpenedTo(h, m), n <= m
  PROVE  g[n] = h[n]
<1> DEFINE T == {k \in Nat : k <= n => g[k] = h[k]}
<1>1. /\ g = [k \in 0..n |-> IF k = 0 THEN Base ELSE Longer(g[k - 1], ";")]
      /\ h = [k \in 0..m |-> IF k = 0 THEN Base ELSE Longer(h[k - 1], ";")]
  BY Zenon DEF OpenedTo
<1>2. /\ \A k \in 0..n : g[k] = IF k = 0 THEN Base ELSE Longer(g[k - 1], ";")
      /\ \A k \in 0..m : h[k] = IF k = 0 THEN Base ELSE Longer(h[k - 1], ";")
  BY <1>1, Zenon
<1>3. 0 \in T
  <2>1. 0 \in 0..n /\ 0 \in 0..m /\ 0 \in Nat
    OBVIOUS
  <2> QED
    BY <1>2, <2>1, Zenon
<1>4. ASSUME NEW k \in Nat, k \in T
      PROVE  k + 1 \in T
  <2>1. k + 1 \in Nat /\ k + 1 # 0 /\ (k + 1) - 1 = k
    OBVIOUS
  <2>2. k + 1 <= n => k <= n /\ k + 1 \in 0..n /\ k + 1 \in 0..m
    OBVIOUS
  <2> QED
    BY <1>2, <1>4, <2>1, <2>2, Zenon
<1> HIDE DEF T
<1>5. n \in T
  BY <1>3, <1>4, SetInduction, Zenon
<1>6. n <= n
  OBVIOUS
<1> QED
  BY <1>5, <1>6, Zenon DEF T

(* So Opened is what its definition says.                                  *)
LEMMA OpenedEquation == Opened[0] = Base /\ \A n \in Nat : Opened[n + 1] = Longer(Opened[n], ";")
<1> DEFINE Eq(f) == f = [n \in Nat |-> IF n = 0 THEN Base ELSE Longer(f[n - 1], ";")]
           G(n) == CHOOSE g : OpenedTo(g, n)
           F == [n \in Nat |-> G(n)[n]]
<1>1. \A n \in Nat : OpenedTo(G(n), n)
  BY OpenedToExists, Zenon
<1> HIDE DEF G
<1>2. ASSUME NEW n \in Nat
      PROVE  F[n] = IF n = 0 THEN Base ELSE Longer(F[n - 1], ";")
  <2>1. G(n) = [k \in 0..n |-> IF k = 0 THEN Base ELSE Longer(G(n)[k - 1], ";")]
    BY <1>1, Zenon DEF OpenedTo
  <2>2. n \in 0..n
    OBVIOUS
  <2>3. G(n)[n] = IF n = 0 THEN Base ELSE Longer(G(n)[n - 1], ";")
    BY <2>1, <2>2, Zenon
  <2>4. n # 0 => n - 1 \in Nat /\ n - 1 <= n
    OBVIOUS
  <2>5. n # 0 => G(n - 1)[n - 1] = G(n)[n - 1]
    BY <1>1, <2>4, OpenedToUnique, Zenon
  <2>6. n # 0 => F[n - 1] = G(n - 1)[n - 1]
    BY <2>4, Zenon
  <2>7. F[n] = G(n)[n]
    BY Zenon
  <2> HIDE DEF F
  <2> QED
    BY <2>3, <2>5, <2>6, <2>7, Zenon
<1>3. Eq(F)
  BY <1>2, Zenon
<1> HIDE DEF F
<1>4. Opened = CHOOSE f : Eq(f)
  BY DEF Opened, Base, Longer
<1>5. Eq(CHOOSE f : Eq(f))
  <2> HIDE DEF Eq
  <2> QED
    BY <1>3, Zenon
<1>6. Eq(Opened)
  <2> HIDE DEF Eq
  <2> QED
    BY <1>4, <1>5, Zenon
<1>7. \A n \in Nat : Opened[n] = IF n = 0 THEN Base ELSE Longer(Opened[n - 1], ";")
  BY <1>6, Zenon
<1>8. 0 \in Nat /\ \A n \in Nat : n + 1 \in Nat /\ n + 1 # 0 /\ (n + 1) - 1 = n
  OBVIOUS
<1> QED
  BY <1>7, <1>8, Zenon
-----------------------------------------------------------------------------
(* Sequences are equal if their elements are.                              *)
LEMMA SeqEqual ==
  ASSUME NEW S, NEW s \in Seq(S), NEW r \in Seq(S), NEW n, Len(s) = n, Len(r) = n,
         \A i \in 1..n : s[i] = r[i]
  PROVE  s = r
OBVIOUS

(* What Append adds.                                                       *)
LEMMA AppendFacts ==
  ASSUME NEW S, NEW s \in Seq(S), NEW a \in S
  PROVE  /\ Append(s, a) \in Seq(S) /\ Len(Append(s, a)) = Len(s) + 1
         /\ Append(s, a)[Len(Append(s, a))] = a /\ s \o <<a>> = Append(s, a)
OBVIOUS

(* Two ways to put a byte or a parameter at the end that are the same.     *)
SamePut(s, a, r, b) == Append(s, a) = Append(r, b)
SamePutParam(s, q, r, w) == s \o q = r \o w

(* What Append adds can be told from the result.                           *)
LEMMA AppendEqual ==
  ASSUME NEW S, NEW s \in Seq(S), NEW r \in Seq(S), NEW a \in S, NEW b \in S, SamePut(s, a, r, b)
  PROVE  s = r /\ a = b
<1> USE DEF SamePut
<1>1. Len(Append(s, a)) = Len(s) + 1 /\ Len(Append(r, b)) = Len(r) + 1
  OBVIOUS
<1>2. Len(s) = Len(r)
  BY <1>1
<1>3. a = b
  <2>1. Append(s, a)[Len(Append(s, a))] = a /\ Append(r, b)[Len(Append(r, b))] = b
    BY AppendFacts, Zenon
  <2> QED
    BY <2>1, Zenon
<1>4. ASSUME NEW i \in 1..Len(s)
      PROVE  s[i] = r[i]
  <2>1. Append(s, a)[i] = s[i] /\ Append(r, b)[i] = r[i]
    BY <1>2
  <2> QED
    BY <2>1, Zenon
<1>5. s = r
  BY <1>2, <1>4
<1> QED
  BY <1>3, <1>5, Zenon

(* The bytes of print!, of records and of escape sequences.                *)
AllBytes == Bytes \cup RecordBytes \cup {"=", ";", "4", "7"}

(* A parameter is a digit, or a digit after a byte that is none.           *)
Short(q) == \E d \in {"0", "1"} : q = <<d>>
Long(q) == \E y \in {"3", "4", "="}, d \in DOMAIN Digit : q = <<y, d>>

(* All parameters are of these kinds.                                      *)
LEMMA ParamCases ==
  /\ \A q \in Params : Short(q) \/ Long(q)
  /\ DOMAIN Digit \subseteq AllBytes
  /\ {"0", "1", "3", "4", "=", ";", "m", "ESC", "["} \subseteq AllBytes
<1>1. DOMAIN Digit = {"0", "1", "2", "3", "4", "5", "6", "7"}
  BY Zenon DEF Digit
<1>2. /\ DOMAIN Digit \subseteq AllBytes
      /\ {"0", "1", "3", "4", "=", ";", "m", "ESC", "["} \subseteq AllBytes
  BY <1>1, Zenon DEF AllBytes, RecordBytes
<1>3. \A y \in {"3", "4"}, d \in DOMAIN Digit : Long(<<y, d>>)
  BY Zenon DEF Long
<1>4. Short(<<"0">>) /\ Short(<<"1">>) /\ Long(<<"=", "1">>)
  BY <1>1, Zenon DEF Short, Long
<1>5. \A q \in {"3", "4"} \X DOMAIN Digit : Long(q)
  BY <1>3
<1> QED
  BY <1>2, <1>4, <1>5, Zenon DEF Params

(* What a parameter adds to bytes b.                                       *)
LEMMA PutParam ==
  ASSUME NEW b \in Seq(AllBytes), NEW q \in Params
  PROVE  /\ b \o q \in Seq(AllBytes) /\ Len(b \o q) >= Len(b) + 1
         /\ Short(q) => \E d \in {"0", "1"} : q = <<d>> /\ b \o q = Append(b, d)
         /\ Long(q) => \E y \in {"3", "4", "="}, d \in DOMAIN Digit :
                          q = <<y, d>> /\ b \o q = Append(Append(b, y), d)
<1> DEFINE S == AllBytes
<1>1. b \in Seq(S)
  OBVIOUS
<1>2. "0" \in S /\ "1" \in S /\ {"3", "4", "="} \subseteq S /\ DOMAIN Digit \subseteq S
  BY ParamCases, Zenon
<1> HIDE DEF S
<1>3. ASSUME NEW d \in {"0", "1"}, q = <<d>>
      PROVE  b \o q = Append(b, d) /\ b \o q \in Seq(S) /\ Len(b \o q) = Len(b) + 1
  <2>1. d \in S
    BY <1>2, Zenon
  <2>2. b \o <<d>> = Append(b, d) /\ Append(b, d) \in Seq(S) /\ Len(Append(b, d)) = Len(b) + 1
    BY <1>1, <2>1
  <2> QED
    BY <1>3, <2>2, Zenon
<1>4. ASSUME NEW y \in {"3", "4", "="}, NEW d \in DOMAIN Digit, q = <<y, d>>
      PROVE  b \o q = Append(Append(b, y), d) /\ b \o q \in Seq(S) /\ Len(b \o q) = Len(b) + 1 + 1
  <2>1. y \in S /\ d \in S
    BY <1>2, Zenon
  <2>2. Append(b, y) \in Seq(S) /\ Len(Append(b, y)) = Len(b) + 1
    BY <1>1, <2>1, AppendFacts, Zenon
  <2>3. b \o <<y, d>> = Append(Append(b, y), d)
    BY <1>1, <2>1
  <2>4. /\ Append(Append(b, y), d) \in Seq(S)
        /\ Len(Append(Append(b, y), d)) = Len(Append(b, y)) + 1
    BY <2>1, <2>2, AppendFacts, Zenon
  <2> QED
    BY <1>4, <2>2, <2>3, <2>4, Zenon
<1>5. Len(b) \in Nat
  BY <1>1
<1>6. Short(q) => b \o q \in Seq(S) /\ Len(b \o q) = Len(b) + 1
  BY <1>3, Zenon DEF Short
<1>7. Long(q) => b \o q \in Seq(S) /\ Len(b \o q) = Len(b) + 1 + 1
  BY <1>4, Zenon DEF Long
<1>8. Short(q) \/ Long(q)
  BY ParamCases, Zenon
<1>9. b \o q \in Seq(S) /\ Len(b \o q) >= Len(b) + 1
  <2>1. CASE Short(q)
    BY <1>5, <1>6, <2>1
  <2>2. CASE Long(q)
    BY <1>5, <1>7, <2>2
  <2> QED
    BY <1>8, <2>1, <2>2, Zenon
<1>10. Short(q) => \E d \in {"0", "1"} : q = <<d>> /\ b \o q = Append(b, d)
  BY <1>3, Zenon DEF Short
<1>11. Long(q) => \E y \in {"3", "4", "="}, d \in DOMAIN Digit :
                     q = <<y, d>> /\ b \o q = Append(Append(b, y), d)
  BY <1>4, Zenon DEF Long
<1> QED
  BY <1>9, <1>10, <1>11, Zenon DEF S
(* What is in Longer.                                                      *)
LEMMA LongerMembers ==
  ASSUME NEW X, NEW x
  PROVE  /\ \A o \in Longer(X, x) : \E r \in X, q \in Params : o = Extended(r, q, x)
         /\ \A r \in X, q \in Params : Extended(r, q, x) \in Longer(X, x)
BY DEF Longer

(* The bytes of a beginning with n parameters.                             *)
Begins(b, n) ==
  b \in Seq(AllBytes) /\ Len(b) >= 2 + 2 * n /\ b[Len(b)] \in {"[", ";"}

(* Opened has such bytes only.                                             *)
LEMMA OpenedBegins == \A n \in Nat : \A o \in Opened[n] : Begins(o.bytes, n)
<1> DEFINE T == {n \in Nat : \A o \in Opened[n] : Begins(o.bytes, n)}
<1>1. 0 \in T
  <2> SUFFICES ASSUME NEW o \in Opened[0]
               PROVE  Begins(o.bytes, 0)
    BY Zenon
  <2>1. o.bytes = <<"ESC", "[">>
    <3>1. o \in Base
      BY OpenedEquation, Zenon
    <3> QED
      BY <3>1 DEF Base
  <2>2. "ESC" \in AllBytes /\ "[" \in AllBytes
    BY ParamCases, Zenon
  <2>3. <<"ESC", "[">> \in Seq(AllBytes) /\ Len(<<"ESC", "[">>) = 2 /\ <<"ESC", "[">>[2] = "["
    BY <2>2
  <2> QED
    BY <2>1, <2>3, SMTT(60) DEF Begins
<1>2. ASSUME NEW n \in Nat, n \in T
      PROVE  n + 1 \in T
  <2> SUFFICES ASSUME NEW o \in Opened[n + 1]
               PROVE  Begins(o.bytes, n + 1)
    <3>1. n + 1 \in Nat
      OBVIOUS
    <3> QED
      BY <3>1, Zenon
  <2>1. PICK r \in Opened[n], q \in Params : o = Extended(r, q, ";")
    <3>1. o \in Longer(Opened[n], ";")
      BY OpenedEquation, Zenon
    <3> QED
      BY <3>1, LongerMembers, Zenon
  <2>2. Begins(r.bytes, n)
    BY <1>2, Zenon
  <2> DEFINE b == r.bytes \o q
  <2>3. b \in Seq(AllBytes) /\ Len(b) >= Len(r.bytes) + 1 /\ Len(r.bytes) \in Nat
    <3>1. r.bytes \in Seq(AllBytes)
      BY <2>2, Zenon DEF Begins
    <3>2. Len(r.bytes) \in Nat
      BY <3>1
    <3> QED
      BY <3>1, <3>2, PutParam, Zenon
  <2>4. o.bytes = Append(b, ";")
    BY <2>1, Zenon DEF Extended
  <2> HIDE DEF b
  <2>5. /\ Append(b, ";") \in Seq(AllBytes) /\ Len(Append(b, ";")) = Len(b) + 1
        /\ Append(b, ";")[Len(Append(b, ";"))] = ";"
    BY <2>3, ParamCases, AppendFacts, Zenon
  <2>6. Len(r.bytes) >= 2 + 2 * n
    BY <2>2, Zenon DEF Begins
  <2>7. Len(b) \in Nat
    BY <2>3
  <2>8. ASSUME NEW i \in Nat, NEW j \in Nat, i >= 2 + 2 * n, j >= i + 1
        PROVE  j + 1 >= 2 + 2 * (n + 1)
    BY <2>8
  <2>9. Len(o.bytes) >= 2 + 2 * (n + 1)
    BY <2>3, <2>4, <2>5, <2>6, <2>7, <2>8, Zenon
  <2> QED
    BY <2>4, <2>5, <2>9, Zenon DEF Begins
<1> HIDE DEF T
<1>3. \A n \in Nat : n \in T
  BY <1>1, <1>2, SetInduction, Zenon
<1> QED
  BY <1>3, Zenon DEF T

(* Where a beginning ends can be told: its last byte is in no parameter    *)
(* but in the last place.                                                  *)
LEMMA ParamUnique ==
  ASSUME NEW n \in Nat, NEW m \in Nat, NEW b, NEW c, Begins(b, n), Begins(c, m),
         NEW q \in Params, NEW r \in Params, SamePutParam(b, q, c, r)
  PROVE  b = c /\ q = r
<1>0. b \o q = c \o r
  BY Zenon DEF SamePutParam
<1>1. b \in Seq(AllBytes) /\ c \in Seq(AllBytes)
  BY Zenon DEF Begins
<1>2. ASSUME NEW e \in Seq(AllBytes), NEW y \in {"3", "4", "="}
      PROVE  Append(e, y) # b /\ Append(e, y) # c
  <2>1. Append(e, y)[Len(Append(e, y))] = y
    <3>1. y \in AllBytes
      BY ParamCases, Zenon
    <3> QED
      BY <3>1
  <2>2. y \notin {"[", ";"}
    OBVIOUS
  <2> QED
    BY <2>1, <2>2, Zenon DEF Begins
<1>3. /\ \A e \in Seq(AllBytes), y \in AllBytes : Append(e, y) \in Seq(AllBytes)
      /\ \A y \in {"0", "1", "3", "4", "="} \cup DOMAIN Digit : y \in AllBytes
      /\ \A e, g \in Seq(AllBytes), y, z \in AllBytes : SamePut(e, y, g, z) => e = g /\ y = z
  <2>1. \A e \in Seq(AllBytes), y \in AllBytes : Append(e, y) \in Seq(AllBytes)
    BY AppendFacts, Zenon
  <2>2. \A e, g \in Seq(AllBytes), y, z \in AllBytes : SamePut(e, y, g, z) => e = g /\ y = z
    BY AppendEqual, Zenon
  <2>3. \A y \in {"0", "1", "3", "4", "="} \cup DOMAIN Digit : y \in AllBytes
    BY ParamCases, Zenon
  <2> QED
    BY <2>1, <2>2, <2>3, Zenon
<1>4. CASE Short(q) /\ Short(r)
  <2>1. PICK d \in {"0", "1"} : q = <<d>> /\ b \o q = Append(b, d)
    BY <1>1, <1>4, PutParam, Zenon
  <2>2. PICK a \in {"0", "1"} : r = <<a>> /\ c \o r = Append(c, a)
    BY <1>1, <1>4, PutParam, Zenon
  <2>3. SamePut(b, d, c, a) /\ a \in AllBytes /\ d \in AllBytes
    BY <1>0, <2>1, <2>2, <1>3, Zenon DEF SamePut
  <2>4. b = c /\ d = a
    BY <1>1, <1>3, <2>3, Zenon
  <2> QED
    BY <2>1, <2>2, <2>4, Zenon
<1>5. CASE Long(q) /\ Long(r)
  <2>1. PICK y \in {"3", "4", "="}, d \in DOMAIN Digit :
               q = <<y, d>> /\ b \o q = Append(Append(b, y), d)
    BY <1>1, <1>5, PutParam, Zenon
  <2>2. PICK z \in {"3", "4", "="}, a \in DOMAIN Digit :
               r = <<z, a>> /\ c \o r = Append(Append(c, z), a)
    BY <1>1, <1>5, PutParam, Zenon
  <2>3. /\ SamePut(Append(b, y), d, Append(c, z), a)
        /\ a \in AllBytes /\ d \in AllBytes /\ y \in AllBytes /\ z \in AllBytes
    BY <1>0, <2>1, <2>2, <1>3, Zenon DEF SamePut
  <2>4. Append(b, y) \in Seq(AllBytes) /\ Append(c, z) \in Seq(AllBytes)
    BY <1>1, <1>3, <2>3, Zenon
  <2>5. SamePut(b, y, c, z) /\ d = a
    <3>1. Append(b, y) = Append(c, z) /\ d = a
      BY <1>3, <2>3, <2>4, Zenon
    <3> QED
      BY <3>1, Zenon DEF SamePut
  <2>6. b = c /\ y = z
    BY <1>1, <1>3, <2>3, <2>5, Zenon
  <2> QED
    BY <2>1, <2>2, <2>5, <2>6, Zenon
<1>6. CASE Short(q) /\ Long(r)
  <2>1. PICK d \in {"0", "1"} : q = <<d>> /\ b \o q = Append(b, d)
    BY <1>1, <1>6, PutParam, Zenon
  <2>2. PICK z \in {"3", "4", "="}, a \in DOMAIN Digit :
               r = <<z, a>> /\ c \o r = Append(Append(c, z), a)
    BY <1>1, <1>6, PutParam, Zenon
  <2>3. SamePut(b, d, Append(c, z), a) /\ a \in AllBytes /\ d \in AllBytes /\ z \in AllBytes
    BY <1>0, <2>1, <2>2, <1>3, Zenon DEF SamePut
  <2>4. Append(c, z) \in Seq(AllBytes)
    BY <1>1, <1>3, <2>3, Zenon
  <2>5. b = Append(c, z)
    BY <1>1, <1>3, <2>3, <2>4, Zenon
  <2> QED
    BY <1>1, <1>2, <2>5, Zenon
<1>7. CASE Long(q) /\ Short(r)
  <2>1. PICK d \in {"0", "1"} : r = <<d>> /\ c \o r = Append(c, d)
    BY <1>1, <1>7, PutParam, Zenon
  <2>2. PICK z \in {"3", "4", "="}, a \in DOMAIN Digit :
               q = <<z, a>> /\ b \o q = Append(Append(b, z), a)
    BY <1>1, <1>7, PutParam, Zenon
  <2>3. SamePut(c, d, Append(b, z), a) /\ a \in AllBytes /\ d \in AllBytes /\ z \in AllBytes
    BY <1>0, <2>1, <2>2, <1>3, Zenon DEF SamePut
  <2>4. Append(b, z) \in Seq(AllBytes)
    BY <1>1, <1>3, <2>3, Zenon
  <2>5. c = Append(b, z)
    BY <1>1, <1>3, <2>3, <2>4, Zenon
  <2> QED
    BY <1>1, <1>2, <2>5, Zenon
<1> QED
  BY <1>4, <1>5, <1>6, <1>7, ParamCases, Zenon
(* Bytes are the beginning of a sequence in one way at most.               *)
LEMMA OpenedUnique ==
  \A n, m \in Nat : \A o \in Opened[n], r \in Opened[m] : o.bytes = r.bytes => o = r
<1> DEFINE T == {n \in Nat : \A m \in Nat : \A o \in Opened[n], r \in Opened[m] :
                               o.bytes = r.bytes => o = r}
<1>1. \A o \in Opened[0] : o = [bytes |-> <<"ESC", "[">>, asks |-> [style \in Styles |-> style]]
  BY OpenedEquation, Zenon DEF Base
<1>2. \A o \in Opened[0] : Len(o.bytes) = 2
  <2>1. \A o \in Opened[0] : o.bytes = <<"ESC", "[">>
    BY <1>1
  <2>2. Len(<<"ESC", "[">>) = 2
    OBVIOUS
  <2> QED
    BY <2>1, <2>2, Zenon
<1>3. ASSUME NEW m \in Nat, NEW r \in Opened[m]
      PROVE  Len(r.bytes) = 2 => m = 0
  <2>1. Len(r.bytes) >= 2 + 2 * m
    BY OpenedBegins, Zenon DEF Begins
  <2> DEFINE l == Len(r.bytes)
  <2> HIDE DEF l
  <2>2. l = 2 => m = 0
    BY <2>1 DEF l
  <2> QED
    BY <2>2, Zenon DEF l
<1>4. 0 \in T
  <2> SUFFICES ASSUME NEW m \in Nat, NEW o \in Opened[0], NEW r \in Opened[m], o.bytes = r.bytes
               PROVE  o = r
    <3>1. 0 \in Nat
      OBVIOUS
    <3> QED
      BY <3>1, Zenon
  <2>1. m = 0
    BY <1>2, <1>3, Zenon
  <2> QED
    BY <1>1, <2>1, Zenon
<1>5. ASSUME NEW n \in Nat, n \in T
      PROVE  n + 1 \in T
  <2>0. n + 1 \in Nat /\ n + 1 # 0 /\ 0 \in Nat
    OBVIOUS
  <2> SUFFICES ASSUME NEW m \in Nat, NEW o \in Opened[n + 1], NEW r \in Opened[m], o.bytes = r.bytes
               PROVE  o = r
    BY <2>0, Zenon
  <2>1. m # 0
    BY <1>2, <1>3, <2>0, Zenon
  <2>2. m - 1 \in Nat /\ (m - 1) + 1 = m
    BY <2>1
  <2>3. PICK o1 \in Opened[n], q \in Params : o = Extended(o1, q, ";")
    <3>1. o \in Longer(Opened[n], ";")
      BY OpenedEquation, Zenon
    <3> QED
      BY <3>1, LongerMembers, Zenon
  <2>4. PICK r1 \in Opened[m - 1], w \in Params : r = Extended(r1, w, ";")
    <3>1. r \in Longer(Opened[m - 1], ";")
      BY <2>2, OpenedEquation, Zenon
    <3> QED
      BY <3>1, LongerMembers, Zenon
  <2> DEFINE b == o1.bytes
             c == r1.bytes
  <2>5. Begins(b, n) /\ Begins(c, m - 1)
    BY <2>2, OpenedBegins, Zenon
  <2>6. SamePut(b \o q, ";", c \o w, ";")
    BY <2>3, <2>4, Zenon DEF Extended, SamePut
  <2> HIDE DEF b, c
  <2>7. b \o q \in Seq(AllBytes) /\ c \o w \in Seq(AllBytes) /\ ";" \in AllBytes
    BY <2>5, PutParam, ParamCases, Zenon DEF Begins
  <2>8. SamePutParam(b, q, c, w)
    BY <2>6, <2>7, AppendEqual, Zenon DEF SamePutParam
  <2>9. b = c /\ q = w
    BY <2>2, <2>5, <2>8, ParamUnique, Zenon
  <2>10. o1 = r1
    BY <1>5, <2>2, <2>9, Zenon DEF b, c
  <2> QED
    BY <2>3, <2>4, <2>9, <2>10, Zenon
<1> HIDE DEF T
<1>6. \A n \in Nat : n \in T
  BY <1>4, <1>5, SetInduction, Zenon
<1> QED
  BY <1>6, Zenon DEF T

-----------------------------------------------------------------------------
(* s is a beginning and the bytes z of a parameter, and the parameters of  *)
(* the beginning ask for next_style.                                       *)
Opens(p, s) == \E n \in Nat : \E o \in Opened[n] : s = o.bytes /\ p.next_style = o.asks[p.style]
OpensThen(p, s, z) ==
  \E n \in Nat : \E o \in Opened[n] : s = Append(o.bytes, z) /\ p.next_style = o.asks[p.style]
OpensParam(p, s) ==
  \E n \in Nat : \E o \in Opened[n], q \in Params :
    s = o.bytes \o q /\ p.next_style = Asked(o.asks[p.style], q)

(* What the parser p has seen of a sequence, s, and made of it.            *)
Parsed(p, s) ==
  /\ p.state = "Esc" => s = <<>> /\ p.next_style = p.style
  /\ p.state = "Bracket" => s = <<"ESC">> /\ p.next_style = p.style
  /\ p.state = "Parse" => Opens(p, s)
  /\ p.state = "FgColor" => OpensThen(p, s, "3")
  /\ p.state = "BgColor" => OpensThen(p, s, "4")
  /\ p.state = "Equals" => OpensThen(p, s, "=")
  /\ p.state = "EndVal" => OpensParam(p, s)
(* What each parameter asks for.                                           *)
LEMMA AskedFacts ==
  ASSUME NEW style
  PROVE  /\ Asked(style, <<"0">>) = White
         /\ Asked(style, <<"1">>) = [style EXCEPT !.bright = TRUE]
         /\ Asked(style, <<"=", "1">>) = [style EXCEPT !.bright = FALSE]
         /\ \A d \in DOMAIN Digit : /\ Asked(style, <<"3", d>>) = WithFg(style, d)
                                    /\ Asked(style, <<"4", d>>) = WithBg(style, d)
<1>1. Asked(style, <<"0">>) = White
  BY DEF Asked
<1>2. Asked(style, <<"1">>) = [style EXCEPT !.bright = TRUE]
  BY DEF Asked
<1>3. Asked(style, <<"=", "1">>) = [style EXCEPT !.bright = FALSE]
  BY DEF Asked
<1>4. ASSUME NEW d \in DOMAIN Digit
      PROVE  Asked(style, <<"3", d>>) = WithFg(style, d) /\ Asked(style, <<"4", d>>) = WithBg(style, d)
  BY DEF Asked
<1> QED
  BY <1>1, <1>2, <1>3, <1>4, Zenon

(* A byte keeps Parsed, in each state of the parser.                       *)
LEMMA ParsedNext ==
  ASSUME NEW p \in Parsers, NEW s \in Seq(AllBytes), Parsed(p, s), NEW x \in AllBytes
  PROVE  Parsed(After(p, x), IF After(p, x).state = "Esc" THEN <<>> ELSE Append(s, x))
<1> DEFINE a == After(p, x)
           r == Append(s, x)
           t == IF a.state = "Esc" THEN <<>> ELSE r
<1> SUFFICES Parsed(a, t)
  BY Zenon
<1>0. p.style \in Styles
  BY Zenon DEF Parsers
<1>1. /\ \A q \in {<<"0">>, <<"1">>, <<"=", "1">>} : q \in Params
      /\ \A d \in DOMAIN Digit : <<"3", d>> \in Params /\ <<"4", d>> \in Params
  BY DEF Params
<1>2. "Esc" \notin {"Bracket", "Parse", "FgColor", "BgColor", "Equals", "EndVal"}
  BY Zenon
<1> HIDE DEF a, r
<1>3. Drops(p, a) => Parsed(a, t)
  BY Zenon DEF Drops, Goes, Parsed
<1>4. CASE p.state = "Esc"
  <2>1. Goes(p, a, IF x = "ESC" THEN "Bracket" ELSE "Esc", p.next_style)
    BY <1>4, Transitions, Zenon DEF a
  <2>2. s = <<>> /\ p.next_style = p.style
    BY <1>4, Zenon DEF Parsed
  <2>3. x # "ESC" => Drops(p, a)
    BY <2>1, <2>2, Zenon DEF Drops
  <2>4. ASSUME x = "ESC"
        PROVE  Parsed(a, t)
    <3>1. a.state = "Bracket" /\ a.next_style = a.style
      BY <2>1, <2>2, <2>4, Zenon DEF Goes
    <3>2. r = <<"ESC">>
      BY <2>2, <2>4 DEF r
    <3> QED
      BY <3>1, <3>2, Zenon DEF Parsed
  <2> QED
    BY <1>3, <2>3, <2>4, Zenon
<1>5. CASE p.state = "Bracket"
  <2>1. Goes(p, a, IF x = "[" THEN "Parse" ELSE "Esc", p.next_style)
    BY <1>5, Transitions, Zenon DEF a
  <2>2. s = <<"ESC">> /\ p.next_style = p.style
    BY <1>5, Zenon DEF Parsed
  <2>3. x # "[" => Drops(p, a)
    BY <2>1, <2>2, Zenon DEF Drops
  <2>4. ASSUME x = "["
        PROVE  Parsed(a, t)
    <3>1. a.state = "Parse" /\ a.next_style = a.style /\ a.style = p.style
      BY <2>1, <2>2, <2>4, Zenon DEF Goes
    <3>2. r = <<"ESC", "[">>
      <4>1. ASSUME NEW u, NEW v
            PROVE  Append(<<u>>, v) = <<u, v>>
        <5>1. <<u>> \in Seq({u, v}) /\ v \in {u, v} /\ <<u, v>> \in Seq({u, v})
          OBVIOUS
        <5>2. Append(<<u>>, v) \in Seq({u, v}) /\ Len(Append(<<u>>, v)) = 2 /\ Len(<<u, v>>) = 2
          BY <5>1
        <5>3. \A i \in 1..2 : Append(<<u>>, v)[i] = <<u, v>>[i]
          BY <5>1
        <5> QED
          BY <5>1, <5>2, <5>3, SeqEqual, Zenon
      <4> QED
        BY <2>2, <2>4, <4>1, Zenon DEF r
    <3> DEFINE o == [bytes |-> <<"ESC", "[">>, asks |-> [style \in Styles |-> style]]
    <3>3. o \in Opened[0]
      BY OpenedEquation, Zenon DEF Base
    <3>4. o.bytes = r /\ o.asks[a.style] = a.next_style
      BY <1>0, <3>1, <3>2, Zenon
    <3>5. 0 \in Nat
      OBVIOUS
    <3> HIDE DEF o
    <3>6. Opens(a, r)
      BY <3>3, <3>4, <3>5, Zenon DEF Opens
    <3> QED
      BY <3>1, <3>6, Zenon DEF Parsed
  <2> QED
    BY <1>3, <2>3, <2>4, Zenon
<1>6. CASE p.state = "Parse"
  <2>1. PICK n \in Nat : \E o \in Opened[n] : s = o.bytes /\ p.next_style = o.asks[p.style]
    BY <1>6, Zenon DEF Parsed, Opens
  <2>2. PICK o \in Opened[n] : s = o.bytes /\ p.next_style = o.asks[p.style]
    BY <2>1, Zenon
  <2>3. ASSUME NEW state, Goes(p, a, state, p.next_style)
        PROVE  OpensThen(a, r, x)
    BY <2>2, <2>3, Zenon DEF Goes, OpensThen, r
  <2>4. ASSUME x = "3" \/ x = "4" \/ x = "="
        PROVE  Parsed(a, t)
    <3>1. Goes(p, a, IF x = "3" THEN "FgColor" ELSE IF x = "4" THEN "BgColor" ELSE "Equals", p.next_style)
      BY <1>6, <2>4, Transitions, Zenon DEF a
    <3>2. OpensThen(a, r, x)
      BY <2>3, <3>1, Zenon
    <3>3. a.state = IF x = "3" THEN "FgColor" ELSE IF x = "4" THEN "BgColor" ELSE "Equals"
      BY <3>1, Zenon DEF Goes
    <3> QED
      BY <2>4, <3>2, <3>3, Zenon DEF Parsed
  <2>5. ASSUME x \in {"0", "1"}
        PROVE  Parsed(a, t)
    <3>1. Goes(p, a, "EndVal", Asked(p.next_style, <<x>>))
      <4>1. CASE x = "0"
        BY <1>6, <4>1, Transitions, AskedFacts, Zenon DEF a
      <4>2. CASE x = "1"
        <5>1. Goes(p, a, "EndVal", [p.next_style EXCEPT !.bright = TRUE])
          BY <1>6, <4>2, Transitions, Zenon DEF a
        <5> QED
          BY <4>2, <5>1, AskedFacts, Zenon
      <4> QED
        BY <2>5, <4>1, <4>2, Zenon
    <3>2. r = o.bytes \o <<x>> /\ <<x>> \in Params
      <4>1. s \o <<x>> = Append(s, x)
        BY AppendFacts, Zenon
      <4> QED
        BY <1>1, <2>2, <2>5, <4>1, Zenon DEF r
    <3>3. OpensParam(a, r)
      BY <2>2, <3>1, <3>2, Zenon DEF OpensParam, Goes
    <3> QED
      BY <3>1, <3>3, Zenon DEF Parsed, Goes
  <2>6. x \notin {"3", "4", "=", "0", "1"} => Drops(p, a)
    BY <1>6, Transitions, Zenon DEF a
  <2> QED
    BY <1>3, <2>4, <2>5, <2>6, Zenon
<1>7. ASSUME NEW y \in {"3", "4", "="}, OpensThen(p, s, y), <<y, x>> \in Params,
             Goes(p, a, "EndVal", Asked(p.next_style, <<y, x>>))
      PROVE  Parsed(a, t)
  <2>1. PICK n \in Nat : \E o \in Opened[n] : s = Append(o.bytes, y) /\ p.next_style = o.asks[p.style]
    BY <1>7, Zenon DEF OpensThen
  <2>2. PICK o \in Opened[n] : s = Append(o.bytes, y) /\ p.next_style = o.asks[p.style]
    BY <2>1, Zenon
  <2> DEFINE b == o.bytes
             S == AllBytes
  <2>3. b \in Seq(S) /\ y \in S /\ x \in S
    BY OpenedBegins, ParamCases, Zenon DEF Begins
  <2> HIDE DEF b, S
  <2>4. b \o <<y, x>> = Append(Append(b, y), x)
    BY <2>3
  <2>5. r = o.bytes \o <<y, x>>
    BY <2>2, <2>4, Zenon DEF r, b
  <2>6. OpensParam(a, r)
    BY <1>7, <2>2, <2>5, Zenon DEF OpensParam, Goes
  <2> QED
    BY <1>7, <2>6, Zenon DEF Parsed, Goes
<1>8. CASE p.state = "FgColor"
  <2>1. OpensThen(p, s, "3")
    BY <1>8, Zenon DEF Parsed
  <2>2. IF x \in DOMAIN Digit THEN Goes(p, a, "EndVal", WithFg(p.next_style, x)) ELSE Drops(p, a)
    BY <1>8, Transitions, Zenon DEF a
  <2>3. x \in DOMAIN Digit => Asked(p.next_style, <<"3", x>>) = WithFg(p.next_style, x)
    BY AskedFacts, Zenon
  <2> QED
    BY <1>1, <1>3, <1>7, <2>1, <2>2, <2>3, Zenon
<1>9. CASE p.state = "BgColor"
  <2>1. OpensThen(p, s, "4")
    BY <1>9, Zenon DEF Parsed
  <2>2. IF x \in DOMAIN Digit THEN Goes(p, a, "EndVal", WithBg(p.next_style, x)) ELSE Drops(p, a)
    BY <1>9, Transitions, Zenon DEF a
  <2>3. x \in DOMAIN Digit => Asked(p.next_style, <<"4", x>>) = WithBg(p.next_style, x)
    BY AskedFacts, Zenon
  <2> QED
    BY <1>1, <1>3, <1>7, <2>1, <2>2, <2>3, Zenon
<1>10. CASE p.state = "Equals"
  <2>1. OpensThen(p, s, "=")
    BY <1>10, Zenon DEF Parsed
  <2>2. IF x = "1" THEN Goes(p, a, "EndVal", [p.next_style EXCEPT !.bright = FALSE]) ELSE Drops(p, a)
    BY <1>10, Transitions, Zenon DEF a
  <2>3. Asked(p.next_style, <<"=", "1">>) = [p.next_style EXCEPT !.bright = FALSE]
    BY AskedFacts, Zenon
  <2> QED
    BY <1>1, <1>3, <1>7, <2>1, <2>2, <2>3, Zenon
<1>11. CASE p.state = "EndVal"
  <2>1. PICK n \in Nat : \E o \in Opened[n], q \in Params :
               s = o.bytes \o q /\ p.next_style = Asked(o.asks[p.style], q)
    BY <1>11, Zenon DEF Parsed, OpensParam
  <2>2. PICK o \in Opened[n], q \in Params : s = o.bytes \o q /\ p.next_style = Asked(o.asks[p.style], q)
    BY <2>1, Zenon
  <2>3. ASSUME x = ";"
        PROVE  Parsed(a, t)
    <3>1. Goes(p, a, "Parse", p.next_style)
      BY <1>11, <2>3, Transitions, Zenon DEF a
    <3> DEFINE e == Extended(o, q, ";")
    <3>2. e \in Opened[n + 1]
      <4>1. e \in Longer(Opened[n], ";")
        BY LongerMembers, Zenon
      <4> QED
        BY <4>1, OpenedEquation, Zenon
    <3>3. e.bytes = r /\ e.asks[p.style] = p.next_style
      BY <1>0, <2>2, <2>3, Zenon DEF Extended, r
    <3>4. n + 1 \in Nat
      OBVIOUS
    <3> HIDE DEF e
    <3>5. Opens(a, r)
      BY <3>1, <3>2, <3>3, <3>4, Zenon DEF Opens, Goes
    <3> QED
      BY <3>1, <3>5, Zenon DEF Parsed, Goes
  <2>4. ASSUME x = "m"
        PROVE  Parsed(a, t)
    <3>1. a.state = "Esc" /\ a.style = p.next_style /\ a.next_style = p.next_style
      BY <1>11, <2>4, Transitions, Zenon DEF a
    <3> QED
      BY <3>1, Zenon DEF Parsed
  <2>5. x \notin {";", "m"} => Drops(p, a)
    BY <1>11, Transitions, Zenon DEF a
  <2> QED
    BY <1>3, <2>3, <2>4, <2>5, Zenon
<1>12. p.state \in ParserStates
  BY Zenon DEF Parsers
<1> QED
  BY <1>4, <1>5, <1>6, <1>8, <1>9, <1>10, <1>11, <1>12, Zenon DEF ParserStates
(* After whole parameters the parser is in EndVal.                         *)
LEMMA ParamEnds ==
  ASSUME NEW p \in Parsers, NEW s \in Seq(AllBytes), Parsed(p, s),
         NEW m \in Nat, NEW o \in Opened[m], NEW q \in Params, s = o.bytes \o q
  PROVE  p.state = "EndVal"
<1> DEFINE b == o.bytes
<1>1. b \in Seq(AllBytes) /\ Len(b) >= 2 + 2 * m
  BY OpenedBegins, Zenon DEF Begins
<1>2. Len(s) >= 3
  <2>1. Len(b \o q) >= Len(b) + 1
    BY <1>1, PutParam, Zenon
  <2>2. Len(b) \in Nat /\ Len(s) \in Nat
    BY <1>1
  <2>3. \A i, j \in Nat : i >= 2 + 2 * m /\ j >= i + 1 => j >= 3
    OBVIOUS
  <2> QED
    BY <1>1, <2>1, <2>2, <2>3, Zenon
<1>3. s = b \o q
  OBVIOUS
<1>4. \A e \in Seq(AllBytes), y \in AllBytes :
        Append(e, y) \in Seq(AllBytes) /\ Append(e, y)[Len(Append(e, y))] = y
  BY AppendFacts, Zenon
<1>5. /\ \A y \in {"0", "1", "3", "4", "="} : y \in AllBytes
      /\ \A d \in DOMAIN Digit : d \in AllBytes /\ d # "[" /\ d # ";"
  <2>1. \A d \in DOMAIN Digit : d # "[" /\ d # ";"
    BY Zenon DEF Digit
  <2> QED
    BY <2>1, ParamCases, Zenon
<1>6. Short(q) => \E d \in {"0", "1"} : s = Append(b, d)
  BY <1>1, <1>3, PutParam, Zenon
<1>7. Long(q) => \E y \in {"3", "4", "="}, d \in DOMAIN Digit : s = Append(Append(b, y), d)
  <2>1. Long(q) => \E y \in {"3", "4", "="}, d \in DOMAIN Digit :
                      q = <<y, d>> /\ b \o q = Append(Append(b, y), d)
    BY <1>1, PutParam, Zenon
  <2> QED
    BY <1>3, <2>1, Zenon
<1>8. Short(q) \/ Long(q)
  BY ParamCases, Zenon
<1> HIDE DEF b
<1>9. CASE p.state \in {"Esc", "Bracket"}
  <2>1. s = <<>> \/ s = <<"ESC">>
    BY <1>9, Zenon DEF Parsed
  <2>2. Len(<<>>) = 0 /\ Len(<<"ESC">>) = 1 /\ ~(0 >= 3) /\ ~(1 >= 3)
    OBVIOUS
  <2> QED
    BY <1>2, <2>1, <2>2, Zenon
<1>10. CASE p.state = "Parse"
  <2>1. s[Len(s)] \in {"[", ";"}
    BY <1>10, OpenedBegins, Zenon DEF Parsed, Opens, Begins
  <2>2. CASE Short(q)
    <3>1. PICK d \in {"0", "1"} : s = Append(b, d)
      BY <1>6, <2>2, Zenon
    <3>2. s[Len(s)] = d
      BY <1>1, <1>4, <1>5, <3>1, Zenon
    <3> QED
      BY <2>1, <3>2, Zenon
  <2>3. CASE Long(q)
    <3>1. PICK y \in {"3", "4", "="}, d \in DOMAIN Digit : s = Append(Append(b, y), d)
      BY <1>7, <2>3, Zenon
    <3>2. Append(b, y) \in Seq(AllBytes)
      BY <1>1, <1>4, <1>5, Zenon
    <3>3. s[Len(s)] = d
      BY <1>4, <1>5, <3>1, <3>2, Zenon
    <3> QED
      BY <1>5, <2>1, <3>3, Zenon
  <2> QED
    BY <1>8, <2>2, <2>3, Zenon
<1>11. CASE p.state \in {"FgColor", "BgColor", "Equals"}
  <2>1. PICK z \in {"3", "4", "="} : OpensThen(p, s, z)
    BY <1>11, Zenon DEF Parsed
  <2>2. PICK n \in Nat : \E r \in Opened[n] : s = Append(r.bytes, z)
    BY <2>1, Zenon DEF OpensThen
  <2>3. PICK c : Begins(c, n) /\ s = Append(c, z)
    BY <2>2, OpenedBegins, Zenon
  <2>4. c \in Seq(AllBytes) /\ z \in AllBytes
    BY <1>5, <2>3, Zenon DEF Begins
  <2>5. CASE Short(q)
    <3>1. PICK d \in {"0", "1"} : s = Append(b, d)
      BY <1>6, <2>5, Zenon
    <3>2. SamePut(b, d, c, z) /\ d \in AllBytes
      BY <1>5, <2>3, <3>1, Zenon DEF SamePut
    <3>3. d = z
      BY <1>1, <2>4, <3>2, AppendEqual, Zenon
    <3> QED
      BY <3>3, Zenon
  <2>6. CASE Long(q)
    <3>1. PICK y \in {"3", "4", "="}, d \in DOMAIN Digit : s = Append(Append(b, y), d)
      BY <1>7, <2>6, Zenon
    <3>2. Append(b, y) \in Seq(AllBytes) /\ Append(b, y)[Len(Append(b, y))] = y
      BY <1>1, <1>4, <1>5, Zenon
    <3>3. SamePut(Append(b, y), d, c, z) /\ d \in AllBytes
      BY <1>5, <2>3, <3>1, Zenon DEF SamePut
    <3>4. Append(b, y) = c
      BY <2>4, <3>2, <3>3, AppendEqual, Zenon
    <3>5. y \in {"[", ";"}
      BY <2>3, <3>2, <3>4, Zenon DEF Begins
    <3> QED
      BY <3>5, Zenon
  <2> QED
    BY <1>8, <2>5, <2>6, Zenon
<1>12. p.state \in ParserStates
  BY Zenon DEF Parsers
<1> QED
  BY <1>9, <1>10, <1>11, <1>12, Zenon DEF ParserStates

(* The parser that RansidState::new leaves is outside a sequence.          *)
LEMMA NewParsed == Parsed(New, <<>>)
<1> DEFINE zero == [fg |-> 0, bright |-> FALSE, bg |-> 0]
           p == [state |-> "Esc", style |-> zero, next_style |-> zero]
           p1 == After(p, "ESC")
           p2 == After(p1, "[")
           p3 == After(p2, "0")
           p4 == After(p3, "m")
<1>1. p \in Parsers /\ p.state = "Esc"
  BY DEF Parsers, ParserStates, Styles
<1> HIDE DEF p
<1>2. p1 \in Parsers /\ p2 \in Parsers /\ p3 \in Parsers
  BY <1>1, AfterTyped, Zenon
<1> HIDE DEF p1, p2, p3, p4
<1>3. p1.state = "Bracket"
  BY <1>1, AfterFacts, Zenon DEF p1
<1>4. p2.state = "Parse"
  BY <1>2, <1>3, AfterFacts, Zenon DEF p2
<1>5. p3.state = "EndVal"
  BY <1>2, <1>4, AfterFacts, Zenon DEF p3
<1>6. p4.state = "Esc" /\ p4.style = p3.next_style /\ p4.next_style = p3.next_style
  BY <1>2, <1>5, Transitions, Zenon DEF p4
<1>7. New = p4
  BY Zenon DEF New, p, p1, p2, p3, p4
<1> QED
  BY <1>6, <1>7, Zenon DEF Parsed

(* Parsed, of the screen's parser.                                         *)
Parses == Parsed(ransid, seen)

(* A byte of print! or of a record keeps it.                               *)
LEMMA ConsumeParses ==
  ASSUME TypeOK, Parses, NEW x \in Bytes \cup RecordBytes, Consume(x)
  PROVE  Parses'
<1>1. ransid \in Parsers /\ x \in AllBytes
  BY Zenon DEF TypeOK, AllBytes
<1>2. seen \in Seq(AllBytes)
  <2>1. \A S, T : S \subseteq T => Seq(S) \subseteq Seq(T)
    OBVIOUS
  <2>2. Bytes \cup RecordBytes \subseteq AllBytes
    BY Zenon DEF AllBytes
  <2> QED
    BY <2>1, <2>2, Zenon DEF TypeOK
<1>3. Parsed(After(ransid, x), IF After(ransid, x).state = "Esc" THEN <<>> ELSE Append(seen, x))
  BY <1>1, <1>2, ParsedNext, Zenon DEF Parses
<1>4. Parsed(ransid', seen')
  BY <1>3, Zenon DEF Consume
<1> QED
  BY <1>4, Zenon DEF Parses
(* In every state of ransid_process the bytes seen are the part of an      *)
(* escape sequence that the state stands for, and next_style is what the   *)
(* parameters in it ask for.                                               *)
THEOREM SequencesParsed == Spec => []Parses
<1>1. Init => Parses
  BY NewParsed, Zenon DEF Init, Parses
<1>2. ASSUME IInv, Parses, [Next]_vars
      PROVE  Parses'
  <2>1. TypeOK
    BY <1>2, Zenon DEF IInv
  <2>2. ASSUME NEW x \in Bytes, PrintByte(x)
        PROVE  Parses'
    BY <1>2, <2>1, <2>2, ConsumeParses, Zenon DEF PrintByte
  <2>3. ASSUME NEW level \in 1..5, LogCall(level)
        PROVE  Parses'
    BY <1>2, <2>3, Zenon DEF LogCall, Parses
  <2>4. CASE LogByte
    <3>1. todo # <<>> /\ todo \in Seq(RecordBytes) /\ Consume(Head(todo))
      BY <2>1, <2>4, Zenon DEF LogByte, TypeOK
    <3>2. Head(todo) \in RecordBytes
      BY <3>1
    <3> QED
      BY <1>2, <2>1, <3>1, <3>2, ConsumeParses, Zenon
  <2>5. CASE UNCHANGED vars
    BY <1>2, <2>5, Zenon DEF Parses, vars
  <2> QED
    BY <1>2, <2>2, <2>3, <2>4, <2>5, Zenon DEF Next
<1>3. IInv /\ Parses /\ [Next]_vars => Parses'
  BY <1>2, Zenon
<1> QED
  BY <1>1, <1>3, LoggerInvariant, PTL DEF Spec

(* What is in Complete.                                                    *)
LEMMA CompleteMembers ==
  /\ \A c \in Complete : \E n \in Nat : \E o \in Opened[n], q \in Params : c = Extended(o, q, "m")
  /\ \A n \in 0..((MaxSeen - 4) \div 2) : \A o \in Opened[n], q \in Params :
       Extended(o, q, "m") \in Complete
<1> DEFINE N == 0..((MaxSeen - 4) \div 2)
           X == UNION {Opened[n] : n \in N}
<1>1. Complete = Longer(X, "m")
  BY DEF Complete, Longer
<1>2. \A n \in N : n \in Nat
  OBVIOUS
<1> HIDE DEF N
<1>3. (\A n \in N : \A o \in Opened[n] : o \in X) /\ \A o \in X : \E n \in N : o \in Opened[n]
  BY Zenon
<1> HIDE DEF X
<1>4. /\ \A o \in Longer(X, "m") : \E r \in X, q \in Params : o = Extended(r, q, "m")
      /\ \A r \in X, q \in Params : Extended(r, q, "m") \in Longer(X, "m")
  BY LongerMembers, Zenon
<1> QED
  BY <1>1, <1>2, <1>3, <1>4, Zenon DEF N

(* A byte that print! writes.                                              *)
LEMMA PrintByteApplies ==
  ASSUME TypeOK, Parses, NEW x \in Bytes, PrintByte(x)
  PROVE  IF Append(seen, x) \in CompleteBytes
         THEN \A c \in Complete : c.bytes = Append(seen, x) => ransid'.style = c.asks[ransid.style]
         ELSE ransid'.style = ransid.style
<1> DEFINE s == Append(seen, x)
<1>1. /\ ransid \in Parsers /\ x \in AllBytes /\ ransid' = After(ransid, x)
      /\ Len(seen) < MaxSeen /\ Parsed(ransid, seen) /\ ransid.style \in Styles
  BY Zenon DEF TypeOK, AllBytes, PrintByte, Consume, Parses, Parsers
<1>2. seen \in Seq(AllBytes)
  <2>1. \A S, T : S \subseteq T => Seq(S) \subseteq Seq(T)
    OBVIOUS
  <2>2. Bytes \cup RecordBytes \subseteq AllBytes
    BY Zenon DEF AllBytes
  <2> QED
    BY <2>1, <2>2, Zenon DEF TypeOK
<1>3. ASSUME ransid.state = "EndVal", x = "m"
      PROVE  s \in CompleteBytes
  <2>1. PICK n \in Nat : \E o \in Opened[n], q \in Params : seen = o.bytes \o q
    BY <1>1, <1>3, Zenon DEF Parsed, OpensParam
  <2>2. PICK o \in Opened[n], q \in Params : seen = o.bytes \o q
    BY <2>1, Zenon
  <2>3. n \in 0..((MaxSeen - 4) \div 2)
    <3> DEFINE b == o.bytes
    <3>1. b \in Seq(AllBytes) /\ Len(b) >= 2 + 2 * n
      BY OpenedBegins, Zenon DEF Begins
    <3>2. Len(seen) >= Len(b) + 1
      BY <2>2, <3>1, PutParam, Zenon
    <3>3. Len(b) \in Nat /\ Len(seen) \in Nat
      BY <1>2, <3>1
    <3>4. ASSUME NEW i \in Nat, NEW j \in Nat, i >= 2 + 2 * n, j >= i + 1, j < MaxSeen
          PROVE  n \in 0..((MaxSeen - 4) \div 2)
      BY <3>4, LoggerAssumption
    <3> HIDE DEF b
    <3> QED
      BY <1>1, <3>1, <3>2, <3>3, <3>4, Zenon
  <2> DEFINE c == Extended(o, q, "m")
  <2>4. c \in Complete
    BY <2>3, CompleteMembers, Zenon
  <2>5. c.bytes = s
    BY <1>3, <2>2, Zenon DEF Extended
  <2> HIDE DEF c
  <2> QED
    BY <2>4, <2>5, Zenon DEF CompleteBytes
<1>4. ASSUME NEW c \in Complete, c.bytes = s
      PROVE  ransid'.style = c.asks[ransid.style]
  <2>1. PICK n \in Nat : \E o \in Opened[n], q \in Params : c = Extended(o, q, "m")
    BY CompleteMembers, Zenon
  <2>2. PICK o \in Opened[n], q \in Params : c = Extended(o, q, "m")
    BY <2>1, Zenon
  <2> DEFINE b == o.bytes
  <2>3. Begins(b, n)
    BY OpenedBegins, Zenon
  <2>4. b \o q \in Seq(AllBytes) /\ "m" \in AllBytes
    BY <2>3, PutParam, ParamCases, Zenon DEF Begins
  <2>5. SamePut(seen, x, b \o q, "m")
    BY <1>4, <2>2, Zenon DEF Extended, SamePut
  <2>6. seen = b \o q /\ x = "m"
    <3> DEFINE e == b \o q
               y == "m"
    <3>1. e \in Seq(AllBytes) /\ SamePut(seen, x, e, y) /\ x \in AllBytes /\ y \in AllBytes
      BY <1>1, <2>4, <2>5, Zenon
    <3> HIDE DEF e, y
    <3>2. seen = e /\ x = y
      BY <1>2, <3>1, AppendEqual, Zenon
    <3> QED
      BY <3>2, Zenon DEF e, y
  <2>7. ransid.state = "EndVal"
    BY <1>1, <1>2, <2>6, ParamEnds, Zenon
  <2>8. ransid'.style = ransid.next_style
    BY <1>1, <2>6, <2>7, Transitions, Zenon
  <2>9. PICK m \in Nat : \E r \in Opened[m], w \in Params :
               seen = r.bytes \o w /\ ransid.next_style = Asked(r.asks[ransid.style], w)
    BY <1>1, <2>7, Zenon DEF Parsed, OpensParam
  <2>10. PICK r \in Opened[m], w \in Params :
               seen = r.bytes \o w /\ ransid.next_style = Asked(r.asks[ransid.style], w)
    BY <2>9, Zenon
  <2>11. SamePutParam(b, q, r.bytes, w) /\ Begins(r.bytes, m)
    BY <2>6, <2>10, OpenedBegins, Zenon DEF SamePutParam
  <2>12. b = r.bytes /\ q = w
    BY <2>3, <2>11, ParamUnique, Zenon
  <2>13. o = r
    BY <2>12, OpenedUnique, Zenon
  <2>14. c.asks[ransid.style] = Asked(o.asks[ransid.style], q)
    BY <1>1, <2>2, Zenon DEF Extended
  <2> QED
    BY <2>8, <2>10, <2>12, <2>13, <2>14, Zenon
<1>5. ASSUME s \notin CompleteBytes
      PROVE  ransid'.style = ransid.style
  <2>1. ~(ransid.state = "EndVal" /\ x = "m")
    BY <1>3, <1>5, Zenon
  <2>2. ransid.state \in ParserStates
    BY <1>1, Zenon DEF Parsers
  <2> DEFINE a == After(ransid, x)
  <2>0. /\ \A state, n : Goes(ransid, a, state, n) => ransid'.style = ransid.style
        /\ Drops(ransid, a) => ransid'.style = ransid.style
    BY <1>1, Zenon DEF Goes, Drops
  <2> HIDE DEF a
  <2>3. CASE ransid.state \in {"Esc", "Bracket"}
    BY <1>1, <2>0, <2>3, Transitions, Zenon DEF a
  <2>4. CASE ransid.state = "Parse"
    BY <1>1, <2>0, <2>4, Transitions, Zenon DEF a
  <2>5. CASE ransid.state \in {"FgColor", "BgColor", "Equals"}
    BY <1>1, <2>0, <2>5, Transitions, Zenon DEF a
  <2>6. CASE ransid.state = "EndVal"
    BY <1>1, <2>0, <2>1, <2>6, Transitions, Zenon DEF a
  <2> QED
    BY <2>2, <2>3, <2>4, <2>5, <2>6, Zenon DEF ParserStates
<1> QED
  BY <1>4, <1>5, Zenon

(* A byte that print! writes changes the style if and only if it completes *)
(* an escape sequence, to what the whole sequence asks for, for every set  *)
(* of bytes and every length of the sequences.                             *)
THEOREM WholeSequencesApplied == Spec => AppliesWholeSequences
<1>1. IInv /\ Parses /\ [Next]_vars =>
        [\A x \in Bytes :
           PrintByte(x) =>
             LET s == Append(seen, x)
             IN  IF s \in CompleteBytes
                 THEN \A c \in Complete : c.bytes = s => ransid'.style = c.asks[ransid.style]
                 ELSE ransid'.style = ransid.style]_vars
  BY PrintByteApplies, Zenon DEF IInv
<1> QED
  BY <1>1, LoggerInvariant, SequencesParsed, PTL DEF Spec, AppliesWholeSequences
=============================================================================
