------------------------------- MODULE Logger -------------------------------
(***************************************************************************)
(* The log records of src/macros.rs among everything else that is printed, *)
(* as the escape sequence parser sees them.  print! may write any bytes; a *)
(* record is written by one _print, that is with the SCREEN lock held, so  *)
(* nothing comes between its bytes.                                        *)
(***************************************************************************)
EXTENDS Ransid

CONSTANTS
  Bytes,      \* the bytes that print! writes
  MaxLevel,   \* log::max_level(): 5 (Trace) in debug builds, 3 (Info) otherwise
  MaxSeen     \* bound on the length of the escape sequences that print! writes

ASSUME LoggerAssumption == MaxLevel \in 1..5 /\ MaxSeen \in Nat

VARIABLES
  ransid,   \* the parser of the screen's Writer
  seen,     \* history: the bytes of the escape sequence that is being parsed
  todo      \* the bytes of the record that are not written yet

vars == <<ransid, seen, todo>>

Init == ransid = New /\ seen = <<>> /\ todo = <<>>

Consume(x) ==
  /\ ransid' = After(ransid, x)
  /\ seen' = IF After(ransid, x).state = "Esc" THEN <<>> ELSE Append(seen, x)

(* Mutant of PrintByte: the lock is not held for all of a record.          *)
PrintByteUnlocked(x) ==
  /\ Len(seen) < MaxSeen
  /\ Consume(x)
  /\ UNCHANGED todo

(* print! writes a byte.                                                   *)
PrintByte(x) ==
  /\ todo = <<>>
  /\ Len(seen) < MaxSeen
  /\ Consume(x)
  /\ UNCHANGED todo

(* The colours of Error, Warn, Info, Debug and Trace.                      *)
LevelColor == <<"1", "3", "2", "6", "5">>

(* What follows the level in a record, the message being "a".              *)
Message == <<"]", " ", "a", "LF">>

Record(level) ==
  <<"[", "ESC", "[", "3", LevelColor[level], "m", "L", "ESC", "[", "0", "m">> \o Message

(* Log::log, if the level is enabled.                                      *)
LogCall(level) ==
  /\ todo = <<>>
  /\ level <= MaxLevel
  /\ todo' = Record(level)
  /\ UNCHANGED <<ransid, seen>>

LogByte ==
  /\ todo # <<>>
  /\ Consume(Head(todo))
  /\ todo' = Tail(todo)

Next ==
  \/ \E x \in Bytes : PrintByte(x)
  \/ \E level \in 1..5 : LogCall(level)
  \/ LogByte

Spec == Init /\ [][Next]_vars

-----------------------------------------------------------------------------
RecordBytes == {"[", "]", "ESC", "0", "1", "2", "3", "5", "6", "m", "L", " ", "a", "LF"}

TypeOK ==
  ransid \in Parsers /\ seen \in Seq(Bytes \cup RecordBytes) /\ todo \in Seq(RecordBytes)

(* The parameters of an escape sequence, and what each asks for.           *)
Params == {<<"0">>, <<"1">>, <<"=", "1">>} \cup ({"3", "4"} \X DOMAIN Digit)

Asked(style, q) ==
  CASE q = <<"0">>      -> White
    [] q = <<"1">>      -> [style EXCEPT !.bright = TRUE]
    [] q = <<"=", "1">> -> [style EXCEPT !.bright = FALSE]
    [] q[1] = "3"       -> WithFg(style, q[2])
    [] q[1] = "4"       -> WithBg(style, q[2])

(* o with one more parameter, q, and the byte x after it.                  *)
Extended(o, q, x) ==
  [bytes |-> Append(o.bytes \o q, x), asks |-> [style \in Styles |-> Asked(o.asks[style], q)]]

(* The beginnings of sequences with n parameters, each with a ";" after it:*)
(* their bytes, and what the parameters together ask for.                  *)
Opened[n \in Nat] ==
  IF n = 0 THEN {[bytes |-> <<"ESC", "[">>, asks |-> [style \in Styles |-> style]]}
  ELSE {Extended(o, q, ";") : o \in Opened[n - 1], q \in Params}

(* The complete sequences that MaxSeen leaves room for.                    *)
Complete ==
  {Extended(o, q, "m") : o \in UNION {Opened[n] : n \in 0..((MaxSeen - 4) \div 2)}, q \in Params}

CompleteBytes == {c.bytes : c \in Complete}

(* A byte changes the style exactly if it completes an escape sequence,    *)
(* and then to what all of its parameters, and nothing else, ask for: what *)
(* sequences that were broken off before had asked for is forgotten.       *)
AppliesWholeSequences ==
  [][\A x \in Bytes :
       PrintByte(x) =>
         LET s == Append(seen, x)
         IN  IF s \in CompleteBytes
             THEN \A c \in Complete : c.bytes = s => ransid'.style = c.asks[ransid.style]
             ELSE ransid'.style = ransid.style]_vars

(* The message of a record is shown in white on black whatever was printed *)
(* before it, colours left set and escape sequences left unfinished        *)
(* included.                                                               *)
MessagePlain ==
  todo # <<>> /\ Len(todo) <= Len(Message) =>
    ransid.state = "Esc" /\ ransid.style = White
=============================================================================
