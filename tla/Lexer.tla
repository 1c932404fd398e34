------------------------------- MODULE Lexer -------------------------------
(***************************************************************************)
(* The lexer (lexer.c).  It reads the source through a buffer that is      *)
(* refilled in the middle of whatever is being read, and decides by one or *)
(* two characters of lookahead.  A formatted string holds expressions: the *)
(* lexer calls itself for each of them (nest).                             *)
(*                                                                         *)
(* A character is its ASCII code.  Columns, used in messages only, are     *)
(* left out.                                                               *)
(***************************************************************************)
EXTENDS Integers, Sequences, FiniteSets, SequencesExt

CONSTANTS Files,          \* the source files, sequences of characters
          BufSize,        \* BA_FILE_BUF_SIZE
          LiteralSize,    \* BA_LITERAL_SIZE
          IdentifierSize, \* BA_IDENTIFIER_SIZE
          Keywords,       \* the keywords, sequences of characters
          MaxToks         \* bound on the lexemes listed

ASSUME FilesAssumption == Files \subseteq Seq(1..127)
ASSUME SizesAssumption ==
  /\ BufSize \in Nat \ {0} /\ LiteralSize \in Nat \ {0, 1}
  /\ IdentifierSize \in Nat \ {0, 1} /\ MaxToks \in Nat

VARIABLES file,  \* the source file
          src,   \* the file buffer f, its index j and the characters read
          lx     \* the lexer: st where it is, inc (willInc), cont (willCont),
                 \* buf the characters of the lexeme, line, from the line the
                 \* lexeme began on, ctx what an escape belongs to, nest the
                 \* groups of the formatted strings being read, toks the lexemes

vars == <<file, src, lx>>

NUL == 0          NL == 10         DQUOTE == 34     HASH == 35
PERCENT == 37     AMP == 38        QUOTE == 39      PLUS == 43
MINUS == 45       SLASH == 47      LESS == 60       EQUAL == 61
GREATER == 62     BACKSLASH == 92  LOWLINE == 95    LBRACE == 123
PIPE == 124       RBRACE == 125

Blanks == {32, 9, 11, 12, 13}
Digits == 48..57
Letters == 65..90 \cup 97..122 \cup {LOWLINE}
HexDigits == Digits \cup 65..70 \cup 97..102
NameChars == Letters \cup Digits

(* The operators of more than one character and those that stand alone.    *)
Doubles == {<<c, c>> : c \in {LESS, GREATER, SLASH, AMP, PIPE, EQUAL, PLUS, MINUS}}
Assigns == {<<c, EQUAL>> : c \in {LESS, GREATER, SLASH, AMP, PIPE, PLUS, MINUS,
                                  94, 33, 42, 37}}
Triples == {<<c, c, EQUAL>> : c \in {LESS, GREATER, SLASH}}
Ops == Doubles \cup Assigns \cup Triples
OpStarts == {op[1] : op \in Ops}
Puncts == {59, 126, 36, 40, 41, 91, 93, LBRACE, RBRACE, 44, 46, 58}

(* CharEscape: the characters after a backslash that stand for another.    *)
Escapes == [c \in {DQUOTE, QUOTE, BACKSLASH, 110, 116, 118, 102, 98, 97, 101, 48} |->
  CASE c = 110 -> 10 [] c = 116 -> 9 [] c = 118 -> 11 [] c = 102 -> 12
    [] c = 98 -> 8 [] c = 97 -> 7 [] c = 101 -> 27 [] c = 48 -> 0 [] OTHER -> c]

HexCharToNum(c) ==
  CASE c \in Digits -> c - 48 [] c \in 97..102 -> c - 97 [] c \in 65..70 -> c - 65

(* The formats that take one group; %s takes the length's and the string's. *)
NumFormats == {105, 117, 120, 111, 98, 99}
StrFormat == 115

----------------------------------------------------------------------------
(* The file buffer.                                                        *)

NoBuffer == [f |-> [i \in 0..(BufSize - 1) |-> NUL], j |-> BufSize - 1, read |-> 0]

Least(a, b) == IF a < b THEN a ELSE b

(* IncFile: the next index; past the end, fread overwrites what it has     *)
(* read and leaves the rest of the buffer as it was.                       *)
Advance(s) ==
  LET n == Least(BufSize, Len(file) - s.read)
  IN IF s.j + 1 < BufSize THEN [s EXCEPT !.j = @ + 1]
     ELSE [f |-> [i \in 0..(BufSize - 1) |-> IF i < n THEN file[s.read + i + 1] ELSE s.f[i]],
           j |-> 0, read |-> s.read + n]

(* What IncFile returns: 0 if fread could not read any more. *)
More(s) == s.j + 1 < BufSize \/ s.read < Len(file)

(* The lexer's loops: while (!willInc || IncFile(...)).  The character     *)
(* that ends a character literal is fetched whatever willInc says.         *)
Taken == IF lx.inc \/ lx.st = "endchar" THEN Advance(src) ELSE src
Ok == IF lx.inc \/ lx.st = "endchar" THEN More(src) ELSE TRUE
C == Taken.f[Taken.j]

Init ==
  /\ file \in Files
  /\ src = NoBuffer
  /\ lx = [st |-> "start", inc |-> TRUE, cont |-> TRUE, buf |-> <<>>, line |-> 1,
           from |-> 1, ctx |-> "none", nest |-> <<>>, toks |-> <<>>]

----------------------------------------------------------------------------

Tok(t, s, line) == [t |-> t, s |-> s, line |-> line]
List(l, t) == [l EXCEPT !.toks = Append(@, t)]

(* return !isInFString: inside a formatted string the file may not end. *)
Ended(l) == IF l.nest = <<>> THEN "done" ELSE "failed"

(* The end of a lexeme; the loop goes on unless the file has ended. *)
Emit(l, type, inc) ==
  [List(l, Tok(type, l.buf, l.from)) EXCEPT
     !.st = IF l.cont THEN "start" ELSE Ended(l), !.cont = TRUE, !.buf = <<>>, !.inc = inc]

To(l, st, inc) == [l EXCEPT !.st = st, !.inc = inc]
Put(l, c) == [l EXCEPT !.buf = Append(@, c)]
Fail(l) == To(l, "failed", TRUE)
CountLine(l, c) == IF c = NL THEN [l EXCEPT !.line = @ + 1] ELSE l

(* Every step takes one character, in the state st. *)
In(st) == lx.st = st /\ Len(lx.toks) < MaxToks /\ src' = Taken /\ UNCHANGED file

(* Between lexemes.                                                        *)
Here == [lx EXCEPT !.from = lx.line]

(* Slip: a zero byte is no end. *)
AtEndReadOn ==
  /\ In("start") /\ ~Ok
  /\ lx' = To(lx, Ended(lx), TRUE)

AtEnd ==
  /\ In("start") /\ (~Ok \/ C = NUL)
  /\ lx' = To(lx, Ended(lx), TRUE)

(* The brace that closes a group of a formatted string.  The index is      *)
(* incremented without a look at the buffer's end: the character fetched   *)
(* next may lie behind it.                                                 *)
CloseGroup ==
  /\ lx.st = "start" /\ Ok /\ C = RBRACE /\ lx.nest # <<>> /\ UNCHANGED file
  /\ LET at == [Taken EXCEPT !.j = @ + 1]
         closed == List(lx, Tok("close", <<>>, lx.line))
     IN /\ src' = at
        /\ lx' = IF at.j = BufSize THEN To(lx, "overread", TRUE)
                 ELSE IF Last(lx.nest) = "value"
                 THEN To([closed EXCEPT !.nest = Front(@)], "text", FALSE)
                 ELSE IF at.f[at.j] # LBRACE THEN Fail(lx)
                 ELSE To([closed EXCEPT !.nest = Append(Front(@), "value")], "start", TRUE)

Begin ==
  /\ In("start") /\ Ok /\ C # NUL /\ ~(C = RBRACE /\ lx.nest # <<>>)
  /\ lx' =
       CASE C \in Blanks -> To(lx, "start", TRUE)
         [] C = NL -> To(CountLine(lx, C), "start", TRUE)
         [] C = HASH -> To(lx, "hash", TRUE)
         [] C \in OpStarts -> To(Put(Here, C), "operator", TRUE)
         [] C \in Puncts -> Emit(Put(Here, C), "op", TRUE)
         [] C = DQUOTE -> To([Here EXCEPT !.ctx = "str"], "str", TRUE)
         [] C \in Digits -> To(Put(Here, C), "second digit", TRUE)
         [] C = QUOTE -> To([Here EXCEPT !.ctx = "chr"], "chr", TRUE)
         [] C \in Letters -> To(Put(Here, C), "second letter", TRUE)
         [] OTHER -> Fail(lx)

(* A comment, up to the line's end or the closing #}.                      *)
Comment ==
  \/ /\ In("hash")
     /\ lx' = IF ~Ok THEN Fail(lx)
              ELSE IF C = LBRACE THEN To(lx, "block comment", TRUE)
              ELSE To(lx, "comment", FALSE)
  \/ /\ In("comment")
     /\ lx' = IF ~Ok THEN Fail(lx)
              ELSE To(CountLine(lx, C), IF C = NL THEN "start" ELSE "comment", TRUE)

BlockComment ==
  \/ /\ In("block comment")
     /\ lx' = IF ~Ok THEN Fail(lx)
              ELSE To(CountLine(lx, C), IF C = HASH THEN "closing" ELSE "block comment", TRUE)
  \/ /\ In("closing")
     /\ lx' = IF ~Ok THEN Fail(lx)
              ELSE IF C = RBRACE THEN To(lx, "start", TRUE)
              ELSE To(lx, "block comment", FALSE)

(* Slip: a third character is never looked for. *)
ShortOperator ==
  /\ In("operator")
  /\ LET l == [lx EXCEPT !.cont = Ok]
     IN lx' = IF Append(lx.buf, C) \in Ops THEN Emit(Put(l, C), "op", TRUE)
              ELSE Emit(l, "op", FALSE)

(* An operator is extended while it can be.  The character after << and >> *)
(* is looked at even when there is none.                                   *)
Operator ==
  /\ In("operator")
  /\ LET longer == Append(lx.buf, C)
         extends == longer \in Ops /\ (Ok \/ lx.buf \in {<<LESS, LESS>>, <<GREATER, GREATER>>})
         l == [lx EXCEPT !.cont = Ok]
     IN lx' = IF extends /\ Append(longer, EQUAL) \in Ops THEN To(Put(l, C), "operator", TRUE)
              ELSE IF extends THEN Emit(Put(l, C), "op", TRUE)
              ELSE Emit(l, "op", FALSE)

(* The characters of a string.  A string the file ends in is complete.     *)
String ==
  /\ In("str")
  /\ lx' = IF ~Ok \/ C = DQUOTE THEN Emit(lx, "str", TRUE)
           ELSE IF C = BACKSLASH THEN To(lx, "escape", TRUE)
           ELSE IF Len(lx.buf) = LiteralSize THEN Fail(lx)
           ELSE To(Put(CountLine(lx, C), C), "str", TRUE)

(* A character of a formatted string's text; when the buffer has overflown *)
(* it is listed, without that character.                                   *)
PutText(l, c) ==
  IF Len(l.buf) = LiteralSize THEN [List(l, Tok("text", l.buf, 0)) EXCEPT !.buf = <<>>]
  ELSE Put(l, c)

(* The value of an escape sequence goes where it was found. *)
Unescaped(l, c, inc) ==
  CASE l.ctx = "str" -> IF Len(l.buf) = LiteralSize THEN Fail(l) ELSE To(Put(l, c), "str", inc)
    [] l.ctx = "text" -> To(PutText(l, c), "text", inc)
    [] l.ctx = "chr" -> To(Put(l, c), "endchar", inc)

Escape ==
  /\ In("escape")
  /\ lx' = CASE ~Ok -> Fail(lx)
             [] Ok /\ C \in DOMAIN Escapes -> Unescaped(lx, Escapes[C], TRUE)
             [] Ok /\ C = NL -> IF lx.ctx = "chr" THEN Fail(lx)
                                ELSE To(CountLine(lx, C), lx.ctx, TRUE)
             [] Ok /\ C = 120 -> To(lx, "hex high", TRUE)
             [] OTHER -> Unescaped(lx, BACKSLASH, FALSE)

(* The two digits of \x: the first is the high one in a string, the low    *)
(* one elsewhere.  Between them the first stands in the buffer.            *)
HexEscape ==
  \/ /\ In("hex high")
     /\ lx' = IF Ok /\ C \in HexDigits THEN To(Put(lx, HexCharToNum(C)), "hex low", TRUE)
              ELSE Fail(lx)
  \/ /\ In("hex low")
     /\ LET l == [lx EXCEPT !.buf = Front(@)]
            first == Last(lx.buf)
            byte == IF lx.ctx = "str" THEN 16 * first + HexCharToNum(C)
                    ELSE first + 16 * HexCharToNum(C)
        IN lx' = IF Ok /\ C \in HexDigits THEN Unescaped(l, byte, TRUE) ELSE Fail(lx)

(* A character literal. *)
Character ==
  /\ In("chr")
  /\ lx' = IF ~Ok \/ C = QUOTE THEN Fail(lx)
           ELSE IF C = BACKSLASH THEN To(lx, "escape", TRUE)
           ELSE To(Put(CountLine(lx, C), C), "endchar", TRUE)

EndCharacter ==
  /\ In("endchar")
  /\ lx' = IF Ok /\ C = QUOTE THEN Emit(lx, "chr", lx.inc) ELSE Fail(lx)

(* An integer: the prefix follows the first digit, whatever that is.       *)
SecondDigit ==
  /\ In("second digit")
  /\ LET l == [lx EXCEPT !.cont = Ok]
     IN lx' = IF Ok /\ C \in Digits \cup {120, 111, 98} THEN To(Put(l, C), "integer", TRUE)
              ELSE To(l, "integer", FALSE)

Base(buf) ==
  IF Len(buf) < 2 THEN 10
  ELSE CASE buf[2] = 120 -> 16 [] buf[2] = 111 -> 8 [] buf[2] = 98 -> 2 [] OTHER -> 10

BadDigit(base, c) ==
  \/ c \in 50..55 /\ base < 8
  \/ c = 57 /\ base < 10
  \/ c \in HexDigits \ Digits /\ base < 16

Integer ==
  /\ In("integer")
  /\ lx' = CASE ~Ok -> Emit(lx, "int", TRUE)
             [] Ok /\ C = LOWLINE -> To(lx, "integer", TRUE)
             [] Ok /\ BadDigit(Base(lx.buf), C) -> Fail(lx)
             [] Ok /\ C \in {117, 85} -> Emit(Put(lx, 117), "int", TRUE)
             [] Ok /\ C \in HexDigits /\ ~BadDigit(Base(lx.buf), C) ->
                  IF Len(lx.buf) >= LiteralSize THEN Fail(lx)
                  ELSE To(Put(lx, C), "integer", TRUE)
             [] OTHER -> Emit(lx, "int", FALSE)

(* A name, or f" and the formatted string it begins.                       *)
SecondLetter ==
  /\ In("second letter")
  /\ LET l == [lx EXCEPT !.cont = Ok]
     IN lx' = CASE Ok /\ lx.buf[1] \in {70, 102} /\ C = DQUOTE ->
                     To([List(l, Tok("fstr", <<>>, lx.from)) EXCEPT
                           !.buf = <<>>, !.ctx = "text"], "text", TRUE)
                [] Ok /\ C \in NameChars -> To(Put(l, C), "name", TRUE)
                [] OTHER -> To(l, "name", FALSE)

NameType(buf) == IF buf \in Keywords THEN "keyword" ELSE "name"


Name ==
  /\ In("name")
  /\ lx' = CASE ~Ok -> Emit(lx, NameType(lx.buf), TRUE)
             [] Ok /\ C \in NameChars -> IF Len(lx.buf) >= IdentifierSize THEN Fail(lx)
                                         ELSE To(Put(lx, C), "name", TRUE)
             [] OTHER -> Emit(lx, NameType(lx.buf), FALSE)

(* The text of a formatted string. *)
Piece(l) == IF l.buf = <<>> THEN l ELSE List(l, Tok("text", l.buf, 0))

EndText(l) == To([List(l, Tok("endfstr", <<>>, 0)) EXCEPT !.buf = <<>>], "start", TRUE)

Text ==
  /\ In("text")
  /\ lx' = CASE ~Ok -> EndText(lx)
             [] Ok /\ C = DQUOTE -> EndText(Piece(lx))
             [] Ok /\ C = BACKSLASH -> To([lx EXCEPT !.ctx = "text"], "escape", TRUE)
             [] Ok /\ C = PERCENT -> To(Piece(lx), "format", TRUE)
             [] OTHER -> To(PutText(CountLine(lx, C), C), "text", TRUE)

(* After a %.  The text before it has been listed but, if this is no       *)
(* format, stays in the buffer all the same.                               *)
Format ==
  \/ /\ In("format")
     /\ lx' = CASE ~Ok -> Fail(lx)
                [] Ok /\ C \in {PERCENT, LBRACE, RBRACE} -> To(PutText(lx, C), "text", TRUE)
                [] Ok /\ C \in NumFormats \cup {StrFormat} ->
                     To([lx EXCEPT !.buf = <<C>>], "open group", TRUE)
                [] OTHER -> To(PutText(lx, PERCENT), "text", FALSE)
  \/ /\ In("open group")
     /\ lx' = IF ~Ok \/ C # LBRACE THEN Fail(lx)
              ELSE [To(List(lx, Tok("open", lx.buf, 0)), "start", TRUE) EXCEPT
                      !.buf = <<>>,
                      !.nest = Append(@, IF lx.buf = <<StrFormat>> THEN "length" ELSE "value")]

Next ==
  \/ AtEnd \/ CloseGroup \/ Begin \/ Comment \/ BlockComment \/ Operator
  \/ String \/ Escape \/ HexEscape \/ Character \/ EndCharacter
  \/ SecondDigit \/ Integer \/ SecondLetter \/ Name \/ Text \/ Format

Spec == Init /\ [][Next]_vars /\ WF_vars(Next)

----------------------------------------------------------------------------
(* What the lexemes of a text are, by the longest match, without a buffer. *)
(* The modes are the strings and groups the position i is in.  The list    *)
(* ends with Bad where the text is refused, with Over where the lexer      *)
(* takes a character from behind its buffer, and with Odd where it is      *)
(* known to depart from the longest match (README, "The lexer").  Where    *)
(* the lexer is known to take another byte than the text says the byte is  *)
(* misread.                                                                *)

Bad == Tok("bad", <<>>, 0)
Odd == Tok("odd", <<>>, 0)
Over == Tok("over", <<>>, 0)
Byte(c) == Tok("byte", <<c>>, 0)
Misread(c) == Tok("misread", <<c>>, 0)

(* The escapes of the manual (MANUAL.md:66), taken from it and not from    *)
(* the lexer's tables.                                                     *)
CR == 114
ManualEscapes ==
  [c \in {DQUOTE, QUOTE, BACKSLASH} |-> c]
    @@ 110 :> 10 @@ 116 :> 9 @@ 118 :> 11 @@ 102 :> 12 @@ CR :> 13
    @@ 98 :> 8 @@ 97 :> 7 @@ 101 :> 27 @@ 48 :> 0

HexValue(c) == IF c \in Digits THEN c - 48 ELSE 10 + (c - (IF c < 97 THEN 65 ELSE 97))

(* \x: the high digit first.  The lexer counts the letters from 0          *)
(* (lexer.c:45,48) and, outside strings, takes the first digit for the low *)
(* one (lexer.c:477-480, 545-548).                                         *)
HexByte(high, low, inStr) ==
  LET byte == 16 * HexValue(high) + HexValue(low)
  IN IF {high, low} \subseteq Digits /\ (inStr \/ high = low) THEN Byte(byte)
     ELSE Misread(byte)

At(s, i) == IF i <= Len(s) THEN s[i] ELSE NUL
RunEnd(s, i, chars) == Min({k \in i..(Len(s) + 1) : At(s, k) \notin chars})
Lines(s, i, k) == Cardinality({n \in i..k : At(s, n) = NL})

Read(out, i, line, modes) == [out |-> out, i |-> i, line |-> line, modes |-> modes]

(* The bytes since the last lexeme that is not one. *)
TextBefore(acc) ==
  Len(acc) - Max({0} \cup {k \in 1..Len(acc) : acc[k].t \notin {"byte", "misread"}})

CommentAt(s, i, line, modes) ==
  LET block == At(s, i + 1) = LBRACE
      ends == IF block
              THEN {k + 1 : k \in {n \in (i + 2)..Len(s) : s[n] = HASH /\ At(s, n + 1) = RBRACE}}
              ELSE {k \in (i + 1)..Len(s) : s[k] = NL}
  IN IF ends = {} THEN Read(<<Bad>>, i, line, modes)
     ELSE Read(<<>>, Min(ends) + 1, line + Lines(s, i, Min(ends)), modes)

OperatorAt(s, i, line, modes) ==
  LET n == Max({1} \cup {k \in 2..3 : i + k - 1 <= Len(s) /\ SubSeq(s, i, i + k - 1) \in Ops})
      op == SubSeq(s, i, i + n - 1)
  IN Read(<<IF Append(op, EQUAL) \in Triples /\ i + n > Len(s) THEN Odd
            ELSE Tok("op", op, line)>>, i + n, line, modes)

IntegerAt(s, i, line, modes) ==
  LET base == CASE At(s, i + 1) = 120 -> 16 [] At(s, i + 1) = 111 -> 8
                [] At(s, i + 1) = 98 -> 2 [] OTHER -> 10
      head == IF base = 10 THEN 1 ELSE 2
      end == RunEnd(s, i + head, HexDigits \cup {LOWLINE})
      digits == SelectSeq(SubSeq(s, i + head, end - 1), LAMBDA c : c # LOWLINE)
      suffix == At(s, end) \in {117, 85}
      wrong == {k \in DOMAIN digits :
                  digits[k] # 56 /\ (IF digits[k] \in Digits THEN digits[k] - 48 ELSE 10) >= base /\ base # 16}
      text == SubSeq(s, i, i + head - 1) \o digits
  IN Read(<<IF end > Len(s) THEN Odd
            ELSE IF wrong # {} \/ Len(text) > LiteralSize THEN Bad
            ELSE Tok("int", IF suffix THEN Append(text, 117) ELSE text, line)>>,
          IF suffix THEN end + 1 ELSE end, line, modes)

CharacterAt(s, i, line, modes) ==
  LET c == At(s, i + 1)
      e == At(s, i + 2)
      hex == At(s, i + 3) \in HexDigits /\ At(s, i + 4) \in HexDigits
      body == CASE c \in {QUOTE, NUL} -> Bad
                [] c = BACKSLASH /\ e \in DOMAIN ManualEscapes \ {CR} -> Byte(ManualEscapes[e])
                [] c = BACKSLASH /\ e = 120 /\ hex -> HexByte(s[i + 3], s[i + 4], FALSE)
                [] c = BACKSLASH /\ (e \in {NL, NUL} \/ (e = 120 /\ ~hex)) -> Bad
                [] c = BACKSLASH -> Odd
                [] OTHER -> Byte(c)
      end == i + 2 + (IF c # BACKSLASH THEN 0 ELSE IF e = 120 THEN 3 ELSE 1)
  IN Read(<<IF body \in {Bad, Odd} THEN body
            ELSE IF At(s, end) # QUOTE THEN Bad
            ELSE Tok(IF body.t = "byte" THEN "chr" ELSE "misread chr", body.s, line)>>,
          end + 1, line + Lines(s, i, end), modes)

NameAt(s, i, line, modes) ==
  LET end == RunEnd(s, i, NameChars)
      name == SubSeq(s, i, end - 1)
  IN IF name \in {<<70>>, <<102>>} /\ At(s, end) = DQUOTE
     THEN Read(<<Tok("fstr", <<>>, line)>>, i + 2, line, Append(modes, "text"))
     ELSE Read(<<IF end > Len(s) THEN Odd ELSE IF Len(name) > IdentifierSize THEN Bad
                 ELSE Tok(NameType(name), name, line)>>, end, line, modes)

GroupEndAt(s, i, line, modes) ==
  LET close == IF i % BufSize = 0 THEN Over ELSE Tok("close", <<>>, line)
  IN IF Last(modes) = "value" THEN Read(<<close>>, i + 1, line, Front(modes))
     ELSE Read(IF At(s, i + 1) = LBRACE THEN <<close>>
               ELSE <<IF close = Over THEN Over ELSE Bad>>,
               i + 2, line, Append(Front(modes), "value"))

CodeAt(s, i, line, modes) ==
  LET c == s[i]
  IN CASE c \in Blanks \cup {NL} -> Read(<<>>, i + 1, line + Lines(s, i, i), modes)
       [] c = HASH -> CommentAt(s, i, line, modes)
       [] c = RBRACE /\ modes # <<>> -> GroupEndAt(s, i, line, modes)
       [] c \in Puncts /\ ~(c = RBRACE /\ modes # <<>>) -> Read(<<Tok("op", <<c>>, line)>>, i + 1, line, modes)
       [] c \in OpStarts -> OperatorAt(s, i, line, modes)
       [] c = DQUOTE -> Read(<<Tok("str", <<>>, line)>>, i + 1, line, Append(modes, "str"))
       [] c = QUOTE -> CharacterAt(s, i, line, modes)
       [] c \in Digits -> IntegerAt(s, i, line, modes)
       [] c \in Letters -> NameAt(s, i, line, modes)
       [] OTHER -> Read(<<Bad>>, i + 1, line, modes)

(* A character of a string or of the text of a formatted string. *)
TextAt(s, i, line, modes, before) ==
  LET inStr == Last(modes) = "str"
      c == s[i]
      e == At(s, i + 1)
      hex == At(s, i + 2) \in HexDigits /\ At(s, i + 3) \in HexDigits
      fits(byte) == IF before < LiteralSize THEN byte ELSE IF inStr THEN Bad ELSE Odd
      formatted(b) == IF before > 0 THEN Odd ELSE Byte(b)
  IN CASE c = DQUOTE -> Read(IF inStr THEN <<>> ELSE <<Tok("endfstr", <<>>, 0)>>,
                             i + 1, line, Front(modes))
       [] c = BACKSLASH /\ e = NUL -> Read(<<IF i + 1 > Len(s) THEN Bad ELSE Odd>>, i, line, modes)
       [] c = BACKSLASH /\ e = CR -> Read(<<IF before < LiteralSize \/ ~inStr THEN Odd ELSE Bad>>, i, line, modes)
       [] c = BACKSLASH /\ e \in DOMAIN ManualEscapes \ {CR} ->
            Read(<<fits(Byte(ManualEscapes[e]))>>, i + 2, line, modes)
       [] c = BACKSLASH /\ e = NL -> Read(<<>>, i + 2, line + 1, modes)
       [] c = BACKSLASH /\ e = 120 ->
            Read(<<IF hex THEN fits(HexByte(s[i + 2], s[i + 3], inStr)) ELSE Bad>>, i + 4, line, modes)
       [] c = BACKSLASH /\ e \notin DOMAIN ManualEscapes \cup {NUL, NL, 120} ->
            Read(<<fits(Byte(BACKSLASH))>>, i + 1, line, modes)
       [] c = PERCENT /\ ~inStr ->
            CASE e = NUL -> Read(<<IF i + 1 > Len(s) THEN Bad ELSE Odd>>, i, line, modes)
              [] e \in {PERCENT, LBRACE, RBRACE} -> Read(<<formatted(e)>>, i + 2, line, modes)
              [] e \in NumFormats \cup {StrFormat} ->
                   Read(<<IF At(s, i + 2) # LBRACE THEN Bad ELSE Tok("open", <<e>>, 0)>>, i + 3, line,
                        Append(modes, IF e = StrFormat THEN "length" ELSE "value"))
              [] OTHER -> Read(<<formatted(PERCENT)>>, i + 1, line, modes)
       [] OTHER -> Read(<<fits(Byte(c))>>, i + 1, line + Lines(s, i, i), modes)

RECURSIVE Lexemes(_, _, _, _, _)
Lexemes(s, i, line, modes, acc) ==
  LET inText == modes # <<>> /\ Last(modes) \in {"str", "text"}
      next == IF inText THEN TextAt(s, i, line, modes, TextBefore(acc))
              ELSE CodeAt(s, i, line, modes)
  IN IF acc # <<>> /\ Last(acc).t \in {"bad", "odd", "over"} THEN acc
     ELSE IF At(s, i) # NUL
     THEN Lexemes(s, next.i, next.line, next.modes, acc \o next.out)
     ELSE IF modes = <<>> THEN acc
     ELSE Append(acc, IF inText THEN Odd ELSE Bad)

----------------------------------------------------------------------------
(* Properties.                                                             *)

(* Type invariant: the index is inside the buffer but for the one state    *)
(* that says it is not, no more is read than the file has, and lexemes     *)
(* keep to their buffers.                                                  *)
TypeOK ==
  /\ src.f \in [0..(BufSize - 1) -> 0..255] /\ src.read \in 0..Len(file)
  /\ src.j \in 0..(BufSize - 1) \/ (src.j = BufSize /\ lx.st = "overread")
  /\ lx.nest \in Seq({"length", "value"})
  /\ lx.st \in {"str", "text", "integer"} => Len(lx.buf) <= LiteralSize
  /\ lx.st = "name" => Len(lx.buf) <= IdentifierSize

(* The bytes the lexer gets to see: the file and, after its last byte,     *)
(* what an earlier filling left in the buffer.                             *)
Seen ==
  LET n == Len(file)
      fillings == (n + BufSize - 1) \div BufSize
  IN [i \in 1..(fillings * BufSize) |->
        IF i <= n THEN file[i] ELSE IF i > BufSize THEN file[i - BufSize] ELSE NUL]

(* The lexemes with the bytes of strings one by one: how a text is cut     *)
(* into pieces does not matter.                                            *)
Flat(toks) ==
  LET bytes(t) == [k \in 1..Len(t.s) |-> Byte(t.s[k])]
      flat(t) == CASE t.t = "str" -> <<Tok("str", <<>>, t.line)>> \o bytes(t)
                   [] t.t = "text" -> bytes(t)
                   [] OTHER -> <<t>>
  IN FlattenSeq([k \in 1..Len(toks) |-> flat(toks[k])])

(* One lexeme of the lexer against the one of the text: where the byte is  *)
(* misread it is another one.                                              *)
Agree(t, right) ==
  CASE right.t = "misread" -> t.t = "byte" /\ t.s # right.s
    [] right.t = "misread chr" -> t.t = "chr" /\ t.line = right.line /\ t.s # right.s
    [] OTHER -> t = right

AgreeUpTo(n, toks, right) == \A k \in 1..n : Agree(toks[k], right[k])

(* The lexer accepts what the longest match accepts and cuts it into the   *)
(* same lexemes, on the same lines, wherever the buffer is refilled and    *)
(* however its groups nest, every escape the byte the manual says but for  *)
(* the misread ones; behind the buffer it reads exactly where a group      *)
(* closes on the last byte.  Where it fails or departs, what it has listed *)
(* before is right all the same, up to the text it was in.                 *)
LexemesRight ==
  lx.st \in {"done", "failed", "overread"} =>
    LET right == Lexemes(Seen, 1, 1, <<>>, <<>>)
        found == Flat(lx.toks)
        ends(t) == right # <<>> /\ Last(right).t = t
    IN /\ \/ ends("odd")
          \/ lx.st = "failed" /\ ends("bad")
          \/ lx.st = "overread" /\ ends("over")
          \/ lx.st = "done" /\ Len(found) = Len(right)
       /\ IF ends("odd") \/ ends("bad") \/ ends("over")
          THEN AgreeUpTo(Least(Len(found), Len(right) - 1 - TextBefore(Front(right))), found, right)
          ELSE AgreeUpTo(Len(right), found, right)

(* The lexer comes to an end, unless the text is one it is known to depart *)
(* from: a string that is not closed may keep it in the same filling of    *)
(* the buffer for ever.                                                    *)
LexerEnds ==
  src = NoBuffer /\ Odd \notin Range(Lexemes(Seen, 1, 1, <<>>, <<>>))
    ~> lx.st \in {"done", "failed", "overread"}
=============================================================================
