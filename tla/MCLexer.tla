------------------------------ MODULE MCLexer ------------------------------
(* A small instance of Lexer: a buffer of five bytes, literals and names   *)
(* of three.  A text is a few of the characters of one construct between   *)
(* a beginning and an end, cut off there or followed by blanks to the end  *)
(* of the buffer.                                                          *)
EXTENDS Lexer

Blank(n) == [i \in 1..n |-> 32]
Padded(s) == s \o Blank((5 - (Len(s) % 5)) % 5)

Texts(begin, chars, most, end) ==
  LET texts == {begin \o s \o end : s \in UNION {[1..n -> chars] : n \in 0..most}}
  IN texts \cup {Padded(s) : s \in texts}

MCFiles ==
  Texts(<<>>, {60, 61, 47, 97}, 4, <<>>)               \* < = / a
    \cup Texts(<<>>, {62, 43, 32}, 4, <<>>)             \* > + blank
    \cup Texts(<<>>, {35, 123, 125, 10}, 4, <<>>)       \* # { } newline
    \cup Texts(<<35, 123, 10>>, {35, 123, 125, 10}, 4, <<97>>)      \* #{ newline ... a
    \cup Texts(<<34>>, {92, 120, 49, 10}, 4, <<34>>)    \* " ... " with \ x 1 newline
    \cup Texts(<<34, 92>>, {120, 50, 49, 97, 114}, 3, <<34>>)       \* "\ ... " with x 2 1 a r
    \cup Texts(<<102, 34, 92>>, {120, 50, 49, 97, 114}, 3, <<34>>)  \* f"\ ... "
    \cup Texts(<<39>>, {39, 92, 120, 49, 110}, 4, <<39>>)           \* ' ... '
    \cup Texts(<<39, 92>>, {120, 50, 49, 65, 114}, 3, <<39>>)       \* '\ ... ' with x 2 1 A r
    \cup {<<q, 92, c, q>> : q \in {34, 39}, c \in 48..122}          \* every escape
    \cup Texts(<<48>>, {98, 120, 49, 57, 95, 117}, 3, <<59>>)       \* 0 ... ;
    \cup Texts(<<105>>, {102, 34, 49}, 4, <<>>)         \* i ... with f " 1
    \cup Texts(<<102, 34>>, {34, 37, 117, 123, 125}, 4, <<34>>)     \* f" ... "
    \cup Texts(<<102, 34, 37, 117, 123>>, {34, 37, 97, 125}, 4, <<125, 34>>)   \* f"%u{ ... }"
    \cup Texts(<<102, 34, 37, 115, 123>>, {125, 123, 97, 10}, 4, <<125, 34>>)  \* f"%s{ ... }"
    \cup Texts(<<102, 34, 37, 117, 123, 102, 34>>, {34, 97, 125}, 3, <<34, 125, 34>>)
                                                       \* f"%u{f" ... "}"
MCKeywords == {<<105, 102>>}                           \* if
=============================================================================
