------------------------------ MODULE NumText ------------------------------
(***************************************************************************)
(* Integers as text.  A formatted string writes an integer in base 10, 16, *)
(* 8 or 2: at compile time when the value is known (common/format.c), else *)
(* by a routine of the program (bltin/format.c) that fills a buffer the    *)
(* statement has made on the stack.  The other direction is the value of   *)
(* an integer literal (ba_StrToU64).                                       *)
(*                                                                         *)
(* Word stands for 2^64, the buffers' 0x18 and 0x40 bytes for NumBytes and *)
(* Bits: room for the octal digits of any number, a sign and a zero; and   *)
(* as many bytes as bits.                                                  *)
(***************************************************************************)
EXTENDS Integers, Sequences, SequencesExt

CONSTANTS Word,      \* the number of values of a u64
          Bits,      \* the bits of a word
          IntBits,   \* the bits of the C compiler's int (32)
          Byte,      \* the number of values of a u8
          NumBytes,  \* the buffer of a number that is not binary
          Literals   \* the literals read, [base, digits]

(* b to the n-th power: defined here and not taken from Integers, since    *)
(* the provers know nothing of the operator there.                         *)
Pow(b, n) == LET p[i \in Nat] == IF i = 0 THEN 1 ELSE b * p[i - 1] IN p[n]

ASSUME WidthAssumption ==
  /\ Bits \in Nat /\ Word = Pow(2, Bits) /\ Bits % 4 = 0
  /\ IntBits \in 2..Bits /\ Byte \in 2..(Word \div 2)
  /\ NumBytes \in Nat /\ NumBytes >= 2 /\ Pow(8, NumBytes - 2) >= Word
ASSUME LiteralsAssumption == Literals \subseteq [base : {2, 8, 10, 16}, digits : Seq(0..15)]

VARIABLES kind,     \* the format type, or "literal"
          arg,      \* the argument: its bits and its type, a word or a byte
          pc,       \* where the routine is
          rest,     \* RDI: what is left to be split into digits
          neg,      \* R8: a minus sign is to be written
          digits,   \* the scratch area of the routine, lowest digit first
          rbx, rdi, \* the loop that reverses them: into the text, from the digits
          text,     \* the buffer and, as its last element, the byte after it
          len,      \* RAX: the length returned
          lit, num  \* a literal, and what ba_StrToU64 makes of it

vars == <<kind, arg, pc, rest, neg, digits, rbx, rdi, text, len, lit, num>>

Kinds == {"i64", "u64", "hex", "oct", "bin"}
Types == {"word", "u8", "i8"}
Local == 165        \* the lowest byte of the variable next to the buffer
TooLong == -1
BadChar == -2

Char(d) == IF d < 10 THEN 48 + d ELSE 87 + d

(* What the five routines differ in.                                       *)
U64ToStr == [radix |-> 10, scratch |-> NumBytes, signed |-> FALSE]
I64ToStr == [radix |-> 10, scratch |-> NumBytes, signed |-> TRUE]
HexToStr == [radix |-> 16, scratch |-> NumBytes, signed |-> FALSE]
OctToStr == [radix |-> 8, scratch |-> NumBytes, signed |-> FALSE]

(* Slip: the scratch area of the other bases. *)
BinToStrSmall == [radix |-> 2, scratch |-> NumBytes, signed |-> FALSE]

BinToStr == [radix |-> 2, scratch |-> Bits, signed |-> FALSE]

Routine(k) ==
  CASE k = "u64" -> U64ToStr [] k = "i64" -> I64ToStr [] k = "hex" -> HexToStr
    [] k = "oct" -> OctToStr [] k = "bin" -> BinToStr

(* Slip: a buffer with room for the zero. *)
BufBytesRoom(k) == IF k = "bin" THEN Bits + 1 ELSE NumBytes

(* The buffer the statement makes for the routine. *)
BufBytes(k) == IF k = "bin" THEN Bits ELSE NumBytes

(* The argument in the register: a byte is zero extended, an i8 as well    *)
(* (MOVZX); a known value is masked to its size (stmt.c:1195).             *)
ArgToReg(a) == a.bits % (IF a.type = "word" THEN Word ELSE Byte)

----------------------------------------------------------------------------
(* Compile time.                                                           *)

LowDigits(r, v) ==
  LET f[n \in 0..(Word - 1)] == IF n = 0 THEN <<>> ELSE <<n % r>> \o f[n \div r] IN f[v]

IsNeg(k, v) == Routine(k).signed /\ v >= Word \div 2

(* ba_U64ToStr and its siblings; -num of the least i64 is itself, divided  *)
(* as unsigned.                                                            *)
Folded(k, v) ==
  LET magnitude == IF IsNeg(k, v) THEN Word - v ELSE v
      chars == [i \in DOMAIN LowDigits(Routine(k).radix, magnitude) |->
                  Char(LowDigits(Routine(k).radix, magnitude)[i])]
  IN IF v = 0 THEN <<48>> ELSE Reverse(IF IsNeg(k, v) THEN Append(chars, 45) ELSE chars)

(* What is allocated for such a text. *)
FoldedBytes(k) == IF k = "bin" THEN Bits ELSE NumBytes

(* The value of a literal.  Leading zeros go first, then the length is     *)
(* checked, then the digits are added from the last; those of bases 8 and  *)
(* 2 are shifted as ints, the shift counted modulo the int's width.        *)
Significant(d) == SelectInSeq(d, LAMBDA x : x # 0)

IntShift(d, s) ==
  LET raw == (d * Pow(2, s % IntBits)) % Pow(2, IntBits)
  IN IF raw >= Pow(2, IntBits - 1) THEN raw - Pow(2, IntBits) ELSE raw

Contribution(base, d, i) ==
  CASE base \in {10, 16} -> d * Pow(base, i)
    [] base = 8 -> IntShift(d, 3 * i)
    [] base = 2 -> IntShift(d, i)

Sum(base, d) ==
  LET s[i \in 0..Len(d)] ==
        IF i = 0 THEN 0
        ELSE (s[i - 1] + Contribution(base, d[Len(d) - i + 1], i - 1)) % Word
  IN s[Len(d)]

Above(d, t) == \E i \in 1..Len(d) : d[i] > t[i] /\ \A j \in 1..(i - 1) : d[j] = t[j]

TooManyDigits(base, d) ==
  CASE base = 10 -> LET most == Reverse(LowDigits(10, Word - 1))
                    IN Len(d) > Len(most) \/ (Len(d) = Len(most) /\ Above(d, most))
    [] base = 16 -> Len(d) > Bits \div 4
    [] base = 8 -> Len(d) > Bits \div 3 /\ d[1] >= Pow(2, Bits % 3)
    [] base = 2 -> Len(d) > Bits

(* Slip: one octal digit more is let through. *)
StrToU64Wide(base, all) ==
  LET d == SubSeq(all, Significant(all), Len(all))
  IN CASE Significant(all) = 0 -> 0
       [] Significant(all) # 0 /\ TooManyDigits(base, Tail(d)) -> TooLong
       [] OTHER -> IF \E i \in 1..Len(d) : d[i] >= base THEN BadChar ELSE Sum(base, d)

StrToU64(base, all) ==
  LET d == SubSeq(all, Significant(all), Len(all))
  IN CASE Significant(all) = 0 -> 0
       [] Significant(all) # 0 /\ TooManyDigits(base, d) -> TooLong
       [] OTHER -> IF \E i \in 1..Len(d) : d[i] >= base THEN BadChar ELSE Sum(base, d)

----------------------------------------------------------------------------
(* Run time.                                                               *)

Init ==
  /\ pc = "start" /\ rest = 0 /\ neg = FALSE /\ digits = <<>>
  /\ rbx = 0 /\ rdi = 0 /\ len = 0 /\ num = 0
  /\ \/ /\ kind \in Kinds /\ lit = [base |-> 10, digits |-> <<>>]
        /\ arg \in [bits : 0..(Word - 1), type : Types]
        /\ text = [i \in 0..BufBytes(kind) |-> IF i = BufBytes(kind) THEN Local ELSE 255]
     \/ /\ kind = "literal" /\ lit \in Literals
        /\ arg = [bits |-> 0, type |-> "word"]
        /\ text = [i \in 0..0 |-> Local]

ParseLiteral ==
  /\ pc = "start" /\ kind = "literal"
  /\ num' = StrToU64(lit.base, lit.digits)
  /\ pc' = "parsed"
  /\ UNCHANGED <<kind, arg, rest, neg, digits, rbx, rdi, text, len, lit>>

(* The value is zero: one digit, no loop. *)
ZeroText ==
  /\ pc = "start" /\ kind # "literal" /\ ArgToReg(arg) = 0
  /\ text' = [text EXCEPT ![0] = 48, ![1] = 0]
  /\ len' = 1
  /\ pc' = "returned"
  /\ UNCHANGED <<kind, arg, rest, neg, digits, rbx, rdi, lit, num>>

(* NEG of a negative value. *)
MakeDigits ==
  /\ pc = "start" /\ kind # "literal" /\ ArgToReg(arg) # 0
  /\ neg' = IsNeg(kind, ArgToReg(arg))
  /\ rest' = IF neg' THEN Word - ArgToReg(arg) ELSE ArgToReg(arg)
  /\ pc' = "digits"
  /\ UNCHANGED <<kind, arg, digits, rbx, rdi, text, len, lit, num>>

(* Division by ten without DIV: the high word of the product with          *)
(* 0xcccccccccccccccd, shifted by three.                                   *)
Magic(w) == (8 * w + 2) \div 10
Quotient10(n, w) == ((n * Magic(w)) \div w) \div 8
Remainder10(n, w) == n - 2 * (4 * Quotient10(n, w) + Quotient10(n, w))

DigitsStep ==
  /\ pc = "digits" /\ rest # 0
  /\ LET r == Routine(kind).radix
     IN IF r = 10
        THEN /\ digits' = Append(digits, Remainder10(rest, Word))
             /\ rest' = Quotient10(rest, Word)
        ELSE /\ digits' = Append(digits, rest % r)
             /\ rest' = rest \div r
  /\ UNCHANGED <<kind, arg, pc, neg, rbx, rdi, text, len, lit, num>>

(* The sign is a digit too: 0xfd, to which 0x30 will be added. *)
DigitsEnd ==
  /\ pc = "digits" /\ rest = 0
  /\ digits' = IF neg THEN Append(digits, 253) ELSE digits
  /\ rbx' = Len(digits') - 1 /\ rdi' = 1
  /\ pc' = "reverse"
  /\ UNCHANGED <<kind, arg, rest, neg, text, len, lit, num>>

(* Slip: the digits are not copied up to the first place. *)
ReverseDone(b) == b <= 0

ReverseEnd(b) == b < 0

(* A digit becomes a character: ADD AL, 0x30, or the table of HexToStr. *)
ToChar(k, d) == IF k = "hex" THEN Char(d) ELSE (d + 48) % 256

ReverseStep ==
  /\ pc = "reverse" /\ ~ReverseEnd(rbx)
  /\ text' = [text EXCEPT ![rbx] = ToChar(kind, digits[rdi])]
  /\ rbx' = rbx - 1 /\ rdi' = rdi + 1
  /\ UNCHANGED <<kind, arg, pc, rest, neg, digits, len, lit, num>>

(* A zero is stored after the last character. *)
Epilogue ==
  /\ pc = "reverse" /\ ReverseEnd(rbx)
  /\ text' = [text EXCEPT ![Len(digits)] = 0]
  /\ len' = Len(digits)
  /\ pc' = "returned"
  /\ UNCHANGED <<kind, arg, rest, neg, digits, rbx, rdi, lit, num>>

Next ==
  \/ ParseLiteral \/ ZeroText \/ MakeDigits \/ DigitsStep \/ DigitsEnd
  \/ ReverseStep \/ Epilogue

Spec == Init /\ [][Next]_vars

----------------------------------------------------------------------------
(* Properties.                                                             *)

(* Type invariant: the digits stay in the routine's scratch area, the text *)
(* in the buffer and the byte after it.                                    *)
TypeOK ==
  /\ kind \in Kinds \cup {"literal"}
  /\ arg \in [bits : 0..(Word - 1), type : Types]
  /\ pc \in {"start", "digits", "reverse", "returned", "parsed"}
  /\ rest \in 0..(Word - 1) /\ neg \in BOOLEAN
  /\ digits \in Seq(0..255)
  /\ kind \in Kinds => /\ Len(digits) <= Routine(kind).scratch
                       /\ text \in [0..BufBytes(kind) -> 0..255]
  /\ rbx \in -1..Bits /\ rdi \in Nat /\ len \in Nat
  /\ num \in -2..(Word - 1)

ReadsAs(base, d) ==
  LET v[i \in 0..Len(d)] == IF i = 0 THEN 0 ELSE base * v[i - 1] + d[i] IN v[Len(d)]

Written == [i \in 1..len |-> text[i - 1]]

(* The digit a character stands for. *)
DigitOf(c) == IF c < 58 THEN c - 48 ELSE c - 87

(* The number a text stands for, in the base of its format. *)
Reads(chars) == ReadsAs(Routine(kind).radix, [i \in 1..Len(chars) |-> DigitOf(chars[i])])
Printed == IF Written[1] = 45 THEN -Reads(Tail(Written)) ELSE Reads(Written)

(* The number an argument is, and what a format makes of it: %i takes it   *)
(* for a signed word, the others for an unsigned one (MANUAL.md:152).      *)
Negative(a) == a.type = "i8" /\ a.bits % Byte >= Byte \div 2

Number(a) ==
  IF a.type = "word" THEN a.bits
  ELSE IF Negative(a) THEN (a.bits % Byte) - Byte ELSE a.bits % Byte

Meant(k, a) ==
  LET n == Number(a)
  IN IF Routine(k).signed THEN IF n >= Word \div 2 THEN n - Word ELSE n
     ELSE IF n < 0 THEN n + Word ELSE n

(* What the program prints is the argument's number with its sign and      *)
(* without leading zeros; only an i8 below zero is printed as the byte it  *)
(* is held in, which is another number (op.c:141, stmt.c:1195).  It is the *)
(* same text the compiler folds a known value to.                          *)
TextRight ==
  pc = "returned" =>
    /\ Written = Folded(kind, ArgToReg(arg))
    /\ Written # <<48>> => Written[1] # 48 /\ (Written[1] = 45 => Written[2] # 48)
    /\ IF Negative(arg) THEN Printed = arg.bits % Byte /\ Printed # Meant(kind, arg)
       ELSE Printed = Meant(kind, arg)

(* Printing leaves the variable next to the buffer alone, unless the text  *)
(* is binary and has every digit: then its zero falls on the variable, as  *)
(* it falls behind the compiler's own buffer when the text is folded.      *)
ZeroOverrunsOnlyFullBinary ==
  pc = "returned" =>
    LET full == kind = "bin" /\ ArgToReg(arg) >= Word \div 2
    IN /\ text[BufBytes(kind)] # Local <=> full
       /\ Len(Folded(kind, ArgToReg(arg))) + 1 > FoldedBytes(kind) <=> full

(* A literal is refused for its length only if its value does not fit, and *)
(* one that is accepted has its value, as long as no digit of base 8 or 2  *)
(* is shifted out of an int.                                               *)
LiteralRight ==
  pc = "parsed" =>
    LET v == ReadsAs(lit.base, lit.digits)
    IN /\ num = TooLong => v >= Word
       /\ num >= 0 /\ (lit.base \in {10, 16} \/ v < Pow(2, IntBits - 1)) => num = v
=============================================================================
