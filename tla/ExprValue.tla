----------------------------- MODULE ExprValue -----------------------------
(***************************************************************************)
(* What an expression is worth, against which the code that the parser     *)
(* (ExprParse) emits for it is checked.                                    *)
(***************************************************************************)
EXTENDS ExprSyntax, FiniteSetsExt

-----------------------------------------------------------------------------
(* What the manual says an expression is worth (MANUAL.md, Operator        *)
(* precedence): the comparisons of a chain are all to hold, and are tried  *)
(* from the left until one fails.                                          *)

(* The worth of an expression that is written right, and its stores. *)
RECURSIVE Worth(_), Effect(_), ChainWorth(_, _), ChainEffect(_, _)

Cut(s) == CHOOSE i \in MainCut(s) : TRUE

(* The operand of a chain after its cut i, and the next cut. *)
NextCut(s, i) == Min({j \in Cuts(s) : j > i} \union {Len(s) + 1})
Operand(s, i) == SubSeq(s, i + 1, NextCut(s, i) - 1)

(* What the chain is worth from cut i on, where the operand before is worth v. *)
ChainWorth(s, i) ==
  LET cuts == {j \in Cuts(s) \union {0} : j < i}
      v == Worth(Operand(s, Max(cuts)))
  IN  IF ~Holds(s[i], v, Worth(Operand(s, i))) THEN 0
      ELSE IF NextCut(s, i) > Len(s) THEN 1 ELSE ChainWorth(s, NextCut(s, i))

ChainEffect(s, i) ==
  LET cuts == {j \in Cuts(s) \union {0} : j < i}
      v == Worth(Operand(s, Max(cuts)))
  IN  Effect(Operand(s, i)) \o
      IF ~Holds(s[i], v, Worth(Operand(s, i))) \/ NextCut(s, i) > Len(s)
      THEN <<>> ELSE ChainEffect(s, NextCut(s, i))

Worth(s) ==
  IF Splits(s) # {}
  THEN LET i == Cut(s)
           l == Before(s, i)
           r == After(s, i)
       IN  CASE s[i] = "=" -> Worth(r)
             [] s[i] = "&&" -> Truth(Worth(l) # 0 /\ Worth(r) # 0)
             [] s[i] = "||" -> Truth(Worth(l) # 0 \/ Worth(r) # 0)
             [] s[i] \in Compare -> ChainWorth(s, Min(Cuts(s)))
             [] OTHER -> Arith(s[i], Worth(l), Worth(r))
  ELSE CASE s[1] = "!" -> Truth(Worth(Tail(s)) = 0)
         [] s[1] = "-" -> -Worth(Tail(s))
         [] s[1] = "(" -> Worth(SubSeq(s, 2, Len(s) - 1))
         [] OTHER -> value[CHOOSE k \in DOMAIN Names : Names[k] = s[1]]

Effect(s) ==
  IF Splits(s) # {}
  THEN LET i == Cut(s)
           l == Before(s, i)
           r == After(s, i)
       IN  CASE s[i] = "=" -> Append(Effect(r),
                  <<CHOOSE k \in DOMAIN Names : \E j \in 1..(i - 1) :
                      s[j] = Names[k], Worth(r)>>)
             [] s[i] = "&&" -> Effect(l) \o
                  (IF Worth(l) = 0 THEN <<>> ELSE Effect(r))
             [] s[i] = "||" -> Effect(l) \o
                  (IF Worth(l) # 0 THEN <<>> ELSE Effect(r))
             [] s[i] \in Compare ->
                  Effect(Operand(s, 0)) \o ChainEffect(s, Min(Cuts(s)))
             [] OTHER -> Effect(l) \o Effect(r)
  ELSE IF s[1] \in Prefix THEN Effect(Tail(s))
  ELSE IF s[1] = "(" THEN Effect(SubSeq(s, 2, Len(s) - 1)) ELSE <<>>

-----------------------------------------------------------------------------
(* The code of an expression computes what the manual says of it, and      *)
(* stores what it says in that order, each operand run exactly when it is  *)
(* to be (ba_PExp, ba_POpHandle): unless its parentheses are left open, a  *)
(* && meets two operands with no bit in common, or a chain has a           *)
(* comparison in parentheses among its later operands.                     *)
ResultOf == IF Rhs.kind = "name" THEN value[Rhs.at] ELSE run.reg[Rhs.at]

ValueRight ==
  pc = "done" /\ odd = {} =>
    /\ Len(pTkStk) = 1 /\ run.skip = 0
    /\ WellFormed(lexemes)
    /\ ResultOf = Worth(lexemes)
    /\ run.stores = Effect(lexemes)
=============================================================================
