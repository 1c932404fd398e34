----------------------------- MODULE ExprSyntax -----------------------------
(***************************************************************************)
(* Which lexemes are an expression (MANUAL.md, Operator precedence),       *)
(* against which what the parser (ExprParse) refuses is checked: the       *)
(* loosest operator outside parentheses splits an expression, the first    *)
(* of several assignments, the last of several others.                     *)
(***************************************************************************)
EXTENDS ExprParse

(* A name is no operator: the lexer tells them apart. *)
ASSUME NamesAssumption ==
  Range(Names) \intersect
    {"*", "-", "<", "==", "&&", "||", "=", "!", "(", ")", ";"} = {}

Lexemes == Range(Names) \union Prefix \union Infix \union {"(", ")", ";"}

Looseness(x) == Precedence([lex |-> x, syntax |-> "infix"])
Depth(s, i)  == Cardinality({j \in 1..i : s[j] = "("})
                - Cardinality({j \in 1..i : s[j] = ")"})

(* Where an infix operator stands outside parentheses; the loosest ones;   *)
(* and the one that splits the expression.                                 *)
Splits(s) == {i \in 2..Len(s) : /\ s[i] \in Infix /\ Depth(s, i) = 0
                                /\ s[i - 1] \in Range(Names) \union {")"}}
Cuts(s)   == {i \in Splits(s) :
                \A j \in Splits(s) : Looseness(s[j]) <= Looseness(s[i])}
MainCut(s) == {i \in Cuts(s) : \A j \in Cuts(s) : IF s[i] = "=" THEN i <= j ELSE j <= i}

Before(s, i) == SubSeq(s, 1, i - 1)
After(s, i)  == SubSeq(s, i + 1, Len(s))
Inner(s)     == SubSeq(s, 2, Len(s) - 1)

(* A name, in any number of parentheses. *)
IsLValue(s) ==
  \E n \in 0..Len(s) :
    /\ Len(s) = 2 * n + 1 /\ s[n + 1] \in Range(Names)
    /\ \A i \in 1..n : s[i] = "(" /\ s[Len(s) + 1 - i] = ")"

(* What can be made of the expressions E with one operator more. *)
Composed(E) ==
  {s \in Seq(Lexemes) :
     \/ \E i \in MainCut(s) : /\ s[i] = "=" => IsLValue(Before(s, i))
                              /\ Before(s, i) \in E /\ After(s, i) \in E
     \/ /\ Splits(s) = {}
        /\ \/ Len(s) = 1 /\ s[1] \in Range(Names)
           \/ Len(s) > 1 /\ s[1] \in Prefix /\ Tail(s) \in E
           \/ /\ Len(s) > 2 /\ s[1] = "(" /\ Last(s) = ")"
              /\ \A i \in 1..(Len(s) - 1) : Depth(s, i) > 0
              /\ Inner(s) \in E}

Expressions[n \in Nat] == IF n = 0 THEN {} ELSE Composed(Expressions[n - 1])

(* Every operator takes a lexeme: they nest no deeper than there are some. *)
WellFormed(s) == s \in Expressions[Len(s)]

-----------------------------------------------------------------------------
(* What the parser refuses is no expression, nor will closing what is open *)
(* make it one (exp.c:466-473, 631-635, handle.c:640-643).                 *)
Closed == IF "unclosed" \in odd THEN lexemes
          ELSE lexemes \o [i \in 1..paren |-> ")"]
RefusedIsWrong == pc = "error" => ~WellFormed(Closed)
=============================================================================
