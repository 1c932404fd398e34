----------------------------- MODULE ExprParse -----------------------------
(***************************************************************************)
(* The expression parser, ba_PExp (src/parser/exp.c), with the operator    *)
(* handlers it drives (ba_POpHandle, src/parser/handle.c).                 *)
(*                                                                         *)
(* The parser reads a lexeme at a time and keeps two stacks: operators     *)
(* that wait for their right-hand side (pOpStk) and operands (pTkStk).  An *)
(* operator that arrives first makes the waiting ones that bind tighter    *)
(* emit their code.  Three more stacks carry what crosses operators: the   *)
(* label a short-circuiting operator jumps to (shortCircLblStk), and, for  *)
(* a chain such as a < b < c, the label its failing comparisons jump to    *)
(* (cmpLblStk) and the register its verdict is kept in (cmpRegStk, one     *)
(* entry for each open parenthesis).                                       *)
(*                                                                         *)
(* All the jumps of an expression go forward, so the code is run as it is  *)
(* emitted: run.skip is the label execution is on its way to, and nothing  *)
(* is executed until that label is emitted.  Registers are unlimited here; *)
(* ExprGen has their allocation.  One operator of each kind is kept, the   *)
(* operands are names, each with its own value, and calls, dereferences    *)
(* and casts are left out.                                                 *)
(***************************************************************************)
EXTENDS Integers, Sequences, FiniteSets, SequencesExt

CONSTANTS Names,      \* the names an expression uses, in this order
          Valuations, \* what they may hold: functions from DOMAIN Names
          Stale,      \* what a register may hold before it is written
          Infix,      \* the infix operators in use
          MaxLex,     \* bound: lexemes read
          MaxPrefix,  \* bound: prefix operators in an expression
          MaxParen    \* bound: left parentheses in an expression

ASSUME InputsAssumption ==
  /\ Infix \subseteq {"*", "-", "<", "==", "&&", "||", "="}
  /\ Valuations \subseteq [DOMAIN Names -> Int] /\ Stale \subseteq Int
  /\ DOMAIN Names \subseteq Nat
  /\ {MaxLex, MaxPrefix, MaxParen} \subseteq Nat

VARIABLES lexemes,     \* what has been read of the expression
          value,       \* what the names hold
          stale,       \* what an unwritten register holds
          pc,          \* read, place (an operator), end, done, none or error
          isAfterAtom, paren, pOpStk, pTkStk, cmpRegStk, cmpLblStk,
          shortCircLblStk, labelCnt, \* the fields of ba_Ctr
          op,          \* the operator being placed
          run,         \* the machine: registers, flag, jump under way, stores
          odd          \* history: what has happened that the language forbids

parsing == <<isAfterAtom, paren, pOpStk>>
chains  == <<cmpRegStk, cmpLblStk>>
vars == <<lexemes, value, stale, pc, parsing, pTkStk, chains, shortCircLblStk,
          labelCnt, op, run, odd>>

Prefix  == {"!", "-"}
Compare == {"<", "=="}
Logic   == {"&&", "||"}
NoOp    == [lex |-> ";", syntax |-> "none"]
Fixed   == <<lexemes, value, stale>>

Top(stk)    == IF stk = <<>> THEN 0 ELSE Last(stk)
SetTop(stk, v) == Append(Front(stk), v)

-----------------------------------------------------------------------------
(* Precedence and associativity: the lower the tighter. *)

Precedence(o) ==
  CASE o.syntax = "prefix"  -> IF o.lex = "(" THEN 99 ELSE 1
    [] o.syntax = "postfix" -> 100
    [] o.lex = "*" -> 3
    [] o.lex = "-" /\ o.syntax = "infix" -> 7
    [] o.lex \in Compare -> 8
    [] o.lex = "&&" -> 9
    [] o.lex = "||" -> 10
    [] o.lex = "=" -> 11

(* Slip: assignments group from the left, as the other operators. *)
NoneRightAssoc(o) == FALSE
IsRightAssoc(o) == o.lex = "="

(* Slip: an operator leaves one of its own precedence waiting. *)
HandleTighter(o, w) == Precedence(w) < Precedence(o)

(* Whether the arrival of o makes the waiting operator w emit its code. *)
WillHandle(o, w) ==
  IF IsRightAssoc(o) THEN Precedence(w) < Precedence(o)
                     ELSE Precedence(w) <= Precedence(o)

-----------------------------------------------------------------------------
(* The machine.  An operand is a name or a register. *)

Name(i) == [kind |-> "name", at |-> i, isLValue |-> TRUE]
Reg(r)  == [kind |-> "reg", at |-> r, isLValue |-> FALSE]

NoRun == [reg |-> <<>>, nz |-> FALSE, skip |-> 0, stores |-> <<>>]

(* The register an operand is put in, and the machine once it is there. *)
RegOf(m, x) == IF x.kind = "name" THEN Len(m.reg) + 1 ELSE x.at
Fetch(m, x) ==
  IF x.kind # "name" THEN m
  ELSE [m EXCEPT !.reg = Append(@, IF m.skip = 0 THEN value[x.at] ELSE stale)]

(* An instruction that sets register r and the zero flag. *)
Set(m, r, v, nz) ==
  IF m.skip # 0 THEN m ELSE [m EXCEPT !.reg[r] = v, !.nz = nz]

(* A jump taken if c holds; label 0 is never emitted, and a jump to it     *)
(* keeps its empty displacement and falls through.                         *)
JumpIf(m, c, l) ==
  IF m.skip = 0 /\ c /\ l # 0 THEN [m EXCEPT !.skip = l] ELSE m

(* Slip: the label is taken off its stack and not emitted. *)
NotEmitted(m, l) == m
Emitted(m, l) == IF m.skip = l THEN [m EXCEPT !.skip = 0] ELSE m

Store(m, i, v) ==
  IF m.skip # 0 THEN m ELSE [m EXCEPT !.stores = Append(@, <<i, v>>)]

Truth(b) == IF b THEN 1 ELSE 0

Arith(o, a, b) == IF o = "*" THEN a * b ELSE a - b
Holds(o, a, b) == IF o = "<" THEN a < b ELSE a = b

(* AND and OR of two registers: what && and || do to their operands.  Only *)
(* whether some bit of the result is set matters: the flag is read, and    *)
(* the register overwritten.  A word of eight bits holds every operand.    *)
IsSet(a, k) == (a \div 2^k) % 2 = 1
Bits(o, a, b) ==
  Truth(\E k \in 0..7 : IF o = "&&" THEN IsSet(a, k) /\ IsSet(b, k)
                                    ELSE IsSet(a, k) \/ IsSet(b, k))

-----------------------------------------------------------------------------
Init ==
  /\ lexemes = <<>> /\ value \in Valuations /\ stale \in Stale
  /\ pc = "read" /\ isAfterAtom = FALSE /\ paren = 0
  /\ pOpStk = <<>> /\ pTkStk = <<>> /\ cmpRegStk = <<0>> /\ cmpLblStk = <<>>
  /\ shortCircLblStk = <<>> /\ labelCnt = 1 /\ op = NoOp
  /\ run = NoRun /\ odd = {}

Used(S) == Cardinality({i \in DOMAIN lexemes : lexemes[i] \in S})
Read(x) == Len(lexemes) < MaxLex /\ lexemes' = Append(lexemes, x)
Keep == UNCHANGED <<value, stale>>

(* An atom, where an expression is expected. *)
Atom ==
  /\ pc = "read" /\ ~isAfterAtom
  /\ \E i \in DOMAIN Names :
       /\ i = Used(Range(Names)) + 1
       /\ Read(Names[i])
       /\ pTkStk' = Append(pTkStk, Name(i))
  /\ isAfterAtom' = TRUE
  /\ Keep /\ UNCHANGED <<pc, paren, pOpStk, chains, shortCircLblStk, labelCnt,
                          op, run, odd>>

(* A prefix operator or a left parenthesis, which opens a frame for chains. *)
PrefixOp ==
  /\ pc = "read" /\ ~isAfterAtom
  /\ \E x \in Prefix \union {"("} :
       /\ IF x = "(" THEN Used({"("}) < MaxParen
          ELSE Cardinality({i \in DOMAIN lexemes : /\ lexemes[i] \in Prefix
                 /\ (i = 1 \/ lexemes[i - 1] \notin Range(Names) \union {")"})})
                 < MaxPrefix
       /\ Read(x)
       /\ pOpStk' = Append(pOpStk, [lex |-> x, syntax |-> "prefix"])
       /\ paren' = IF x = "(" THEN paren + 1 ELSE paren
       /\ cmpRegStk' = IF x = "(" THEN Append(cmpRegStk, 0) ELSE cmpRegStk
  /\ Keep /\ UNCHANGED <<pc, isAfterAtom, pTkStk, cmpLblStk, shortCircLblStk,
                          labelCnt, op, run, odd>>

(* Anything else there, of which ; stands for all but ): an error, or no   *)
(* expression at all.                                                      *)
NotAnAtom ==
  /\ pc = "read" /\ ~isAfterAtom
  /\ \E x \in {")", ";"} : Read(x)
  /\ pc' = IF pOpStk # <<>> THEN "error" ELSE "none"
  /\ Keep /\ UNCHANGED <<parsing, pTkStk, chains, shortCircLblStk, labelCnt,
                          op, run, odd>>

(* An infix operator after an operand. *)
InfixOp ==
  /\ pc = "read" /\ isAfterAtom
  /\ \E x \in Infix : Read(x) /\ op' = [lex |-> x, syntax |-> "infix"]
  /\ pc' = "place"
  /\ Keep /\ UNCHANGED <<parsing, pTkStk, chains, shortCircLblStk, labelCnt,
                          run, odd>>

(* A right parenthesis of this expression. *)
CloseParen ==
  /\ pc = "read" /\ isAfterAtom /\ paren > 0
  /\ Read(")")
  /\ op' = [lex |-> ")", syntax |-> "postfix"] /\ paren' = paren - 1
  /\ pc' = "place"
  /\ Keep /\ UNCHANGED <<isAfterAtom, pOpStk, pTkStk, chains, shortCircLblStk,
                          labelCnt, run, odd>>

(* Any lexeme that cannot go on with the expression ends it, and is left.  *)
(* The parser does not ask whether its parentheses have been closed.       *)
Stop ==
  /\ pc = "read" /\ isAfterAtom
  /\ pc' = "end" /\ op' = NoOp
  /\ odd' = IF paren # 0 THEN odd \union {"unclosed"} ELSE odd
  /\ UNCHANGED <<Fixed, parsing, pTkStk, chains, shortCircLblStk, labelCnt,
                 run>>

-----------------------------------------------------------------------------
(* Handling: the top of pOpStk emits its code. *)

Handling(S) ==
  /\ pOpStk # <<>> /\ Last(pOpStk).lex \in S
  /\ \/ pc = "end"
     \/ pc = "place" /\ WillHandle(op, Last(pOpStk))

Lhs == pTkStk[Len(pTkStk) - 1]
Rhs == Last(pTkStk)
Push(n, x) == pTkStk' = Append(SubSeq(pTkStk, 1, Len(pTkStk) - n), x)

(* Both operands in registers. *)
Both == Fetch(Fetch(run, Lhs), Rhs)
RegL == RegOf(run, Lhs)
RegR == RegOf(Fetch(run, Lhs), Rhs)

PrefixDone(m, r, o) ==
  IF o = "!" THEN Set(m, r, Truth(m.reg[r] = 0), m.reg[r] # 0)
             ELSE Set(m, r, -m.reg[r], m.reg[r] # 0)

HandlePrefix ==
  /\ Handling(Prefix) /\ Last(pOpStk).syntax = "prefix"
  /\ run' = PrefixDone(Fetch(run, Rhs), RegOf(run, Rhs), Last(pOpStk).lex)
  /\ Push(1, Reg(RegOf(run, Rhs)))
  /\ pOpStk' = Front(pOpStk)
  /\ UNCHANGED <<Fixed, pc, isAfterAtom, paren, chains, shortCircLblStk,
                 labelCnt, op, odd>>

ArithDone(m, l, r, o) ==
  Set(m, l, Arith(o, m.reg[l], m.reg[r]), Arith(o, m.reg[l], m.reg[r]) # 0)

HandleArith ==
  /\ Handling({"*", "-"}) /\ Last(pOpStk).syntax = "infix"
  /\ run' = ArithDone(Both, RegL, RegR, Last(pOpStk).lex)
  /\ Push(2, Reg(RegL))
  /\ pOpStk' = Front(pOpStk)
  /\ UNCHANGED <<Fixed, pc, isAfterAtom, paren, chains, shortCircLblStk,
                 labelCnt, op, odd>>

(* The bitwise operation; then the label of the jump that skips it, where  *)
(* the result is made of the zero flag.                                    *)
BitsDone(m, l, r, o) ==
  Set(m, l, Bits(o, m.reg[l], m.reg[r]), Bits(o, m.reg[l], m.reg[r]) # 0)
SetNonZero(m, r) == Set(m, r, Truth(m.nz), m.nz)
LogicDone(m, l, r, o, lbl) == SetNonZero(Emitted(BitsDone(m, l, r, o), lbl), l)

HandleLogic ==
  /\ Handling(Logic)
  /\ run' = LogicDone(Both, RegL, RegR, Last(pOpStk).lex, Top(shortCircLblStk))
  /\ odd' = IF /\ run.skip = 0 /\ Last(pOpStk).lex = "&&"
               /\ Both.reg[RegL] # 0 /\ Both.reg[RegR] # 0
               /\ Bits("&&", Both.reg[RegL], Both.reg[RegR]) = 0
            THEN odd \union {"bits"} ELSE odd
  /\ shortCircLblStk' = Front(shortCircLblStk)
  /\ Push(2, Reg(RegL))
  /\ pOpStk' = Front(pOpStk)
  /\ UNCHANGED <<Fixed, pc, isAfterAtom, paren, chains, labelCnt, op>>

(* The register that has the verdict of the chain, and the verdict in it. *)
MovReg == IF Top(cmpRegStk) # 0 THEN Top(cmpRegStk) ELSE RegL
Compared(m, l, r, o, to) ==
  Set(m, to, Truth(Holds(o, m.reg[l], m.reg[r])), m.reg[l] # m.reg[r])
Failed(m, l, r, o) == ~Holds(o, m.reg[l], m.reg[r])

(* A comparison another comparison follows: the first of a chain keeps its *)
(* verdict and opens the label; the right operand waits for the next one.  *)
HandleCompareInChain ==
  /\ Handling(Compare) /\ op.lex \in Compare
  /\ IF Top(cmpRegStk) = 0
     THEN /\ pTkStk' = SubSeq(pTkStk, 1, Len(pTkStk) - 2) \o <<Reg(RegL), Rhs>>
          /\ cmpLblStk' = Append(cmpLblStk, labelCnt)
          /\ labelCnt' = labelCnt + 1
          /\ cmpRegStk' = SetTop(cmpRegStk, RegL)
     ELSE Push(2, Rhs) /\ UNCHANGED <<cmpLblStk, labelCnt, cmpRegStk>>
  /\ run' = JumpIf(Compared(Both, RegL, RegR, Last(pOpStk).lex, MovReg),
                   Failed(Both, RegL, RegR, Last(pOpStk).lex), Top(cmpLblStk'))
  /\ pOpStk' = Front(pOpStk)
  /\ UNCHANGED <<Fixed, pc, isAfterAtom, paren, shortCircLblStk, op, odd>>

(* A comparison nothing follows.  It emits the label on top of cmpLblStk   *)
(* whether or not its own chain has opened it.                             *)
HandleCompareLast ==
  /\ Handling(Compare) /\ op.lex \notin Compare
  /\ run' = Emitted(Compared(Both, RegL, RegR, Last(pOpStk).lex, MovReg),
                    Top(cmpLblStk))
  /\ IF Top(cmpRegStk) = 0 THEN Push(2, Reg(RegL))
     ELSE pTkStk' = SubSeq(pTkStk, 1, Len(pTkStk) - 2)
  /\ odd' = IF Top(cmpRegStk) = 0 /\ cmpLblStk # <<>>
            THEN odd \union {"stolen"} ELSE odd
  /\ cmpLblStk' = IF cmpLblStk = <<>> THEN <<>> ELSE Front(cmpLblStk)
  /\ cmpRegStk' = SetTop(cmpRegStk, 0)
  /\ pOpStk' = Front(pOpStk)
  /\ UNCHANGED <<Fixed, pc, isAfterAtom, paren, shortCircLblStk, labelCnt, op>>

AssignDone(m, i, r) == Store(m, i, m.reg[r])

HandleAssign ==
  /\ Handling({"="})
  /\ IF Lhs.isLValue
     THEN /\ run' = AssignDone(Fetch(run, Rhs), Lhs.at, RegOf(run, Rhs))
          /\ Push(2, Reg(RegOf(run, Rhs)))
          /\ pOpStk' = Front(pOpStk)
          /\ UNCHANGED pc
     ELSE pc' = "error" /\ UNCHANGED <<run, pTkStk, pOpStk>>
  /\ UNCHANGED <<Fixed, isAfterAtom, paren, chains, shortCircLblStk, labelCnt,
                 op, odd>>

(* Slip: the frame of a parenthesis outlives it. *)
FrameKept(frames) == frames
FrameClosed(frames) == Front(frames)

(* A left parenthesis: a right one closes its frame of chains and goes on  *)
(* as after an atom; the end of the expression just drops it.              *)
HandleParen ==
  /\ Handling({"("})
  /\ pOpStk' = Front(pOpStk)
  /\ IF pc = "place" THEN pc' = "read" /\ cmpRegStk' = FrameClosed(cmpRegStk)
                     ELSE UNCHANGED <<pc, cmpRegStk>>
  /\ UNCHANGED <<Fixed, isAfterAtom, paren, pTkStk, cmpLblStk, shortCircLblStk,
                 labelCnt, op, run, odd>>

Handle == \/ HandlePrefix \/ HandleArith \/ HandleLogic \/ HandleAssign
          \/ HandleCompareInChain \/ HandleCompareLast \/ HandleParen

-----------------------------------------------------------------------------
(* The operator has made the others emit their code, and now waits.  For   *)
(* && and || the left operand is tested and the right one jumped over.     *)
Tested(m, r, o, lbl) ==
  JumpIf(Set(m, r, m.reg[r], m.reg[r] # 0),
         IF o = "&&" THEN m.reg[r] = 0 ELSE m.reg[r] # 0, lbl)

Place ==
  /\ pc = "place"
  /\ ~(pOpStk # <<>> /\ WillHandle(op, Last(pOpStk)))
  /\ IF op.lex \in Logic
     THEN /\ run' = Tested(Fetch(run, Rhs), RegOf(run, Rhs), op.lex, labelCnt)
          /\ Push(1, [Rhs EXCEPT !.kind = "reg", !.at = RegOf(run, Rhs)])
          /\ shortCircLblStk' = Append(shortCircLblStk, labelCnt)
          /\ labelCnt' = labelCnt + 1
     ELSE UNCHANGED <<run, pTkStk, shortCircLblStk, labelCnt>>
  /\ pOpStk' = Append(pOpStk, op)
  /\ isAfterAtom' = FALSE
  /\ pc' = "read"
  /\ UNCHANGED <<Fixed, paren, chains, op, odd>>

(* All handled.  Only an expression whose parentheses are closed resets    *)
(* what the next one starts from.                                          *)
End ==
  /\ pc = "end" /\ pOpStk = <<>>
  /\ pc' = "done"
  /\ IF paren # 0 THEN UNCHANGED chains
                  ELSE cmpLblStk' = <<>> /\ cmpRegStk' = <<0>>
  /\ UNCHANGED <<Fixed, parsing, pTkStk, shortCircLblStk, labelCnt, op, run,
                 odd>>

Next == \/ Atom \/ PrefixOp \/ NotAnAtom \/ InfixOp \/ CloseParen \/ Stop
        \/ Handle \/ Place \/ End

Spec == Init /\ [][Next]_vars

-----------------------------------------------------------------------------
(* Types. *)
TypeOK ==
  /\ pc \in {"read", "place", "end", "done", "none", "error"}
  /\ paren \in 0..MaxParen
  /\ pc \in {"read", "place"} =>
       Len(cmpRegStk) - 1 = IF pc = "place" /\ op.lex = ")" THEN paren + 1
                                                            ELSE paren
  /\ \A i \in DOMAIN pTkStk : pTkStk[i].kind = "reg" => pTkStk[i].at \in DOMAIN run.reg
  /\ odd \subseteq {"unclosed", "bits", "stolen"}

(* Every jump taken is to a label that will come: one of the two stacks    *)
(* still has it (exp.c:648-678, handle.c:976-1000, op.c:285).              *)
JumpHasLabel ==
  run.skip # 0 => run.skip \in Range(shortCircLblStk) \union Range(cmpLblStk)

(* What a finished expression leaves: no label of && or ||, and, when its  *)
(* parentheses are closed, one operand and no jump past its end            *)
(* (exp.c:711-737).                                                        *)
NothingPending ==
  pc = "done" => /\ shortCircLblStk = <<>>
                 /\ paren = 0 => Len(pTkStk) = 1 /\ run.skip = 0
=============================================================================
