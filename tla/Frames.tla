------------------------------- MODULE Frames -------------------------------
(***************************************************************************)
(* Scopes, stack frames and variable addresses of a compiled program.      *)
(*                                                                         *)
(* The compiler is one-pass: while it parses a statement it updates its    *)
(* chain of symbol tables (ba_SymTable) and appends instructions that move *)
(* RSP and RBP.  Every address it emits rests on an unwritten agreement    *)
(* between the two: where it emits code in a scope with dataSize d, RSP    *)
(* will be d below the place the scope began, and RBP will be the frame    *)
(* of ba_SymTable.frameScope.  The code keeps it for variables, but it     *)
(* also counts in dataSize every array a call returns, which the end of    *)
(* the expression has released.  This module runs both together: a state   *)
(* is a point of a running program, with the compile-time scope chain of   *)
(* that point and the run-time registers and stack that the emitted code   *)
(* has produced.  The loops of the compiler that emit one instruction      *)
(* group per scope (return, break, goto, call, variable access) are run    *)
(* one iteration per step.                                                 *)
(***************************************************************************)
EXTENDS Integers, Sequences

CONSTANTS
  WordSize,   \* bytes in a stack word (8 in the code; smaller in the models)
  StackSize,  \* bound: bytes of stack that the model follows
  VarSizes,   \* sizes of the variables a program declares
  ArgSizes,   \* total sizes of the arguments of a call
  SaveSizes,  \* bytes of live registers that a call pushes first
  RetSizes,   \* sizes of returned arrays (0: the value is returned in RAX)
  MaxScopes,  \* bound: open scopes
  MaxData,    \* bound: bytes of variables of a scope, and of returned arrays
  Garbage     \* content of a word that holds no frame link

ASSUME FramesAssumption ==
  /\ WordSize \in Nat \ {0}
  /\ StackSize \in Nat
  /\ VarSizes \subseteq Nat \ {0}
  /\ ArgSizes \subseteq Nat
  /\ SaveSizes \subseteq Nat
  /\ RetSizes \subseteq Nat
  /\ MaxScopes \in Nat
  /\ MaxData \in Nat
  /\ Garbage \notin Int

VARIABLES
  scopes,     \* the open scope instances, outermost first
  mem,        \* the stack: the word that starts at each address
  rsp, rbp,   \* the registers
  pc,         \* "run", or the statement whose emitted code is under way
  loc,        \* the local variables of the loop that emits that code
  cause       \* ghost: "none", or the statement that left the frames unbalanced

vars == <<scopes, mem, rsp, rbp, pc, loc, cause>>
machine == <<mem, rsp, rbp>>
-----------------------------------------------------------------------------
Addr == -StackSize..0
Word == Int \cup {Garbage}

\* A symbol table while its scope is open.  data is the bytes of its variables
\* and arrays those of the arrays returned to it: dataSize counts both, the
\* stack holds the former.  last is the address of the variable declared last.
\* part is the part of a loop that runs.  base, ret, saves and args are run-time
\* facts (where RSP was on entry; what the call pushed); loop is the innermost
\* entry of pBreakStk; anc is the chain of parents as a set.
Scope == [kind : {"global", "block", "loop", "func"}, data : Nat, arrays : Nat,
          last : Nat, part : {"condition", "body", "iteration"}, base : Int,
          parent : Nat, frameScope : Nat, func : Nat, loop : Nat,
          anc : SUBSET Nat, args : Nat, saves : Nat, ret : Nat]

Global == [kind |-> "global", data |-> 0, arrays |-> 0, last |-> 0,
           part |-> "body", base |-> 0, parent |-> 0,
           frameScope |-> 0, func |-> 0, loop |-> 0, anc |-> {1},
           args |-> 0, saves |-> 0, ret |-> 0]

cur == Len(scopes)
currScope == scopes[cur]
HasLink(k) == scopes[k].kind \in {"loop", "func"}       \* hasFramePtrLink
LinkSize(k) == IF HasLink(k) THEN WordSize ELSE 0

\* Where the variables of scope k end; the dataSize the compiler reckons with.
Edge(k) == scopes[k].base - scopes[k].data
DataSize(k) == scopes[k].data + scopes[k].arrays

\* The frame of scope k.
FrameOf(f) == IF f = 0 THEN 0 ELSE scopes[f].base
Fp(k) == FrameOf(scopes[k].frameScope)

Idle == [at |-> 0, goal |-> 0, id |-> 0, addr |-> 0, links |-> 0,
         pushed |-> FALSE, crossed |-> 0, lost |-> FALSE,
         args |-> 0, saves |-> 0, ret |-> 0, data |-> 0, arrays |-> 0]

\* ba_SymTableAddChild: a child inherits func and frameScope; a loop or a
\* func then sets frameScope to itself, a func also func.
Child(kind, p, base, call) ==
  LET new == cur + 1
      inherited == scopes[p]
  IN [kind |-> kind, data |-> 0, arrays |-> 0, last |-> 0,
      part |-> IF kind = "loop" THEN "condition" ELSE "body",
      base |-> base, parent |-> p,
      frameScope |-> IF kind = "block" THEN inherited.frameScope ELSE new,
      func |-> IF kind = "func" THEN new ELSE inherited.func,
      loop |-> CASE kind = "loop" -> new
                 [] kind = "func" -> 0
                 [] OTHER -> inherited.loop,
      anc |-> inherited.anc \cup {new},
      args |-> call.args, saves |-> call.saves, ret |-> call.ret]
-----------------------------------------------------------------------------
(* The instructions on the stack. *)

Load(a) == IF a \in Addr THEN mem[a] ELSE Garbage
Plus(a, n) == IF a = Garbage THEN Garbage ELSE a + n

\* Writing bytes lo..lo+n-1 destroys every word that overlaps them.
Clobber(m, lo, n) ==
  [a \in Addr |-> IF a > lo - WordSize /\ a < lo + n THEN Garbage ELSE m[a]]
Store(m, a, v) == [Clobber(m, a, WordSize) EXCEPT ![a] = v]

\* What lies below RSP is not the program's any more.
Freed(m, sp) ==
  [a \in Addr |-> IF sp = Garbage \/ a < sp THEN Garbage ELSE m[a]]

Room(n) == rsp - n >= -StackSize
-----------------------------------------------------------------------------
Init ==
  /\ scopes = <<Global>>
  /\ mem = [a \in Addr |-> Garbage]
  /\ rsp = 0 /\ rbp = 0
  /\ pc = "run" /\ loc = Idle
  /\ cause = "none"

Running == pc = "run" /\ cause = "none"
InBody == Running /\ currScope.part = "body"
Steady == UNCHANGED <<pc, loc, cause>>

\* The scopes whose names an expression may use: a loop's condition and its
\* iteration expression are compiled before the body has declared anything.
Visible == IF currScope.part = "body" THEN currScope.anc
           ELSE currScope.anc \ {cur}

\* What the arrays returned to a scope may add up to.
ArraySums == IF RetSizes \subseteq {0} THEN {0} ELSE 0..MaxData

\* The current scope's instance is dropped.
Leave == scopes' = SubSeq(scopes, 1, currScope.parent)

\* MOV RSP, RBP; POP RBP.
PopFrame ==
  /\ rsp' = Plus(rbp, WordSize) /\ rbp' = Load(rbp)
  /\ mem' = Freed(mem, rsp')

\* "{", or the "," of if, elif, else: a scope with no frame of its own.
OpenBlock ==
  /\ InBody /\ cur < MaxScopes
  /\ scopes' = Append(scopes, Child("block", cur, rsp, Idle))
  /\ UNCHANGED machine /\ Steady

\* Slip: the variables of the block stay on the stack.
CloseBlockKeeps ==
  /\ InBody /\ currScope.kind = "block"
  /\ Leave /\ UNCHANGED machine /\ Steady

\* "}": the scope's variables are dropped with ADD RSP, dataSize, and with
\* them as many bytes of the scopes around as arrays were returned.
CloseBlock ==
  /\ InBody /\ currScope.kind = "block"
  /\ Leave
  /\ rsp' = rsp + DataSize(cur) /\ mem' = Freed(mem, rsp')
  /\ cause' = IF currScope.arrays = 0 THEN cause ELSE "array"
  /\ UNCHANGED <<rbp, pc, loc>>

\* "while": PUSH RBP; MOV RBP, RSP; condition and body are in a scope with a
\* frame.
OpenLoop ==
  /\ InBody /\ cur < MaxScopes /\ Room(WordSize)
  /\ mem' = Store(mem, rsp - WordSize, rbp)
  /\ rsp' = rsp - WordSize /\ rbp' = rsp - WordSize
  /\ scopes' = Append(scopes, Child("loop", cur, rsp - WordSize, Idle))
  /\ Steady

\* The condition is true.  The iteration expression has been compiled already:
\* ret bytes of arrays it will return are counted before the body.
EnterBody(ret) ==
  /\ Running /\ currScope.part = "condition"
  /\ currScope.arrays + ret <= MaxData
  /\ scopes' = [scopes EXCEPT
                   ![cur] = [currScope EXCEPT !.part = "body",
                                              !.arrays = @ + ret]]
  /\ UNCHANGED machine /\ Steady

\* The condition is false: the loop is left.
ExitLoop ==
  /\ Running /\ currScope.kind = "loop" /\ currScope.part = "condition"
  /\ Leave /\ PopFrame
  /\ Steady

\* After the body comes the code of the iteration expression, if there is one.
StartIteration ==
  /\ InBody /\ currScope.kind = "loop"
  /\ scopes' = [scopes EXCEPT ![cur].part = "iteration"]
  /\ UNCHANGED machine /\ Steady

\* MOV RSP, RBP; JMP to the condition, where the loop has no variable.
NextIteration ==
  /\ Running /\ currScope.kind = "loop" /\ currScope.part # "condition"
  /\ rsp' = rbp /\ mem' = Freed(mem, rsp')
  /\ scopes' = [scopes EXCEPT
                   ![cur] = [currScope EXCEPT !.part = "condition", !.data = 0,
                                              !.arrays = 0, !.last = 0]]
  /\ UNCHANGED rbp /\ Steady

\* The condition of an elif is jumped over, an earlier one being true: the
\* arrays it would return are counted all the same.
SkipCondition(ret) ==
  /\ InBody /\ ret # 0 /\ currScope.arrays + ret <= MaxData
  /\ scopes' = [scopes EXCEPT ![cur].arrays = @ + ret]
  /\ UNCHANGED machine /\ Steady

\* Slip: dataSize grows, RSP does not move.
DeclareNoRoom(n, own) ==
  /\ InBody /\ Room(n) /\ currScope.data + n <= MaxData
  /\ own <= currScope.arrays
  /\ scopes' = [scopes EXCEPT
                   ![cur] = [currScope EXCEPT !.data = @ + n,
                                        !.last = DataSize(cur) - own + n]]
  /\ UNCHANGED machine /\ Steady

\* VarDef: PUSH, DEC RSP or SUB RSP, by the size of the variable.  Its address
\* is set before the initializer is compiled, so that it leaves out the own
\* bytes of arrays that were returned in there.
Declare(n, own) ==
  /\ InBody /\ Room(n) /\ currScope.data + n <= MaxData
  /\ own <= currScope.arrays
  /\ mem' = Clobber(mem, rsp - n, n)
  /\ rsp' = rsp - n
  /\ scopes' = [scopes EXCEPT
                   ![cur] = [currScope EXCEPT !.data = @ + n,
                                        !.last = DataSize(cur) - own + n]]
  /\ UNCHANGED rbp /\ Steady

\* "exit", or the end of the program.
Exit ==
  /\ InBody
  /\ pc' = "halted"
  /\ UNCHANGED <<scopes, mem, rsp, rbp, loc, cause>>
-----------------------------------------------------------------------------
(* Calls.  d is the scope that holds the func, visible from currScope.     *)

\* Slip: RBP is not saved around the walk to the static link.
CallBeginNoPush(d, args, saves, ret) ==
  LET below == rsp - ret - saves - args
  IN /\ Running /\ d \in Visible /\ cur < MaxScopes
     /\ currScope.arrays + ret <= MaxData
     /\ Room(ret + saves + args + 4 * WordSize)
     /\ mem' = Clobber(mem, below, ret + saves + args)
     /\ rsp' = below
     /\ pc' = "hop"
     /\ loc' = [Idle EXCEPT !.at = currScope.frameScope, !.goal = d,
                  !.args = args, !.saves = saves, !.ret = ret]
     /\ UNCHANGED <<scopes, rbp, cause>>

\* Room for a returned array, live registers, arguments; then RBP is saved
\* if the frame of d is not the current one.  imStackSize counts the first two.
CallBegin(d, args, saves, ret) ==
  LET below == rsp - ret - saves - args
      push == currScope.frameScope # scopes[d].frameScope
      pushed == Clobber(mem, below, ret + saves + args)
  IN /\ Running /\ d \in Visible /\ cur < MaxScopes
     /\ currScope.arrays + ret <= MaxData
     /\ Room(ret + saves + args + 4 * WordSize)
     /\ mem' = IF push THEN Store(pushed, below - WordSize, rbp) ELSE pushed
     /\ rsp' = IF push THEN below - WordSize ELSE below
     /\ pc' = "hop"
     /\ loc' = [Idle EXCEPT !.at = currScope.frameScope, !.goal = d,
                  !.pushed = push, !.args = args, !.saves = saves, !.ret = ret]
     /\ UNCHANGED <<scopes, rbp, cause>>

\* MOV RBP, [RBP] for each frame between the caller and the func's scope.
Hop ==
  /\ pc = "hop" /\ loc.at # scopes[loc.goal].frameScope
  /\ rbp' = Load(rbp)
  /\ loc' = [loc EXCEPT !.at = scopes[scopes[loc.at].parent].frameScope]
  /\ UNCHANGED <<scopes, mem, rsp, pc, cause>>

\* The static link is stored where the callee's frame will be; RBP is
\* restored; CALL; the callee pushes the dynamic link and enters its frame.
CallEnter ==
  LET top == IF loc.pushed THEN rsp + WordSize ELSE rsp
      caller == IF loc.pushed THEN Load(rsp) ELSE rbp
      base == top - 3 * WordSize
      linked == Store(mem, base, rbp)
      called == Clobber(linked, top - WordSize, WordSize)
  IN /\ pc = "hop" /\ loc.at = scopes[loc.goal].frameScope
     /\ mem' = Store(called, top - 2 * WordSize, caller)
     /\ rsp' = base /\ rbp' = base
     /\ scopes' = Append(scopes, Child("func", loc.goal, base, loc))
     /\ pc' = "run" /\ loc' = Idle /\ UNCHANGED cause
-----------------------------------------------------------------------------
(* Leaving scopes.  currScope itself stands for the compiler's local       *)
(* variable scope: leaving a scope drops its instance.                     *)

\* "return", or the end of a func's body.
ReturnBegin ==
  /\ InBody /\ currScope.func # 0
  /\ pc' = "return" /\ loc' = [Idle EXCEPT !.goal = currScope.func]
  /\ UNCHANGED <<scopes, machine, cause>>

\* Slip: RBP is restored for scopes without a frame, too.
LeaveAnyScope ==
  /\ pc \in {"return", "goto"} /\ cur # loc.goal
  /\ Leave /\ PopFrame
  /\ UNCHANGED <<pc, loc, cause>>

\* return and goto restore RBP once for each scope they leave that has a frame.
LeaveScope ==
  /\ pc \in {"return", "goto"} /\ cur # loc.goal
  /\ Leave
  /\ IF HasLink(cur) THEN PopFrame ELSE UNCHANGED machine
  /\ UNCHANGED <<pc, loc, cause>>

\* lblEnd: MOV RSP, RBP; POP RBP; POP RBP; RET; then, in the caller, ADD RSP
\* over arguments and array.  Registers are restored, or else the array is taken
\* back with SUB RSP and added to dataSize; what is left of the array and of the
\* registers goes when the expression ends with ADD RSP, imStackSize.
Return ==
  LET argsEnd == rbp + 3 * WordSize + currScope.args
  IN /\ pc = "return" /\ cur = loc.goal
     /\ rbp' = Load(rbp + WordSize)
     /\ rsp' = argsEnd + currScope.saves + currScope.ret
     /\ scopes' = [SubSeq(scopes, 1, cur - 1) EXCEPT
                      ![cur - 1].arrays = @ + currScope.ret]
     /\ pc' = "run" /\ loc' = Idle
     /\ mem' = Freed(mem, rsp')
     /\ UNCHANGED cause

\* A call for an array in an operand that && or || skips: it is counted in
\* dataSize, and the end of the expression releases what it did not take.
SkipCall(saves, ret) ==
  /\ Running /\ ret # 0 /\ currScope.arrays + ret <= MaxData
  /\ scopes' = [scopes EXCEPT ![cur].arrays = @ + ret]
  /\ rsp' = rsp + saves + ret /\ mem' = Freed(mem, rsp')
  /\ cause' = "array"
  /\ UNCHANGED <<rbp, pc, loc>>

BreakBegin ==
  /\ InBody /\ currScope.loop # 0
  /\ pc' = "break" /\ loc' = [Idle EXCEPT !.goal = currScope.loop]
  /\ cause' = IF cur = currScope.loop THEN cause ELSE "break"
  /\ UNCHANGED <<scopes, machine>>

\* break restores RBP once for each scope it leaves, with or without a frame.
BreakScope ==
  /\ pc = "break" /\ cur # loc.goal
  /\ Leave /\ PopFrame
  /\ UNCHANGED <<pc, loc, cause>>

\* JMP to the end of the loop, whose code leaves the frame of the loop.
Break ==
  /\ pc = "break" /\ cur = loc.goal
  /\ Leave /\ PopFrame
  /\ pc' = "run" /\ loc' = Idle
  /\ UNCHANGED cause

\* A goto that the emitted code supports: within the func, to a point where
\* the label's scope has the variables it has now, leaving no variable behind
\* in the other scopes of the label's frame.
IsBalanced(t, data) ==
  /\ scopes[t].func = currScope.func
  /\ scopes[t].data = data
  /\ \A k \in t + 1 .. cur :
       scopes[k].frameScope = scopes[t].frameScope => scopes[k].data = 0

\* "goto" a label of scope t, set where t has data bytes of variables and
\* counts the given bytes of arrays.
GotoBegin(t, data, arrays) ==
  /\ InBody /\ t \in currScope.anc
  /\ pc' = "goto"
  /\ loc' = [Idle EXCEPT !.goal = t, !.data = data, !.arrays = arrays]
  /\ cause' = IF IsBalanced(t, data) THEN cause ELSE "goto"
  /\ UNCHANGED <<scopes, machine>>

\* The variable declared last before the label was declared before the arrays
\* that are counted there, or after them.
Goto ==
  /\ pc = "goto" /\ cur = loc.goal
  /\ \E before \in {0, loc.arrays} :
       scopes' = [scopes EXCEPT
                    ![cur] = [currScope EXCEPT !.part = "body",
                                !.data = loc.data, !.arrays = loc.arrays,
                                !.last = loc.data + before]]
  /\ pc' = "run" /\ loc' = Idle
  /\ UNCHANGED <<machine, cause>>
-----------------------------------------------------------------------------
(* Variables: ba_CalcVarOffset and the code it emits. *)

\* id.address of a variable of scope k: the last one declared, or the last
\* parameter after "Correct param addresses".
IdAddresses(k) ==
  (IF scopes[k].data > 0 THEN {scopes[k].last} ELSE {}) \cup
  (IF scopes[k].args > 0 THEN {-3 * WordSize} ELSE {})

\* Where the variable really is: the last declared ends the variables.
Place(k, id) == IF id > 0 THEN Edge(k) ELSE scopes[k].base - id

AccessBegin(k, id) ==
  /\ Running /\ k \in Visible /\ Room(WordSize)
  /\ pc' = "walk"
  /\ loc' = [Idle EXCEPT !.at = cur, !.goal = k, !.id = id, !.addr = -id]
  /\ UNCHANGED <<scopes, machine, cause>>

\* Slip: the walk goes on to the parent only past a frame.
WalkStuck ==
  /\ pc = "walk" /\ loc.at # loc.goal /\ scopes[loc.at].kind # "func"
  /\ loc' = [loc EXCEPT !.at = IF HasLink(loc.at) THEN scopes[@].parent ELSE @]
  /\ UNCHANGED <<scopes, machine, pc, cause>>

\* Slip: what is added is the size of the scope left, not of the one reached.
WalkScopeLeft ==
  LET p == scopes[loc.at].parent
      links == IF loc.links = 0 /\ HasLink(loc.at) THEN 1 ELSE loc.links
  IN /\ pc = "walk" /\ loc.at # loc.goal /\ scopes[loc.at].kind # "func"
     /\ loc' = [loc EXCEPT !.at = p, !.links = links,
                  !.addr = IF links = 0 THEN @
                           ELSE @ + DataSize(loc.at) + LinkSize(loc.at),
                  !.crossed = IF HasLink(loc.at) THEN @ + 1 ELSE @]
     /\ UNCHANGED <<scopes, machine, pc, cause>>

\* A block or a loop is passed at compile time only.
WalkScope ==
  LET p == scopes[loc.at].parent
      links == IF loc.links = 0 /\ HasLink(loc.at) THEN 1 ELSE loc.links
  IN /\ pc = "walk" /\ loc.at # loc.goal /\ scopes[loc.at].kind # "func"
     /\ loc' = [loc EXCEPT !.at = p, !.links = links,
                  !.addr = IF links = 0 THEN @
                           ELSE @ + DataSize(p) + LinkSize(loc.at),
                  !.crossed = IF HasLink(loc.at) THEN @ + 1 ELSE @]
     /\ UNCHANGED <<scopes, machine, pc, cause>>

\* Slip: the loop that was passed is not counted when RBP is followed.
WalkFuncOnce ==
  /\ pc = "walk" /\ loc.at # loc.goal /\ scopes[loc.at].kind = "func"
  /\ IF loc.pushed THEN UNCHANGED <<rsp, mem>>
     ELSE rsp' = rsp - WordSize /\ mem' = Store(mem, rsp - WordSize, rbp)
  /\ rbp' = Load(rbp)
  /\ loc' = [loc EXCEPT !.at = scopes[loc.at].parent, !.pushed = TRUE,
               !.links = 0, !.addr = -loc.id,
               !.crossed = 0, !.lost = @ \/ loc.crossed > 1]
  /\ UNCHANGED <<scopes, pc, cause>>

\* The outermost scope of a func: MOV RBP, [RBP] once for the func and once
\* for linksPassed.  crossed counts the loops really passed; lost remembers
\* that linksPassed fell short of it.
WalkFunc ==
  /\ pc = "walk" /\ loc.at # loc.goal /\ scopes[loc.at].kind = "func"
  /\ IF loc.pushed THEN UNCHANGED <<rsp, mem>>
     ELSE rsp' = rsp - WordSize /\ mem' = Store(mem, rsp - WordSize, rbp)
  /\ rbp' = IF loc.links = 0 THEN Load(rbp) ELSE Load(Load(rbp))
  /\ loc' = [loc EXCEPT !.at = scopes[loc.at].parent, !.pushed = TRUE,
               !.links = 0, !.addr = -loc.id,
               !.crossed = 0, !.lost = @ \/ loc.crossed > 1]
  /\ UNCHANGED <<scopes, pc, cause>>

WalkEnd ==
  /\ pc = "walk" /\ loc.at = loc.goal
  /\ pc' = IF loc.links = 0 THEN "adjust" ELSE "resolved"
  /\ UNCHANGED <<scopes, machine, loc, cause>>

\* With no loop passed the address is still relative to the scope: add the
\* variables of the scopes between it and its frame.
Adjust ==
  LET p == scopes[loc.at].parent
  IN /\ pc = "adjust"
     /\ IF HasLink(loc.at) \/ p = 0
          THEN pc' = "resolved" /\ UNCHANGED loc
          ELSE /\ loc' = [loc EXCEPT !.at = p, !.addr = @ - DataSize(p)]
               /\ UNCHANGED pc
     /\ UNCHANGED <<scopes, machine, cause>>

\* The instruction that uses [RBP + addr], and POP RBP if it was pushed.
Access ==
  /\ pc = "resolved"
  /\ pc' = "run" /\ loc' = Idle
  /\ IF loc.pushed
       THEN rsp' = rsp + WordSize /\ rbp' = Load(rsp) /\ mem' = Freed(mem, rsp')
       ELSE UNCHANGED machine
  /\ UNCHANGED <<scopes, cause>>
-----------------------------------------------------------------------------
Start ==
  \/ OpenBlock \/ CloseBlock
  \/ OpenLoop \/ ExitLoop \/ StartIteration \/ NextIteration
  \/ \E r \in {0} \cup RetSizes : EnterBody(r)
  \/ \E n \in VarSizes, own \in ArraySums : Declare(n, own)
  \/ \E d \in 1..cur, a \in ArgSizes, s \in SaveSizes, r \in RetSizes :
       CallBegin(d, a, s, r)
  \/ \E s \in SaveSizes, r \in RetSizes : SkipCall(s, r)
  \/ \E r \in RetSizes : SkipCondition(r)
  \/ ReturnBegin \/ BreakBegin
  \/ \E t \in 1..cur, data \in 0..MaxData, arrays \in ArraySums :
       GotoBegin(t, data, arrays)
  \/ \E k \in 1..cur : \E id \in IdAddresses(k) : AccessBegin(k, id)
  \/ Exit

Continue ==
  \/ Hop \/ CallEnter
  \/ LeaveScope \/ Return
  \/ BreakScope \/ Break
  \/ Goto
  \/ WalkScope \/ WalkFunc \/ WalkEnd \/ Adjust \/ Access

Next == Start \/ Continue

Spec == Init /\ [][Next]_vars

\* A statement once begun runs on: the program is one sequential thread.
FairSpec == Spec /\ WF_vars(Continue)
-----------------------------------------------------------------------------
Locals == [at : Nat, goal : Nat, id : Int, addr : Int, links : 0..1,
           pushed : BOOLEAN, crossed : Nat, lost : BOOLEAN,
           args : Nat, saves : Nat, ret : Nat, data : Nat, arrays : Nat]

\* Type invariant of the scope chain, the stack and the locals.
TypeOK ==
  /\ scopes \in Seq(Scope) /\ scopes # <<>>
  /\ mem \in [Addr -> Word]
  /\ rsp \in Word /\ rbp \in Word
  /\ pc \in {"run", "hop", "return", "break", "goto", "walk", "adjust",
             "resolved", "halted"}
  /\ loc \in Locals
  /\ cause \in {"none", "break", "goto", "array"}

FrameOK == rsp = Edge(cur) /\ rbp = Fp(cur)

\* The agreement between compiler and program: wherever code for a statement
\* or an expression starts, RSP is at the end of the current scope's variables
\* and RBP is the frame of its frameScope, through any nesting of scopes, loops,
\* calls and returns.  A returned array is not on the stack there, though
\* dataSize counts it.  Set apart are a break or a goto that the emitted code
\* does not balance, a block closed after an array was returned to it, and a
\* call for an array that && or || skipped.
FrameLayout == Running => FrameOK

LinkSaved(k) ==
  /\ scopes[k].kind = "loop" => mem[scopes[k].base] = Fp(k - 1)
  /\ scopes[k].kind = "func" =>
       /\ mem[scopes[k].base] = Fp(scopes[k].parent)
       /\ mem[scopes[k].base + WordSize] = Fp(k - 1)

\* Every open loop and func has its saved frame pointers where the code that
\* leaves it, or that follows static links, will read them.
SavedLinks == cause = "none" => \A k \in 2..cur : LinkSaved(k)

\* No array was returned to a scope that the access reckons with: one around
\* the current scope, or the variable's own.
NoArrays ==
  \A k \in (currScope.anc \ {cur}) \cup {loc.goal} : scopes[k].arrays = 0

\* The address the emitted access uses is where the variable is, in the scope
\* instance that lexical scoping designates, unless a scope it reckons with
\* counts a returned array, or it went out of a func from inside two or more of
\* its loops, of which the code counts one.
AccessCorrect ==
  pc = "resolved" /\ ~loc.lost /\ NoArrays =>
    rbp + loc.addr = Place(loc.goal, loc.id)

\* What the manual says: every variable is on the stack, so that no access that
\* finds its frame goes below RSP.
VariablesOnStack == pc = "resolved" /\ ~loc.lost => rbp + loc.addr >= rsp

\* A goto always restores RBP to the frame of the label's scope, even when it
\* leaves funcs: only RSP can be left behind.
GotoRestoresRbp == pc = "run" /\ cause \in {"none", "goto"} => rbp = Fp(cur)

\* Storage of nested scopes is disjoint, until a statement is not balanced: a
\* scope begins at or below the end of the variables that every scope open
\* around it has on the stack, whatever arrays dataSize counts beside them.
ScopesNest ==
  cause = "none" =>
    \A k \in 2..cur : \A j \in 1..k - 1 : scopes[k].base <= Edge(j)

\* Every statement's code runs to its end: the walks up the scope chain
\* arrive.
StatementsEnd == (pc # "run" /\ pc # "halted") ~> pc = "run"
=============================================================================
