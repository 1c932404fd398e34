# basque: verification project

`basque` is a one-pass compiler, written in C, from the language of `MANUAL.md`
to static x86-64 ELF executables. It reads a source file token by token, parses
statements and expressions, keeps symbol tables for the open scopes, and appends
instructions to a list while it parses; at the end it sizes the jumps, encodes
the instructions and writes the file. Nothing in it is concurrent and nothing is
persisted between runs. What makes it hard is that two machines have to agree at
every point without ever meeting: the compiler, which follows a program's
*text*, and the compiled program, which follows its *execution*. The compiler's
beliefs (this variable is 24 bytes below RBP, that sub-expression is in RCX, RSP
is 16 above where the statement began) are never checked; a wrong one is a wrong
program, and shows only in programs that combine features. Most modules here
therefore run compiler and program side by side.

## The system

| Component | Code | State | Operations |
|---|---|---|---|
| Scopes, frames, addresses | `common/symtable.c`, `parser/stmt.c`, parts of `parser/handle.c`, `parser/op.c`, `elf64.c` | `ba_SymTable` chain (parent, func, frameScope, dataSize, hasFramePtrLink), `pBreakStk`; in the program RSP, RBP, saved links | open and leave scopes and loops, declare, call, return, break, goto, access a variable |
| Core functions | `bltin/core.c` | RAX, RCX, RDX, memory | `MemCopy`, `MemSet`, emitted into every program that uses them or assigns arrays |
| Identifier tables | `common/hashtable.c`, `common/symtable.c` | open-addressing table: capacity, count, entries | `HTGet`, `HTSet`, `HTExpand` |
| Registers and intermediates | `common/reg.c`, `parser/op.c`, `parser/handle.c` | `usedRegisters`, `imStackSize`, `pTkStk` of operands; in the program registers and stack | take a register or push, free it, move operands, operators, calls in expressions |
| Expression parser | `parser/exp.c`, `parser/op.c` | `pOpStk`, `pTkStk`, the `OpHandle` table, `cmpLblStk` | shift, reduce by precedence, chained comparisons, short circuit, parentheses, calls, indices |
| Constants and run-time arithmetic | `parser/handle.c`, `parser/op.c` | none beyond the operands | folding, division, modulo, shifts of both signs |
| Statement parser, types | `parser/stmt.c`, `parser/parse.c`, `parser/common.c`, `common/types.c`, `common/func.c` | the current lexeme, current scope | one procedure per statement, type checks |
| Lexer and source reader | `lexer.c`, `common/lexeme.c` | read buffer and position, line and column, lexeme list | refill (`IncFile`), tokens, literals, escapes |
| Includes | `parser/stmt.c`, `parser/common.c`, `bltin/bltin.c` | set of inodes read, directory, stack of open files | `include` of files and of the builtin modules `sys` and `fmt` |
| Labels, jumps and sizes | `elf64.c` | label table, `PessimalInstrSize`, relocations | expand `GOTO`, choose short or near jumps, patch |
| ELF writer | `elf64.c` | code and data buffers | encode one instruction, lay out segments, write the file |
| Formatting | `parser/fstr.c`, `bltin/format.c`, `common/format.c` | digit buffer | integers to text, at compile time and in the program |
| System call wrappers | `bltin/sys.c` | none | one wrapper for each system call |
| Command line and messages | `basque.c`, `common/options.c`, `common/exitmsg.c` | option flags | parse options, report errors and warnings |
| Containers | `common/stack.c`, `common/dynarr.c` | pointer, count, capacity | push, pop, grow |

How they interact: `basque.c` sets the options and calls `ba_Parse`, which loops
over the statements. A statement pulls lexemes (`ba_PAccept`, `ba_PExpect`) from
the lexer, which refills its buffer from the file; expressions go through the
two stacks of `exp.c` and are handed, operator by operator, to `handle.c` and
`op.c`, which ask `reg.c` for registers, `symtable.c` for addresses, and append
to `ctr->im`. All of them share one object, `ctr` (`struct ba_Controller`). When
the text ends, `elf64.c` takes the list. Emitted code calls the core functions,
which are emitted only if some statement asked for them.

What each component has to get right:

* *Scopes and frames*: wherever code for a statement begins, RSP and RBP are
  where the compiler takes them to be, through any nesting; a variable's address
  is its own; what a call, break, return or goto leaves behind is what the code
  after it expects.
* *Core functions*: exactly the region is written, for every size and placement.
* *Identifier tables*: a name that was declared is found, with its last value,
  and a name that was not is not; whatever the number of names.
* *Registers*: a pending operand keeps its value until it is used; the stack is
  as deep as `imStackSize` says; nothing is used twice or freed twice.
* *Expression parser*: the order of operations is that of the precedence table;
  operands of skipped branches are not evaluated.
* *Arithmetic*: a folded and an emitted operation agree with each other and with
  the manual.
* *Lexer*: the tokens do not depend on where the buffer ends.
* *Includes*: a file is read once, names resolve as documented.
* *Labels and sizes*: a jump lands on its label; a pessimal size is never less
  than the size of the code.
* *Formatting*: the digits are those of the value and fit the buffer.

Which behaviours are hard: programs that combine features in an order no test
combines (scopes in loops in functions, calls in conditions in calls); running
out of something fixed (registers, table capacity, buffer, short-jump range);
values at the edge (size zero, negative divisors, shifts by the word size);
cached facts that outlive their cause (an address computed before a call that
moves the stack, a pointer into an array that was reallocated). Crashes,
restarts, messages and threads do not occur. The hazards in `PROJECT.json` list
each of these at its line.

## The modules

| Module | What it is | Extends |
|---|---|---|
| `Frames` | scopes, frames, calls, exits and variable accesses, compiler and program together | |
| `FramesInv` | the inductive invariant of `Frames` | `Frames` |
| `MCFrames` | small instances | `FramesInv` |
| `FramesProofs` | theorems | `FramesInv` |
| `MemSpec` | abstract: a request to copy or fill is answered by one assignment | |
| `CoreMem` | the loops of `MemCopy` and `MemSet`; refines `MemSpec` | |
| `MCCoreMem`, `CoreMemProofs` | instances, theorems | `CoreMem` |
| `NameSpec` | abstract: open scopes are a chain of maps | |
| `Names` | the hash tables of the open scopes, slot by slot; refines `NameSpec` | |
| `MCNames`, `NamesProofs` | instances, theorems | `Names` |
| `ExprGen` | registers and pushed intermediates of one expression, compiler and program together | |
| `ExprGenProofs` | theorems | `ExprGen` |
| `ExprParse` | the two stacks of the expression parser, and the code it emits run as it is emitted | |
| `ExprSyntax` | which lexemes are an expression | `ExprParse` |
| `ExprValue` | what an expression is worth | `ExprSyntax` |
| `MCExprParse` | small instance | `ExprValue` |
| `ExprParseProofs` | theorems | `ExprSyntax` |
| `Encode` | the bytes of one instruction, and the estimate of their number | |
| `MCEncode`, `EncodeProofs` | small instance, theorems | `Encode` |
| `Jumps` | labels, jumps and gotos in the code writer | |
| `MCJumps`, `JumpsProofs` | instance, theorems | `Jumps` |
| `Lexer` | the scanner over its refilled buffer | |
| `MCLexer` | small instance | `Lexer` |
| `NumText` | integers printed by the program and by the compiler, and integer literals | |
| `MCNumText`, `NumTextProofs` | instance, theorems | `NumText` |

Definitions whose comment begins with "Slip" or "Forgets" are not part of a
specification: each is a plausible mistake in the definition after it, and with
the mistake in its place some property fails.

### Frames

The compiler's `ba_SymTable` chain is `scopes`: one record per *open instance*
of a scope, with the fields the code keeps (`dataSize` as the sum of `data`, the
variables, and `arrays`, what calls have returned; `last`, the address given to
the newest variable; `frameScope`, `func`, `parent`; `HasLink` is `hasFramePtrLink`; `loop` is the top of
`pBreakStk`) and facts of the running program: which part of a loop runs
(`part`), where RSP was on entry (`base`), and what the call pushed (`args`,
`saves`, `ret`). The program's half
is `rsp`, `rbp` and `mem`, the word that starts at each stack address; writing
over part of a word turns it to `Garbage`, and so does moving RSP above it.

| Actions | Code |
|---|---|
| `OpenBlock`, `CloseBlock`, `SkipCondition` | the `if` and `{` branches of `ba_PStmt`, `ba_PScope`, `CommaStmt` (`stmt.c`) |
| `OpenLoop`, `EnterBody`, `StartIteration`, `NextIteration`, `ExitLoop` | the `while` branch of `ba_PStmt`; the iteration expression of `while c; e { }` is compiled before the body and runs after it |
| `Declare` | `VarDef`: PUSH, DEC or SUB of RSP by the size |
| `SkipCall` | the end of an expression (`exp.c`) in which `&&` or `\|\|` skips a call for an array |
| `CallBegin`, `Hop`, `CallEnter` | the call in `ba_POpHandle` (`handle.c`) and the prologue of the callee (`FuncDef`); `Hop` is one MOV RBP, [RBP] along the static links |
| `ReturnBegin`, `LeaveScope`, `Return` | the `return` branch of `ba_PStmt`, the epilogue of `FuncDef`, and the caller's code after the call |
| `BreakBegin`, `BreakScope`, `Break` | the `break` branch of `ba_PStmt` |
| `GotoBegin`, `LeaveScope`, `Goto` | the `goto` branch of `ba_PStmt`, and the instruction `GOTO` of `elf64.c` |
| `AccessBegin`, `WalkScope`, `WalkFunc`, `WalkEnd`, `Adjust`, `Access` | `ba_CalcVarOffset` (`symtable.c`) and the code around its result |

One step is one iteration of the compiler's loop together with the instructions
that iteration emits. A running program meets the same statement text many
times; because the compiler's state at a point of the text is a function of the
chain of enclosing scopes, the chain of the open instances is that state.

Once a statement is reached that the emitted code does not balance, the ghost
`cause` names it, that statement's code still runs, and then nothing does: from
there on the program computes with wrong addresses. Set apart in this way are a
`break` out of a scope that pushed no frame pointer (`stmt.c:791`), a goto over
declarations, which leaves RSP where it was (`stmt.c:926`), and, as `array`, two
consequences of the next paragraph.

*Returned arrays.* A call for an array adds the array's size to `imStackSize`
(`handle.c:1073`), which the end of the expression adds to RSP (`exp.c:727`), and
to `dataSize` (`handle.c:1263`). So after the expression the stack does not hold
the array, and every address that is worked out from `dataSize` is wrong by its
size. `Return` does this in one step, with RSP where the whole expression leaves
it. It is no cause of its own, because RSP is right, at the end of the variables
(`FrameLayout`), and the program goes on. What goes wrong is said as follows.

* A variable declared next has an address below RSP: `frames_on_stack`.
* An access is right if no array was returned to the scopes whose `dataSize` its
  address counts. `NoArrays` asks it of the variable's own scope and of all scopes
  around the current one, not of the current one.
* Closing a block to which an array was returned releases its bytes once more
  (`stmt.c:1455`), and a call skipped within an expression is released though it
  took nothing: RSP is then above the variables (cause `array`). A condition that
  is skipped together with its call leaves RSP right and counts the array all the
  same (`SkipCondition`).

### CoreMem

Program counter and registers of the two emitted funcs; `Test`, `Byte`,
`WordStep` and `Ret` are the code between two labels of `bltin/core.c`, `Enter`
is the prologue. `RDX` counts modulo `RegMod`. `IsProper` is what the manual asks
of a caller (regions in memory that do not overlap), plus the one overlap the
compiler itself produces, an array assigned to itself. Memory is bytes, and a
word is eight of them, as in the code.

### Names

`tables` are the tables of the open scopes, each `Capacity` slots and a count.
`Ask` starts a use (`ba_STParentFind`), or a declaration (`ba_HTGet` in the
current scope, then `ba_STParentFind`, then `ba_HTSet`), as `VarDef` and `FuncDef`
do; `Probe` looks at the next slot, `OwnFound`, `OwnAbsent`,
`OuterFound`, `OuterAbsent` end the search of one table, `Set` stores. `Home` is
the hash function, any function; `crash` is the null key that `HTExpand` hashes.

### ExprGen

The compiler's half is the operand stack `tk` (literal, identifier, function,
register or word on the stack), `usedRegisters` and `imStackSize`; the program's
half is the registers and the stack. A value is named by the pending operand it
belongs to, so "the value of operand i is in register r" can be said without
numbers. Each action is one operator as the expression parser hands it to
`ba_POpHandle`, with everything it emits: the helper sequence in the definition
(`AsgnRegOrStack`, `MovArgToReg`, `Compute`, `SetArg`) is the sequence of calls
in `op.c`. `Compute` yields `Result` only if its inputs are the right operands.
After the emissions known to lose a value, `cause` says which one was first:
`double` and `divmod` are among the departures below; `full` is an operator with neither
operand in a register or with the other one in RAX, when none is free: RAX is
overwritten with the left operand before it is saved, or while it holds the
right one (`op.c:249` to `254`, `op.c:308`); `rejected` is an instruction the
assembler refuses, and ends the compilation.

### ExprParse

`pOpStk`, `pTkStk`, `cmpRegStk`, `cmpLblStk` and `shortCircLblStk` are the
parser's stacks; `op` is the operator just read, which first makes the waiting
ones that bind tighter emit their code (`Handling`) and is then put on the stack
(`Place`). An action is one iteration of the loop of `ba_PExp`, or one case of
`ba_POpHandle`. All jumps of an expression go forward, so its code can be run as
it is emitted: `run` has the registers, the zero flag, the stores made so far,
and the label a jump under way goes to; instructions are skipped until that
label comes. Registers are unlimited: how they run out is `ExprGen`'s subject.
Of the result of an `&&` or `||` it keeps whether a bit is set (`Bits`), which is
all that the flag after it shows. The reference (`WellFormed` in
`ExprSyntax`, `Worth` and `Effect` in `ExprValue`) reads the whole expression at once, splits it at its loosest
operator, and knows no stack. `NothingPending` says what is left at the end. Three events are
recorded in `odd` and set apart, each at the step where it happens: `bits`, an
`&&` of two values without a common bit (`handle.c:623`); `stolen`, a comparison
in parentheses that takes the label of the chain around it (`handle.c:998`); and
`unclosed`, an end of the expression with parentheses open (`exp.c:723`).

### Encode

One behaviour is one instruction: `Write` is an iteration of `ba_WriteBinary`,
`Encode` its bytes, one definition for each case of the code and one for each
form of operand, and `PessimalInstrSize` the estimate. A 64-bit constant is its
eight bytes, so that no arithmetic is needed that TLC cannot do. `Decode` is a
reader of x86-64 code, external to the program, written from the opcodes and
not from the writer. `Misencoded` and `Underestimated` list the forms that do not
come out as they should, and the properties say *exactly*: the listed forms do go
wrong and no other does. Instructions the parser never emits are not enumerated.

### Jumps

`prog` is the list of instructions, in items: labels, jumps, gotos, and blocks of
instructions without labels, `[size, est]`. The parser appends (`AddIM`), then the
writer takes items in order: `WriteBlock`, `WriteLabel` with the patching of what
waits for the label, `JumpBack`, `JumpForward` with the choice of a short or near
jump, `FinishCode`. `cum` is the running sum of estimates, so that the sum over a
range is a difference. A goto is an instruction that expands when the writer
meets it (`Links`) and was estimated at 255. `corrupt` is the state in which a
label's array of sizes is written past its end. A block may be larger than its
estimate: `EstimateBounds` proves for which instructions that is so. `JumpsLand` says
that a filled-in jump lands exactly if its field can hold the distance, and that
it can unless an item in between is larger than its estimate (`Oversized`); `from`,
the item of a jump, is kept for that alone.
### The lexer

`src` is the file buffer, its index, and the characters read; `lx` is the lexer:
which of its loops it is in, the flags `willInc` and `willCont`, the lexeme's
characters, the lines, and the groups of f-strings it is inside. `Advance` is
`IncFile`, with what the last filling left behind the end of the file. Each action
is one iteration of one loop. The reference (`Lexemes`) cuts the whole text by the
longest match, with positions instead of a buffer. It answers `Bad` where a text
is to be refused, `Over` where the lexer reads behind its buffer (an f-string's
group that closes on the last byte, `lexer.c:83`), and `Odd` at the places where
the lexer is known to depart from it:

* a string or the text of an f-string that is not closed before the end of the
  file, and a backslash or percent sign there: it goes on with old bytes of the
  buffer, or for ever;
* a name, an integer, `<<` or `>>` that touches the end of the buffer at the end
  of the file, where the lookahead fails and the file counts as ended;
* `'\q'` for a character `q` that is no escape: the closing quote is read twice;
* `\r`, which the manual has (`MANUAL.md:66`) and `CharEscape` has not: in strings it
  is a backslash and an `r`, in characters it is like `'\q'`;
* `%%`, `%{`, `%}` and `%q` after other text of an f-string, which repeat that text;
* text of an f-string longer than `LiteralSize`, which loses a character.

The escapes of the reference are the manual's, with tables and arithmetic of its
own (`ManualEscapes`, `HexByte`). Where the lexer takes another byte than the
manual says, the reference says `Misread`, and `LexemesRight` demands that the
byte is another one there, and the right one everywhere else: `\x` with a letter,
which counts from 0 instead of from 10 (`lexer.c:45`, `:48`), and in characters and
f-strings `\x` with two different digits, the first of which is taken for the low
one (`lexer.c:477-480`, `:545-548`).

### NumText

One behaviour prints one number or reads one literal. `MakeDigits`, `DigitsStep`,
`ReverseStep` and `Epilogue` are the code between labels of `bltin/format.c`,
common to the five routines but for what `Routine` lists; `text` is the buffer
that the statement made, with one byte of the variable next to it. `Folded` is
what `common/format.c` makes of a known value, `StrToU64` the value of a literal,
with shifts of an `int` of `IntBits` bits where the code shifts an `int`.

## What is checked

| Run | Question | Bounds |
|---|---|---|
| `frames_agreement` | does the coupling of scope chain and machine hold between *all* steps, and do accesses, links and gotos come out right | 5 open scopes, words of 2 bytes, one size each, no arrays |
| `frames_sizes` | where is RSP at statement boundaries, and which accesses are right, with live registers, arguments and returned arrays; do the walks end | 3 open scopes, two sizes each of arguments, registers and results |
| `frames_on_stack` | is every variable that is used on the stack | 2 open scopes; violated by a variable declared after an array was returned |
| `coremem` | do the loops implement one assignment; does each call return | 20 bytes, sizes 1 to 17 around the word, aligned and unaligned, 2 calls |
| `names_maps` | do probing, wrapping and walking answer as a chain of maps; when does a declaration crash the compiler | 3 identifiers that collide in the last of 4 slots and wrap, 3 scopes |
| `expr_values` | are all pending operands kept, the depth right, the variables untouched | 3 registers, 4 operands, 2 words pushed |
| `expr_parse` | does the code of an expression compute what the expression says, is only what is wrong refused, and what does a finished expression leave | 9 lexemes of 6 infix and 2 prefix operators, one prefix operator and one parenthesis, four valuations |
| `encode` | do the bytes of an instruction mean the instruction; is its size within the estimate | all operations and forms, 8 registers, 7 values |
| `jumps` | which jumps land on their labels; when are a label's arrays overrun | 4 items, 2 labels, eight blocks around the limits, below, at and above their estimates, first capacity 2 |
| `lexer` | do lexemes depend on where the buffer ends; does the lexer end | buffer of 5, literals and names of 3, fifteen families of texts |
| `numbers` | are the texts of numbers and the values of literals right, in their buffers | words of 8 bits, ints of 4, all values, literals one digit too long |
| `coremem_zero` | is only the region written, of size zero too | violated, see below |

Why the bounds are enough:

* *Frames*: five scopes hold every pair of features with a scope of either kind
  between and around them (a func in a loop in a func, reached from a block of
  an inner loop, for example). Two-byte words keep a variable smaller than a
  word and one as large. `StackSize` bounds the stack by a guard (`Room`), so a
  program that would leave the model is cut before the statement. `MaxData` bounds
  the variables of a scope and the arrays returned to it. With returned
  arrays three scopes are what TLC gets through; they hold an array in the variable's
  scope, in one between it and the access, and in the current one. The theorems
  remove all these bounds.
* *CoreMem*: sizes below, at, and above one and two words, with each remainder
  that takes a different number of byte steps at 0, 1 and 7; placements that are
  and are not multiples of the word. Two calls: registers left from one call
  must not matter in the next.
* *Names*: two identifiers that share a home slot at the very end and a third
  whose home is the slot they wrap into: entries are displaced past the end, and
  into each other's home. With 4 slots a table is half full with two entries, so
  that a third declaration reaches the expansion and its crash. Three scopes
  leave one in between that a search has to pass. The theorems are for any
  capacity.
* *ExprGen*: the code hands out fourteen registers. What matters is which of
  RAX, RCX and RDX are taken and whether any other is free, so three registers
  with four operands reach exhaustion, which the code reaches at fifteen
  operands. `MaxIm` bounds the words left pushed, by a
  guard on the end of an operator.
* *ExprParse*: one operator of each precedence and kind (tight, arithmetic,
  comparison, both logical ones, assignment); five names allow a chain of three
  comparisons beside a logical operator and, within parentheses, every pair of
  precedences on either side. The valuations make each comparison hold and fail,
  and give `&&` operands with and without a common bit.
* *Encode*: registers with low bits 0, 1, 3, 4 and 5, below and above 8 (4 and 5
  are those the encoding treats apart), and values on both sides of 7, 8, 31, 32
  and 64 bits. `Junk` is what a byte held that the writer leaves unwritten.
* *Jumps*: the limits of one byte are the real ones, and block sizes lie on either
  side of them forward and back, after a jump of 5 or of 6 bytes, with one block
  smaller than its estimate and two larger, of which a short jump reaches over one
  and not over the other. Capacity 2 instead of 64 makes overruns reachable
  with three jumps.
* *Lexer*: lexemes of one to nine characters, preceded by up to four others and
  followed by blanks to the end of the buffer or by the end of the file, so that
  a buffer of five ends between any two characters of each.
* *NumText*: every value of the word, so that the extremes and their neighbours
  are there. `Word` is 6 modulo 10, as 2^64 is, which is what the magic
  multiplication needs; the theorems are for all such words.

Deadlock is not checked: a program ends, the compiler stops at an error, and a
model stops at its bounds.

Fairness: `WF(Continue)` in `Frames`, `WF(Loop)` in `CoreMem`, `WF(Search)` in
`Names`, `WF(Next)` in `Lexer`. Each says only that a sequence of instructions, or a loop of the
compiler, that has begun takes its next step: both are single threads that
nothing can block. Nothing is assumed about which statement, call or request
comes next, or that one comes. The liveness properties are that the walks
up a scope chain, the copying loop, the probing and the lexer end.

## What is proved

TLAPS checks the following for every value of the constants that satisfies the
named assumption of the module.

**Frames** (`FramesProofs`). `Invariance`: `AddressInv` holds in every reachable
state. It has two parts, `IInv`, of which `TypeOK` is one conjunct, and `AddressOK`.
`FrameLayout`, the statement one cares about, is far from inductive: between two
statements RSP and RBP are somewhere else, and whether they come back depends on
the saved links in memory. `IInv` therefore adds, for each kind of statement,
where RSP and RBP are in the middle of it (`HopOK`, `ReturnOK`, `BreakOK`,
`GotoOK`, `WalkOK`, `AdjustOK`, `AccessOK`); that every open loop and func has
its saved links in place (`SavedLinks`) and that no write of another statement
touches them, which needs where each scope begins (`SpacingOK`) and that storage
nests (`ScopesNest`); and that the chain is one the compiler can build
(`ChainOK`), with those consequences of it that would otherwise take an
induction along the chain (`AncestorsOK`: a visible scope is in the same frame,
or visible from where that frame hangs). `AddressOK` says that returned arrays
move an address down only, by at most their bytes, and that an access under way is
to a variable that is there; what is emitted for it is related to the variable's
place as long as `NoArrays` holds. From `AddressInv` follow `LayoutCorrect`,
`LinksCorrect`, `AccessesCorrect`, `NestingCorrect` and `TypeCorrect`.
`GotoRestores` needs more, because `IInv` is silent once a
goto is unbalanced: while such a goto leaves its scopes, those still open keep
their order in memory and their links (`UnwindOK`), so that RBP always comes out
at the frame of the label's scope, though RSP may not.

**CoreMem** (`CoreMemProofs`), assuming that no size is zero. `IInv` says that
the bytes counted off are the ones written and read (`Progress`, `Registers`).
`ResultCorrect` is `ReturnsResult`; `Implementation` shows that the loops
implement `MemSpec`: a call is one assignment, made when it returns.

**Names** (`NamesProofs`), for any hash function, capacity and identifiers. An
entry can be found from its home slot without meeting an empty slot or its own
name (`Reachable`); a search has passed only other identifiers (`SearchOK`); and
has seen the scopes it left (`ScopesOK`). `Implementation`: the tables implement
the chain of maps `NameSpec`. If the table is half full the compiler crashes and
the request stays unanswered, which the abstract specification allows: it is a
safety statement. `NoShadowingAlways`: an identifier designates one entity.
`CrashOnlyWhenHalfFull` and `SearchesMeetFreeSlots` rest on a count: the number kept with a
table is the number of its slots that are taken, and stays below half the
capacity until the crash (`CountsOK`). So nothing else crashes a declaration, and the
probing, which has no bound in the code, always has an empty slot ahead.

**ExprGen** (`ExprGenProofs`), for any number of registers (three at least),
operands, variables and pushed words. The inductive invariant says that what the
compiler believes and the program has are well formed, that every operand is an
atom, a register or a word within what is pushed, and that the stack is as deep
as believed. `StackAlwaysInSync` holds in all scopes and even after the emissions
that lose a value: whatever an expression does, its end takes RSP back.
`VariablesAlwaysKept` adds that no word pushed for a result is stored over a
variable when the scope is the outermost of its frame (`Outer = 0`); inside
another scope it fails (see the departures below). `TypesCorrect` is the type invariant.

`NoOperandLost`, for the same numbers and any `Outer`: until `cause` names an
emission, every pending operand has its value where the compiler will look. The
invariant `Kinv` adds just that to `IInv`; that two operands never share a
register or a word follows, since their values differ. Each operator is followed
instruction by instruction: its inputs hold the two operands when they are
combined, the registers of the other operands are in use and unchanged at its
end (`Spares`), and the result is where the new operand says (`Holds`). A division
that sets aside RAX, RDX or RCX, and a call that saves all that is in use by
rank, get back from each word what went into it.

**Jumps** (`JumpsProofs`), for any labels, any blocks, whatever is estimated for
them, and gotos that leave any number of frames. That a short jump lands is not
inductive, since its label may lie any number of instructions ahead. `OpenOK`
carries what is needed from one to the next: as long as nothing since the jump was
larger than its estimate (`AllFit`), the bytes written since and the estimates of
what is left before its label come to less than 128 together, and each instruction
moves its estimate from the second part to the first, where it can only shrink.
`ClosedOK` keeps what the filled field holds of the distance. `PlaceOK`, `SumOK`
and `AddrOK` say where labels are and which have been passed. From it follow
`EveryJumpLands`, `NoJumpStaysOpen`, `TypeCorrect`, and `OverrunExactly`: the
arrays of a label are overrun just when more forward jumps go to it than their
first capacity.

**Encode** (`EncodeProofs`), for any registers and values, any estimate's
inputs, and any old content of the buffer. `InstructionsSized` is the heart: form
by form, how many bytes the writer produces and how many were estimated, the two
computed by code in different places. `EstimateBounds` follows: the forms listed
in `Underestimated` exceed their estimate and no other does, which says what makes a
block of `Jumps` larger than its own. `CodeIsBytes` says that what is written is a sequence of bytes.
`InstructionsKept` is the other half: what is written reads back as the instruction.
`Decode` is the sequence of decisions a processor takes, prefix, opcode, operand,
constant, and the proof follows it. A lemma for each kind of operand says what the writer
makes of it, a ModRM byte with or without SIB byte and offset, and that these
bytes read back as the operand; one for each opcode says what is read next; then one
for each form puts its bytes together. Constants are read from the bytes they
are cut into, so that a narrower field is right exactly if it is extended to the same value.
`MeaningAlways` follows with an invariant that ties the bytes to the
instruction (`WrittenAlways`), and says *exactly*: a form of `Misencoded` does read back
as something else.

**ExprParse** (`ExprParseProofs`), for expressions of any length and nesting; the
assumptions are `InputsAssumption`, the inputs' types, and, for the last of the
theorems, `NamesAssumption`: a name is no operator. How much is on one
stack depends on what waits on another, and no step can be judged from one of
them. The inductive invariant (`Agreement`) says how they go together: an
operand for every infix operator that waits and for every verdict kept (`Counted`);
one label for every `&&` and `||` that waits (`Logical`); for every open parenthesis a
frame of chains, whose kept verdict and label belong to a comparison waiting
inside that parenthesis (`Structured`); and a jump under way goes to a label that one of
the stacks still has. These are sums along a stack, taken by recursive functions
over its length of which one step is unfolded at a time, so that no
induction is needed. `StacksInStep` is the type invariant, `LabelsToCome` says that
every jump under way has its label ahead, and `ExpressionsEnd` that a finished expression has
left no label of an `&&` or `||`, and with its parentheses closed one operand and no
jump.

`RefusalsRight` compares what the parser refuses with the grammar, which knows no
stack. On the grammar's side every expression is `Sound` (`WellFormedSound`): an
operator is followed by the start of an operand, parentheses balance, and to the left
of an assignment is a name, in any number of parentheses, that begins the expression, its
parentheses, or the right side of another assignment. That is an induction over the
depth of the operators (`SetInduction`). On the parser's side the invariant `RInv`,
beside `Agreement`, says where in the text the waiting operators stand: a prefix operator
directly after what waits below it, an assignment first in its parentheses or
directly after another's (`Rooted`), the last lexeme as the parser remembers it
(`LastLex`), a name on the operand stack where the grammar allows the assignment about
to be placed (`Pending`), and as many parentheses open in the text as are counted
(`Opened`). A refusal then shows two lexemes that no expression has side by side or an
assignment where the grammar has none, which closing the open parentheses cannot
mend, or an end with parentheses open (`Refused`).

**NumText** (`NumTextProofs`), for words of any width that is a multiple of four
bits, any literals, and buffers in which an octal number fits (`WidthAssumption`; for
the code's 24 bytes, 8^22 is 2^66). What a recursive function of the model computes is
an induction: `SetInduction` takes a set of numbers, since the induction theorems of the
library take an operator. By it the digits of a number read back as the number
(`DigitsRead`), and there are no more of them than the power of the base says (`Room`).
`DivisionByTen`: the multiplication and shift that replace a division by ten in the
digit loops yield quotient and remainder for every value of every word with 6
modulo 10 values, which a power of 16 has; `WordOf64Bits` is the code's word and constant.
The inductive invariant (`IInv`) has one part for each place of the routine: while it
divides, the digits taken and the digits of what is left are the digits of the
number; while it reverses them, the places from `rbx` on hold the text's characters,
and the byte after the buffer is untouched. `TextAlwaysRight` (of the argument's own
number, with an `i8` below zero shown to be printed as its byte, for bytes of half a word at most),
`OnlyFullBinaryOverruns` and `NumTypeCorrect` follow. `LiteralsRead` is `ba_StrToU64`: leading
zeros add nothing, a literal refused for its length starts with a digit that makes it too large,
one accepted is below the word's size, so that the sum modulo the word is the sum; in
bases 8 and 2 an `int` holds what is shifted if it holds the value. `LiteralsAlwaysRight`
is that for the literals read.

Only model-checked:

* the liveness properties: TLAPS does not reason about fairness here;
* `ValueRight` of `ExprValue`: what an expression is worth is defined by recursive
  operators, with which the provers cannot work;
* `TypeOK` and `LexemesRight` of `Lexer`, whose reference is such an operator too;
* the runs that expect a violation.

## Findings

| Run | The code | says otherwise |
|---|---|---|
| `frames_on_stack` | `handle.c:1263`: a returned array stays in `dataSize` when its bytes are released, and what is declared next is used below RSP | `MANUAL.md:392` |
| `coremem_zero` | `core.c:29`: size 0 writes a byte and counts down from 0 | `MANUAL.md:410` |

Departures that the models name and set apart, so that the passing properties can
say that there are no others. Those marked * were also seen in compiled programs
or in the compiler.

| Code | What happens | Where it is named |
|---|---|---|
| `stmt.c:791` * | `break` pops RBP for every scope it leaves, also blocks that pushed none (`MANUAL.md:328`) | `cause` in `Frames` |
| `stmt.c:926` | a goto over declarations leaves RSP | `cause` in `Frames` |
| `handle.c:1263` * | after `u64 a = 7; F();` with a func `F` that returns an array, `u64 b = 9;` is used below RSP | `VariablesOnStack`, `NoArrays` in `Frames` |
| `stmt.c:1455`, `exp.c:727` * | a block closed after an array was returned to it, or `x && G(F())` with the call skipped, leaves RSP too high | `cause` in `Frames` |
| `symtable.c:80` * | a func that uses an outer variable inside two of its own loops follows one link too few (`MANUAL.md:46`) | `AccessCorrect` |
| `hashtable.c:86` * | the 513th identifier of a scope crashes the compiler | `crash` in `Names` |
| `handle.c:371` * | the result of a product with 2 is in a register marked free: `((a+b)*2u)-(c+d)` is 0 for 13, 5, 7, 3 | `double` in `ExprGen` |
| `op.c:599`, `op.c:659` * | a modulo divides what RAX happens to hold; RDX counts as free: `(a-(-b))%c` ends with SIGFPE | `divmod` in `ExprGen` |
| `op.c:249` * | with every register taken, RAX is overwritten before it is saved | `full` in `ExprGen` |
| `op.c:200` * | in a scope inside another one of the same frame the word pushed for a result is stored over a variable (`op.c:102`) | `Outer` in `ExprGen` |
| `handle.c:998` * | a comparison in parentheses takes the label of the chain around it (`MANUAL.md:127`) | `stolen` in `ExprParse` |
| `handle.c:623` * | `&&` and `\|\|` are bitwise: `1 && 2` is false (`MANUAL.md:125`) | `bits` in `ExprParse` |
| `exp.c:723` * | `i64 r = (1;` is accepted, and the registers and the stack are not reset | `unclosed` in `ExprParse` |
| `elf64.c:227`, `elf64.c:701` * | an index in R8 to R15 becomes RAX to RDI | `Misencoded` in `Encode` |
| `elf64.c:207` | the offset of `[rbp + 0]` and `[r13 + 0]` is reserved and not written | `Misencoded` in `Encode` |
| `elf64.c:1867` * | estimates one byte short: a jump over ten assignments to a large array wraps, and the program crashes (`elf64.c:1744` calls the estimate pessimal) | `Underestimated` in `Encode`, `Oversized` in `Jumps` |
| `elf64.c:1368` * | 65 forward jumps to one label overrun an array of the compiler | `corrupt` in `Jumps` |
| `lexer.c` | the list under "The lexer", with `\r` missing | `Odd` in `Lexer` |
| `lexer.c:45`, `lexer.c:480` | `"\x2a"` is a blank and no star; `'\x21'` and `f"\x21"` have the byte 0x12 (`MANUAL.md:66`) | `Misread` in `Lexer` |
| `common/format.c:130` * | `0o20000000000` is -2147483648, an `int` having been shifted | `LiteralRight` |
| `stmt.c:1199` * | `%b` of a number with 64 digits sets the low byte of the newest variable to zero, and folded, a byte behind the compiler's buffer | `ZeroOverrunsOnlyFullBinary` |
| `op.c:141`, `stmt.c:1195` * | an `i8` is extended with zeros, so `%i` of -1 prints 255 (`MANUAL.md:152`) | `Negative` in `NumText` |

## Plan

What every other part of a compiled program rests on came first: frames, then the
code the compiler adds itself, names, registers; then the expression parser, the
code writer, the lexer and the text of numbers. What remains, in the order in
which it would add most:

1. `ExprGen` and `ExprParse` composed, so that the order of operators is the
   parser's and the registers are limited; dereferences, indices and compound
   assignments.
2. `LexemesRight` as a refinement of a lexer that sees the whole file.

## Not modelled

The rules on types and the folding of constants test or compute with one
statement's operands and leave no state behind. Includes are calls of the file
system around a set of inodes. The system call wrappers are straight-line moves.
Of the ELF writer the instruction loop is modelled (`Encode`, `Jumps`); headers and
file writing are a fixed sequence of assignments whose correctness is that of the
format, not of an order of events. Options and messages have no behaviour besides
their wording. Containers are modelled where they can be overrun.
