-------------------------------- MODULE Names --------------------------------
(***************************************************************************)
(* The identifiers of the open scopes.  Each scope has a hash table with   *)
(* open addressing; a use walks from the innermost table to the outermost, *)
(* a declaration looks into its own table, then into all of them, and then *)
(* sets.  A step looks at one slot of one table.                           *)
(***************************************************************************)
EXTENDS Integers, Sequences, FiniteSets

CONSTANTS
  Idents,     \* the identifiers of a program
  Vars,       \* the entities that variables, parameters and types are
  Funcs,      \* the entities that funcs are, once defined
  Forwards,   \* the entities that funcs are, when only declared
  NoName,     \* the key of an empty slot (a null pointer)
  NoVal,      \* the answer for an identifier that is not there
  Capacity,   \* slots of a table (BA_HASHTABLE_CAPACITY)
  Home,       \* the slot an identifier hashes to
  MaxScopes   \* bound: open scopes

Entities == Vars \cup Funcs \cup Forwards

ASSUME NamesAssumption ==
  /\ NoName \notin Idents /\ NoVal \notin Entities
  /\ Vars \cap Forwards = {} /\ Funcs \cap Forwards = {}
  /\ Capacity \in Nat \ {0}
  /\ Home \in [Idents -> 0..Capacity - 1]
  /\ MaxScopes \in Nat \ {0}

VARIABLES
  tables,  \* the tables of the open scopes, outermost first
  pc,      \* "idle", the search under way ("own", "outer", "set"), or the end
  req,     \* the statement or expression that asks
  at,      \* the scope whose table is searched
  index,   \* the slot that is looked at
  answer   \* what the last finished request found

vars == <<tables, pc, req, at, index, answer>>
-----------------------------------------------------------------------------
Slots == 0..Capacity - 1
Slot == [key : {NoName}, val : {NoVal}] \cup [key : Idents, val : Entities]
Table == [slot : [Slots -> Slot], count : Nat]
Empty == [key |-> NoName, val |-> NoVal]
NewTable == [slot |-> [i \in Slots |-> Empty], count |-> 0]

\* "use": an identifier in an expression.  "var": a variable, a parameter or a
\* type is declared.  "func": a func is declared or defined.
Request == [op : {"use"}, name : Idents, val : {NoVal}]
      \cup [op : {"var"}, name : Idents, val : Vars]
      \cup [op : {"func"}, name : Idents, val : Funcs \cup Forwards]

cur == Len(tables)
Seen == tables[at].slot[index]
Searching == pc \in {"own", "outer", "set"}

\* Slip: at the end of the table the search goes back to where it began.
SuccHome(i) == IF i + 1 >= Capacity THEN Home[req.name] ELSE i + 1

\* ++index, back to 0 at the capacity.
Succ(i) == IF i + 1 >= Capacity THEN 0 ELSE i + 1

Init ==
  /\ tables = <<NewTable>>
  /\ pc = "idle" /\ at = 1 /\ index = 0 /\ answer = NoVal
  /\ req \in Request

OpenScope ==
  /\ pc = "idle" /\ cur < MaxScopes
  /\ tables' = Append(tables, NewTable)
  /\ UNCHANGED <<pc, req, at, index, answer>>

CloseScope ==
  /\ pc = "idle" /\ cur > 1
  /\ tables' = SubSeq(tables, 1, cur - 1)
  /\ UNCHANGED <<pc, req, at, index, answer>>

\* ba_STParentFind for a use; ba_HTGet in the current scope for the rest.
Ask(r) ==
  /\ pc = "idle"
  /\ req' = r /\ at' = cur /\ index' = Home[r.name]
  /\ pc' = IF r.op = "use" THEN "outer" ELSE "own"
  /\ UNCHANGED <<tables, answer>>

\* Another identifier is in the slot: on to the next one.
Probe ==
  /\ Searching /\ Seen.key \notin {NoName, req.name}
  /\ index' = Succ(index)
  /\ UNCHANGED <<tables, pc, req, at, answer>>

\* The search returns; its locals are gone.
Return == at' = 1 /\ index' = 0

Done(a) ==
  /\ pc' = "idle" /\ answer' = a
  /\ Return /\ UNCHANGED <<tables, req>>

\* ba_ErrorVarRedef, ba_ErrorShadow.
Reject ==
  /\ pc' = "error"
  /\ Return /\ UNCHANGED <<tables, req, answer>>

\* Slip: any func may be defined again.
ReplaceableAny(v) == req.op = "func" /\ v \in Funcs \cup Forwards

\* Only the definition of a func that was declared may take its name again.
Replaceable(v) == req.op = "func" /\ v \in Forwards

\* ba_HTSet from its start.  A table that is half full is expanded first: its
\* entries are set again, and the first empty slot has no key to hash.
SetBegin ==
  /\ at' = cur /\ index' = Home[req.name]
  /\ pc' = IF tables[cur].count >= Capacity \div 2 THEN "crash" ELSE "set"
  /\ UNCHANGED <<tables, req, answer>>

\* The search in the current scope.
OwnFound ==
  /\ pc = "own" /\ Seen.key = req.name
  /\ IF Replaceable(Seen.val) THEN SetBegin ELSE Reject

OwnAbsent ==
  /\ pc = "own" /\ Seen.key = NoName
  /\ pc' = "outer" /\ index' = Home[req.name]
  /\ UNCHANGED <<tables, req, at, answer>>

\* ba_STParentFind: a use is answered; a declaration would shadow.
OuterFound ==
  /\ pc = "outer" /\ Seen.key = req.name
  /\ CASE req.op = "use" -> Done(Seen.val)
       [] req.op = "var" -> Reject
       [] req.op = "func" -> IF Replaceable(Seen.val) THEN SetBegin ELSE Reject

\* Slip: the search ends with the scope that it began in.
OuterAbsentOnce ==
  /\ pc = "outer" /\ Seen.key = NoName
  /\ IF req.op = "use" THEN Done(NoVal) ELSE SetBegin

OuterAbsent ==
  /\ pc = "outer" /\ Seen.key = NoName
  /\ IF at > 1
       THEN /\ at' = at - 1 /\ index' = Home[req.name]
            /\ UNCHANGED <<tables, pc, req, answer>>
       ELSE IF req.op = "use" THEN Done(NoVal) ELSE SetBegin

\* Slip: a name that is declared again is counted again.
StoreCounted(t) ==
  [slot |-> [t.slot EXCEPT ![index] = [key |-> req.name, val |-> req.val]],
   count |-> t.count + 1]

\* Slip: the slot after the first free one is taken.
StoreNext(t) ==
  [slot |-> [t.slot EXCEPT ![Succ(index)] = [key |-> req.name, val |-> req.val]],
   count |-> IF Seen.key = NoName THEN t.count + 1 ELSE t.count]

\* The entry is written in place, or into the first free slot.
Store(t) ==
  [slot |-> [t.slot EXCEPT ![index] = [key |-> req.name, val |-> req.val]],
   count |-> IF Seen.key = NoName THEN t.count + 1 ELSE t.count]

\* ba_HTSetNoExpand.
Set ==
  /\ pc = "set" /\ Seen.key \in {NoName, req.name}
  /\ tables' = [tables EXCEPT ![at] = Store(@)]
  /\ pc' = "idle" /\ answer' = req.val
  /\ Return /\ UNCHANGED req

Search ==
  Probe \/ OwnFound \/ OwnAbsent \/ OuterFound \/ OuterAbsent \/ Set

Next == OpenScope \/ CloseScope \/ (\E r \in Request : Ask(r)) \/ Search

Spec == Init /\ [][Next]_vars

\* A search, once begun, runs on.
FairSpec == Spec /\ WF_vars(Search)
-----------------------------------------------------------------------------
\* Type invariant.
TypeOK ==
  /\ tables \in Seq(Table) /\ tables # <<>>
  /\ pc \in {"idle", "own", "outer", "set", "error", "crash"}
  /\ req \in Request /\ answer \in Entities \cup {NoVal}
  /\ at \in Nat /\ (Searching => at \in 1..cur) /\ index \in Slots

\* The slots a search from slot h has passed when it looks at slot i.
Passed(h, i) == IF h <= i THEN h..i - 1 ELSE (h..Capacity - 1) \cup (0..i - 1)

\* Every entry can be reached: from its home slot on, there is no empty slot
\* before it, and no second entry of the same name.
Reachable(t) ==
  \A i \in Slots :
    t.slot[i].key # NoName =>
      \A j \in Passed(Home[t.slot[i].key], i) :
        t.slot[j].key \notin {NoName, t.slot[i].key}

\* A search that is under way has passed other identifiers only.
SearchOK ==
  Searching =>
    \A j \in Passed(Home[req.name], index) :
      tables[at].slot[j].key \notin {NoName, req.name}

Defines(t, n) == \E i \in Slots : t.slot[i].key = n
Lookup(t, n) ==
  IF Defines(t, n)
    THEN t.slot[CHOOSE i \in Slots : t.slot[i].key = n].val ELSE NoVal

\* The walk has come upon the innermost scope with the identifier, if any.
InnermostKnown(n) ==
  \/ \A k \in 1..cur : ~Defines(tables[k], n)
  \/ \E k \in 1..cur : /\ Defines(tables[k], n)
                       /\ \A j \in k + 1 .. cur : ~Defines(tables[j], n)

\* What a search knows of the scopes it has been through.
ScopesOK ==
  /\ pc = "own" => at = cur /\ req.op # "use"
  /\ pc = "outer" => \A k \in at + 1 .. cur : ~Defines(tables[k], req.name)
  /\ pc = "outer" /\ req.op # "use" => ~Defines(tables[cur], req.name)
  /\ pc = "set" =>
       /\ at = cur /\ req.op # "use" /\ InnermostKnown(req.name)
       /\ \A k \in 1..cur :
            Defines(tables[k], req.name) => Replaceable(Lookup(tables[k], req.name))

\* "Shadowing" is an error: an identifier that is visible designates one
\* entity, whatever scope asks, unless the outer one is a forward declaration
\* of a func.
NoShadowing ==
  \A k \in 2..cur : \A j \in 1..k - 1 : \A n \in Idents :
    Defines(tables[k], n) /\ Defines(tables[j], n) =>
      Lookup(tables[j], n) \in Forwards

\* The inductive invariant.
IInv ==
  /\ TypeOK
  /\ \A k \in 1..cur : Reachable(tables[k])
  /\ SearchOK /\ ScopesOK /\ NoShadowing

\* Every search ends: with an answer, an error, or in the expansion.
SearchesEnd == Searching ~> pc \in {"idle", "error", "crash"}

\* The count of a table is the number of identifiers in it, at most half of its
\* slots: below that a set begins, and only there the expansion.
Counted(t) ==
  LET names == {n \in Idents : Defines(t, n)}
  IN /\ IsFiniteSet(names) /\ t.count = Cardinality(names)
     /\ t.count <= Capacity \div 2

CountsOK ==
  /\ \A k \in 1..cur : Counted(tables[k])
  /\ pc = "set" => tables[cur].count < Capacity \div 2
  /\ pc = "crash" => tables[cur].count = Capacity \div 2

\* A scope takes half as many identifiers as its table has slots, however
\* often each is declared and in whatever order: only then does a declaration
\* expand the table, and crash.
CrashOnlyPastHalf ==
  pc = "crash" =>
    Cardinality({n \in Idents : Defines(tables[cur], n)}) = Capacity \div 2

\* What the statements that use the tables rely on: a chain of maps.
Env == [k \in 1..cur |-> [n \in Idents |-> Lookup(tables[k], n)]]
Status == IF pc \in {"idle", "error"} THEN pc ELSE "asked"
Abstract == INSTANCE NameSpec WITH env <- Env, status <- Status

\* Probing and the walk along the scopes answer as a chain of maps does.
ImplementsMaps == Abstract!Spec
=============================================================================
