---------------------------- MODULE NamesProofs ----------------------------
(***************************************************************************)
(* Proofs about Names: the inductive invariant, the uniqueness of visible  *)
(* identifiers, and that probing implements a chain of maps.               *)
(***************************************************************************)
EXTENDS Names, SequenceTheorems, FiniteSetTheorems, TLAPS

\* The tests of a search: every slot passed holds some other identifier.
PassedOther(t, n, i) ==
  \A j \in Passed(Home[n], i) : t.slot[j].key \notin {NoName, n}

\* The next slot adds at most one to those passed, also around the end.
LEMMA PassedSucc ==
  ASSUME NEW h \in Slots, NEW i \in Slots
  PROVE  Succ(i) \in Slots /\ Passed(h, Succ(i)) \subseteq Passed(h, i) \cup {i}
  <1>1. Capacity \in Nat \ {0} /\ h \in Nat /\ i \in Nat /\ h < Capacity /\ i < Capacity
    BY NamesAssumption DEF Slots
  <1>2. QED
    BY <1>1 DEF Slots, Succ, Passed

\* Of two slots, a search from h sees one before the other.
LEMMA PassedTotal ==
  ASSUME NEW h \in Slots, NEW i \in Slots, NEW j \in Slots
  PROVE  /\ i \in Passed(h, j) \/ j \in Passed(h, i) \/ i = j
         /\ Passed(h, i) \subseteq Slots
         /\ i \notin Passed(h, i)
         /\ Passed(h, h) = {}
  <1>1. /\ Capacity \in Nat \ {0} /\ h \in Nat /\ i \in Nat /\ j \in Nat
        /\ h < Capacity /\ i < Capacity /\ j < Capacity
    BY NamesAssumption DEF Slots
  <1>2. QED
    BY <1>1 DEF Slots, Passed

LEMMA HomeSlot ==
  ASSUME NEW n \in Idents
  PROVE  Home[n] \in Slots /\ n # NoName
  BY NamesAssumption DEF Slots

\* What the fields of a slot can be.
LEMMA SlotFacts ==
  ASSUME NEW t \in Table, NEW i \in Slots
  PROVE  /\ t.slot[i] \in Slot
         /\ t.slot[i].key \in Idents \cup {NoName}
         /\ t.slot[i].key # NoName =>
              t.slot[i].key \in Idents /\ t.slot[i].val \in Entities
  BY NamesAssumption DEF Table, Slot

\* A name has one slot.
LEMMA OneSlot ==
  ASSUME NEW t \in Table, Reachable(t), NEW i \in Slots, NEW j \in Slots,
         t.slot[i].key # NoName, t.slot[i].key = t.slot[j].key
  PROVE  i = j
  <1>1. t.slot[i].key \in Idents
    BY SlotFacts
  <1>2. Home[t.slot[i].key] \in Slots
    BY <1>1, HomeSlot
  <1>3. QED
    BY <1>2, PassedTotal DEF Reachable

\* Lookup reads the slot that holds the name.
LEMMA LookupSlot ==
  ASSUME NEW t \in Table, Reachable(t), NEW i \in Slots, t.slot[i].key # NoName
  PROVE  /\ Defines(t, t.slot[i].key)
         /\ Lookup(t, t.slot[i].key) = t.slot[i].val
  <1> DEFINE n == t.slot[i].key
             c == CHOOSE j \in Slots : t.slot[j].key = n
  <1>1. c \in Slots /\ t.slot[c].key = n
    OBVIOUS
  <1>2. c = i
    BY <1>1, OneSlot
  <1>3. Defines(t, n)
    BY DEF Defines
  <1>4. QED
    BY <1>2, <1>3 DEF Lookup

\* A search that comes to an empty slot has shown that the name is not there.
LEMMA AbsentAtEmpty ==
  ASSUME NEW t \in Table, Reachable(t), NEW n \in Idents, NEW i \in Slots,
         PassedOther(t, n, i), t.slot[i].key = NoName
  PROVE  ~Defines(t, n)
  <1> SUFFICES ASSUME NEW j \in Slots, t.slot[j].key = n
               PROVE  FALSE
    BY DEF Defines
  <1>1. Home[n] \in Slots /\ n # NoName
    BY HomeSlot
  <1>2. i \in Passed(Home[n], j) \/ j \in Passed(Home[n], i) \/ i = j
    BY <1>1, PassedTotal
  <1>3. QED
    BY <1>1, <1>2 DEF Reachable, PassedOther

\* Names have entities, other identifiers have none.
LEMMA LookupType ==
  ASSUME NEW t \in Table, NEW n \in Idents
  PROVE  /\ Defines(t, n) => Lookup(t, n) \in Entities
         /\ ~Defines(t, n) => Lookup(t, n) = NoVal
         /\ Defines(t, n) <=> Lookup(t, n) # NoVal
  <1>1. n # NoName /\ NoVal \notin Entities
    BY NamesAssumption
  <1>2. ASSUME Defines(t, n)
        PROVE  Lookup(t, n) \in Entities
    <2> DEFINE c == CHOOSE j \in Slots : t.slot[j].key = n
    <2>1. c \in Slots /\ t.slot[c].key = n
      BY <1>2 DEF Defines
    <2>2. Lookup(t, n) = t.slot[c].val
      BY <1>2 DEF Lookup
    <2>3. QED
      BY <1>1, <2>1, <2>2, SlotFacts
  <1>3. QED
    BY <1>1, <1>2 DEF Lookup

LEMMA NewTableFacts ==
  /\ NewTable \in Table /\ Reachable(NewTable)
  /\ \A n \in Idents : ~Defines(NewTable, n) /\ Lookup(NewTable, n) = NoVal
  <1>1. \A i \in Slots : NewTable.slot[i] = Empty
    BY DEF NewTable
  <1>2. NewTable \in Table
    BY DEF NewTable, Table, Slot, Empty
  <1>3. Reachable(NewTable)
    BY <1>1 DEF Reachable, Empty
  <1>4. \A n \in Idents : ~Defines(NewTable, n)
    BY <1>1, NamesAssumption DEF Defines, Empty
  <1>5. QED
    BY <1>2, <1>3, <1>4 DEF Lookup

\* Table u is table t after v was stored for n at slot i.
IsStored(u, t, n, v, i) ==
  /\ u.slot = [t.slot EXCEPT ![i] = [key |-> n, val |-> v]]
  /\ u \in Table

\* Storing where a search for the name has stopped changes the entity of that
\* name only, and leaves every entry reachable.
LEMMA StoredFacts ==
  ASSUME NEW t \in Table, Reachable(t), NEW n \in Idents, NEW v \in Entities,
         NEW i \in Slots, PassedOther(t, n, i), t.slot[i].key \in {NoName, n},
         NEW u, IsStored(u, t, n, v, i)
  PROVE  /\ Reachable(u)
         /\ Defines(u, n) /\ Lookup(u, n) = v
         /\ \A m \in Idents \ {n} :
              (Defines(u, m) <=> Defines(t, m)) /\ Lookup(u, m) = Lookup(t, m)
  <1>1. /\ u \in Table /\ n # NoName
        /\ u.slot[i].key = n /\ u.slot[i].val = v
        /\ \A j \in Slots \ {i} : u.slot[j] = t.slot[j]
    BY HomeSlot DEF IsStored, Table
  <1>2. ASSUME NEW j \in Slots, u.slot[j].key # NoName,
               NEW k \in Passed(Home[u.slot[j].key], j)
        PROVE  u.slot[k].key \notin {NoName, u.slot[j].key}
    <2>0. u.slot[j].key \in Idents
      BY <1>1, <1>2, SlotFacts
    <2>1. Home[u.slot[j].key] \in Slots
      BY <2>0, HomeSlot
    <2>2. k \in Slots /\ k # j
      BY <2>1, PassedTotal
    <2>3. CASE j = i
      BY <1>1, <2>2, <2>3 DEF PassedOther
    <2>4. CASE j # i /\ k # i
      BY <1>1, <1>2, <2>2, <2>4 DEF Reachable
    <2>5. CASE j # i /\ k = i
      <3>1. t.slot[j] = u.slot[j]
        BY <1>1, <2>5
      <3>2. t.slot[i].key \notin {NoName, u.slot[j].key}
        BY <1>2, <2>5, <3>1 DEF Reachable
      <3>3. t.slot[i].key = n
        BY <3>2
      <3>4. QED
        BY <1>1, <2>5, <3>2, <3>3
    <2>6. QED
      BY <2>3, <2>4, <2>5
  <1>3. Reachable(u)
    BY <1>2 DEF Reachable
  <1>4. Defines(u, n) /\ Lookup(u, n) = v
    BY <1>1, <1>3, LookupSlot
  <1>5. ASSUME NEW m \in Idents, m # n
        PROVE  (Defines(u, m) <=> Defines(t, m)) /\ Lookup(u, m) = Lookup(t, m)
    <2>0. m # NoName
      BY HomeSlot
    <2>1. Defines(u, m) <=> Defines(t, m)
      BY <1>1, <1>5, <2>0 DEF Defines
    <2>2. CASE Defines(t, m)
      <3>1. PICK j \in Slots : t.slot[j].key = m
        BY <2>2 DEF Defines
      <3>2. j # i /\ u.slot[j] = t.slot[j]
        BY <1>1, <1>5, <2>0, <3>1
      <3>3. Lookup(t, m) = t.slot[j].val
        BY <2>0, <3>1, LookupSlot
      <3>4. Lookup(u, m) = u.slot[j].val
        BY <1>1, <1>3, <2>0, <3>1, <3>2, LookupSlot
      <3>5. QED
        BY <2>1, <3>2, <3>3, <3>4
    <2>3. CASE ~Defines(t, m)
      BY <2>1, <2>3 DEF Lookup
    <2>4. QED
      BY <2>2, <2>3
  <1>6. QED
    BY <1>3, <1>4, <1>5

\* The parts of the invariant that speak of the tables alone.
TablesOK ==
  /\ tables \in Seq(Table) /\ tables # <<>>
  /\ \A k \in 1..cur : Reachable(tables[k])
  /\ NoShadowing

LEMMA TablesFacts ==
  ASSUME IInv
  PROVE  /\ TablesOK /\ cur \in Nat \ {0}
         /\ \A k \in 1..cur : tables[k] \in Table /\ Reachable(tables[k])
         /\ req \in Request /\ req.name \in Idents /\ Home[req.name] \in Slots
  <1>1. TablesOK /\ req \in Request
    BY DEF IInv, TypeOK, TablesOK
  <1>2. req.name \in Idents
    BY <1>1 DEF Request
  <1>3. cur \in Nat \ {0} /\ \A k \in 1..cur : tables[k] \in Table
    BY <1>1 DEF TablesOK, cur
  <1>4. QED
    BY <1>1, <1>2, <1>3, HomeSlot DEF TablesOK

LEMMA SameTables ==
  ASSUME IInv, tables' = tables
  PROVE  TablesOK' /\ cur' = cur
  <1>1. TablesOK
    BY TablesFacts
  <1>2. cur' = cur
    BY DEF cur
  <1>3. \A k \in 1..cur : Reachable(tables[k])'
    BY <1>1 DEF TablesOK, Reachable
  <1>4. NoShadowing'
    BY <1>1, <1>2 DEF TablesOK, NoShadowing
  <1>5. QED
    BY <1>1, <1>2, <1>3, <1>4 DEF TablesOK

\* A search in scope k for the name of the request starts at its home slot.
LEMMA FreshSearch ==
  ASSUME index' = Home[req'.name], req'.name \in Idents
  PROVE  SearchOK' /\ index' \in Slots
  <1>1. Home[req'.name] \in Slots /\ Passed(Home[req'.name], Home[req'.name]) = {}
    BY HomeSlot, PassedTotal
  <1>2. Passed(Home[req'.name], index') = {}
    BY <1>1
  <1>3. SearchOK'
    BY <1>2 DEF SearchOK, Passed
  <1>4. QED
    BY <1>1, <1>3

\* The parts fit together.
LEMMA Together ==
  ASSUME TablesOK', SearchOK', ScopesOK',
         pc' \in {"idle", "own", "outer", "set", "error", "crash"},
         req' \in Request, answer' \in Entities \cup {NoVal},
         at' \in Nat, Searching' => at' \in 1..cur', index' \in Slots
  PROVE  IInv'
  BY DEF IInv, TypeOK, TablesOK

\* Outside a search the tables are all there is to know.
LEMMA AtRest ==
  ASSUME TablesOK', pc' \notin {"own", "outer", "set"},
         pc' \in {"idle", "error"},
         req' \in Request, answer' \in Entities \cup {NoVal}, Return
  PROVE  IInv'
  <1>1. ~Searching' /\ SearchOK' /\ ScopesOK'
    BY DEF Searching, SearchOK, ScopesOK
  <1>2. at' \in Nat /\ index' \in Slots
    BY NamesAssumption DEF Return, Slots
  <1>3. QED
    BY <1>1, <1>2, Together

LEMMA InitInv == ASSUME Init PROVE IInv
  <1>1. tables = <<NewTable>> /\ cur = 1 /\ tables[1] = NewTable
    BY DEF Init, cur
  <1>2. /\ tables \in Seq(Table) /\ tables # <<>>
        /\ \A k \in 1..cur : Reachable(tables[k])
    BY <1>1, NewTableFacts
  <1>3. NoShadowing
    BY <1>1 DEF NoShadowing
  <1>4. ~Searching /\ SearchOK /\ ScopesOK
    BY DEF Init, Searching, SearchOK, ScopesOK
  <1>5. QED
    BY <1>2, <1>3, <1>4, NamesAssumption DEF Init, IInv, TypeOK, Slots

LEMMA OpenScopeStep == ASSUME IInv, OpenScope PROVE IInv'
  <1>1. /\ tables' = Append(tables, NewTable)
        /\ UNCHANGED <<pc, req, at, index, answer>> /\ pc = "idle"
    BY DEF OpenScope
  <1>2. /\ cur' = cur + 1 /\ tables'[cur + 1] = NewTable
        /\ \A k \in 1..cur : tables'[k] = tables[k]
        /\ tables' \in Seq(Table) /\ tables' # <<>>
    BY <1>1, TablesFacts, NewTableFacts DEF cur, TablesOK
  <1>3. \A k \in 1..cur' : k \in 1..cur \/ k = cur + 1
    BY <1>2, TablesFacts
  <1>4. \A k \in 1..cur' : Reachable(tables'[k])
    BY <1>2, <1>3, TablesFacts, NewTableFacts
  <1>5. NoShadowing'
    <2> SUFFICES ASSUME NEW k \in 2..cur', NEW j \in 1..k - 1, NEW n \in Idents,
                        Defines(tables'[k], n), Defines(tables'[j], n)
                 PROVE  Lookup(tables'[j], n) \in Forwards
      BY DEF NoShadowing
    <2>1. k # cur + 1
      BY <1>2, NewTableFacts
    <2>2. k \in 2..cur /\ j \in 1..cur
      BY <1>2, <2>1, TablesFacts
    <2>3. tables'[k] = tables[k] /\ tables'[j] = tables[j]
      BY <1>2, <2>2
    <2>4. QED
      BY <2>2, <2>3 DEF IInv, NoShadowing
  <1>6. TablesOK'
    BY <1>2, <1>4, <1>5 DEF TablesOK
  <1>7. ~Searching' /\ SearchOK' /\ ScopesOK'
    BY <1>1 DEF Searching, SearchOK, ScopesOK
  <1>8. QED
    BY <1>1, <1>6, <1>7, Together DEF IInv, TypeOK

LEMMA CloseScopeStep == ASSUME IInv, CloseScope PROVE IInv'
  <1>1. /\ tables' = SubSeq(tables, 1, cur - 1) /\ cur > 1
        /\ UNCHANGED <<pc, req, at, index, answer>> /\ pc = "idle"
    BY DEF CloseScope
  <1>2. /\ cur' = cur - 1
        /\ \A k \in 1..cur - 1 : tables'[k] = tables[k]
        /\ tables' \in Seq(Table) /\ tables' # <<>>
    <2>1. tables \in Seq(Table) /\ Len(tables) \in Nat /\ cur = Len(tables)
      BY TablesFacts DEF cur, TablesOK
    <2>2. Len(tables) - 1 \in 1..Len(tables)
      BY <1>1, <2>1
    <2>3. /\ Len(tables') = Len(tables) - 1 /\ tables' \in Seq(Table)
          /\ \A k \in 1..Len(tables) - 1 : tables'[k] = tables[k]
      BY <1>1, <2>1, <2>2
    <2>4. QED
      BY <2>1, <2>2, <2>3 DEF cur
  <1>3. \A k \in 1..cur - 1 : k \in 1..cur
    BY <1>2, TablesFacts
  <1>4. \A k \in 1..cur' : Reachable(tables'[k])
    BY <1>2, <1>3, TablesFacts
  <1>5. NoShadowing'
    <2> SUFFICES ASSUME NEW k \in 2..cur', NEW j \in 1..k - 1, NEW n \in Idents,
                        Defines(tables'[k], n), Defines(tables'[j], n)
                 PROVE  Lookup(tables'[j], n) \in Forwards
      BY DEF NoShadowing
    <2>2. k \in 2..cur /\ k \in 1..cur - 1 /\ j \in 1..cur - 1
      BY <1>2, TablesFacts
    <2>3. tables'[k] = tables[k] /\ tables'[j] = tables[j]
      BY <1>2, <2>2
    <2>4. QED
      BY <2>2, <2>3 DEF IInv, NoShadowing
  <1>6. TablesOK'
    BY <1>2, <1>4, <1>5 DEF TablesOK
  <1>7. ~Searching' /\ SearchOK' /\ ScopesOK'
    BY <1>1 DEF Searching, SearchOK, ScopesOK
  <1>8. QED
    BY <1>1, <1>6, <1>7, Together DEF IInv, TypeOK

LEMMA AskStep == ASSUME IInv, NEW r \in Request, Ask(r) PROVE IInv'
  <1>1. /\ req' = r /\ at' = cur /\ index' = Home[r.name]
        /\ pc' = (IF r.op = "use" THEN "outer" ELSE "own")
        /\ tables' = tables /\ answer' = answer
    BY DEF Ask
  <1>2. TablesOK' /\ cur' = cur /\ cur \in Nat \ {0}
    BY <1>1, SameTables, TablesFacts
  <1>3. r.name \in Idents
    BY DEF Request
  <1>4. SearchOK' /\ index' \in Slots
    BY <1>1, <1>3, FreshSearch
  <1>5. ScopesOK'
    BY <1>1, <1>2 DEF ScopesOK
  <1>6. QED
    BY <1>1, <1>2, <1>4, <1>5, Together DEF IInv, TypeOK

\* What is known while a search looks at a slot.
LEMMA SearchFacts ==
  ASSUME IInv, Searching
  PROVE  /\ at \in 1..cur /\ index \in Slots
         /\ tables[at] \in Table /\ Reachable(tables[at])
         /\ PassedOther(tables[at], req.name, index)
         /\ Seen = tables[at].slot[index]
         /\ Seen.key = NoName => ~Defines(tables[at], req.name)
         /\ Seen.key = req.name =>
              /\ Defines(tables[at], req.name)
              /\ Lookup(tables[at], req.name) = Seen.val
              /\ Seen.val \in Entities
  <1>1. at \in 1..cur /\ index \in Slots
    BY DEF IInv, TypeOK
  <1>2. /\ tables[at] \in Table /\ Reachable(tables[at])
        /\ PassedOther(tables[at], req.name, index)
        /\ req.name \in Idents
    BY <1>1, TablesFacts DEF IInv, SearchOK, PassedOther
  <1>3. Seen.key = NoName => ~Defines(tables[at], req.name)
    BY <1>1, <1>2, AbsentAtEmpty DEF Seen
  <1>4. req.name # NoName
    BY <1>2, HomeSlot
  <1>5. Seen.key = req.name =>
          /\ Defines(tables[at], req.name)
          /\ Lookup(tables[at], req.name) = Seen.val
          /\ Seen.val \in Entities
    BY <1>1, <1>2, <1>4, LookupSlot, SlotFacts DEF Seen
  <1>6. QED
    BY <1>1, <1>2, <1>3, <1>5 DEF Seen

LEMMA ProbeStep == ASSUME IInv, Probe PROVE IInv'
  <1>1. /\ Searching /\ Seen.key \notin {NoName, req.name}
        /\ index' = Succ(index) /\ UNCHANGED <<tables, pc, req, at, answer>>
    BY DEF Probe
  <1>2. TablesOK' /\ cur' = cur /\ Home[req.name] \in Slots
    BY <1>1, SameTables, TablesFacts
  <1>3. /\ index \in Slots /\ PassedOther(tables[at], req.name, index)
        /\ Seen = tables[at].slot[index]
    BY <1>1, SearchFacts
  <1>4. /\ Succ(index) \in Slots
        /\ Passed(Home[req.name], Succ(index))
             \subseteq Passed(Home[req.name], index) \cup {index}
    BY <1>2, <1>3, PassedSucc
  <1>5. SearchOK'
    BY <1>1, <1>3, <1>4 DEF SearchOK, PassedOther
  <1>6. ScopesOK'
    BY <1>1, <1>2 DEF IInv, ScopesOK, Replaceable, InnermostKnown
  <1>7. Searching' /\ at \in 1..cur
    BY <1>1, SearchFacts DEF Searching
  <1>8. QED
    BY <1>1, <1>2, <1>4, <1>5, <1>6, <1>7, Together DEF IInv, TypeOK

\* A set begins when no scope has the name as anything but a func to be defined.
LEMMA SetBeginStep ==
  ASSUME IInv, SetBegin, req.op # "use", InnermostKnown(req.name),
         \A k \in 1..cur : Defines(tables[k], req.name) =>
           Replaceable(Lookup(tables[k], req.name))
  PROVE  IInv'
  <1>1. /\ at' = cur /\ index' = Home[req.name] /\ pc' \in {"crash", "set"}
        /\ UNCHANGED <<tables, req, answer>>
    BY DEF SetBegin
  <1>2. /\ TablesOK' /\ cur' = cur /\ cur \in Nat \ {0} /\ req.name \in Idents
    BY <1>1, SameTables, TablesFacts
  <1>3. SearchOK' /\ index' \in Slots
    BY <1>1, <1>2, FreshSearch
  <1>4. ScopesOK'
    BY <1>1, <1>2 DEF ScopesOK, Replaceable, InnermostKnown
  <1>5. QED
    BY <1>1, <1>2, <1>3, <1>4, Together DEF IInv, TypeOK

LEMMA RejectStep == ASSUME IInv, Reject PROVE IInv'
  <1>1. pc' = "error" /\ Return /\ UNCHANGED <<tables, req, answer>>
    BY DEF Reject
  <1>2. QED
    BY <1>1, SameTables, AtRest DEF IInv, TypeOK

LEMMA DoneStep ==
  ASSUME IInv, NEW a \in Entities \cup {NoVal}, Done(a) PROVE IInv'
  <1>1. pc' = "idle" /\ answer' = a /\ Return /\ UNCHANGED <<tables, req>>
    BY DEF Done
  <1>2. QED
    BY <1>1, SameTables, AtRest DEF IInv, TypeOK

\* If scope k has the name as a func to be defined, and the scopes inside of
\* it do not have it or only so, then no scope has it as anything else.
LEMMA OuterReplaceable ==
  ASSUME IInv, Searching, NEW k \in 1..cur, Defines(tables[k], req.name),
         Replaceable(Lookup(tables[k], req.name)),
         \A j \in k + 1 .. cur : ~Defines(tables[j], req.name)
  PROVE  \A j \in 1..cur : Defines(tables[j], req.name) =>
           Replaceable(Lookup(tables[j], req.name))
  <1> SUFFICES ASSUME NEW j \in 1..cur, Defines(tables[j], req.name)
               PROVE  Replaceable(Lookup(tables[j], req.name))
    OBVIOUS
  <1>1. cur \in Nat /\ req.name \in Idents
    BY TablesFacts
  <1>2. j = k \/ (k \in 2..cur /\ j \in 1..k - 1)
    BY <1>1
  <1>3. CASE k \in 2..cur /\ j \in 1..k - 1
    BY <1>1, <1>3 DEF IInv, NoShadowing, Replaceable
  <1>4. QED
    BY <1>2, <1>3

LEMMA OwnFoundStep == ASSUME IInv, OwnFound PROVE IInv'
  <1>1. /\ pc = "own" /\ Seen.key = req.name /\ Searching
        /\ IF Replaceable(Seen.val) THEN SetBegin ELSE Reject
    BY DEF OwnFound, Searching
  <1>2. CASE ~Replaceable(Seen.val)
    BY <1>1, <1>2, RejectStep
  <1>3. CASE Replaceable(Seen.val)
    <2>1. at = cur /\ Defines(tables[cur], req.name)
          /\ Lookup(tables[cur], req.name) = Seen.val /\ cur \in 1..cur
      BY <1>1, SearchFacts DEF IInv, ScopesOK
    <2>2. req.op # "use"
      BY <1>3 DEF Replaceable
    <2>3. \A j \in cur + 1 .. cur : ~Defines(tables[j], req.name)
      BY TablesFacts
    <2>4. QED
      BY <1>1, <1>3, <2>1, <2>2, <2>3, OuterReplaceable, SetBeginStep
         DEF InnermostKnown
  <1>4. QED
    BY <1>2, <1>3

LEMMA OwnAbsentStep == ASSUME IInv, OwnAbsent PROVE IInv'
  <1>1. /\ pc = "own" /\ Seen.key = NoName /\ Searching
        /\ pc' = "outer" /\ index' = Home[req.name]
        /\ UNCHANGED <<tables, req, at, answer>>
    BY DEF OwnAbsent, Searching
  <1>2. /\ TablesOK' /\ cur' = cur /\ cur \in Nat \ {0} /\ req.name \in Idents
    BY <1>1, SameTables, TablesFacts
  <1>3. SearchOK' /\ index' \in Slots
    BY <1>1, <1>2, FreshSearch
  <1>4. at = cur /\ ~Defines(tables[cur], req.name)
    BY <1>1, SearchFacts DEF IInv, ScopesOK
  <1>5. ScopesOK'
    BY <1>1, <1>2, <1>4 DEF ScopesOK
  <1>6. QED
    BY <1>1, <1>2, <1>3, <1>4, <1>5, Together DEF IInv, TypeOK

LEMMA OuterFoundStep == ASSUME IInv, OuterFound PROVE IInv'
  <1>1. /\ pc = "outer" /\ Seen.key = req.name /\ Searching
        /\ req.op \in {"use", "var", "func"}
    BY TablesFacts DEF OuterFound, Searching, Request
  <1>2. /\ at \in 1..cur /\ Defines(tables[at], req.name)
        /\ Lookup(tables[at], req.name) = Seen.val /\ Seen.val \in Entities
        /\ \A j \in at + 1 .. cur : ~Defines(tables[j], req.name)
    BY <1>1, SearchFacts DEF IInv, ScopesOK
  <1>3. CASE req.op = "use"
    BY <1>1, <1>2, <1>3, DoneStep DEF OuterFound
  <1>4. CASE req.op = "var"
    BY <1>4, RejectStep DEF OuterFound
  <1>5. CASE req.op = "func"
    <2>1. CASE Replaceable(Seen.val)
      BY <1>1, <1>2, <1>5, <2>1, OuterReplaceable, SetBeginStep
         DEF OuterFound, InnermostKnown
    <2>2. CASE ~Replaceable(Seen.val)
      BY <1>5, <2>2, RejectStep DEF OuterFound
    <2>3. QED
      BY <2>1, <2>2
  <1>6. QED
    BY <1>1, <1>3, <1>4, <1>5

LEMMA OuterAbsentStep == ASSUME IInv, OuterAbsent PROVE IInv'
  <1>1. pc = "outer" /\ Seen.key = NoName /\ Searching
    BY DEF OuterAbsent, Searching
  <1>2. /\ cur \in Nat \ {0} /\ req.name \in Idents
        /\ at \in 1..cur /\ ~Defines(tables[at], req.name)
        /\ \A j \in at + 1 .. cur : ~Defines(tables[j], req.name)
    BY <1>1, SearchFacts, TablesFacts DEF IInv, ScopesOK
  <1>3. \A j \in at .. cur : ~Defines(tables[j], req.name)
    BY <1>2
  <1>4. CASE at > 1
    <2>1. /\ at' = at - 1 /\ index' = Home[req.name]
          /\ UNCHANGED <<tables, pc, req, answer>>
      BY <1>4 DEF OuterAbsent
    <2>2. TablesOK' /\ cur' = cur
      BY <2>1, SameTables
    <2>3. SearchOK' /\ index' \in Slots
      BY <1>2, <2>1, FreshSearch
    <2>4. at' \in 1..cur /\ at' + 1 = at
      BY <1>2, <1>4, <2>1
    <2>5. ScopesOK'
      BY <1>1, <1>3, <2>1, <2>2, <2>4 DEF IInv, ScopesOK
    <2>6. QED
      BY <2>1, <2>2, <2>3, <2>4, <2>5, Together DEF IInv, TypeOK
  <1>5. CASE ~(at > 1)
    <2>1. \A j \in 1..cur : ~Defines(tables[j], req.name)
      BY <1>2, <1>3, <1>5
    <2>2. CASE req.op = "use"
      BY <1>5, <2>2, DoneStep DEF OuterAbsent
    <2>3. CASE req.op # "use"
      BY <1>5, <2>1, <2>3, SetBeginStep DEF OuterAbsent, InnermostKnown
    <2>4. QED
      BY <2>2, <2>3
  <1>6. QED
    BY <1>4, <1>5

\* What a set does to the tables.
LEMMA SetFacts ==
  ASSUME IInv, Set
  PROVE  /\ at = cur /\ cur \in 1..cur /\ req.op # "use" /\ req.val \in Entities
         /\ cur' = cur /\ tables' \in Seq(Table) /\ tables' # <<>>
         /\ \A k \in 1..cur - 1 : tables'[k] = tables[k]
         /\ tables'[cur] \in Table /\ Reachable(tables'[cur])
         /\ Defines(tables'[cur], req.name)
         /\ Lookup(tables'[cur], req.name) = req.val
         /\ \A m \in Idents \ {req.name} :
              /\ Defines(tables'[cur], m) <=> Defines(tables[cur], m)
              /\ Lookup(tables'[cur], m) = Lookup(tables[cur], m)
         /\ \A k \in 1..cur : Defines(tables[k], req.name) =>
              Replaceable(Lookup(tables[k], req.name))
  <1> DEFINE t == tables[cur]
             u == Store(t)
  <1>1. /\ pc = "set" /\ Searching /\ Seen.key \in {NoName, req.name}
        /\ tables' = [tables EXCEPT ![at] = Store(@)]
    BY DEF Set, Searching
  <1>2. /\ at = cur /\ req.op # "use"
        /\ \A k \in 1..cur : Defines(tables[k], req.name) =>
             Replaceable(Lookup(tables[k], req.name))
    BY <1>1 DEF IInv, ScopesOK
  <1>3. /\ req.val \in Entities /\ req.name \in Idents
        /\ cur \in 1..cur /\ tables \in Seq(Table)
    BY <1>2, TablesFacts DEF Request, Entities, TablesOK
  <1>4. /\ index \in Slots /\ t \in Table /\ Reachable(t)
        /\ PassedOther(t, req.name, index)
        /\ t.slot[index].key \in {NoName, req.name}
    BY <1>1, <1>2, SearchFacts
  <1>5. u.slot = [t.slot EXCEPT ![index] = [key |-> req.name, val |-> req.val]]
    BY DEF Store
  <1>6. u \in Table
    <2>1. t.slot \in [Slots -> Slot] /\ t.count \in Nat
      BY <1>4 DEF Table
    <2>2. [key |-> req.name, val |-> req.val] \in Slot
      BY <1>3 DEF Slot
    <2>3. [t.slot EXCEPT ![index] = [key |-> req.name, val |-> req.val]]
            \in [Slots -> Slot]
      BY <2>1, <2>2
    <2>4. (IF Seen.key = NoName THEN t.count + 1 ELSE t.count) \in Nat
      BY <2>1
    <2> HIDE DEF t
    <2>5. QED
      BY <2>3, <2>4 DEF Store, Table
  <1>7. IsStored(u, t, req.name, req.val, index)
    BY <1>5, <1>6 DEF IsStored
  <1>8. /\ Reachable(u) /\ Defines(u, req.name) /\ Lookup(u, req.name) = req.val
        /\ \A m \in Idents \ {req.name} :
             (Defines(u, m) <=> Defines(t, m)) /\ Lookup(u, m) = Lookup(t, m)
    BY <1>3, <1>4, <1>7, StoredFacts
  <1>9. /\ tables' \in Seq(Table) /\ tables' # <<>> /\ cur' = cur
        /\ tables'[cur] = u /\ \A k \in 1..cur - 1 : tables'[k] = tables[k]
    <2>1. tables' = [tables EXCEPT ![cur] = u]
      BY <1>1, <1>2
    <2> HIDE DEF u
    <2>2. QED
      BY <1>3, <1>6, <2>1 DEF cur
  <1>10. QED
    BY <1>2, <1>3, <1>6, <1>8, <1>9

LEMMA SetStep == ASSUME IInv, Set PROVE IInv'
  <1>1. /\ pc' = "idle" /\ answer' = req.val /\ Return /\ req' = req
        /\ cur \in Nat \ {0}
    BY TablesFacts DEF Set
  <1>2. \A k \in 1..cur : k = cur \/ k \in 1..cur - 1
    BY <1>1
  <1>3. \A k \in 1..cur' : Reachable(tables'[k])
    BY <1>1, <1>2, SetFacts, TablesFacts
  <1>4. ASSUME NEW k \in 2..cur, NEW j \in 1..k - 1, NEW n \in Idents,
               Defines(tables'[k], n), Defines(tables'[j], n)
        PROVE  Lookup(tables'[j], n) \in Forwards
    <2>1. j \in 1..cur - 1 /\ j \in 1..cur /\ k \in 1..cur
      BY <1>1
    <2>2. tables'[j] = tables[j]
      BY <2>1, SetFacts
    <2>3. CASE k = cur /\ n = req.name
      BY <1>4, <2>1, <2>2, <2>3, SetFacts DEF Replaceable
    <2>4. CASE ~(k = cur /\ n = req.name)
      <3>1. Defines(tables[k], n)
        BY <1>2, <1>4, <2>1, <2>4, SetFacts
      <3>2. QED
        BY <1>4, <2>2, <3>1 DEF IInv, NoShadowing
    <2>5. QED
      BY <2>3, <2>4
  <1>5. NoShadowing'
    BY <1>4, SetFacts DEF NoShadowing
  <1>6. TablesOK'
    BY <1>3, <1>5, SetFacts DEF TablesOK
  <1>7. req' \in Request /\ answer' \in Entities \cup {NoVal}
    BY <1>1, SetFacts, TablesFacts
  <1>8. QED
    BY <1>1, <1>6, <1>7, AtRest

LEMMA NextInv == ASSUME IInv, [Next]_vars PROVE IInv'
  <1>1. CASE UNCHANGED vars
    <2>1. UNCHANGED <<tables, pc, req, at, index, answer>>
      BY <1>1 DEF vars
    <2>2. TablesOK' /\ cur' = cur
      BY <2>1, SameTables
    <2>3. SearchOK' /\ ScopesOK' /\ (Searching' => at' \in 1..cur')
      BY <2>1, <2>2 DEF IInv, TypeOK, SearchOK, ScopesOK, Searching, Replaceable,
         InnermostKnown
    <2>4. QED
      BY <2>1, <2>2, <2>3, Together DEF IInv, TypeOK
  <1>2. CASE \E r \in Request : Ask(r)
    BY <1>2, AskStep
  <1>3. CASE Search
    BY <1>3, ProbeStep, OwnFoundStep, OwnAbsentStep, OuterFoundStep,
       OuterAbsentStep, SetStep DEF Search
  <1>4. QED
    BY <1>1, <1>2, <1>3, OpenScopeStep, CloseScopeStep DEF Next

\* The tables keep their entries reachable, searches have passed what they
\* have to, and types are right, whatever the hash function, the capacity,
\* the identifiers and the order of statements.
THEOREM Invariance == Spec => []IInv
  <1>1. Init => IInv
    BY InitInv
  <1>2. IInv /\ [Next]_vars => IInv'
    BY NextInv
  <1>3. QED
    BY <1>1, <1>2, PTL DEF Spec

\* A visible identifier designates one entity, except for funcs that were
\* declared ahead in an outer scope.
THEOREM NoShadowingAlways == Spec => []NoShadowing
  <1>1. IInv => NoShadowing
    BY DEF IInv
  <1>2. QED
    BY <1>1, Invariance, PTL
-----------------------------------------------------------------------------
(* The count of a table. *)

DefinedBy(t) == {n \in Idents : Defines(t, n)}

LEMMA CountedFacts ==
  ASSUME NEW t
  PROVE  Counted(t) <=> /\ IsFiniteSet(DefinedBy(t))
                        /\ t.count = Cardinality(DefinedBy(t))
                        /\ t.count <= Capacity \div 2
  BY DEF Counted, DefinedBy

LEMMA HalfType == Capacity \div 2 \in Nat /\ Capacity \div 2 < Capacity
  BY NamesAssumption

LEMMA NewTableCounted == Counted(NewTable)
  <1>1. DefinedBy(NewTable) = {}
    BY NewTableFacts DEF DefinedBy
  <1>2. NewTable.count = 0
    BY DEF NewTable
  <1>3. QED
    BY <1>1, <1>2, FS_EmptySet, HalfType, CountedFacts

\* Storing adds one to the count exactly where it adds an identifier.
LEMMA StoredCounted ==
  ASSUME NEW t, NEW u, NEW n \in Idents,
         Counted(t), t.count < Capacity \div 2,
         \A m \in Idents \ {n} : Defines(u, m) <=> Defines(t, m),
         Defines(u, n),
         u.count = IF Defines(t, n) THEN t.count ELSE t.count + 1
  PROVE  Counted(u)
  <1>1. /\ IsFiniteSet(DefinedBy(t)) /\ t.count = Cardinality(DefinedBy(t))
        /\ t.count < Capacity \div 2
    BY CountedFacts
  <1>2. DefinedBy(u) = DefinedBy(t) \cup {n}
    BY DEF DefinedBy
  <1>3. n \in DefinedBy(t) <=> Defines(t, n)
    BY DEF DefinedBy
  <1>4. /\ IsFiniteSet(DefinedBy(u))
        /\ Cardinality(DefinedBy(u)) =
             IF n \in DefinedBy(t) THEN Cardinality(DefinedBy(t))
             ELSE Cardinality(DefinedBy(t)) + 1
    BY <1>1, <1>2, FS_AddElement
  <1>5. Cardinality(DefinedBy(t)) \in Nat
    BY <1>1, FS_CardinalityType
  <1>6. u.count = Cardinality(DefinedBy(u)) /\ u.count <= Capacity \div 2
    BY <1>1, <1>3, <1>4, <1>5, HalfType
  <1>7. QED
    BY <1>4, <1>6, CountedFacts

\* A step that leaves the tables alone and neither begins nor ends a set.
LEMMA CountsKept ==
  ASSUME CountsOK, tables' = tables, pc' \notin {"set", "crash"}
  PROVE  CountsOK'
  <1>1. cur' = cur
    BY DEF cur
  <1>2. \A k \in 1..cur : Counted(tables'[k])
    BY DEF CountsOK
  <1>3. QED
    BY <1>1, <1>2 DEF CountsOK

LEMMA SetBeginCounts == ASSUME IInv, CountsOK, SetBegin PROVE CountsOK'
  <1>1. /\ pc' = (IF tables[cur].count >= Capacity \div 2 THEN "crash" ELSE "set")
        /\ tables' = tables /\ cur' = cur
    BY DEF SetBegin, cur
  <1>2. tables[cur].count \in Nat /\ cur \in 1..cur
    BY TablesFacts DEF Table
  <1>3. \A k \in 1..cur : Counted(tables[k])
    BY DEF CountsOK
  <1>4. tables[cur].count <= Capacity \div 2
    BY <1>2, <1>3, CountedFacts
  <1>5. /\ pc' = "set" => tables[cur].count < Capacity \div 2
        /\ pc' = "crash" => tables[cur].count = Capacity \div 2
    BY <1>1, <1>2, <1>4, HalfType
  <1>6. QED
    BY <1>1, <1>3, <1>5 DEF CountsOK

LEMMA OpenScopeCounts == ASSUME IInv, CountsOK, OpenScope PROVE CountsOK'
  <1>1. /\ tables' = Append(tables, NewTable) /\ pc' = "idle"
    BY DEF OpenScope
  <1>2. /\ cur' = cur + 1 /\ tables'[cur + 1] = NewTable
        /\ \A k \in 1..cur : tables'[k] = tables[k]
    BY <1>1, TablesFacts, NewTableFacts DEF cur, TablesOK
  <1>3. \A k \in 1..cur + 1 : k \in 1..cur \/ k = cur + 1
    BY TablesFacts
  <1>4. \A k \in 1..cur' : Counted(tables'[k])
    BY <1>2, <1>3, NewTableCounted DEF CountsOK
  <1>5. QED
    BY <1>1, <1>4 DEF CountsOK

LEMMA CloseScopeCounts == ASSUME IInv, CountsOK, CloseScope PROVE CountsOK'
  <1>1. /\ tables' = SubSeq(tables, 1, cur - 1) /\ cur > 1 /\ pc' = "idle"
    BY DEF CloseScope
  <1>2. tables \in Seq(Table) /\ cur = Len(tables) /\ cur \in Nat
    BY TablesFacts DEF cur, TablesOK
  <1>3. /\ cur' = cur - 1
        /\ \A k \in 1..cur - 1 : tables'[k] = tables[k]
    <2>1. Len(tables) - 1 \in 1..Len(tables)
      BY <1>1, <1>2
    <2>2. /\ Len(tables') = Len(tables) - 1
          /\ \A k \in 1..Len(tables) - 1 : tables'[k] = tables[k]
      BY <1>1, <1>2, <2>1
    <2>3. QED
      BY <1>2, <2>2 DEF cur
  <1>4. \A k \in 1..cur' : Counted(tables'[k])
    BY <1>2, <1>3 DEF CountsOK
  <1>5. QED
    BY <1>1, <1>4 DEF CountsOK

LEMMA SetCounts == ASSUME IInv, CountsOK, Set PROVE CountsOK'
  <1> DEFINE t == tables[cur]
             u == tables'[cur]
             n == req.name
  <1>1. /\ pc = "set" /\ pc' = "idle" /\ Searching
        /\ Seen.key \in {NoName, n} /\ tables' = [tables EXCEPT ![at] = Store(@)]
    BY DEF Set, Searching
  <1>2. /\ at = cur /\ cur \in 1..cur /\ cur' = cur /\ Defines(u, n)
        /\ \A m \in Idents \ {n} : Defines(u, m) <=> Defines(t, m)
        /\ \A k \in 1..cur - 1 : tables'[k] = tables[k]
    BY SetFacts
  <1>3. cur \in Nat \ {0} /\ n \in Idents /\ tables \in Seq(Table) /\ n # NoName
    BY TablesFacts, HomeSlot DEF TablesOK
  <1>4. u.count = IF Seen.key = NoName THEN t.count + 1 ELSE t.count
    <2>1. u = Store(t)
      BY <1>1, <1>2, <1>3 DEF cur
    <2>2. QED
      BY <2>1 DEF Store
  <1>5. Seen.key = NoName <=> ~Defines(t, n)
    BY <1>1, <1>2, <1>3, SearchFacts
  <1>6. Counted(t) /\ t.count < Capacity \div 2
    BY <1>1, <1>2 DEF CountsOK
  <1>7. u.count = IF Defines(t, n) THEN t.count ELSE t.count + 1
    BY <1>4, <1>5
  <1> HIDE DEF t, u, n
  <1>8. Counted(u)
    BY <1>2, <1>3, <1>6, <1>7, StoredCounted
  <1>9. \A k \in 1..cur : k = cur \/ k \in 1..cur - 1
    BY <1>3
  <1>10. \A k \in 1..cur' : Counted(tables'[k])
    BY <1>2, <1>8, <1>9 DEF CountsOK, u
  <1>11. QED
    BY <1>1, <1>10 DEF CountsOK

LEMMA SearchCounts == ASSUME IInv, CountsOK, Search PROVE CountsOK'
  <1>1. CASE Probe
    <2>1. tables' = tables /\ pc' = pc /\ cur' = cur
      BY <1>1 DEF Probe, cur
    <2>2. QED
      BY <2>1 DEF CountsOK
  <1>2. ASSUME Reject PROVE CountsOK'
    BY <1>2, CountsKept DEF Reject
  <1>3. ASSUME NEW a, Done(a) PROVE CountsOK'
    BY <1>3, CountsKept DEF Done
  <1>4. CASE OwnFound
    BY <1>2, <1>4, SetBeginCounts DEF OwnFound
  <1>5. CASE OwnAbsent
    BY <1>5, CountsKept DEF OwnAbsent
  <1>6. CASE OuterFound
    <2>1. req.op \in {"use", "var", "func"}
      BY TablesFacts DEF Request
    <2>2. QED
      BY <1>2, <1>3, <1>6, <2>1, SetBeginCounts DEF OuterFound
  <1>7. CASE OuterAbsent
    <2>1. CASE at > 1
      BY <1>7, <2>1, CountsKept DEF OuterAbsent
    <2>2. CASE ~(at > 1)
      BY <1>3, <1>7, <2>2, SetBeginCounts DEF OuterAbsent
    <2>3. QED
      BY <2>1, <2>2
  <1>8. CASE Set
    BY <1>8, SetCounts
  <1>9. QED
    BY <1>1, <1>4, <1>5, <1>6, <1>7, <1>8 DEF Search

\* The count of every table is the number of its identifiers, and never more
\* than half of its slots.
LEMMA CountsAlways == Spec => []CountsOK
  <1>1. Init => CountsOK
    <2> SUFFICES ASSUME Init PROVE CountsOK
      OBVIOUS
    <2>1. cur = 1 /\ tables[1] = NewTable /\ pc = "idle"
      BY DEF Init, cur
    <2>2. QED
      BY <2>1, NewTableCounted DEF CountsOK
  <1>2. IInv /\ CountsOK /\ [Next]_vars => CountsOK'
    <2> SUFFICES ASSUME IInv, CountsOK, [Next]_vars PROVE CountsOK'
      OBVIOUS
    <2>1. CASE UNCHANGED vars
      <3>1. tables' = tables /\ pc' = pc /\ cur' = cur
        BY <2>1 DEF vars, cur
      <3>2. QED
        BY <3>1 DEF CountsOK
    <2>2. ASSUME NEW r \in Request, Ask(r) PROVE CountsOK'
      BY <2>2, CountsKept DEF Ask
    <2>3. QED
      BY <2>1, <2>2, OpenScopeCounts, CloseScopeCounts, SearchCounts DEF Next
  <1>3. QED
    BY <1>1, <1>2, Invariance, PTL DEF Spec

\* A declaration crashes the compiler only in a scope that has as many
\* identifiers as half of its table's slots, however often each was declared.
THEOREM CrashOnlyWhenHalfFull == Spec => []CrashOnlyPastHalf
  <1>1. IInv /\ CountsOK => CrashOnlyPastHalf
    <2> SUFFICES ASSUME IInv, CountsOK, pc = "crash"
                 PROVE  Cardinality(DefinedBy(tables[cur])) = Capacity \div 2
      BY DEF CrashOnlyPastHalf, DefinedBy
    <2>1. Counted(tables[cur]) /\ tables[cur].count = Capacity \div 2
      BY TablesFacts DEF CountsOK
    <2>2. QED
      BY <2>1, CountedFacts
  <1>2. QED
    BY <1>1, Invariance, CountsAlways, PTL

\* Slot i of a table is empty.
Free(t, i) == t.slot[i].key = NoName

\* Some slot that the search has not passed is empty.
FreeSlotAhead ==
  \E i \in Slots \ Passed(Home[req.name], index) : Free(tables[at], i)

NeverFull ==
  /\ \A k \in 1..cur : \E i \in Slots : Free(tables[k], i)
  /\ Searching => FreeSlotAhead

\* A table is never full, and a search that is under way has an empty slot
\* still before it: so it cannot go round for ever.
THEOREM SearchesMeetFreeSlots == Spec => []NeverFull
  <1>1. ASSUME IInv, CountsOK, NEW k \in 1..cur,
               \A i \in Slots : ~Free(tables[k], i)
        PROVE  FALSE
    <2> DEFINE t == tables[k]
               f == [i \in Slots |-> t.slot[i].key]
    <2>1. t \in Table /\ Reachable(t)
      BY <1>1, TablesFacts
    <2>2. Counted(t) /\ \A i \in Slots : t.slot[i].key # NoName
      BY <1>1 DEF CountsOK, Free
    <2> HIDE DEF t
    <2>3. ASSUME NEW i \in Slots
          PROVE  f[i] \in DefinedBy(t)
      <3>1. t.slot[i].key \in Idents
        BY <2>1, <2>2, SlotFacts
      <3>2. QED
        BY <3>1 DEF DefinedBy, Defines
    <2>4. \A i, j \in Slots : f[i] = f[j] => i = j
      BY <2>1, <2>2, OneSlot
    <2>5. f \in Injection(Slots, DefinedBy(t))
      <3>1. f \in [Slots -> DefinedBy(t)]
        BY <2>3
      <3>2. QED
        BY <2>4, <3>1 DEF Injection, IsInjective
    <2>6. /\ IsFiniteSet(DefinedBy(t)) /\ t.count = Cardinality(DefinedBy(t))
          /\ t.count <= Capacity \div 2
      BY <2>2, CountedFacts
    <2>7. Cardinality(Slots) <= Cardinality(DefinedBy(t))
      BY <2>5, <2>6, FS_Injection
    <2>8. Cardinality(Slots) = Capacity
      BY FS_Interval, NamesAssumption DEF Slots
    <2>9. Cardinality(DefinedBy(t)) \in Nat
      BY <2>6, FS_CardinalityType
    <2>10. QED
      BY <2>6, <2>7, <2>8, <2>9, HalfType, NamesAssumption
  <1>2. ASSUME IInv, CountsOK, Searching
        PROVE  FreeSlotAhead
    <2>1. at \in 1..cur /\ PassedOther(tables[at], req.name, index)
      BY <1>2, SearchFacts
    <2>2. PICK i \in Slots : Free(tables[at], i)
      BY <1>1, <1>2, <2>1
    <2>3. i \notin Passed(Home[req.name], index)
      BY <2>1, <2>2 DEF PassedOther, Free
    <2>4. QED
      BY <2>2, <2>3 DEF FreeSlotAhead
  <1>3. IInv /\ CountsOK => NeverFull
    BY <1>1, <1>2 DEF NeverFull
  <1>4. QED
    BY <1>3, Invariance, CountsAlways, PTL
-----------------------------------------------------------------------------
(* The refinement. *)

LEMMA EnvFacts ==
  ASSUME IInv
  PROVE  /\ Len(Env) = cur /\ Env \in Seq([Idents -> Entities \cup {NoVal}])
         /\ \A k \in 1..cur : \A n \in Idents :
              /\ Env[k][n] = Lookup(tables[k], n)
              /\ Env[k][n] # NoVal <=> Defines(tables[k], n)
  <1>1. cur \in Nat /\ \A k \in 1..cur : tables[k] \in Table
    BY TablesFacts
  <1>2. \A k \in 1..cur : \A n \in Idents :
          /\ Lookup(tables[k], n) \in Entities \cup {NoVal}
          /\ Lookup(tables[k], n) # NoVal <=> Defines(tables[k], n)
    BY <1>1, LookupType
  <1>3. Len(Env) = cur /\ Env \in Seq([Idents -> Entities \cup {NoVal}])
    BY <1>1, <1>2 DEF Env
  <1>4. \A k \in 1..cur : \A n \in Idents : Env[k][n] = Lookup(tables[k], n)
    BY DEF Env
  <1>5. QED
    BY <1>2, <1>3, <1>4

\* The innermost scope that has a name decides what is visible.
LEMMA VisibleThere ==
  ASSUME IInv, NEW n \in Idents, NEW k \in 1..cur, Defines(tables[k], n),
         \A j \in k + 1 .. cur : ~Defines(tables[j], n)
  PROVE  Abstract!Visible(n) = Lookup(tables[k], n)
  <1>1. cur \in Nat
    BY TablesFacts
  <1>2. Abstract!Holders(n) = {j \in 1..cur : Defines(tables[j], n)}
    BY EnvFacts DEF Abstract!Holders
  <1>3. k \in Abstract!Holders(n) /\ \A j \in Abstract!Holders(n) : j <= k
    BY <1>1, <1>2
  <1>4. \A i \in Abstract!Holders(n) :
          (\A j \in Abstract!Holders(n) : j <= i) => i = k
    BY <1>1, <1>2, <1>3
  <1>5. Abstract!Innermost(n) = k
    BY <1>3, <1>4 DEF Abstract!Innermost
  <1>6. QED
    BY <1>3, <1>5, EnvFacts DEF Abstract!Visible

LEMMA VisibleNowhere ==
  ASSUME IInv, NEW n \in Idents, \A j \in 1..cur : ~Defines(tables[j], n)
  PROVE  Abstract!Visible(n) = NoVal
  <1>1. Abstract!Holders(n) = {}
    BY EnvFacts DEF Abstract!Holders
  <1>2. QED
    BY <1>1 DEF Abstract!Visible

\* A declaration that gets as far as storing is one that the maps accept.
LEMMA SetAccepted ==
  ASSUME IInv, pc = "set"
  PROVE  Abstract!Accepted
  <1>1. /\ req.op # "use" /\ InnermostKnown(req.name) /\ req.name \in Idents
        /\ \A k \in 1..cur : Defines(tables[k], req.name) =>
             Replaceable(Lookup(tables[k], req.name))
    BY TablesFacts DEF IInv, ScopesOK
  <1>2. CASE \A k \in 1..cur : ~Defines(tables[k], req.name)
    BY <1>1, <1>2, VisibleNowhere DEF Abstract!Accepted
  <1>3. CASE \E k \in 1..cur : /\ Defines(tables[k], req.name)
                               /\ \A j \in k + 1 .. cur : ~Defines(tables[j], req.name)
    BY <1>1, <1>3, VisibleThere DEF Abstract!Accepted, Replaceable
  <1>4. QED
    BY <1>1, <1>2, <1>3 DEF InnermostKnown

LEMMA SameEnv == ASSUME tables' = tables PROVE Env' = Env
  BY DEF Env, cur

LEMMA Stutter ==
  ASSUME UNCHANGED <<tables, req, answer>>, Status' = Status
  PROVE  UNCHANGED Abstract!vars
  BY SameEnv DEF Abstract!vars

LEMMA InitSimulation == ASSUME Init PROVE Abstract!Init
  <1>1. tables = <<NewTable>> /\ cur = 1
    BY DEF Init, cur
  <1>2. Env = <<[n \in Idents |-> NoVal]>>
    BY <1>1, NewTableFacts DEF Env
  <1>3. QED
    BY <1>2 DEF Init, Status, Abstract!Init, Abstract!NoNames, Abstract!Request, Request

LEMMA OpenScopeSimulation ==
  ASSUME IInv, OpenScope PROVE Abstract!OpenScope
  <1>1. /\ tables' = Append(tables, NewTable) /\ cur < MaxScopes
        /\ UNCHANGED <<pc, req, at, index, answer>> /\ pc = "idle"
    BY DEF OpenScope
  <1>2. /\ cur' = cur + 1 /\ tables'[cur + 1] = NewTable /\ cur \in Nat
        /\ \A k \in 1..cur : tables'[k] = tables[k]
    BY <1>1, TablesFacts, NewTableFacts DEF cur, TablesOK
  <1>3. \A k \in 1..cur + 1 : k \in 1..cur \/ k = cur + 1
    BY <1>2
  <1>4. Env' = [k \in 1..cur + 1 |-> [n \in Idents |-> Lookup(tables'[k], n)]]
    BY <1>2 DEF Env
  <1>5. Append(Env, Abstract!NoNames) =
          [k \in 1..cur + 1 |-> IF k = cur + 1 THEN Abstract!NoNames ELSE Env[k]]
    <2> DEFINE S == [Idents -> Entities \cup {NoVal}]
    <2>1. Env \in Seq(S) /\ Len(Env) = cur
      BY EnvFacts
    <2>2. Abstract!NoNames \in S
      BY DEF Abstract!NoNames
    <2> DEFINE A == Append(Env, Abstract!NoNames)
    <2> HIDE DEF S
    <2>3. /\ A \in Seq(S) /\ Len(A) = cur + 1
          /\ \A k \in 1..cur : A[k] = Env[k]
          /\ A[cur + 1] = Abstract!NoNames
      BY <2>1, <2>2, AppendProperties
    <2> HIDE DEF A
    <2>4. A \in [1..cur + 1 -> S]
      BY <2>3, LenProperties
    <2>5. \A k \in 1..cur + 1 :
            A[k] = IF k = cur + 1 THEN Abstract!NoNames ELSE Env[k]
      BY <1>2, <1>3, <2>3
    <2>6. A = [k \in 1..cur + 1 |-> IF k = cur + 1 THEN Abstract!NoNames ELSE Env[k]]
      BY <2>4, <2>5
    <2>7. QED
      BY <2>6 DEF A
  <1>6. ASSUME NEW k \in 1..cur + 1
        PROVE  [n \in Idents |-> Lookup(tables'[k], n)] =
                 IF k = cur + 1 THEN Abstract!NoNames ELSE Env[k]
    <2>1. CASE k = cur + 1
      BY <1>2, <2>1, NewTableFacts DEF Abstract!NoNames
    <2>2. CASE k # cur + 1
      BY <1>2, <1>3, <2>2 DEF Env
    <2>3. QED
      BY <2>1, <2>2
  <1>7. Env' = Append(Env, Abstract!NoNames)
    BY <1>4, <1>5, <1>6
  <1>8. QED
    BY <1>1, <1>7, EnvFacts DEF Abstract!OpenScope, Status

LEMMA CloseScopeSimulation ==
  ASSUME IInv, CloseScope PROVE Abstract!CloseScope
  <1>1. /\ tables' = SubSeq(tables, 1, cur - 1) /\ cur > 1
        /\ UNCHANGED <<pc, req, at, index, answer>> /\ pc = "idle"
    BY DEF CloseScope
  <1>2. /\ cur' = cur - 1 /\ cur \in Nat
        /\ \A k \in 1..cur - 1 : tables'[k] = tables[k]
    <2>1. tables \in Seq(Table) /\ Len(tables) \in Nat /\ cur = Len(tables)
      BY TablesFacts DEF cur, TablesOK
    <2>2. Len(tables) - 1 \in 1..Len(tables)
      BY <1>1, <2>1
    <2>3. /\ Len(tables') = Len(tables) - 1
          /\ \A k \in 1..Len(tables) - 1 : tables'[k] = tables[k]
      BY <1>1, <2>1, <2>2
    <2>4. QED
      BY <2>1, <2>2, <2>3 DEF cur
  <1>3. Env' = [k \in 1..cur - 1 |-> [n \in Idents |-> Lookup(tables'[k], n)]]
    BY <1>2 DEF Env
  <1>4. \A k \in 1..cur - 1 :
          /\ k \in 1..cur
          /\ [n \in Idents |-> Lookup(tables'[k], n)] = Env[k]
    BY <1>2 DEF Env
  <1>5. SubSeq(Env, 1, cur - 1) = [k \in 1..cur - 1 |-> Env[k]]
    BY <1>1, <1>2, EnvFacts
  <1>6. Env' = SubSeq(Env, 1, cur - 1)
    BY <1>3, <1>4, <1>5
  <1>7. QED
    BY <1>1, <1>6, EnvFacts DEF Abstract!CloseScope, Status

LEMMA SetSimulation == ASSUME IInv, Set PROVE Abstract!Declare
  <1>1. /\ pc = "set" /\ pc' = "idle" /\ answer' = req.val /\ req' = req
        /\ cur \in Nat \ {0} /\ req.name \in Idents
    BY TablesFacts DEF Set
  <1>2. Abstract!Accepted
    BY <1>1, SetAccepted
  <1>3. /\ cur' = cur /\ \A k \in 1..cur : k = cur \/ k \in 1..cur - 1
        /\ \A k \in 1..cur - 1 : tables'[k] = tables[k]
    BY <1>1, SetFacts
  <1>4. Env' = [k \in 1..cur |-> [n \in Idents |-> Lookup(tables'[k], n)]]
    BY <1>3 DEF Env
  <1>5. [Env EXCEPT ![cur][req.name] = req.val] =
          [k \in 1..cur |-> [n \in Idents |->
             IF k = cur /\ n = req.name THEN req.val ELSE Lookup(tables[k], n)]]
    BY <1>1 DEF Env
  <1>6. ASSUME NEW k \in 1..cur, NEW n \in Idents
        PROVE  Lookup(tables'[k], n) =
                 IF k = cur /\ n = req.name THEN req.val ELSE Lookup(tables[k], n)
    BY <1>3, SetFacts
  <1>7. Env' = [Env EXCEPT ![cur][req.name] = req.val]
    <2>1. ASSUME NEW k \in 1..cur
          PROVE  [n \in Idents |-> Lookup(tables'[k], n)] =
                   [n \in Idents |-> IF k = cur /\ n = req.name
                                      THEN req.val ELSE Lookup(tables[k], n)]
      BY <1>6
    <2>2. QED
      BY <1>4, <1>5, <2>1
  <1>8. req.op # "use" /\ Status = "asked" /\ Status' = "idle"
    BY <1>1, SetFacts DEF Status
  <1>9. QED
    BY <1>1, <1>2, <1>7, <1>8, EnvFacts DEF Abstract!Declare

LEMMA UseSimulation ==
  ASSUME IInv, Searching, req.op = "use", NEW a, Done(a),
         a = Abstract!Visible(req.name)
  PROVE  Abstract!Use
  BY SameEnv DEF Done, Searching, Status, Abstract!Use

LEMMA RefuseSimulation ==
  ASSUME IInv, Searching, req.op # "use", Reject, ~Abstract!Accepted
  PROVE  Abstract!Refuse
  BY SameEnv DEF Reject, Searching, Status, Abstract!Refuse

\* Every step of a search is a step of the maps or leaves them as they are.
LEMMA SearchSimulation ==
  ASSUME IInv, Search PROVE [Abstract!Next]_Abstract!vars
  <1> SUFFICES \/ Abstract!Use \/ Abstract!Declare \/ Abstract!Refuse
               \/ UNCHANGED Abstract!vars
    BY DEF Abstract!Next
  <1>0. req.op \in {"use", "var", "func"} /\ req.name \in Idents
    BY TablesFacts DEF Request
  <1>1. CASE Probe
    BY <1>1, Stutter DEF Probe, Status
  <1>2. CASE OwnAbsent
    BY <1>2, Stutter DEF OwnAbsent, Status
  <1>3. ASSUME SetBegin, Searching
        PROVE  UNCHANGED Abstract!vars
    <2>1. Status = "asked" /\ Status' = "asked"
      BY <1>3 DEF SetBegin, Searching, Status
    <2>2. QED
      BY <1>3, <2>1, Stutter DEF SetBegin
  <1>4. CASE OwnFound
    <2>1. /\ pc = "own" /\ Seen.key = req.name /\ Searching
          /\ IF Replaceable(Seen.val) THEN SetBegin ELSE Reject
      BY <1>4 DEF OwnFound, Searching
    <2>2. CASE ~Replaceable(Seen.val)
      <3>1. /\ at = cur /\ cur \in 1..cur /\ cur \in Nat
            /\ Defines(tables[cur], req.name) /\ req.op # "use"
            /\ Lookup(tables[cur], req.name) = Seen.val /\ Seen.val \in Entities
        BY <2>1, SearchFacts, TablesFacts DEF IInv, ScopesOK
      <3>2. Abstract!Visible(req.name) = Seen.val
        <4>1. \A j \in cur + 1 .. cur : ~Defines(tables[j], req.name)
          BY <3>1
        <4>2. QED
          BY <1>0, <3>1, <4>1, VisibleThere
      <3>3. ~Abstract!Accepted
        BY <1>0, <2>2, <3>1, <3>2, NamesAssumption DEF Abstract!Accepted, Replaceable
      <3>4. QED
        BY <2>1, <2>2, <3>1, <3>3, RefuseSimulation
    <2>3. QED
      BY <1>3, <2>1, <2>2
  <1>5. CASE OuterFound
    <2>1. /\ pc = "outer" /\ Seen.key = req.name /\ Searching
      BY <1>5 DEF OuterFound, Searching
    <2>2. /\ at \in 1..cur /\ Defines(tables[at], req.name)
          /\ Lookup(tables[at], req.name) = Seen.val /\ Seen.val \in Entities
          /\ \A j \in at + 1 .. cur : ~Defines(tables[j], req.name)
      BY <2>1, SearchFacts DEF IInv, ScopesOK
    <2>3. Abstract!Visible(req.name) = Seen.val
      BY <1>0, <2>2, VisibleThere
    <2>4. CASE req.op = "use"
      BY <1>5, <2>1, <2>3, <2>4, UseSimulation DEF OuterFound
    <2>5. CASE req.op = "func" /\ Replaceable(Seen.val)
      BY <1>3, <1>5, <2>1, <2>5 DEF OuterFound
    <2>6. CASE req.op # "use" /\ ~Replaceable(Seen.val)
      <3>1. ~Abstract!Accepted
        BY <1>0, <2>2, <2>3, <2>6, NamesAssumption DEF Abstract!Accepted, Replaceable
      <3>2. Reject
        BY <1>0, <1>5, <2>6 DEF OuterFound
      <3>3. QED
        BY <2>1, <2>6, <3>1, <3>2, RefuseSimulation
    <2>7. CASE req.op = "var"
      <3>1. ~Replaceable(Seen.val)
        BY <2>7 DEF Replaceable
      <3>2. QED
        BY <2>6, <2>7, <3>1
    <2>8. QED
      BY <1>0, <2>4, <2>5, <2>6, <2>7
  <1>6. CASE OuterAbsent
    <2>1. pc = "outer" /\ Seen.key = NoName /\ Searching
      BY <1>6 DEF OuterAbsent, Searching
    <2>2. CASE at > 1
      BY <1>6, <2>2, Stutter DEF OuterAbsent, Status
    <2>3. CASE ~(at > 1) /\ req.op # "use"
      BY <1>3, <1>6, <2>1, <2>3 DEF OuterAbsent
    <2>4. CASE ~(at > 1) /\ req.op = "use"
      <3>1. /\ cur \in Nat \ {0} /\ at \in 1..cur
            /\ ~Defines(tables[at], req.name)
            /\ \A j \in at + 1 .. cur : ~Defines(tables[j], req.name)
        BY <2>1, SearchFacts, TablesFacts DEF IInv, ScopesOK
      <3>2. \A j \in 1..cur : ~Defines(tables[j], req.name)
        BY <2>4, <3>1
      <3>3. QED
        BY <1>0, <1>6, <2>1, <2>4, <3>2, VisibleNowhere, UseSimulation
           DEF OuterAbsent
    <2>5. QED
      BY <2>2, <2>3, <2>4
  <1>7. CASE Set
    BY <1>7, SetSimulation
  <1>8. QED
    BY <1>1, <1>2, <1>4, <1>5, <1>6, <1>7 DEF Search

LEMMA NextSimulation ==
  ASSUME IInv, [Next]_vars PROVE [Abstract!Next]_Abstract!vars
  <1>1. CASE UNCHANGED vars
    BY <1>1, Stutter DEF vars, Status
  <1>2. CASE OpenScope
    BY <1>2, OpenScopeSimulation DEF Abstract!Next
  <1>3. CASE CloseScope
    BY <1>3, CloseScopeSimulation DEF Abstract!Next
  <1>4. ASSUME NEW r \in Request, Ask(r)
        PROVE  Abstract!Ask
    BY <1>4, SameEnv DEF Ask, Status, Abstract!Ask, Abstract!Request, Request
  <1>5. QED
    BY <1>1, <1>2, <1>3, <1>4, SearchSimulation DEF Next, Abstract!Next

\* Open addressing and the walk along the scopes answer every use, and accept
\* or refuse every declaration, as a chain of maps does.
THEOREM Implementation == Spec => ImplementsMaps
  <1>1. Init => Abstract!Init
    BY InitSimulation
  <1>2. IInv /\ [Next]_vars => [Abstract!Next]_Abstract!vars
    BY NextSimulation
  <1>3. QED
    BY <1>1, <1>2, Invariance, PTL DEF Spec, ImplementsMaps, Abstract!Spec
=============================================================================
