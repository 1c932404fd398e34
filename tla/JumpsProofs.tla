---------------------------- MODULE JumpsProofs ----------------------------
(***************************************************************************)
(* Every jump lands on its label, whatever the program and however its     *)
(* blocks lie, unless it passes over an item larger than its estimate and  *)
(* is too far from its label for the one byte of its field.                *)
(*                                                                         *)
(* The invariant follows a short jump that waits for its label: as long as *)
(* nothing since was larger than its estimate, the bytes written since,    *)
(* together with the estimates of what is left up to the label, never come *)
(* to more than the one byte of its field can hold.                        *)
(***************************************************************************)
EXTENDS Jumps, SequenceTheorems, TLAPS

\* The labels of the program are where place says.
PlaceOK ==
  /\ \A l \in Labels :
       /\ place[l] \in 0..Len(prog)
       /\ place[l] # 0 => prog[place[l]].k = "label" /\ prog[place[l]].l = l
  /\ \A n \in 1..Len(prog) : prog[n].k = "label" => place[prog[n].l] = n
  /\ status # "parse" =>
       \A n \in 1..Len(prog) : IsJump(prog[n]) => place[prog[n].l] # 0

SumOK == \A n \in 1..Len(prog) : cum[n + 1] = cum[n] + Est(prog[n])

WriterOK ==
  /\ pos \in 1..Len(prog) + 1
  /\ status = "parse" => pos = 1 /\ jumps = <<>>
  /\ status = "done" => pos = Len(prog) + 1

\* A label is found once the writer has passed it.
AddrOK == \A l \in Labels : addr[l] # -1 <=> place[l] # 0 /\ place[l] < pos

\* The items from a on and before b are no larger than their estimates.
AllFit(a, b) == \A m \in a..(b - 1) : ~Oversized(prog[m])

\* An open jump can still reach its label, if the items since have fitted.
OpenOK(j) ==
  ~j.patched =>
    /\ place[j.l] >= pos /\ j.from < pos
    /\ j.at + j.size <= cnt
    /\ j.size = 1 /\ AllFit(j.from + 1, pos) =>
         cnt - (j.at + 1) + cum[place[j.l]] - cum[pos] < Near

\* A filled field holds what one of its size can of the distance, and all
\* of it if the items in between have fitted.
ClosedOK(j) ==
  j.patched =>
    /\ addr[j.l] # -1
    /\ j.disp = Field(Distance(j), j.size)
    /\ j.size = 1 => -Near <= Distance(j)
    /\ AllFit(j.from + 1, place[j.l]) => ~TooFar(j)

JumpsOK == \A n \in 1..Len(jumps) : OpenOK(jumps[n]) /\ ClosedOK(jumps[n])

\* What is recorded for a label before its arrays are overrun.
RecordOK(o) ==
  \/ o.cnt = 0 /\ o.ofstCap = 0 /\ o.sizeCap = 0
  \/ o.cnt \in 1..InitCap /\ o.ofstCap = InitCap /\ o.sizeCap = InitCap

RecordsOK ==
  IF status = "corrupt" THEN \E l \in Labels : ofsts[l].cnt > InitCap
                        ELSE \A l \in Labels : RecordOK(ofsts[l])

IInv ==
  /\ TypeOK /\ PlaceOK /\ SumOK /\ WriterOK /\ AddrOK /\ JumpsOK /\ RecordsOK
-----------------------------------------------------------------------------
(* An item of a program: what its fields are.                              *)
LEMMA ItemFacts ==
  ASSUME NEW i \in Items
  PROVE  /\ i.k \in {"block", "label", "goto", "CALL", "JMP", "JCC"}
         /\ i.k # "block" => i.l \in Labels
         /\ i.k = "block" => i.b \in Blocks
         /\ i.n \in 0..MaxLinks
         /\ i.k # "goto" => i.n = 0
BY BoundsAssumption DEF Items, Kinds

(* What is estimated for an item.                                          *)
LEMMA EstNat ==
  ASSUME NEW i \in Items
  PROVE  Est(i) \in Nat
<1>1. i.k = "block" => i.b.est \in Nat
  BY ItemFacts, BlocksAssumption
<1> QED BY <1>1, ItemFacts DEF Est

(* A block that fits is no larger than its estimate.                       *)
LEMMA BlockFits ==
  ASSUME NEW i \in Items, i.k = "block"
  PROVE  i.b.size \in Nat /\ (~Oversized(i) => i.b.size <= Est(i))
<1>1. i.b.size \in Nat
  BY ItemFacts, BlocksAssumption
<1>2. Bytes(i) = i.b.size /\ Est(i) \in Nat
  BY EstNat DEF Bytes
<1> QED BY <1>1, <1>2 DEF Oversized

(* Nor is a jump, of either size, with what a goto emits before it.        *)
LEMMA JumpFits ==
  ASSUME NEW i \in Items, IsJump(i), NEW size \in {2, LongSize(Kind(i))}
  PROVE  /\ Links(i) \in Nat
         /\ ~Oversized(i) => Links(i) + size <= Est(i)
         /\ LongSize(Kind(i)) \in {5, 6}
<1>1. i.k \in {"goto", "CALL", "JMP", "JCC"} /\ i.n \in Nat
  BY ItemFacts, BoundsAssumption DEF IsJump, Kinds
<1>2. Links(i) \in Nat /\ LongSize(Kind(i)) \in {5, 6}
  BY <1>1 DEF Links, LongSize
<1>3. Bytes(i) = Links(i) + LongSize(Kind(i)) /\ Est(i) \in Nat
  BY <1>1, EstNat DEF Bytes
<1>4. Links(i) + size <= Bytes(i)
  BY <1>2, <1>3
<1>5. Bytes(i) \in Nat /\ Links(i) + size \in Nat
  BY <1>2, <1>3
<1> QED BY <1>2, <1>3, <1>4, <1>5 DEF Oversized

(* A field of four bytes, or of one that is large enough, holds the value. *)
LEMMA FieldHolds ==
  ASSUME NEW v \in Int, NEW size \in {1, 4},
         size = 1 => -Near <= v /\ v < Near
  PROVE  Field(v, size) = v
BY DEF Field, Near

(* The fields of a jump just written, and of one that is filled in.        *)
LEMMA JumpFields ==
  ASSUME NEW l, NEW from, NEW at, NEW size, NEW disp, NEW patched
  PROVE  LET j == Jump(l, from, at, size, disp, patched)
         IN /\ j.l = l /\ j.from = from /\ j.at = at /\ j.size = size
            /\ j.disp = disp /\ j.patched = patched
BY DEF Jump

JumpRecords == [l : Labels, from : Nat, at : Nat, size : {1, 4}, disp : Int, patched : BOOLEAN]

LEMMA PatchFields ==
  ASSUME NEW j \in JumpRecords, NEW target
  PROVE  LET p == Patch(j, target)
         IN /\ p.l = j.l /\ p.from = j.from /\ p.at = j.at /\ p.size = j.size /\ p.patched
            /\ p.disp = Field(target - (j.at + j.size), j.size)
BY DEF Patch, JumpRecords

LEMMA PatchIsRecord ==
  ASSUME NEW j \in JumpRecords, NEW target, NEW v \in Int,
         Field(target - (j.at + j.size), j.size) = v
  PROVE  Patch(j, target) \in JumpRecords
<1>1. Patch(j, target) = [j EXCEPT !.disp = v, !.patched = TRUE]
  BY DEF Patch
<1>2. [j EXCEPT !.disp = v, !.patched = TRUE] \in JumpRecords
  BY DEF JumpRecords
<1> QED BY <1>1, <1>2

(* The first record of a label allocates its arrays; the one that exceeds  *)
(* them enlarges only the first.                                           *)
LEMMA RecordedFacts ==
  ASSUME NEW o \in [cnt : Nat, ofstCap : Nat, sizeCap : Nat], RecordOK(o)
  PROVE  LET r == Recorded(o)
         IN /\ r \in [cnt : Nat, ofstCap : Nat, sizeCap : Nat]
            /\ r.cnt = o.cnt + 1
            /\ r.ofstCap >= InitCap
            /\ r.cnt > r.sizeCap => r.cnt > InitCap
            /\ ~(r.cnt > r.sizeCap) => RecordOK(r)
<1> USE BoundsAssumption
<1>1. CASE o.cnt = 0 /\ o.ofstCap = 0 /\ o.sizeCap = 0
  BY <1>1 DEF Recorded, Grow, RecordOK
<1>2. CASE o.cnt \in 1..(InitCap - 1) /\ o.ofstCap = InitCap /\ o.sizeCap = InitCap
  BY <1>2 DEF Recorded, Grow, RecordOK
<1>3. CASE o.cnt = InitCap /\ o.ofstCap = InitCap /\ o.sizeCap = InitCap
  BY <1>3 DEF Recorded, Grow, RecordOK
<1> QED BY <1>1, <1>2, <1>3 DEF RecordOK

-----------------------------------------------------------------------------
(* The item the writer is at.                                              *)
LEMMA AtPos ==
  ASSUME IInv, pos <= Len(prog)
  PROVE  /\ pos \in 1..Len(prog) /\ prog[pos] \in Items
         /\ cum[pos] \in Nat /\ cum[pos + 1] \in Nat
         /\ cum[pos + 1] = cum[pos] + Est(prog[pos])
         /\ pos + 1 \in 1..Len(prog) + 1
<1>1. pos \in 1..Len(prog) /\ prog \in Seq(Items) /\ cum \in Seq(Nat) /\ Len(cum) = Len(prog) + 1
  BY DEF IInv, TypeOK, WriterOK
<1> QED BY <1>1 DEF IInv, SumOK

(* As many bytes written as were estimated keep the reach of a jump.       *)
LEMMA ReachKept ==
  ASSUME NEW c \in Nat, NEW d \in Nat, NEW a \in Nat, NEW x \in Nat,
         NEW y \in Nat, NEW z \in Nat, NEW e \in Nat,
         z = y + e, d - c <= e, c - (a + 1) + x - y < Near
  PROVE  d - (a + 1) + x - z < Near
<1>1. d - (a + 1) + x - z <= c - (a + 1) + x - y
  OBVIOUS
<1> QED BY <1>1 DEF Near

(* What fits up to the next item fits up to this one, and this one fits.   *)
LEMMA AllFitNext ==
  ASSUME NEW a \in Nat, NEW b \in Nat, a <= b, AllFit(a, b + 1)
  PROVE  AllFit(a, b) /\ ~Oversized(prog[b])
<1>1. \A m \in a..b : ~Oversized(prog[m])
  BY DEF AllFit
<1>2. b \in a..b /\ \A m \in a..(b - 1) : m \in a..b
  OBVIOUS
<1> QED BY <1>1, <1>2 DEF AllFit

(* An open jump to a label that is still ahead stays within reach while    *)
(* the writer passes an item that fits.                                    *)
LEMMA StaysOpen ==
  ASSUME IInv, pos <= Len(prog), NEW n \in 1..Len(jumps), ~jumps[n].patched,
         place[jumps[n].l] # pos,
         NEW c \in Nat, cnt <= c, ~Oversized(prog[pos]) => c - cnt <= Est(prog[pos])
  PROVE  /\ place[jumps[n].l] >= pos + 1 /\ jumps[n].from < pos + 1
         /\ jumps[n].at + jumps[n].size <= c
         /\ jumps[n].size = 1 /\ AllFit(jumps[n].from + 1, pos + 1) =>
              c - (jumps[n].at + 1) + cum[place[jumps[n].l]] - cum[pos + 1] < Near
<1> DEFINE j == jumps[n]
           q == place[j.l]
           e == Est(prog[pos])
<1>1. j \in JumpRecords
  <2>1. jumps \in Seq(JumpRecords)
    BY DEF IInv, TypeOK, JumpRecords
  <2> QED BY <2>1
<1>2. j.at \in Nat /\ j.size \in {1, 4} /\ j.l \in Labels /\ j.from \in Nat
  BY <1>1 DEF JumpRecords
<1>3. q \in 0..Len(prog) /\ cnt \in Nat /\ Len(prog) \in Nat
  <2>1. q \in 0..Len(prog)
    BY <1>2 DEF IInv, PlaceOK
  <2>2. cnt \in Nat /\ prog \in Seq(Items)
    BY DEF IInv, TypeOK
  <2> QED BY <2>1, <2>2
<1>4. /\ q >= pos /\ j.from < pos /\ j.at + j.size <= cnt
      /\ j.size = 1 /\ AllFit(j.from + 1, pos) => cnt - (j.at + 1) + cum[q] - cum[pos] < Near
  BY DEF IInv, JumpsOK, OpenOK
<1>5. /\ pos \in 1..Len(prog) /\ cum[pos] \in Nat /\ cum[pos + 1] \in Nat
      /\ cum[pos + 1] = cum[pos] + e /\ e \in Nat
  BY AtPos, EstNat
<1>6. q # pos /\ (~Oversized(prog[pos]) => c - cnt <= e)
  OBVIOUS
<1>7. cum \in Seq(Nat) /\ Len(cum) = Len(prog) + 1
  BY DEF IInv, TypeOK
<1> HIDE DEF j, q, e
<1>8. q \in 1..Len(prog)
  BY <1>3, <1>4, <1>5
<1>9. cum[q] \in Nat
  BY <1>3, <1>7, <1>8
<1>10. q >= pos + 1 /\ j.from < pos + 1 /\ j.at + j.size <= c
  <2> DEFINE end == j.at + j.size
  <2>1. end \in Nat /\ end <= cnt
    BY <1>2, <1>4
  <2>2. q >= pos + 1 /\ j.from < pos + 1
    BY <1>2, <1>3, <1>4, <1>5, <1>6
  <2>3. end <= c
    <3> HIDE DEF end
    <3> QED BY <1>3, <2>1
  <2> QED BY <2>2, <2>3
<1>11. ASSUME j.size = 1, AllFit(j.from + 1, pos + 1)
       PROVE  c - (j.at + 1) + cum[q] - cum[pos + 1] < Near
  <2>1. j.from + 1 \in Nat /\ pos \in Nat /\ j.from + 1 <= pos
    <3>1. j.from < pos /\ j.from \in Nat /\ pos \in Nat
      BY <1>2, <1>3, <1>4, <1>5
    <3> QED BY <3>1
  <2>2. AllFit(j.from + 1, pos) /\ ~Oversized(prog[pos])
    BY <1>11, <2>1, AllFitNext
  <2>3. cnt - (j.at + 1) + cum[q] - cum[pos] < Near /\ c - cnt <= e
    BY <1>4, <1>6, <1>11, <2>2
  <2> QED BY <2>3, <1>2, <1>3, <1>5, <1>9, ReachKept
<1> QED BY <1>10, <1>11 DEF j, q

(* A label other than the one passed stays found, or not.                  *)
LEMMA LabelNotAt ==
  ASSUME IInv, pos <= Len(prog), prog[pos].k # "label", NEW l \in Labels
  PROVE  place[l] # pos
BY AtPos DEF IInv, PlaceOK

(* A label that is not found is ahead.                                     *)
LEMMA LabelAhead ==
  ASSUME IInv, status = "write", pos <= Len(prog), IsJump(prog[pos]),
         addr[prog[pos].l] = -1
  PROVE  /\ place[prog[pos].l] \in pos + 1 .. Len(prog)
         /\ place[prog[pos].l] \in 1..Len(prog)
<1>1. prog[pos] \in Items /\ pos \in 1..Len(prog)
  BY AtPos
<1>2. prog[pos].l \in Labels /\ prog[pos].k # "label"
  BY <1>1, ItemFacts DEF IsJump, Kinds
<1>3. place[prog[pos].l] \in 0..Len(prog) /\ place[prog[pos].l] # 0
  BY <1>1, <1>2 DEF IInv, PlaceOK
<1>4. place[prog[pos].l] >= pos
  BY <1>1, <1>2, <1>3 DEF IInv, AddrOK
<1>5. place[prog[pos].l] # pos
  BY <1>2, LabelNotAt
<1> QED BY <1>1, <1>3, <1>4, <1>5
-----------------------------------------------------------------------------
(* The invariant, one action after the other.                              *)

LEMMA InitInv == Init => IInv
<1> SUFFICES ASSUME Init PROVE IInv
  OBVIOUS
<1> USE BoundsAssumption DEF Init
<1>1. TypeOK
  BY DEF TypeOK
<1>2. PlaceOK /\ SumOK /\ WriterOK /\ AddrOK /\ JumpsOK
  BY DEF PlaceOK, SumOK, WriterOK, AddrOK, JumpsOK
<1>3. RecordsOK
  BY DEF RecordsOK, RecordOK
<1> QED BY <1>1, <1>2, <1>3 DEF IInv

LEMMA AddIMInv ==
  ASSUME IInv, AddIM
  PROVE  IInv'
<1> PICK i \in Items :
      /\ i.k = "label" => place[i.l] = 0
      /\ prog' = Append(prog, i)
      /\ cum' = Append(cum, cum[Len(prog) + 1] + Est(i))
      /\ place' = IF i.k = "label" THEN [place EXCEPT ![i.l] = Len(prog) + 1] ELSE place
  BY DEF AddIM
<1>1. /\ status = "parse" /\ pos = 1 /\ jumps = <<>>
      /\ UNCHANGED <<pos, cnt, addr, jumps, ofsts, status>>
  BY DEF AddIM, IInv, WriterOK
<1>2. /\ prog \in Seq(Items) /\ cum \in Seq(Nat) /\ Len(cum) = Len(prog) + 1
      /\ place \in [Labels -> Nat] /\ Len(prog) \in Nat
  BY DEF IInv, TypeOK
<1>3. cum[Len(prog) + 1] \in Nat /\ Est(i) \in Nat
  BY <1>2, EstNat
<1>4. /\ prog' \in Seq(Items) /\ Len(prog') = Len(prog) + 1
      /\ \A n \in 1..Len(prog) : prog'[n] = prog[n]
      /\ prog'[Len(prog) + 1] = i
  BY <1>2
<1>5. /\ cum' \in Seq(Nat) /\ Len(cum') = Len(prog) + 2
      /\ \A n \in 1..Len(prog) + 1 : cum'[n] = cum[n]
      /\ cum'[Len(prog) + 2] = cum[Len(prog) + 1] + Est(i)
  BY <1>2, <1>3
<1>6. place' \in [Labels -> Nat]
  <2>1. CASE i.k = "label"
    <3>1. place' = [place EXCEPT ![i.l] = Len(prog) + 1]
      BY <2>1
    <3>2. Len(prog) + 1 \in Nat
      BY <1>2
    <3> QED BY <1>2, <3>1, <3>2, Zenon
  <2>2. CASE i.k # "label"
    <3>1. place' = place
      BY <2>2
    <3> QED BY <1>2, <3>1
  <2> QED BY <2>1, <2>2
<1>7. TypeOK'
  BY <1>1, <1>4, <1>5, <1>6 DEF IInv, TypeOK
<1>8. \A l \in Labels :
        \/ place'[l] = place[l] /\ ~(i.k = "label" /\ i.l = l)
        \/ place[l] = 0 /\ place'[l] = Len(prog) + 1 /\ i.k = "label" /\ i.l = l
  BY <1>2
<1>9. PlaceOK'
  <2>1. ASSUME NEW l \in Labels
        PROVE  /\ place'[l] \in 0..Len(prog')
               /\ place'[l] # 0 => prog'[place'[l]].k = "label" /\ prog'[place'[l]].l = l
    <3>1. place[l] \in 0..Len(prog)
      BY DEF IInv, PlaceOK
    <3>2. place[l] # 0 => prog[place[l]].k = "label" /\ prog[place[l]].l = l
      BY DEF IInv, PlaceOK
    <3> QED BY <1>2, <1>4, <1>8, <3>1, <3>2
  <2>2. ASSUME NEW n \in 1..Len(prog'), prog'[n].k = "label"
        PROVE  place'[prog'[n].l] = n
    <3>1. CASE n = Len(prog) + 1
      <4>1. i.k = "label" /\ i.l \in Labels /\ prog'[n].l = i.l
        BY <1>4, <2>2, <3>1, ItemFacts
      <4> QED BY <1>8, <4>1, <3>1, <1>2
    <3>2. CASE n \in 1..Len(prog)
      <4>1. prog[n] \in Items /\ prog[n].k = "label" /\ prog'[n].l = prog[n].l
        BY <1>2, <1>4, <2>2, <3>2
      <4>2. prog[n].l \in Labels /\ place[prog[n].l] = n
        BY <4>1, <3>2, ItemFacts DEF IInv, PlaceOK
      <4> QED BY <1>8, <4>1, <4>2, <3>2
    <3> QED BY <1>2, <1>4, <3>1, <3>2
  <2> QED BY <1>1, <2>1, <2>2 DEF PlaceOK
<1>10. SumOK'
  <2> SUFFICES ASSUME NEW n \in 1..Len(prog')
               PROVE  cum'[n + 1] = cum'[n] + Est(prog'[n])
    BY DEF SumOK, Est
  <2>1. CASE n = Len(prog) + 1
    BY <1>2, <1>4, <1>5, <2>1
  <2>2. CASE n \in 1..Len(prog)
    BY <1>2, <1>4, <1>5, <2>2 DEF IInv, SumOK
  <2> QED BY <1>2, <1>4, <2>1, <2>2
<1>11. WriterOK'
  BY <1>1, <1>2, <1>4 DEF WriterOK
<1>12. AddrOK'
  BY <1>1, <1>2, <1>8 DEF IInv, AddrOK
<1>13. JumpsOK' /\ RecordsOK'
  BY <1>1 DEF IInv, JumpsOK, RecordsOK, RecordOK
<1> QED BY <1>7, <1>9, <1>10, <1>11, <1>12, <1>13 DEF IInv

LEMMA StartWritingInv ==
  ASSUME IInv, StartWriting
  PROVE  IInv'
<1> USE DEF StartWriting, IInv
<1>1. TypeOK'
  BY DEF TypeOK
<1>2. PlaceOK'
  BY DEF PlaceOK, IsJump
<1>3. SumOK' /\ WriterOK' /\ AddrOK'
  BY DEF SumOK, WriterOK, AddrOK, Est
<1>4. JumpsOK'
  BY DEF JumpsOK, OpenOK, ClosedOK, Distance, TooFar, AllFit, Oversized, Bytes, Est
<1>5. RecordsOK'
  BY DEF RecordsOK, RecordOK
<1> QED BY <1>1, <1>2, <1>3, <1>4, <1>5

LEMMA FinishCodeInv ==
  ASSUME IInv, FinishCode
  PROVE  IInv'
<1> USE DEF FinishCode, IInv
<1>1. TypeOK'
  BY DEF TypeOK
<1>2. PlaceOK'
  BY DEF PlaceOK, IsJump
<1>3. SumOK' /\ AddrOK'
  BY DEF SumOK, AddrOK, Est
<1>4. WriterOK'
  <2>1. Len(prog) \in Nat
    BY DEF TypeOK
  <2> QED BY <2>1 DEF WriterOK
<1>5. JumpsOK'
  BY DEF JumpsOK, OpenOK, ClosedOK, Distance, TooFar, AllFit, Oversized, Bytes, Est
<1>6. RecordsOK'
  BY DEF RecordsOK, RecordOK
<1> QED BY <1>1, <1>2, <1>3, <1>4, <1>5, <1>6
(* What the writer does not touch while it passes an item.                 *)
LEMMA PassingInv ==
  ASSUME IInv, status = "write", pos <= Len(prog), pos' = pos + 1,
         UNCHANGED <<prog, cum, place>>, status' \in {"write", "corrupt"}
  PROVE  PlaceOK' /\ SumOK' /\ WriterOK'
<1>1. pos + 1 \in 1..Len(prog) + 1
  BY AtPos
<1>2. PlaceOK'
  BY DEF IInv, PlaceOK, IsJump
<1>3. SumOK'
  BY DEF IInv, SumOK, Est
<1>4. WriterOK'
  BY <1>1 DEF WriterOK
<1> QED BY <1>2, <1>3, <1>4

(* Passing anything but a label finds none.                                *)
LEMMA AddrKept ==
  ASSUME IInv, pos <= Len(prog), prog[pos].k # "label", pos' = pos + 1,
         UNCHANGED <<place, addr>>
  PROVE  AddrOK'
<1> SUFFICES ASSUME NEW l \in Labels
             PROVE  addr[l] # -1 <=> place[l] # 0 /\ place[l] < pos + 1
  BY DEF AddrOK
<1>1. place[l] # pos
  BY LabelNotAt
<1>2. place[l] \in Nat /\ pos \in Nat
  BY AtPos DEF IInv, TypeOK
<1>3. addr[l] # -1 <=> place[l] # 0 /\ place[l] < pos
  BY DEF IInv, AddrOK
<1> QED BY <1>1, <1>2, <1>3

(* The jumps written before, while the writer passes anything but a label. *)
LEMMA JumpKept ==
  ASSUME IInv, pos <= Len(prog), prog[pos].k # "label", pos' = pos + 1,
         UNCHANGED <<prog, cum, place, addr>>,
         cnt' \in Nat, cnt <= cnt', ~Oversized(prog[pos]) => cnt' - cnt <= Est(prog[pos]),
         NEW n \in 1..Len(jumps), jumps'[n] = jumps[n]
  PROVE  (OpenOK(jumps[n]) /\ ClosedOK(jumps[n]))'
<1>1. jumps[n].l \in Labels
  <2>1. jumps \in Seq(JumpRecords)
    BY DEF IInv, TypeOK, JumpRecords
  <2>2. jumps[n] \in JumpRecords
    BY <2>1
  <2> QED BY <2>2 DEF JumpRecords
<1>2. place[jumps[n].l] # pos
  BY <1>1, LabelNotAt
<1>3. ASSUME ~jumps[n].patched
      PROVE  /\ place[jumps[n].l] >= pos + 1 /\ jumps[n].from < pos + 1
             /\ jumps[n].at + jumps[n].size <= cnt'
             /\ jumps[n].size = 1 /\ AllFit(jumps[n].from + 1, pos + 1) =>
                  cnt' - (jumps[n].at + 1) + cum[place[jumps[n].l]] - cum[pos + 1] < Near
  BY <1>2, <1>3, StaysOpen
<1>4. \A a, b : AllFit(a, b)' <=> AllFit(a, b)
  BY DEF AllFit, Oversized, Bytes, Est
<1>5. OpenOK(jumps[n])'
  BY <1>3, <1>4 DEF OpenOK
<1>6. ClosedOK(jumps[n]) => ClosedOK(jumps[n])'
  BY <1>4 DEF ClosedOK, Distance, TooFar
<1> QED BY <1>5, <1>6 DEF IInv, JumpsOK

LEMMA WriteBlockInv ==
  ASSUME IInv, WriteBlock
  PROVE  IInv'
<1>1. /\ status = "write" /\ pos <= Len(prog) /\ prog[pos].k = "block"
      /\ cnt' = cnt + prog[pos].b.size /\ pos' = pos + 1
      /\ UNCHANGED <<prog, cum, place, addr, jumps, ofsts, status>>
  BY DEF WriteBlock
<1>2. prog[pos] \in Items /\ pos + 1 \in Nat /\ cnt \in Nat /\ Est(prog[pos]) \in Nat
  <2>1. prog[pos] \in Items /\ pos + 1 \in Nat
    BY <1>1, AtPos
  <2>2. cnt \in Nat
    BY DEF IInv, TypeOK
  <2> QED BY <2>1, <2>2, EstNat
<1>3. /\ prog[pos].b.size \in Nat
      /\ ~Oversized(prog[pos]) => prog[pos].b.size <= Est(prog[pos])
  BY <1>1, <1>2, BlockFits
<1>4. cnt' \in Nat /\ cnt <= cnt' /\ (~Oversized(prog[pos]) => cnt' - cnt <= Est(prog[pos]))
  <2> DEFINE s == prog[pos].b.size
             e == Est(prog[pos])
             big == Oversized(prog[pos])
  <2>1. cnt' = cnt + s /\ cnt \in Nat /\ s \in Nat /\ e \in Nat /\ (~big => s <= e)
    BY <1>1, <1>2, <1>3
  <2> HIDE DEF s, e, big
  <2>2. cnt' \in Nat /\ cnt <= cnt' /\ (~big => cnt' - cnt <= e)
    BY <2>1
  <2> QED BY <2>2 DEF e, big
<1>5. TypeOK'
  BY <1>1, <1>2, <1>4 DEF IInv, TypeOK
<1>6. PlaceOK' /\ SumOK' /\ WriterOK'
  BY <1>1, PassingInv
<1>7. AddrOK'
  BY <1>1, AddrKept
<1>8. JumpsOK'
  BY <1>1, <1>4, JumpKept DEF JumpsOK
<1>9. RecordsOK'
  BY <1>1 DEF IInv, RecordsOK, RecordOK
<1> QED BY <1>5, <1>6, <1>7, <1>8, <1>9 DEF IInv

LEMMA JumpBackInv ==
  ASSUME IInv, JumpBack
  PROVE  IInv'
<1> DEFINE i == prog[pos]
           start == cnt + Links(i)
           size == BackSize(Kind(i), start, addr[i.l])
           field == IF size = 2 THEN 1 ELSE 4
           disp == Field(addr[i.l] - (start + size), field)
           new == Jump(i.l, pos, start + size - field, field, disp, TRUE)
<1>1. /\ status = "write" /\ pos <= Len(prog) /\ IsJump(i) /\ addr[i.l] # -1
      /\ cnt' = start + size /\ pos' = pos + 1 /\ jumps' = Append(jumps, new)
      /\ UNCHANGED <<prog, cum, place, addr, ofsts, status>>
  BY DEF JumpBack
<1>2. /\ i \in Items /\ i.l \in Labels /\ i.k # "label"
      /\ pos \in Nat /\ pos + 1 \in Nat /\ cnt \in Nat /\ Est(i) \in Nat
  <2>1. i \in Items /\ pos + 1 \in Nat
    BY <1>1, AtPos
  <2>2. i.l \in Labels /\ i.k # "label"
    BY <1>1, <2>1, ItemFacts DEF IsJump, Kinds
  <2> QED BY <2>1, <2>2, EstNat DEF IInv, TypeOK
<1>3. addr[i.l] \in Nat
  BY <1>1, <1>2 DEF IInv, TypeOK
<1>4. size \in {2, LongSize(Kind(i))}
  BY DEF BackSize
<1>5. /\ Links(i) \in Nat /\ (~Oversized(i) => Links(i) + size <= Est(i))
      /\ LongSize(Kind(i)) \in {5, 6}
  BY <1>1, <1>2, <1>4, JumpFits
<1>6. /\ start \in Nat /\ size \in {2, 5, 6} /\ field \in {1, 4}
      /\ start + size - field \in Nat /\ cnt' \in Nat
      /\ cnt <= cnt' /\ (~Oversized(i) => cnt' - cnt <= Est(i))
  <2> HIDE DEF size, i
  <2>1. size \in {2, 5, 6} /\ Links(i) \in Nat /\ (~Oversized(i) => Links(i) + size <= Est(i))
    BY <1>4, <1>5
  <2>2. start \in Nat /\ field \in {1, 4} /\ cnt' = start + size
    BY <1>1, <1>2, <2>1
  <2>3. start + size - field \in Nat /\ start + size \in Nat
    BY <2>1, <2>2
  <2>4. cnt <= start + size /\ (~Oversized(i) => start + size - cnt <= Est(i))
    BY <1>2, <2>1
  <2> HIDE DEF start, field
  <2>5. cnt' \in Nat /\ cnt <= cnt' /\ (~Oversized(i) => cnt' - cnt <= Est(i))
    BY <1>2, <2>1, <2>2, <2>3, <2>4
  <2> QED BY <2>1, <2>2, <2>3, <2>5
<1>7. /\ disp = Field(addr[i.l] - (start + size), field)
      /\ disp \in Int
      /\ field = 1 => -Near <= addr[i.l] - (start + size) /\ addr[i.l] - (start + size) < Near
  <2>1. size = 2 => -Near <= addr[i.l] - (start + size) /\ addr[i.l] - (start + size) < Near
    BY <1>5 DEF BackSize
  <2> HIDE DEF start, size
  <2>2. addr[i.l] - (start + size) \in Int
    BY <1>3, <1>6
  <2>3. disp = addr[i.l] - (start + size)
    BY <1>6, <2>1, <2>2, FieldHolds
  <2>4. field = 1 => size = 2
    OBVIOUS
  <2> QED BY <2>1, <2>2, <2>3, <2>4
<1> HIDE DEF start, size, field, disp
<1>8. /\ new.l = i.l /\ new.from = pos /\ new.at = start + size - field /\ new.size = field
      /\ new.disp = disp /\ new.patched = TRUE /\ new \in JumpRecords
  BY <1>2, <1>3, <1>6, <1>7 DEF Jump, JumpRecords
<1> HIDE DEF new, i
<1>9. jumps \in Seq(JumpRecords)
  BY DEF IInv, TypeOK, JumpRecords
<1>10. /\ jumps' \in Seq(JumpRecords) /\ Len(jumps') = Len(jumps) + 1
       /\ jumps'[Len(jumps) + 1] = new
       /\ \A n \in 1..Len(jumps) : jumps'[n] = jumps[n]
  BY <1>1, <1>8, <1>9
<1>11. TypeOK'
  BY <1>1, <1>2, <1>6, <1>10 DEF IInv, TypeOK, JumpRecords
<1>12. PlaceOK' /\ SumOK' /\ WriterOK'
  BY <1>1, PassingInv
<1>13. AddrOK'
  BY <1>1, <1>2, AddrKept DEF i
<1>14. JumpsOK'
  <2> SUFFICES ASSUME NEW n \in 1..Len(jumps')
               PROVE  (OpenOK(jumps[n]) /\ ClosedOK(jumps[n]))'
    BY DEF JumpsOK
  <2>1. CASE n \in 1..Len(jumps)
    BY <1>1, <1>2, <1>6, <1>10, <2>1, JumpKept DEF i
  <2>2. CASE n = Len(jumps) + 1
    <3>1. jumps'[n] = new
      BY <1>10, <2>2
    <3> DEFINE d == addr[i.l] - (start + size)
    <3>2. start + size - field + field = start + size /\ addr' = addr
      BY <1>1, <1>6
    <3>3. Distance(jumps[n])' = d
      BY <1>8, <3>1, <3>2 DEF Distance
    <3>4. d \in Int /\ (field = 1 => -Near <= d /\ d < Near)
      BY <1>3, <1>6, <1>7
    <3>5. ~TooFar(jumps[n])'
      <4>1. TooFar(jumps[n])' <=> field = 1 /\ d >= Near
        BY <1>8, <3>1, <3>3 DEF TooFar
      <4> HIDE DEF d
      <4> QED BY <3>4, <4>1 DEF Near
    <3>6. OpenOK(jumps[n])'
      BY <1>8, <3>1 DEF OpenOK
    <3>7. ClosedOK(jumps[n])'
      BY <1>1, <1>7, <1>8, <3>1, <3>3, <3>4, <3>5 DEF ClosedOK
    <3> QED BY <3>6, <3>7
  <2> QED BY <1>9, <1>10, <2>1, <2>2
<1>15. RecordsOK'
  BY <1>1 DEF IInv, RecordsOK, RecordOK
<1> QED BY <1>11, <1>12, <1>13, <1>14, <1>15 DEF IInv
LEMMA JumpForwardInv ==
  ASSUME IInv, JumpForward
  PROVE  IInv'
<1> DEFINE i == prog[pos]
           start == cnt + Links(i)
           size == ForwardSize(i)
           field == IF size = 2 THEN 1 ELSE 4
           new == Jump(i.l, pos, start + size - field, field, 0, FALSE)
<1>1. /\ status = "write" /\ pos <= Len(prog) /\ IsJump(i) /\ addr[i.l] = -1
      /\ ofsts' = [ofsts EXCEPT ![i.l] = Recorded(@)]
      /\ cnt' = start + size /\ pos' = pos + 1 /\ jumps' = Append(jumps, new)
      /\ status' = IF ofsts'[i.l].cnt > ofsts'[i.l].sizeCap THEN "corrupt" ELSE "write"
      /\ UNCHANGED <<prog, cum, place, addr>>
  BY DEF JumpForward
<1>2. /\ i \in Items /\ i.l \in Labels /\ i.k # "label"
      /\ pos \in Nat /\ pos + 1 \in Nat /\ cnt \in Nat /\ Est(i) \in Nat
  <2>1. i \in Items /\ pos + 1 \in Nat
    BY <1>1, AtPos
  <2>2. i.l \in Labels /\ i.k # "label"
    BY <1>1, <2>1, ItemFacts DEF IsJump, Kinds
  <2> QED BY <2>1, <2>2, EstNat DEF IInv, TypeOK
<1>3. place[i.l] \in pos + 1 .. Len(prog) /\ place[i.l] \in 1..Len(prog)
  BY <1>1, LabelAhead
<1>4. size \in {2, LongSize(Kind(i))}
  BY DEF ForwardSize
<1>5. /\ Links(i) \in Nat /\ (~Oversized(i) => Links(i) + size <= Est(i))
      /\ LongSize(Kind(i)) \in {5, 6}
  BY <1>1, <1>2, <1>4, JumpFits
<1>6. /\ cum[place[i.l]] \in Nat /\ cum[pos + 1] \in Nat
      /\ size = 2 => cum[place[i.l]] - cum[pos + 1] < Near
  <2> DEFINE x == cum[place[i.l]]
             z == cum[pos + 1]
  <2>1. cum \in Seq(Nat) /\ Len(cum) = Len(prog) + 1 /\ Len(prog) \in Nat /\ z \in Nat
    <3>1. cum \in Seq(Nat) /\ Len(cum) = Len(prog) + 1
      BY DEF IInv, TypeOK
    <3>2. Len(prog) \in Nat /\ z \in Nat
      BY <1>1, AtPos
    <3> QED BY <3>1, <3>2
  <2>2. place[i.l] \in 1..Len(cum)
    <3> HIDE DEF i
    <3> QED BY <1>2, <1>3, <2>1
  <2>3. x \in Nat
    <3> DEFINE q == place[i.l]
    <3>1. q \in 1..Len(cum)
      BY <2>2
    <3> HIDE DEF q
    <3>2. cum[q] \in Nat
      BY <2>1, <3>1
    <3> QED BY <3>2 DEF q
  <2>4. size = 2 => (IF Kind(i) = "JCC" THEN 6 ELSE 5) + x - z < Near
    BY <1>5 DEF ForwardSize, LabelDistance
  <2> HIDE DEF x, z, size, i
  <2>5. size = 2 => x - z < Near
    BY <2>1, <2>3, <2>4 DEF Near
  <2> QED BY <2>1, <2>3, <2>5 DEF x, z
<1>7. /\ start \in Nat /\ field \in {1, 4} /\ start + size - field \in Nat
      /\ start + size - field + field = start + size
      /\ field = 1 => size = 2
      /\ cnt' \in Nat /\ cnt <= cnt' /\ (~Oversized(i) => cnt' - cnt <= Est(i))
  <2> HIDE DEF size, i
  <2>1. size \in {2, 5, 6} /\ Links(i) \in Nat /\ (~Oversized(i) => Links(i) + size <= Est(i))
    BY <1>4, <1>5
  <2>2. start \in Nat /\ field \in {1, 4} /\ cnt' = start + size
    BY <1>1, <1>2, <2>1
  <2>3. /\ start + size - field \in Nat /\ start + size \in Nat
        /\ start + size - field + field = start + size
    BY <2>1, <2>2
  <2>4. cnt <= start + size /\ (~Oversized(i) => start + size - cnt <= Est(i))
    BY <1>2, <2>1
  <2>5. field = 1 => size = 2
    OBVIOUS
  <2> HIDE DEF start, field
  <2>6. cnt' \in Nat /\ cnt <= cnt' /\ (~Oversized(i) => cnt' - cnt <= Est(i))
    BY <1>2, <2>1, <2>2, <2>3, <2>4
  <2> QED BY <2>1, <2>2, <2>3, <2>5, <2>6
<1> HIDE DEF start, size, field
<1>8. /\ new.l = i.l /\ new.from = pos /\ new.at = start + size - field /\ new.size = field
      /\ new.patched = FALSE /\ new \in JumpRecords
  BY <1>2, <1>7 DEF Jump, JumpRecords
<1> HIDE DEF new, i
<1>9. jumps \in Seq(JumpRecords)
  BY DEF IInv, TypeOK, JumpRecords
<1>10. /\ jumps' \in Seq(JumpRecords) /\ Len(jumps') = Len(jumps) + 1
       /\ jumps'[Len(jumps) + 1] = new
       /\ \A n \in 1..Len(jumps) : jumps'[n] = jumps[n]
  BY <1>1, <1>8, <1>9
<1>11. /\ ofsts \in [Labels -> [cnt : Nat, ofstCap : Nat, sizeCap : Nat]]
       /\ \A l \in Labels : RecordOK(ofsts[l])
  BY <1>1 DEF IInv, TypeOK, RecordsOK
<1>12. /\ ofsts'[i.l] = Recorded(ofsts[i.l])
       /\ \A l \in Labels \ {i.l} : ofsts'[l] = ofsts[l]
  BY <1>1, <1>2, <1>11
<1>13. LET r == Recorded(ofsts[i.l])
       IN /\ r \in [cnt : Nat, ofstCap : Nat, sizeCap : Nat]
          /\ r.ofstCap >= InitCap
          /\ r.cnt > r.sizeCap => r.cnt > InitCap
          /\ ~(r.cnt > r.sizeCap) => RecordOK(r)
  BY <1>2, <1>11, RecordedFacts
<1>14. /\ ofsts' \in [Labels -> [cnt : Nat, ofstCap : Nat, sizeCap : Nat]]
       /\ \A l \in Labels : ofsts'[l].cnt > 0 => ofsts'[l].ofstCap >= InitCap
  <2>1. ofsts' \in [Labels -> [cnt : Nat, ofstCap : Nat, sizeCap : Nat]]
    BY <1>1, <1>11, <1>13
  <2>2. \A l \in Labels : ofsts[l].cnt > 0 => ofsts[l].ofstCap >= InitCap
    BY DEF IInv, TypeOK
  <2> QED BY <1>12, <1>13, <2>1, <2>2
<1>15. TypeOK'
  <2>1. status' \in {"parse", "write", "done", "corrupt"}
    BY <1>1
  <2> QED BY <1>1, <1>2, <1>7, <1>10, <1>14, <2>1 DEF IInv, TypeOK, JumpRecords
<1>16. PlaceOK' /\ SumOK' /\ WriterOK'
  <2>1. status' \in {"write", "corrupt"}
    BY <1>1
  <2> QED BY <1>1, <2>1, PassingInv
<1>17. AddrOK'
  BY <1>1, <1>2, AddrKept DEF i
<1>18. JumpsOK'
  <2> SUFFICES ASSUME NEW n \in 1..Len(jumps')
               PROVE  (OpenOK(jumps[n]) /\ ClosedOK(jumps[n]))'
    BY DEF JumpsOK
  <2>1. CASE n \in 1..Len(jumps)
    BY <1>1, <1>2, <1>7, <1>10, <2>1, JumpKept DEF i
  <2>2. CASE n = Len(jumps) + 1
    <3>1. jumps'[n] = new
      BY <1>10, <2>2
    <3>2. place[i.l] >= pos + 1 /\ new.from < pos + 1 /\ new.at + new.size <= cnt'
      BY <1>1, <1>2, <1>3, <1>7, <1>8
    <3>3. new.size = 1 => cnt' - (new.at + 1) = 0
      BY <1>1, <1>7, <1>8
    <3>4. new.size = 1 => cnt' - (new.at + 1) + cum[place[i.l]] - cum[pos + 1] < Near
      BY <1>6, <1>7, <1>8, <3>3
    <3> QED BY <1>1, <1>8, <3>1, <3>2, <3>4 DEF OpenOK, ClosedOK
  <2> QED BY <1>9, <1>10, <2>1, <2>2
<1>19. RecordsOK'
  <2>1. CASE status' = "corrupt"
    BY <1>1, <1>2, <1>12, <1>13, <2>1 DEF RecordsOK
  <2>2. CASE status' # "corrupt"
    BY <1>1, <1>2, <1>11, <1>12, <1>13, <2>2 DEF RecordsOK, RecordOK
  <2> QED BY <2>1, <2>2
<1> QED BY <1>15, <1>16, <1>17, <1>18, <1>19 DEF IInv
(* The label the writer passes is found; the jumps that wait for it land.  *)
LEMMA WriteLabelInv ==
  ASSUME IInv, WriteLabel
  PROVE  IInv'
<1> DEFINE l == prog[pos].l
<1>1. /\ status = "write" /\ pos <= Len(prog) /\ prog[pos].k = "label"
      /\ addr' = [addr EXCEPT ![l] = cnt]
      /\ jumps' = [n \in DOMAIN jumps |->
                     IF jumps[n].l = l /\ ~jumps[n].patched
                     THEN Patch(jumps[n], cnt) ELSE jumps[n]]
      /\ pos' = pos + 1
      /\ UNCHANGED <<prog, cum, place, cnt, ofsts, status>>
  BY DEF WriteLabel
<1>2. /\ prog[pos] \in Items /\ l \in Labels /\ pos \in 1..Len(prog)
      /\ pos + 1 \in Nat /\ cnt \in Nat /\ Est(prog[pos]) = 0
  <2>1. prog[pos] \in Items /\ pos \in 1..Len(prog)
    BY <1>1, AtPos
  <2>2. l \in Labels
    BY <1>1, <2>1, ItemFacts
  <2>3. Est(prog[pos]) = 0
    BY <1>1 DEF Est
  <2> QED BY <2>1, <2>2, <2>3 DEF IInv, TypeOK
<1>3. place[l] = pos /\ addr[l] = -1
  BY <1>1, <1>2 DEF IInv, PlaceOK, AddrOK
<1> HIDE DEF l
<1>4. addr \in [Labels -> Nat \cup {-1}]
  BY DEF IInv, TypeOK
<1>5. addr' \in [Labels -> Nat \cup {-1}] /\ addr'[l] = cnt
      /\ \A k \in Labels \ {l} : addr'[k] = addr[k]
  BY <1>1, <1>2, <1>4
<1>6. jumps \in Seq(JumpRecords)
  BY DEF IInv, TypeOK, JumpRecords
<1>7. /\ Len(jumps') = Len(jumps) /\ DOMAIN jumps' = 1..Len(jumps)
      /\ \A n \in 1..Len(jumps) :
           jumps'[n] = IF jumps[n].l = l /\ ~jumps[n].patched
                       THEN Patch(jumps[n], cnt) ELSE jumps[n]
  BY <1>1, <1>6
<1>8. \A a, b : AllFit(a, b)' <=> AllFit(a, b)
  BY <1>1 DEF AllFit, Oversized, Bytes, Est
<1>9. ASSUME NEW n \in 1..Len(jumps)
      PROVE  jumps'[n] \in JumpRecords /\ (OpenOK(jumps[n]) /\ ClosedOK(jumps[n]))'
  <2> DEFINE j == jumps[n]
  <2>1. j \in JumpRecords
    BY <1>6
  <2>2. j.l \in Labels /\ j.from \in Nat /\ j.at \in Nat /\ j.size \in {1, 4}
    BY <2>1 DEF JumpRecords
  <2>3. OpenOK(j) /\ ClosedOK(j)
    BY DEF IInv, JumpsOK
  <2>4. CASE j.l = l /\ ~j.patched
    <3> DEFINE p == Patch(j, cnt)
               v == cnt - (j.at + j.size)
               f == Field(v, j.size)
    <3>1. jumps'[n] = p
      BY <1>7, <2>4
    <3>2. v \in Nat
      <4>1. j.at + j.size <= cnt /\ j.at + j.size \in Nat
        BY <2>2, <2>3, <2>4 DEF OpenOK
      <4> QED BY <1>2, <4>1
    <3>3. j.size = 1 /\ AllFit(j.from + 1, pos) => v < Near
      <4>1. j.size = 1 /\ AllFit(j.from + 1, pos) =>
              cnt - (j.at + 1) + cum[pos] - cum[pos] < Near
        BY <1>3, <2>3, <2>4 DEF OpenOK
      <4>2. cum[pos] \in Nat
        BY <1>1, AtPos
      <4> QED BY <1>2, <2>2, <4>1, <4>2 DEF Near
    <3>4. f \in Int
      BY <3>2 DEF Field
    <3>5. /\ p.l = l /\ p.from = j.from /\ p.at = j.at /\ p.size = j.size /\ p.patched
          /\ p.disp = f
      BY <2>1, <2>4, PatchFields
    <3>6. p \in JumpRecords
      BY <2>1, <3>4, PatchIsRecord
    <3> HIDE DEF p, f
    <3>7. Distance(jumps[n])' = v
      BY <1>5, <3>1, <3>5 DEF Distance
    <3> HIDE DEF v
    <3>8. AllFit(j.from + 1, pos) => ~TooFar(jumps[n])'
      <4>1. TooFar(jumps[n])' <=> j.size = 1 /\ v >= Near
        BY <3>1, <3>5, <3>7 DEF TooFar
      <4> QED BY <3>2, <3>3, <4>1 DEF Near
    <3>9. OpenOK(jumps[n])'
      BY <3>1, <3>5 DEF OpenOK
    <3>10. addr'[l] # -1 /\ -Near <= v
      BY <1>2, <1>5, <3>2 DEF Near
    <3>11. AllFit(jumps[n].from + 1, place[jumps[n].l])' <=> AllFit(j.from + 1, pos)
      BY <1>1, <1>3, <1>8, <3>1, <3>5
    <3>12. ClosedOK(jumps[n])'
      BY <3>1, <3>5, <3>7, <3>8, <3>10, <3>11 DEF ClosedOK, f
    <3> QED BY <3>1, <3>6, <3>9, <3>12
  <2>5. CASE ~(j.l = l /\ ~j.patched)
    <3>1. jumps'[n] = j
      BY <1>7, <2>5
    <3>2. CASE j.patched
      <4>1. j.l # l
        BY <1>3, <2>3, <3>2 DEF ClosedOK
      <4>2. addr'[j.l] = addr[j.l] /\ place'[j.l] = place[j.l]
        BY <1>1, <1>5, <2>2, <4>1
      <4>3. /\ Distance(jumps[n])' = Distance(j) /\ (TooFar(jumps[n])' <=> TooFar(j))
            /\ (AllFit(jumps[n].from + 1, place[jumps[n].l])' <=> AllFit(j.from + 1, place[j.l]))
        BY <1>8, <3>1, <4>2 DEF Distance, TooFar
      <4>4. OpenOK(jumps[n])'
        BY <3>1, <3>2 DEF OpenOK
      <4>5. ClosedOK(jumps[n])'
        BY <2>3, <3>1, <3>2, <4>2, <4>3 DEF ClosedOK
      <4> QED BY <2>1, <3>1, <4>4, <4>5
    <3>3. CASE ~j.patched
      <4>1. j.l # l
        BY <2>5, <3>3
      <4>2. place[j.l] # pos
        BY <1>2, <2>2, <4>1 DEF IInv, PlaceOK, l
      <4>3. /\ place[j.l] >= pos + 1 /\ j.from < pos + 1 /\ j.at + j.size <= cnt
            /\ j.size = 1 /\ AllFit(j.from + 1, pos + 1) =>
                 cnt - (j.at + 1) + cum[place[j.l]] - cum[pos + 1] < Near
        <5>1. cnt <= cnt /\ cnt - cnt <= Est(prog[pos])
          BY <1>2
        <5> QED BY <1>1, <1>2, <3>3, <4>2, <5>1, StaysOpen
      <4>4. AllFit(jumps[n].from + 1, pos)' <=> AllFit(j.from + 1, pos + 1)
        BY <1>1, <1>8, <3>1
      <4>5. OpenOK(jumps[n])'
        BY <1>1, <3>1, <3>3, <4>3, <4>4 DEF OpenOK
      <4>6. ClosedOK(jumps[n])'
        BY <3>1, <3>3 DEF ClosedOK
      <4> QED BY <2>1, <3>1, <4>5, <4>6
    <3> QED BY <3>2, <3>3
  <2> QED BY <2>4, <2>5
<1>10. jumps' \in Seq(JumpRecords)
  <2>1. Len(jumps) \in Nat
    BY <1>6
  <2> QED BY <1>1, <1>6, <1>7, <1>9, <2>1, IsASeq
<1>11. TypeOK'
  BY <1>1, <1>2, <1>5, <1>10 DEF IInv, TypeOK, JumpRecords
<1>12. PlaceOK' /\ SumOK' /\ WriterOK'
  BY <1>1, PassingInv
<1>13. AddrOK'
  <2> SUFFICES ASSUME NEW k \in Labels
               PROVE  addr'[k] # -1 <=> place[k] # 0 /\ place[k] < pos + 1
    BY <1>1 DEF AddrOK
  <2>1. CASE k = l
    BY <1>2, <1>3, <1>5, <2>1
  <2>2. CASE k # l
    <3>1. place[k] # pos
      BY <1>2, <2>2 DEF IInv, PlaceOK, l
    <3>2. place[k] \in Nat /\ addr'[k] = addr[k] /\ pos \in Nat
      BY <1>2, <1>5, <2>2 DEF IInv, TypeOK
    <3>3. addr[k] # -1 <=> place[k] # 0 /\ place[k] < pos
      BY DEF IInv, AddrOK
    <3> QED BY <3>1, <3>2, <3>3
  <2> QED BY <2>1, <2>2
<1>14. JumpsOK'
  BY <1>7, <1>9 DEF JumpsOK
<1>15. RecordsOK'
  BY <1>1 DEF IInv, RecordsOK, RecordOK
<1> QED BY <1>11, <1>12, <1>13, <1>14, <1>15 DEF IInv

-----------------------------------------------------------------------------
(* The invariant holds in every reachable state, for any labels and any    *)
(* blocks, whatever is estimated for them (ba_WriteBinary).                *)
THEOREM Invariance == Spec => []IInv
<1>1. Init => IInv
  BY InitInv
<1>2. IInv /\ [Next]_vars => IInv'
  <2> SUFFICES ASSUME IInv, [Next]_vars PROVE IInv'
    OBVIOUS
  <2>1. CASE UNCHANGED vars
    <3>1. TypeOK'
      BY <2>1 DEF vars, IInv, TypeOK
    <3>2. PlaceOK' /\ SumOK'
      BY <2>1 DEF vars, IInv, PlaceOK, IsJump, SumOK, Est
    <3>3. WriterOK' /\ AddrOK'
      BY <2>1 DEF vars, IInv, WriterOK, AddrOK, IsJump
    <3>4. JumpsOK'
      BY <2>1 DEF vars, IInv, JumpsOK, OpenOK, ClosedOK, Distance, TooFar, AllFit,
                  Oversized, Bytes
    <3>5. RecordsOK'
      BY <2>1 DEF vars, IInv, RecordsOK, RecordOK
    <3> QED BY <3>1, <3>2, <3>3, <3>4, <3>5 DEF IInv
  <2> QED BY <2>1, AddIMInv, StartWritingInv, WriteBlockInv, WriteLabelInv,
             JumpBackInv, JumpForwardInv, FinishCodeInv DEF Next
<1> QED BY <1>1, <1>2, PTL DEF Spec

(* Every variable of the writer keeps its type.                            *)
THEOREM TypeCorrect == Spec => []TypeOK
<1>1. IInv => TypeOK
  BY DEF IInv
<1> QED BY <1>1, Invariance, PTL

(* Whatever the program, a jump whose field is filled in lands on its      *)
(* label unless the field is of one byte and the distance is more, and     *)
(* that happens only to a jump over an item larger than its estimate.      *)
THEOREM EveryJumpLands == Spec => []JumpsLand
<1>1. IInv => JumpsLand
  <2> SUFFICES ASSUME IInv, NEW n \in 1..Len(jumps), jumps[n].patched
               PROVE  /\ Lands(jumps[n]) <=> ~TooFar(jumps[n])
                      /\ TooFar(jumps[n]) =>
                           \E m \in (jumps[n].from + 1)..(place[jumps[n].l] - 1) :
                              Oversized(prog[m])
    BY DEF JumpsLand
  <2> DEFINE j == jumps[n]
             d == Distance(j)
  <2>1. j \in JumpRecords
    <3>1. jumps \in Seq(JumpRecords)
      BY DEF IInv, TypeOK, JumpRecords
    <3> QED BY <3>1
  <2>2. j.l \in Labels /\ j.at \in Nat /\ j.size \in {1, 4}
    BY <2>1 DEF JumpRecords
  <2>3. /\ addr[j.l] # -1 /\ j.disp = Field(d, j.size)
        /\ j.size = 1 => -Near <= d
        /\ AllFit(j.from + 1, place[j.l]) => ~TooFar(j)
    BY DEF IInv, JumpsOK, ClosedOK
  <2>4. d \in Int
    <3>1. addr[j.l] \in Nat
      BY <2>2, <2>3 DEF IInv, TypeOK
    <3> QED BY <2>2, <3>1 DEF Distance
  <2>5. Lands(j) <=> ~TooFar(j)
    <3>1. (Lands(j) <=> Field(d, j.size) = d) /\ (TooFar(j) <=> j.size = 1 /\ d >= Near)
      BY <2>3 DEF Lands, TooFar
    <3> HIDE DEF d, j
    <3>2. Field(d, j.size) = d <=> ~(j.size = 1 /\ d >= Near)
      BY <2>2, <2>3, <2>4 DEF Field, Near
    <3> QED BY <3>1, <3>2
  <2> QED BY <2>3, <2>5 DEF AllFit
<1> QED BY <1>1, Invariance, PTL

(* When the code is complete no jump waits for its label any more.         *)
THEOREM NoJumpStaysOpen == Spec => []NoneOpen
<1>1. IInv => NoneOpen
  <2> SUFFICES ASSUME IInv, status = "done", NEW n \in 1..Len(jumps), ~jumps[n].patched
               PROVE  FALSE
    BY DEF NoneOpen
  <2>1. jumps \in Seq(JumpRecords) /\ prog \in Seq(Items)
    BY DEF IInv, TypeOK, JumpRecords
  <2>2. jumps[n] \in JumpRecords
    BY <2>1
  <2>3. jumps[n].l \in Labels
    BY <2>2 DEF JumpRecords
  <2>4. place[jumps[n].l] \in 0..Len(prog) /\ pos = Len(prog) + 1
    BY <2>3 DEF IInv, PlaceOK, WriterOK
  <2>5. place[jumps[n].l] >= pos
    BY DEF IInv, JumpsOK, OpenOK
  <2> QED BY <2>1, <2>4, <2>5
<1> QED BY <1>1, Invariance, PTL

(* The arrays of a label are overrun exactly when more forward jumps go to *)
(* it than they were allocated for.                                        *)
THEOREM OverrunExactly == Spec => []OverrunOnlyPastInitCap
<1>1. IInv => OverrunOnlyPastInitCap
  BY BoundsAssumption DEF IInv, RecordsOK, RecordOK, OverrunOnlyPastInitCap
<1> QED BY <1>1, Invariance, PTL
=============================================================================
