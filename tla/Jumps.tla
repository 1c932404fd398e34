------------------------------- MODULE Jumps -------------------------------
(***************************************************************************)
(* Labels and jumps in the code writer (elf64.c, the cases BA_IM_LABEL,    *)
(* BA_IM_GOTO and BA_IM_LABELJMP to BA_IM_LABELJGE of ba_WriteBinary).     *)
(* The writer passes over the instructions once: a jump back knows its     *)
(* distance, a jump forward is given a field of one or four bytes by an    *)
(* estimate of the code between, and the field is filled in when the label *)
(* is reached.                                                             *)
(*                                                                         *)
(* Instructions without labels come in blocks, [size, est]: the bytes they *)
(* take and the sum of their PessimalInstrSize (module Encode), which for  *)
(* some forms is less (Underestimated there, elf64.c:1867, 1768).  The     *)
(* parser appends items first; then the writer takes them in order.        *)
(***************************************************************************)
EXTENDS Integers, Sequences

CONSTANTS Labels,    \* the label numbers handed out
          Blocks,    \* the blocks there may be between labels and jumps
          MaxItems,  \* bound on the items of a program
          MaxLinks,  \* bound on the frames a goto leaves
          InitCap    \* first capacity of a label's arrays (0x40)

ASSUME BlocksAssumption == Blocks \subseteq [size : Nat, est : Nat]
ASSUME BoundsAssumption ==
  MaxItems \in Nat /\ InitCap \in Nat \ {0} /\ MaxLinks \in Nat

VARIABLES prog,      \* the instructions, in order
          cum,       \* cum[n] is the estimate of the first n - 1 of them
          place,     \* where each label is, 0 before it is placed
          pos,       \* the item the writer is at
          cnt,       \* bytes of code written
          addr,      \* addr[l], isFound: -1 before the label is found
          jumps,     \* the jumps written, with the fields of the code
                     \* and, in from, the item (auxiliary)
          ofsts,     \* per label: forward jumps recorded, and the
                     \* capacities of the two arrays they are recorded in
          status     \* "parse", "write", "done" or "corrupt"

vars == <<prog, cum, place, pos, cnt, addr, jumps, ofsts, status>>

Near == 128          \* a distance that does not fit one byte
Kinds == {"CALL", "JMP", "JCC"}

NoBlock == [size |-> 0, est |-> 0]

(* An instruction in a program: a block, which has no label, a label, a    *)
(* jump of a kind, or a goto that leaves n frames.                         *)
Items ==
  [k : {"block"}, l : {0}, n : {0}, b : Blocks]
    \cup [k : {"label"} \cup Kinds, l : Labels, n : {0}, b : {NoBlock}]
    \cup [k : {"goto"}, l : Labels, n : 0..MaxLinks, b : {NoBlock}]

(* ba_PessimalInstrSize of an item. *)
Est(i) ==
  CASE i.k = "block" -> i.b.est
    [] i.k = "label" -> 0
    [] i.k = "goto" -> 255
    [] i.k = "JCC" -> 6
    [] OTHER -> 5

Kind(i) == IF i.k = "goto" THEN "JMP" ELSE i.k
IsJump(i) == i.k \in Kinds \cup {"goto"}

(* MOV RSP, RBP and POP RBP for every frame a goto leaves. *)
Links(i) == 4 * i.n

LongSize(kind) == IF kind = "JCC" THEN 6 ELSE 5

Init ==
  /\ prog = <<>> /\ cum = <<0>>
  /\ place = [l \in Labels |-> 0]
  /\ pos = 1 /\ cnt = 0
  /\ addr = [l \in Labels |-> -1]
  /\ jumps = <<>>
  /\ ofsts = [l \in Labels |-> [cnt |-> 0, ofstCap |-> 0, sizeCap |-> 0]]
  /\ status = "parse"

----------------------------------------------------------------------------
(* The parser: every label number is placed once (ba_AddIM with a fresh    *)
(* labelCnt).                                                              *)

AddIM ==
  /\ status = "parse" /\ Len(prog) < MaxItems
  /\ \E i \in Items :
       /\ i.k = "label" => place[i.l] = 0
       /\ prog' = Append(prog, i)
       /\ cum' = Append(cum, cum[Len(prog) + 1] + Est(i))
       /\ place' = IF i.k = "label" THEN [place EXCEPT ![i.l] = Len(prog) + 1] ELSE place
  /\ UNCHANGED <<pos, cnt, addr, jumps, ofsts, status>>

(* All of the program is parsed: the labels it jumps to are placed. *)
StartWriting ==
  /\ status = "parse"
  /\ \A n \in 1..Len(prog) : IsJump(prog[n]) => place[prog[n].l] # 0
  /\ status' = "write"
  /\ UNCHANGED <<prog, cum, place, pos, cnt, addr, jumps, ofsts>>

----------------------------------------------------------------------------
(* The writer.                                                             *)

(* A displacement as the processor reads it from a field of this size. *)
Field(v, size) == IF size = 1 THEN ((v + 128) % 256) - 128 ELSE v

Jump(l, from, at, size, disp, patched) ==
  [l |-> l, from |-> from, at |-> at, size |-> size, disp |-> disp, patched |-> patched]

WriteBlock ==
  /\ status = "write" /\ pos <= Len(prog) /\ prog[pos].k = "block"
  /\ cnt' = cnt + prog[pos].b.size
  /\ pos' = pos + 1
  /\ UNCHANGED <<prog, cum, place, addr, jumps, ofsts, status>>

(* Slip: filled in, but kept among the open ones. *)
PatchOpen(j, target) == [j EXCEPT !.disp = Field(target - (j.at + j.size), j.size)]

(* The field of a jump to a label that has been reached. *)
Patch(j, target) ==
  [j EXCEPT !.disp = Field(target - (j.at + j.size), j.size), !.patched = TRUE]

WriteLabel ==
  /\ status = "write" /\ pos <= Len(prog) /\ prog[pos].k = "label"
  /\ LET l == prog[pos].l
     IN /\ addr' = [addr EXCEPT ![l] = cnt]
        /\ jumps' = [n \in DOMAIN jumps |->
                       IF jumps[n].l = l /\ ~jumps[n].patched
                       THEN Patch(jumps[n], cnt) ELSE jumps[n]]
  /\ pos' = pos + 1
  /\ UNCHANGED <<prog, cum, place, cnt, ofsts, status>>

(* The label appears before the jump; the distance assumes two bytes at    *)
(* first.  start is where the jump begins, after a goto's own instructions. *)
BackSize(kind, start, target) ==
  IF kind # "CALL" /\ target - (start + 2) >= -Near /\ target - (start + 2) < Near
  THEN 2 ELSE LongSize(kind)

JumpBack ==
  /\ status = "write" /\ pos <= Len(prog) /\ IsJump(prog[pos])
  /\ addr[prog[pos].l] # -1
  /\ LET l == prog[pos].l
         start == cnt + Links(prog[pos])
         size == BackSize(Kind(prog[pos]), start, addr[l])
         field == IF size = 2 THEN 1 ELSE 4
     IN /\ cnt' = start + size
        /\ jumps' = Append(jumps, Jump(l, pos, start + size - field, field,
                                       Field(addr[l] - (start + size), field), TRUE))
  /\ pos' = pos + 1
  /\ UNCHANGED <<prog, cum, place, addr, ofsts, status>>

(* The label appears after the jump: the estimate of the jump itself and   *)
(* of all items up to the label.                                           *)
LabelDistance(i) == (IF Kind(i) = "JCC" THEN 6 ELSE 5) + cum[place[i.l]] - cum[pos + 1]

(* Slip: a distance of a whole byte. *)
ForwardSizeByte(i) ==
  IF Kind(i) # "CALL" /\ LabelDistance(i) < 2 * Near THEN 2 ELSE LongSize(Kind(i))

ForwardSize(i) ==
  IF Kind(i) # "CALL" /\ LabelDistance(i) < Near THEN 2 ELSE LongSize(Kind(i))

(* Slip: arrays that were never allocated are doubled. *)
GrowOnly(cap, full) == IF full THEN 2 * cap ELSE cap

Grow(cap, full) == IF cap = 0 THEN InitCap ELSE IF full THEN 2 * cap ELSE cap

(* Slip: both arrays start without room for a jump's record. *)
RecordedSmall(o) ==
  LET cap == Grow(o.ofstCap, o.cnt + 1 > o.ofstCap)
  IN [cnt |-> o.cnt + 1, ofstCap |-> cap,
      sizeCap |-> Grow(o.sizeCap, o.cnt + 1 > 2 * cap) - 1]

(* The array of the sizes grows by the capacity of the array of the        *)
(* offsets, which has just grown.                                          *)
Recorded(o) ==
  LET cap == Grow(o.ofstCap, o.cnt + 1 > o.ofstCap)
  IN [cnt |-> o.cnt + 1, ofstCap |-> cap, sizeCap |-> Grow(o.sizeCap, o.cnt + 1 > cap)]

JumpForward ==
  /\ status = "write" /\ pos <= Len(prog) /\ IsJump(prog[pos])
  /\ addr[prog[pos].l] = -1
  /\ LET l == prog[pos].l
         start == cnt + Links(prog[pos])
         size == ForwardSize(prog[pos])
         field == IF size = 2 THEN 1 ELSE 4
     IN /\ ofsts' = [ofsts EXCEPT ![l] = Recorded(@)]
        /\ cnt' = start + size
        /\ jumps' = Append(jumps, Jump(l, pos, start + size - field, field, 0, FALSE))
        /\ status' = IF ofsts'[l].cnt > ofsts'[l].sizeCap THEN "corrupt" ELSE "write"
  /\ pos' = pos + 1
  /\ UNCHANGED <<prog, cum, place, addr>>

FinishCode ==
  /\ status = "write" /\ pos > Len(prog)
  /\ status' = "done"
  /\ UNCHANGED <<prog, cum, place, pos, cnt, addr, jumps, ofsts>>

Next ==
  \/ AddIM \/ StartWriting
  \/ WriteBlock \/ WriteLabel \/ JumpBack \/ JumpForward \/ FinishCode

Spec == Init /\ [][Next]_vars

----------------------------------------------------------------------------
(* Properties.                                                             *)

(* Type invariant: one estimate per item and one more, fields of one or    *)
(* four bytes, and arrays for a label once a jump is recorded for it.      *)
TypeOK ==
  /\ prog \in Seq(Items) /\ cum \in Seq(Nat) /\ Len(cum) = Len(prog) + 1
  /\ place \in [Labels -> Nat]
  /\ pos \in Nat /\ cnt \in Nat
  /\ addr \in [Labels -> Nat \cup {-1}]
  /\ jumps \in Seq([l : Labels, from : Nat, at : Nat, size : {1, 4}, disp : Int, patched : BOOLEAN])
  /\ ofsts \in [Labels -> [cnt : Nat, ofstCap : Nat, sizeCap : Nat]]
  /\ \A l \in Labels : ofsts[l].cnt > 0 => ofsts[l].ofstCap >= InitCap
  /\ status \in {"parse", "write", "done", "corrupt"}

(* The most bytes that are written for an item. *)
Bytes(i) ==
  CASE i.k = "block" -> i.b.size
    [] i.k = "label" -> 0
    [] OTHER -> Links(i) + LongSize(Kind(i))

(* Items that may take more than was estimated for them. *)
Oversized(i) == Bytes(i) > Est(i)

(* From the end of a jump to its label. *)
Distance(j) == addr[j.l] - (j.at + j.size)
TooFar(j) == j.size = 1 /\ Distance(j) >= Near

Lands(j) == j.disp = Distance(j)

(* A jump whose field has been filled in lands on its label, whichever way *)
(* the label lies, exactly if its field can hold the distance; and it can, *)
(* unless something in between is larger than its estimate.                *)
JumpsLand ==
  \A n \in 1..Len(jumps) :
    LET j == jumps[n]
    IN j.patched =>
         /\ Lands(j) <=> ~TooFar(j)
         /\ TooFar(j) => \E m \in (j.from + 1)..(place[j.l] - 1) : Oversized(prog[m])

(* No field is left open when the code is complete. *)
NoneOpen == status = "done" => \A n \in 1..Len(jumps) : jumps[n].patched

(* The arrays of a label are written beyond their end exactly by the jump  *)
(* that exceeds their first capacity.                                      *)
OverrunOnlyPastInitCap ==
  status = "corrupt" <=> \E l \in Labels : ofsts[l].cnt > InitCap

=============================================================================
