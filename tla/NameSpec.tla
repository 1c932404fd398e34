------------------------------ MODULE NameSpec ------------------------------
(***************************************************************************)
(* What the parser relies on: each open scope is a map from identifiers to *)
(* entities, a use finds the innermost, and a declaration is refused when  *)
(* the identifier is visible as anything but a func to be defined.         *)
(***************************************************************************)
EXTENDS Integers, Sequences

CONSTANTS Idents, Vars, Funcs, Forwards, NoVal, MaxScopes

VARIABLES env, status, req, answer

vars == <<env, status, req, answer>>

Request == [op : {"use"}, name : Idents, val : {NoVal}]
      \cup [op : {"var"}, name : Idents, val : Vars]
      \cup [op : {"func"}, name : Idents, val : Funcs \cup Forwards]

NoNames == [n \in Idents |-> NoVal]

\* The innermost scope that has n, if there is one.
Holders(n) == {k \in 1..Len(env) : env[k][n] # NoVal}
Innermost(n) == CHOOSE k \in Holders(n) : \A j \in Holders(n) : j <= k
Visible(n) == IF Holders(n) = {} THEN NoVal ELSE env[Innermost(n)][n]

Init == env = <<NoNames>> /\ status = "idle" /\ req \in Request /\ answer = NoVal

OpenScope ==
  /\ status = "idle" /\ Len(env) < MaxScopes
  /\ env' = Append(env, NoNames)
  /\ UNCHANGED <<status, req, answer>>

CloseScope ==
  /\ status = "idle" /\ Len(env) > 1
  /\ env' = SubSeq(env, 1, Len(env) - 1)
  /\ UNCHANGED <<status, req, answer>>

Ask ==
  /\ status = "idle" /\ status' = "asked"
  /\ req' \in Request
  /\ UNCHANGED <<env, answer>>

Accepted ==
  \/ Visible(req.name) = NoVal
  \/ req.op = "func" /\ Visible(req.name) \in Forwards

Use ==
  /\ status = "asked" /\ req.op = "use" /\ status' = "idle"
  /\ answer' = Visible(req.name)
  /\ UNCHANGED <<env, req>>

Declare ==
  /\ status = "asked" /\ req.op # "use" /\ Accepted /\ status' = "idle"
  /\ env' = [env EXCEPT ![Len(env)][req.name] = req.val]
  /\ answer' = req.val
  /\ UNCHANGED req

Refuse ==
  /\ status = "asked" /\ req.op # "use" /\ ~Accepted /\ status' = "error"
  /\ UNCHANGED <<env, req, answer>>

Next == OpenScope \/ CloseScope \/ Ask \/ Use \/ Declare \/ Refuse

Spec == Init /\ [][Next]_vars
=============================================================================
