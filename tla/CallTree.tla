------------------------------ MODULE CallTree ------------------------------
(***************************************************************************)
(* What the flow view promises: for every thread, the calls the program    *)
(* made, who called whom, and which of them have not returned yet.         *)
(***************************************************************************)
EXTENDS Sequences

CONSTANTS Ids, Fns

VARIABLES
  stack,   \* per thread, its open calls, the innermost first
  caller,  \* for every call, the call that made it, or its thread
  name     \* for every call, its function

vars == <<stack, caller, name>>

Init ==
  /\ stack = [t \in Ids |-> << >>]
  /\ caller = << >>
  /\ name = << >>

With(F, c, v) == [x \in DOMAIN F \cup {c} |-> IF x = c THEN v ELSE F[x]]

Innermost(t) == IF stack[t] = << >> THEN t ELSE Head(stack[t])

(* A call starts inside the innermost open call of its thread ...           *)
Call(t, f, c) ==
  /\ c \notin DOMAIN name
  /\ name' = With(name, c, f)
  /\ caller' = With(caller, c, Innermost(t))
  /\ stack' = [stack EXCEPT ![t] = << c >> \o @]

(* ... and only the innermost open call of a thread can return.             *)
Return(t) ==
  /\ UNCHANGED <<caller, name>>
  /\ stack[t] # << >>
  /\ stack' = [stack EXCEPT ![t] = Tail(@)]

Forget ==
  /\ stack' = [t \in Ids |-> << >>]
  /\ caller' = << >>
  /\ name' = << >>

Next ==
  \/ \E t \in Ids : Return(t) \/ \E f \in Fns, c \in Ids : Call(t, f, c)
  \/ Forget

Spec == Init /\ [][Next]_vars
=============================================================================
