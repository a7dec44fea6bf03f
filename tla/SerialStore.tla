----------------------------- MODULE SerialStore -----------------------------
(***************************************************************************)
(* What the callers of Writer.Do rely on: a write takes effect at one      *)
(* moment between its call and its return, at most once, in one order for  *)
(* all writes, and the result says whether it has; every call returns.     *)
(* A lossy store may also forget a write and say that it was done.         *)
(***************************************************************************)
EXTENDS Sequences

CONSTANTS
  Calls,  \* the calls of Writer.Do
  Lossy   \* whether the store may forget a write

VARIABLES
  state,  \* state[c]: how far the call c is
  log     \* the writes that took effect, in order

vars == <<state, log>>

Init ==
  /\ state = [c \in Calls |-> "idle"]
  /\ log = <<>>

Move(c, from, to) ==
  state[c] = from /\ state' = [state EXCEPT ![c] = to]

Call(c) == Move(c, "idle", "called") /\ UNCHANGED log
Apply(c) == Move(c, "called", "applied") /\ log' = Append(log, c)
Refuse(c) == Move(c, "called", "refused") /\ UNCHANGED log
Return(c) ==
  /\ Move(c, "applied", "nil") \/ Move(c, "refused", "error")
  /\ UNCHANGED log
Forget(c) == Lossy /\ Move(c, "called", "nil") /\ UNCHANGED log

Work(c) == Apply(c) \/ Refuse(c) \/ Return(c) \/ Forget(c)

Next == \E c \in Calls : Call(c) \/ Work(c)

Spec == Init /\ [][Next]_vars

FairSpec == Spec /\ \A c \in Calls : WF_vars(Work(c))
=============================================================================
