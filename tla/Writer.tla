------------------------------- MODULE Writer -------------------------------
(***************************************************************************)
(* internal/storage/sqlite3, type Writer: every change of the database is  *)
(* a function handed to Writer.Do, which passes it to a single goroutine   *)
(* that it starts when there is none.                                      *)
(*                                                                         *)
(* Every call c of Do may start a goroutine of its own, worker[c]; all but *)
(* one of them find that Writer.running is taken and return.  The channel  *)
(* Writer.todo is unbuffered: a call and a worker meet.  Each task has its *)
(* own channel wait[c] with room for one result; receiving from it after   *)
(* it was closed empty yields nil.  No call passes a transaction, and no   *)
(* statement runs in the one that Writer.run begins, so a write takes      *)
(* effect in Exec and Commit has nothing to add.                           *)
(***************************************************************************)
EXTENDS Naturals, Sequences, Functions

CONSTANTS
  Calls,        \* the calls of Writer.Do, by any number of goroutines
  None,         \* no task
  BeginMayFail  \* whether sql.DB.Begin may fail

ASSUME WriterAssumption ==
  None \notin Calls \cup {"nil", "error"} /\ BeginMayFail \in BOOLEAN

VARIABLES
  running,  \* Writer.running
  call,     \* call[c]: where the call c is, and in the end what it returned
  worker,   \* worker[c]: the goroutine Writer.run that the call c started
  wait,     \* wait[c]: the channel writerTask.wait of the call c
  log       \* the writes that took effect, in order

vars == <<running, call, worker, wait, log>>

Init ==
  /\ running = FALSE
  /\ call = [c \in Calls |-> "idle"]
  /\ worker = [c \in Calls |-> [pc |-> "none", task |-> None]]
  /\ wait = [c \in Calls |-> [result |-> None, closed |-> FALSE]]
  /\ log = <<>>

-----------------------------------------------------------------------------
(***************************************************************************)
(* Writer.Do.                                                              *)
(***************************************************************************)

Do(c) ==
  /\ call[c] = "idle"
  /\ call' = [call EXCEPT ![c] = "load"]
  /\ UNCHANGED <<running, worker, wait, log>>

\* running.Load(), and go w.run() if it is not set.
DoLoad(c) ==
  /\ call[c] = "load"
  /\ call' = [call EXCEPT ![c] = "send"]
  /\ worker' = IF running THEN worker ELSE [worker EXCEPT ![c].pc = "start"]
  /\ UNCHANGED <<running, wait, log>>

\* The call hands its task to the worker w, which is ready to receive.
DoSend(c, w) ==
  /\ call[c] = "send" /\ worker[w].pc = "loop"
  /\ call' = [call EXCEPT ![c] = "wait"]
  /\ worker' = [worker EXCEPT ![w] = [pc |-> "begin", task |-> c]]
  /\ UNCHANGED <<running, wait, log>>

\* The result of the task, or nil because the channel was closed empty.
DoReturn(c) ==
  /\ call[c] = "wait"
  /\ wait[c].result # None \/ wait[c].closed
  /\ call' = [call EXCEPT ![c] = IF wait[c].result = None THEN "nil"
                                 ELSE wait[c].result]
  /\ UNCHANGED <<running, worker, wait, log>>

-----------------------------------------------------------------------------
(***************************************************************************)
(* Writer.run.                                                             *)
(***************************************************************************)

\* Mutant: the flag is stored, not compared and swapped.
RunStore(w) ==
  /\ worker[w].pc = "start"
  /\ running' = TRUE
  /\ worker' = [worker EXCEPT ![w].pc = "loop"]
  /\ UNCHANGED <<call, wait, log>>

\* Mutant: the first pass of the loop does not receive a task.
RunUnasked(w) ==
  /\ worker[w].pc = "start"
  /\ running' = TRUE
  /\ worker' = [worker EXCEPT ![w].pc = IF running THEN "none" ELSE "begin"]
  /\ UNCHANGED <<call, wait, log>>

\* CAS(false, true): the first goroutine becomes the worker, others return.
RunCAS(w) ==
  /\ worker[w].pc = "start"
  /\ running' = TRUE
  /\ worker' = [worker EXCEPT ![w].pc = IF running THEN "none" ELSE "loop"]
  /\ UNCHANGED <<call, wait, log>>

RunBegin(w) ==
  /\ worker[w].pc = "begin"
  /\ worker' = [worker EXCEPT ![w].pc = "exec"]
  /\ UNCHANGED <<running, call, wait, log>>

\* The inner function returns without a result.
RunBeginFails(w) ==
  /\ BeginMayFail
  /\ worker[w].pc = "begin"
  /\ worker' = [worker EXCEPT ![w].pc = "close"]
  /\ UNCHANGED <<running, call, wait, log>>

\* Mutant: the inner function closes the channel too.
RunExecCloses(w) ==
  /\ worker[w].pc = "exec"
  /\ wait' = [wait EXCEPT ![worker[w].task] = [result |-> "nil", closed |-> TRUE]]
  /\ log' = Append(log, worker[w].task)
  /\ worker' = [worker EXCEPT ![w].pc = "close"]
  /\ UNCHANGED <<running, call>>

\* The statement runs and its error is put into the channel.
RunExec(w) ==
  /\ worker[w].pc = "exec"
  /\ \/ /\ log' = Append(log, worker[w].task)
        /\ wait' = [wait EXCEPT ![worker[w].task].result = "nil"]
     \/ /\ wait' = [wait EXCEPT ![worker[w].task].result = "error"]
        /\ UNCHANGED log
  /\ worker' = [worker EXCEPT ![w].pc = "close"]
  /\ UNCHANGED <<running, call>>

\* Mutant: close is inside the inner function, behind its early return.
RunCloseAfterResult(w) ==
  /\ worker[w].pc = "close"
  /\ wait' = [wait EXCEPT ![worker[w].task].closed =
                wait[worker[w].task].result # None]
  /\ worker' = [worker EXCEPT ![w] = [pc |-> "loop", task |-> None]]
  /\ UNCHANGED <<running, call, log>>

\* Commit or Rollback of the empty transaction, then close(task.wait).
RunClose(w) ==
  /\ worker[w].pc = "close"
  /\ wait' = [wait EXCEPT ![worker[w].task].closed = TRUE]
  /\ worker' = [worker EXCEPT ![w] = [pc |-> "loop", task |-> None]]
  /\ UNCHANGED <<running, call, log>>

-----------------------------------------------------------------------------

RunStep(w) ==
  RunCAS(w) \/ RunBegin(w) \/ RunBeginFails(w) \/ RunExec(w) \/ RunClose(w)

Next ==
  \/ \E c \in Calls : Do(c) \/ DoLoad(c) \/ DoReturn(c)
                        \/ \E w \in Calls : DoSend(c, w)
  \/ \E w \in Calls : RunStep(w)

Spec == Init /\ [][Next]_vars

\* Goroutines are scheduled fairly, and Go serves the senders of a channel
\* in the order in which they came.
Fairness ==
  \A c \in Calls : /\ WF_vars(DoLoad(c)) /\ WF_vars(DoReturn(c))
                   /\ WF_vars(\E w \in Calls : DoSend(c, w))
                   /\ WF_vars(RunStep(c))

FairSpec == Spec /\ Fairness

-----------------------------------------------------------------------------
(***************************************************************************)
(* Properties.                                                             *)
(***************************************************************************)

CallPC == {"idle", "load", "send", "wait", "nil", "error"}
WorkerType ==
  {x \in [pc : {"none", "start", "loop", "begin", "exec", "close"},
          task : Calls \cup {None}] :
     x.pc \in {"begin", "exec", "close"} => x.task \in Calls}

\* The types of the flag, the calls, the goroutines and the channels.
TypeOK ==
  /\ running \in BOOLEAN
  /\ call \in [Calls -> CallPC]
  /\ worker \in [Calls -> WorkerType]
  /\ wait \in [Calls -> [result : {None, "nil", "error"}, closed : BOOLEAN]]
  /\ log \in Seq(Calls)

\* Past the compare-and-swap.
Working(w) == worker[w].pc \in {"loop", "begin", "exec", "close"}

\* However many calls find Writer.running unset at once, one goroutine of
\* those that they start gets past the compare-and-swap, so that no two
\* writes ever run at the same time.
OneWorker ==
  \A v, w \in Calls : Working(v) /\ Working(w) => v = w

\* No result is put into a channel twice and no channel is closed twice
\* (which would block or panic the only worker): the task a worker has in
\* hand is waited for, and its channel is open, and empty until Exec.
TaskOwned ==
  \A w \in Calls :
    /\ worker[w].pc \in {"begin", "exec"} =>
         /\ call[worker[w].task] = "wait"
         /\ wait[worker[w].task] = [result |-> None, closed |-> FALSE]
    /\ worker[w].pc = "close" =>
         /\ call[worker[w].task] \notin {"idle", "load", "send"}
         /\ ~wait[worker[w].task].closed

\* Do returns nil only when its write has taken effect.
NilMeansApplied ==
  \A c \in Calls : call[c] = "nil" => c \in Range(log)

\* What OneWorker and TaskOwned rest on: the flag is set while somebody is
\* past the compare-and-swap, and a channel is fresh until its task is sent.
FlagSet == \A w \in Calls : Working(w) => running
ChannelFresh ==
  \A c \in Calls : call[c] \in {"idle", "load", "send"} =>
    wait[c] = [result |-> None, closed |-> FALSE]

\* How a call looks to its caller.
StateOf(c) ==
  IF call[c] \in {"idle", "nil", "error"} THEN call[c]
  ELSE IF wait[c].result = None THEN "called"
  ELSE IF wait[c].result = "nil" THEN "applied" ELSE "refused"

Serial == INSTANCE SerialStore WITH state <- [c \in Calls |-> StateOf(c)],
                                    Lossy <- BeginMayFail

\* The goroutines and channels of Writer implement a serial store in which
\* every call returns; it is lossy only if Begin may fail.
ImplementsSerialStore == Serial!FairSpec
=============================================================================
