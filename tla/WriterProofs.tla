---------------------------- MODULE WriterProofs ----------------------------
(***************************************************************************)
(* What is true of Writer for any number of calls: one worker, one result  *)
(* and one close per task, and, as long as Begin does not fail, a serial   *)
(* store.                                                                  *)
(***************************************************************************)
EXTENDS Writer, TLAPS

\* The inductive invariant of Writer.
WriterInv == TypeOK /\ FlagSet /\ OneWorker /\ ChannelFresh /\ TaskOwned

\* Nobody has called Do yet.
LEMMA InitWriterInv == Init => WriterInv
<1> USE WriterAssumption
<1>1. SUFFICES ASSUME Init PROVE WriterInv
  OBVIOUS
<1>2. TypeOK
  <2>1. running \in BOOLEAN /\ call \in [Calls -> CallPC]
    BY <1>1 DEF Init, CallPC
  <2>2. worker \in [Calls -> WorkerType]
    BY <1>1 DEF Init, WorkerType
  <2>3. wait \in [Calls -> [result : {None, "nil", "error"}, closed : BOOLEAN]]
    BY <1>1 DEF Init
  <2>4. log \in Seq(Calls)
    BY <1>1 DEF Init
  <2> QED
    BY <2>1, <2>2, <2>3, <2>4 DEF TypeOK
<1>3. \A w \in Calls : worker[w].pc = "none"
  BY <1>1 DEF Init
<1>4. ChannelFresh
  BY <1>1 DEF Init, ChannelFresh
<1> QED
  BY <1>2, <1>3, <1>4 DEF WriterInv, FlagSet, OneWorker, TaskOwned, Working

\* Every step keeps the types.
LEMMA WriterType ==
  ASSUME TypeOK, [Next]_vars
  PROVE  TypeOK'
<1> USE WriterAssumption DEF TypeOK, CallPC, WorkerType
<1>1. ASSUME NEW c \in Calls, Do(c) PROVE TypeOK'
  BY <1>1 DEF Do
<1>2. ASSUME NEW c \in Calls, DoLoad(c) PROVE TypeOK'
  BY <1>2 DEF DoLoad
<1>3. ASSUME NEW c \in Calls, NEW w \in Calls, DoSend(c, w) PROVE TypeOK'
  BY <1>3 DEF DoSend
<1>4. ASSUME NEW c \in Calls, DoReturn(c) PROVE TypeOK'
  BY <1>4 DEF DoReturn
<1>5. ASSUME NEW w \in Calls, RunCAS(w) PROVE TypeOK'
  BY <1>5 DEF RunCAS
<1>6. ASSUME NEW w \in Calls, RunBegin(w) \/ RunBeginFails(w) PROVE TypeOK'
  BY <1>6 DEF RunBegin, RunBeginFails
<1>7. ASSUME NEW w \in Calls, RunExec(w) PROVE TypeOK'
  <2>1. worker[w].task \in Calls
    BY <1>7 DEF RunExec
  <2>2. log' \in Seq(Calls)
    <3>1. \A c \in Calls : Append(log, c) \in Seq(Calls)
      OBVIOUS
    <3> QED
      BY <1>7, <2>1, <3>1 DEF RunExec
  <2>3. wait' \in [Calls -> [result : {None, "nil", "error"}, closed : BOOLEAN]]
    <3>1. \A x \in {"nil", "error"} :
            [wait EXCEPT ![worker[w].task].result = x] \in
              [Calls -> [result : {None, "nil", "error"}, closed : BOOLEAN]]
      BY <2>1
    <3> QED
      BY <1>7, <3>1 DEF RunExec
  <2>4. worker' \in [Calls -> WorkerType]
    BY <1>7 DEF RunExec
  <2> QED
    BY <1>7, <2>2, <2>3, <2>4 DEF RunExec
<1>8. ASSUME NEW w \in Calls, RunClose(w) PROVE TypeOK'
  <2>1. worker[w].task \in Calls
    BY <1>8 DEF RunClose
  <2>2. wait' \in [Calls -> [result : {None, "nil", "error"}, closed : BOOLEAN]]
    BY <1>8, <2>1 DEF RunClose
  <2>3. [pc |-> "loop", task |-> None] \in WorkerType
    OBVIOUS
  <2>4. worker' \in [Calls -> WorkerType]
    BY <1>8, <2>3 DEF RunClose
  <2> QED
    BY <1>8, <2>2, <2>4 DEF RunClose
<1>9. CASE UNCHANGED vars
  BY <1>9 DEF vars
<1> QED
  BY <1>1, <1>2, <1>3, <1>4, <1>5, <1>6, <1>7, <1>8, <1>9 DEF Next, RunStep

\* How a step changes the goroutines: a working one stays the only one.
LEMMA WorkerStep ==
  ASSUME TypeOK, FlagSet, OneWorker, [Next]_vars
  PROVE  FlagSet' /\ OneWorker'
<1>1. worker \in [Calls -> WorkerType] /\ running \in BOOLEAN
  BY DEF TypeOK
<1>2. CASE UNCHANGED <<worker, running>>
  BY <1>2 DEF FlagSet, OneWorker, Working
<1>3. ASSUME NEW c \in Calls, DoLoad(c) PROVE FlagSet' /\ OneWorker'
  BY <1>1, <1>3 DEF DoLoad, FlagSet, OneWorker, Working, WorkerType
<1>4. ASSUME NEW c \in Calls, NEW w \in Calls, DoSend(c, w)
      PROVE  FlagSet' /\ OneWorker'
  BY <1>1, <1>4 DEF DoSend, FlagSet, OneWorker, Working
<1>5. ASSUME NEW w \in Calls, RunCAS(w) PROVE FlagSet' /\ OneWorker'
  BY <1>1, <1>5 DEF RunCAS, FlagSet, OneWorker, Working, WorkerType
<1>6. ASSUME NEW w \in Calls,
             RunBegin(w) \/ RunBeginFails(w) \/ RunExec(w) \/ RunClose(w)
      PROVE  FlagSet' /\ OneWorker'
  BY <1>1, <1>6
  DEF RunBegin, RunBeginFails, RunExec, RunClose, FlagSet, OneWorker, Working,
      WorkerType
<1> QED
  BY <1>2, <1>3, <1>4, <1>5, <1>6 DEF Next, RunStep, vars, Do, DoReturn

\* Every step leaves unsent tasks fresh and the tasks in hand open.
LEMMA ChannelStep ==
  ASSUME WriterInv, [Next]_vars
  PROVE  ChannelFresh' /\ TaskOwned'
<1>1. /\ worker \in [Calls -> WorkerType] /\ call \in [Calls -> CallPC]
      /\ wait \in [Calls -> [result : {None, "nil", "error"}, closed : BOOLEAN]]
      /\ ChannelFresh /\ TaskOwned /\ OneWorker
  BY DEF WriterInv, TypeOK
<1>2. ASSUME NEW c \in Calls, Do(c) \/ DoReturn(c)
      PROVE  ChannelFresh' /\ TaskOwned'
  <2>1. wait' = wait /\ worker' = worker
    BY <1>2 DEF Do, DoReturn
  <2>2. \A w \in Calls : worker[w].pc \in {"begin", "exec"} => worker[w].task # c
    BY <1>1, <1>2 DEF Do, DoReturn, TaskOwned
  <2>3. /\ \A e \in Calls : e # c => call'[e] = call[e]
        /\ call'[c] \in {"idle", "load", "send"} => call[c] \in {"idle", "load", "send"}
    BY <1>1, <1>2, WriterAssumption DEF Do, DoReturn
  <2> QED
    BY <1>1, <2>1, <2>2, <2>3 DEF ChannelFresh, TaskOwned, WorkerType
<1>3. ASSUME NEW c \in Calls, DoLoad(c) PROVE ChannelFresh' /\ TaskOwned'
  <2>1. /\ wait' = wait /\ call[c] = "load" /\ call'[c] = "send"
        /\ \A e \in Calls : e # c => call'[e] = call[e]
    BY <1>1, <1>3 DEF DoLoad
  <2>2. \A v \in Calls : worker'[v] = worker[v] \/ worker'[v].pc = "start"
    BY <1>1, <1>3 DEF DoLoad, WorkerType
  <2>3. \A w \in Calls : worker[w].pc \in {"begin", "exec", "close"} =>
          worker[w].task \in Calls \ {c}
    BY <1>1, <2>1 DEF TaskOwned, WorkerType
  <2>4. ChannelFresh'
    BY <1>1, <2>1 DEF ChannelFresh
  <2>5. ASSUME NEW v \in Calls, worker'[v] = worker[v],
               worker[v].pc \in {"begin", "exec", "close"}
        PROVE  call'[worker'[v].task] = call[worker[v].task]
    BY <2>1, <2>3, <2>5
  <2>6. TaskOwned'
    <3>1. SUFFICES ASSUME NEW v \in Calls
                   PROVE  /\ worker'[v].pc \in {"begin", "exec"} =>
                               /\ call'[worker'[v].task] = "wait"
                               /\ wait'[worker'[v].task] = [result |-> None, closed |-> FALSE]
                          /\ worker'[v].pc = "close" =>
                               /\ call'[worker'[v].task] \notin {"idle", "load", "send"}
                               /\ ~wait'[worker'[v].task].closed
      BY DEF TaskOwned
    <3>2. CASE worker'[v].pc = "start"
      BY <3>2
    <3>3. CASE worker'[v] = worker[v]
      BY <1>1, <2>1, <2>5, <3>3 DEF TaskOwned
    <3> QED
      BY <2>2, <3>2, <3>3
  <2> QED
    BY <2>4, <2>6
<1>4. ASSUME NEW c \in Calls, NEW w \in Calls, DoSend(c, w)
      PROVE  ChannelFresh' /\ TaskOwned'
  <2>1. /\ wait' = wait /\ call[c] = "send" /\ call'[c] = "wait"
        /\ \A e \in Calls : e # c => call'[e] = call[e]
    BY <1>1, <1>4 DEF DoSend
  <2>2. /\ worker'[w] = [pc |-> "begin", task |-> c]
        /\ \A v \in Calls : v # w => worker'[v] = worker[v]
    BY <1>1, <1>4 DEF DoSend
  <2>3. \A v \in Calls : worker[v].pc \in {"begin", "exec", "close"} =>
          worker[v].task \in Calls \ {c}
    BY <1>1, <2>1 DEF TaskOwned, WorkerType
  <2>4. wait[c] = [result |-> None, closed |-> FALSE]
    BY <1>1, <2>1 DEF ChannelFresh
  <2>5. ChannelFresh'
    BY <1>1, <2>1 DEF ChannelFresh
  <2>6. ASSUME NEW v \in Calls, v # w,
               worker[v].pc \in {"begin", "exec", "close"}
        PROVE  /\ worker'[v] = worker[v]
               /\ call'[worker'[v].task] = call[worker[v].task]
    BY <2>1, <2>2, <2>3, <2>6
  <2>7. TaskOwned'
    <3>1. SUFFICES ASSUME NEW v \in Calls
                   PROVE  /\ worker'[v].pc \in {"begin", "exec"} =>
                               /\ call'[worker'[v].task] = "wait"
                               /\ wait'[worker'[v].task] = [result |-> None, closed |-> FALSE]
                          /\ worker'[v].pc = "close" =>
                               /\ call'[worker'[v].task] \notin {"idle", "load", "send"}
                               /\ ~wait'[worker'[v].task].closed
      BY DEF TaskOwned
    <3>2. CASE v = w
      BY <2>1, <2>2, <2>4, <3>2
    <3>3. CASE v # w
      BY <1>1, <2>1, <2>2, <2>6, <3>3 DEF TaskOwned
    <3> QED
      BY <3>2, <3>3
  <2> QED
    BY <2>5, <2>7
<1>5. ASSUME NEW w \in Calls, RunCAS(w) \/ RunBegin(w) \/ RunBeginFails(w)
      PROVE  ChannelFresh' /\ TaskOwned'
  <2>1. wait' = wait /\ call' = call
    BY <1>5 DEF RunCAS, RunBegin, RunBeginFails
  <2>2. \A v \in Calls : /\ worker'[v].pc \in {"begin", "exec"} =>
                              /\ worker[v].pc \in {"begin", "exec"}
                              /\ worker'[v].task = worker[v].task
                         /\ worker'[v].pc = "close" =>
                              /\ worker[v].pc \in {"begin", "close"}
                              /\ worker'[v].task = worker[v].task
    BY <1>1, <1>5 DEF RunCAS, RunBegin, RunBeginFails, WorkerType
  <2>3. ASSUME NEW v \in Calls, worker[v].pc = "begin"
        PROVE  call[worker[v].task] = "wait" /\ ~wait[worker[v].task].closed
    BY <1>1, <2>3 DEF TaskOwned
  <2> QED
    BY <1>1, <2>1, <2>2, <2>3 DEF ChannelFresh, TaskOwned
<1>6. ASSUME NEW w \in Calls, RunExec(w) \/ RunClose(w)
      PROVE  ChannelFresh' /\ TaskOwned'
  <2> DEFINE t == worker[w].task
  <2>1. t \in Calls /\ call' = call /\ \A v \in Calls : v # w => ~Working(v)
    BY <1>1, <1>6 DEF RunExec, RunClose, WorkerType, OneWorker, Working
  <2>2. \A v \in Calls : v # w => worker'[v] = worker[v]
    BY <1>1, <1>6 DEF RunExec, RunClose
  <2>3. \A c \in Calls : c # t => wait'[c] = wait[c]
    BY <1>1, <1>6, <2>1 DEF RunExec, RunClose
  <2>4. TaskOwned'
    <3>1. CASE RunExec(w)
      <4>1. worker'[w].pc = "close" /\ worker'[w].task = t
        BY <1>1, <3>1 DEF RunExec, WorkerType
      <4>2. ~wait[t].closed /\ call[t] = "wait"
        BY <1>1, <3>1 DEF RunExec, TaskOwned
      <4>3. ~wait'[t].closed
        BY <1>1, <2>1, <3>1, <4>2 DEF RunExec
      <4> QED
        BY <2>1, <2>2, <4>1, <4>2, <4>3 DEF TaskOwned, Working
    <3>2. CASE RunClose(w)
      BY <1>1, <2>1, <2>2, <3>2 DEF RunClose, TaskOwned, Working
    <3> QED
      BY <1>6, <3>1, <3>2
  <2>5. call[t] \notin {"idle", "load", "send"}
    BY <1>1, <1>6 DEF RunExec, RunClose, TaskOwned
  <2> QED
    BY <1>1, <2>1, <2>3, <2>4, <2>5 DEF ChannelFresh
<1>7. CASE UNCHANGED vars
  BY <1>1, <1>7 DEF vars, ChannelFresh, TaskOwned
<1> QED
  BY <1>2, <1>3, <1>4, <1>5, <1>6, <1>7 DEF Next, RunStep

\* However the calls interleave, one goroutine works, each task gets one
\* result and each channel is closed once.
THEOREM WriterInvariant == Spec => []WriterInv
<1>1. WriterInv /\ [Next]_vars => WriterInv'
  BY WriterType, WorkerStep, ChannelStep DEF WriterInv
<1> QED
  BY <1>1, InitWriterInv, PTL DEF Spec

\* The types hold in every reachable state; in particular a goroutine that
\* executes or closes a task has one of some call.
THEOREM WriterTypeOK == Spec => []TypeOK
<1>1. WriterInv => TypeOK
  BY DEF WriterInv
<1> QED
  BY <1>1, WriterInvariant, PTL

\* No two writes run at the same time.
THEOREM WriterOneWorker == Spec => []OneWorker
<1>1. WriterInv => OneWorker
  BY DEF WriterInv
<1> QED
  BY <1>1, WriterInvariant, PTL

\* No result is sent twice and no channel is closed twice.
THEOREM WriterTaskOwned == Spec => []TaskOwned
<1>1. WriterInv => TaskOwned
  BY DEF WriterInv
<1> QED
  BY <1>1, WriterInvariant, PTL

-----------------------------------------------------------------------------
(***************************************************************************)
(* The safety part of the refinement.                                      *)
(***************************************************************************)

\* When Begin does not fail, a channel is closed only after a result.
ResultFirst ==
  /\ \A w \in Calls : worker[w].pc = "close" => wait[worker[w].task].result # None
  /\ \A c \in Calls : wait[c].closed => wait[c].result # None

\* Without failures of Begin no step closes a channel before its result.
LEMMA ResultFirstStep ==
  ASSUME ~BeginMayFail, WriterInv, ResultFirst, [Next]_vars
  PROVE  ResultFirst'
<1>1. /\ worker \in [Calls -> WorkerType]
      /\ wait \in [Calls -> [result : {None, "nil", "error"}, closed : BOOLEAN]]
      /\ OneWorker /\ None \notin Calls
  BY WriterAssumption DEF WriterInv, TypeOK
<1>2. CASE UNCHANGED <<worker, wait>>
  BY <1>2 DEF ResultFirst
<1>3. ASSUME NEW c \in Calls, DoLoad(c) PROVE ResultFirst'
  BY <1>1, <1>3 DEF DoLoad, ResultFirst, WorkerType
<1>4. ASSUME NEW c \in Calls, NEW w \in Calls, DoSend(c, w) PROVE ResultFirst'
  BY <1>1, <1>4 DEF DoSend, ResultFirst
<1>5. ASSUME NEW w \in Calls, RunCAS(w) \/ RunBegin(w) PROVE ResultFirst'
  BY <1>1, <1>5 DEF RunCAS, RunBegin, ResultFirst, WorkerType
<1>6. ASSUME NEW w \in Calls, RunExec(w) PROVE ResultFirst'
  <2> DEFINE t == worker[w].task
  <2>1. t \in Calls /\ wait'[t].result # None
    BY <1>1, <1>6, WriterAssumption DEF RunExec, WorkerType
  <2>2. \A c \in Calls : c # t => wait'[c] = wait[c]
    BY <1>1, <1>6, <2>1 DEF RunExec
  <2>3. \A v \in Calls : worker'[v].task = worker[v].task
    BY <1>1, <1>6 DEF RunExec, WorkerType
  <2>4. \A v \in Calls : v # w => worker'[v] = worker[v] /\ ~Working(v)
    BY <1>1, <1>6 DEF RunExec, OneWorker, Working
  <2> QED
    BY <2>1, <2>2, <2>3, <2>4 DEF ResultFirst, Working
<1>7. ASSUME NEW w \in Calls, RunClose(w) PROVE ResultFirst'
  <2> DEFINE t == worker[w].task
  <2>1. t \in Calls /\ wait[t].result # None
    BY <1>1, <1>7 DEF RunClose, WorkerType, ResultFirst
  <2>2. \A c \in Calls : /\ c # t => wait'[c] = wait[c]
                         /\ wait'[c].result = wait[c].result
    BY <1>1, <1>7, <2>1 DEF RunClose
  <2>3. /\ worker'[w].pc = "loop"
        /\ \A v \in Calls : v # w => worker'[v] = worker[v] /\ ~Working(v)
    BY <1>1, <1>7 DEF RunClose, OneWorker, Working
  <2> QED
    BY <2>1, <2>2, <2>3 DEF ResultFirst, Working
<1> QED
  BY <1>2, <1>3, <1>4, <1>5, <1>6, <1>7
  DEF Next, RunStep, vars, Do, DoReturn, RunBeginFails

\* A step that leaves every call as its caller sees it is a stutter.
LEMMA SerialStutter ==
  ASSUME UNCHANGED log, \A c \in Calls : StateOf(c)' = StateOf(c)
  PROVE  UNCHANGED Serial!vars
  BY DEF Serial!vars

\* A step that moves one call is the step of the serial store that does.
LEMMA SerialMove ==
  ASSUME NEW c \in Calls, NEW from, NEW to,
         StateOf(c) = from, StateOf(c)' = to,
         \A e \in Calls : e # c => StateOf(e)' = StateOf(e)
  PROVE  Serial!Move(c, from, to)
  BY DEF Serial!Move

\* Every step of Writer is a step of the serial store or a stutter.
LEMMA SerialStep ==
  ASSUME WriterInv, BeginMayFail \/ ResultFirst, [Next]_vars
  PROVE  [Serial!Next]_Serial!vars
<1>1. /\ worker \in [Calls -> WorkerType] /\ call \in [Calls -> CallPC]
      /\ wait \in [Calls -> [result : {None, "nil", "error"}, closed : BOOLEAN]]
      /\ TaskOwned /\ ChannelFresh /\ None \notin {"nil", "error"}
  BY WriterAssumption DEF WriterInv, TypeOK
<1>2. CASE UNCHANGED <<call, wait, log>>
  BY <1>2, SerialStutter DEF StateOf
<1>3. ASSUME NEW c \in Calls, Do(c) PROVE Serial!Next
  <2>1. /\ call[c] = "idle" /\ call'[c] = "load" /\ wait' = wait /\ log' = log
        /\ \A e \in Calls : e # c => call'[e] = call[e]
    BY <1>1, <1>3 DEF Do
  <2>2. wait[c].result = None
    BY <1>1, <2>1 DEF ChannelFresh
  <2>3. StateOf(c) = "idle" /\ StateOf(c)' = "called"
    BY <1>1, <2>1, <2>2 DEF StateOf
  <2>4. \A e \in Calls : e # c => StateOf(e)' = StateOf(e)
    BY <2>1 DEF StateOf
  <2> QED
    BY <2>1, <2>3, <2>4, SerialMove DEF Serial!Next, Serial!Call
<1>4. ASSUME NEW c \in Calls,
             DoLoad(c) \/ (\E w \in Calls : DoSend(c, w))
      PROVE  UNCHANGED Serial!vars
  <2>1. /\ call[c] \in {"load", "send"} /\ call'[c] \in {"send", "wait"}
        /\ wait' = wait /\ log' = log
        /\ \A e \in Calls : e # c => call'[e] = call[e]
    BY <1>1, <1>4 DEF DoLoad, DoSend
  <2>2. StateOf(c)' = StateOf(c)
    BY <2>1 DEF StateOf
  <2>3. \A e \in Calls : e # c => StateOf(e)' = StateOf(e)
    BY <2>1 DEF StateOf
  <2> QED
    BY <2>1, <2>2, <2>3, SerialStutter
<1>5. ASSUME NEW c \in Calls, DoReturn(c) PROVE Serial!Next
  <2>1. /\ call[c] = "wait" /\ wait' = wait /\ log' = log
        /\ \A e \in Calls : e # c => call'[e] = call[e]
    BY <1>1, <1>5 DEF DoReturn
  <2>2. call'[c] = IF wait[c].result = None THEN "nil" ELSE wait[c].result
    BY <1>1, <1>5 DEF DoReturn
  <2>3. \A e \in Calls : e # c => StateOf(e)' = StateOf(e)
    BY <2>1 DEF StateOf
  <2>4. CASE wait[c].result = "nil"
    <3>1. StateOf(c) = "applied" /\ StateOf(c)' = "nil"
      BY <1>1, <2>1, <2>2, <2>4 DEF StateOf
    <3> QED
      BY <2>1, <2>3, <3>1, SerialMove DEF Serial!Next, Serial!Work,
         Serial!Return
  <2>5. CASE wait[c].result = "error"
    <3>1. StateOf(c) = "refused" /\ StateOf(c)' = "error"
      BY <1>1, <2>1, <2>2, <2>5 DEF StateOf
    <3> QED
      BY <2>1, <2>3, <3>1, SerialMove DEF Serial!Next, Serial!Work,
         Serial!Return
  <2>6. CASE wait[c].result = None
    <3>1. BeginMayFail
      BY <1>5, <2>6 DEF DoReturn, ResultFirst
    <3>2. StateOf(c) = "called" /\ StateOf(c)' = "nil"
      BY <1>1, <2>1, <2>2, <2>6 DEF StateOf
    <3> QED
      BY <2>1, <2>3, <3>1, <3>2, SerialMove
      DEF Serial!Next, Serial!Work, Serial!Forget
  <2> QED
    BY <1>1, <2>4, <2>5, <2>6
<1>6. ASSUME NEW w \in Calls, RunExec(w) PROVE Serial!Next
  <2>0. PICK t \in Calls : t = worker[w].task
    BY <1>1, <1>6 DEF RunExec, WorkerType
  <2>1. call[t] = "wait" /\ call' = call /\ wait[t].result = None
    BY <1>1, <1>6, <2>0 DEF RunExec, TaskOwned
  <2>2. \A e \in Calls : e # t => wait'[e] = wait[e]
    BY <1>1, <1>6, <2>0 DEF RunExec
  <2>3. \A e \in Calls : e # t => StateOf(e)' = StateOf(e)
    BY <2>1, <2>2 DEF StateOf
  <2>4. CASE log' = Append(log, t) /\ wait' = [wait EXCEPT ![t].result = "nil"]
    <3>1. wait'[t].result = "nil"
      BY <1>1, <2>1, <2>4
    <3>2. StateOf(t) = "called" /\ StateOf(t)' = "applied"
      BY <1>1, <2>1, <3>1 DEF StateOf
    <3> QED
      BY <2>1, <2>3, <2>4, <3>2, SerialMove DEF Serial!Next, Serial!Work,
         Serial!Apply
  <2>5. CASE log' = log /\ wait' = [wait EXCEPT ![t].result = "error"]
    <3>1. wait'[t].result = "error"
      BY <1>1, <2>1, <2>5
    <3>2. StateOf(t) = "called" /\ StateOf(t)' = "refused"
      BY <1>1, <2>1, <3>1 DEF StateOf
    <3> QED
      BY <2>1, <2>3, <2>5, <3>2, SerialMove DEF Serial!Next, Serial!Work,
         Serial!Refuse
  <2> QED
    BY <1>6, <2>0, <2>4, <2>5 DEF RunExec
<1>7. ASSUME NEW w \in Calls, RunClose(w) PROVE UNCHANGED Serial!vars
  <2>1. call' = call /\ log' = log /\ worker[w].task \in Calls
    BY <1>1, <1>7 DEF RunClose, WorkerType
  <2>2. \A e \in Calls : wait'[e].result = wait[e].result
    BY <1>1, <1>7, <2>1 DEF RunClose
  <2>3. \A e \in Calls : StateOf(e)' = StateOf(e)
    BY <2>1, <2>2 DEF StateOf
  <2> QED
    BY <2>1, <2>3, SerialStutter
<1> QED
  BY <1>2, <1>3, <1>4, <1>5, <1>6, <1>7
  DEF Next, RunStep, vars, RunCAS, RunBegin, RunBeginFails

\* Writer.Do is an atomic write that says truthfully whether it was done, or
\* forgets it and says that it was done; it forgets nothing as long as Begin
\* does not fail.
THEOREM WriterImplementsSerialStore == Spec => Serial!Spec
<1>1. Init => Serial!Init /\ ResultFirst
  <2>1. SUFFICES ASSUME Init PROVE Serial!Init /\ ResultFirst
    OBVIOUS
  <2>2. \A c \in Calls : StateOf(c) = "idle"
    BY <2>1 DEF Init, StateOf
  <2>3. ResultFirst
    BY <2>1 DEF Init, ResultFirst
  <2> QED
    BY <2>1, <2>2, <2>3 DEF Init, Serial!Init
<1> DEFINE R == BeginMayFail \/ ResultFirst
<1>2. Init => R
  BY <1>1
<1>3. WriterInv /\ R /\ [Next]_vars => R'
  BY ResultFirstStep
<1>4. WriterInv /\ R /\ [Next]_vars => [Serial!Next]_Serial!vars
  BY SerialStep
<1> HIDE DEF R
<1> QED
  BY <1>1, <1>2, <1>3, <1>4, WriterInvariant, PTL DEF Spec, Serial!Spec
=============================================================================
