---------------------------- MODULE SenderProofs ----------------------------
(***************************************************************************)
(* What is true of Sender for every set of mails, nodes and addresses,     *)
(* every set of envelopes, every kind and number of faults.                *)
(***************************************************************************)
EXTENDS Sender, StoreFacts, TLAPS

\* Some number bounds the ids in Outbox.
IdsBounded == \E n \in Nat : \A r \in mails : r.id <= n

\* The id that MailCreate gives a mail is above every id in use.
LEMMA NextID ==
  ASSUME NEW boxes, Types(boxes), IdsBounded
  PROVE  /\ MailNextID(mails, "Outbox") \in Nat \ {0}
         /\ \A r \in mails :
              r.mailbox = "Outbox" => r.id < MailNextID(mails, "Outbox")
<1>1. \A r \in mails : IsRow(r)
  BY DEF Types, MailRow, IsRow
<1> QED
  BY <1>1, NextIDIsNew DEF IdsBounded, Bounded

-----------------------------------------------------------------------------
(***************************************************************************)
(* Types.  One lemma for the tables, one for the submissions, one for the  *)
(* runs, one for the rest.                                                 *)
(***************************************************************************)

\* The tables change in six actions only.
LEMMA TablesFrame ==
  ASSUME [Next]_vars
  PROVE  \/ UNCHANGED <<mails, queue>>
         \/ \E m \in Mails : SubCreate(m) \/ SubInsert(m)
         \/ \E d \in Hosts : RunPurge(d) \/ RunUnqueue(d) \/ RunMark(d)
                               \/ RunExpunge(d)
  BY DEF Next, vars, SubStep, RunStep, ManagerStep, Submit, SubUnparsable,
         SubSelf, SubRefused, SubKick, SubQueued, SubError, SubSkip, RunList,
         RunSelect, RunSelectNoRows, RunSend, RunSendFails, RunPending,
         RunClose, RunCloseFails, RunStop, RunError, RunSkip, ManagerFires,
         ManagerKicks, ManagerRearms, ManagerError, Crash

\* The tables keep their types, and Outbox its greatest id.
LEMMA TablesType ==
  ASSUME NEW boxes, "Outbox" \in boxes, Types(boxes), IdsBounded, [Next]_vars
  PROVE  /\ mails' \subseteq MailRow(boxes) /\ queue' \subseteq QueueRow(boxes)
         /\ IdsBounded'
<1> DEFINE P == /\ mails' \subseteq MailRow(boxes)
                /\ queue' \subseteq QueueRow(boxes) /\ IdsBounded'
<1>1. mails \subseteq MailRow(boxes) /\ queue \subseteq QueueRow(boxes)
  BY DEF Types
<1>2. CASE UNCHANGED <<mails, queue>>
  BY <1>1, <1>2 DEF IdsBounded
<1>3. ASSUME NEW m \in Mails, SubCreate(m)
      PROVE  P
  <2> DEFINE id == MailNextID(mails, "Outbox")
  <2>1. id \in Nat \ {0}
    BY NextID
  <2>2. mails' = mails \cup {[mailbox |-> "Outbox", id |-> id, mail |-> m,
                              flags |-> {}]}
    BY <1>3 DEF SubCreate, MailCreate
  <2> HIDE DEF id
  <2>3. mails' \subseteq MailRow(boxes)
    BY <1>1, <2>1, <2>2 DEF MailRow
  <2>4. PICK n \in Nat : \A r \in mails : r.id <= n
    BY DEF IdsBounded
  <2>5. \A r \in mails' : r.id <= n + id
    BY <1>1, <2>1, <2>2, <2>4 DEF MailRow
  <2>6. IdsBounded'
    BY <2>1, <2>5 DEF IdsBounded
  <2> QED
    BY <1>1, <1>3, <2>3, <2>6 DEF SubCreate
<1>4. ASSUME NEW m \in Mails, SubInsert(m)
      PROVE  P
  <2>0. HostOf[Rcpt(m)] \in Hosts
    BY <1>4 DEF SubInsert
  <2>1. sub[m].pid \in Nat /\ Rcpt(m) \in Addrs
    BY <1>4 DEF SubInsert, HasRcpt, Rcpt, Types, SubType
  <2>2. [destination |-> HostOf[Rcpt(m)], mailbox |-> "Outbox",
         id |-> sub[m].pid, rcpt |-> Rcpt(m)] \in QueueRow(boxes)
    BY <2>0, <2>1 DEF QueueRow
  <2>3. queue' \subseteq QueueRow(boxes)
    BY <1>1, <1>4, <2>2 DEF SubInsert, QueueInsertDestinationForID
  <2>4. mails' = mails
    BY <1>4 DEF SubInsert
  <2> QED
    BY <1>1, <2>3, <2>4 DEF IdsBounded
<1>5. ASSUME NEW d \in Hosts, RunPurge(d) \/ RunUnqueue(d)
      PROVE  P
  BY <1>1, <1>5
  DEF RunPurge, RunUnqueue, QueueDeleteDestinationForID, IdsBounded
<1>6. ASSUME NEW d \in Hosts, RunMark(d)
      PROVE  P
  <2>1. \A r \in mails' : \E s \in mails :
           r = s \/ r = [s EXCEPT !.flags = @ \cup {"Deleted"}]
    BY <1>6 DEF RunMark, MailDelete
  <2>2. \A r \in mails' : r \in MailRow(boxes) /\ \E s \in mails : r.id = s.id
    BY <1>1, <2>1 DEF MailRow, Flag
  <2> QED
    BY <1>1, <1>6, <2>2 DEF RunMark, IdsBounded
<1>7. ASSUME NEW d \in Hosts, RunExpunge(d)
      PROVE  P
  BY <1>1, <1>7 DEF RunExpunge, MailExpunge, QueueCascade, IdsBounded
<1> QED
  BY <1>2, <1>3, <1>4, <1>5, <1>6, <1>7, TablesFrame

\* The locals of the submissions keep their types.
LEMMA SubsType ==
  ASSUME NEW boxes, Types(boxes), IdsBounded, [Next]_vars
  PROVE  sub' \in [Mails -> SubType]
<1> USE SenderAssumption
<1>1. sub \in [Mails -> SubType]
  BY DEF Types
<1>2. ASSUME NEW m \in Mails, Submit(m) PROVE sub' \in [Mails -> SubType]
  <2>1. PICK to \in RcptLists :
          sub' = [sub EXCEPT ![m] = [pc |-> "create", to |-> to, i |-> 0,
                                     pid |-> 0]]
    BY <1>2 DEF Submit
  <2>2. to \in Seq(Addrs)
    BY <2>1
  <2> QED
    BY <1>1, <2>1, <2>2 DEF SubType, SubPC
<1>3. ASSUME NEW m \in Mails, SubCreate(m) PROVE sub' \in [Mails -> SubType]
  <2>1. MailNextID(mails, "Outbox") \in Nat
    BY NextID
  <2> QED
    BY <1>1, <1>3, <2>1 DEF SubCreate, SubType, SubPC
<1>4. ASSUME NEW m \in Mails, SubUnparsable(m) PROVE sub' \in [Mails -> SubType]
  BY <1>1, <1>4 DEF SubUnparsable, HasRcpt, SubFails, SubType, SubPC
<1>5. ASSUME NEW m \in Mails, SubSelf(m) PROVE sub' \in [Mails -> SubType]
  BY <1>1, <1>5 DEF SubSelf, HasRcpt, NextRcpt, SubType, SubPC
<1>6. ASSUME NEW m \in Mails, SubInsert(m) PROVE sub' \in [Mails -> SubType]
  BY <1>1, <1>6 DEF SubInsert, HasRcpt, Rcpt, SubType, SubPC
<1>7. ASSUME NEW m \in Mails, SubRefused(m) PROVE sub' \in [Mails -> SubType]
  BY <1>1, <1>7 DEF SubRefused, HasRcpt, SubFails, SubType, SubPC
<1>8. ASSUME NEW m \in Mails, SubKick(m) PROVE sub' \in [Mails -> SubType]
  BY <1>1, <1>8 DEF SubKick, NextRcpt, SubType, SubPC
<1>9. ASSUME NEW m \in Mails, SubQueued(m) PROVE sub' \in [Mails -> SubType]
  BY <1>1, <1>9 DEF SubQueued, SubType, SubPC
<1>10. ASSUME NEW m \in Mails, SubError(m) PROVE sub' \in [Mails -> SubType]
  BY <1>1, <1>10 DEF SubError, SubFails, SubType, SubPC
<1>11. ASSUME NEW m \in Mails, SubSkip(m) PROVE sub' \in [Mails -> SubType]
  <2>1. CASE sub[m].pc = "create"
    <3>1. sub' = [sub EXCEPT ![m] = [pc |-> "rcpt", to |-> sub[m].to, i |-> 1,
                                     pid |-> 0]]
      BY <1>11, <2>1 DEF SubSkip, HasRcpt
    <3>2. [pc |-> "rcpt", to |-> sub[m].to, i |-> 1, pid |-> 0] \in SubType
      BY <1>1 DEF SubType, SubPC
    <3> QED
      BY <1>1, <3>1, <3>2
  <2>2. CASE /\ HasRcpt(m) /\ HostOf[Rcpt(m)] \in Hosts
             /\ sub' = [sub EXCEPT ![m].pc = "kick"]
    BY <1>1, <2>2 DEF HasRcpt, Rcpt, SubType, SubPC
  <2> QED
    BY <1>11, <2>1, <2>2 DEF SubSkip
<1>12. CASE Crash
  <2>1. \A m \in Mails : [sub[m] EXCEPT !.pc = "failed"] \in SubType
    BY <1>1 DEF SubType, SubPC
  <2>2. sub' = [m \in Mails |->
                 IF sub[m].pc \in {"create", "rcpt", "kick"}
                 THEN [sub[m] EXCEPT !.pc = "failed"] ELSE sub[m]]
    BY <1>12 DEF Crash
  <2> QED
    BY <1>1, <2>1, <2>2
<1>13. CASE sub' = sub
  BY <1>1, <1>13
<1> QED
  BY <1>2, <1>3, <1>4, <1>5, <1>6, <1>7, <1>8, <1>9, <1>10, <1>11, <1>12, <1>13
  DEF Next, vars, SubStep, RunStep, ManagerStep, RunList, RunSelect,
      RunSelectNoRows, RunPurge, RunSend, RunSendFails, RunUnqueue, RunPending,
      RunMark, RunClose, RunCloseFails, RunExpunge, RunStop, RunError, RunSkip,
      ManagerFires, ManagerKicks, ManagerRearms, ManagerError

\* A run that goes on to its next ref keeps its type.
LEMMA NextRefType ==
  ASSUME NEW boxes, run \in [Hosts -> RunType(boxes)], NEW d \in Hosts, NextRef(d)
  PROVE  run' \in [Hosts -> RunType(boxes)]
  BY DEF NextRef, RunType, RunPC, RefPC, MailPC

\* The locals of the runs keep their types.
LEMMA RunsType ==
  ASSUME NEW boxes, Types(boxes), [Next]_vars
  PROVE  run' \in [Hosts -> RunType(boxes)] /\ running' \in [Hosts -> BOOLEAN]
<1> DEFINE P == run' \in [Hosts -> RunType(boxes)] /\ running' \in [Hosts -> BOOLEAN]
<1>1. run \in [Hosts -> RunType(boxes)] /\ running \in [Hosts -> BOOLEAN]
  BY DEF Types
<1>2. ASSUME NEW d \in Hosts, queueFor(d) PROVE P
  BY <1>1, <1>2 DEF queueFor, RunType, RunPC, RefPC, MailPC
<1>3. ASSUME NEW m \in Mails, SubKick(m) PROVE P
  <2>1. HostOf[Rcpt(m)] \in Hosts
    BY <1>3 DEF SubKick, Rcpt, Types, SubType
  <2> QED
    BY <1>2, <1>3, <2>1 DEF SubKick
<1>4. ASSUME NEW d \in Hosts, RunList(d) PROVE P
  <2>1. QueueMailIDsForDestination(queue, d) \in SUBSET QueueRow(boxes)
    BY DEF Types, QueueMailIDsForDestination
  <2> QED
    BY <1>1, <1>4, <2>1 DEF RunList, RunType, RunPC, RefPC, MailPC
<1>5. ASSUME NEW d \in Hosts, RunSelect(d) PROVE P
  BY <1>1, <1>5 DEF RunSelect, Types, MailRow, MailSelect, RunType, RunPC,
     RefPC, MailPC
<1>6. ASSUME NEW d \in Hosts, RunSelectNoRows(d) PROVE P
  BY <1>1, <1>6 DEF RunSelectNoRows, RunType, RunPC, RefPC, MailPC
<1>7. ASSUME NEW d \in Hosts, RunPurge(d) PROVE P
  BY <1>1, <1>7, NextRefType DEF RunPurge
<1>8. ASSUME NEW d \in Hosts, RunSend(d) PROVE P
  BY <1>1, <1>8 DEF RunSend, Goto, RunType, RunPC, RefPC, MailPC
<1>9. ASSUME NEW d \in Hosts, RunSendFails(d) PROVE P
  BY <1>1, <1>9, NextRefType DEF RunSendFails
<1>10. ASSUME NEW d \in Hosts, RunUnqueue(d) PROVE P
  BY <1>1, <1>10 DEF RunUnqueue, Goto, RunType, RunPC, RefPC, MailPC
<1>11. ASSUME NEW d \in Hosts, RunPending(d) PROVE P
  BY <1>1, <1>11 DEF RunPending, Goto, RunType, RunPC, RefPC, MailPC
<1>12. ASSUME NEW d \in Hosts, RunMark(d) PROVE P
  BY <1>1, <1>12 DEF RunMark, Goto, RunType, RunPC, RefPC, MailPC
<1>13. ASSUME NEW d \in Hosts, RunClose(d) PROVE P
  BY <1>1, <1>13, NextRefType DEF RunClose
<1>14. ASSUME NEW d \in Hosts, RunCloseFails(d) PROVE P
  BY <1>1, <1>14, NextRefType DEF RunCloseFails
<1>15. ASSUME NEW d \in Hosts, RunExpunge(d) PROVE P
  BY <1>1, <1>15 DEF RunExpunge, Goto, RunType, RunPC, RefPC, MailPC
<1>16. ASSUME NEW d \in Hosts, RunStop(d) PROVE P
  BY <1>1, <1>16 DEF RunStop, Goto, RunType, RunPC, RefPC, MailPC
<1>17. ASSUME NEW d \in Hosts, RunError(d) PROVE P
  <2>1. CASE NextRef(d)
    BY <1>1, <1>17, <2>1, NextRefType DEF RunError
  <2>2. CASE \E ref \in run[d].refs :
               /\ IsNextRef(d, ref)
               /\ run' = [run EXCEPT ![d].refs = @ \ {ref}]
    BY <1>1, <1>17, <2>2 DEF RunError, RunType
  <2>3. CASE run[d].pc = "list" /\ Goto(d, "loop")
    BY <1>1, <1>17, <2>3 DEF RunError, Goto, RunType, RunPC, RefPC, MailPC
  <2>4. CASE run[d].pc \in {"unqueue", "pending", "mark"} /\ Goto(d, "close")
    BY <1>1, <1>17, <2>4 DEF RunError, Goto, RunType, RunPC, RefPC, MailPC
  <2>5. CASE run[d].pc = "loop" /\ Goto(d, "stop")
    BY <1>1, <1>17, <2>5 DEF RunError, Goto, RunType, RunPC, RefPC, MailPC
  <2> QED
    BY <1>17, <2>1, <2>2, <2>3, <2>4, <2>5 DEF RunError
<1>18. ASSUME NEW d \in Hosts, RunSkip(d) PROVE P
  <2>1. CASE NextRef(d)
    BY <1>1, <1>18, <2>1, NextRefType DEF RunSkip
  <2>2. CASE run[d].pc = "unqueue" /\ Goto(d, "pending")
    BY <1>1, <1>18, <2>2 DEF RunSkip, Goto, RunType, RunPC, RefPC, MailPC
  <2>3. CASE run[d].pc = "mark" /\ Goto(d, "close")
    BY <1>1, <1>18, <2>3 DEF RunSkip, Goto, RunType, RunPC, RefPC, MailPC
  <2>4. CASE run[d].pc = "loop" /\ Goto(d, "stop")
    BY <1>1, <1>18, <2>4 DEF RunSkip, Goto, RunType, RunPC, RefPC, MailPC
  <2> QED
    BY <1>18, <2>1, <2>2, <2>3, <2>4 DEF RunSkip
<1>19. CASE ManagerKicks
  BY <1>2, <1>19 DEF ManagerKicks, Types
<1>20. CASE Crash
  BY <1>1, <1>20 DEF Crash, IdleRun, RunType, RunPC, RefPC, MailPC
<1>21. CASE UNCHANGED <<run, running>>
  BY <1>1, <1>21
<1> QED
  BY <1>3, <1>4, <1>5, <1>6, <1>7, <1>8, <1>9, <1>10, <1>11, <1>12, <1>13,
     <1>14, <1>15, <1>16, <1>17, <1>18, <1>19, <1>20, <1>21
  DEF Next, vars, SubStep, RunStep, ManagerStep, Submit, SubCreate,
      SubUnparsable, SubSelf, SubInsert, SubRefused, SubQueued, SubError,
      SubSkip, ManagerFires, ManagerRearms, ManagerError

\* The history of deliveries changes in RunClose only.
LEMMA DeliveredFrame ==
  ASSUME [Next]_vars
  PROVE  delivered' = delivered \/ \E d \in Hosts : RunClose(d)
  BY DEF Next, vars, SubStep, RunStep, ManagerStep, Submit, SubCreate,
         SubUnparsable, SubSelf, SubInsert, SubRefused, SubKick, SubQueued,
         SubError, SubSkip, RunList, RunSelect, RunSelectNoRows, RunPurge,
         RunSend, RunSendFails, RunUnqueue, RunPending, RunMark,
         RunCloseFails, RunExpunge, RunStop, RunError, RunSkip, ManagerFires,
         ManagerKicks, ManagerRearms, ManagerError, Crash

\* The flags, the manager, the history and the fault count keep their types.
LEMMA RestType ==
  ASSUME NEW boxes, Types(boxes), [Next]_vars
  PROVE  /\ manager' \in [pc : {"timer", "loop", "dead"}, todo : SUBSET Hosts]
         /\ delivered' \in [Mails -> [Hosts -> Nat]]
         /\ faults' \in [Kinds -> Nat]
<1>1. manager' \in [pc : {"timer", "loop", "dead"}, todo : SUBSET Hosts]
  <2>1. manager \in [pc : {"timer", "loop", "dead"}, todo : SUBSET Hosts]
    BY DEF Types
  <2>2. CASE ManagerFires
    BY <2>2 DEF ManagerFires, QueueListDestinations, Types, QueueRow
  <2>3. CASE ManagerKicks
    BY <2>1, <2>3 DEF ManagerKicks
  <2>4. CASE ManagerRearms \/ ManagerError \/ Crash
    BY <2>4 DEF ManagerRearms, ManagerError, Crash, Waiting
  <2>5. CASE manager' = manager
    BY <2>1, <2>5
  <2> QED
    BY <2>2, <2>3, <2>4, <2>5
    DEF Next, vars, SubStep, RunStep, ManagerStep, Submit, SubCreate,
        SubUnparsable, SubSelf, SubInsert, SubRefused, SubKick, SubQueued,
        SubError, SubSkip, RunList, RunSelect, RunSelectNoRows, RunPurge,
        RunSend, RunSendFails, RunUnqueue, RunPending, RunMark, RunClose,
        RunCloseFails, RunExpunge, RunStop, RunError, RunSkip
<1>2. delivered' = delivered \/ \E d \in Hosts : RunClose(d)
  BY DeliveredFrame
<1>3. delivered' \in [Mails -> [Hosts -> Nat]]
  <2>1. ASSUME NEW d \in Hosts, RunClose(d)
        PROVE  delivered' \in [Mails -> [Hosts -> Nat]]
    <3>1. run[d].mail \in Mails
      BY <2>1 DEF RunClose, Types, RunType, RefPC, MailPC
    <3> QED
      BY <2>1, <3>1 DEF RunClose, Types
  <2> QED
    BY <1>2, <2>1 DEF Types
<1>4. faults' = faults
        \/ \E kind \in Kinds : faults' = [faults EXCEPT ![kind] = @ + 1]
  BY DEF Next, vars, SubStep, RunStep, ManagerStep, Submit, SubCreate,
         SubUnparsable, SubSelf, SubInsert, SubRefused, SubKick, SubQueued,
         SubError, SubSkip, RunList, RunSelect, RunSelectNoRows, RunPurge,
         RunSend, RunSendFails, RunUnqueue, RunPending, RunMark, RunClose,
         RunCloseFails, RunExpunge, RunStop, RunError, RunSkip, ManagerFires,
         ManagerKicks, ManagerRearms, ManagerError, Crash, Fault, Kinds
<1> QED
  BY <1>1, <1>3, <1>4 DEF Types

\* The empty database and a process just started have their types.
LEMMA InitType ==
  ASSUME NEW boxes, Init
  PROVE  Types(boxes) /\ IdsBounded
<1>1. Init
  OBVIOUS
<1>2. sub \in [Mails -> SubType]
  <2>1. <<>> \in Seq(Addrs)
    OBVIOUS
  <2> QED
    BY <1>1, <2>1 DEF Init, SubType, SubPC
<1>3. run \in [Hosts -> RunType(boxes)]
  BY <1>1 DEF Init, IdleRun, RunType, RunPC, RefPC, MailPC
<1>4. manager \in [pc : {"timer", "loop", "dead"}, todo : SUBSET Hosts]
  BY <1>1 DEF Init, Waiting
<1>5. delivered \in [Mails -> [Hosts -> Nat]]
  BY <1>1 DEF Init
<1>6. /\ mails \subseteq MailRow(boxes) /\ queue \subseteq QueueRow(boxes) /\ IdsBounded
      /\ running \in [Hosts -> BOOLEAN] /\ faults \in [Kinds -> Nat]
  BY <1>1 DEF Init, NoFaults, IdsBounded
<1> QED
  BY <1>2, <1>3, <1>4, <1>5, <1>6 DEF Types

\* No step of Sender breaks the types, wherever the rows are.
LEMMA TypesStep ==
  ASSUME NEW boxes, "Outbox" \in boxes, Types(boxes), IdsBounded, [Next]_vars
  PROVE  Types(boxes)' /\ IdsBounded'
  BY TablesType, SubsType, RunsType, RestType DEF Types

\* Whatever happens to a node, its tables and goroutines keep their types;
\* Queue.run never sends a mail that MailSelect has not returned.
THEOREM SenderTypeOK == Spec => [](TypeOK /\ IdsBounded)
<1>1. Init => TypeOK /\ IdsBounded
  BY InitType DEF TypeOK
<1>2. TypeOK /\ IdsBounded /\ [Next]_vars => (TypeOK /\ IdsBounded)'
  BY TypesStep DEF TypeOK
<1> QED
  BY <1>1, <1>2, PTL DEF Spec

-----------------------------------------------------------------------------
(***************************************************************************)
(* The foreign key and the flag Queue.running.                             *)
(***************************************************************************)

\* No step leaves a queue row without its mail: the cascade of an expunge
\* and the foreign key of an insert see to it.
LEMMA QueueRefsStep ==
  ASSUME NEW boxes, Types(boxes), QueueRefsExist, [Next]_vars
  PROVE  QueueRefsExist'
<1> USE DEF QueueRefsExist, MailSelect
<1>1. CASE UNCHANGED <<mails, queue>>
  BY <1>1
<1>2. ASSUME NEW m \in Mails, SubCreate(m) PROVE QueueRefsExist'
  BY <1>2 DEF SubCreate, MailCreate
<1>3. ASSUME NEW m \in Mails, SubInsert(m) PROVE QueueRefsExist'
  BY <1>3 DEF SubInsert, QueueInsertAllowed, QueueInsertDestinationForID
<1>4. ASSUME NEW d \in Hosts, RunPurge(d) \/ RunUnqueue(d)
      PROVE  QueueRefsExist'
  BY <1>4 DEF RunPurge, RunUnqueue, QueueDeleteDestinationForID
<1>5. ASSUME NEW d \in Hosts, RunMark(d) PROVE QueueRefsExist'
  <2>1. \A r \in mails : \E s \in mails' : s.mailbox = r.mailbox /\ s.id = r.id
    <3>1. TAKE r \in mails
    <3> DEFINE s == IF r.mailbox = "Outbox" /\ r.id = run[d].ref.id
                    THEN [r EXCEPT !.flags = @ \cup {"Deleted"}] ELSE r
    <3>2. s \in mails'
      BY <1>5 DEF RunMark, MailDelete
    <3>3. s.mailbox = r.mailbox /\ s.id = r.id
      BY DEF Types, MailRow
    <3> QED
      BY <3>2, <3>3
  <2> QED
    BY <1>5, <2>1 DEF RunMark
<1>6. ASSUME NEW d \in Hosts, RunExpunge(d) PROVE QueueRefsExist'
  BY <1>6 DEF RunExpunge, QueueCascade
<1> QED
  BY <1>1, <1>2, <1>3, <1>4, <1>5, <1>6, TablesFrame

\* Every row of the queue refers to a stored mail.
THEOREM SenderQueueRefsExist == Spec => []QueueRefsExist
<1>1. Init => QueueRefsExist
  BY DEF Init, QueueRefsExist
<1>2. TypeOK /\ QueueRefsExist /\ [Next]_vars => QueueRefsExist'
  BY QueueRefsStep DEF TypeOK
<1> QED
  BY <1>1, <1>2, SenderTypeOK, PTL DEF Spec

\* No step separates the flag Queue.running from the life of its goroutine.
LEMMA RunningStep ==
  ASSUME NEW boxes, Types(boxes), RunningFlag, [Next]_vars
  PROVE  RunningFlag'
<1>1. /\ running \in [Hosts -> BOOLEAN] /\ run \in [Hosts -> RunType(boxes)]
      /\ \A d \in Hosts : running[d] = (run[d].pc # "idle")
  BY DEF Types, RunningFlag
<1>2. ASSUME NEW d \in Hosts, queueFor(d) PROVE RunningFlag'
  BY <1>1, <1>2 DEF queueFor, RunningFlag, RunType
<1>3. ASSUME NEW m \in Mails, SubKick(m) PROVE RunningFlag'
  <2>1. HostOf[Rcpt(m)] \in Hosts
    BY <1>3 DEF SubKick, Rcpt, Types, SubType
  <2> QED
    BY <1>2, <1>3, <2>1 DEF SubKick
<1>4. CASE ManagerKicks
  BY <1>2, <1>4 DEF ManagerKicks, Types
<1>5. CASE Crash
  BY <1>5 DEF Crash, RunningFlag, IdleRun
<1>6. ASSUME NEW d \in Hosts, RunStop(d) PROVE RunningFlag'
  BY <1>1, <1>6 DEF RunStop, Goto, RunningFlag, RunType
<1>7. ASSUME NEW d \in Hosts, NEW pc, run[d].pc # "idle", running' = running,
             Goto(d, pc), pc # "idle"
      PROVE  RunningFlag'
  BY <1>1, <1>7 DEF RunningFlag, Goto, RunType
<1>8. ASSUME NEW d \in Hosts, run[d].pc # "idle", running' = running, NextRef(d)
      PROVE  RunningFlag'
  BY <1>1, <1>8 DEF RunningFlag, NextRef
<1>9. ASSUME NEW d \in Hosts, RunList(d) \/ RunSelect(d) \/ RunSelectNoRows(d)
       PROVE  RunningFlag'
  BY <1>1, <1>9 DEF RunningFlag, RunList, RunSelect, RunSelectNoRows, IsNextRef
<1>10. ASSUME NEW d \in Hosts,
              RunPurge(d) \/ RunSendFails(d) \/ RunClose(d) \/ RunCloseFails(d)
       PROVE  RunningFlag'
  BY <1>8, <1>10 DEF RunPurge, RunSendFails, RunClose, RunCloseFails
<1>11. ASSUME NEW d \in Hosts,
              RunSend(d) \/ RunUnqueue(d) \/ RunPending(d) \/ RunMark(d)
                \/ RunExpunge(d)
       PROVE  RunningFlag'
  BY <1>7, <1>11 DEF RunSend, RunUnqueue, RunPending, RunMark, RunExpunge
<1>12. ASSUME NEW d \in Hosts, RunError(d) PROVE RunningFlag'
  <2>1. CASE \E ref \in run[d].refs :
               /\ IsNextRef(d, ref)
               /\ run' = [run EXCEPT ![d].refs = @ \ {ref}]
    BY <1>1, <1>12, <2>1 DEF RunError, RunningFlag, IsNextRef, RunType
  <2> QED
    BY <1>7, <1>8, <1>12, <2>1 DEF RunError
<1>13. ASSUME NEW d \in Hosts, RunSkip(d) PROVE RunningFlag'
  BY <1>7, <1>8, <1>13 DEF RunSkip
<1>14. CASE UNCHANGED <<run, running>>
  BY <1>14 DEF RunningFlag
<1> QED
  BY <1>3, <1>4, <1>5, <1>6, <1>9, <1>10, <1>11, <1>12, <1>13, <1>14
  DEF Next, vars, SubStep, RunStep, ManagerStep, Submit, SubCreate,
      SubUnparsable, SubSelf, SubInsert, SubRefused, SubQueued, SubError,
      SubSkip, ManagerFires, ManagerRearms, ManagerError

\* No goroutine runs when the process starts.
LEMMA RunningInit == Init => RunningFlag
<1>1. SUFFICES ASSUME Init, NEW d \in Hosts
               PROVE  running[d] = (run[d].pc # "idle")
  BY DEF RunningFlag
<1>2. running[d] = FALSE /\ run[d].pc = "idle"
  BY <1>1 DEF Init, IdleRun
<1> QED
  BY <1>2

\* Queue.running tells exactly whether the goroutine of the queue is alive.
THEOREM SenderRunningFlag == Spec => []RunningFlag
<1>1. Init => RunningFlag
  BY RunningInit
<1>2. TypeOK /\ RunningFlag /\ [Next]_vars => RunningFlag'
  BY RunningStep DEF TypeOK
<1> QED
  BY <1>1, <1>2, SenderTypeOK, PTL DEF Spec

=============================================================================
