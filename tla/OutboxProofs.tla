---------------------------- MODULE OutboxProofs ----------------------------
(***************************************************************************)
(* What is true of Outbox, for any mails, nodes, envelopes, commands and   *)
(* faults.  SenderProofs shows it of Sender alone, whose rows are all in   *)
(* Outbox; its lemmas about the steps of Sender are used again here.       *)
(***************************************************************************)
EXTENDS Outbox, SenderProofs

\* A row of the queue has the columns of the table.
IsQueueRow(q) ==
  q = [destination |-> q.destination, mailbox |-> q.mailbox, id |-> q.id,
       rcpt |-> q.rcpt]

\* The inductive invariant: the primary key of mails, and the foreign key of
\* queue.
RefsInv ==
  IsMailTable(mails) /\ (\A q \in queue : IsQueueRow(q)) /\ QueueRefsExist

\* A mail is where it was.
Stays(r) == \E x \in mails' : x.mailbox = r.mailbox /\ x.id = r.id

\* Where no mail goes and rows only leave, the invariant holds afterwards.
LEMMA MailsStay ==
  ASSUME RefsInv, IsMailTable(mails'), queue' \subseteq queue,
         \A r \in mails : Stays(r)
  PROVE  RefsInv'
  BY DEF RefsInv, QueueRefsExist, MailSelect, Stays

LEMMA CreateStep ==
  ASSUME RefsInv, NEW m, mails' = MailCreate(mails, "Outbox", m), UNCHANGED queue
  PROVE  RefsInv'
<1>1. IsMailTable(mails')
  BY CreateKeepsTable DEF RefsInv
<1>2. \A r \in mails : Stays(r)
  BY DEF MailCreate, Stays
<1> QED
  BY <1>1, <1>2, MailsStay

LEMMA ExpungeStep ==
  ASSUME RefsInv, mails' = MailExpunge(mails, "Outbox"),
         queue' = QueueCascade(queue, mails')
  PROVE  RefsInv'
<1>1. mails' \in SUBSET mails
  BY DEF MailExpunge
<1>2. IsMailTable(mails')
  BY <1>1, FewerRows DEF RefsInv
<1> QED
  BY <1>2 DEF RefsInv, QueueRefsExist, QueueCascade

\* MOVE: the queue rows of the mail go where it goes.
LEMMA MoveStep ==
  ASSUME RefsInv, NEW id,
         MailMoveAllowed(mails, {"INBOX", "Outbox"}, "Outbox", id, "INBOX"),
         mails' = MailMove(mails, "Outbox", id, "INBOX"),
         queue' = QueueMove(queue, "Outbox", id, "INBOX")
  PROVE  RefsInv'
<1> DEFINE Mail(r) == IF r.mailbox = "Outbox" /\ r.id = id
                      THEN [r EXCEPT !.mailbox = "INBOX"] ELSE r
           Queued(q) == IF q.mailbox = "Outbox" /\ q.id = id
                        THEN [q EXCEPT !.mailbox = "INBOX"] ELSE q
<1>1. mails' = {Mail(r) : r \in mails} /\ queue' = {Queued(q) : q \in queue}
  BY DEF MailMove, QueueMove
<1>2. IsMailTable(mails')
  BY MoveKeepsTable DEF RefsInv
<1>3. ASSUME NEW q \in queue, NEW r \in mails,
             r.mailbox = q.mailbox, r.id = q.id
      PROVE  Mail(r).mailbox = Queued(q).mailbox /\ Mail(r).id = Queued(q).id
  <2>1. IsRow(r) /\ IsQueueRow(q)
    BY DEF RefsInv, IsMailTable
  <2>2. CASE r.mailbox = "Outbox" /\ r.id = id
    BY <1>3, <2>1, <2>2, RowMailbox DEF IsQueueRow
  <2>3. CASE ~(r.mailbox = "Outbox" /\ r.id = id)
    BY <1>3, <2>3
  <2> QED
    BY <2>2, <2>3
<1>4. \A q \in queue : IsQueueRow(Queued(q))
  BY DEF RefsInv, IsQueueRow
<1> HIDE DEF Mail, Queued
<1>5. \A q \in queue : \E r \in mails : r.mailbox = q.mailbox /\ r.id = q.id
  BY DEF RefsInv, QueueRefsExist, MailSelect
<1>6. \A q \in queue' : \E r \in mails' : r.mailbox = q.mailbox /\ r.id = q.id
  BY <1>1, <1>3, <1>5
<1> QED
  BY <1>1, <1>2, <1>4, <1>6 DEF RefsInv, QueueRefsExist, MailSelect

-----------------------------------------------------------------------------

LEMMA SenderRefs ==
  ASSUME RefsInv, [Next]_vars
  PROVE  RefsInv'
<1>1. CASE UNCHANGED <<mails, queue>>
  BY <1>1 DEF RefsInv, QueueRefsExist
<1>2. ASSUME NEW m \in Mails, SubCreate(m) PROVE RefsInv'
  BY <1>2, CreateStep DEF SubCreate
<1>3. ASSUME NEW m \in Mails, SubInsert(m) PROVE RefsInv'
  BY <1>3 DEF SubInsert, QueueInsertAllowed, QueueInsertDestinationForID,
              RefsInv, QueueRefsExist, IsQueueRow
<1>4. ASSUME NEW d \in Hosts, RunPurge(d) \/ RunUnqueue(d) PROVE RefsInv'
  BY <1>4 DEF RunPurge, RunUnqueue, QueueDeleteDestinationForID,
              RefsInv, QueueRefsExist
<1>5. ASSUME NEW d \in Hosts, RunMark(d) PROVE RefsInv'
  <2>1. mails' = MailDelete(mails, "Outbox", run[d].ref.id) /\ UNCHANGED queue
    BY <1>5 DEF RunMark
  <2>2. IsMailTable(mails') /\ \A r \in mails : Stays(r)
    BY <2>1, DeleteKeepsTable DEF RefsInv, Stays
  <2> QED
    BY <2>1, <2>2, MailsStay
<1>6. ASSUME NEW d \in Hosts, RunExpunge(d) PROVE RefsInv'
  BY <1>6, ExpungeStep DEF RunExpunge
<1> QED
  BY <1>1, <1>2, <1>3, <1>4, <1>5, <1>6, TablesFrame

LEMMA ClientRefs ==
  ASSUME RefsInv, ClientStep
  PROVE  RefsInv'
<1>1. CASE ClientAppend
  BY <1>1, CreateStep DEF ClientAppend
<1>2. CASE ClientRead
  BY <1>2 DEF ClientRead, RefsInv, QueueRefsExist
<1>3. CASE ClientWrite
  <2>1. /\ mails' = MailUpdateFlags(mails, "Outbox", client.id, client.flags)
        /\ UNCHANGED queue
    BY <1>3 DEF ClientWrite
  <2>2. IsMailTable(mails')
    BY <2>1, UpdateKeepsTable DEF RefsInv
  <2>3. \A r \in mails : Stays(r)
    BY <2>1, UpdateKeepsRows DEF RefsInv, IsMailTable, Stays
  <2> QED
    BY <2>1, <2>2, <2>3, MailsStay
<1>4. CASE ClientExpunge
  BY <1>4, ExpungeStep DEF ClientExpunge
<1>5. CASE ClientMove
  BY <1>5, MoveStep DEF ClientMove
<1>6. CASE ClientDequeue
  BY <1>6 DEF ClientDequeue, QueueDeleteDestinationForID, RefsInv,
     QueueRefsExist
<1> QED
  BY <1>1, <1>2, <1>3, <1>4, <1>5, <1>6 DEF ClientStep

\* Every queued delivery refers to a stored mail, also when a mail client
\* appends, marks, expunges and moves mails of Outbox in between: the rows of
\* a mail go with it and where it goes.
THEOREM OutboxQueueRefsExist == OutboxSpec => []QueueRefsExist
<1>1. Init => RefsInv
  <2>1. Init => mails = {} /\ queue = {} /\ 0 \in Nat
    BY DEF Init
  <2> QED
    BY <2>1 DEF RefsInv, QueueRefsExist, IsMailTable, Bounded, UniqueKeys
<1>2. RefsInv /\ [OutboxNext]_vars => RefsInv'
  BY SenderRefs, ClientRefs DEF OutboxNext
<1>3. RefsInv => QueueRefsExist
  BY DEF RefsInv
<1> QED
  BY <1>1, <1>2, <1>3, PTL DEF OutboxSpec

-----------------------------------------------------------------------------
(***************************************************************************)
(* Types.                                                                  *)
(***************************************************************************)

\* Only a crash touches the client.
LEMMA ClientFrame ==
  ASSUME [Next]_vars
  PROVE  client' = client \/ ClientDone
  BY DEF Next, vars, SubStep, RunStep, ManagerStep, Submit, SubCreate,
         SubUnparsable, SubSelf, SubInsert, SubRefused, SubKick, SubQueued,
         SubError, SubSkip, RunList, RunSelect, RunSelectNoRows, RunPurge,
         RunSend, RunSendFails, RunUnqueue, RunPending, RunMark, RunClose,
         RunCloseFails, RunExpunge, RunStop, RunError, RunSkip, ManagerFires,
         ManagerKicks, ManagerRearms, ManagerError, Crash

\* A client that sends a command keeps its type.
LEMMA ClientSends ==
  ASSUME client \in ClientType, NEW kind, NEW pc \in {"idle", "write", "dequeue"},
         NEW id \in Nat, NEW flags \in SUBSET Flag, Client(kind, pc, id, flags)
  PROVE  client' \in ClientType
  BY DEF Client, ClientType

\* No command of the client breaks the types of the tables and of its state.
LEMMA ClientTypes ==
  ASSUME OutboxTypeOK, IdsBounded, ClientStep
  PROVE  OutboxTypeOK' /\ IdsBounded'
<1> DEFINE Boxes == {"INBOX", "Outbox"}
<1>1. /\ mails \subseteq MailRow(Boxes) /\ queue \subseteq QueueRow(Boxes)
      /\ sub \in [Mails -> SubType] /\ client \in ClientType /\ Types(Boxes)
  BY DEF OutboxTypeOK, Types
<1>2. SUFFICES /\ mails' \subseteq MailRow(Boxes)
               /\ queue' \subseteq QueueRow(Boxes)
               /\ sub' \in [Mails -> SubType] /\ client' \in ClientType
               /\ UNCHANGED <<running, run, manager, delivered, faults>>
               /\ IdsBounded'
  BY DEF OutboxTypeOK, Types
<1>3. PICK n \in Nat : \A r \in mails : r.id <= n
  BY DEF IdsBounded
<1>4. CASE ClientAppend
  <2>1. PICK m \in Mails : /\ sub[m].pc = "idle" /\ SubFails(m)
                           /\ mails' = MailCreate(mails, "Outbox", m)
    BY <1>4 DEF ClientAppend
  <2> DEFINE id == MailNextID(mails, "Outbox")
  <2>2. id \in Nat \ {0}
    BY <1>1, NextID
  <2>3. mails' = mails \cup {[mailbox |-> "Outbox", id |-> id, mail |-> m,
                              flags |-> {}]}
    BY <2>1 DEF MailCreate
  <2> HIDE DEF id
  <2>4. mails' \subseteq MailRow(Boxes)
    BY <1>1, <2>2, <2>3 DEF MailRow
  <2>5. \A r \in mails' : r.id <= n + id
    BY <1>1, <1>3, <2>2, <2>3 DEF MailRow
  <2>6. IdsBounded'
    BY <2>2, <2>5 DEF IdsBounded
  <2>7. sub' \in [Mails -> SubType]
    BY <1>1, <2>1 DEF SubFails, SubType, SubPC
  <2>8. client' \in ClientType
    BY <1>1, <1>4, ClientSends DEF ClientAppend
  <2> QED
    BY <1>1, <1>4, <2>4, <2>6, <2>7, <2>8 DEF ClientAppend
<1>5. CASE ClientRead
  <2>1. PICK id \in IDs(mails, "Outbox"), flag \in ClientFlags :
          \E r \in MailSelect(mails, "Outbox", id) :
            Client("store", "write", id, r.flags \cup {flag})
    BY <1>5 DEF ClientRead
  <2>2. PICK r \in mails : r.id = id /\ Client("store", "write", id, r.flags \cup {flag})
    BY <2>1 DEF MailSelect
  <2>3. id \in Nat /\ r.flags \cup {flag} \in SUBSET Flag
    BY <1>1, <2>1, <2>2, OutboxAssumption DEF MailRow
  <2>4. client' \in ClientType
    BY <1>1, <2>2, <2>3, ClientSends
  <2> QED
    BY <1>1, <1>3, <1>5, <2>4 DEF ClientRead, IdsBounded
<1>6. CASE ClientWrite
  <2>1. \A x \in mails' : \E r \in mails :
          x = r \/ x = [r EXCEPT !.flags = client.flags]
    BY <1>6 DEF ClientWrite, MailUpdateFlags
  <2>2. client.flags \in SUBSET Flag
    BY <1>1 DEF ClientType
  <2>3. \A x \in mails' : x \in MailRow(Boxes) /\ \E r \in mails : x.id = r.id
    BY <1>1, <2>1, <2>2 DEF MailRow
  <2>4. client' \in ClientType
    BY <1>1, <1>6 DEF ClientWrite, ClientDone, ClientType
  <2> QED
    BY <1>1, <1>3, <1>6, <2>3, <2>4 DEF ClientWrite, IdsBounded
<1>7. CASE ClientExpunge
  <2>1. mails' \subseteq mails /\ queue' \subseteq queue
    BY <1>7 DEF ClientExpunge, MailExpunge, QueueCascade
  <2>2. client' \in ClientType
    BY <1>1, <1>7, ClientSends DEF ClientExpunge
  <2> QED
    BY <1>1, <1>3, <1>7, <2>1, <2>2 DEF ClientExpunge, IdsBounded
<1>8. CASE ClientMove
  <2>1. PICK id \in IDs(mails, "Outbox") :
          /\ mails' = MailMove(mails, "Outbox", id, "INBOX")
          /\ queue' = QueueMove(queue, "Outbox", id, "INBOX")
          /\ Client("move", "dequeue", id, {})
    BY <1>8 DEF ClientMove
  <2>2. \A x \in mails' : \E r \in mails :
          x = r \/ x = [r EXCEPT !.mailbox = "INBOX"]
    BY <2>1 DEF MailMove
  <2>3. \A x \in mails' : x \in MailRow(Boxes) /\ \E r \in mails : x.id = r.id
    BY <1>1, <2>2 DEF MailRow
  <2>4. \A x \in queue' : \E q \in queue :
          x = q \/ x = [q EXCEPT !.mailbox = "INBOX"]
    BY <2>1 DEF QueueMove
  <2>5. queue' \subseteq QueueRow(Boxes)
    BY <1>1, <2>4 DEF QueueRow
  <2>6. id \in Nat
    BY <1>1, <2>1 DEF IDs, MailRow
  <2>7. client' \in ClientType
    BY <1>1, <2>1, <2>6, ClientSends
  <2> QED
    BY <1>1, <1>3, <1>8, <2>3, <2>5, <2>7 DEF ClientMove, IdsBounded
<1>9. CASE ClientDequeue
  <2>1. client' \in ClientType
    BY <1>1, <1>9 DEF ClientDequeue, ClientDone, ClientType
  <2> QED
    BY <1>1, <1>3, <1>9, <2>1
    DEF ClientDequeue, QueueDeleteDestinationForID, IdsBounded
<1> QED
  BY <1>4, <1>5, <1>6, <1>7, <1>8, <1>9 DEF ClientStep

\* Neither the node nor a client that works on its rows breaks the types of
\* the tables and of the goroutines: also when mails and rows have gone to
\* INBOX, Queue.run sends only what MailSelect has returned.
THEOREM OutboxTypesHold == OutboxSpec => [](OutboxTypeOK /\ IdsBounded)
<1>1. Init => OutboxTypeOK /\ IdsBounded
  <2>1. Init => client \in ClientType
    BY DEF Init, ClientType
  <2> QED
    BY <2>1, InitType DEF OutboxTypeOK
<1>2. ASSUME OutboxTypeOK, IdsBounded, [Next]_vars
      PROVE  (OutboxTypeOK /\ IdsBounded)'
  <2>1. /\ Types({"INBOX", "Outbox"})' /\ IdsBounded'
    BY <1>2, TypesStep DEF OutboxTypeOK
  <2>2. client \in ClientType
    BY <1>2 DEF OutboxTypeOK
  <2>3. client' = client \/ ClientDone
    BY <1>2, ClientFrame
  <2>4. ASSUME ClientDone PROVE client' \in ClientType
    BY <2>2, <2>4 DEF ClientDone, ClientType
  <2> QED
    BY <2>1, <2>2, <2>3, <2>4 DEF OutboxTypeOK
<1>3. OutboxTypeOK /\ IdsBounded /\ [OutboxNext]_vars
        => (OutboxTypeOK /\ IdsBounded)'
  BY <1>2, ClientTypes DEF OutboxNext
<1> QED
  BY <1>1, <1>3, PTL DEF OutboxSpec

\* The client leaves Queue.running and the goroutines alone, so that the
\* flag still tells exactly whether the goroutine of the queue is alive.
THEOREM OutboxRunningFlag == OutboxSpec => []RunningFlag
<1>1. Init => RunningFlag
  BY RunningInit
<1>2. OutboxTypeOK /\ RunningFlag /\ [OutboxNext]_vars => RunningFlag'
  <2>1. ASSUME RunningFlag, ClientStep PROVE RunningFlag'
    BY <2>1 DEF ClientStep, ClientAppend, ClientRead, ClientWrite,
                ClientExpunge, ClientMove, ClientDequeue, RunningFlag
  <2> QED
    BY <2>1, RunningStep DEF OutboxTypeOK, OutboxNext
<1> QED
  BY <1>1, <1>2, OutboxTypesHold, PTL DEF OutboxSpec

=============================================================================
