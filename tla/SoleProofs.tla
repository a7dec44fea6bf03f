----------------------------- MODULE SoleProofs -----------------------------
(***************************************************************************)
(* What is true of Sender, under all faults, when no envelope names two    *)
(* recipients on other nodes.  SoleInv is shown to be inductive: first how *)
(* a step may change a submission, a table and a run, then one lemma per   *)
(* conjunct.                                                               *)
(***************************************************************************)
EXTENDS SenderProofs, FiniteSetTheorems

\* The invariants a step starts from.
Inv == TypeOK /\ IdsBounded /\ RunningFlag /\ SoleInv

-----------------------------------------------------------------------------

\* No mail has two addressees.
LEMMA AddresseesSole ==
  ASSUME SoleRecipients, TypeOK, EnvelopeInv,
         NEW m \in Mails, ~Fresh(m),
         NEW d \in Addressees(m), NEW e \in Addressees(m)
  PROVE  d = e
<1>1. sub[m].to \in RcptLists
  BY DEF EnvelopeInv, Fresh
<1>2. PICK j \in 1..Len(sub[m].to) : HostOf[sub[m].to[j]] = d
  BY DEF Addressees
<1>3. PICK k \in 1..Len(sub[m].to) : HostOf[sub[m].to[k]] = e
  BY DEF Addressees
<1>4. d \in Hosts /\ e \in Hosts
  BY DEF Addressees
<1>5. j = k
  BY <1>1, <1>2, <1>3, <1>4 DEF SoleRecipients
<1> QED
  BY <1>2, <1>3, <1>5

\* How a step changes the submissions.
LEMMA SubFrame ==
  ASSUME TypeOK, [Next]_vars, NEW m \in Mails
  PROVE  \/ sub'[m] = sub[m]
         \/ Submit(m) \/ SubCreate(m) \/ SubUnparsable(m) \/ SubSelf(m)
         \/ SubInsert(m) \/ SubRefused(m) \/ SubKick(m) \/ SubQueued(m)
         \/ SubError(m) \/ SubSkip(m) \/ Crash
<1>1. sub \in [Mails -> SubType]
  BY DEF TypeOK, Types
<1>2. ASSUME NEW n \in Mails, n # m,
             \/ Submit(n) \/ SubCreate(n) \/ SubUnparsable(n) \/ SubSelf(n)
             \/ SubInsert(n) \/ SubRefused(n) \/ SubKick(n) \/ SubQueued(n)
             \/ SubError(n) \/ SubSkip(n)
      PROVE  sub'[m] = sub[m]
  BY <1>1, <1>2
  DEF Submit, SubCreate, SubUnparsable, SubSelf, SubInsert, SubRefused,
      SubKick, SubQueued, SubError, SubSkip, SubFails, NextRcpt
<1> QED
  BY <1>2
  DEF Next, vars, SubStep, RunStep, ManagerStep, RunList, RunSelect,
      RunSelectNoRows, RunPurge, RunSend, RunSendFails, RunUnqueue, RunPending,
      RunMark, RunClose, RunCloseFails, RunExpunge, RunStop, RunError, RunSkip,
      ManagerFires, ManagerKicks, ManagerRearms, ManagerError

\* Once its row is inserted, a mail keeps its envelope and its id, and no
\* second row is inserted for it.
LEMMA NotFreshStep ==
  ASSUME SoleRecipients, Inv, [Next]_vars, NEW m \in Mails, ~Fresh(m)
  PROVE  /\ ~Fresh(m)' /\ Addressees(m)' = Addressees(m)
         /\ sub'[m].pid = sub[m].pid
<1>1. sub[m] \in SubType /\ sub \in [Mails -> SubType]
  BY DEF Inv, TypeOK, Types
<1>2. sub[m].to \in RcptLists
  BY DEF Inv, SoleInv, EnvelopeInv, Fresh
<1>3. SUFFICES /\ ~Fresh(m)'
               /\ sub'[m].to = sub[m].to /\ sub'[m].pid = sub[m].pid
  BY DEF Addressees
<1>4. CASE sub'[m] = sub[m]
  BY <1>4 DEF Fresh
<1>5. CASE SubUnparsable(m) \/ SubRefused(m) \/ SubError(m)
  BY <1>1, <1>5 DEF SubUnparsable, SubRefused, SubError, SubFails, Fresh,
     SubType
<1>6. CASE SubInsert(m) \/ SubQueued(m)
  BY <1>1, <1>6 DEF SubInsert, SubQueued, Fresh, SubType
<1>7. CASE SubSelf(m)
  <2>1. /\ sub'[m].pc = "rcpt" /\ sub'[m].to = sub[m].to
        /\ sub'[m].i = sub[m].i + 1 /\ sub'[m].pid = sub[m].pid
        /\ sub[m].pc = "rcpt" /\ sub[m].i \in Nat
    BY <1>1, <1>7 DEF SubSelf, HasRcpt, NextRcpt, SubType
  <2>2. \A k \in sub[m].i + 1 .. Len(sub[m].to) : k \in sub[m].i .. Len(sub[m].to)
    BY <1>1, <2>1 DEF SubType
  <2> QED
    BY <2>1, <2>2 DEF Fresh
<1>8. CASE SubKick(m)
  <2>1. /\ sub'[m].pc = "rcpt" /\ sub'[m].to = sub[m].to
        /\ sub'[m].i = sub[m].i + 1 /\ sub'[m].pid = sub[m].pid
    BY <1>1, <1>8 DEF SubKick, NextRcpt
  <2>2. /\ sub[m].i \in 1..Len(sub[m].to)
        /\ HostOf[sub[m].to[sub[m].i]] \in Hosts
    BY <1>1, <1>8 DEF SubKick, SubType
  <2>3. ~ \E k \in sub[m].i + 1 .. Len(sub[m].to) : HostOf[sub[m].to[k]] \in Hosts
    <3>1. SUFFICES ASSUME NEW k \in sub[m].i + 1 .. Len(sub[m].to),
                          HostOf[sub[m].to[k]] \in Hosts
                   PROVE  FALSE
      OBVIOUS
    <3>2. sub[m].i \in Nat /\ k \in 1..Len(sub[m].to) /\ k # sub[m].i
      BY <1>1, <3>1 DEF SubType
    <3> QED
      BY <1>2, <2>2, <3>1, <3>2 DEF SoleRecipients
  <2> QED
    BY <2>1, <2>3 DEF Fresh
<1>9. CASE SubSkip(m)
  BY <1>1, <1>9 DEF SubSkip, HasRcpt, Fresh, SubType
<1>10. CASE Crash
  BY <1>1, <1>10 DEF Crash, Fresh, SubType
<1>11. CASE Submit(m) \/ SubCreate(m)
  BY <1>11 DEF Submit, SubCreate, Fresh
<1> QED
  BY <1>4, <1>5, <1>6, <1>7, <1>8, <1>9, <1>10, <1>11, SubFrame DEF Inv

\* Envelopes are what clients sent.
LEMMA EnvelopeStep ==
  ASSUME Inv, [Next]_vars
  PROVE  EnvelopeInv'
<1>1. SUFFICES ASSUME NEW m \in Mails, sub'[m].pc # "idle"
               PROVE  sub'[m].to \in RcptLists
  BY DEF EnvelopeInv
<1>2. /\ sub[m] \in SubType /\ sub \in [Mails -> SubType]
      /\ sub[m].pc # "idle" => sub[m].to \in RcptLists
  BY DEF Inv, TypeOK, Types, SoleInv, EnvelopeInv
<1>3. CASE Submit(m)
  BY <1>2, <1>3 DEF Submit
<1>4. CASE sub'[m] = sub[m] \/ Crash
  BY <1>1, <1>2, <1>4 DEF Crash, SubType
<1>5. CASE \/ SubCreate(m) \/ SubUnparsable(m) \/ SubSelf(m)
           \/ SubInsert(m) \/ SubRefused(m) \/ SubKick(m) \/ SubQueued(m)
           \/ SubError(m) \/ SubSkip(m)
  BY <1>2, <1>5
  DEF SubCreate, SubUnparsable, SubSelf, SubInsert, SubRefused, SubKick,
      SubQueued, SubError, SubSkip, SubFails, NextRcpt, HasRcpt, SubType
<1> QED
  BY <1>3, <1>4, <1>5, SubFrame DEF Inv

-----------------------------------------------------------------------------

\* What a mark does to the table of mails.
LEMMA MarkMails ==
  ASSUME TypeOK, NEW d \in Hosts, RunMark(d)
  PROVE  /\ \A r \in mails' : \E s \in mails :
              /\ r.id = s.id /\ r.mail = s.mail /\ s.flags \subseteq r.flags
              /\ r = IF s.id = run[d].ref.id
                     THEN [s EXCEPT !.flags = @ \cup {"Deleted"}] ELSE s
         /\ \A s \in mails : s.id # run[d].ref.id => s \in mails'
<1>1. mails \subseteq MailRow({"Outbox"})
  BY DEF TypeOK, Types
<1>2. mails' = {IF s.mailbox = "Outbox" /\ s.id = run[d].ref.id
                THEN [s EXCEPT !.flags = @ \cup {"Deleted"}]
                ELSE s : s \in mails}
  BY DEF RunMark, MailDelete
<1>3. \A s \in mails : s.mailbox = "Outbox"
  BY <1>1 DEF MailRow
<1>4. ASSUME NEW r \in mails'
      PROVE  \E s \in mails :
              /\ r.id = s.id /\ r.mail = s.mail /\ s.flags \subseteq r.flags
              /\ r = IF s.id = run[d].ref.id
                     THEN [s EXCEPT !.flags = @ \cup {"Deleted"}] ELSE s
  <2>1. PICK s \in mails : r = IF s.id = run[d].ref.id
                     THEN [s EXCEPT !.flags = @ \cup {"Deleted"}] ELSE s
    BY <1>2, <1>3
  <2> QED
    BY <1>1, <2>1 DEF MailRow
<1>5. \A s \in mails : s.id # run[d].ref.id => s \in mails'
  BY <1>2
<1> QED
  BY <1>4, <1>5

\* An unmarked mail stays where it is until its own id is marked.
LEMMA HoldsStep ==
  ASSUME TypeOK, [Next]_vars, NEW id, NEW m, Holds(id, m),
         \A d \in Hosts : RunMark(d) => run[d].ref.id # id
  PROVE  Holds(id, m)'
<1>1. PICK r \in mails : r.id = id /\ r.mail = m /\ "Deleted" \notin r.flags
  BY DEF Holds
<1>2. r \in mails'
  <2>1. CASE UNCHANGED <<mails, queue>>
    BY <2>1
  <2>2. ASSUME NEW n \in Mails, SubCreate(n) \/ SubInsert(n) PROVE r \in mails'
    BY <2>2 DEF SubCreate, SubInsert, MailCreate
  <2>3. ASSUME NEW d \in Hosts, RunPurge(d) \/ RunUnqueue(d) PROVE r \in mails'
    BY <2>3 DEF RunPurge, RunUnqueue
  <2>4. ASSUME NEW d \in Hosts, RunMark(d) PROVE r \in mails'
    BY <1>1, <2>4, MarkMails
  <2>5. ASSUME NEW d \in Hosts, RunExpunge(d) PROVE r \in mails'
    BY <1>1, <2>5 DEF RunExpunge, MailExpunge
  <2> QED
    BY <2>1, <2>2, <2>3, <2>4, <2>5, TablesFrame
<1> QED
  BY <1>1, <1>2 DEF Holds

\* A row of the queue leaves it only when its run unqueues it.
LEMMA RowStays ==
  ASSUME Inv, [Next]_vars, NEW q \in queue,
         ~(RunUnqueue(q.destination) /\ q.id = run[q.destination].ref.id)
  PROVE  q \in queue'
<1>1. q \in QueueRow({"Outbox"}) /\ q.destination \in Hosts
  BY DEF Inv, TypeOK, Types, QueueRow
<1>2. CASE UNCHANGED <<mails, queue>>
  BY <1>2
<1>3. ASSUME NEW n \in Mails, SubCreate(n) \/ SubInsert(n) PROVE q \in queue'
  BY <1>3 DEF SubCreate, SubInsert, QueueInsertDestinationForID
<1>4. ASSUME NEW d \in Hosts, RunPurge(d) PROVE q \in queue'
  BY <1>1, <1>4, SenderAssumption DEF RunPurge, QueueDeleteDestinationForID
<1>5. ASSUME NEW d \in Hosts, RunUnqueue(d) PROVE q \in queue'
  BY <1>1, <1>5 DEF RunUnqueue, QueueDeleteDestinationForID
<1>6. ASSUME NEW d \in Hosts, RunMark(d) PROVE q \in queue'
  BY <1>6 DEF RunMark
<1>7. ASSUME NEW d \in Hosts, RunExpunge(d) PROVE q \in queue'
  <2>1. PICK m \in Mails : Holds(q.id, m)
    BY DEF Inv, SoleInv, RowInv
  <2>2. PICK r \in mails : r.id = q.id /\ "Deleted" \notin r.flags
    BY <2>1 DEF Holds
  <2>3. r.mailbox = q.mailbox
    BY <1>1, <2>2 DEF Inv, TypeOK, Types, MailRow, QueueRow
  <2>4. r \in mails'
    BY <1>7, <2>2 DEF RunExpunge, MailExpunge
  <2> QED
    BY <1>7, <2>2, <2>3, <2>4 DEF RunExpunge, QueueCascade, MailSelect
<1> QED
  BY <1>2, <1>3, <1>4, <1>5, <1>6, <1>7, TablesFrame

\* A row is new only when a submission inserts it, and then the submission
\* is about the mail that has the id of the row.
LEMMA RowAppears ==
  ASSUME Inv, [Next]_vars, NEW q \in queue', q \notin queue
  PROVE  \E m \in Mails :
           /\ SubInsert(m) /\ Fresh(m) /\ ~Fresh(m)'
           /\ q = [destination |-> HostOf[Rcpt(m)], mailbox |-> "Outbox",
                   id |-> sub[m].pid, rcpt |-> Rcpt(m)]
           /\ q.destination \in Addressees(m)'
           /\ Addressees(m)' = Addressees(m)
           /\ Holds(q.id, m)
<1>1. PICK m \in Mails : SubInsert(m)
  <2>1. ASSUME NEW d \in Hosts,
               RunPurge(d) \/ RunUnqueue(d) \/ RunMark(d) \/ RunExpunge(d)
        PROVE  queue' \subseteq queue
    BY <2>1 DEF RunPurge, RunUnqueue, RunMark, RunExpunge, QueueCascade,
                QueueDeleteDestinationForID
  <2> QED
    BY <2>1, TablesFrame DEF SubCreate
<1>2. q = [destination |-> HostOf[Rcpt(m)], mailbox |-> "Outbox",
           id |-> sub[m].pid, rcpt |-> Rcpt(m)]
  BY <1>1 DEF SubInsert, QueueInsertDestinationForID
<1>3. sub[m] \in SubType /\ sub \in [Mails -> SubType]
  BY DEF Inv, TypeOK, Types
<1>4. sub[m].i \in sub[m].i .. Len(sub[m].to) /\ sub[m].i \in 1..Len(sub[m].to)
  BY <1>1, <1>3 DEF SubInsert, HasRcpt, SubType
<1>5. Fresh(m)
  BY <1>1, <1>4 DEF SubInsert, HasRcpt, Rcpt, Fresh
<1>6. ~Fresh(m)' /\ sub'[m].to = sub[m].to
  BY <1>1, <1>3 DEF SubInsert, Fresh, SubType
<1>7. Addressees(m)' = Addressees(m) /\ q.destination \in Addressees(m)
  BY <1>1, <1>2, <1>4, <1>6 DEF SubInsert, Addressees, Rcpt
<1>8. Holds(q.id, m)
  <2>1. PICK r \in mails : r.id = sub[m].pid
    BY <1>1 DEF SubInsert, QueueInsertAllowed, MailSelect
  <2>2. sub[m].pid # 0
    BY <2>1 DEF Inv, TypeOK, Types, MailRow
  <2> QED
    BY <1>1, <1>2, <1>5, <2>2 DEF Inv, SoleInv, FreshInv, SubInsert, HasRcpt
<1> QED
  BY <1>1, <1>2, <1>5, <1>6, <1>7, <1>8

-----------------------------------------------------------------------------

\* A submission keeps the id that MailCreate returned.
LEMMA PidStep ==
  ASSUME TypeOK, [Next]_vars, NEW m \in Mails, sub[m].pc \notin {"idle", "create"}
  PROVE  sub'[m].pc \notin {"idle", "create"} /\ sub'[m].pid = sub[m].pid
<1>1. sub[m] \in SubType /\ sub \in [Mails -> SubType]
  BY DEF TypeOK, Types
<1>2. CASE sub'[m] = sub[m]
  BY <1>2
<1>3. CASE Crash
  BY <1>1, <1>3 DEF Crash, SubType
<1>4. CASE \/ Submit(m) \/ SubCreate(m) \/ SubUnparsable(m) \/ SubSelf(m)
           \/ SubInsert(m) \/ SubRefused(m) \/ SubKick(m) \/ SubQueued(m)
           \/ SubError(m) \/ SubSkip(m)
  BY <1>1, <1>4
  DEF Submit, SubCreate, SubUnparsable, SubSelf, SubInsert, SubRefused,
      SubKick, SubQueued, SubError, SubSkip, SubFails, NextRcpt, SubType
<1> QED
  BY <1>2, <1>3, <1>4, SubFrame

\* The keys of the tables stay unique, and a mail keeps its submission's id.
LEMMA KeysStep ==
  ASSUME Inv, [Next]_vars
  PROVE  KeysInv'
<1> DEFINE Submitted(r) ==
             sub'[r.mail].pc \notin {"idle", "create"} /\ sub'[r.mail].pid = r.id
           OneMail == \A r, s \in mails' : r.id = s.id \/ r.mail = s.mail => r = s
           OneRow == \A p, q \in queue' :
                       p.destination = q.destination /\ p.id = q.id => p = q
           Owned == \A r \in mails' : Submitted(r)
<1>1. /\ TypeOK /\ KeysInv
      /\ mails \subseteq MailRow({"Outbox"}) /\ queue \subseteq QueueRow({"Outbox"})
      /\ \A r \in mails : r.mail \in Mails /\ r.id \in Nat
  BY DEF Inv, SoleInv, TypeOK, Types, MailRow
<1>2. \A r \in mails : Submitted(r)
  BY <1>1, PidStep DEF KeysInv
<1>3. CASE UNCHANGED <<mails, queue>>
  BY <1>1, <1>2, <1>3 DEF KeysInv
<1>4. ASSUME NEW m \in Mails, SubCreate(m) PROVE OneMail /\ OneRow /\ Owned
  <2> DEFINE id == MailNextID(mails, "Outbox")
             new == [mailbox |-> "Outbox", id |-> id, mail |-> m, flags |-> {}]
  <2>1. id \in Nat /\ \A r \in mails : r.id < id
    BY <1>1, NextID DEF Inv, TypeOK, MailRow
  <2>2. mails' = mails \cup {new} /\ queue' = queue
    BY <1>4 DEF SubCreate, MailCreate
  <2>3. \A r \in mails : r.mail # m /\ r.id # id
    BY <1>1, <1>4, <2>1 DEF SubCreate, KeysInv
  <2>4. Submitted(new)
    BY <1>1, <1>4 DEF SubCreate, TypeOK, Types
  <2> HIDE DEF id
  <2>5. new.id = id /\ new.mail = m
    OBVIOUS
  <2> HIDE DEF new, Submitted
  <2> QED
    BY <1>1, <1>2, <2>2, <2>3, <2>4, <2>5 DEF KeysInv
<1>5. ASSUME NEW m \in Mails, SubInsert(m) PROVE OneMail /\ OneRow /\ Owned
  <2> DEFINE new == [destination |-> HostOf[Rcpt(m)], mailbox |-> "Outbox",
                     id |-> sub[m].pid, rcpt |-> Rcpt(m)]
  <2>1. mails' = mails /\ queue' = queue \cup {new}
    BY <1>5 DEF SubInsert, QueueInsertDestinationForID
  <2>2. \A q \in queue : ~(q.destination = new.destination /\ q.id = new.id)
    BY <1>1, <1>5 DEF SubInsert, QueueInsertAllowed, QueueRow
  <2> HIDE DEF new
  <2> QED
    BY <1>1, <1>2, <2>1, <2>2 DEF KeysInv
<1>6. ASSUME NEW d \in Hosts, RunPurge(d) \/ RunUnqueue(d) \/ RunExpunge(d)
      PROVE  OneMail /\ OneRow /\ Owned
  <2>1. mails' \subseteq mails /\ queue' \subseteq queue
    BY <1>6 DEF RunPurge, RunUnqueue, RunExpunge, QueueDeleteDestinationForID,
                MailExpunge, QueueCascade
  <2> QED
    BY <1>1, <1>2, <2>1 DEF KeysInv
<1>7. ASSUME NEW d \in Hosts, RunMark(d) PROVE OneMail /\ OneRow /\ Owned
  <2>1. OneMail
    <3>1. SUFFICES ASSUME NEW r \in mails', NEW s \in mails',
                          r.id = s.id \/ r.mail = s.mail
                   PROVE  r = s
      OBVIOUS
    <3>2. PICK x \in mails : /\ r.id = x.id /\ r.mail = x.mail
              /\ r = IF x.id = run[d].ref.id
                     THEN [x EXCEPT !.flags = @ \cup {"Deleted"}] ELSE x
      BY <1>1, <1>7, MarkMails
    <3>3. PICK y \in mails : /\ s.id = y.id /\ s.mail = y.mail
              /\ s = IF y.id = run[d].ref.id
                     THEN [y EXCEPT !.flags = @ \cup {"Deleted"}] ELSE y
      BY <1>1, <1>7, MarkMails
    <3>4. x = y
      BY <1>1, <3>1, <3>2, <3>3 DEF KeysInv
    <3> QED
      BY <3>2, <3>3, <3>4
  <2>2. Owned
    BY <1>1, <1>2, <1>7, MarkMails
  <2>3. queue' = queue
    BY <1>7 DEF RunMark
  <2> QED
    BY <1>1, <2>1, <2>2, <2>3 DEF KeysInv
<1>8. OneMail /\ OneRow /\ Owned
  BY <1>1, <1>2, <1>3, <1>4, <1>5, <1>6, <1>7, TablesFrame DEF KeysInv
<1> QED
  BY <1>8 DEF KeysInv

\* A row that is inserted is for the mail of its own submission, and a row
\* that stays is still for an unmarked mail.
LEMMA RowStep ==
  ASSUME SoleRecipients, Inv, [Next]_vars
  PROVE  RowInv'
<1>1. SUFFICES ASSUME NEW q \in queue'
               PROVE  \E m \in Mails : /\ Holds(q.id, m)'
                                       /\ q.destination \in Addressees(m)'
                                       /\ ~Fresh(m)'
  BY DEF RowInv
<1>2. CASE q \in queue
  <2>1. PICK m \in Mails :
          Holds(q.id, m) /\ q.destination \in Addressees(m) /\ ~Fresh(m)
    BY <1>2 DEF Inv, SoleInv, RowInv
  <2>2. \A d \in Hosts : RunMark(d) => run[d].ref.id # q.id
    BY <1>2 DEF RunMark, Inv, SoleInv, RunInv, RunOK
  <2>3. Holds(q.id, m)'
    BY <2>1, <2>2, HoldsStep DEF Inv
  <2> QED
    BY <2>1, <2>3, NotFreshStep
<1>3. CASE q \notin queue
  <2>1. PICK m \in Mails :
          /\ SubInsert(m) /\ ~Fresh(m)' /\ Holds(q.id, m)
          /\ q.destination \in Addressees(m)'
    BY <1>1, <1>3, RowAppears
  <2>2. Holds(q.id, m)'
    BY <2>1 DEF SubInsert, Holds
  <2> QED
    BY <2>1, <2>2
<1> QED
  BY <1>2, <1>3

\* Two mails that are held under the same id are the same.
LEMMA HoldsOne ==
  ASSUME KeysInv, NEW id, NEW m, NEW n, Holds(id, m), Holds(id, n)
  PROVE  m = n
  BY DEF KeysInv, Holds

\* What a submission has stored is untouched until its row is inserted.
LEMMA FreshStep ==
  ASSUME SoleRecipients, Inv, [Next]_vars
  PROVE  FreshInv'
<1>1. SUFFICES ASSUME NEW m \in Mails, Fresh(m)'
               PROVE  /\ sub'[m].pc = "rcpt" =>
                            sub'[m].pid = 0 \/ Holds(sub[m].pid, m)'
                      /\ \A d \in Hosts : delivered'[m][d] = 0
  BY DEF FreshInv
<1>2. Fresh(m)
  BY <1>1, NotFreshStep
<1>3. /\ sub[m] \in SubType /\ sub \in [Mails -> SubType] /\ TypeOK /\ KeysInv
      /\ sub[m].pc = "rcpt" => sub[m].pid = 0 \/ Holds(sub[m].pid, m)
      /\ \A d \in Hosts : delivered[m][d] = 0
  BY <1>2 DEF Inv, TypeOK, Types, SoleInv, FreshInv
<1>4. \A d \in Hosts : run[d].pc \in MailPC => run[d].mail \in Mails \ {m}
  BY <1>2 DEF Inv, SoleInv, RunInv, RunOK, TypeOK, Types, RunType
<1>5. \A d \in Hosts : delivered'[m][d] = 0
  <2>1. ASSUME NEW e \in Hosts, RunClose(e), NEW d \in Hosts
        PROVE  delivered'[m][d] = 0
    <3>1. run[e].mail \in Mails \ {m}
      BY <1>4, <2>1 DEF RunClose, MailPC, RefPC
    <3> QED
      BY <1>3, <2>1, <3>1 DEF RunClose, TypeOK, Types
  <2> QED
    BY <1>3, <2>1, DeliveredFrame
<1>6. ASSUME Holds(sub[m].pid, m), sub'[m].pid = sub[m].pid
      PROVE  Holds(sub[m].pid, m)'
  <2>1. \A d \in Hosts : RunMark(d) => run[d].ref.id # sub[m].pid
    <3>1. SUFFICES ASSUME NEW d \in Hosts, RunMark(d), run[d].ref.id = sub[m].pid
                   PROVE  FALSE
      OBVIOUS
    <3>2. Holds(run[d].ref.id, run[d].mail)
      BY <3>1 DEF RunMark, Inv, SoleInv, RunInv, RunOK
    <3>3. run[d].mail = m
      BY <1>3, <1>6, <3>1, <3>2, HoldsOne
    <3> QED
      BY <1>4, <3>1, <3>3 DEF RunMark, MailPC, RefPC
  <2>2. \A id : id = sub[m].pid => Holds(id, m)'
    BY <1>3, <1>6, <2>1, HoldsStep
  <2>3. PICK id : id = sub[m].pid
    OBVIOUS
  <2>4. Holds(id, m)'
    BY <2>2, <2>3
  <2> QED
    BY <1>6, <2>3, <2>4 DEF Holds
<1>7. ASSUME sub'[m].pc = "rcpt"
      PROVE  sub'[m].pid = 0 \/ Holds(sub[m].pid, m)'
  <2>1. CASE sub'[m] = sub[m]
    BY <1>3, <1>6, <1>7, <2>1
  <2>2. CASE SubCreate(m)
    <3> DEFINE new == [mailbox |-> "Outbox", id |-> MailNextID(mails, "Outbox"),
                       mail |-> m, flags |-> {}]
    <3>1. new \in mails' /\ sub'[m].pid = new.id
      BY <1>3, <2>2 DEF SubCreate, MailCreate
    <3>2. new.mail = m /\ "Deleted" \notin new.flags
      OBVIOUS
    <3> HIDE DEF new
    <3> QED
      BY <3>1, <3>2 DEF Holds
  <2>3. CASE SubSelf(m)
    BY <1>3, <1>6, <2>3 DEF SubSelf, HasRcpt, NextRcpt
  <2>4. CASE SubSkip(m)
    BY <1>3, <1>7, <2>4 DEF SubSkip, SubType
  <2>5. CASE SubKick(m)
    BY <1>2, <2>5 DEF SubKick, Fresh
  <2>6. CASE Crash
    BY <1>3, <1>7, <2>6 DEF Crash, SubType
  <2>7. CASE \/ Submit(m) \/ SubUnparsable(m) \/ SubInsert(m) \/ SubRefused(m)
             \/ SubQueued(m) \/ SubError(m)
    BY <1>3, <1>7, <2>7
    DEF Submit, SubUnparsable, SubInsert, SubRefused, SubQueued, SubError,
        SubFails, SubType
  <2> QED
    BY <1>3, <2>1, <2>2, <2>3, <2>4, <2>5, <2>6, <2>7, SubFrame
<1> QED
  BY <1>5, <1>7

-----------------------------------------------------------------------------

\* The steps of the run of d.
RunAct(d) == RunStep(d) \/ RunError(d) \/ RunSkip(d)

\* How a step changes the runs.
LEMMA RunFrame ==
  ASSUME Inv, [Next]_vars, NEW d \in Hosts
  PROVE  \/ run'[d] = run[d]
         \/ /\ run[d].pc = "idle" /\ run'[d] = [run[d] EXCEPT !.pc = "list"]
            /\ UNCHANGED <<mails, queue>>
         \/ RunAct(d)
         \/ Crash
<1>1. /\ run \in [Hosts -> RunType({"Outbox"})] /\ running \in [Hosts -> BOOLEAN]
      /\ \A e \in Hosts : ~running[e] => run[e].pc = "idle"
  BY DEF Inv, TypeOK, Types, RunningFlag
<1>2. ASSUME NEW e \in Hosts, queueFor(e)
      PROVE  \/ run'[d] = run[d]
             \/ run[d].pc = "idle" /\ run'[d] = [run[d] EXCEPT !.pc = "list"]
  BY <1>1, <1>2 DEF queueFor
<1>3. CASE \E m \in Mails : SubKick(m)
  <2>1. PICK m \in Mails : SubKick(m)
    BY <1>3
  <2>2. HostOf[Rcpt(m)] \in Hosts
    BY <2>1 DEF SubKick, Rcpt, Inv, TypeOK, Types, SubType
  <2> QED
    BY <1>2, <2>1, <2>2 DEF SubKick
<1>4. CASE ManagerKicks
  BY <1>2, <1>4 DEF ManagerKicks, Inv, TypeOK, Types
<1>5. ASSUME NEW e \in Hosts, e # d, RunAct(e) PROVE run'[d] = run[d]
  BY <1>1, <1>5
  DEF RunAct, RunStep, RunList, RunSelect, RunSelectNoRows, RunPurge, RunSend,
      RunSendFails, RunUnqueue, RunPending, RunMark, RunClose, RunCloseFails,
      RunExpunge, RunStop, RunError, RunSkip, Goto, NextRef
<1> QED
  BY <1>3, <1>4, <1>5
  DEF Next, vars, RunAct, SubStep, ManagerStep, Submit, SubCreate,
      SubUnparsable, SubSelf, SubInsert, SubRefused, SubQueued, SubError,
      SubSkip, ManagerFires, ManagerRearms, ManagerError

\* What the other actors do leaves a run's knowledge true.
LEMMA RunUndisturbed ==
  ASSUME SoleRecipients, Inv, [Next]_vars, NEW d \in Hosts, run'[d] = run[d]
  PROVE  RunOK(d)'
<1>1. TypeOK /\ RunOK(d) /\ KeysInv /\ EnvelopeInv
  BY DEF Inv, SoleInv, RunInv
<1>2. run[d] \in RunType({"Outbox"}) /\ run \in [Hosts -> RunType({"Outbox"})]
  BY <1>1 DEF TypeOK, Types
<1>3. ASSUME NEW p \in queue, p.destination = d PROVE p \in queue'
  <2>1. ~RunUnqueue(d)
    BY <1>2 DEF RunUnqueue, Goto, RunType
  <2> QED
    BY <1>3, <2>1, RowStays
<1>4. \A p \in run[d].refs : p \in queue' /\ p.destination = d
  BY <1>1, <1>3 DEF RunOK
<1>5. ASSUME run[d].pc \in MailPC
      PROVE  d \in Addressees(run[d].mail)' /\ ~Fresh(run[d].mail)'
  <2>1. PICK m \in Mails : m = run[d].mail
    BY <1>2, <1>5 DEF RunType
  <2>2. d \in Addressees(m)' /\ ~Fresh(m)'
    BY <1>1, <1>5, <2>1, NotFreshStep DEF RunOK
  <2>3. m = run'[d].mail
    BY <2>1
  <2> QED
    BY <2>2, <2>3 DEF Addressees, Fresh
<1>6. ASSUME run[d].pc \in {"send", "unqueue", "pending", "mark"}
      PROVE  Holds(run[d].ref.id, run[d].mail)'
  <2>1. PICK m \in Mails : m = run[d].mail
    BY <1>2, <1>6 DEF RunType, MailPC, RefPC
  <2>2. PICK id : id = run[d].ref.id
    OBVIOUS
  <2>3. Holds(id, m) /\ d \in Addressees(m) /\ ~Fresh(m)
    BY <1>1, <1>6, <2>1, <2>2 DEF RunOK, MailPC, RefPC
  <2>4. ASSUME NEW e \in Hosts, RunMark(e), run[e].ref.id = id PROVE FALSE
    <3>1. Holds(id, run[e].mail) /\ e \in Addressees(run[e].mail)
      BY <2>4 DEF RunMark, Inv, SoleInv, RunInv, RunOK, MailPC, RefPC
    <3>2. run[e].mail = m
      BY <1>1, <2>3, <3>1, HoldsOne
    <3>3. e = d
      BY <1>1, <2>3, <3>1, <3>2, AddresseesSole
    <3> QED
      BY <1>2, <2>4, <3>3 DEF RunMark, Goto, RunType
  <2>5. Holds(id, m)'
    BY <1>1, <2>3, <2>4, HoldsStep
  <2>6. id = run'[d].ref.id /\ m = run'[d].mail
    BY <2>1, <2>2
  <2> QED
    BY <2>5, <2>6 DEF Holds
<1>7. ASSUME run[d].pc \in {"send", "unqueue"} PROVE run[d].ref \in queue'
  BY <1>1, <1>3, <1>7 DEF RunOK
<1>8. ASSUME run[d].pc = "mark", NEW q \in queue' PROVE q.id # run[d].ref.id
  <2>1. CASE q \in queue
    BY <1>1, <1>8, <2>1 DEF RunOK
  <2>2. CASE q \notin queue
    <3>1. PICK m \in Mails : Fresh(m) /\ Holds(q.id, m)
      BY <1>8, <2>2, RowAppears
    <3>2. Holds(run[d].ref.id, run[d].mail) /\ ~Fresh(run[d].mail)
      BY <1>1, <1>8 DEF RunOK, MailPC, RefPC
    <3> QED
      BY <1>1, <3>1, <3>2, HoldsOne
  <2> QED
    BY <2>1, <2>2
<1> QED
  BY <1>1, <1>4, <1>5, <1>6, <1>7, <1>8 DEF RunOK

\* A run that holds no mail relies only on its list of rows.
LEMMA RunNoMail ==
  ASSUME NEW d \in Hosts, run'[d].pc \in {"idle", "list", "loop", "stop"},
         run'[d].pc # "loop" => run'[d].refs = {},
         \A p \in run'[d].refs : p \in queue' /\ p.destination = d
  PROVE  RunOK(d)'
  BY DEF RunOK, MailPC, RefPC

\* Every step of a run itself establishes what its next step relies on.
LEMMA RunActOK ==
  ASSUME Inv, NEW d \in Hosts, RunAct(d)
  PROVE  RunOK(d)'
<1>1. TypeOK /\ RunOK(d) /\ KeysInv /\ RowInv
  BY DEF Inv, SoleInv, RunInv
<1>2. run[d] \in RunType({"Outbox"}) /\ run \in [Hosts -> RunType({"Outbox"})]
  BY <1>1 DEF TypeOK, Types
<1>3. \A p \in run[d].refs : p \in queue /\ p.destination = d
  BY <1>1 DEF RunOK
<1>4. CASE RunList(d)
  <2>1. run'[d].pc = "loop" /\ run'[d].refs = {q \in queue : q.destination = d}
    BY <1>2, <1>4 DEF RunList, QueueMailIDsForDestination
  <2> QED
    BY <1>4, <2>1, RunNoMail DEF RunList
<1>5. ASSUME NEW ref \in run[d].refs
      PROVE  \E m \in Mails : /\ Holds(ref.id, m) /\ d \in Addressees(m) /\ ~Fresh(m)
                              /\ \A r \in MailSelect(mails, "Outbox", ref.id) : r.mail = m
                              /\ MailSelect(mails, "Outbox", ref.id) # {}
  <2>1. PICK m \in Mails : Holds(ref.id, m) /\ d \in Addressees(m) /\ ~Fresh(m)
    BY <1>1, <1>3 DEF RowInv
  <2>2. PICK r \in mails : r.id = ref.id /\ r.mail = m
    BY <2>1 DEF Holds
  <2>3. r.mailbox = "Outbox"
    BY <1>1 DEF TypeOK, Types, MailRow
  <2> QED
    BY <1>1, <2>1, <2>2, <2>3 DEF MailSelect, KeysInv
<1>6. CASE RunSelect(d)
  <2>1. PICK ref \in run[d].refs : \E r \in MailSelect(mails, "Outbox", ref.id) :
          run' = [run EXCEPT ![d] = [pc |-> "send", refs |-> @.refs \ {ref},
                                     ref |-> ref, mail |-> r.mail]]
    BY <1>6 DEF RunSelect
  <2>2. PICK m \in Mails : /\ Holds(ref.id, m) /\ d \in Addressees(m) /\ ~Fresh(m)
                           /\ \A r \in MailSelect(mails, "Outbox", ref.id) : r.mail = m
    BY <1>5
  <2>3. run'[d] = [pc |-> "send", refs |-> run[d].refs \ {ref}, ref |-> ref, mail |-> m]
    BY <1>2, <2>1, <2>2
  <2>4. UNCHANGED <<mails, queue, sub>>
    BY <1>6 DEF RunSelect
  <2>5. /\ Holds(run'[d].ref.id, run'[d].mail) /\ d \in Addressees(run'[d].mail)
        /\ ~Fresh(run'[d].mail) /\ run'[d].pc = "send"
        /\ run'[d].ref \in queue /\ run'[d].ref.destination = d
    BY <1>3, <2>2, <2>3
  <2>6. /\ \A p \in run'[d].refs : p.id # run'[d].ref.id
        /\ \A p \in run'[d].refs : p \in queue /\ p.destination = d
    BY <1>1, <1>3, <2>3 DEF KeysInv
  <2> QED
    BY <2>4, <2>5, <2>6 DEF RunOK, MailPC, RefPC, Holds, Addressees, Fresh
<1>7. CASE RunSelectNoRows(d)
  BY <1>5, <1>7 DEF RunSelectNoRows
<1>8. CASE RunPurge(d)
  BY <1>1, <1>8 DEF RunPurge, RunOK
<1>9. CASE RunSend(d)
  <2>1. /\ run'[d] = [run[d] EXCEPT !.pc = "unqueue"]
        /\ UNCHANGED <<mails, queue, sub>> /\ run[d].pc = "send"
    BY <1>2, <1>9 DEF RunSend, Goto
  <2> QED
    BY <1>1, <1>2, <2>1 DEF RunOK, RunType, MailPC, RefPC, Holds, Addressees,
       Fresh
<1>10. ASSUME NextRef(d), queue' = queue PROVE RunOK(d)'
  <2>1. run'[d].pc = "loop" /\ run'[d].refs = run[d].refs
    BY <1>2, <1>10 DEF NextRef
  <2> QED
    BY <1>3, <1>10, <2>1, RunNoMail
<1>11. CASE RunSendFails(d) \/ RunClose(d) \/ RunCloseFails(d)
  BY <1>10, <1>11 DEF RunSendFails, RunClose, RunCloseFails
<1>12. CASE RunUnqueue(d)
  <2>1. /\ run'[d] = [run[d] EXCEPT !.pc = "pending"]
        /\ UNCHANGED <<mails, sub>> /\ run[d].pc = "unqueue"
    BY <1>2, <1>12 DEF RunUnqueue, Goto
  <2>2. \A p \in run[d].refs : p \in queue'
    BY <1>1, <1>3, <1>12 DEF RunUnqueue, QueueDeleteDestinationForID, RunOK
  <2> QED
    BY <1>1, <1>2, <2>1, <2>2
    DEF RunOK, RunType, MailPC, RefPC, Holds, Addressees, Fresh
<1>13. CASE RunPending(d)
  <2>1. UNCHANGED <<mails, queue, sub>> /\ run[d].pc = "pending"
    BY <1>13 DEF RunPending
  <2>2. CASE QueueSelectIsMessagePendingSend(queue, "Outbox", run[d].ref.id)
    <3>1. run'[d] = [run[d] EXCEPT !.pc = "close"]
      BY <1>2, <1>13, <2>2 DEF RunPending, Goto
    <3> QED
      BY <1>1, <1>2, <2>1, <3>1 DEF RunOK, RunType, MailPC, RefPC, Addressees,
         Fresh
  <2>3. CASE ~QueueSelectIsMessagePendingSend(queue, "Outbox", run[d].ref.id)
    <3>1. run'[d] = [run[d] EXCEPT !.pc = "mark"]
      BY <1>2, <1>13, <2>3 DEF RunPending, Goto
    <3>2. \A q \in queue : q.id # run[d].ref.id
      BY <1>1, <2>3 DEF QueueSelectIsMessagePendingSend, TypeOK, Types, QueueRow
    <3> QED
      BY <1>1, <1>2, <2>1, <3>1, <3>2
      DEF RunOK, RunType, MailPC, RefPC, Holds, Addressees, Fresh
  <2> QED
    BY <2>2, <2>3
<1>14. ASSUME run[d].pc \in MailPC, Goto(d, "close"), UNCHANGED <<queue, sub>>
       PROVE  RunOK(d)'
  <2>1. run'[d] = [run[d] EXCEPT !.pc = "close"]
    BY <1>2, <1>14 DEF Goto
  <2> QED
    BY <1>1, <1>2, <1>14, <2>1 DEF RunOK, RunType, MailPC, RefPC, Addressees,
       Fresh
<1>15. CASE RunMark(d)
  BY <1>14, <1>15 DEF RunMark, MailPC, RefPC
<1>16. ASSUME run[d].pc = "loop", run[d].refs = {}, Goto(d, "stop")
       PROVE  RunOK(d)'
  <2>1. run'[d].pc = "stop" /\ run'[d].refs = {}
    BY <1>2, <1>16 DEF Goto, RunType
  <2> QED
    BY <2>1, RunNoMail
<1>17. CASE RunExpunge(d)
  BY <1>16, <1>17 DEF RunExpunge
<1>18. CASE RunStop(d)
  <2>1. run'[d].pc = "idle" /\ run'[d].refs = {}
    BY <1>1, <1>2, <1>18 DEF RunStop, Goto, RunType, RunOK
  <2> QED
    BY <2>1, RunNoMail
<1>19. CASE RunError(d)
  <2>1. UNCHANGED <<mails, queue, sub>>
    BY <1>19 DEF RunError
  <2>2. CASE run[d].pc = "list" /\ Goto(d, "loop")
    <3>1. run'[d].pc = "loop" /\ run'[d].refs = {}
      BY <1>1, <1>2, <2>2 DEF Goto, RunType, RunOK
    <3> QED
      BY <3>1, RunNoMail
  <2>3. CASE \E ref \in run[d].refs :
               /\ IsNextRef(d, ref)
               /\ run' = [run EXCEPT ![d].refs = @ \ {ref}]
    <3>1. run'[d].pc = "loop" /\ run'[d].refs \subseteq run[d].refs
      BY <1>2, <2>3 DEF IsNextRef, RunType
    <3> QED
      BY <1>3, <2>1, <3>1, RunNoMail
  <2> QED
    BY <1>10, <1>14, <1>16, <1>19, <2>1, <2>2, <2>3 DEF RunError, MailPC, RefPC
<1>20. CASE RunSkip(d)
  <2>1. UNCHANGED <<mails, queue, sub>>
    BY <1>20 DEF RunSkip
  <2>2. CASE run[d].pc = "unqueue" /\ Goto(d, "pending")
    <3>1. run'[d] = [run[d] EXCEPT !.pc = "pending"]
      BY <1>2, <2>2 DEF Goto
    <3> QED
      BY <1>1, <1>2, <2>1, <2>2, <3>1
      DEF RunOK, RunType, MailPC, RefPC, Holds, Addressees, Fresh
  <2> QED
    BY <1>10, <1>14, <1>16, <1>20, <2>1, <2>2 DEF RunSkip, MailPC, RefPC
<1> QED
  BY <1>4, <1>6, <1>7, <1>8, <1>9, <1>11, <1>12, <1>13, <1>15, <1>17, <1>18,
     <1>19, <1>20
  DEF RunAct, RunStep

\* No step, of the run or of another actor, breaks what a run relies on.
LEMMA RunInvStep ==
  ASSUME SoleRecipients, Inv, [Next]_vars
  PROVE  RunInv'
<1>1. SUFFICES ASSUME NEW d \in Hosts PROVE RunOK(d)'
  BY DEF RunInv
<1>2. run[d] \in RunType({"Outbox"}) /\ RunOK(d)
  BY DEF Inv, TypeOK, Types, SoleInv, RunInv
<1>3. CASE /\ run[d].pc = "idle" /\ run'[d] = [run[d] EXCEPT !.pc = "list"]
  <2>1. run'[d].pc = "list" /\ run'[d].refs = {}
    BY <1>2, <1>3 DEF RunType, RunOK
  <2> QED
    BY <2>1, RunNoMail
<1>4. CASE Crash
  <2>1. run'[d].pc = "idle" /\ run'[d].refs = {}
    BY <1>4 DEF Crash, IdleRun
  <2> QED
    BY <2>1, RunNoMail
<1> QED
  BY <1>3, <1>4, RunFrame, RunUndisturbed, RunActOK

\* RunClose delivers to an addressee.
LEMMA AddresseesStep ==
  ASSUME SoleRecipients, Inv, [Next]_vars
  PROVE  OnlyAddressees'
<1>1. SUFFICES ASSUME NEW m \in Mails, NEW d \in Hosts, delivered'[m][d] > 0
               PROVE  d \in Addressees(m)'
  BY DEF OnlyAddressees
<1>2. d \in Addressees(m) /\ ~Fresh(m)
  <2>1. CASE delivered[m][d] > 0
    BY <2>1 DEF Inv, SoleInv, OnlyAddressees, FreshInv
  <2>2. CASE ~(delivered[m][d] > 0)
    <3>1. PICK e \in Hosts : RunClose(e)
      BY <1>1, <2>2, DeliveredFrame
    <3>2. run[e].mail \in Mails /\ run[e].pc \in MailPC
      BY <3>1 DEF RunClose, Inv, TypeOK, Types, RunType, MailPC, RefPC
    <3>3. m = run[e].mail /\ d = e
      BY <1>1, <2>2, <3>1, <3>2 DEF RunClose, Inv, TypeOK, Types
    <3> QED
      BY <3>2, <3>3 DEF Inv, SoleInv, RunInv, RunOK
  <2> QED
    BY <2>1, <2>2
<1> QED
  BY <1>2, NotFreshStep

-----------------------------------------------------------------------------

\* No step breaks the inductive invariant.
LEMMA SoleStep ==
  ASSUME SoleRecipients, Inv, [Next]_vars
  PROVE  Inv'
<1>1. SoleInv'
  BY KeysStep, EnvelopeStep, RowStep, FreshStep, RunInvStep, AddresseesStep
  DEF SoleInv
<1> QED
  BY <1>1, TypesStep, RunningStep DEF Inv, TypeOK

\* SoleInv is an invariant of the nodes whose clients write to one other
\* node at a time, under every fault.
THEOREM SoleInvariant ==
  ASSUME SoleRecipients
  PROVE  Spec => [](Inv /\ SoleInv)
<1>1. Init => SoleInv
  BY DEF Init, SoleInv, KeysInv, EnvelopeInv, RowInv, FreshInv, RunInv, RunOK,
         OnlyAddressees, IdleRun, MailPC, RefPC
<1>2. Init => Inv
  BY <1>1, InitType, RunningInit DEF Inv, TypeOK
<1>3. Inv /\ [Next]_vars => Inv'
  BY SoleStep
<1>4. Inv => SoleInv
  BY DEF Inv
<1> QED
  BY <1>2, <1>3, <1>4, PTL DEF Spec

\* No node receives a mail that was not addressed to it.
THEOREM SoleOnlyAddressees ==
  ASSUME SoleRecipients
  PROVE  Spec => []OnlyAddressees
<1>1. SoleInv => OnlyAddressees
  BY DEF SoleInv
<1> QED
  BY <1>1, SoleInvariant, PTL

\* No expunge takes a delivery with it.
THEOREM SoleMarkedIsUnqueued ==
  ASSUME SoleRecipients
  PROVE  Spec => []MarkedIsUnqueued
<1>1. SoleInv => MarkedIsUnqueued
  BY DEF SoleInv, RowInv, KeysInv, Holds, MarkedIsUnqueued,
         QueueSelectIsMessagePendingSend
<1> QED
  BY <1>1, SoleInvariant, PTL

\* A row leaves the queue only in the run of its destination, which has sent
\* the body of the mail the row stands for.
THEOREM SoleRowsLeave ==
  ASSUME SoleRecipients
  PROVE  Spec => RowsLeaveOnlyWhenSent
<1> DEFINE Leaves(q) ==
             /\ run[q.destination].pc = "unqueue"
             /\ run[q.destination].ref = q
             /\ MailSelect(mails, q.mailbox, q.id) # {}
             /\ \A r \in MailSelect(mails, q.mailbox, q.id) :
                  r.mail = run[q.destination].mail
<1>1. Inv /\ [Next]_vars => [\A q \in queue \ queue' : Leaves(q)]_vars
  <2>1. SUFFICES ASSUME Inv, [Next]_vars, NEW q \in queue, q \notin queue'
                 PROVE  Leaves(q)
    OBVIOUS
  <2> DEFINE d == q.destination
  <2>2. d \in Hosts /\ q.mailbox = "Outbox" /\ TypeOK /\ KeysInv
    BY <2>1 DEF Inv, TypeOK, Types, QueueRow, SoleInv
  <2>3. RunUnqueue(d) /\ q.id = run[d].ref.id
    BY <2>1, RowStays
  <2>4. /\ run[d].ref \in queue /\ run[d].ref.destination = d
        /\ Holds(run[d].ref.id, run[d].mail)
    BY <2>1, <2>2, <2>3 DEF RunUnqueue, Inv, SoleInv, RunInv, RunOK
  <2>5. run[d].ref = q
    BY <2>1, <2>2, <2>3, <2>4 DEF KeysInv
  <2>6. PICK r \in mails : r.id = q.id /\ r.mail = run[d].mail
    BY <2>4, <2>5 DEF Holds
  <2>7. r.mailbox = "Outbox"
    BY <2>2 DEF TypeOK, Types, MailRow
  <2>8. /\ MailSelect(mails, q.mailbox, q.id) # {}
        /\ \A s \in MailSelect(mails, q.mailbox, q.id) : s.mail = run[d].mail
    BY <2>2, <2>6, <2>7 DEF MailSelect, KeysInv
  <2> QED
    BY <2>3, <2>5, <2>8 DEF RunUnqueue
<1> QED
  BY <1>1, SoleInvariant, PTL DEF Spec, RowsLeaveOnlyWhenSent

-----------------------------------------------------------------------------
(***************************************************************************)
(* Duplicates: how often a mail can still reach a node.                    *)
(***************************************************************************)

\* Under Inv, the rows of a mail are those with its id.
LEMMA RowMeans ==
  Inv => \A m \in Mails : \A d \in Hosts :
           HasRow(m, d) <=> \E q \in queue : q.destination = d /\ Holds(q.id, m)
<1>1. SUFFICES ASSUME Inv, NEW m \in Mails, NEW d \in Hosts
               PROVE  HasRow(m, d)
                        <=> \E q \in queue : q.destination = d /\ Holds(q.id, m)
  OBVIOUS
<1>2. TypeOK /\ KeysInv /\ RowInv
  BY <1>1 DEF Inv, SoleInv
<1>3. ASSUME HasRow(m, d)
      PROVE  \E q \in queue : q.destination = d /\ Holds(q.id, m)
  <2>1. PICK q \in queue, r \in mails :
          r.id = q.id /\ r.mail = m /\ q.destination = d
    BY <1>3 DEF HasRow, MailSelect
  <2>2. PICK s \in mails : s.id = q.id /\ "Deleted" \notin s.flags
    BY <1>2 DEF RowInv, Holds
  <2> QED
    BY <1>2, <2>1, <2>2 DEF KeysInv, Holds
<1>4. ASSUME NEW q \in queue, q.destination = d, Holds(q.id, m)
      PROVE  HasRow(m, d)
  <2>1. PICK r \in mails : r.id = q.id /\ r.mail = m
    BY <1>4 DEF Holds
  <2>2. r.mailbox = q.mailbox
    BY <1>2 DEF TypeOK, Types, MailRow, QueueRow
  <2> QED
    BY <1>4, <2>1, <2>2 DEF HasRow, MailSelect
<1> QED
  BY <1>3, <1>4

\* The same in the next state.
LEMMA RowMeansNext ==
  Inv' => \A m \in Mails : \A d \in Hosts :
           HasRow(m, d)' <=> \E q \in queue' : q.destination = d /\ Holds(q.id, m)'
<1>1. (Inv => \A m \in Mails : \A d \in Hosts :
           HasRow(m, d) <=> \E q \in queue : q.destination = d /\ Holds(q.id, m))'
  BY RowMeans, PTL
<1> QED
  BY <1>1

\* A row of m for d, or one that its submission has still to insert.
Awaits(m, d) == Fresh(m) \/ HasRow(m, d)

\* A mail does not get a second row for a node.
LEMMA AwaitsStep ==
  ASSUME SoleRecipients, Inv, [Next]_vars,
         NEW m \in Mails, NEW d \in Hosts, Awaits(m, d)'
  PROVE  Awaits(m, d)
<1>1. Inv' /\ KeysInv /\ KeysInv' /\ TypeOK
  BY SoleStep DEF Inv, SoleInv
<1>2. CASE Fresh(m)'
  BY <1>2, NotFreshStep DEF Awaits
<1>3. CASE HasRow(m, d)'
  <2>1. PICK q \in queue' : q.destination = d /\ Holds(q.id, m)'
    BY <1>1, <1>3, RowMeansNext
  <2>2. CASE q \in queue
    <3>1. PICK n \in Mails : Holds(q.id, n)
      BY <2>2 DEF Inv, SoleInv, RowInv
    <3>2. \A e \in Hosts : RunMark(e) => run[e].ref.id # q.id
      BY <2>2 DEF RunMark, Inv, SoleInv, RunInv, RunOK
    <3>3. Holds(q.id, n)'
      BY <1>1, <3>1, <3>2, HoldsStep
    <3>4. n = m
      BY <1>1, <2>1, <3>3 DEF KeysInv, Holds
    <3> QED
      BY <2>1, <2>2, <3>1, <3>4, RowMeans DEF Awaits
  <2>3. CASE q \notin queue
    <3>1. PICK n \in Mails : SubInsert(n) /\ Fresh(n) /\ Holds(q.id, n)
      BY <2>3, RowAppears
    <3>2. Holds(q.id, n)'
      BY <3>1 DEF SubInsert, Holds
    <3>3. n = m
      BY <1>1, <2>1, <3>2 DEF KeysInv, Holds
    <3> QED
      BY <3>1, <3>3 DEF Awaits
  <2> QED
    BY <2>2, <2>3
<1> QED
  BY <1>2, <1>3 DEF Awaits

\* The run that removes the row of a mail removes the only one.
LEMMA UnqueueEnds ==
  ASSUME SoleRecipients, Inv, [Next]_vars, NEW d \in Hosts, RunUnqueue(d),
         NEW m \in Mails, m = run[d].mail
  PROVE  Awaits(m, d) /\ ~Awaits(m, d)'
<1>1. RunOK(d) /\ run[d].pc = "unqueue" /\ Inv' /\ KeysInv
  BY SoleStep DEF Inv, SoleInv, RunInv, RunUnqueue
<1>2. PICK id : id = run[d].ref.id
  OBVIOUS
<1>3. /\ Holds(id, m) /\ ~Fresh(m)
      /\ run[d].ref \in queue /\ run[d].ref.destination = d
  BY <1>1, <1>2 DEF RunOK, MailPC, RefPC
<1>4. Awaits(m, d)
  BY <1>2, <1>3, RowMeans DEF Awaits
<1>5. ASSUME HasRow(m, d)' PROVE FALSE
  <2>1. PICK q \in queue' : q.destination = d /\ Holds(q.id, m)'
    BY <1>1, <1>5, RowMeansNext
  <2>2. q \in queue /\ q.id # id
    BY <1>1, <1>2, <2>1
    DEF RunUnqueue, QueueDeleteDestinationForID, Inv, TypeOK, Types, QueueRow
  <2>3. Holds(q.id, m)
    BY <2>1 DEF RunUnqueue, Holds
  <2> QED
    BY <1>1, <1>3, <2>2, <2>3 DEF KeysInv, Holds
<1> QED
  BY <1>3, <1>4, <1>5, NotFreshStep DEF Awaits

\* A message waits for its final dot after its row was removed, or could
\* not be removed, or was skipped.
LEMMA UnackAppears ==
  ASSUME Inv, [Next]_vars, NEW m \in Mails, NEW d \in Hosts,
         ~Unacknowledged(m, d), Unacknowledged(m, d)'
  PROVE  \/ RunUnqueue(d) /\ run[d].mail = m
         \/ Fault("error") \/ Fault("skip")
<1>1. run[d] \in RunType({"Outbox"}) /\ run \in [Hosts -> RunType({"Outbox"})]
  BY DEF Inv, TypeOK, Types
<1>2. run'[d].mail = m /\ run'[d].pc \in {"pending", "mark", "close"}
  BY DEF Unacknowledged
<1>3. CASE run'[d] = run[d]
  BY <1>3 DEF Unacknowledged
<1>4. CASE run'[d] = [run[d] EXCEPT !.pc = "list"]
  BY <1>1, <1>2, <1>4 DEF RunType
<1>5. CASE Crash
  BY <1>2, <1>5 DEF Crash, IdleRun
<1>6. CASE RunError(d) \/ RunSkip(d)
  BY <1>6 DEF RunError, RunSkip
<1>7. CASE RunStep(d)
  <2>1. ASSUME NEW pc, Goto(d, pc)
        PROVE  run'[d].pc = pc /\ run'[d].mail = run[d].mail
    BY <1>1, <2>1 DEF Goto, RunType
  <2>2. CASE RunList(d) \/ RunSelect(d) \/ RunSelectNoRows(d)
    BY <1>1, <1>2, <2>2 DEF RunList, RunSelect, RunSelectNoRows
  <2>3. CASE RunPurge(d) \/ RunSendFails(d) \/ RunClose(d) \/ RunCloseFails(d)
    BY <1>1, <1>2, <2>3
    DEF RunPurge, RunSendFails, RunClose, RunCloseFails, NextRef
  <2>4. CASE RunSend(d) \/ RunExpunge(d) \/ RunStop(d)
    BY <1>2, <2>1, <2>4 DEF RunSend, RunExpunge, RunStop
  <2>5. CASE RunUnqueue(d)
    BY <1>2, <2>1, <2>5 DEF RunUnqueue
  <2>6. CASE RunPending(d)
    BY <1>2, <2>1, <2>6 DEF RunPending, Unacknowledged
  <2>7. CASE RunMark(d)
    BY <1>2, <2>1, <2>7 DEF RunMark, Unacknowledged
  <2> QED
    BY <1>7, <2>2, <2>3, <2>4, <2>5, <2>6, <2>7 DEF RunStep
<1> QED
  BY <1>3, <1>4, <1>5, <1>6, <1>7, RunFrame DEF RunAct

\* It waits until the dot is sent, or the process dies.
LEMMA UnackEnds ==
  ASSUME Inv, [Next]_vars, NEW m \in Mails, NEW d \in Hosts,
         Unacknowledged(m, d), ~Unacknowledged(m, d)'
  PROVE  run[d].mail = m /\ (RunClose(d) \/ RunCloseFails(d) \/ Crash)
<1>1. run[d] \in RunType({"Outbox"}) /\ run \in [Hosts -> RunType({"Outbox"})]
  BY DEF Inv, TypeOK, Types
<1>2. run[d].mail = m /\ run[d].pc \in {"pending", "mark", "close"}
  BY DEF Unacknowledged
<1>3. CASE run'[d] = run[d]
  BY <1>3 DEF Unacknowledged
<1>4. ASSUME NEW pc \in {"pending", "mark", "close"}, Goto(d, pc) PROVE FALSE
  BY <1>1, <1>2, <1>4 DEF Goto, RunType, Unacknowledged
<1>5. CASE RunError(d)
  BY <1>2, <1>4, <1>5 DEF RunError, IsNextRef
<1>6. CASE RunSkip(d)
  BY <1>2, <1>4, <1>6 DEF RunSkip
<1>7. CASE RunStep(d)
  <2>1. CASE RunPending(d) \/ RunMark(d)
    BY <1>4, <2>1 DEF RunPending, RunMark
  <2> QED
    BY <1>2, <1>7, <2>1
    DEF RunStep, RunList, RunSelect, RunSelectNoRows, RunPurge, RunSend,
        RunSendFails, RunUnqueue, RunExpunge, RunStop, IsNextRef
<1> QED
  BY <1>2, <1>3, <1>5, <1>6, <1>7, RunFrame DEF RunAct

\* What a step delivers.
LEMMA DeliveredStep ==
  ASSUME Inv, [Next]_vars, NEW m \in Mails, NEW d \in Hosts
  PROVE  \/ delivered'[m][d] = delivered[m][d]
         \/ /\ RunClose(d) /\ run[d].mail = m
            /\ delivered'[m][d] = delivered[m][d] + 1
<1>1. CASE delivered' = delivered
  BY <1>1
<1>2. ASSUME NEW e \in Hosts, RunClose(e)
      PROVE  \/ delivered'[m][d] = delivered[m][d]
             \/ /\ e = d /\ run[e].mail = m
                /\ delivered'[m][d] = delivered[m][d] + 1
  <2>1. delivered \in [Mails -> [Hosts -> Nat]]
    BY DEF Inv, TypeOK, Types
  <2>2. delivered' = [delivered EXCEPT ![run[e].mail][e] = @ + 1]
    BY <1>2 DEF RunClose
  <2> QED
    BY <2>1, <2>2
<1> QED
  BY <1>1, <1>2, DeliveredFrame

\* A fault is counted once, and no other is forgotten.
LEMMA FaultCounts ==
  ASSUME Inv
  PROVE  /\ \A kind \in Kinds : faults[kind] \in Nat
         /\ \A kind \in Kinds : Fault(kind) =>
              /\ faults'[kind] = faults[kind] + 1
              /\ \A other \in Kinds \ {kind} : faults'[other] = faults[other]
         /\ [Next]_vars => \A kind \in Kinds : faults'[kind] >= faults[kind]
<1>1. faults \in [Kinds -> Nat]
  BY DEF Inv, TypeOK, Types
<1>2. ASSUME NEW kind \in Kinds, Fault(kind)
      PROVE  /\ faults'[kind] = faults[kind] + 1
             /\ \A other \in Kinds \ {kind} : faults'[other] = faults[other]
  BY <1>1, <1>2 DEF Fault
<1>3. ASSUME [Next]_vars
      PROVE  faults' = faults \/ \E kind \in Kinds : Fault(kind)
  BY <1>3
  DEF Next, vars, SubStep, RunStep, ManagerStep, Submit, SubCreate,
      SubUnparsable, SubSelf, SubInsert, SubRefused, SubKick, SubQueued,
      SubError, SubSkip, RunList, RunSelect, RunSelectNoRows, RunPurge,
      RunSend, RunSendFails, RunUnqueue, RunPending, RunMark, RunClose,
      RunCloseFails, RunExpunge, RunStop, RunError, RunSkip, ManagerFires,
      ManagerKicks, ManagerRearms, ManagerError, Crash, Kinds
<1>4. ASSUME [Next]_vars, NEW kind \in Kinds
      PROVE  faults'[kind] >= faults[kind]
  <2>1. CASE faults' = faults
    BY <1>1, <2>1
  <2>2. ASSUME NEW other \in Kinds, Fault(other)
        PROVE  faults'[kind] = faults[kind] \/ faults'[kind] = faults[kind] + 1
    BY <1>2, <2>2
  <2> QED
    BY <1>1, <1>3, <1>4, <2>1, <2>2
<1> QED
  BY <1>1, <1>2, <1>4

Count(b) == IF b THEN 1 ELSE 0

\* The copies of m that d has, and those that it may still get: one for the
\* row, one for the message that waits for its final dot.
Copies(m, d) ==
  delivered[m][d] + Count(Awaits(m, d)) + Count(Unacknowledged(m, d))

CopiesInv ==
  \A m \in Mails : \A d \in Hosts :
    Copies(m, d) <= 1 + faults["error"] + faults["skip"]

\* Only an error or a skipped statement can add a copy.
LEMMA CopiesStep ==
  ASSUME SoleRecipients, Inv, CopiesInv, [Next]_vars
  PROVE  CopiesInv'
<1>1. SUFFICES ASSUME NEW m \in Mails, NEW d \in Hosts
               PROVE  Copies(m, d)' <= 1 + faults'["error"] + faults'["skip"]
  BY DEF CopiesInv
<1> DEFINE known == faults["error"] + faults["skip"]
           after == faults'["error"] + faults'["skip"]
<1>2. /\ delivered[m][d] \in Nat /\ delivered'[m][d] \in Nat
      /\ faults["error"] \in Nat /\ faults["skip"] \in Nat
      /\ faults'["error"] \in Nat /\ faults'["skip"] \in Nat
  BY SoleStep DEF Inv, TypeOK, Types, Kinds
<1>3. known <= after /\ (Fault("error") \/ Fault("skip") => after = known + 1)
  <2>1. "error" \in Kinds /\ "skip" \in Kinds /\ "error" # "skip"
    BY DEF Kinds
  <2> QED
    BY <1>2, <2>1, FaultCounts
<1>4. /\ Awaits(m, d)' => Awaits(m, d)
      /\ Unacknowledged(m, d)' /\ ~Unacknowledged(m, d)
           => \/ after = known + 1
              \/ Awaits(m, d) /\ ~Awaits(m, d)'
  <2>1. Awaits(m, d)' => Awaits(m, d)
    BY AwaitsStep
  <2>2. ASSUME Unacknowledged(m, d)', ~Unacknowledged(m, d)
        PROVE  after = known + 1 \/ (Awaits(m, d) /\ ~Awaits(m, d)')
    <3>1. CASE Fault("error") \/ Fault("skip")
      BY <1>3, <3>1
    <3>2. CASE RunUnqueue(d) /\ run[d].mail = m
      BY <3>2, UnqueueEnds
    <3> QED
      BY <2>2, <3>1, <3>2, UnackAppears
  <2> QED
    BY <2>1, <2>2
<1>5. \/ delivered'[m][d] = delivered[m][d]
      \/ /\ delivered'[m][d] = delivered[m][d] + 1
         /\ Unacknowledged(m, d) /\ ~Unacknowledged(m, d)'
  <2>1. ASSUME RunClose(d), run[d].mail = m
        PROVE  Unacknowledged(m, d) /\ ~Unacknowledged(m, d)'
    BY <2>1 DEF RunClose, NextRef, Unacknowledged, Inv, TypeOK, Types
  <2> QED
    BY <2>1, DeliveredStep
<1> DEFINE w == Count(Awaits(m, d))
           u == Count(Unacknowledged(m, d))
           ww == Count(Awaits(m, d)')
           uu == Count(Unacknowledged(m, d)')
<1>6. /\ w \in {0, 1} /\ u \in {0, 1} /\ ww \in {0, 1} /\ uu \in {0, 1}
      /\ ww <= w
      /\ uu = 1 /\ u = 0 => after = known + 1 \/ (w = 1 /\ ww = 0)
      /\ \/ delivered'[m][d] = delivered[m][d]
         \/ delivered'[m][d] = delivered[m][d] + 1 /\ u = 1 /\ uu = 0
  BY <1>4, <1>5 DEF Count
<1>7. /\ Copies(m, d) = delivered[m][d] + w + u
      /\ Copies(m, d)' = delivered'[m][d] + ww + uu
  BY DEF Copies
<1>8. delivered[m][d] + w + u <= 1 + known
  BY <1>2, <1>6, <1>7 DEF CopiesInv
<1> HIDE DEF w, u, ww, uu
<1> QED
  BY <1>2, <1>3, <1>6, <1>7, <1>8

\* A node receives a mail again only after a storage call failed or was
\* skipped, whatever crashes and refused messages there were.
THEOREM SoleDuplicatesNeedFaults ==
  ASSUME SoleRecipients
  PROVE  Spec => []DuplicatesNeedFaults
<1>1. Init => CopiesInv
  <2>1. SUFFICES ASSUME Init, NEW m \in Mails, NEW d \in Hosts
                 PROVE  Copies(m, d) <= 1 + faults["error"] + faults["skip"]
    BY DEF CopiesInv
  <2>2. /\ delivered[m][d] = 0 /\ faults["error"] = 0 /\ faults["skip"] = 0
        /\ run[d].pc = "idle"
    BY <2>1 DEF Init, NoFaults, Kinds, IdleRun
  <2> QED
    BY <2>2 DEF Copies, Count, Unacknowledged
<1>2. Inv /\ CopiesInv /\ [Next]_vars => CopiesInv'
  BY CopiesStep
<1>3. Inv /\ CopiesInv => DuplicatesNeedFaults
  <2>1. SUFFICES ASSUME Inv, CopiesInv, NEW m \in Mails, NEW d \in Hosts
                 PROVE  delivered[m][d] <= 1 + faults["error"] + faults["skip"]
    BY DEF DuplicatesNeedFaults
  <2>2. /\ delivered[m][d] \in Nat
        /\ faults["error"] \in Nat /\ faults["skip"] \in Nat
    BY <2>1 DEF Inv, TypeOK, Types, Kinds
  <2> QED
    BY <2>1, <2>2 DEF CopiesInv, Copies, Count
<1> QED
  BY <1>1, <1>2, <1>3, SoleInvariant, PTL DEF Spec

-----------------------------------------------------------------------------
(***************************************************************************)
(* Losses: which deliveries have come to nothing.                          *)
(***************************************************************************)

\* The submission of m has not failed and is done with d, and nothing is left
\* of the delivery: no row, no message that waits for its dot, no copy.
Bare(m, d) ==
  /\ sub[m].pc # "failed" /\ d \in Addressees(m)
  /\ ~Awaits(m, d) /\ ~Unacknowledged(m, d) /\ delivered[m][d] = 0

\* No mail whose row is inserted has two addressees in the next state.
LEMMA SoleNext ==
  ASSUME SoleRecipients, Inv', NEW m \in Mails, ~Fresh(m)',
         NEW d \in Addressees(m)', NEW e \in Addressees(m)'
  PROVE  d = e
<1>1. sub'[m].to \in RcptLists
  BY DEF Inv, SoleInv, EnvelopeInv, Fresh
<1>2. PICK j \in 1..Len(sub'[m].to) : HostOf[sub'[m].to[j]] = d
  BY DEF Addressees
<1>3. PICK k \in 1..Len(sub'[m].to) : HostOf[sub'[m].to[k]] = e
  BY DEF Addressees
<1>4. d \in Hosts /\ e \in Hosts
  BY DEF Addressees
<1> QED
  BY <1>1, <1>2, <1>3, <1>4 DEF SoleRecipients

\* A row is inserted as soon as its submission is done with the node, unless
\* the writer skips the statement.
LEMMA FreshEnds ==
  ASSUME SoleRecipients, Inv, [Next]_vars, NEW m \in Mails, NEW d \in Hosts,
         Fresh(m), ~Fresh(m)', d \in Addressees(m)', sub'[m].pc # "failed"
  PROVE  SubSkip(m) \/ HasRow(m, d)'
<1>1. /\ sub \in [Mails -> SubType] /\ sub[m] \in SubType /\ Inv' /\ EnvelopeInv'
  BY SoleStep DEF Inv, SoleInv, TypeOK, Types
<1>2. PICK j \in 1..Len(sub'[m].to) : HostOf[sub'[m].to[j]] = d
  BY DEF Addressees
<1>3. CASE sub'[m] = sub[m]
  BY <1>3 DEF Fresh
<1>4. CASE Submit(m)
  BY <1>1, <1>4 DEF Submit, Fresh
<1>5. CASE SubCreate(m)
  <2>1. sub'[m].pc = "rcpt" /\ sub'[m].i = 1
    BY <1>1, <1>5 DEF SubCreate
  <2>2. j \in sub'[m].i .. Len(sub'[m].to) /\ HostOf[sub'[m].to[j]] \in Hosts
    BY <1>2, <2>1
  <2> QED
    BY <2>1, <2>2 DEF Fresh
<1>6. CASE SubUnparsable(m) \/ SubRefused(m) \/ SubError(m)
  BY <1>1, <1>6 DEF SubUnparsable, SubRefused, SubError, SubFails, SubType
<1>7. CASE SubSelf(m)
  <2>1. /\ sub[m].pc = "rcpt" /\ sub[m].i \in Nat
        /\ HostOf[sub[m].to[sub[m].i]] \notin Hosts
        /\ sub'[m].pc = "rcpt" /\ sub'[m].to = sub[m].to
        /\ sub'[m].i = sub[m].i + 1
    BY <1>1, <1>7, SenderAssumption
    DEF SubSelf, HasRcpt, Rcpt, NextRcpt, SubType
  <2>2. PICK k \in sub[m].i .. Len(sub[m].to) : HostOf[sub[m].to[k]] \in Hosts
    BY <2>1 DEF Fresh
  <2>3. k \in sub[m].i + 1 .. Len(sub[m].to)
    BY <1>1, <2>1, <2>2 DEF SubType
  <2> QED
    BY <2>1, <2>2, <2>3 DEF Fresh
<1>8. CASE SubInsert(m)
  <2> DEFINE new == [destination |-> HostOf[Rcpt(m)], mailbox |-> "Outbox",
                     id |-> sub[m].pid, rcpt |-> Rcpt(m)]
  <2>0. /\ new.destination = HostOf[Rcpt(m)] /\ new.mailbox = "Outbox"
        /\ new.id = sub[m].pid
    OBVIOUS
  <2>1. new \in queue' /\ new \notin queue
    <3>1. queue' = queue \cup {new}
      BY <1>8 DEF SubInsert, QueueInsertDestinationForID
    <3>2. ~ \E q \in queue : /\ q.destination = HostOf[Rcpt(m)]
                            /\ q.mailbox = "Outbox" /\ q.id = sub[m].pid
      BY <1>8 DEF SubInsert, QueueInsertAllowed
    <3> HIDE DEF new
    <3> QED
      BY <2>0, <3>1, <3>2
  <2>2. PICK n \in Mails :
          /\ SubInsert(n) /\ new.destination \in Addressees(n)'
          /\ ~Fresh(n)' /\ Holds(new.id, n)
    BY <2>1, RowAppears
  <2>3. n = m
    BY <1>1, <1>8, <2>2 DEF SubInsert, HasRcpt, SubType
  <2>4. PICK id : id = new.id
    OBVIOUS
  <2>5. Holds(id, m)'
    BY <2>2, <2>3, <2>4 DEF SubInsert, Holds
  <2>6. d = new.destination
    BY <1>1, <2>2, <2>3, SoleNext
  <2> HIDE DEF new
  <2> QED
    BY <1>1, <2>1, <2>4, <2>5, <2>6, RowMeansNext
<1>9. CASE SubKick(m) \/ SubQueued(m)
  BY <1>1, <1>9 DEF SubKick, SubQueued, Fresh, SubType
<1>10. CASE SubSkip(m)
  BY <1>10
<1>11. CASE Crash
  BY <1>1, <1>11 DEF Crash, Fresh, SubType
<1> QED
  BY <1>3, <1>4, <1>5, <1>6, <1>7, <1>8, <1>9, <1>10, <1>11, SubFrame DEF Inv

\* Until its run has removed it, the row of a mail stays.
LEMMA HasRowEnds ==
  ASSUME SoleRecipients, Inv, [Next]_vars, NEW m \in Mails, NEW d \in Hosts,
         HasRow(m, d), ~HasRow(m, d)'
  PROVE  Unacknowledged(m, d)'
<1>1. Inv' /\ KeysInv /\ TypeOK
  BY SoleStep DEF Inv, SoleInv
<1>2. PICK q \in queue : q.destination = d /\ Holds(q.id, m)
  BY RowMeans
<1>3. PICK id : id = q.id
  OBVIOUS
<1>4. \A e \in Hosts : RunMark(e) => run[e].ref.id # id
  BY <1>2, <1>3 DEF RunMark, Inv, SoleInv, RunInv, RunOK
<1>5. Holds(id, m)'
  BY <1>1, <1>2, <1>3, <1>4, HoldsStep
<1>6. q \notin queue'
  BY <1>1, <1>2, <1>3, <1>5, RowMeansNext
<1>7. RunUnqueue(d) /\ id = run[d].ref.id
  BY <1>2, <1>3, <1>6, RowStays
<1>8. run[d].pc = "unqueue" /\ Holds(run[d].ref.id, run[d].mail)
  BY <1>7 DEF RunUnqueue, Inv, SoleInv, RunInv, RunOK
<1>9. run[d].mail = m
  BY <1>1, <1>2, <1>3, <1>7, <1>8, HoldsOne
<1>10. run'[d] = [run[d] EXCEPT !.pc = "pending"]
  BY <1>1, <1>7 DEF RunUnqueue, Goto, TypeOK, Types
<1> QED
  BY <1>1, <1>9, <1>10 DEF Unacknowledged, TypeOK, Types, RunType

\* The steps after which nothing is left of a delivery that was not made.
LEMMA BareAppears ==
  ASSUME SoleRecipients, Inv, [Next]_vars, NEW m \in Mails, NEW d \in Hosts,
         ~Bare(m, d), Bare(m, d)'
  PROVE  \/ run[d].mail = m /\ RunCloseFails(d)
         \/ run[d].mail = m /\ Crash
         \/ SubSkip(m) /\ ~Fresh(m)' /\ d \in Addressees(m)'
<1>1. /\ sub'[m].pc # "failed" /\ d \in Addressees(m)' /\ ~Fresh(m)'
      /\ ~HasRow(m, d)' /\ ~Unacknowledged(m, d)' /\ delivered'[m][d] = 0
  BY DEF Bare, Awaits
<1>2. delivered[m][d] = 0 /\ delivered[m][d] \in Nat
  BY <1>1, DeliveredStep DEF Inv, TypeOK, Types
<1>3. sub[m].pc # "failed"
  <2>1. sub[m] \in SubType
    BY DEF Inv, TypeOK, Types
  <2>2. ASSUME sub[m].pc = "failed" PROVE sub'[m] = sub[m] \/ sub'[m].pc = "failed"
    BY <2>1, <2>2, SubFrame
    DEF Inv, Submit, SubCreate, SubUnparsable, SubSelf, SubInsert, SubRefused,
        SubKick, SubQueued, SubError, SubSkip, HasRcpt, Crash
  <2> QED
    BY <1>1, <2>2
<1>4. CASE Fresh(m)
  BY <1>1, <1>4, FreshEnds
<1>5. CASE ~Fresh(m)
  <2>1. d \in Addressees(m)
    BY <1>1, <1>5, NotFreshStep
  <2>2. ~HasRow(m, d)
    BY <1>1, HasRowEnds
  <2>3. Unacknowledged(m, d)
    BY <1>2, <1>3, <1>5, <2>1, <2>2 DEF Bare, Awaits
  <2>4. run[d].mail = m /\ (RunClose(d) \/ RunCloseFails(d) \/ Crash)
    BY <1>1, <2>3, UnackEnds
  <2>5. ~RunClose(d)
    BY <1>1, <1>2, <2>4 DEF RunClose, Inv, TypeOK, Types
  <2> QED
    BY <2>4, <2>5
<1> QED
  BY <1>4, <1>5

\* A set has at most one element for every node.
LEMMA OnePerHost ==
  ASSUME IsFiniteSet(Hosts), NEW f \in [Hosts -> Mails \cup {None}]
  PROVE  LET T == {<<f[d], d>> : d \in Hosts}
         IN  IsFiniteSet(T) /\ Cardinality(T) <= Cardinality(Hosts)
<1> DEFINE T == {<<f[d], d>> : d \in Hosts}
           g == [d \in Hosts |-> <<f[d], d>>]
<1>1. g \in Surjection(Hosts, T)
  BY DEF Surjection
<1> HIDE DEF T, g
<1>2. IsFiniteSet(T) /\ Cardinality(T) <= Cardinality(Hosts)
  BY <1>1, FS_Surjection
<1> QED
  BY <1>2 DEF T

\* Facts about products that the provers need to be told.
LEMMA TimesGrows ==
  ASSUME NEW n \in Nat, NEW a \in Nat, NEW b \in Nat, b >= a
  PROVE  /\ n * a \in Nat /\ n * b \in Nat /\ n * a <= n * b
         /\ n * (a + 1) = n * a + n
<1>1. n * b - n * a = n * (b - a) /\ n * (b - a) \in Nat
  OBVIOUS
<1> QED
  BY <1>1

\* The deliveries of which nothing is left ...
BareSet == {p \in Mails \X Hosts : Bare(p[1], p[2])}

\* ... and the faults that account for them.
Accounted ==
  faults["close"] + faults["skip"] + Cardinality(Hosts) * faults["crash"]

BareInv == IsFiniteSet(BareSet) /\ Cardinality(BareSet) <= Accounted

\* The deliveries of which nothing is left are counted by the faults.
LEMMA BareStep ==
  ASSUME SoleRecipients, IsFiniteSet(Hosts), Inv, BareInv, [Next]_vars
  PROVE  BareInv'
<1> DEFINE n == Cardinality(Hosts)
           close == faults["close"]
           skip == faults["skip"]
           crash == faults["crash"]
<1>1. n \in Nat
  BY FS_CardinalityType
<1>2. /\ close \in Nat /\ skip \in Nat /\ crash \in Nat
      /\ close' \in Nat /\ skip' \in Nat /\ crash' \in Nat
  BY SoleStep DEF Inv, TypeOK, Types, Kinds
<1>3. /\ close' >= close /\ skip' >= skip /\ crash' >= crash
      /\ Fault("close") => close' = close + 1 /\ skip' = skip /\ crash' = crash
      /\ Fault("skip") => close' = close /\ skip' = skip + 1 /\ crash' = crash
      /\ Fault("crash") => close' = close /\ skip' = skip /\ crash' = crash + 1
  <2>1. {"close", "skip", "crash"} \subseteq Kinds
    BY DEF Kinds
  <2> QED
    BY <2>1, FaultCounts
<1>4. /\ IsFiniteSet(BareSet) /\ Cardinality(BareSet) \in Nat
      /\ Cardinality(BareSet) <= close + skip + n * crash
  BY FS_CardinalityType DEF BareInv, Accounted
<1>5. SUFFICES /\ IsFiniteSet(BareSet')
               /\ Cardinality(BareSet') <= close' + skip' + n * crash'
  BY DEF BareInv, Accounted
<1> HIDE DEF n, close, skip, crash
<1>6. n * crash <= n * crash' /\ n * (crash + 1) = n * crash + n
      /\ n * crash \in Nat /\ n * crash' \in Nat
  BY <1>1, <1>2, <1>3, TimesGrows
<1>7. ASSUME NEW p, BareSet' \subseteq BareSet \cup {p}
      PROVE  /\ IsFiniteSet(BareSet')
             /\ Cardinality(BareSet') <= close + skip + n * crash + 1
             /\ Cardinality(BareSet') \in Nat
  <2>0. /\ IsFiniteSet(BareSet \cup {p})
        /\ Cardinality(BareSet \cup {p})
             = IF p \in BareSet THEN Cardinality(BareSet)
                                ELSE Cardinality(BareSet) + 1
    BY <1>4, FS_AddElement
  <2>1. /\ IsFiniteSet(BareSet \cup {p})
        /\ Cardinality(BareSet \cup {p}) <= Cardinality(BareSet) + 1
        /\ Cardinality(BareSet \cup {p}) \in Nat
    BY <1>4, <2>0
  <2>2. /\ IsFiniteSet(BareSet') /\ Cardinality(BareSet') \in Nat
        /\ Cardinality(BareSet') <= Cardinality(BareSet \cup {p})
    BY <1>7, <2>1, FS_Subset, FS_CardinalityType
  <2> QED
    BY <1>1, <1>2, <1>4, <1>6, <2>1, <2>2
<1>8. CASE BareSet' \subseteq BareSet
  <2>1. IsFiniteSet(BareSet') /\ Cardinality(BareSet') <= Cardinality(BareSet)
    BY <1>4, <1>8, FS_Subset
  <2>2. Cardinality(BareSet') \in Nat
    BY <2>1, FS_CardinalityType
  <2> QED
    BY <1>1, <1>2, <1>3, <1>4, <1>6, <2>1, <2>2
<1>9. CASE ~(BareSet' \subseteq BareSet)
  <2>1. PICK m \in Mails, d \in Hosts : Bare(m, d)' /\ ~Bare(m, d)
    BY <1>9 DEF BareSet
  <2>2. CASE run[d].mail = m /\ RunCloseFails(d)
    <3>1. Fault("close")
      BY <2>2 DEF RunCloseFails
    <3>2. ASSUME NEW k \in Mails, NEW e \in Hosts, Bare(k, e)', ~Bare(k, e)
          PROVE  k = m /\ e = d
      <4>1. ~Fault("skip") /\ ~Fault("crash")
        BY <1>2, <1>3, <3>1
      <4>2. run[e].mail = k /\ RunCloseFails(e)
        BY <3>2, <4>1, BareAppears DEF Crash, SubSkip
      <4>3. e = d
        BY <2>2, <4>2 DEF RunCloseFails, NextRef, Inv, TypeOK, Types
      <4> QED
        BY <2>2, <4>2, <4>3
    <3>3. BareSet' \subseteq BareSet \cup {<<m, d>>}
      BY <3>2 DEF BareSet
    <3> QED
      BY <1>1, <1>2, <1>3, <1>6, <1>7, <3>1, <3>3
  <2>3. CASE SubSkip(m) /\ ~Fresh(m)' /\ d \in Addressees(m)'
    <3>1. Fault("skip")
      BY <2>3 DEF SubSkip
    <3>2. ASSUME NEW k \in Mails, NEW e \in Hosts, Bare(k, e)', ~Bare(k, e)
          PROVE  k = m /\ e = d
      <4>1. ~Fault("close") /\ ~Fault("crash")
        BY <1>2, <1>3, <3>1
      <4>2. SubSkip(k) /\ e \in Addressees(k)'
        BY <3>2, <4>1, BareAppears DEF Crash, RunCloseFails
      <4>3. k = m
        BY <2>3, <4>2 DEF SubSkip, HasRcpt, Inv, TypeOK, Types, SubType
      <4> QED
        BY <2>3, <4>2, <4>3, SoleNext, SoleStep
    <3>3. BareSet' \subseteq BareSet \cup {<<m, d>>}
      BY <3>2 DEF BareSet
    <3> QED
      BY <1>1, <1>2, <1>3, <1>6, <1>7, <3>1, <3>3
  <2>4. CASE Crash
    <3>1. Fault("crash")
      BY <2>4 DEF Crash
    <3> DEFINE f == [e \in Hosts |-> run[e].mail]
               T == {<<f[e], e>> : e \in Hosts}
    <3>2. f \in [Hosts -> Mails \cup {None}]
      BY DEF Inv, TypeOK, Types, RunType
    <3>3. IsFiniteSet(T) /\ Cardinality(T) <= n
      BY <3>2, OnePerHost DEF n
    <3>4. ASSUME NEW k \in Mails, NEW e \in Hosts, Bare(k, e)', ~Bare(k, e)
          PROVE  <<k, e>> \in T
      <4>1. ~Fault("close") /\ ~Fault("skip")
        BY <1>2, <1>3, <3>1
      <4>2. run[e].mail = k
        BY <3>4, <4>1, BareAppears DEF RunCloseFails, SubSkip
      <4> QED
        BY <4>2
    <3> HIDE DEF T
    <3>5. BareSet' \subseteq BareSet \cup T
      BY <3>4 DEF BareSet
    <3>6. /\ IsFiniteSet(BareSet \cup T)
          /\ Cardinality(BareSet \cup T) <= Cardinality(BareSet) + n
          /\ Cardinality(BareSet \cup T) \in Nat
      <4>1. /\ Cardinality(T) \in Nat /\ Cardinality(BareSet \cap T) \in Nat
        BY <1>4, <3>3, FS_CardinalityType, FS_Intersection
      <4>2. /\ IsFiniteSet(BareSet \cup T)
            /\ Cardinality(BareSet \cup T)
                 = Cardinality(BareSet) + Cardinality(T)
                     - Cardinality(BareSet \cap T)
        BY <1>4, <3>3, FS_Union
      <4>3. Cardinality(BareSet \cup T) \in Nat
        BY <4>2, FS_CardinalityType
      <4> QED
        BY <1>1, <1>4, <3>3, <4>1, <4>2, <4>3
    <3>7. /\ IsFiniteSet(BareSet')
          /\ Cardinality(BareSet') <= Cardinality(BareSet \cup T)
      BY <3>5, <3>6, FS_Subset
    <3>8. Cardinality(BareSet') \in Nat
      BY <3>7, FS_CardinalityType
    <3> QED
      BY <1>1, <1>2, <1>3, <1>4, <1>6, <3>1, <3>6, <3>7, <3>8
  <2> QED
    BY <2>1, <2>2, <2>3, <2>4, BareAppears
<1> QED
  BY <1>8, <1>9

\* Every delivery that is lost is accounted for by a message that was not
\* acknowledged, a statement that was skipped, or a crash, which takes at
\* most one message of each run with it.
THEOREM SoleLossesNeedFaults ==
  ASSUME SoleRecipients, IsFiniteSet(Hosts)
  PROVE  Spec => []LossesNeedFaults
<1>1. Init => BareInv
  <2>1. SUFFICES ASSUME Init PROVE BareInv
    OBVIOUS
  <2>2. \A m \in Mails : Fresh(m)
    BY <2>1 DEF Init, Fresh
  <2>3. BareSet = {}
    BY <2>2 DEF BareSet, Bare, Awaits
  <2>4. faults["close"] = 0 /\ faults["skip"] = 0 /\ faults["crash"] = 0
    BY <2>1 DEF Init, NoFaults, Kinds
  <2>5. Cardinality(Hosts) \in Nat
    BY FS_CardinalityType
  <2>6. Accounted = 0
    BY <2>4, <2>5 DEF Accounted
  <2> QED
    BY <2>3, <2>6, FS_EmptySet DEF BareInv
<1>2. Inv /\ BareInv /\ [Next]_vars => BareInv'
  BY BareStep
<1>3. Inv /\ BareInv => LossesNeedFaults
  <2>1. SUFFICES ASSUME Inv, BareInv PROVE LossesNeedFaults
    OBVIOUS
  <2> DEFINE LostSet == {p \in Mails \X Hosts : Lost(p[1], p[2])}
  <2>2. ASSUME NEW m \in Mails, NEW d \in Hosts, Lost(m, d) PROVE Bare(m, d)
    BY <2>2 DEF Lost, Bare, Awaits, Fresh
  <2>3. LostSet \in SUBSET BareSet
    BY <2>2 DEF BareSet
  <2> HIDE DEF LostSet
  <2>4. IsFiniteSet(BareSet) /\ Cardinality(BareSet) <= Accounted
    BY <2>1 DEF BareInv
  <2>5. IsFiniteSet(LostSet) /\ Cardinality(LostSet) <= Cardinality(BareSet)
    BY <2>3, <2>4, FS_Subset
  <2>6. Cardinality(LostSet) \in Nat /\ Cardinality(BareSet) \in Nat
    BY <2>4, <2>5, FS_CardinalityType
  <2>7. Accounted \in Nat
    <3>1. /\ faults["close"] \in Nat /\ faults["skip"] \in Nat
          /\ faults["crash"] \in Nat
      BY <2>1 DEF Inv, TypeOK, Types, Kinds
    <3>2. Cardinality(Hosts) \in Nat
      BY FS_CardinalityType
    <3> QED
      BY <3>1, <3>2, TimesGrows DEF Accounted
  <2>8. Cardinality(LostSet) <= Accounted
    BY <2>4, <2>5, <2>6, <2>7
  <2> QED
    BY <2>8 DEF LossesNeedFaults, Accounted, LostSet
<1> QED
  BY <1>1, <1>2, <1>3, SoleInvariant, PTL DEF Spec

=============================================================================
