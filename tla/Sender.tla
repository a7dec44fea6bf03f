------------------------------- MODULE Sender -------------------------------
(***************************************************************************)
(* The outbound half of a node: internal/smtpsender on top of the tables   *)
(* of MailStore.                                                           *)
(*                                                                         *)
(*  - A submission is one call of Queues.QueueFor by a local SMTP session: *)
(*    it stores the mail in Outbox, then inserts and kicks one queue row   *)
(*    per recipient.                                                       *)
(*  - A run is the goroutine Queue.run of one destination: it reads the    *)
(*    rows of its destination once, and for each of them fetches the mail, *)
(*    talks SMTP to the destination, removes the row, and marks the mail   *)
(*    when no row is left.  At the end it expunges Outbox.                 *)
(*  - The manager starts a run for every destination with rows, once a     *)
(*    minute.                                                              *)
(*                                                                         *)
(* Every call of the storage and every use of the connection is one step,  *)
(* so submissions, runs and the manager interleave between any two calls.  *)
(* The process may crash; the tables survive, everything else is lost.     *)
(***************************************************************************)
EXTENDS MailStore, Sequences, FiniteSets

CONSTANTS
  Mails,       \* the messages that local clients submit
  Hosts,       \* the other nodes, named by their public keys
  Addrs,       \* the recipient addresses that occur in envelopes
  HostOf,      \* the node an address stands for, once parsed
  Self,        \* this node's own key
  Unparsable,  \* what HostOf gives for an address that does not parse
  None,        \* no value
  RcptLists,   \* the recipient lists that clients send
  FaultKinds,  \* which faults may happen (see Fault)
  MaxFaults,   \* how many of them may happen
  MaxCopies    \* bound: how often a mail is sent to a node

Kinds == {"crash", "error", "skip", "close"}

ASSUME SenderAssumption ==
  /\ HostOf \in [Addrs -> Hosts \cup {Self, Unparsable}]
  /\ Self \notin Hosts /\ Unparsable \notin Hosts /\ Self # Unparsable
  /\ None \notin Mails
  /\ "Outbox" \notin Hosts   \* hosts are hexadecimal keys
  /\ RcptLists \subseteq Seq(Addrs)
  /\ FaultKinds \subseteq Kinds
  /\ MaxFaults \in Nat /\ MaxCopies \in Nat

VARIABLES
  mails,      \* table mails, of which only Outbox is used here
  queue,      \* table queue
  sub,        \* sub[m]: the submission of mail m
  running,    \* running[d]: the flag Queue.running of destination d
  run,        \* run[d]: the goroutine Queue.run of destination d
  manager,    \* the goroutine (or timer) of Queues.manager
  delivered,  \* delivered[m][d]: copies of m in the inbox of d (a history)
  faults,     \* faults[kind]: how often it has happened (a history)
  client      \* a mail client that works on Outbox: what it is doing, which is
              \* nothing unless its steps are added (see Outbox)

vars ==
  <<mails, queue, sub, running, run, manager, delivered, faults, client>>

IdleRun == [pc |-> "idle", refs |-> {}, ref |-> None, mail |-> None]
Waiting == [pc |-> "timer", todo |-> {}]
NoFaults == [kind \in Kinds |-> 0]

Init ==
  /\ mails = {}
  /\ queue = {}
  /\ sub = [m \in Mails |-> [pc |-> "idle", to |-> <<>>, i |-> 0, pid |-> 0]]
  /\ running = [d \in Hosts |-> FALSE]
  /\ run = [d \in Hosts |-> IdleRun]
  /\ manager = Waiting
  /\ delivered = [m \in Mails |-> [d \in Hosts |-> 0]]
  /\ faults = NoFaults
  /\ client = [pc |-> "idle", id |-> 0, flags |-> {}, sent |-> 0]

\* The client's command is over, or its connection is gone.
ClientDone == client' = [client EXCEPT !.pc = "idle", !.id = 0, !.flags = {}]

(***************************************************************************)
(* "error": a storage call fails and reports it.  "skip": Writer.run could *)
(* not begin a transaction, did not run the statement, and Writer.Do       *)
(* returned nil all the same.  "crash": the process dies.  "close": the    *)
(* destination does not accept the message after its final dot.            *)
(***************************************************************************)
Fault(kind) ==
  /\ kind \in FaultKinds
  /\ faults["crash"] + faults["error"] + faults["skip"] + faults["close"]
       < MaxFaults
  /\ faults' = [faults EXCEPT ![kind] = @ + 1]

\* Queues.queueFor: start the run of d unless it is running.
queueFor(d) ==
  /\ running' = [running EXCEPT ![d] = TRUE]
  /\ run' = IF running[d] THEN run ELSE [run EXCEPT ![d].pc = "list"]

-----------------------------------------------------------------------------
(***************************************************************************)
(* Submissions: Queues.QueueFor.                                           *)
(***************************************************************************)

Rcpt(m) == sub[m].to[sub[m].i]
HasRcpt(m) == sub[m].pc = "rcpt" /\ sub[m].i <= Len(sub[m].to)
NextRcpt(m) ==
  sub' = [sub EXCEPT ![m] = [pc |-> "rcpt", to |-> @.to, i |-> @.i + 1,
                             pid |-> @.pid]]
SubFails(m) == sub' = [sub EXCEPT ![m].pc = "failed"]

\* A client hands over m with a list of recipients.
Submit(m) ==
  /\ sub[m].pc = "idle"
  /\ \E to \in RcptLists :
       sub' = [sub EXCEPT ![m] = [pc |-> "create", to |-> to, i |-> 0, pid |-> 0]]
  /\ UNCHANGED <<mails, queue, running, run, manager,
                 delivered, faults, client>>

SubCreate(m) ==
  /\ sub[m].pc = "create"
  /\ mails' = MailCreate(mails, "Outbox", m)
  /\ sub' = [sub EXCEPT ![m] = [pc |-> "rcpt", to |-> @.to, i |-> 1,
                                 pid |-> MailNextID(mails, "Outbox")]]
  /\ UNCHANGED <<queue, running, run, manager, delivered, faults, client>>

\* mail.ParseAddress or utils.ParseAddress refuses the recipient: QueueFor
\* returns, what it has stored and queued so far stays.
SubUnparsable(m) ==
  /\ HasRcpt(m) /\ HostOf[Rcpt(m)] = Unparsable
  /\ SubFails(m)
  /\ UNCHANGED <<mails, queue, running, run, manager,
                 delivered, faults, client>>

\* Mutant: the own address is not passed over.
SubSelfQueued(m) ==
  /\ HasRcpt(m) /\ HostOf[Rcpt(m)] = Self
  /\ queue' = QueueInsertDestinationForID(queue, Self, sub[m].pid, Rcpt(m))
  /\ sub' = [sub EXCEPT ![m].pc = "kick"]
  /\ UNCHANGED <<mails, running, run, manager, delivered, faults, client>>

SubSelf(m) ==
  /\ HasRcpt(m) /\ HostOf[Rcpt(m)] = Self
  /\ NextRcpt(m)
  /\ UNCHANGED <<mails, queue, running, run, manager,
                 delivered, faults, client>>

SubInsert(m) ==
  /\ HasRcpt(m) /\ HostOf[Rcpt(m)] \in Hosts
  /\ QueueInsertAllowed(queue, mails, HostOf[Rcpt(m)], sub[m].pid)
  /\ queue' = QueueInsertDestinationForID(queue, HostOf[Rcpt(m)],
                                          sub[m].pid, Rcpt(m))
  /\ sub' = [sub EXCEPT ![m].pc = "kick"]
  /\ UNCHANGED <<mails, running, run, manager, delivered, faults, client>>

\* A key constraint refuses the row: the destination is on the list twice,
\* or the mail is no longer there.
SubRefused(m) ==
  /\ HasRcpt(m) /\ HostOf[Rcpt(m)] \in Hosts
  /\ ~QueueInsertAllowed(queue, mails, HostOf[Rcpt(m)], sub[m].pid)
  /\ SubFails(m)
  /\ UNCHANGED <<mails, queue, running, run, manager,
                 delivered, faults, client>>

SubKick(m) ==
  /\ sub[m].pc = "kick"
  /\ queueFor(HostOf[Rcpt(m)])
  /\ NextRcpt(m)
  /\ UNCHANGED <<mails, queue, manager, delivered, faults, client>>

\* QueueFor returns nil and the session logs "Queued mail for".
SubQueued(m) ==
  /\ sub[m].pc = "rcpt" /\ sub[m].i > Len(sub[m].to)
  /\ sub' = [sub EXCEPT ![m].pc = "queued"]
  /\ UNCHANGED <<mails, queue, running, run, manager,
                 delivered, faults, client>>

\* MailCreate or QueueInsertDestinationForID reports an error.
SubError(m) ==
  /\ sub[m].pc = "create" \/ (HasRcpt(m) /\ HostOf[Rcpt(m)] \in Hosts)
  /\ Fault("error")
  /\ SubFails(m)
  /\ UNCHANGED <<mails, queue, running, run, manager, delivered, client>>

\* The writer skips the statement and reports success: MailCreate returns
\* the id 0, QueueInsertDestinationForID has inserted nothing.
SubSkip(m) ==
  /\ Fault("skip")
  /\ \/ /\ sub[m].pc = "create"
        /\ sub' = [sub EXCEPT ![m] = [pc |-> "rcpt", to |-> @.to, i |-> 1,
                                       pid |-> 0]]
     \/ /\ HasRcpt(m) /\ HostOf[Rcpt(m)] \in Hosts
        /\ sub' = [sub EXCEPT ![m].pc = "kick"]
  /\ UNCHANGED <<mails, queue, running, run, manager, delivered, client>>

-----------------------------------------------------------------------------
(***************************************************************************)
(* Runs: Queue.run.                                                        *)
(***************************************************************************)

Goto(d, pc) == run' = [run EXCEPT ![d].pc = pc]
NextRef(d) ==
  run' = [run EXCEPT ![d] = [pc |-> "loop", refs |-> @.refs, ref |-> None,
                             mail |-> None]]

\* The ref the loop takes next: the rows come ORDER BY id DESC.
IsNextRef(d, ref) ==
  /\ run[d].pc = "loop"
  /\ ref \in run[d].refs
  /\ \A other \in run[d].refs : other.id <= ref.id

RunList(d) ==
  /\ run[d].pc = "list"
  /\ run' = [run EXCEPT ![d] =
                [pc |-> "loop", refs |-> QueueMailIDsForDestination(queue, d),
                 ref |-> None, mail |-> None]]
  /\ UNCHANGED <<mails, queue, sub, running, manager,
                 delivered, faults, client>>

\* MailSelect finds the mail with the id of the ref in Outbox ...
RunSelect(d) ==
  /\ \E ref \in run[d].refs : \E r \in MailSelect(mails, "Outbox", ref.id) :
       /\ IsNextRef(d, ref)
       /\ run' = [run EXCEPT ![d] = [pc |-> "send", refs |-> @.refs \ {ref},
                                     ref |-> ref, mail |-> r.mail]]
  /\ UNCHANGED <<mails, queue, sub, running, manager,
                 delivered, faults, client>>

\* Mutant: the "continue" after sql.ErrNoRows is missing.
RunSelectGoesOn(d) ==
  /\ \E ref \in run[d].refs :
       /\ IsNextRef(d, ref)
       /\ MailSelect(mails, "Outbox", ref.id) = {}
       /\ run' = [run EXCEPT ![d] = [pc |-> "send", refs |-> @.refs \ {ref},
                                     ref |-> ref, mail |-> None]]
  /\ UNCHANGED <<mails, queue, sub, running, manager,
                 delivered, faults, client>>

\* ... or sql.ErrNoRows.
RunSelectNoRows(d) ==
  /\ \E ref \in run[d].refs :
       /\ IsNextRef(d, ref)
       /\ MailSelect(mails, "Outbox", ref.id) = {}
       /\ run' = [run EXCEPT ![d] = [pc |-> "purge", refs |-> @.refs \ {ref},
                                     ref |-> ref, mail |-> None]]
  /\ UNCHANGED <<mails, queue, sub, running, manager,
                 delivered, faults, client>>

\* The destination passed is "Outbox", which no row has.
RunPurge(d) ==
  /\ run[d].pc = "purge"
  /\ queue' = QueueDeleteDestinationForID(queue, "Outbox", run[d].ref.id)
  /\ NextRef(d)
  /\ UNCHANGED <<mails, sub, running, manager, delivered, faults, client>>

\* Dial, greeting, HELO, MAIL, RCPT, DATA and the body all go through.  The
\* message is not complete yet: its final dot is sent by RunClose.
RunSend(d) ==
  /\ run[d].pc = "send" /\ delivered[run[d].mail][d] < MaxCopies
  /\ Goto(d, "unqueue")
  /\ UNCHANGED <<mails, queue, sub, running, manager,
                 delivered, faults, client>>

\* Mutant: a failed attempt takes the row away.
RunSendGivesUp(d) ==
  /\ run[d].pc = "send"
  /\ queue' = QueueDeleteDestinationForID(queue, d, run[d].ref.id)
  /\ NextRef(d)
  /\ UNCHANGED <<mails, sub, running, manager, delivered, faults, client>>

\* One of them fails: the row stays, "Will retry sending".
RunSendFails(d) ==
  /\ run[d].pc = "send"
  /\ NextRef(d)
  /\ UNCHANGED <<mails, queue, sub, running, manager,
                 delivered, faults, client>>

\* Mutant: "Outbox" is passed as the destination, as in RunPurge.
RunUnqueueOutbox(d) ==
  /\ run[d].pc = "unqueue"
  /\ queue' = QueueDeleteDestinationForID(queue, "Outbox", run[d].ref.id)
  /\ Goto(d, "pending")
  /\ UNCHANGED <<mails, sub, running, manager, delivered, faults, client>>

RunUnqueue(d) ==
  /\ run[d].pc = "unqueue"
  /\ queue' = QueueDeleteDestinationForID(queue, d, run[d].ref.id)
  /\ Goto(d, "pending")
  /\ UNCHANGED <<mails, sub, running, manager, delivered, faults, client>>

\* Mutant: the mail is marked without asking whether it is pending.
RunPendingIgnored(d) ==
  /\ run[d].pc = "pending"
  /\ Goto(d, "mark")
  /\ UNCHANGED <<mails, queue, sub, running, manager,
                 delivered, faults, client>>

RunPending(d) ==
  /\ run[d].pc = "pending"
  /\ Goto(d, IF QueueSelectIsMessagePendingSend(queue, "Outbox", run[d].ref.id)
             THEN "close" ELSE "mark")
  /\ UNCHANGED <<mails, queue, sub, running, manager,
                 delivered, faults, client>>

RunMark(d) ==
  /\ run[d].pc = "mark"
  /\ mails' = MailDelete(mails, "Outbox", run[d].ref.id)
  /\ Goto(d, "close")
  /\ UNCHANGED <<queue, sub, running, manager, delivered, faults, client>>

\* The deferred writer.Close sends the final dot, and the destination stores
\* the mail.  Its result is not looked at.
RunClose(d) ==
  /\ run[d].pc = "close"
  /\ delivered' = [delivered EXCEPT ![run[d].mail][d] = @ + 1]
  /\ NextRef(d)
  /\ UNCHANGED <<mails, queue, sub, running, manager, faults, client>>

RunCloseFails(d) ==
  /\ run[d].pc = "close"
  /\ Fault("close")
  /\ NextRef(d)
  /\ UNCHANGED <<mails, queue, sub, running, manager, delivered, client>>

\* The deferred MailExpunge, with what the foreign key makes of the queue.
RunExpunge(d) ==
  /\ run[d].pc = "loop" /\ run[d].refs = {}
  /\ mails' = MailExpunge(mails, "Outbox")
  /\ queue' = QueueCascade(queue, mails')
  /\ Goto(d, "stop")
  /\ UNCHANGED <<sub, running, manager, delivered, faults, client>>

\* Mutant: running.Store(false) is missing.
RunStopKeepsFlag(d) ==
  /\ run[d].pc = "stop"
  /\ Goto(d, "idle")
  /\ UNCHANGED <<mails, queue, sub, running, manager,
                 delivered, faults, client>>

\* The deferred running.Store(false), which runs last.
RunStop(d) ==
  /\ run[d].pc = "stop"
  /\ running' = [running EXCEPT ![d] = FALSE]
  /\ Goto(d, "idle")
  /\ UNCHANGED <<mails, queue, sub, manager, delivered, faults, client>>

\* A storage call of the run reports an error.
RunError(d) ==
  /\ Fault("error")
  /\ \/ run[d].pc = "list" /\ Goto(d, "loop")
     \/ \E ref \in run[d].refs :
          /\ IsNextRef(d, ref)
          /\ run' = [run EXCEPT ![d].refs = @ \ {ref}]
     \/ run[d].pc = "purge" /\ NextRef(d)
     \/ run[d].pc \in {"unqueue", "pending", "mark"} /\ Goto(d, "close")
     \/ run[d].pc = "loop" /\ run[d].refs = {} /\ Goto(d, "stop")
  /\ UNCHANGED <<mails, queue, sub, running, manager, delivered, client>>

\* The writer skips a statement of the run and reports success.
RunSkip(d) ==
  /\ Fault("skip")
  /\ \/ run[d].pc = "purge" /\ NextRef(d)
     \/ run[d].pc = "unqueue" /\ Goto(d, "pending")
     \/ run[d].pc = "mark" /\ Goto(d, "close")
     \/ run[d].pc = "loop" /\ run[d].refs = {} /\ Goto(d, "stop")
  /\ UNCHANGED <<mails, queue, sub, running, manager, delivered, client>>

-----------------------------------------------------------------------------
(***************************************************************************)
(* The manager: Queues.manager, called by time.AfterFunc.                  *)
(***************************************************************************)

ManagerFires ==
  /\ manager.pc = "timer"
  /\ manager' = [pc |-> "loop", todo |-> QueueListDestinations(queue)]
  /\ UNCHANGED <<mails, queue, sub, running, run, delivered, faults, client>>

ManagerKicks ==
  /\ manager.pc = "loop"
  /\ \E d \in manager.todo :
       /\ queueFor(d)
       /\ manager' = [manager EXCEPT !.todo = @ \ {d}]
  /\ UNCHANGED <<mails, queue, sub, delivered, faults, client>>

\* Mutant: the timer is not set again.
ManagerFiresOnce ==
  /\ manager.pc = "loop" /\ manager.todo = {}
  /\ manager' = [pc |-> "dead", todo |-> {}]
  /\ UNCHANGED <<mails, queue, sub, running, run, delivered, faults, client>>

ManagerRearms ==
  /\ manager.pc = "loop" /\ manager.todo = {}
  /\ manager' = Waiting
  /\ UNCHANGED <<mails, queue, sub, running, run, delivered, faults, client>>

\* QueueListDestinations fails: manager returns before it sets the timer.
ManagerError ==
  /\ manager.pc = "timer"
  /\ Fault("error")
  /\ manager' = [pc |-> "dead", todo |-> {}]
  /\ UNCHANGED <<mails, queue, sub, running, run, delivered, client>>

\* The process dies and is started again: NewQueues sets the timer.  A
\* client whose submission or command was under way loses its connection.
Crash ==
  /\ Fault("crash")
  /\ running' = [d \in Hosts |-> FALSE]
  /\ run' = [d \in Hosts |-> IdleRun]
  /\ manager' = Waiting
  /\ sub' = [m \in Mails |->
               IF sub[m].pc \in {"create", "rcpt", "kick"}
               THEN [sub[m] EXCEPT !.pc = "failed"] ELSE sub[m]]
  /\ ClientDone
  /\ UNCHANGED <<mails, queue, delivered>>

-----------------------------------------------------------------------------

SubStep(m) ==
  SubCreate(m) \/ SubUnparsable(m) \/ SubSelf(m) \/ SubInsert(m)
    \/ SubRefused(m) \/ SubKick(m) \/ SubQueued(m)

RunStep(d) ==
  RunList(d) \/ RunSelect(d) \/ RunSelectNoRows(d) \/ RunPurge(d)
    \/ RunSend(d) \/ RunSendFails(d) \/ RunUnqueue(d) \/ RunPending(d)
    \/ RunMark(d) \/ RunClose(d) \/ RunCloseFails(d) \/ RunExpunge(d)
    \/ RunStop(d)

ManagerStep == ManagerFires \/ ManagerKicks \/ ManagerRearms

Next ==
  \/ \E m \in Mails : Submit(m) \/ SubStep(m) \/ SubError(m) \/ SubSkip(m)
  \/ \E d \in Hosts : RunStep(d) \/ RunError(d) \/ RunSkip(d)
  \/ ManagerStep \/ ManagerError \/ Crash

Spec == Init /\ [][Next]_vars

(***************************************************************************)
(* Goroutines are scheduled fairly and the timer fires; a destination that *)
(* is tried again and again is reachable again and again.  Clients need    *)
(* not submit anything and faults need not happen.                         *)
(***************************************************************************)
Fairness ==
  /\ \A m \in Mails : WF_vars(SubStep(m))
  /\ \A d \in Hosts : WF_vars(RunStep(d)) /\ SF_vars(RunSend(d))
  /\ WF_vars(ManagerStep)

FairSpec == Spec /\ Fairness

-----------------------------------------------------------------------------
(***************************************************************************)
(* Properties.                                                             *)
(***************************************************************************)

MailRow(boxes) == [mailbox : boxes, id : Nat \ {0}, mail : Mails,
                   flags : SUBSET Flag]
QueueRow(boxes) == [destination : Hosts, mailbox : boxes, id : Nat,
                    rcpt : Addrs]
SubPC == {"idle", "create", "rcpt", "kick", "queued", "failed"}
RunPC == {"idle", "list", "loop", "purge", "send", "unqueue", "pending",
          "mark", "close", "stop"}

\* The points of Queue.run at which the variables ref and mail are in use.
RefPC == {"purge", "send", "unqueue", "pending", "mark", "close"}
MailPC == RefPC \ {"purge"}

\* The locals of a submission; one that kicks a queue has a recipient.
SubType ==
  {s \in [pc : SubPC, to : Seq(Addrs), i : Nat, pid : Nat] :
     /\ s.pc \in {"rcpt", "kick"} => s.i > 0
     /\ s.pc = "kick" => s.i <= Len(s.to) /\ HostOf[s.to[s.i]] \in Hosts}

\* The locals of a run; one that is past MailSelect holds a mail.
RunType(boxes) ==
  {x \in [pc : RunPC, refs : SUBSET QueueRow(boxes),
          ref : QueueRow(boxes) \cup {None}, mail : Mails \cup {None}] :
     /\ x.pc \in RefPC => x.ref \in QueueRow(boxes)
     /\ x.pc \in MailPC => x.mail \in Mails}

\* The types of the tables and of the goroutines' locals, when the rows are
\* in these mailboxes.
Types(boxes) ==
  /\ mails \subseteq MailRow(boxes)
  /\ queue \subseteq QueueRow(boxes)
  /\ sub \in [Mails -> SubType]
  /\ running \in [Hosts -> BOOLEAN]
  /\ run \in [Hosts -> RunType(boxes)]
  /\ manager \in [pc : {"timer", "loop", "dead"}, todo : SUBSET Hosts]
  /\ delivered \in [Mails -> [Hosts -> Nat]]
  /\ faults \in [Kinds -> Nat]

\* The types; in particular Queue.run sends only a mail that MailSelect has
\* returned, and without mail clients every row is in Outbox.
TypeOK == Types({"Outbox"})

\* Every queued delivery refers to a stored mail, whatever interleaving of
\* submissions, runs, failures and crashes led there: what the foreign key
\* of the queue table promises to Queue.run.
QueueRefsExist ==
  \A q \in queue : MailSelect(mails, q.mailbox, q.id) # {}

\* Queue.running is set exactly while the goroutine of the queue is alive:
\* a kick is never swallowed by a flag that nobody will reset, and never
\* starts a second goroutine for the same destination.
RunningFlag ==
  \A d \in Hosts : running[d] = (run[d].pc # "idle")

\* The nodes that the envelope of m names.
Addressees(m) ==
  {d \in Hosts : \E k \in 1..Len(sub[m].to) : HostOf[sub[m].to[k]] = d}

\* There is a queue row for the mail m and the destination d.
HasRow(m, d) ==
  \E q \in queue : \E r \in MailSelect(mails, q.mailbox, q.id) :
    r.mail = m /\ q.destination = d

\* The run of d has removed the row of m and has not sent the final dot.
Unacknowledged(m, d) ==
  run[d].mail = m /\ run[d].pc \in {"pending", "mark", "close"}

\* No envelope names two recipients on other nodes.
SoleRecipients ==
  \A to \in RcptLists : \A j, k \in 1..Len(to) :
    HostOf[to[j]] \in Hosts /\ HostOf[to[k]] \in Hosts => j = k

\* No node ever receives a mail that was not addressed to it, although rows
\* and runs name mails by ids that Outbox uses again.
OnlyAddressees ==
  \A m \in Mails : \A d \in Hosts : delivered[m][d] > 0 => d \in Addressees(m)

\* A destination receives a mail again only after a storage call failed or
\* was skipped: the row is taken away before the final dot is sent, so that
\* neither crashes nor unacknowledged messages make a run send it twice.
DuplicatesNeedFaults ==
  \A m \in Mails : \A d \in Hosts :
    delivered[m][d] <= 1 + faults["error"] + faults["skip"]

\* A mail that is marked for deletion has no rows left, so that the expunge
\* at the end of any run takes no delivery with it.
MarkedIsUnqueued ==
  \A r \in mails : "Deleted" \in r.flags =>
    ~ QueueSelectIsMessagePendingSend(queue, r.mailbox, r.id)

\* A row leaves the queue only in the run of its own destination, after the
\* body of its mail went over the connection: never by the cascade of an
\* expunge, never by another run.
RowsLeaveOnlyWhenSent ==
  [][\A q \in queue \ queue' :
       /\ run[q.destination].pc = "unqueue"
       /\ run[q.destination].ref = q
       /\ MailSelect(mails, q.mailbox, q.id) # {}
       /\ \A r \in MailSelect(mails, q.mailbox, q.id) :
            r.mail = run[q.destination].mail]_vars

\* The mail m was accepted ("Queued mail for"), and for its addressee d it
\* is neither queued, nor being handed over, nor delivered.
Lost(m, d) ==
  /\ sub[m].pc = "queued" /\ d \in Addressees(m)
  /\ ~HasRow(m, d) /\ ~Unacknowledged(m, d) /\ delivered[m][d] = 0

\* A mail that was accepted is not lost.
AcceptedIsKept == \A m \in Mails : \A d \in Hosts : ~Lost(m, d)

\* Every delivery that is lost is accounted for: by a message that was not
\* acknowledged, by a statement that was skipped, or by a crash, which takes
\* at most one message of each run with it.  Errors that the storage reports
\* lose nothing.
LossesNeedFaults ==
  Cardinality({p \in Mails \X Hosts : Lost(p[1], p[2])})
    <= faults["close"] + faults["skip"] + Cardinality(Hosts) * faults["crash"]

\* What is queued is tried until it leaves the queue, across crashes and
\* lost wake-ups: "Will retry sending".
QueueDrains ==
  \A m \in Mails :
    (\E d \in Hosts : HasRow(m, d)) ~> (\A d \in Hosts : ~HasRow(m, d))

\* An accepted mail reaches each of its addressees, unless a fault happens.
EventuallyDelivered ==
  \A m \in Mails :
    (sub[m].pc = "queued")
      ~> (\/ \A d \in Addressees(m) : delivered[m][d] > 0
          \/ faults # NoFaults)

\* An accepted mail with an addressee is removed from Outbox in the end,
\* unless a fault happens.
OutboxEmpties ==
  \A m \in Mails :
    (sub[m].pc = "queued" /\ Addressees(m) # {})
      ~> ((\A r \in mails : r.mail # m) \/ faults # NoFaults)

-----------------------------------------------------------------------------
(***************************************************************************)
(* Why the last properties hold when no envelope names two other nodes.    *)
(* SoleInv is inductive under SoleRecipients (SoleProofs).                 *)
(***************************************************************************)

\* The submission of m has not inserted its row yet.
Fresh(m) ==
  \/ sub[m].pc \in {"idle", "create"}
  \/ /\ sub[m].pc = "rcpt"
     /\ \E k \in sub[m].i..Len(sub[m].to) : HostOf[sub[m].to[k]] \in Hosts

\* The mail with this id in Outbox is m, and it is not marked.
Holds(id, m) ==
  \E r \in mails : r.id = id /\ r.mail = m /\ "Deleted" \notin r.flags

\* The keys of the tables, and who put the rows there.
KeysInv ==
  /\ \A r, s \in mails : r.id = s.id \/ r.mail = s.mail => r = s
  /\ \A p, q \in queue : p.destination = q.destination /\ p.id = q.id => p = q
  /\ \A r \in mails :
       sub[r.mail].pc \notin {"idle", "create"} /\ sub[r.mail].pid = r.id

\* Envelopes come from RcptLists.
EnvelopeInv ==
  \A m \in Mails : sub[m].pc # "idle" => sub[m].to \in RcptLists

\* A row is for an unmarked mail that is addressed to the row's destination.
RowInv ==
  \A q \in queue : \E m \in Mails :
    Holds(q.id, m) /\ q.destination \in Addressees(m) /\ ~Fresh(m)

\* Until its row is inserted, nobody but its submission touches a mail.
FreshInv ==
  \A m \in Mails : Fresh(m) =>
    /\ sub[m].pc = "rcpt" => sub[m].pid = 0 \/ Holds(sub[m].pid, m)
    /\ \A d \in Hosts : delivered[m][d] = 0

\* What a run has read stays true for as long as the run relies on it.
RunOK(d) ==
  /\ run[d].pc # "purge"
  /\ run[d].pc \in {"idle", "list", "stop"} => run[d].refs = {}
  /\ \A p \in run[d].refs : p \in queue /\ p.destination = d
  /\ run[d].pc \in MailPC =>
       d \in Addressees(run[d].mail) /\ ~Fresh(run[d].mail)
  /\ run[d].pc \in {"send", "unqueue", "pending", "mark"} =>
       /\ Holds(run[d].ref.id, run[d].mail)
       /\ \A p \in run[d].refs : p.id # run[d].ref.id
  /\ run[d].pc \in {"send", "unqueue"} =>
       run[d].ref \in queue /\ run[d].ref.destination = d
  /\ run[d].pc = "mark" => \A q \in queue : q.id # run[d].ref.id

RunInv == \A d \in Hosts : RunOK(d)

\* The inductive invariant.
SoleInv ==
  KeysInv /\ EnvelopeInv /\ RowInv /\ FreshInv /\ RunInv /\ OnlyAddressees
=============================================================================
