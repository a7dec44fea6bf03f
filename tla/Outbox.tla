------------------------------- MODULE Outbox -------------------------------
(***************************************************************************)
(* Sender together with a mail client that has Outbox selected             *)
(* (internal/imapserver/mailbox.go).  The client's commands and the        *)
(* submissions, runs and manager of Sender work on the same rows, without  *)
(* knowing of each other.  ImapServer has the commands in full; here each  *)
(* concerns one mail, whose id is known, and MOVE goes to INBOX.           *)
(***************************************************************************)
EXTENDS Sender

CONSTANTS
  ClientKinds, \* which commands the client sends
  ClientFlags, \* the flags that it adds with STORE +FLAGS
  MaxClient    \* bound: how many commands it sends

ASSUME OutboxAssumption ==
  /\ ClientKinds \subseteq {"append", "store", "expunge", "move"}
  /\ ClientFlags \subseteq Flag
  /\ MaxClient \in Nat

\* A client sends a command, and the server is then at pc.
Client(kind, pc, id, flags) ==
  /\ client.pc = "idle" /\ kind \in ClientKinds /\ client.sent < MaxClient
  /\ client' = [pc |-> pc, id |-> id, flags |-> flags, sent |-> client.sent + 1]

\* APPEND: m is stored in Outbox, and never submitted.
ClientAppend ==
  /\ \E m \in Mails :
       /\ sub[m].pc = "idle"
       /\ SubFails(m)
       /\ mails' = MailCreate(mails, "Outbox", m)
  /\ Client("append", "idle", 0, {})
  /\ UNCHANGED <<queue, running, run, manager, delivered, faults>>

\* STORE +FLAGS reads the flags ...
ClientRead ==
  /\ \E id \in IDs(mails, "Outbox"), flag \in ClientFlags :
     \E r \in MailSelect(mails, "Outbox", id) :
       Client("store", "write", id, r.flags \cup {flag})
  /\ UNCHANGED <<mails, queue, sub, running, run, manager, delivered, faults>>

\* ... and writes all of them back.
ClientWrite ==
  /\ client.pc = "write"
  /\ mails' = MailUpdateFlags(mails, "Outbox", client.id, client.flags)
  /\ ClientDone
  /\ UNCHANGED <<queue, sub, running, run, manager, delivered, faults>>

ClientExpunge ==
  /\ Client("expunge", "idle", 0, {})
  /\ mails' = MailExpunge(mails, "Outbox")
  /\ queue' = QueueCascade(queue, mails')
  /\ UNCHANGED <<sub, running, run, manager, delivered, faults>>

\* MOVE to INBOX takes the rows along ...
ClientMove ==
  /\ \E id \in IDs(mails, "Outbox") :
       /\ MailMoveAllowed(mails, {"INBOX", "Outbox"}, "Outbox", id, "INBOX")
       /\ mails' = MailMove(mails, "Outbox", id, "INBOX")
       /\ queue' = QueueMove(queue, "Outbox", id, "INBOX")
       /\ Client("move", "dequeue", id, {})
  /\ UNCHANGED <<sub, running, run, manager, delivered, faults>>

\* ... and then deletes those of the destination "Outbox", which no row has.
ClientDequeue ==
  /\ client.pc = "dequeue"
  /\ queue' = QueueDeleteDestinationForID(queue, "Outbox", client.id)
  /\ ClientDone
  /\ UNCHANGED <<mails, sub, running, run, manager, delivered, faults>>

ClientStep ==
  ClientAppend \/ ClientRead \/ ClientWrite \/ ClientExpunge \/ ClientMove
    \/ ClientDequeue

OutboxNext == Next \/ ClientStep

OutboxSpec == Init /\ [][OutboxNext]_vars

-----------------------------------------------------------------------------

ClientType == [pc : {"idle", "write", "dequeue"}, id : Nat,
               flags : SUBSET Flag, sent : Nat]

\* The types as in Sender, with mails and rows that a MOVE has taken to
\* INBOX; in particular a run still sends only what MailSelect has returned.
OutboxTypeOK == Types({"INBOX", "Outbox"}) /\ client \in ClientType
=============================================================================
