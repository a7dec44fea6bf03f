------------------------------ MODULE MailStore ------------------------------
(***************************************************************************)
(* The SQL statements of internal/storage/sqlite3 that the mail and queue  *)
(* tables are changed and read with, as operators on the tables.           *)
(*                                                                         *)
(* A table is a set of rows.  A row of "mails" is a record                 *)
(*    [mailbox, id, mail, flags]                                           *)
(* whose flags are the boolean columns seen, answered, flagged and deleted *)
(* that are set; the arrival time is left out.  A row of "queue" is        *)
(*    [destination, mailbox, id, rcpt]                                     *)
(* the column "mail" (the envelope sender) is left out: SessionLocal.Mail  *)
(* only lets this node's own address through.                              *)
(*                                                                         *)
(* The prepared statements run on the connection pool, not in the writer's *)
(* transaction (Exec is called on the statement, never on txn), so each of *)
(* them is one atomic auto-committed change.  The database is opened with  *)
(* _foreign_keys=on: a constraint makes the statement fail and leaves the  *)
(* tables alone, ON DELETE CASCADE removes the rows that refer to a mail.  *)
(***************************************************************************)
EXTENDS Integers, FiniteSetsExt

Flag == {"Seen", "Answered", "Flagged", "Deleted"}

\* The rows whose primary key is (mailbox, id): none, or one.
MailSelect(mails, mailbox, id) ==
  {r \in mails : r.mailbox = mailbox /\ r.id = id}

\* The ids in use in a mailbox.
IDs(mails, mailbox) == {r.id : r \in {x \in mails : x.mailbox = mailbox}}

\* IFNULL(MAX(id)+1, 1): the id of the last mail is used again as soon as
\* that mail has left the mailbox.
MailNextID(mails, mailbox) ==
  IF IDs(mails, mailbox) = {} THEN 1 ELSE Max(IDs(mails, mailbox)) + 1

\* The id of the message with the number seq: none, or one.  The view
\* numbers the rows of a mailbox in the order of its primary key.
MailIDForSeq(mails, mailbox, seq) ==
  {id \in IDs(mails, mailbox) :
     Cardinality({i \in IDs(mails, mailbox) : i <= id}) = seq}

MailCreate(mails, mailbox, data) ==
  mails \cup {[mailbox |-> mailbox, id |-> MailNextID(mails, mailbox),
               mail |-> data, flags |-> {}]}

\* Mutant: the wrong column is set.
MailDeleteFlags(mails, mailbox, id) ==
  {IF r.mailbox = mailbox /\ r.id = id
   THEN [r EXCEPT !.flags = @ \cup {"Flagged"}] ELSE r : r \in mails}

\* MailDelete only marks the mail; MailExpunge removes the marked ones.
MailDelete(mails, mailbox, id) ==
  {IF r.mailbox = mailbox /\ r.id = id
   THEN [r EXCEPT !.flags = @ \cup {"Deleted"}] ELSE r : r \in mails}

MailExpunge(mails, mailbox) ==
  {r \in mails : ~(r.mailbox = mailbox /\ "Deleted" \in r.flags)}

MailUpdateFlags(mails, mailbox, id, flags) ==
  {IF r.mailbox = mailbox /\ r.id = id THEN [r EXCEPT !.flags = flags] ELSE r :
     r \in mails}

\* The key is free, and the destination exists, if there is a row to move.
MailMoveAllowed(mails, boxes, mailbox, id, destination) ==
  MailSelect(mails, mailbox, id) = {} \/ destination = mailbox
    \/ (destination \in boxes /\ MailSelect(mails, destination, id) = {})

\* The row keeps its id.
MailMove(mails, mailbox, id, destination) ==
  {IF r.mailbox = mailbox /\ r.id = id
   THEN [r EXCEPT !.mailbox = destination] ELSE r : r \in mails}

\* The mails of a mailbox go with it: ON DELETE CASCADE.
MailboxDelete(mails, name) == {r \in mails : r.mailbox # name}

\* Mutant: the database is opened without _foreign_keys=on.
MailboxRenameAlone(mails, from, to) == mails

\* The mails of a mailbox follow its name: ON UPDATE CASCADE.
MailboxRename(mails, from, to) ==
  {IF r.mailbox = from THEN [r EXCEPT !.mailbox = to] ELSE r : r \in mails}

-----------------------------------------------------------------------------

\* Mutant: the database is opened without _foreign_keys=on.
QueueCascadeOff(queue, mails) == queue

\* What ON DELETE CASCADE leaves of the queue when only "mails" remain.
QueueCascade(queue, mails) ==
  {q \in queue : MailSelect(mails, q.mailbox, q.id) # {}}

\* Mutant: the database is opened without _foreign_keys=on.
QueueMoveAlone(queue, mailbox, id, destination) == queue

\* What ON UPDATE CASCADE makes of the queue when a mail is moved.
QueueMove(queue, mailbox, id, destination) ==
  {IF q.mailbox = mailbox /\ q.id = id
   THEN [q EXCEPT !.mailbox = destination] ELSE q : q \in queue}

QueueListDestinations(queue) == {q.destination : q \in queue}

\* Mutant: WHERE destination = $1 is missing.
QueueMailIDsForAll(queue, destination) == queue

QueueMailIDsForDestination(queue, destination) ==
  {q \in queue : q.destination = destination}

\* The primary key (destination, mailbox, id) is free and the foreign key
\* (mailbox, id) names a mail.
QueueInsertAllowed(queue, mails, destination, id) ==
  /\ ~ \E q \in queue : /\ q.destination = destination
                        /\ q.mailbox = "Outbox"
                        /\ q.id = id
  /\ MailSelect(mails, "Outbox", id) # {}

QueueInsertDestinationForID(queue, destination, id, rcpt) ==
  queue \cup {[destination |-> destination, mailbox |-> "Outbox",
               id |-> id, rcpt |-> rcpt]}

\* Mutant: AND id = $3 is missing.
QueueDeleteDestination(queue, destination, id) ==
  {q \in queue : q.destination # destination}

QueueDeleteDestinationForID(queue, destination, id) ==
  {q \in queue : ~(/\ q.destination = destination
                   /\ q.mailbox = "Outbox"
                   /\ q.id = id)}

QueueSelectIsMessagePendingSend(queue, mailbox, id) ==
  \E q \in queue : q.mailbox = mailbox /\ q.id = id
=============================================================================
