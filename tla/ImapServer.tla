----------------------------- MODULE ImapServer -----------------------------
(***************************************************************************)
(* internal/imapserver: mail clients work on the mailboxes, while mail     *)
(* arrives in INBOX and is announced to them.  A command is a sequence of  *)
(* storage calls without a transaction; each call is one step, with the    *)
(* computation up to the next call, so the commands of several sessions    *)
(* and the deliveries interleave between any two calls.                    *)
(*                                                                         *)
(* A session handles one command after the other (go-imap, not part of the *)
(* repository, reads them).  FETCH, STORE, COPY and MOVE first turn the    *)
(* sequence set into a list of ids and then work through the list.         *)
(*                                                                         *)
(* Subscriptions and counts are left out, and so are the queue rows of the *)
(* mails in Outbox (see Outbox) and the writes that Writer skips.          *)
(* Commands that change nothing are not actions.                           *)
(***************************************************************************)
EXTENDS MailStore, Sequences

CONSTANTS
  Sessions,   \* the connections of mail clients
  Names,      \* the names that mailboxes may have
  Messages,   \* the messages that arrive or are appended
  Commands,   \* the FETCH, STORE, COPY and MOVE commands that clients send
  FlagLists,  \* the flags that clients append messages with
  None,       \* no value
  MaxRows,    \* bound: rows of mails, at which the disk is full
  MaxCommands \* bound: commands that clients send, other than SELECT, and
              \* restarts

Protected == {"INBOX", "Outbox"}

\* A range n:m of a sequence set; stop is 0 for "n:*", and "*" is 0:*.
Ranges == [start : Nat, stop : Nat]

ASSUME ImapAssumption ==
  /\ Protected \subseteq Names /\ None \notin Names
  /\ Commands \subseteq
       [kind : {"fetch", "store", "copy", "move"}, uid : BOOLEAN,
        set : Seq(Ranges), op : {"set", "add", "remove"},
        flags : SUBSET Flag, dest : Names]
  /\ FlagLists \subseteq Seq(Flag)
  /\ MaxRows \in Nat /\ MaxCommands \in Nat

VARIABLES
  boxes,     \* table mailboxes
  mails,     \* table mails
  session,   \* session[s]: the selected mailbox and the command under way
  delivery,  \* delivery[m]: how far SessionRemote.Data is with m; each message
             \* arrives, or is appended, once (a bound)
  told,      \* what FETCH has answered: [box, uid, mail] (a history)
  uidnext,   \* the greatest UIDNEXT of INBOX that was announced, or 0 when its
             \* ids may be given again (a history)
  asked,     \* asked[m]: the flags that clients asked m to have (a history)
  commands,  \* how many commands were sent, for the bound
  recycled   \* the mailboxes in which an id may name another message than
             \* it did before (a history, see Change)

tables == <<boxes, mails, recycled>>
histories == <<told, uidnext, asked>>
vars == <<tables, session, delivery, histories, commands>>

Ready(box) ==
  [pc |-> "ready", box |-> box, cmd |-> None, set |-> <<>>, ids |-> <<>>,
   row |-> None, flags |-> <<>>]
Delivery(pc) == [pc |-> pc, id |-> 0]

Init ==
  /\ boxes = Protected
  /\ mails = {}
  /\ session = [s \in Sessions |-> Ready(None)]
  /\ delivery = [m \in Messages |-> Delivery("outside")]
  /\ told = {}
  /\ uidnext = 0
  /\ asked = [m \in Messages |-> {}]
  /\ recycled = {}
  /\ commands = 0

\* The message with the greatest id leaves the mailbox: MailCreate will give
\* the id again.
LastLeaves(box, rows) ==
  IDs(mails, box) # {} /\ Max(IDs(mails, box)) \notin IDs(rows, box)

\* The table mails becomes "rows".  The commands behind it may put ids into
\* the mailboxes "more" that were not given out there.
Change(rows, more) ==
  /\ mails' = rows
  /\ recycled' = recycled \cup more \cup {b \in Names : LastLeaves(b, rows)}
  /\ uidnext' = IF "INBOX" \in recycled' THEN 0 ELSE uidnext

\* Clients are told UIDNEXT of INBOX.
Announce(next) ==
  uidnext' = IF "INBOX" \in recycled THEN 0 ELSE Max({uidnext, next})

\* A client sends a command.
Command == commands < MaxCommands /\ commands' = commands + 1

\* MailCreate: the mailbox must exist, and the disk must not be full.
CreateAllowed(box) == box \in boxes /\ Cardinality(mails) < MaxRows

-----------------------------------------------------------------------------
(***************************************************************************)
(* Between the commands of a session.                                      *)
(***************************************************************************)

\* Mailbox.Status: UIDNEXT is the id that MailCreate would give now.
Status(box) ==
  IF box = "INBOX" THEN Announce(MailNextID(mails, "INBOX"))
  ELSE UNCHANGED uidnext

\* User.GetMailbox: the empty name is not looked up.
Selectable == boxes \cup (Names \cap {""})

\* SELECT, through User.GetMailbox; or STATUS, which selects nothing.
Select(s) ==
  /\ session[s].pc = "ready"
  /\ \E box \in Selectable :
       /\ Status(box)
       /\ \E selected \in {box, session[s].box} :
            session' = [session EXCEPT ![s] = Ready(selected)]
  /\ UNCHANGED <<tables, delivery, told, asked, commands>>

\* EXPUNGE, or CLOSE.
Expunge(s) ==
  /\ session[s].pc = "ready" /\ session[s].box # None
  /\ Change(MailExpunge(mails, session[s].box), {})
  /\ \E box \in {session[s].box, None} :
       session' = [session EXCEPT ![s] = Ready(box)]
  /\ Command
  /\ UNCHANGED <<boxes, delivery, told, asked>>

CreateMailbox ==
  /\ \E name \in Names \ boxes : boxes' = boxes \cup {name}
  /\ Command
  /\ UNCHANGED <<mails, recycled, session, delivery, histories>>

DeleteMailbox ==
  /\ \E name \in boxes \ Protected :
       /\ boxes' = boxes \ {name}
       /\ Change(MailboxDelete(mails, name), {})
  /\ Command
  /\ UNCHANGED <<session, delivery, told, asked>>

\* RENAME existing new.  MailboxRename passes its arguments to the statement
\* in the wrong order: the mailbox "new" gets the name "existing", if there
\* is a "new" and no "existing".
RenameMailbox ==
  /\ \E existing \in Names \ (Protected \cup boxes) : \E new \in boxes :
       /\ boxes' = (boxes \ {new}) \cup {existing}
       /\ Change(MailboxRename(mails, new, existing), {existing})
  /\ Command
  /\ UNCHANGED <<session, delivery, told, asked>>

\* The process is restarted: main creates the protected mailboxes again, the
\* sessions and deliveries under way are over.
Restart ==
  /\ boxes' = boxes \cup Protected
  /\ session' = [s \in Sessions |-> Ready(None)]
  /\ delivery' = [m \in Messages |->
       IF delivery[m].pc = "outside" THEN delivery[m] ELSE Delivery("done")]
  /\ Command
  /\ UNCHANGED <<mails, recycled, histories>>

-----------------------------------------------------------------------------
(***************************************************************************)
(* Mail that arrives: the end of SessionRemote.Data.                       *)
(***************************************************************************)

Deliver(m) ==
  /\ delivery[m].pc = "outside" /\ CreateAllowed("INBOX")
  /\ Change(MailCreate(mails, "INBOX", m), {})
  /\ delivery' = [delivery EXCEPT ![m] =
       [pc |-> "notify", id |-> MailNextID(mails, "INBOX")]]
  /\ UNCHANGED <<boxes, session, told, asked, commands>>

\* Mutant: the caller passes what MailNextID returns now.
NotifyNext(m) ==
  /\ delivery[m].pc = "notify"
  /\ delivery' = [delivery EXCEPT ![m] = Delivery("done")]
  /\ Announce(MailNextID(mails, "INBOX") + 1)
  /\ UNCHANGED <<tables, session, told, asked, commands>>

\* MailCount and NotifyNew, which tells the clients that have another mailbox
\* selected, or none, what UIDNEXT is; nothing if MailCount fails.
NotifyNew(m) ==
  /\ delivery[m].pc = "notify"
  /\ delivery' = [delivery EXCEPT ![m] = Delivery("done")]
  /\ \/ /\ \E s \in Sessions : session[s].box # "INBOX"
        /\ Announce(delivery[m].id + 1)
     \/ UNCHANGED uidnext
  /\ UNCHANGED <<tables, session, told, asked, commands>>

-----------------------------------------------------------------------------
(***************************************************************************)
(* APPEND: Mailbox.CreateMessage.                                          *)
(***************************************************************************)

Appending(x) == IF x.flags = <<>> THEN Ready(x.box) ELSE x

AppendCreate(s) ==
  /\ session[s].pc = "ready"
  /\ \E box \in boxes, m \in Messages, flags \in FlagLists :
       /\ delivery[m].pc = "outside" /\ CreateAllowed(box)
       /\ Change(MailCreate(mails, box, m), {})
       /\ delivery' = [delivery EXCEPT ![m] = Delivery("done")]
       /\ asked' = [asked EXCEPT ![m] = {flags[k] : k \in DOMAIN flags}]
       /\ session' = [session EXCEPT ![s] = Appending(
            [@ EXCEPT !.pc = "append", !.flags = flags,
                      !.row = [mailbox |-> box, id |-> MailNextID(mails, box),
                               mail |-> m, flags |-> {}]])]
  /\ Command
  /\ UNCHANGED <<boxes, told>>

\* One call for each flag, which sets that flag and clears the others.
AppendFlag(s) ==
  /\ session[s].pc = "append"
  /\ Change(MailUpdateFlags(mails, session[s].row.mailbox, session[s].row.id,
                            {Head(session[s].flags)}), {})
  /\ session' = [session EXCEPT ![s] =
                   Appending([session[s] EXCEPT !.flags = Tail(@)])]
  /\ UNCHANGED <<boxes, delivery, told, asked, commands>>

-----------------------------------------------------------------------------
(***************************************************************************)
(* Sequence sets: Mailbox.getIDsFromSeqSet.                                *)
(***************************************************************************)

\* What follows without a storage call.  The loop over the ids, or the end of
\* the command when there are none ...
Loop(x) == IF x.ids = <<>> THEN Ready(x.box) ELSE [x EXCEPT !.pc = x.cmd.kind]

\* ... before it the next range of the set ...
NextRange(x) == IF x.set = <<>> THEN Loop(x) ELSE [x EXCEPT !.pc = "range"]

\* ... and before that the next number of a range that is not used up.
NextNumber(x) ==
  IF x.set[1].start <= x.set[1].stop THEN [x EXCEPT !.pc = "number"]
  ELSE NextRange([x EXCEPT !.set = Tail(@)])

\* CopyMessages and MoveMessages refuse Outbox before they do anything.
Start(s) ==
  /\ session[s].pc = "ready" /\ session[s].box # None
  /\ \E cmd \in Commands :
       /\ cmd.kind \in {"copy", "move"} => cmd.dest # "Outbox"
       /\ session' = [session EXCEPT ![s] =
            NextRange([Ready(@.box) EXCEPT !.cmd = cmd, !.set = cmd.set])]
  /\ Command
  /\ UNCHANGED <<tables, delivery, histories>>

Ends(s) == session' = [session EXCEPT ![s] = Ready(@.box)]

\* "*" as the end of a range is the greatest id, also where the range is one
\* of sequence numbers.
Stop(s) ==
  IF session[s].set[1].stop = 0 THEN MailNextID(mails, session[s].box) - 1
  ELSE session[s].set[1].stop

\* A range of uids is taken as it is.
RangeUids(s) ==
  /\ session[s].pc = "range" /\ session[s].cmd.uid
  /\ LET start == session[s].set[1].start
         uids  == [k \in 1..(Stop(s) - start + 1) |-> start + k - 1]
     IN session' = [session EXCEPT ![s] =
          NextRange([session[s] EXCEPT !.ids = @ \o uids, !.set = Tail(@)])]
  /\ UNCHANGED <<tables, delivery, histories, commands>>

RangeNumbers(s) ==
  /\ session[s].pc = "range" /\ ~session[s].cmd.uid
  /\ session' = [session EXCEPT ![s] =
                   NextNumber([session[s] EXCEPT !.set[1].stop = Stop(s)])]
  /\ UNCHANGED <<tables, delivery, histories, commands>>

\* The mail that a sequence number stands for now.
NumberID(s) ==
  MailIDForSeq(mails, session[s].box, session[s].set[1].start)

Number(s) ==
  /\ session[s].pc = "number"
  /\ \E id \in NumberID(s) :
       session' = [session EXCEPT ![s] =
         NextNumber([session[s] EXCEPT !.ids = Append(@, id),
                                       !.set[1].start = @ + 1])]
  /\ UNCHANGED <<tables, delivery, histories, commands>>

\* sql.ErrNoRows ends the command.
NumberMissing(s) ==
  /\ session[s].pc = "number" /\ NumberID(s) = {}
  /\ Ends(s)
  /\ UNCHANGED <<tables, delivery, histories, commands>>

-----------------------------------------------------------------------------
(***************************************************************************)
(* The loops over the ids.                                                 *)
(***************************************************************************)

\* What MailSelect finds for the next id.
Found(s) == MailSelect(mails, session[s].box, Head(session[s].ids))

NextID(s) ==
  session' = [session EXCEPT ![s] =
                Loop([session[s] EXCEPT !.ids = Tail(@), !.row = None])]

\* Mutant: the sequence number is reported as uid.
FetchTellsSeq(s) ==
  /\ session[s].pc = "fetch"
  /\ told' = told \cup
       {[box |-> r.mailbox, mail |-> r.mail,
         uid |-> Cardinality({i \in IDs(mails, r.mailbox) : i <= r.id})] :
          r \in Found(s)}
  /\ NextID(s)
  /\ UNCHANGED <<tables, delivery, uidnext, asked, commands>>

\* ListMessages: an id that is not there is passed over, and so is one whose
\* mail cannot be read.
Fetch(s) ==
  /\ session[s].pc = "fetch"
  /\ \E read \in {Found(s), {}} :
       told' = told \cup
         {[box |-> r.mailbox, uid |-> r.id, mail |-> r.mail] : r \in read}
  /\ NextID(s)
  /\ UNCHANGED <<tables, delivery, uidnext, asked, commands>>

\* Mutant: "if err != nil" is missing in UpdateMessagesFlags.
MissingGoesOn(s) ==
  /\ session[s].pc = "store" /\ session[s].cmd.op # "set"
  /\ Found(s) = {}
  /\ session' = [session EXCEPT ![s].pc = "update"]
  /\ UNCHANGED <<tables, delivery, histories, commands>>

\* UpdateMessagesFlags and CopyMessages: it ends the command.
Missing(s) ==
  /\ session[s].pc \in {"copy", "store"}
  /\ session[s].pc = "store" => session[s].cmd.op # "set"
  /\ Found(s) = {}
  /\ Ends(s)
  /\ UNCHANGED <<tables, delivery, histories, commands>>

\* STORE FLAGS does not read the mail and goes on with a nil one: go-imap
\* recovers from the panic and closes the connection.
StorePanics(s) ==
  /\ session[s].pc = "store" /\ session[s].cmd.op = "set"
  /\ session' = [session EXCEPT ![s] = Ready(None)]
  /\ UNCHANGED <<tables, delivery, histories, commands>>

\* STORE +FLAGS and -FLAGS read the mail and its flags ...
StoreRead(s) ==
  /\ session[s].pc = "store" /\ session[s].cmd.op # "set"
  /\ \E r \in Found(s) :
       /\ session' = [session EXCEPT ![s].pc = "update", ![s].row = r]
       /\ asked' = IF session[s].cmd.op = "add"
                   THEN [asked EXCEPT ![r.mail] = @ \cup session[s].cmd.flags]
                   ELSE asked
  /\ UNCHANGED <<tables, delivery, told, uidnext, commands>>

\* Mutant: "mail.Seen = true" whatever the operation.
NewFlagsAdds(row, cmd) == row.flags \cup cmd.flags

NewFlags(row, cmd) ==
  IF cmd.op = "remove" THEN row.flags \ cmd.flags ELSE row.flags \cup cmd.flags

\* ... and write all of them back.
StoreUpdate(s) ==
  /\ session[s].pc = "update"
  /\ Change(MailUpdateFlags(mails, session[s].box, session[s].row.id,
                            NewFlags(session[s].row, session[s].cmd)), {})
  /\ NextID(s)
  /\ UNCHANGED <<boxes, delivery, told, asked, commands>>

\* COPY reads the mail ...
CopyRead(s) ==
  /\ session[s].pc = "copy"
  /\ \E r \in Found(s) :
       session' = [session EXCEPT ![s].pc = "create", ![s].row = r]
  /\ UNCHANGED <<tables, delivery, histories, commands>>

\* ... creates another one in the destination ...
CopyCreate(s) ==
  /\ session[s].pc = "create" /\ CreateAllowed(session[s].cmd.dest)
  /\ Change(MailCreate(mails, session[s].cmd.dest, session[s].row.mail), {})
  /\ session' = [session EXCEPT ![s].pc = "copyflags",
                   ![s].row.id = MailNextID(mails, session[s].cmd.dest)]
  /\ UNCHANGED <<boxes, delivery, told, asked, commands>>

\* ... and sets the flags of the mail that has the new id in the mailbox that
\* was copied from.
CopyFlags(s) ==
  /\ session[s].pc = "copyflags"
  /\ Change(MailUpdateFlags(mails, session[s].box, session[s].row.id,
                            session[s].row.flags), {session[s].box})
  /\ NextID(s)
  /\ UNCHANGED <<boxes, delivery, told, asked, commands>>

\* Mutant: UPDATE OR REPLACE, which takes away the mail that has the key.
MoveReplaces(s) ==
  /\ session[s].pc = "move"
  /\ LET id == Head(session[s].ids)
         dest == session[s].cmd.dest
     IN /\ dest \in boxes /\ Found(s) # {} /\ dest # session[s].box
        /\ Change(MailMove(mails \ MailSelect(mails, dest, id),
                           session[s].box, id, dest), {dest})
  /\ NextID(s)
  /\ UNCHANGED <<boxes, delivery, told, asked, commands>>

\* MailMove; what MoveMessages then does to the queue concerns no row (see
\* QueueDeleteDestinationForID).
Move(s) ==
  /\ session[s].pc = "move"
  /\ LET id == Head(session[s].ids)
         dest == session[s].cmd.dest
     IN /\ MailMoveAllowed(mails, boxes, session[s].box, id, dest)
        /\ Change(MailMove(mails, session[s].box, id, dest), {dest})
  /\ NextID(s)
  /\ UNCHANGED <<boxes, delivery, told, asked, commands>>

\* A storage call fails, for one of the reasons of CreateAllowed and
\* MailMoveAllowed or for another: the command ends half way.
Fails(s) ==
  /\ session[s].pc \notin {"ready", "fetch"}
  /\ Ends(s)
  /\ UNCHANGED <<tables, delivery, histories, commands>>

-----------------------------------------------------------------------------

\* A step of the command that the session is working on.
Step(s) ==
  \/ AppendFlag(s) \/ RangeUids(s) \/ RangeNumbers(s) \/ Number(s)
  \/ NumberMissing(s) \/ Fetch(s) \/ Missing(s) \/ StorePanics(s)
  \/ StoreRead(s) \/ StoreUpdate(s) \/ CopyRead(s) \/ CopyCreate(s)
  \/ CopyFlags(s) \/ Move(s)

Next ==
  \/ \E s \in Sessions :
       Select(s) \/ Start(s) \/ Expunge(s) \/ AppendCreate(s) \/ Step(s)
         \/ Fails(s)
  \/ \E m \in Messages :
       Deliver(m) \/ NotifyNew(m)
  \/ CreateMailbox \/ DeleteMailbox \/ RenameMailbox \/ Restart

Spec == Init /\ [][Next]_vars

-----------------------------------------------------------------------------
(***************************************************************************)
(* Properties.                                                             *)
(***************************************************************************)

Row == [mailbox : Names, id : Nat \ {0}, mail : Messages, flags : SUBSET Flag]
LoopPC == {"fetch", "store", "copy", "move"}
Local ==
  [pc : LoopPC \cup {"ready", "append", "range", "number", "update", "create",
                     "copyflags"},
   box : Names \cup {None}, cmd : Commands \cup {None}, set : Seq(Ranges),
   ids : Seq(Nat), row : Row \cup {None}, flags : Seq(Flag)]
SessionType ==
  {x \in Local :
     /\ x.pc \notin {"ready", "append"} => x.box \in Names /\ x.cmd \in Commands
     /\ x.pc \in {"append", "update", "create", "copyflags"} => x.row \in Row
     /\ x.pc = "append" => x.flags # <<>>
     /\ x.pc \in {"range", "number"} <=> x.set # <<>>
     /\ x.pc \in LoopPC \cup {"update", "create", "copyflags"} => x.ids # <<>>
     /\ x.pc \in LoopPC => x.pc = x.cmd.kind}

\* The types of the tables and of the locals of commands and deliveries.
TypeOK ==
  /\ boxes \subseteq Names
  /\ mails \subseteq Row
  /\ session \in [Sessions -> SessionType]
  /\ delivery \in [Messages ->
       [pc : {"outside", "notify", "done"}, id : Nat]]
  /\ told \subseteq [box : Names, uid : Nat, mail : Messages]
  /\ asked \in [Messages -> SUBSET Flag]
  /\ uidnext \in Nat

\* The keys of the mails table, across COPY, MOVE and changes of the mailboxes
\* that commands under way work on: every mail is in a mailbox that exists,
\* and its id there is its own.
KeysHold ==
  /\ \A r \in mails : r.mailbox \in boxes
  /\ \A r, x \in mails : r.mailbox = x.mailbox /\ r.id = x.id => r = x

\* No command loses a message, not even one that fails half way or whose
\* mailbox is renamed meanwhile: a message leaves the store only with its
\* mailbox, or by an expunge when it is marked.
MessagesKept ==
  [][\A r \in mails :
       \/ \E x \in mails' : x.mail = r.mail
       \/ "Deleted" \in r.flags
       \/ r.mailbox \notin boxes']_vars

\* As long as the last message of a mailbox stays and nothing is copied from,
\* moved to or renamed to the mailbox, a uid that FETCH has reported (with
\* UIDVALIDITY 1 for ever) never comes to mean another message.
UidsStable ==
  \A t, u \in told :
    t.box = u.box /\ t.uid = u.uid /\ t.box \notin recycled => t.mail = u.mail

\* In such a mailbox a message has only flags that a client asked it to have,
\* however STOREs, expunges and arrivals interleave.
FlagsAskedFor ==
  \A r \in mails : r.mailbox \notin recycled => r.flags \subseteq asked[r.mail]

\* A message has only flags that a client asked it to have: "the mail has
\* been read", "the email is marked for deletion".
FlagsAreClients == \A r \in mails : r.flags \subseteq asked[r.mail]

\* A message that comes to INBOX has at least the UIDNEXT that clients were
\* told, in whatever order deliveries store, SELECTs look and announcements go
\* out: as long as the last message of INBOX stays and no other command puts
\* mail there.
UidNextHolds ==
  [][\A id \in IDs(mails', "INBOX") \ IDs(mails, "INBOX") : id >= uidnext']_vars
=============================================================================
