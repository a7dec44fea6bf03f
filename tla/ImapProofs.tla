----------------------------- MODULE ImapProofs -----------------------------
(***************************************************************************)
(* Theorems about ImapServer, for any number of sessions, mailboxes and    *)
(* messages and any commands.                                              *)
(***************************************************************************)
EXTENDS ImapServer, StoreFacts, SequenceTheorems

\* The keys: StoreFacts has what the statements keep of the primary key, and
\* every mail is in a mailbox that exists.
KeysInv == IsMailTable(mails) /\ \A r \in mails : r.mailbox \in boxes

\* A message that is stored is stored afterwards.
Kept(r) == \E x \in mails' : x.mail = r.mail

-----------------------------------------------------------------------------
(***************************************************************************)
(* What each statement does, with the mailboxes as they are then: it keeps *)
(* the keys and the messages.                                              *)
(***************************************************************************)

LEMMA CreateStep ==
  ASSUME KeysInv, NEW box \in boxes, NEW data,
         mails' = MailCreate(mails, box, data), UNCHANGED boxes
  PROVE  KeysInv' /\ \A r \in mails : Kept(r)
<1>1. IsMailTable(mails')
  BY CreateKeepsTable DEF KeysInv
<1>2. \A r \in mails' : r.mailbox \in boxes
  BY DEF KeysInv, MailCreate
<1>3. \A r \in mails : Kept(r)
  BY DEF MailCreate, Kept
<1> QED
  BY <1>1, <1>2, <1>3 DEF KeysInv

LEMMA UpdateStep ==
  ASSUME KeysInv, NEW box, NEW id, NEW flags,
         mails' = MailUpdateFlags(mails, box, id, flags), UNCHANGED boxes
  PROVE  KeysInv' /\ \A r \in mails : Kept(r)
<1>1. IsMailTable(mails')
  BY UpdateKeepsTable DEF KeysInv
<1>2. /\ \A x \in mails' : \E r \in mails : x.mailbox = r.mailbox
      /\ \A r \in mails : \E x \in mails' : x.mail = r.mail
  BY UpdateKeepsRows DEF KeysInv, IsMailTable
<1> QED
  BY <1>1, <1>2 DEF KeysInv, Kept

LEMMA MoveStep ==
  ASSUME KeysInv, NEW box, NEW id, NEW dest,
         MailMoveAllowed(mails, boxes, box, id, dest),
         mails' = MailMove(mails, box, id, dest), UNCHANGED boxes
  PROVE  KeysInv' /\ \A r \in mails : Kept(r)
<1> DEFINE New(r) == IF r.mailbox = box /\ r.id = id
                     THEN [r EXCEPT !.mailbox = dest] ELSE r
<1>1. mails' = {New(r) : r \in mails}
  BY DEF MailMove
<1>2. \A r \in mails : IsRow(r) /\ r.mailbox \in boxes
  BY DEF KeysInv, IsMailTable
<1>3. ASSUME NEW r \in mails PROVE New(r).mail = r.mail /\ New(r).mailbox \in boxes
  <2>1. CASE r.mailbox = box /\ r.id = id
    <3>1. dest \in boxes
      BY <1>2, <2>1 DEF MailMoveAllowed, MailSelect
    <3> QED
      BY <1>2, <2>1, <3>1, RowMailbox
  <2>2. CASE ~(r.mailbox = box /\ r.id = id)
    BY <1>2, <2>2
  <2> QED
    BY <2>1, <2>2
<1>4. IsMailTable(mails')
  BY MoveKeepsTable DEF KeysInv
<1> HIDE DEF New
<1> QED
  BY <1>1, <1>3, <1>4 DEF KeysInv, Kept

LEMMA RenameStep ==
  ASSUME KeysInv, NEW existing, existing \notin boxes, NEW new \in boxes,
         mails' = MailboxRename(mails, new, existing),
         boxes' = (boxes \ {new}) \cup {existing}
  PROVE  KeysInv' /\ \A r \in mails : Kept(r)
<1> DEFINE New(r) == IF r.mailbox = new THEN [r EXCEPT !.mailbox = existing] ELSE r
<1>1. mails' = {New(r) : r \in mails}
  BY DEF MailboxRename
<1>2. \A r \in mails : IsRow(r) /\ r.mailbox \in boxes
  BY DEF KeysInv, IsMailTable
<1>3. \A r \in mails : New(r).mail = r.mail /\ New(r).mailbox \in boxes'
  BY <1>2, RowMailbox
<1>4. IsMailTable(mails')
  BY <1>2, RenameKeepsTable DEF KeysInv
<1> HIDE DEF New
<1> QED
  BY <1>1, <1>3, <1>4 DEF KeysInv, Kept

-----------------------------------------------------------------------------

\* The actions that change mails or boxes.
LEMMA TablesFrame ==
  ASSUME [Next]_vars
  PROVE  \/ UNCHANGED <<boxes, mails>>
         \/ \E s \in Sessions : \/ Expunge(s) \/ AppendCreate(s) \/ AppendFlag(s)
                               \/ StoreUpdate(s) \/ CopyCreate(s) \/ CopyFlags(s)
                               \/ Move(s)
         \/ \E m \in Messages : Deliver(m)
         \/ CreateMailbox \/ DeleteMailbox \/ RenameMailbox \/ Restart
  BY DEF Next, Step, vars, tables, Select, Start, RangeUids, RangeNumbers,
         Number, NumberMissing, Fetch, Missing, StorePanics, StoreRead, CopyRead,
         Fails, NotifyNew

\* Every step keeps the keys, and a message leaves the store only with its
\* mailbox, or by an expunge when it is marked.
LEMMA TablesStep ==
  ASSUME KeysInv, [Next]_vars
  PROVE  /\ KeysInv'
         /\ \A r \in mails : \/ Kept(r)
                             \/ "Deleted" \in r.flags
                             \/ r.mailbox \notin boxes'
<1>1. CASE UNCHANGED <<boxes, mails>>
  BY <1>1 DEF KeysInv, Kept
<1>2. ASSUME NEW s \in Sessions, Expunge(s)
      PROVE  KeysInv' /\ \A r \in mails : Kept(r) \/ "Deleted" \in r.flags
  <2>1. mails' = MailExpunge(mails, session[s].box) /\ UNCHANGED boxes
    BY <1>2 DEF Expunge, Change
  <2>2. mails' \in SUBSET mails
    BY <2>1 DEF MailExpunge
  <2>3. IsMailTable(mails')
    BY <2>2, FewerRows DEF KeysInv
  <2>4. \A r \in mails : "Deleted" \in r.flags \/ r \in mails'
    BY <2>1 DEF MailExpunge
  <2> QED
    BY <2>1, <2>2, <2>3, <2>4 DEF KeysInv, Kept
<1>3. ASSUME NEW s \in Sessions, AppendCreate(s)
      PROVE  KeysInv' /\ \A r \in mails : Kept(r)
  <2>1. PICK box \in boxes, m \in Messages : mails' = MailCreate(mails, box, m)
    BY <1>3 DEF AppendCreate, Change
  <2>2. UNCHANGED boxes
    BY <1>3 DEF AppendCreate
  <2> QED
    BY <2>1, <2>2, CreateStep
<1>4. ASSUME NEW s \in Sessions, AppendFlag(s) \/ StoreUpdate(s) \/ CopyFlags(s)
      PROVE  KeysInv' /\ \A r \in mails : Kept(r)
  <2>1. \E box, id, flags : mails' = MailUpdateFlags(mails, box, id, flags)
    BY <1>4 DEF AppendFlag, StoreUpdate, CopyFlags, Change
  <2>2. UNCHANGED boxes
    BY <1>4 DEF AppendFlag, StoreUpdate, CopyFlags
  <2> QED
    BY <2>1, <2>2, UpdateStep
<1>5. ASSUME NEW s \in Sessions, CopyCreate(s)
      PROVE  KeysInv' /\ \A r \in mails : Kept(r)
  <2>1. /\ session[s].cmd.dest \in boxes /\ UNCHANGED boxes
        /\ mails' = MailCreate(mails, session[s].cmd.dest, session[s].row.mail)
    BY <1>5 DEF CopyCreate, CreateAllowed, Change
  <2> QED
    BY <2>1, CreateStep
<1>6. ASSUME NEW s \in Sessions, Move(s)
      PROVE  KeysInv' /\ \A r \in mails : Kept(r)
  <2>1. \E id, dest :
          /\ MailMoveAllowed(mails, boxes, session[s].box, id, dest)
          /\ mails' = MailMove(mails, session[s].box, id, dest)
    BY <1>6 DEF Move, Change
  <2>2. UNCHANGED boxes
    BY <1>6 DEF Move
  <2> QED
    BY <2>1, <2>2, MoveStep
<1>7. ASSUME NEW m \in Messages, Deliver(m)
      PROVE  KeysInv' /\ \A r \in mails : Kept(r)
  <2>1. /\ "INBOX" \in boxes /\ UNCHANGED boxes
        /\ mails' = MailCreate(mails, "INBOX", m)
    BY <1>7 DEF Deliver, CreateAllowed, Change
  <2> QED
    BY <2>1, CreateStep
<1>8. CASE CreateMailbox \/ Restart
  BY <1>8 DEF CreateMailbox, Restart, KeysInv, Kept
<1>9. CASE DeleteMailbox
  <2>1. PICK name \in boxes : /\ boxes' = boxes \ {name}
                              /\ mails' = MailboxDelete(mails, name)
    BY <1>9 DEF DeleteMailbox, Change
  <2>2. mails' \in SUBSET mails
    BY <2>1 DEF MailboxDelete
  <2>3. IsMailTable(mails')
    BY <2>2, FewerRows DEF KeysInv
  <2>4. \A r \in mails : r.mailbox \notin boxes' \/ r \in mails'
    BY <2>1 DEF MailboxDelete, KeysInv
  <2>5. \A r \in mails' : r.mailbox \in boxes'
    BY <2>1, <2>2 DEF MailboxDelete, KeysInv
  <2> QED
    BY <2>3, <2>4, <2>5 DEF KeysInv, Kept
<1>10. CASE RenameMailbox
  <2>1. PICK existing \in Names \ (Protected \cup boxes), new \in boxes :
          /\ boxes' = (boxes \ {new}) \cup {existing}
          /\ mails' = MailboxRename(mails, new, existing)
    BY <1>10 DEF RenameMailbox, Change
  <2> QED
    BY <2>1, RenameStep
<1> QED
  BY <1>1, <1>2, <1>3, <1>4, <1>5, <1>6, <1>7, <1>8, <1>9, <1>10, TablesFrame

LEMMA KeysInit == Init => KeysInv
<1>1. Init => mails = {} /\ 0 \in Nat
  BY DEF Init
<1> QED
  BY <1>1 DEF KeysInv, IsMailTable, Bounded, UniqueKeys

-----------------------------------------------------------------------------

\* However commands, changes of the mailboxes they work on, deliveries and
\* restarts interleave: every mail is in a mailbox that exists, and its id
\* there is its own.
THEOREM ImapKeysHold == Spec => []KeysHold
<1>1. KeysInv => KeysHold
  BY DEF KeysInv, IsMailTable, UniqueKeys, KeysHold
<1>2. KeysInv /\ [Next]_vars => KeysInv'
  BY TablesStep
<1> QED
  BY <1>1, <1>2, KeysInit, PTL DEF Spec

\* No command loses a message, not even one that fails half way: a message
\* leaves the store only with its mailbox, or by an expunge when it is marked.
THEOREM ImapMessagesKept == Spec => MessagesKept
<1>1. KeysInv /\ [Next]_vars => KeysInv'
  BY TablesStep
<1>2. KeysInv /\ [Next]_vars =>
        [\A r \in mails :
           \/ \E x \in mails' : x.mail = r.mail
           \/ "Deleted" \in r.flags
           \/ r.mailbox \notin boxes']_vars
  BY TablesStep DEF Kept
<1> QED
  BY <1>1, <1>2, KeysInit, PTL DEF Spec, MessagesKept

-----------------------------------------------------------------------------
(***************************************************************************)
(* Uids.  In a mailbox whose ids are not given again, MailCreate never     *)
(* goes back: what was told of an id, and the id after the last, stays     *)
(* true.                                                                   *)
(***************************************************************************)

\* A row was there before, apart from its flags.
Old(x) ==
  \E r \in mails : x.mailbox = r.mailbox /\ x.id = r.id /\ x.mail = r.mail

\* Where ids are not given again a row is an old one, or its id is new.
RowsFromHere ==
  \A x \in mails' :
    x.mailbox \notin recycled' => Old(x) \/ x.id >= MailNextID(mails, x.mailbox)

NextInv ==
  /\ uidnext \in Nat /\ uidnext <= MailNextID(mails, "INBOX")
  /\ delivery = [m \in Messages |-> delivery[m]]
  /\ \A m \in Messages :
       delivery[m].pc = "notify" /\ "INBOX" \notin recycled =>
         delivery[m].id \in Nat /\ delivery[m].id < MailNextID(mails, "INBOX")

\* In a mailbox whose ids are not given again, the id uid was given to the
\* mail, and names it or nothing.
Means(box, uid, mail) ==
  /\ box \in Names
  /\ box \notin recycled =>
       /\ uid \in Nat /\ uid < MailNextID(mails, box)
       /\ \A r \in mails : r.mailbox = box /\ r.id = uid => r.mail = mail

ToldInv == \A t \in told : Means(t.box, t.uid, t.mail)

\* The inductive invariant.
UidInv ==
  KeysInv /\ boxes \subseteq Names /\ NextInv /\ ToldInv /\ UidsStable

LEMMA MaxOfTwo ==
  ASSUME NEW a \in Nat, NEW b \in Nat
  PROVE  Max({a, b}) \in {a, b} /\ a <= Max({a, b}) /\ b <= Max({a, b})
<1>1. {a, b} \in SUBSET Nat /\ {a, b} # {} /\ \A x \in {a, b} : x <= a + b
  OBVIOUS
<1>2. a + b \in Nat
  OBVIOUS
<1> QED
  BY <1>1, <1>2, MaxOfBounded

LEMMA NextIDType ==
  ASSUME KeysInv, NEW b
  PROVE  /\ MailNextID(mails, b) \in Nat \ {0}
         /\ \A r \in mails : r.mailbox = b => r.id < MailNextID(mails, b)
  BY NextIDIsNew DEF KeysInv, IsMailTable

\* What changes the table does it through Change.
LEMMA ChangeFrame ==
  ASSUME [Next]_vars
  PROVE  \/ UNCHANGED <<mails, recycled>>
         \/ \E more : Change(mails', more)
<1>1. ASSUME NEW rows, NEW more, Change(rows, more)
      PROVE  \E x : Change(mails', x)
  BY <1>1 DEF Change
<1>2. ASSUME NEW s \in Sessions, Expunge(s) \/ AppendFlag(s) \/ StoreUpdate(s)
      PROVE  \E rows, more : Change(rows, more)
  BY <1>2 DEF Expunge, AppendFlag, StoreUpdate
<1>3. ASSUME NEW s \in Sessions,
             AppendCreate(s) \/ CopyCreate(s) \/ CopyFlags(s) \/ Move(s)
      PROVE  \E rows, more : Change(rows, more)
  BY <1>3 DEF AppendCreate, CopyCreate, CopyFlags, Move
<1>4. ASSUME (\E m \in Messages : Deliver(m)) \/ DeleteMailbox \/ RenameMailbox
      PROVE  \E rows, more : Change(rows, more)
  BY <1>4 DEF Deliver, DeleteMailbox, RenameMailbox
<1> QED
  BY <1>1, <1>2, <1>3, <1>4
  DEF Next, Step, vars, tables, Select, Start, RangeUids, RangeNumbers,
      Number, NumberMissing, Fetch, Missing, StorePanics, StoreRead, CopyRead,
      Fails, NotifyNew, CreateMailbox, Restart

LEMMA RecycledGrows ==
  ASSUME [Next]_vars PROVE recycled \subseteq recycled'
  BY ChangeFrame DEF Change

\* The id after the last never goes back.
LEMMA NextIDGrows ==
  ASSUME KeysInv, KeysInv', [Next]_vars, NEW b \in Names, b \notin recycled'
  PROVE  b \notin recycled /\ MailNextID(mails, b) <= MailNextID(mails', b)
<1>1. /\ MailNextID(mails, b) \in Nat \ {0} /\ MailNextID(mails', b) \in Nat \ {0}
      /\ \A r \in mails' : r.mailbox = b => r.id < MailNextID(mails', b)
  BY NextIDIsNew DEF KeysInv, IsMailTable
<1>2. CASE UNCHANGED <<mails, recycled>>
  BY <1>1, <1>2
<1>3. CASE \E more : Change(mails', more)
  <2>1. b \notin recycled /\ ~LastLeaves(b, mails')
    BY <1>3 DEF Change
  <2>2. CASE IDs(mails, b) = {}
    BY <1>1, <2>1, <2>2 DEF MailNextID
  <2>3. CASE IDs(mails, b) # {} /\ Max(IDs(mails, b)) \in IDs(mails', b)
    <3>1. PICK r \in mails' : r.mailbox = b /\ r.id = Max(IDs(mails, b))
      BY <2>3 DEF IDs
    <3>2. r.id \in Nat /\ r.id < MailNextID(mails', b)
      BY <1>1, <3>1 DEF KeysInv, IsMailTable, IsRow
    <3>3. MailNextID(mails, b) = r.id + 1
      BY <2>3, <3>1 DEF MailNextID
    <3> QED
      BY <1>1, <2>1, <3>2, <3>3
  <2> QED
    BY <2>1, <2>2, <2>3 DEF LastLeaves
<1> QED
  BY <1>2, <1>3, ChangeFrame

LEMMA CreateRows ==
  ASSUME KeysInv, NEW box, NEW data, mails' = MailCreate(mails, box, data)
  PROVE  RowsFromHere
<1>1. MailNextID(mails, box) \in Nat
  BY NextIDType
<1> QED
  BY <1>1 DEF MailCreate, RowsFromHere, Old

LEMMA MoveRows ==
  ASSUME KeysInv, NEW box, NEW id, NEW dest
  PROVE  \A x \in MailMove(mails, box, id, dest) : x \in mails \/ x.mailbox = dest
<1> DEFINE New(r) == IF r.mailbox = box /\ r.id = id
                     THEN [r EXCEPT !.mailbox = dest] ELSE r
<1>1. \A r \in mails : New(r) = r \/ New(r).mailbox = dest
  BY RowMailbox DEF KeysInv, IsMailTable
<1>2. MailMove(mails, box, id, dest) = {New(r) : r \in mails}
  BY DEF MailMove
<1> HIDE DEF New
<1> QED
  BY <1>1, <1>2

LEMMA RenameRows ==
  ASSUME KeysInv, NEW from, NEW to
  PROVE  \A x \in MailboxRename(mails, from, to) : x \in mails \/ x.mailbox = to
<1> DEFINE New(r) == IF r.mailbox = from THEN [r EXCEPT !.mailbox = to] ELSE r
<1>1. \A r \in mails : New(r) = r \/ New(r).mailbox = to
  BY RowMailbox DEF KeysInv, IsMailTable
<1>2. MailboxRename(mails, from, to) = {New(r) : r \in mails}
  BY DEF MailboxRename
<1> HIDE DEF New
<1> QED
  BY <1>1, <1>2

LEMMA RowsStep ==
  ASSUME KeysInv, [Next]_vars
  PROVE  RowsFromHere
<1>1. CASE UNCHANGED mails
  BY <1>1 DEF RowsFromHere, Old
<1>2. CASE DeleteMailbox \/ \E s \in Sessions : Expunge(s)
  <2>1. mails' \in SUBSET mails
    BY <1>2 DEF DeleteMailbox, Expunge, Change, MailboxDelete, MailExpunge
  <2> QED
    BY <2>1 DEF RowsFromHere, Old
<1>3. CASE \/ \E s \in Sessions : AppendCreate(s) \/ CopyCreate(s)
           \/ \E m \in Messages : Deliver(m)
  <2>1. \E box, data : mails' = MailCreate(mails, box, data)
    BY <1>3 DEF AppendCreate, CopyCreate, Deliver, Change
  <2> QED
    BY <2>1, CreateRows
<1>4. CASE \E s \in Sessions : AppendFlag(s) \/ StoreUpdate(s) \/ CopyFlags(s)
  <2>1. PICK box, id, flags : mails' = MailUpdateFlags(mails, box, id, flags)
    BY <1>4 DEF AppendFlag, StoreUpdate, CopyFlags, Change
  <2>2. \A x \in mails' : Old(x)
    BY <2>1, UpdateKeepsRows DEF KeysInv, IsMailTable, Old
  <2> QED
    BY <2>2 DEF RowsFromHere
<1>5. CASE \E s \in Sessions : Move(s)
  <2>1. PICK box, id, dest : /\ mails' = MailMove(mails, box, id, dest)
                            /\ dest \in recycled'
    BY <1>5 DEF Move, Change
  <2>2. \A x \in mails' : x \in mails \/ x.mailbox = dest
    BY <2>1, MoveRows
  <2> QED
    BY <2>1, <2>2 DEF RowsFromHere, Old
<1>6. CASE RenameMailbox
  <2>1. PICK existing, new : /\ mails' = MailboxRename(mails, new, existing)
                            /\ existing \in recycled'
    BY <1>6 DEF RenameMailbox, Change
  <2>2. \A x \in mails' : x \in mails \/ x.mailbox = existing
    BY <2>1, RenameRows
  <2> QED
    BY <2>1, <2>2 DEF RowsFromHere, Old
<1>7. CASE CreateMailbox \/ Restart
  BY <1>1, <1>7 DEF CreateMailbox, Restart
<1> QED
  BY <1>1, <1>2, <1>3, <1>4, <1>5, <1>6, <1>7, TablesFrame

LEMMA BoxesStep ==
  ASSUME boxes \subseteq Names, [Next]_vars
  PROVE  boxes' \subseteq Names
<1>1. CASE CreateMailbox \/ DeleteMailbox \/ RenameMailbox \/ Restart
  BY <1>1, ImapAssumption
  DEF CreateMailbox, DeleteMailbox, RenameMailbox, Restart
<1>2. CASE \E s \in Sessions :
             \/ Expunge(s) \/ AppendCreate(s) \/ AppendFlag(s)
             \/ StoreUpdate(s) \/ CopyCreate(s) \/ CopyFlags(s) \/ Move(s)
  BY <1>2 DEF Expunge, AppendCreate, AppendFlag, StoreUpdate, CopyCreate,
              CopyFlags, Move
<1>3. CASE \E m \in Messages : Deliver(m)
  BY <1>3 DEF Deliver
<1> QED
  BY <1>1, <1>2, <1>3, TablesFrame

\* Where uidnext and the deliveries change.
LEMMA ChangeKeepsNext ==
  ASSUME [Next]_vars, ~(\E s \in Sessions : Select(s)),
         ~(\E m \in Messages : NotifyNew(m))
  PROVE  uidnext' = uidnext \/ uidnext' = 0
<1>1. ASSUME NEW rows, NEW more, Change(rows, more)
      PROVE  uidnext' = uidnext \/ uidnext' = 0
  BY <1>1 DEF Change
<1>2. ASSUME NEW s \in Sessions, Expunge(s) \/ AppendFlag(s) \/ StoreUpdate(s)
      PROVE  \E rows, more : Change(rows, more)
  BY <1>2 DEF Expunge, AppendFlag, StoreUpdate
<1>3. ASSUME NEW s \in Sessions,
             AppendCreate(s) \/ CopyCreate(s) \/ CopyFlags(s) \/ Move(s)
      PROVE  \E rows, more : Change(rows, more)
  BY <1>3 DEF AppendCreate, CopyCreate, CopyFlags, Move
<1>4. ASSUME (\E m \in Messages : Deliver(m)) \/ DeleteMailbox \/ RenameMailbox
      PROVE  \E rows, more : Change(rows, more)
  BY <1>4 DEF Deliver, DeleteMailbox, RenameMailbox
<1> QED
  BY <1>1, <1>2, <1>3, <1>4
  DEF Next, Step, vars, histories, Start, RangeUids, RangeNumbers, Number,
      NumberMissing, Fetch, Missing, StorePanics, StoreRead, CopyRead, Fails,
      CreateMailbox, Restart

LEMMA DeliveryFrame ==
  ASSUME [Next]_vars
  PROVE  \/ UNCHANGED delivery
         \/ \E m \in Messages : Deliver(m) \/ NotifyNew(m)
         \/ \E s \in Sessions : AppendCreate(s)
         \/ Restart
  BY DEF Next, Step, vars, Select, Expunge, CreateMailbox, DeleteMailbox,
         RenameMailbox, AppendFlag, Start, RangeUids, RangeNumbers, Number,
         NumberMissing, Fetch, Missing, StorePanics, StoreRead, StoreUpdate,
         CopyRead, CopyCreate, CopyFlags, Move, Fails

\* What is announced is at most what MailCreate will give.
LEMMA AnnounceStep ==
  ASSUME KeysInv, NextInv, NEW next \in Nat, Announce(next),
         "INBOX" \notin recycled => next <= MailNextID(mails, "INBOX")
  PROVE  uidnext' \in Nat /\ uidnext' <= MailNextID(mails, "INBOX")
<1>1. MailNextID(mails, "INBOX") \in Nat /\ uidnext \in Nat
  BY NextIDType DEF NextInv
<1>2. CASE "INBOX" \in recycled
  BY <1>1, <1>2 DEF Announce
<1>3. CASE "INBOX" \notin recycled
  <2>1. uidnext' \in {uidnext, next}
    BY <1>1, <1>3, MaxOfTwo DEF Announce
  <2> QED
    BY <1>1, <1>3, <2>1 DEF NextInv
<1> QED
  BY <1>2, <1>3

LEMMA NextType ==
  ASSUME KeysInv, NextInv, [Next]_vars
  PROVE  /\ uidnext' \in Nat
         /\ \/ uidnext' = 0
            \/ uidnext' <= MailNextID(mails, "INBOX") /\ UNCHANGED <<mails, recycled>>
            \/ uidnext' = uidnext
<1>1. ASSUME NEW s \in Sessions, Select(s)
      PROVE  uidnext' \in Nat /\ uidnext' <= MailNextID(mails, "INBOX")
  <2>1. UNCHANGED uidnext \/ Announce(MailNextID(mails, "INBOX"))
    BY <1>1 DEF Select, Status
  <2>2. MailNextID(mails, "INBOX") \in Nat
    BY NextIDType
  <2> QED
    BY <2>1, <2>2, AnnounceStep DEF NextInv
<1>2. ASSUME NEW m \in Messages, NotifyNew(m)
      PROVE  uidnext' \in Nat /\ uidnext' <= MailNextID(mails, "INBOX")
  <2>1. CASE UNCHANGED uidnext
    BY <2>1 DEF NextInv
  <2>2. CASE Announce(delivery[m].id + 1)
    <3>1. delivery[m].pc = "notify" /\ MailNextID(mails, "INBOX") \in Nat
      BY <1>2, NextIDType DEF NotifyNew
    <3>2. CASE "INBOX" \in recycled
      BY <2>2, <3>1, <3>2 DEF Announce
    <3>3. CASE "INBOX" \notin recycled
      <4>1. /\ delivery[m].id + 1 \in Nat
            /\ delivery[m].id + 1 <= MailNextID(mails, "INBOX")
        BY <3>1, <3>3 DEF NextInv
      <4> QED
        BY <2>2, <4>1, AnnounceStep
    <3> QED
      BY <3>2, <3>3
  <2> QED
    BY <1>2, <2>1, <2>2 DEF NotifyNew
<1>3. CASE \/ \E s \in Sessions : Select(s)
           \/ \E m \in Messages : NotifyNew(m)
  BY <1>1, <1>2, <1>3 DEF Select, NotifyNew, tables
<1> QED
  BY <1>3, ChangeKeepsNext DEF NextInv

\* A step that sets INBOX aside clears uidnext.
LEMMA RecycledClears ==
  ASSUME [Next]_vars, "INBOX" \in recycled'
  PROVE  uidnext' = 0 \/ UNCHANGED <<mails, recycled>>
<1>1. CASE UNCHANGED <<mails, recycled>>
  BY <1>1
<1>2. CASE \E more : Change(mails', more)
  BY <1>2 DEF Change
<1> QED
  BY <1>1, <1>2, ChangeFrame

LEMMA NextStep ==
  ASSUME KeysInv, KeysInv', NextInv, [Next]_vars
  PROVE  NextInv'
<1>1. /\ MailNextID(mails, "INBOX") \in Nat \ {0}
      /\ MailNextID(mails', "INBOX") \in Nat \ {0}
      /\ \A r \in mails' : r.mailbox = "INBOX" => r.id < MailNextID(mails', "INBOX")
  BY NextIDIsNew DEF KeysInv, IsMailTable
<1>2. "INBOX" \notin recycled' =>
        /\ "INBOX" \notin recycled
        /\ MailNextID(mails, "INBOX") <= MailNextID(mails', "INBOX")
  BY NextIDGrows, ImapAssumption DEF Protected
<1>3. uidnext' \in Nat /\ uidnext' <= MailNextID(mails', "INBOX")
  BY <1>1, <1>2, NextType, RecycledClears DEF NextInv
<1>4. /\ delivery' = [m \in Messages |-> delivery'[m]]
      /\ \A m \in Messages :
           \/ delivery'[m] = delivery[m]
           \/ delivery'[m].pc = "done"
           \/ Deliver(m) /\ delivery'[m].id = MailNextID(mails, "INBOX")
  <2>1. delivery = [m \in Messages |-> delivery[m]]
    BY DEF NextInv
  <2>2. Delivery("done").pc = "done"
    BY DEF Delivery
  <2>3. CASE \E m \in Messages : Deliver(m)
    BY <2>1, <2>3 DEF Deliver
  <2>4. CASE \/ \E m \in Messages : NotifyNew(m)
             \/ \E s \in Sessions : AppendCreate(s)
    <3>1. PICK m \in Messages : delivery' = [delivery EXCEPT ![m] = Delivery("done")]
      BY <2>4 DEF NotifyNew, AppendCreate
    <3> QED
      BY <2>1, <2>2, <3>1
  <2>5. CASE Restart
    BY <2>1, <2>2, <2>5 DEF Restart
  <2>6. CASE UNCHANGED delivery
    BY <2>1, <2>6
  <2> QED
    BY <2>3, <2>4, <2>5, <2>6, DeliveryFrame
<1>5. ASSUME NEW m \in Messages, delivery'[m].pc = "notify", "INBOX" \notin recycled'
      PROVE  delivery'[m].id \in Nat /\ delivery'[m].id < MailNextID(mails', "INBOX")
  <2>1. CASE delivery'[m] = delivery[m]
    BY <1>1, <1>2, <1>5, <2>1 DEF NextInv
  <2>2. CASE Deliver(m) /\ delivery'[m].id = MailNextID(mails, "INBOX")
    <3>1. \E r \in mails' : r.mailbox = "INBOX" /\ r.id = MailNextID(mails, "INBOX")
      <4>1. mails' = MailCreate(mails, "INBOX", m)
        BY <2>2 DEF Deliver, Change
      <4>2. PICK r \in mails' :
              r = [mailbox |-> "INBOX", id |-> MailNextID(mails, "INBOX"),
                   mail |-> m, flags |-> {}]
        BY <4>1 DEF MailCreate
      <4> QED
        BY <4>2
    <3> QED
      BY <1>1, <2>2, <3>1
  <2> QED
    BY <1>4, <1>5, <2>1, <2>2
<1> QED
  BY <1>3, <1>4, <1>5 DEF NextInv

LEMMA MeansStep ==
  ASSUME KeysInv, KeysInv', [Next]_vars, NEW box, NEW uid, NEW mail,
         Means(box, uid, mail)
  PROVE  Means(box, uid, mail)'
<1>1. SUFFICES ASSUME box \notin recycled'
               PROVE  /\ uid \in Nat /\ uid < MailNextID(mails', box)
                      /\ \A r \in mails' : r.mailbox = box /\ r.id = uid => r.mail = mail
  BY DEF Means
<1>2. /\ box \notin recycled
      /\ MailNextID(mails, box) <= MailNextID(mails', box)
  BY <1>1, NextIDGrows DEF Means
<1>3. /\ MailNextID(mails, box) \in Nat /\ MailNextID(mails', box) \in Nat
  BY NextIDIsNew DEF KeysInv, IsMailTable
<1>4. uid \in Nat /\ uid < MailNextID(mails, box)
  BY <1>2 DEF Means
<1>5. ASSUME NEW x \in mails', x.mailbox = box, x.id = uid
      PROVE  x.mail = mail
  <2>1. Old(x)
    BY <1>1, <1>3, <1>4, <1>5, RowsStep DEF RowsFromHere
  <2> QED
    BY <1>2, <1>5, <2>1 DEF Old, Means
<1> QED
  BY <1>2, <1>3, <1>4, <1>5

\* A row means its mail.
RowsMean == \A r \in mails : Means(r.mailbox, r.id, r.mail)

LEMMA RowMeans == KeysInv /\ boxes \subseteq Names => RowsMean
<1> SUFFICES ASSUME KeysInv, boxes \subseteq Names PROVE RowsMean
  OBVIOUS
<1>1. \A r \in mails : /\ r.mailbox \in Names /\ r.id \in Nat
                       /\ r.id < MailNextID(mails, r.mailbox)
  BY NextIDType DEF KeysInv, IsMailTable, IsRow
<1>2. \A r, x \in mails : r.mailbox = x.mailbox /\ r.id = x.id => r = x
  BY DEF KeysInv, IsMailTable, UniqueKeys
<1> QED
  BY <1>1, <1>2 DEF Means, RowsMean

LEMMA ToldFrame ==
  ASSUME [Next]_vars
  PROVE  UNCHANGED told \/ \E s \in Sessions : Fetch(s)
  BY DEF Next, Step, vars, histories, Select, Expunge, CreateMailbox,
         DeleteMailbox, RenameMailbox, Restart, Deliver, NotifyNew, AppendCreate,
         AppendFlag, Start, RangeUids, RangeNumbers, Number, NumberMissing,
         Missing, StorePanics, StoreRead, StoreUpdate, CopyRead, CopyCreate,
         CopyFlags, Move, Fails

LEMMA ToldStep ==
  ASSUME KeysInv, KeysInv', boxes \subseteq Names, ToldInv, UidsStable, [Next]_vars
  PROVE  ToldInv' /\ UidsStable'
<1>1. CASE \E s \in Sessions : Fetch(s)
  <2>1. PICK read \in SUBSET mails :
          told' = told \cup {[box |-> r.mailbox, uid |-> r.id, mail |-> r.mail] : r \in read}
    BY <1>1 DEF Fetch, Found, MailSelect
  <2>2. UNCHANGED <<mails, recycled>>
    BY <1>1 DEF Fetch, tables
  <2>3. \A t \in told' : t \in told \/ \E r \in mails :
          t.box = r.mailbox /\ t.uid = r.id /\ t.mail = r.mail
    BY <2>1
  <2>4. \A r \in mails : Means(r.mailbox, r.id, r.mail)
    BY RowMeans DEF RowsMean
  <2>5. \A t \in told' : Means(t.box, t.uid, t.mail)
    BY <2>3, <2>4 DEF ToldInv
  <2>6. ToldInv'
    BY <2>2, <2>5 DEF ToldInv, Means
  <2>7. UidsStable'
    <3>1. \A t \in told : t.box \notin recycled =>
            \A r \in mails : r.mailbox = t.box /\ r.id = t.uid => r.mail = t.mail
      BY DEF ToldInv, Means
    <3>2. \A r, x \in mails : r.mailbox = x.mailbox /\ r.id = x.id => r = x
      BY DEF KeysInv, IsMailTable, UniqueKeys
    <3> QED
      BY <2>2, <2>3, <3>1, <3>2 DEF UidsStable
  <2> QED
    BY <2>6, <2>7
<1>2. CASE UNCHANGED told
  <2>1. \A t \in told : Means(t.box, t.uid, t.mail)'
    BY MeansStep DEF ToldInv
  <2>2. ToldInv'
    BY <1>2, <2>1 DEF ToldInv
  <2>3. UidsStable'
    BY <1>2, RecycledGrows DEF UidsStable
  <2> QED
    BY <2>2, <2>3
<1> QED
  BY <1>1, <1>2, ToldFrame

LEMMA UidStep == UidInv /\ [Next]_vars => UidInv'
<1> SUFFICES ASSUME UidInv, [Next]_vars PROVE UidInv'
  OBVIOUS
<1>1. KeysInv'
  BY TablesStep DEF UidInv
<1> QED
  BY <1>1, BoxesStep, NextStep, ToldStep DEF UidInv

LEMMA UidInit == Init => UidInv
<1> SUFFICES ASSUME Init PROVE UidInv
  OBVIOUS
<1>1. KeysInv /\ boxes \subseteq Names
  BY KeysInit, ImapAssumption DEF Init
<1>2. MailNextID(mails, "INBOX") \in Nat
  BY <1>1, NextIDType
<1>3. NextInv
  BY <1>2 DEF Init, NextInv, Delivery
<1>4. ToldInv /\ UidsStable
  BY DEF Init, ToldInv, UidsStable
<1> QED
  BY <1>1, <1>3, <1>4 DEF UidInv

-----------------------------------------------------------------------------

\* A uid that FETCH has reported never comes to mean another message, in a
\* mailbox whose last message stays and that nothing is copied from, moved to
\* or renamed to, whatever sessions and deliveries do meanwhile.
THEOREM ImapUidsStable == Spec => []UidsStable
<1>1. UidInv => UidsStable
  BY DEF UidInv
<1> QED
  BY <1>1, UidInit, UidStep, PTL DEF Spec

\* With the same proviso, a message that comes to INBOX has at least the
\* UIDNEXT that clients were told, in whatever order deliveries store and
\* announce.
THEOREM ImapUidNextHolds == Spec => UidNextHolds
<1>1. UidInv /\ [Next]_vars =>
        [\A id \in IDs(mails', "INBOX") \ IDs(mails, "INBOX") : id >= uidnext']_vars
  <2> SUFFICES ASSUME UidInv, [Next]_vars,
                      NEW id \in IDs(mails', "INBOX") \ IDs(mails, "INBOX")
               PROVE  id >= uidnext'
    OBVIOUS
  <2>1. PICK x \in mails' : x.mailbox = "INBOX" /\ x.id = id
    BY DEF IDs
  <2>2. ~Old(x) /\ mails' # mails
    BY <2>1 DEF Old, IDs
  <2>3. KeysInv /\ KeysInv' /\ NextInv
    BY TablesStep DEF UidInv
  <2>4. MailNextID(mails, "INBOX") \in Nat /\ id \in Nat
    BY <2>1, <2>3, NextIDType DEF KeysInv, IsMailTable, IsRow
  <2>5. uidnext' = 0 \/ uidnext' = uidnext
    BY <2>2, <2>3, NextType
  <2>6. CASE "INBOX" \in recycled'
    BY <2>2, <2>4, <2>6, RecycledClears
  <2>7. CASE "INBOX" \notin recycled'
    <3>1. id >= MailNextID(mails, "INBOX")
      BY <2>1, <2>2, <2>3, <2>7, RowsStep DEF RowsFromHere
    <3> QED
      BY <2>3, <2>4, <2>5, <3>1 DEF NextInv
  <2> QED
    BY <2>6, <2>7
<1> QED
  BY <1>1, UidInit, UidStep, PTL DEF Spec, UidNextHolds

-----------------------------------------------------------------------------
(***************************************************************************)
(* Types. What a session works with has the shape that its place in the    *)
(* command needs: the ids and the row it is at, the rest of the sequence   *)
(* set, the flags that are still to be set.                                *)
(***************************************************************************)

\* The pcs at which a session holds a row of mails.
Holding == {"append", "update", "create", "copyflags"}

LEMMA ReadyType ==
  ASSUME NEW box \in Names \cup {None}
  PROVE  Ready(box) \in SessionType /\ Ready(box).pc \notin Holding
<1>1. <<>> \in Seq(Ranges) /\ <<>> \in Seq(Nat) /\ <<>> \in Seq(Flag)
  OBVIOUS
<1>2. Ready(box) \in Local
  BY <1>1 DEF Ready, Local
<1> QED
  BY <1>2 DEF Ready, SessionType, Holding, LoopPC

LEMMA LoopType ==
  ASSUME NEW x \in Local, x.box \in Names, x.cmd \in Commands, x.set = <<>>
  PROVE  Loop(x) \in SessionType /\ Loop(x).pc \notin Holding
<1>1. CASE x.ids = <<>>
  BY <1>1, ReadyType DEF Loop
<1>2. CASE x.ids # <<>>
  <2>1. x.cmd.kind \in LoopPC
    BY ImapAssumption DEF LoopPC
  <2>2. Loop(x) = [x EXCEPT !.pc = x.cmd.kind]
    BY <1>2 DEF Loop
  <2>3. Loop(x) \in Local
    BY <2>1, <2>2 DEF Local
  <2>4. /\ Loop(x).pc = x.cmd.kind /\ Loop(x).box = x.box /\ Loop(x).cmd = x.cmd
        /\ Loop(x).set = x.set /\ Loop(x).ids = x.ids
    BY <2>1, <2>2 DEF Local
  <2> QED
    BY <1>2, <2>1, <2>3, <2>4 DEF SessionType, LoopPC, Holding
<1> QED
  BY <1>1, <1>2

LEMMA NextRangeType ==
  ASSUME NEW x \in Local, x.box \in Names, x.cmd \in Commands
  PROVE  NextRange(x) \in SessionType /\ NextRange(x).pc \notin Holding
<1>1. CASE x.set = <<>>
  BY <1>1, LoopType DEF NextRange
<1>2. CASE x.set # <<>>
  <2>1. NextRange(x) = [x EXCEPT !.pc = "range"]
    BY <1>2 DEF NextRange
  <2>2. /\ NextRange(x) \in Local
        /\ NextRange(x).pc = "range" /\ NextRange(x).box = x.box
        /\ NextRange(x).cmd = x.cmd /\ NextRange(x).set = x.set
    BY <2>1 DEF Local
  <2> QED
    BY <1>2, <2>2 DEF SessionType, LoopPC, Holding
<1> QED
  BY <1>1, <1>2

LEMMA NextNumberType ==
  ASSUME NEW x \in Local, x.box \in Names, x.cmd \in Commands, x.set # <<>>
  PROVE  NextNumber(x) \in SessionType /\ NextNumber(x).pc \notin Holding
<1>1. CASE x.set[1].start <= x.set[1].stop
  <2>1. NextNumber(x) = [x EXCEPT !.pc = "number"]
    BY <1>1 DEF NextNumber
  <2>2. /\ NextNumber(x) \in Local
        /\ NextNumber(x).pc = "number" /\ NextNumber(x).box = x.box
        /\ NextNumber(x).cmd = x.cmd /\ NextNumber(x).set = x.set
    BY <2>1 DEF Local
  <2> QED
    BY <2>2 DEF SessionType, LoopPC, Holding
<1>2. CASE ~(x.set[1].start <= x.set[1].stop)
  <2>1. x.set \in Seq(Ranges)
    BY DEF Local
  <2>2. Tail(x.set) \in Seq(Ranges)
    BY <2>1, HeadTailProperties
  <2>3. /\ [x EXCEPT !.set = Tail(@)] \in Local
        /\ [x EXCEPT !.set = Tail(@)].box = x.box
        /\ [x EXCEPT !.set = Tail(@)].cmd = x.cmd
    BY <2>2 DEF Local
  <2>4. NextRange([x EXCEPT !.set = Tail(@)]) \in SessionType
        /\ NextRange([x EXCEPT !.set = Tail(@)]).pc \notin Holding
    BY <2>3, NextRangeType
  <2> QED
    BY <1>2, <2>4 DEF NextNumber
<1> QED
  BY <1>1, <1>2

\* A range of the set is one, and stays one when a bound of it changes.
LEMMA FirstRange ==
  ASSUME NEW set \in Seq(Ranges), set # <<>>, NEW n \in Nat
  PROVE  /\ set[1] \in Ranges
         /\ [set EXCEPT ![1].stop = n] \in Seq(Ranges) \ {<<>>}
         /\ [set EXCEPT ![1].start = n] \in Seq(Ranges) \ {<<>>}
<1>1. 1 \in 1..Len(set) /\ set[1] \in Ranges
  BY EmptySeq, ElementOfSeq
<1>2. /\ [set[1] EXCEPT !.stop = n] \in Ranges
      /\ [set[1] EXCEPT !.start = n] \in Ranges
  BY <1>1 DEF Ranges
<1>3. \A e \in Ranges : /\ [set EXCEPT ![1] = e] \in Seq(Ranges)
                        /\ Len([set EXCEPT ![1] = e]) = Len(set)
  BY <1>1, ExceptSeq
<1>4. /\ [set EXCEPT ![1].stop = n] = [set EXCEPT ![1] = [set[1] EXCEPT !.stop = n]]
      /\ [set EXCEPT ![1].start = n] = [set EXCEPT ![1] = [set[1] EXCEPT !.start = n]]
  OBVIOUS
<1>5. \A t \in Seq(Ranges) : Len(t) = Len(set) => t # <<>>
  BY <1>1, EmptySeq
<1> QED
  BY <1>1, <1>2, <1>3, <1>4, <1>5

\* The invariant of this section.
TypeInv == KeysInv /\ TypeOK

\* The session goes on where it holds no row.
Goes(s) ==
  \E y \in SessionType :
    y.pc \notin Holding /\ session' = [session EXCEPT ![s] = y]

LEMMA SessionFields ==
  ASSUME TypeInv, NEW s \in Sessions
  PROVE  /\ session[s] \in SessionType /\ session[s] \in Local
         /\ session[s].box \in Names \cup {None}
         /\ session[s].set \in Seq(Ranges) /\ session[s].ids \in Seq(Nat)
         /\ session[s].flags \in Seq(Flag)
         /\ session[s].pc \notin {"ready", "append"} =>
              session[s].box \in Names /\ session[s].cmd \in Commands
         /\ session[s].pc \in Holding => session[s].row \in Row
         /\ session[s].pc = "append" => session[s].flags # <<>>
         /\ session[s].pc \in {"range", "number"} => session[s].set # <<>>
         /\ session[s].pc \notin {"range", "number"} => session[s].set = <<>>
         /\ session[s].pc \in LoopPC \cup {"update", "create", "copyflags"} =>
              session[s].ids # <<>>
         /\ session[s].pc \in LoopPC => session[s].pc = session[s].cmd.kind
<1>1. session[s] \in SessionType /\ session[s] \in Local
  BY DEF TypeInv, TypeOK, SessionType
<1>2. session[s].box \in Names \cup {None} /\ session[s].set \in Seq(Ranges)
      /\ session[s].ids \in Seq(Nat) /\ session[s].flags \in Seq(Flag)
  BY <1>1 DEF Local
<1> QED
  BY <1>1, <1>2 DEF SessionType, Holding

LEMMA StopType ==
  ASSUME TypeInv, NEW s \in Sessions, session[s].set # <<>>
  PROVE  Stop(s) \in Nat
<1>1. session[s].set[1] \in Ranges
  BY SessionFields, FirstRange
<1>2. session[s].set[1].stop \in Nat
  BY <1>1 DEF Ranges
<1>3. MailNextID(mails, session[s].box) \in Nat \ {0}
  BY NextIDType DEF TypeInv
<1> QED
  BY <1>2, <1>3 DEF Stop

LEMMA StartGoes ==
  ASSUME TypeInv, NEW s \in Sessions, Start(s)
  PROVE  Goes(s)
<1>1. PICK cmd \in Commands :
        session' = [session EXCEPT ![s] =
          NextRange([Ready(session[s].box) EXCEPT !.cmd = cmd, !.set = cmd.set])]
  BY DEF Start
<1> DEFINE x == [Ready(session[s].box) EXCEPT !.cmd = cmd, !.set = cmd.set]
<1>2. session[s].box \in Names
  BY SessionFields DEF Start
<1>3. cmd.set \in Seq(Ranges)
  BY ImapAssumption
<1>4. Ready(session[s].box) \in Local /\ Ready(session[s].box).box = session[s].box
  BY <1>2, ReadyType DEF SessionType, Ready
<1>5. x \in Local /\ x.box \in Names /\ x.cmd \in Commands
  BY <1>2, <1>3, <1>4 DEF Local
<1>6. NextRange(x) \in SessionType /\ NextRange(x).pc \notin Holding
  BY <1>5, NextRangeType
<1> QED
  BY <1>1, <1>6 DEF Goes

LEMMA FunctionIsSeq ==
  ASSUME NEW S, NEW n \in Nat, NEW f \in [1..n -> S]
  PROVE  f \in Seq(S)
  OBVIOUS

LEMMA TailIsSeq ==
  ASSUME NEW S, NEW f \in Seq(S)
  PROVE  Tail(f) \in Seq(S)
<1>1. CASE f # <<>>
  BY <1>1, HeadTailProperties
<1>2. CASE f = <<>>
  BY <1>2
<1> QED
  BY <1>1, <1>2

LEMMA RangeUidsGoes ==
  ASSUME TypeInv, NEW s \in Sessions, RangeUids(s)
  PROVE  Goes(s)
<1> DEFINE start == session[s].set[1].start
           uids == [k \in 1..(Stop(s) - start + 1) |-> start + k - 1]
           x == [session[s] EXCEPT !.ids = @ \o uids, !.set = Tail(@)]
<1>1. /\ session[s] \in Local /\ session[s].box \in Names
      /\ session[s].cmd \in Commands
      /\ session[s].set \in Seq(Ranges) /\ session[s].set # <<>>
      /\ session[s].ids \in Seq(Nat)
  BY SessionFields DEF RangeUids
<1>2. start \in Nat /\ Stop(s) \in Nat
  BY <1>1, FirstRange, StopType DEF Ranges
<1>3. uids \in Seq(Nat)
  <2>1. CASE Stop(s) - start + 1 \in Nat
    <3> DEFINE n == Stop(s) - start + 1
    <3>1. \A k \in 1..n : start + k - 1 \in Nat
      BY <1>2, <2>1
    <3> HIDE DEF n, start
    <3>2. [k \in 1..n |-> start + k - 1] \in [1..n -> Nat]
      BY <3>1
    <3>3. n \in Nat
      BY <2>1 DEF n
    <3>4. [k \in 1..n |-> start + k - 1] \in Seq(Nat)
      BY <3>2, <3>3, FunctionIsSeq
    <3> QED
      BY <3>4 DEF n, start
  <2>2. CASE Stop(s) - start + 1 \notin Nat
    <3>1. 1..(Stop(s) - start + 1) = {}
      BY <1>2, <2>2
    <3>2. uids \in [1..0 -> Nat]
      BY <3>1
    <3> QED
      BY <3>2, FunctionIsSeq
  <2> QED
    BY <2>1, <2>2
<1>4. Tail(session[s].set) \in Seq(Ranges)
  BY <1>1, HeadTailProperties
<1> HIDE DEF uids
<1>5. session[s].ids \o uids \in Seq(Nat)
  BY <1>1, <1>3, ConcatProperties
<1>6. x \in Local /\ x.box \in Names /\ x.cmd \in Commands
  BY <1>1, <1>4, <1>5 DEF Local
<1>7. session' = [session EXCEPT ![s] = NextRange(x)]
  BY DEF RangeUids, uids
<1> HIDE DEF x
<1>9. NextRange(x) \in SessionType /\ NextRange(x).pc \notin Holding
  BY <1>6, NextRangeType
<1> QED
  BY <1>7, <1>9 DEF Goes

LEMMA RangeNumbersGoes ==
  ASSUME TypeInv, NEW s \in Sessions, RangeNumbers(s)
  PROVE  Goes(s)
<1> DEFINE x == [session[s] EXCEPT !.set[1].stop = Stop(s)]
           set == [session[s].set EXCEPT ![1].stop = Stop(s)]
<1>1. /\ session[s] \in Local /\ session[s].box \in Names
      /\ session[s].cmd \in Commands
      /\ session[s].set \in Seq(Ranges) /\ session[s].set # <<>>
  BY SessionFields DEF RangeNumbers
<1>2. set \in Seq(Ranges) \ {<<>>}
  BY <1>1, FirstRange, StopType
<1>3. x = [session[s] EXCEPT !.set = set]
  BY <1>1 DEF Local
<1> HIDE DEF set
<1>4. x \in Local /\ x.box \in Names /\ x.cmd \in Commands /\ x.set # <<>>
  BY <1>1, <1>2, <1>3 DEF Local
<1>5. session' = [session EXCEPT ![s] = NextNumber(x)]
  BY DEF RangeNumbers
<1> HIDE DEF x
<1>9. NextNumber(x) \in SessionType /\ NextNumber(x).pc \notin Holding
  BY <1>4, NextNumberType
<1> QED
  BY <1>5, <1>9 DEF Goes

LEMMA NumberGoes ==
  ASSUME TypeInv, NEW s \in Sessions, Number(s)
  PROVE  Goes(s)
<1>1. PICK id \in NumberID(s) :
        session' = [session EXCEPT ![s] =
          NextNumber([session[s] EXCEPT !.ids = Append(@, id),
                                        !.set[1].start = @ + 1])]
  BY DEF Number
<1> DEFINE ids == Append(session[s].ids, id)
           set == [session[s].set EXCEPT ![1].start = @ + 1]
           x == [session[s] EXCEPT !.ids = Append(@, id), !.set[1].start = @ + 1]
<1>2. /\ session[s] \in Local /\ session[s].box \in Names
      /\ session[s].cmd \in Commands
      /\ session[s].set \in Seq(Ranges) /\ session[s].set # <<>>
      /\ session[s].ids \in Seq(Nat)
  BY SessionFields DEF Number
<1>3. id \in Nat
  BY DEF NumberID, MailIDForSeq, IDs, TypeInv, KeysInv, IsMailTable, IsRow
<1>4. ids \in Seq(Nat)
  BY <1>2, <1>3, AppendProperties
<1>5. set \in Seq(Ranges) \ {<<>>}
  <2>1. session[s].set[1].start + 1 \in Nat
    <3>1. session[s].set[1] \in Ranges
      BY <1>2, FirstRange
    <3> QED
      BY <3>1 DEF Ranges
  <2>2. set = [session[s].set EXCEPT ![1].start = session[s].set[1].start + 1]
    OBVIOUS
  <2> QED
    BY <1>2, <2>1, <2>2, FirstRange
<1>6. x = [session[s] EXCEPT !.ids = ids, !.set = set]
  BY <1>2 DEF Local
<1> HIDE DEF set, ids
<1>7. x \in Local /\ x.box \in Names /\ x.cmd \in Commands /\ x.set # <<>>
  BY <1>2, <1>4, <1>5, <1>6 DEF Local
<1>8. session' = [session EXCEPT ![s] = NextNumber(x)]
  BY <1>1
<1> HIDE DEF x
<1>9. NextNumber(x) \in SessionType /\ NextNumber(x).pc \notin Holding
  BY <1>7, NextNumberType
<1> QED
  BY <1>8, <1>9 DEF Goes

LEMMA NextIDGoes ==
  ASSUME TypeInv, NEW s \in Sessions, NextID(s),
         session[s].pc \in LoopPC \cup {"update", "copyflags"}
  PROVE  Goes(s)
<1> DEFINE x == [session[s] EXCEPT !.ids = Tail(@), !.row = None]
<1>1. /\ session[s] \in Local /\ session[s].box \in Names
      /\ session[s].cmd \in Commands /\ session[s].set = <<>>
      /\ session[s].ids \in Seq(Nat) /\ session[s].ids # <<>>
  BY SessionFields DEF LoopPC
<1>2. Tail(session[s].ids) \in Seq(Nat)
  BY <1>1, HeadTailProperties
<1>3. x \in Local /\ x.box \in Names /\ x.cmd \in Commands /\ x.set = <<>>
  BY <1>1, <1>2 DEF Local
<1>4. session' = [session EXCEPT ![s] = Loop(x)]
  BY DEF NextID
<1> HIDE DEF x
<1>9. Loop(x) \in SessionType /\ Loop(x).pc \notin Holding
  BY <1>3, LoopType
<1> QED
  BY <1>4, <1>9 DEF Goes

LEMMA OtherStepsGo ==
  ASSUME TypeInv, NEW s \in Sessions,
         \/ Select(s) \/ Expunge(s) \/ NumberMissing(s) \/ Fetch(s) \/ Missing(s)
         \/ StorePanics(s) \/ StoreUpdate(s) \/ CopyFlags(s) \/ Move(s) \/ Fails(s)
  PROVE  Goes(s)
<1>1. session[s].box \in Names \cup {None}
  BY SessionFields
<1>2. ASSUME NEW box \in Names \cup {None},
             session' = [session EXCEPT ![s] = Ready(box)]
      PROVE  Goes(s)
  BY <1>2, ReadyType DEF Goes
<1>3. CASE Select(s)
  <2>1. PICK box \in Names \cup {None} : session' = [session EXCEPT ![s] = Ready(box)]
    BY <1>1, <1>3 DEF Select, Selectable, TypeInv, TypeOK
  <2> QED
    BY <1>2, <2>1
<1>4. CASE Expunge(s)
  <2>1. PICK box \in Names \cup {None} : session' = [session EXCEPT ![s] = Ready(box)]
    BY <1>1, <1>4 DEF Expunge
  <2> QED
    BY <1>2, <2>1
<1>5. CASE NumberMissing(s) \/ Missing(s) \/ Fails(s)
  <2>1. session' = [session EXCEPT ![s] = Ready(session[s].box)]
    BY <1>5 DEF NumberMissing, Missing, Fails, Ends
  <2> QED
    BY <1>1, <1>2, <2>1
<1>6. CASE StorePanics(s)
  BY <1>2, <1>6 DEF StorePanics
<1>7. CASE Fetch(s) \/ StoreUpdate(s) \/ CopyFlags(s) \/ Move(s)
  <2>1. NextID(s) /\ session[s].pc \in LoopPC \cup {"update", "copyflags"}
    BY <1>7 DEF Fetch, StoreUpdate, CopyFlags, Move, LoopPC
  <2> QED
    BY <2>1, NextIDGoes
<1> QED
  BY <1>3, <1>4, <1>5, <1>6, <1>7

LEMMA FoundRow ==
  ASSUME TypeInv, NEW s \in Sessions, NEW r \in Found(s)
  PROVE  r \in mails /\ r \in Row /\ r.mailbox = session[s].box
  BY DEF Found, MailSelect, TypeInv, TypeOK

LEMMA AppendingType ==
  ASSUME NEW x \in Local, x.pc = "append", x.set = <<>>, x.row \in Row
  PROVE  /\ Appending(x) \in SessionType
         /\ \/ Appending(x) = x /\ x.flags # <<>>
            \/ Appending(x).pc \notin Holding
<1>1. CASE x.flags = <<>>
  <2>1. x.box \in Names \cup {None}
    BY DEF Local
  <2> QED
    BY <1>1, <2>1, ReadyType DEF Appending
<1>2. CASE x.flags # <<>>
  BY <1>2 DEF Appending, SessionType, LoopPC
<1> QED
  BY <1>1, <1>2

\* What a session holds after the steps that take hold of a row.
LEMMA AppendCreateHolds ==
  ASSUME TypeInv, NEW s \in Sessions, AppendCreate(s)
  PROVE  \E box \in boxes, m \in Messages, flags \in Seq(Flag), y \in SessionType :
           /\ delivery[m].pc = "outside"
           /\ mails' = MailCreate(mails, box, m)
           /\ delivery' = [delivery EXCEPT ![m] = Delivery("done")]
           /\ asked' = [asked EXCEPT ![m] = {flags[k] : k \in DOMAIN flags}]
           /\ session' = [session EXCEPT ![s] = y]
           /\ \/ y.pc \notin Holding
              \/ /\ y.pc = "append" /\ y.flags = flags /\ flags # <<>>
                 /\ y.row = [mailbox |-> box, id |-> MailNextID(mails, box),
                             mail |-> m, flags |-> {}]
<1> DEFINE row(box, m) == [mailbox |-> box, id |-> MailNextID(mails, box),
                           mail |-> m, flags |-> {}]
           X(box, m, flags) ==
             [session[s] EXCEPT !.pc = "append", !.flags = flags, !.row = row(box, m)]
<1>1. PICK box \in boxes, m \in Messages, flags \in FlagLists :
        /\ delivery[m].pc = "outside"
        /\ Change(MailCreate(mails, box, m), {})
        /\ delivery' = [delivery EXCEPT ![m] = Delivery("done")]
        /\ asked' = [asked EXCEPT ![m] = {flags[k] : k \in DOMAIN flags}]
        /\ session' = [session EXCEPT ![s] = Appending(X(box, m, flags))]
  BY DEF AppendCreate
<1>2. flags \in Seq(Flag) /\ box \in Names
  BY ImapAssumption DEF TypeInv, TypeOK
<1>3. row(box, m) \in Row
  <2>1. MailNextID(mails, box) \in Nat \ {0}
    BY NextIDType DEF TypeInv
  <2> QED
    BY <1>2, <2>1 DEF Row
<1>4. session[s] \in Local /\ session[s].set = <<>>
  BY SessionFields DEF AppendCreate
<1> DEFINE x == X(box, m, flags)
<1> HIDE DEF row
<1>5. /\ x \in Local /\ x.pc = "append" /\ x.set = <<>> /\ x.row = row(box, m)
      /\ x.flags = flags
  BY <1>2, <1>3, <1>4 DEF Local
<1>6. mails' = MailCreate(mails, box, m)
  BY <1>1 DEF Change
<1> HIDE DEF X
<1>7. /\ Appending(x) \in SessionType
      /\ \/ Appending(x) = x /\ x.flags # <<>>
         \/ Appending(x).pc \notin Holding
  BY <1>3, <1>5, AppendingType
<1> DEFINE y == Appending(x)
<1>8. y \in SessionType /\ session' = [session EXCEPT ![s] = y]
  BY <1>1, <1>7
<1>9. y.pc \notin Holding \/ (/\ y.pc = "append" /\ y.flags = flags /\ flags # <<>>
                              /\ y.row = row(box, m))
  BY <1>5, <1>7
<1> HIDE DEF y
<1> QED
  BY <1>1, <1>2, <1>6, <1>8, <1>9 DEF row

LEMMA AppendFlagHolds ==
  ASSUME TypeInv, NEW s \in Sessions, AppendFlag(s)
  PROVE  \E y \in SessionType :
           /\ session' = [session EXCEPT ![s] = y]
           /\ \/ y.pc \notin Holding
              \/ /\ y.pc = "append" /\ y.flags = Tail(session[s].flags)
                 /\ y.flags # <<>> /\ y.row = session[s].row
<1> DEFINE x == [session[s] EXCEPT !.flags = Tail(@)]
           y == Appending(x)
<1>1. /\ session[s] \in Local /\ session[s].pc = "append" /\ session[s].set = <<>>
      /\ session[s].row \in Row
  BY SessionFields DEF AppendFlag, Holding
<1>2. Tail(session[s].flags) \in Seq(Flag)
  BY SessionFields, TailIsSeq
<1>3. /\ x \in Local /\ x.pc = "append" /\ x.set = <<>> /\ x.row = session[s].row
      /\ x.flags = Tail(session[s].flags)
  BY <1>1, <1>2 DEF Local
<1>4. session' = [session EXCEPT ![s] = y]
  BY DEF AppendFlag
<1> HIDE DEF x
<1>5. /\ y \in SessionType
      /\ \/ y = x /\ x.flags # <<>>
         \/ y.pc \notin Holding
  BY <1>1, <1>3, AppendingType
<1> QED
  BY <1>3, <1>4, <1>5

LEMMA StoreReadHolds ==
  ASSUME TypeInv, NEW s \in Sessions, StoreRead(s)
  PROVE  \E y \in SessionType, r \in Found(s) :
           /\ session' = [session EXCEPT ![s] = y]
           /\ y.pc = "update" /\ y.row = r
           /\ y.box = session[s].box /\ y.cmd = session[s].cmd
           /\ asked' = IF session[s].cmd.op = "add"
                       THEN [asked EXCEPT ![r.mail] = @ \cup session[s].cmd.flags]
                       ELSE asked
<1>1. PICK r \in Found(s) :
        /\ session' = [session EXCEPT ![s].pc = "update", ![s].row = r]
        /\ asked' = IF session[s].cmd.op = "add"
                    THEN [asked EXCEPT ![r.mail] = @ \cup session[s].cmd.flags]
                    ELSE asked
  BY DEF StoreRead
<1> DEFINE y == [session[s] EXCEPT !.pc = "update", !.row = r]
<1>2. /\ session[s] \in Local /\ session[s].pc = "store" /\ session[s].set = <<>>
      /\ session[s].ids # <<>> /\ session[s].box \in Names
      /\ session[s].cmd \in Commands
  BY SessionFields DEF StoreRead, LoopPC
<1>3. /\ y \in Local /\ y.pc = "update" /\ y.set = <<>> /\ y.ids # <<>>
      /\ y.box = session[s].box /\ y.cmd = session[s].cmd /\ y.row = r /\ r \in Row
  BY <1>2, FoundRow DEF Local
<1>4. session' = [session EXCEPT ![s] = y]
  BY <1>1 DEF TypeInv, TypeOK
<1> HIDE DEF y
<1>5. y \in SessionType
  BY <1>2, <1>3 DEF SessionType, LoopPC
<1> QED
  BY <1>1, <1>3, <1>4, <1>5

LEMMA CopyReadHolds ==
  ASSUME TypeInv, NEW s \in Sessions, CopyRead(s)
  PROVE  \E y \in SessionType, r \in Found(s) :
           session' = [session EXCEPT ![s] = y] /\ y.pc = "create" /\ y.row = r
<1>1. PICK r \in Found(s) :
        session' = [session EXCEPT ![s].pc = "create", ![s].row = r]
  BY DEF CopyRead
<1> DEFINE y == [session[s] EXCEPT !.pc = "create", !.row = r]
<1>2. /\ session[s] \in Local /\ session[s].pc = "copy" /\ session[s].set = <<>>
      /\ session[s].ids # <<>> /\ session[s].box \in Names
      /\ session[s].cmd \in Commands
  BY SessionFields DEF CopyRead, LoopPC
<1>3. /\ y \in Local /\ y.pc = "create" /\ y.set = <<>> /\ y.ids # <<>>
      /\ y.box = session[s].box /\ y.cmd = session[s].cmd /\ y.row = r /\ r \in Row
  BY <1>2, FoundRow DEF Local
<1>4. session' = [session EXCEPT ![s] = y]
  BY <1>1 DEF TypeInv, TypeOK
<1> HIDE DEF y
<1>5. y \in SessionType
  BY <1>2, <1>3 DEF SessionType, LoopPC
<1> QED
  BY <1>3, <1>4, <1>5

LEMMA CopyCreateHolds ==
  ASSUME TypeInv, NEW s \in Sessions, CopyCreate(s)
  PROVE  \E y \in SessionType :
           /\ session' = [session EXCEPT ![s] = y]
           /\ y.pc = "copyflags" /\ y.row.mail = session[s].row.mail
<1> DEFINE next == MailNextID(mails, session[s].cmd.dest)
           y == [session[s] EXCEPT !.pc = "copyflags", !.row.id = next]
<1>1. /\ session[s] \in Local /\ session[s].pc = "create" /\ session[s].set = <<>>
      /\ session[s].ids # <<>> /\ session[s].box \in Names
      /\ session[s].cmd \in Commands /\ session[s].row \in Row
  BY SessionFields DEF CopyCreate, LoopPC, Holding
<1>2. next \in Nat \ {0}
  BY NextIDType DEF TypeInv
<1> DEFINE row == [session[s].row EXCEPT !.id = next]
<1>3. y = [session[s] EXCEPT !.pc = "copyflags", !.row = row]
  BY <1>1 DEF Local
<1>4. session' = [session EXCEPT ![s] = y]
  BY DEF CopyCreate, TypeInv, TypeOK
<1> HIDE DEF next, y
<1>5. row \in Row /\ row.mail = session[s].row.mail
  BY <1>1, <1>2 DEF Row
<1> HIDE DEF row
<1>6. /\ y \in Local /\ y.pc = "copyflags" /\ y.set = <<>> /\ y.ids # <<>>
      /\ y.box = session[s].box /\ y.cmd = session[s].cmd /\ y.row = row
  BY <1>1, <1>3, <1>5 DEF Local
<1>7. y \in SessionType
  BY <1>1, <1>5, <1>6 DEF SessionType, LoopPC
<1> QED
  BY <1>4, <1>5, <1>6, <1>7

\* What a step does to the sessions: nothing, all of them are ready again, or
\* one of them goes on or takes hold of a row.
LEMMA SessionFrame ==
  ASSUME TypeInv, [Next]_vars
  PROVE  \/ UNCHANGED session
         \/ session' = [s \in Sessions |-> Ready(None)]
         \/ \E s \in Sessions :
              \/ Goes(s)
              \/ AppendCreate(s) \/ AppendFlag(s) \/ StoreRead(s) \/ CopyRead(s)
              \/ CopyCreate(s)
<1>1. CASE Restart
  BY <1>1 DEF Restart
<1>2. CASE CreateMailbox \/ DeleteMailbox \/ RenameMailbox \/ UNCHANGED vars
  BY <1>2 DEF CreateMailbox, DeleteMailbox, RenameMailbox, vars
<1>3. CASE \E m \in Messages : Deliver(m) \/ NotifyNew(m)
  BY <1>3 DEF Deliver, NotifyNew
<1>4. CASE \E s \in Sessions :
             \/ Select(s) \/ Expunge(s) \/ NumberMissing(s) \/ Fetch(s)
             \/ Missing(s) \/ StorePanics(s) \/ StoreUpdate(s) \/ CopyFlags(s)
             \/ Move(s) \/ Fails(s)
  BY <1>4, OtherStepsGo
<1>5. CASE \E s \in Sessions : \/ Start(s) \/ RangeUids(s) \/ RangeNumbers(s)
                               \/ Number(s)
  BY <1>5, StartGoes, RangeUidsGoes, RangeNumbersGoes, NumberGoes
<1>6. CASE \E s \in Sessions : \/ AppendCreate(s) \/ AppendFlag(s)
                               \/ StoreRead(s) \/ CopyRead(s) \/ CopyCreate(s)
  BY <1>6
<1> QED
  BY <1>1, <1>2, <1>3, <1>4, <1>5, <1>6 DEF Next, Step

LEMMA TakesType ==
  ASSUME TypeInv, NEW s \in Sessions,
         \/ AppendCreate(s) \/ AppendFlag(s) \/ StoreRead(s) \/ CopyRead(s)
         \/ CopyCreate(s)
  PROVE  \E y \in SessionType : session' = [session EXCEPT ![s] = y]
<1>1. CASE AppendCreate(s)
  BY <1>1, AppendCreateHolds
<1>2. CASE AppendFlag(s)
  BY <1>2, AppendFlagHolds
<1>3. CASE StoreRead(s)
  BY <1>3, StoreReadHolds
<1>4. CASE CopyRead(s)
  BY <1>4, CopyReadHolds
<1>5. CASE CopyCreate(s)
  BY <1>5, CopyCreateHolds
<1> QED
  BY <1>1, <1>2, <1>3, <1>4, <1>5

LEMMA SessionTypeStep ==
  ASSUME TypeInv, [Next]_vars
  PROVE  session' \in [Sessions -> SessionType]
<1>1. session \in [Sessions -> SessionType]
  BY DEF TypeInv, TypeOK
<1>2. ASSUME NEW s \in Sessions, NEW y \in SessionType,
             session' = [session EXCEPT ![s] = y]
      PROVE  session' \in [Sessions -> SessionType]
  BY <1>1, <1>2
<1>4. Ready(None) \in SessionType
  BY ReadyType
<1> QED
  BY <1>1, <1>2, <1>4, SessionFrame, TakesType DEF Goes

\* The rows that the statements make.
LEMMA CreateTypes ==
  ASSUME TypeInv, NEW box \in Names, NEW m \in Messages
  PROVE  MailCreate(mails, box, m) \subseteq Row
<1>1. MailNextID(mails, box) \in Nat \ {0} /\ {} \in SUBSET Flag
  BY NextIDType DEF TypeInv
<1> QED
  BY <1>1 DEF MailCreate, TypeInv, TypeOK, Row

LEMMA UpdateTypes ==
  ASSUME TypeInv, NEW box, NEW id, NEW flags \in SUBSET Flag
  PROVE  MailUpdateFlags(mails, box, id, flags) \subseteq Row
<1>1. \A r \in Row : [r EXCEPT !.flags = flags] \in Row
  BY DEF Row
<1> QED
  BY <1>1 DEF MailUpdateFlags, TypeInv, TypeOK

LEMMA MoveTypes ==
  ASSUME TypeInv, NEW box, NEW id, NEW dest \in Names
  PROVE  /\ MailMove(mails, box, id, dest) \subseteq Row
         /\ MailboxRename(mails, box, dest) \subseteq Row
<1>1. \A r \in Row : [r EXCEPT !.mailbox = dest] \in Row
  BY DEF Row
<1> QED
  BY <1>1 DEF MailMove, MailboxRename, TypeInv, TypeOK

\* The flags that are written are flags.
LEMMA FlagsWritten ==
  ASSUME TypeInv, NEW s \in Sessions
  PROVE  /\ AppendFlag(s) => {Head(session[s].flags)} \in SUBSET Flag
         /\ StoreUpdate(s) => NewFlags(session[s].row, session[s].cmd) \in SUBSET Flag
         /\ CopyFlags(s) => session[s].row.flags \in SUBSET Flag
<1>1. session[s].row \in Row => session[s].row.flags \in SUBSET Flag
  BY DEF Row
<1>2. ASSUME AppendFlag(s) PROVE {Head(session[s].flags)} \in SUBSET Flag
  <2>1. session[s].flags \in Seq(Flag) /\ session[s].flags # <<>>
    BY <1>2, SessionFields DEF AppendFlag
  <2>2. Head(session[s].flags) \in Flag
    BY <2>1, HeadTailProperties
  <2> QED
    BY <2>2
<1>3. ASSUME StoreUpdate(s)
      PROVE  NewFlags(session[s].row, session[s].cmd) \in SUBSET Flag
  <2>1. session[s].row \in Row /\ session[s].cmd \in Commands
    BY <1>3, SessionFields DEF StoreUpdate, Holding
  <2>2. session[s].cmd.flags \in SUBSET Flag
    BY <2>1, ImapAssumption
  <2>3. session[s].row.flags \in SUBSET Flag
    BY <1>1, <2>1
  <2> QED
    BY <2>2, <2>3, Zenon DEF NewFlags
<1>4. ASSUME CopyFlags(s) PROVE session[s].row.flags \in SUBSET Flag
  BY <1>1, <1>4, SessionFields DEF CopyFlags, Holding
<1> QED
  BY <1>2, <1>3, <1>4

LEMMA MailsTypeStep ==
  ASSUME TypeInv, [Next]_vars
  PROVE  mails' \subseteq Row
<1>1. CASE UNCHANGED <<boxes, mails>>
  BY <1>1 DEF TypeInv, TypeOK
<1>2. CASE DeleteMailbox \/ CreateMailbox \/ Restart \/ \E s \in Sessions : Expunge(s)
  <2>1. mails' \subseteq mails
    BY <1>2 DEF DeleteMailbox, CreateMailbox, Restart, Expunge, Change,
                MailboxDelete, MailExpunge
  <2> QED
    BY <2>1 DEF TypeInv, TypeOK
<1>3. ASSUME NEW s \in Sessions, AppendCreate(s) PROVE mails' \subseteq Row
  <2>1. \E box \in Names, m \in Messages : mails' = MailCreate(mails, box, m)
    BY <1>3 DEF AppendCreate, Change, TypeInv, TypeOK
  <2> QED
    BY <2>1, CreateTypes
<1>4. ASSUME NEW s \in Sessions, CopyCreate(s) PROVE mails' \subseteq Row
  <2>1. session[s].cmd \in Commands /\ session[s].row \in Row
    BY <1>4, SessionFields DEF CopyCreate, Holding
  <2>2. session[s].cmd.dest \in Names /\ session[s].row.mail \in Messages
    BY <2>1, ImapAssumption DEF Row
  <2>3. mails' = MailCreate(mails, session[s].cmd.dest, session[s].row.mail)
    BY <1>4 DEF CopyCreate, Change
  <2> QED
    BY <2>2, <2>3, CreateTypes
<1>5. ASSUME NEW m \in Messages, Deliver(m) PROVE mails' \subseteq Row
  <2>1. "INBOX" \in Names /\ mails' = MailCreate(mails, "INBOX", m)
    BY <1>5, ImapAssumption DEF Deliver, Change, Protected
  <2> QED
    BY <2>1, CreateTypes
<1>6. ASSUME NEW s \in Sessions, AppendFlag(s) \/ StoreUpdate(s) \/ CopyFlags(s)
      PROVE  mails' \subseteq Row
  <2>1. \E box, id : \E flags \in SUBSET Flag :
          mails' = MailUpdateFlags(mails, box, id, flags)
    BY <1>6, FlagsWritten DEF AppendFlag, StoreUpdate, CopyFlags, Change
  <2> QED
    BY <2>1, UpdateTypes
<1>7. ASSUME NEW s \in Sessions, Move(s) PROVE mails' \subseteq Row
  <2>1. session[s].cmd \in Commands
    BY <1>7, SessionFields DEF Move
  <2>2. session[s].cmd.dest \in Names
    BY <2>1, ImapAssumption
  <2>3. \E id : mails' = MailMove(mails, session[s].box, id, session[s].cmd.dest)
    BY <1>7 DEF Move, Change
  <2> QED
    BY <2>2, <2>3, MoveTypes
<1>8. CASE RenameMailbox
  <2>1. \E existing \in Names : \E new \in boxes :
          mails' = MailboxRename(mails, new, existing)
    BY <1>8 DEF RenameMailbox, Change
  <2> QED
    BY <2>1, MoveTypes
<1> QED
  BY <1>1, <1>2, <1>3, <1>4, <1>5, <1>6, <1>7, <1>8, TablesFrame

LEMMA DeliveryTypeStep ==
  ASSUME TypeInv, [Next]_vars
  PROVE  /\ delivery' \in [Messages -> [pc : {"outside", "notify", "done"}, id : Nat]]
         /\ \A m \in Messages :
              delivery[m].pc # "outside" => delivery'[m].pc # "outside"
<1> DEFINE D == [pc : {"outside", "notify", "done"}, id : Nat]
<1>1. delivery \in [Messages -> D]
  BY DEF TypeInv, TypeOK
<1>2. Delivery("done") \in D /\ Delivery("done").pc # "outside"
  BY DEF Delivery
<1>3. CASE \E m \in Messages : Deliver(m)
  <2>1. PICK m \in Messages :
          delivery' = [delivery EXCEPT ![m] =
            [pc |-> "notify", id |-> MailNextID(mails, "INBOX")]]
    BY <1>3 DEF Deliver
  <2>2. MailNextID(mails, "INBOX") \in Nat
    BY NextIDType DEF TypeInv
  <2>3. [pc |-> "notify", id |-> MailNextID(mails, "INBOX")] \in D
    BY <2>2
  <2> HIDE DEF D
  <2> QED
    BY <1>1, <2>1, <2>3 DEF D
<1> HIDE DEF D
<1>4. CASE \/ \E m \in Messages : NotifyNew(m)
           \/ \E s \in Sessions : AppendCreate(s)
  <2>1. PICK m \in Messages : delivery' = [delivery EXCEPT ![m] = Delivery("done")]
    BY <1>4 DEF NotifyNew, AppendCreate
  <2> QED
    BY <1>1, <1>2, <2>1 DEF D
<1>5. CASE Restart
  BY <1>1, <1>2, <1>5 DEF Restart, D
<1>6. CASE UNCHANGED delivery
  BY <1>1, <1>6 DEF D
<1> QED
  BY <1>3, <1>4, <1>5, <1>6, DeliveryFrame

LEMMA AskedFrame ==
  ASSUME [Next]_vars
  PROVE  UNCHANGED asked \/ \E s \in Sessions : AppendCreate(s) \/ StoreRead(s)
  BY DEF Next, Step, vars, histories, Select, Expunge, CreateMailbox,
         DeleteMailbox, RenameMailbox, Restart, Deliver, NotifyNew, AppendFlag,
         Start, RangeUids, RangeNumbers, Number, NumberMissing, Fetch, Missing,
         StorePanics, StoreUpdate, CopyRead, CopyCreate, CopyFlags, Move, Fails

\* A mail that is stored is asked to have the flags it was asked to have.
LEMMA AskedStep ==
  ASSUME TypeInv, [Next]_vars
  PROVE  /\ asked' \in [Messages -> SUBSET Flag]
         /\ \A m \in Messages :
              delivery[m].pc # "outside" => asked[m] \subseteq asked'[m]
<1>1. asked \in [Messages -> SUBSET Flag]
  BY DEF TypeInv, TypeOK
<1>2. ASSUME NEW s \in Sessions, AppendCreate(s)
      PROVE  \E m \in Messages, F \in SUBSET Flag :
               delivery[m].pc = "outside" /\ asked' = [asked EXCEPT ![m] = F]
  <2>1. PICK box \in boxes, m \in Messages, flags \in FlagLists :
          /\ delivery[m].pc = "outside"
          /\ asked' = [asked EXCEPT ![m] = {flags[k] : k \in DOMAIN flags}]
    BY <1>2 DEF AppendCreate
  <2>2. \A k \in DOMAIN flags : flags[k] \in Flag
    BY ImapAssumption, LenProperties, ElementOfSeq
  <2>3. {flags[k] : k \in DOMAIN flags} \in SUBSET Flag
    BY <2>2
  <2> QED
    BY <2>1, <2>3
<1>3. ASSUME NEW s \in Sessions, StoreRead(s)
      PROVE  UNCHANGED asked \/ \E m \in Messages, F \in SUBSET Flag :
                                  asked' = [asked EXCEPT ![m] = @ \cup F]
  <2>1. PICK r \in Found(s) :
          asked' = IF session[s].cmd.op = "add"
                   THEN [asked EXCEPT ![r.mail] = @ \cup session[s].cmd.flags]
                   ELSE asked
    BY <1>3, StoreReadHolds
  <2>2. session[s].cmd.flags \in SUBSET Flag /\ r.mail \in Messages
    <3>1. session[s].cmd \in Commands /\ r \in Row
      BY <1>3, SessionFields, FoundRow DEF StoreRead
    <3> QED
      BY <3>1, ImapAssumption DEF Row
  <2> QED
    BY <2>1, <2>2
<1> QED
  BY <1>1, <1>2, <1>3, AskedFrame

LEMMA ToldTypeStep ==
  ASSUME TypeInv, [Next]_vars
  PROVE  told' \subseteq [box : Names, uid : Nat, mail : Messages]
<1>1. CASE UNCHANGED told
  BY <1>1 DEF TypeInv, TypeOK
<1>2. ASSUME NEW s \in Sessions, Fetch(s)
      PROVE  told' \subseteq [box : Names, uid : Nat, mail : Messages]
  <2>1. PICK read \in SUBSET mails :
          told' = told \cup {[box |-> r.mailbox, uid |-> r.id, mail |-> r.mail] : r \in read}
    BY <1>2 DEF Fetch, Found, MailSelect
  <2>2. \A r \in read : r.mailbox \in Names /\ r.id \in Nat /\ r.mail \in Messages
    BY DEF TypeInv, TypeOK, Row
  <2> QED
    BY <2>1, <2>2 DEF TypeInv, TypeOK
<1> QED
  BY <1>1, <1>2, ToldFrame

LEMMA UidNextTypeStep ==
  ASSUME TypeInv, [Next]_vars
  PROVE  uidnext' \in Nat
<1>1. MailNextID(mails, "INBOX") \in Nat /\ uidnext \in Nat
  BY NextIDType DEF TypeInv, TypeOK
<1>2. ASSUME NEW next \in Nat, Announce(next) PROVE uidnext' \in Nat
  BY <1>1, <1>2, MaxOfTwo DEF Announce
<1>3. ASSUME NEW s \in Sessions, Select(s) PROVE uidnext' \in Nat
  BY <1>1, <1>2, <1>3 DEF Select, Status
<1>4. ASSUME NEW m \in Messages, NotifyNew(m) PROVE uidnext' \in Nat
  <2>1. delivery[m].id + 1 \in Nat
    BY DEF TypeInv, TypeOK
  <2> QED
    BY <1>1, <1>2, <1>4, <2>1 DEF NotifyNew
<1> QED
  BY <1>1, <1>3, <1>4, ChangeKeepsNext

LEMMA TypeStep == TypeInv /\ [Next]_vars => TypeInv'
<1> SUFFICES ASSUME TypeInv, [Next]_vars PROVE TypeInv'
  OBVIOUS
<1>1. KeysInv'
  BY TablesStep DEF TypeInv
<1>2. boxes' \subseteq Names
  BY BoxesStep DEF TypeInv, TypeOK
<1>3. mails' \subseteq Row
  BY MailsTypeStep
<1>4. session' \in [Sessions -> SessionType]
  BY SessionTypeStep
<1>5. delivery' \in [Messages -> [pc : {"outside", "notify", "done"}, id : Nat]]
  BY DeliveryTypeStep
<1>6. told' \subseteq [box : Names, uid : Nat, mail : Messages]
  BY ToldTypeStep
<1>7. asked' \in [Messages -> SUBSET Flag]
  BY AskedStep
<1>8. uidnext' \in Nat
  BY UidNextTypeStep
<1> QED
  BY <1>1, <1>2, <1>3, <1>4, <1>5, <1>6, <1>7, <1>8 DEF TypeInv, TypeOK

LEMMA TypeInit == Init => TypeInv
<1> SUFFICES ASSUME Init PROVE TypeInv
  OBVIOUS
<1>1. KeysInv
  BY KeysInit
<1>2. session \in [Sessions -> SessionType]
  BY ReadyType DEF Init
<1>3. delivery \in [Messages -> [pc : {"outside", "notify", "done"}, id : Nat]]
  BY DEF Init, Delivery
<1>4. asked \in [Messages -> SUBSET Flag]
  BY DEF Init
<1> QED
  BY <1>1, <1>2, <1>3, <1>4, ImapAssumption DEF Init, TypeInv, TypeOK

\* The tables, and the locals of commands and deliveries, have their types.
THEOREM ImapTypesHold == Spec => []TypeOK
<1>1. TypeInv => TypeOK
  BY DEF TypeInv
<1> QED
  BY <1>1, TypeInit, TypeStep, PTL DEF Spec

-----------------------------------------------------------------------------
(***************************************************************************)
(* Flags. A session that is about to write flags knows a mail that they    *)
(* are asked for; where ids are not given again, the key it writes to is   *)
(* that mail's or nobody's.                                                *)
(***************************************************************************)

\* Client or sender have handed the mail over.
Stored(mail) == delivery[mail].pc # "outside"

\* What a session that holds a row may write is asked for, and what it writes
\* to is that mail, where ids are not given again.
HoldInv(x) ==
  /\ x.pc \in Holding => Stored(x.row.mail)
  /\ x.pc = "append" =>
       /\ Means(x.row.mailbox, x.row.id, x.row.mail)
       /\ \A k \in DOMAIN x.flags : x.flags[k] \in asked[x.row.mail]
  /\ x.pc = "update" =>
       /\ Means(x.box, x.row.id, x.row.mail)
       /\ x.box \notin recycled =>
            NewFlags(x.row, x.cmd) \subseteq asked[x.row.mail]

\* The inductive invariant.
FlagsInv ==
  /\ TypeInv /\ FlagsAskedFor
  /\ \A r \in mails : Stored(r.mail)
  /\ \A s \in Sessions : HoldInv(session[s])

\* What is asked of a mail that is stored stays asked.
LEMMA StoredStep ==
  ASSUME TypeInv, [Next]_vars, NEW m \in Messages, Stored(m)
  PROVE  Stored(m)' /\ asked[m] \subseteq asked'[m]
  BY DeliveryTypeStep, AskedStep DEF Stored

LEMMA HoldKeeps ==
  ASSUME TypeInv, TypeInv', [Next]_vars, NEW x \in SessionType, HoldInv(x)
  PROVE  HoldInv(x)'
<1>1. CASE x.pc \notin Holding
  BY <1>1 DEF HoldInv, Holding
<1>2. CASE x.pc \in Holding
  <2>1. x.row \in Row
    BY <1>2 DEF SessionType, Holding
  <2>2. x.row.mail \in Messages
    BY <2>1 DEF Row
  <2>3. Stored(x.row.mail)' /\ asked[x.row.mail] \subseteq asked'[x.row.mail]
    BY <1>2, <2>2, StoredStep DEF HoldInv
  <2>4. \A box, uid, mail : Means(box, uid, mail) => Means(box, uid, mail)'
    BY MeansStep DEF TypeInv
  <2>5. x.pc = "append" =>
          /\ Means(x.row.mailbox, x.row.id, x.row.mail)'
          /\ \A k \in DOMAIN x.flags : x.flags[k] \in asked'[x.row.mail]
    BY <2>3, <2>4 DEF HoldInv
  <2>6. x.pc = "update" =>
          /\ Means(x.box, x.row.id, x.row.mail)'
          /\ x.box \notin recycled' =>
               NewFlags(x.row, x.cmd) \subseteq asked'[x.row.mail]
    BY <2>3, <2>4, RecycledGrows DEF HoldInv
  <2> QED
    BY <2>3, <2>5, <2>6 DEF HoldInv
<1> QED
  BY <1>1, <1>2

LEMMA SessionCases ==
  ASSUME TypeInv, [Next]_vars, NEW s \in Sessions
  PROVE  \/ session'[s] = session[s]
         \/ session'[s].pc \notin Holding
         \/ AppendCreate(s) \/ AppendFlag(s) \/ StoreRead(s) \/ CopyRead(s)
         \/ CopyCreate(s)
<1>1. session \in [Sessions -> SessionType]
  BY DEF TypeInv, TypeOK
<1>2. CASE session' = [t \in Sessions |-> Ready(None)]
  <2>1. Ready(None).pc \notin Holding
    BY ReadyType
  <2> QED
    BY <1>2, <2>1
<1>3. ASSUME NEW t \in Sessions, NEW y \in SessionType,
             session' = [session EXCEPT ![t] = y]
      PROVE  session'[s] = session[s] \/ (t = s /\ session'[s] = y)
  BY <1>1, <1>3
<1>4. ASSUME NEW t \in Sessions, Goes(t)
      PROVE  session'[s] = session[s] \/ session'[s].pc \notin Holding
  <2>1. PICK y \in SessionType :
          y.pc \notin Holding /\ session' = [session EXCEPT ![t] = y]
    BY <1>4 DEF Goes
  <2> QED
    BY <1>3, <2>1
<1>5. ASSUME NEW t \in Sessions,
             \/ AppendCreate(t) \/ AppendFlag(t) \/ StoreRead(t) \/ CopyRead(t)
             \/ CopyCreate(t)
      PROVE  session'[s] = session[s] \/ t = s
  <2>1. \E y \in SessionType : session' = [session EXCEPT ![t] = y]
    BY <1>5, TakesType
  <2> QED
    BY <1>3, <2>1
<1> QED
  BY <1>2, <1>4, <1>5, SessionFrame

\* What each step that takes hold of a row knows of it.
LEMMA AppendCreateTakes ==
  ASSUME TypeInv, TypeInv', NEW s \in Sessions, AppendCreate(s)
  PROVE  HoldInv(session[s])'
<1>1. PICK box \in boxes, m \in Messages, flags \in Seq(Flag), y \in SessionType :
        /\ delivery[m].pc = "outside"
        /\ mails' = MailCreate(mails, box, m)
        /\ delivery' = [delivery EXCEPT ![m] = Delivery("done")]
        /\ asked' = [asked EXCEPT ![m] = {flags[k] : k \in DOMAIN flags}]
        /\ session' = [session EXCEPT ![s] = y]
        /\ \/ y.pc \notin Holding
           \/ /\ y.pc = "append" /\ y.flags = flags /\ flags # <<>>
              /\ y.row = [mailbox |-> box, id |-> MailNextID(mails, box),
                          mail |-> m, flags |-> {}]
  BY AppendCreateHolds
<1>2. session'[s] = y
  BY <1>1 DEF TypeInv, TypeOK
<1>3. CASE y.pc \notin Holding
  BY <1>2, <1>3 DEF HoldInv, Holding
<1>4. CASE /\ y.pc = "append" /\ y.flags = flags /\ flags # <<>>
           /\ y.row = [mailbox |-> box, id |-> MailNextID(mails, box),
                       mail |-> m, flags |-> {}]
  <2>1. y.row.mailbox = box /\ y.row.id = MailNextID(mails, box) /\ y.row.mail = m
    BY <1>4
  <2>2. PICK r \in mails' : r.mailbox = y.row.mailbox /\ r.id = y.row.id
                            /\ r.mail = y.row.mail
    BY <1>1, <1>4 DEF MailCreate
  <2>3. Means(y.row.mailbox, y.row.id, y.row.mail)'
    <3>1. (KeysInv /\ boxes \subseteq Names => RowsMean)'
      BY RowMeans, PTL
    <3> QED
      BY <2>2, <3>1 DEF Means, RowsMean, TypeInv, TypeOK
  <2>4. Stored(m)'
    BY <1>1 DEF Stored, Delivery, TypeInv, TypeOK
  <2>5. asked'[m] = {flags[k] : k \in DOMAIN flags}
    BY <1>1 DEF TypeInv, TypeOK
  <2>6. \A k \in DOMAIN y.flags : y.flags[k] \in asked'[m]
    BY <1>4, <2>5
  <2> QED
    BY <1>2, <1>4, <2>1, <2>3, <2>4, <2>6 DEF HoldInv
<1> QED
  BY <1>1, <1>3, <1>4

LEMMA AppendFlagTakes ==
  ASSUME FlagsInv, TypeInv', [Next]_vars, NEW s \in Sessions, AppendFlag(s)
  PROVE  HoldInv(session[s])'
<1>1. TypeInv /\ HoldInv(session[s])
  BY DEF FlagsInv
<1>2. PICK y \in SessionType :
        /\ session' = [session EXCEPT ![s] = y]
        /\ \/ y.pc \notin Holding
           \/ /\ y.pc = "append" /\ y.flags = Tail(session[s].flags)
              /\ y.flags # <<>> /\ y.row = session[s].row
  BY <1>1, AppendFlagHolds
<1>3. session'[s] = y
  BY <1>1, <1>2 DEF TypeInv, TypeOK
<1>4. CASE y.pc \notin Holding
  BY <1>3, <1>4 DEF HoldInv, Holding
<1>5. CASE /\ y.pc = "append" /\ y.flags = Tail(session[s].flags)
           /\ y.row = session[s].row
  <2>1. session[s].pc = "append" /\ UNCHANGED <<delivery, asked>>
    BY DEF AppendFlag
  <2>2. /\ Stored(y.row.mail) /\ Means(y.row.mailbox, y.row.id, y.row.mail)
        /\ \A k \in DOMAIN session[s].flags :
             session[s].flags[k] \in asked[y.row.mail]
    BY <1>1, <1>5, <2>1 DEF HoldInv, Holding
  <2>3. Means(y.row.mailbox, y.row.id, y.row.mail)'
    BY <1>1, <2>2, MeansStep DEF TypeInv
  <2>4. \A k \in DOMAIN y.flags : y.flags[k] \in asked[y.row.mail]
    <3>1. session[s].flags \in Seq(Flag) /\ session[s].flags # <<>>
      BY <1>1, <2>1, SessionFields
    <3>2. /\ y.flags \in Seq(Flag) /\ Len(y.flags) = Len(session[s].flags) - 1
          /\ \A k \in 1..Len(y.flags) : y.flags[k] = session[s].flags[k + 1]
      BY <1>5, <3>1, HeadTailProperties
    <3>3. Len(session[s].flags) \in Nat
          /\ DOMAIN session[s].flags = 1..Len(session[s].flags)
          /\ DOMAIN y.flags = 1..Len(y.flags)
      BY <3>1, <3>2, LenProperties
    <3> QED
      BY <2>2, <3>2, <3>3
  <2> QED
    BY <1>3, <1>5, <2>1, <2>2, <2>3, <2>4 DEF HoldInv, Stored
<1> QED
  BY <1>2, <1>4, <1>5

LEMMA StoreReadTakes ==
  ASSUME FlagsInv, TypeInv', [Next]_vars, NEW s \in Sessions, StoreRead(s)
  PROVE  HoldInv(session[s])'
<1>1. TypeInv
  BY DEF FlagsInv
<1>2. PICK y \in SessionType, r \in Found(s) :
        /\ session' = [session EXCEPT ![s] = y]
        /\ y.pc = "update" /\ y.row = r
        /\ y.box = session[s].box /\ y.cmd = session[s].cmd
        /\ asked' = IF session[s].cmd.op = "add"
                    THEN [asked EXCEPT ![r.mail] = @ \cup session[s].cmd.flags]
                    ELSE asked
  BY <1>1, StoreReadHolds
<1>3. session'[s] = y
  BY <1>1, <1>2 DEF TypeInv, TypeOK
<1>4. r \in mails /\ r \in Row /\ r.mailbox = session[s].box
  BY <1>1, FoundRow
<1>5. UNCHANGED <<mails, recycled, delivery>>
  BY DEF StoreRead, tables
<1>6. Stored(r.mail)'
  BY <1>4, <1>5 DEF FlagsInv, Stored
<1>7. Means(y.box, r.id, r.mail)'
  BY <1>1, <1>2, <1>4, <1>5, RowMeans DEF Means, RowsMean, TypeInv,
     TypeOK
<1>8. ASSUME y.box \notin recycled'
      PROVE  NewFlags(r, y.cmd) \subseteq asked'[r.mail]
  <2>1. r.flags \subseteq asked[r.mail]
    BY <1>2, <1>4, <1>5, <1>8 DEF FlagsInv, FlagsAskedFor
  <2>2. r.mail \in Messages /\ asked \in [Messages -> SUBSET Flag]
    BY <1>1, <1>4 DEF Row, TypeInv, TypeOK
  <2>3. y.cmd.op \in {"set", "add", "remove"} /\ y.cmd.op # "set"
    <3>1. session[s].cmd \in Commands
      BY <1>1, SessionFields DEF StoreRead
    <3> QED
      BY <1>2, <3>1, ImapAssumption DEF StoreRead
  <2>4. CASE y.cmd.op = "add"
    <3>1. asked'[r.mail] = asked[r.mail] \cup y.cmd.flags
      BY <1>2, <2>2, <2>4
    <3> QED
      BY <2>1, <2>4, <3>1 DEF NewFlags
  <2>5. CASE y.cmd.op = "remove"
    BY <1>2, <2>1, <2>5 DEF NewFlags
  <2> QED
    BY <2>3, <2>4, <2>5
<1> QED
  BY <1>2, <1>3, <1>6, <1>7, <1>8 DEF HoldInv

LEMMA HoldStep ==
  ASSUME FlagsInv, TypeInv', [Next]_vars, NEW s \in Sessions
  PROVE  HoldInv(session[s])'
<1>1. TypeInv /\ HoldInv(session[s])
  BY DEF FlagsInv
<1>2. CASE session'[s] = session[s]
  <2>1. session[s] \in SessionType
    BY <1>1, SessionFields
  <2>2. \A x \in SessionType : HoldInv(x) => HoldInv(x)'
    BY <1>1, HoldKeeps
  <2>3. PICK x \in SessionType : x = session[s]
    BY <2>1
  <2>4. HoldInv(x)'
    BY <1>1, <2>2, <2>3
  <2> QED
    BY <1>2, <2>3, <2>4
<1>3. CASE session'[s].pc \notin Holding
  BY <1>3 DEF HoldInv, Holding
<1>4. CASE CopyRead(s)
  <2>1. PICK y \in SessionType, r \in Found(s) :
          session' = [session EXCEPT ![s] = y] /\ y.pc = "create" /\ y.row = r
    BY <1>1, <1>4, CopyReadHolds
  <2>2. session'[s] = y /\ r \in mails
    BY <1>1, <2>1, FoundRow DEF TypeInv, TypeOK
  <2>3. Stored(r.mail)'
    BY <1>4, <2>2 DEF CopyRead, FlagsInv, Stored
  <2> QED
    BY <2>1, <2>2, <2>3 DEF HoldInv
<1>5. CASE CopyCreate(s)
  <2>1. PICK y \in SessionType :
          /\ session' = [session EXCEPT ![s] = y]
          /\ y.pc = "copyflags" /\ y.row.mail = session[s].row.mail
    BY <1>1, <1>5, CopyCreateHolds
  <2>2. session'[s] = y
    BY <1>1, <2>1 DEF TypeInv, TypeOK
  <2>3. Stored(session[s].row.mail)
    BY <1>1, <1>5 DEF CopyCreate, HoldInv, Holding
  <2>4. Stored(y.row.mail)'
    BY <1>5, <2>1, <2>3 DEF CopyCreate, Stored
  <2> QED
    BY <2>1, <2>2, <2>4 DEF HoldInv
<1> QED
  BY <1>1, <1>2, <1>3, <1>4, <1>5, SessionCases, AppendCreateTakes,
     AppendFlagTakes, StoreReadTakes

\* MailUpdateFlags leaves a row alone, or it is the one with the key and has
\* the new flags.
LEMMA UpdatedRows ==
  ASSUME KeysInv, NEW box, NEW id, NEW flags
  PROVE  \A x \in MailUpdateFlags(mails, box, id, flags) :
           \/ x \in mails
           \/ /\ x.mailbox = box /\ x.flags = flags
              /\ \E r \in mails : r.mailbox = box /\ r.id = id /\ r.mail = x.mail
<1> DEFINE New(r) == IF r.mailbox = box /\ r.id = id
                     THEN [r EXCEPT !.flags = flags] ELSE r
<1>1. MailUpdateFlags(mails, box, id, flags) = {New(r) : r \in mails}
  BY DEF MailUpdateFlags
<1>2. ASSUME NEW r \in mails, r.mailbox = box, r.id = id
      PROVE  /\ New(r).mailbox = box /\ New(r).flags = flags
             /\ New(r).mail = r.mail
  BY <1>2 DEF KeysInv, IsMailTable, IsRow
<1>3. \A r \in mails : ~(r.mailbox = box /\ r.id = id) => New(r) = r
  OBVIOUS
<1> HIDE DEF New
<1> QED
  BY <1>1, <1>2, <1>3

\* A row is an old one, or has no flags; or its flags are written.
LEMMA FlagRows ==
  ASSUME TypeInv, [Next]_vars, NEW x \in mails', x.mailbox \notin recycled'
  PROVE  \/ x \in mails
         \/ x.flags = {}
         \/ \E s \in Sessions :
              AppendFlag(s) \/ StoreUpdate(s) \/ CopyFlags(s)
<1>1. CASE \/ UNCHANGED <<boxes, mails>> \/ CreateMailbox \/ DeleteMailbox
           \/ Restart \/ \E s \in Sessions : Expunge(s)
  BY <1>1 DEF CreateMailbox, DeleteMailbox, Restart, Expunge, Change,
              MailboxDelete, MailExpunge
<1>2. CASE \/ \E s \in Sessions : AppendCreate(s) \/ CopyCreate(s)
           \/ \E m \in Messages : Deliver(m)
  <2>1. \E box, data : mails' = MailCreate(mails, box, data)
    BY <1>2 DEF AppendCreate, CopyCreate, Deliver, Change
  <2> QED
    BY <2>1 DEF MailCreate
<1>3. CASE \E s \in Sessions : Move(s)
  <2>1. PICK box, id, dest : /\ mails' = MailMove(mails, box, id, dest)
                            /\ dest \in recycled'
    BY <1>3 DEF Move, Change
  <2> QED
    BY <2>1, MoveRows DEF TypeInv
<1>4. CASE RenameMailbox
  <2>1. PICK existing, new : /\ mails' = MailboxRename(mails, new, existing)
                            /\ existing \in recycled'
    BY <1>4 DEF RenameMailbox, Change
  <2> QED
    BY <2>1, RenameRows DEF TypeInv
<1> QED
  BY <1>1, <1>2, <1>3, <1>4, TablesFrame

\* What is written is asked for.
LEMMA WrittenFlags ==
  ASSUME FlagsInv, [Next]_vars, NEW s \in Sessions,
         AppendFlag(s) \/ StoreUpdate(s) \/ CopyFlags(s),
         NEW x \in mails', x.mailbox \notin recycled'
  PROVE  x \in mails \/ x.flags \subseteq asked[x.mail]
<1>1. TypeInv /\ KeysInv /\ HoldInv(session[s])
  BY DEF FlagsInv, TypeInv
<1>2. x.mailbox \notin recycled
  BY RecycledGrows
<1>3. CASE AppendFlag(s)
  <2> DEFINE row == session[s].row
  <2>1. mails' = MailUpdateFlags(mails, row.mailbox, row.id, {Head(session[s].flags)})
    BY <1>3 DEF AppendFlag, Change
  <2>2. /\ Means(row.mailbox, row.id, row.mail)
        /\ \A k \in DOMAIN session[s].flags : session[s].flags[k] \in asked[row.mail]
    BY <1>1, <1>3 DEF AppendFlag, HoldInv
  <2>3. Head(session[s].flags) \in asked[row.mail]
    <3>1. session[s].flags \in Seq(Flag) /\ session[s].flags # <<>>
      BY <1>1, <1>3, SessionFields DEF AppendFlag
    <3>2. 1 \in DOMAIN session[s].flags /\ Head(session[s].flags) = session[s].flags[1]
      BY <3>1, EmptySeq, LenProperties
    <3> QED
      BY <2>2, <3>2
  <2>4. x \in mails \/ (/\ x.mailbox = row.mailbox
                        /\ x.flags = {Head(session[s].flags)}
                        /\ \E r \in mails : /\ r.mailbox = row.mailbox
                                            /\ r.id = row.id /\ r.mail = x.mail)
    BY <1>1, <2>1, UpdatedRows
  <2> HIDE DEF row
  <2> QED
    BY <1>2, <2>2, <2>3, <2>4 DEF Means
<1>4. CASE StoreUpdate(s)
  <2> DEFINE row == session[s].row
             flags == NewFlags(row, session[s].cmd)
  <2>1. mails' = MailUpdateFlags(mails, session[s].box, row.id, flags)
    BY <1>4 DEF StoreUpdate, Change
  <2>2. /\ Means(session[s].box, row.id, row.mail)
        /\ session[s].box \notin recycled => flags \subseteq asked[row.mail]
    BY <1>1, <1>4 DEF StoreUpdate, HoldInv
  <2> HIDE DEF flags, row
  <2>3. x \in mails \/ (/\ x.mailbox = session[s].box /\ x.flags = flags
                        /\ \E r \in mails : /\ r.mailbox = session[s].box
                                            /\ r.id = row.id /\ r.mail = x.mail)
    BY <1>1, <2>1, UpdatedRows
  <2> QED
    BY <1>2, <2>2, <2>3 DEF Means
<1>5. CASE CopyFlags(s)
  <2>1. /\ mails' = MailUpdateFlags(mails, session[s].box, session[s].row.id,
                                    session[s].row.flags)
        /\ session[s].box \in recycled'
    BY <1>5 DEF CopyFlags, Change
  <2> QED
    BY <1>1, <2>1, UpdatedRows
<1> QED
  BY <1>3, <1>4, <1>5

\* All other steps leave the mails where they are, or take some away.
LEMMA SameMails ==
  ASSUME KeysInv, [Next]_vars, NEW x \in mails',
         ~ \/ \E s \in Sessions : AppendCreate(s) \/ CopyCreate(s)
           \/ \E m \in Messages : Deliver(m)
  PROVE  \E r \in mails : r.mail = x.mail
<1>1. CASE \/ UNCHANGED <<boxes, mails>> \/ CreateMailbox \/ DeleteMailbox
           \/ Restart \/ \E s \in Sessions : Expunge(s)
  BY <1>1 DEF CreateMailbox, DeleteMailbox, Restart, Expunge, Change,
              MailboxDelete, MailExpunge
<1>2. CASE \E s \in Sessions : AppendFlag(s) \/ StoreUpdate(s) \/ CopyFlags(s)
  <2>1. \E box, id, flags : mails' = MailUpdateFlags(mails, box, id, flags)
    BY <1>2 DEF AppendFlag, StoreUpdate, CopyFlags, Change
  <2> QED
    BY <2>1, UpdateKeepsRows DEF KeysInv, IsMailTable
<1>3. CASE \E s \in Sessions : Move(s)
  <2>1. PICK box, id, dest : mails' = MailMove(mails, box, id, dest)
    BY <1>3 DEF Move, Change
  <2>2. \A r \in mails : [r EXCEPT !.mailbox = dest].mail = r.mail
    BY RowMailbox DEF KeysInv, IsMailTable
  <2> QED
    BY <2>1, <2>2 DEF MailMove
<1>4. CASE RenameMailbox
  <2>1. PICK existing, new : mails' = MailboxRename(mails, new, existing)
    BY <1>4 DEF RenameMailbox, Change
  <2>2. \A r \in mails : [r EXCEPT !.mailbox = existing].mail = r.mail
    BY RowMailbox DEF KeysInv, IsMailTable
  <2> QED
    BY <2>1, <2>2 DEF MailboxRename
<1> QED
  BY <1>1, <1>2, <1>3, <1>4, TablesFrame

LEMMA StoredMails ==
  ASSUME FlagsInv, [Next]_vars, NEW x \in mails'
  PROVE  Stored(x.mail)'
<1>1. TypeInv /\ TypeInv' /\ KeysInv
  BY TypeStep DEF FlagsInv, TypeInv
<1>2. \A r \in mails : Stored(r.mail)'
  <2>1. \A r \in mails : r.mail \in Messages /\ Stored(r.mail)
    BY <1>1 DEF FlagsInv, TypeInv, TypeOK, Row
  <2> QED
    BY <1>1, <2>1, StoredStep
<1>3. CASE \E s \in Sessions : AppendCreate(s)
  <2>1. PICK box \in boxes, m \in Messages :
          /\ Change(MailCreate(mails, box, m), {})
          /\ delivery' = [delivery EXCEPT ![m] = Delivery("done")]
    BY <1>3 DEF AppendCreate
  <2>2. Stored(m)'
    BY <1>1, <2>1 DEF Stored, Delivery, TypeInv, TypeOK
  <2> QED
    BY <1>2, <2>1, <2>2 DEF MailCreate, Change
<1>4. CASE \E m \in Messages : Deliver(m)
  <2>1. PICK m \in Messages :
          /\ mails' = MailCreate(mails, "INBOX", m)
          /\ delivery' = [delivery EXCEPT ![m] =
               [pc |-> "notify", id |-> MailNextID(mails, "INBOX")]]
    BY <1>4 DEF Deliver, Change
  <2>2. Stored(m)'
    BY <1>1, <2>1 DEF Stored, TypeInv, TypeOK
  <2> QED
    BY <1>2, <2>1, <2>2 DEF MailCreate
<1>5. CASE \E s \in Sessions : CopyCreate(s)
  <2>1. PICK s \in Sessions : CopyCreate(s)
    BY <1>5
  <2>2. PICK mail : mail = session[s].row.mail
    OBVIOUS
  <2>3. session[s].pc = "create" /\ UNCHANGED delivery
        /\ mails' = MailCreate(mails, session[s].cmd.dest, mail)
    BY <2>1, <2>2 DEF CopyCreate, Change
  <2>4. Stored(mail)'
    BY <2>2, <2>3 DEF FlagsInv, HoldInv, Holding, Stored
  <2> QED
    BY <1>2, <2>3, <2>4 DEF MailCreate
<1>6. CASE ~ \/ \E s \in Sessions : AppendCreate(s) \/ CopyCreate(s)
             \/ \E m \in Messages : Deliver(m)
  <2>1. \E r \in mails : r.mail = x.mail
    BY <1>1, <1>6, SameMails
  <2> QED
    BY <1>2, <2>1
<1> QED
  BY <1>3, <1>4, <1>5, <1>6

LEMMA FlagsStep == FlagsInv /\ [Next]_vars => FlagsInv'
<1> SUFFICES ASSUME FlagsInv, [Next]_vars PROVE FlagsInv'
  OBVIOUS
<1>1. TypeInv /\ TypeInv'
  BY TypeStep DEF FlagsInv
<1>2. \A x \in mails' : Stored(x.mail)'
  BY StoredMails
<1>3. \A s \in Sessions : HoldInv(session[s])'
  BY <1>1, HoldStep
<1>4. ASSUME NEW x \in mails', x.mailbox \notin recycled'
      PROVE  x.flags \subseteq asked'[x.mail]
  <2>1. CASE x.flags = {}
    BY <2>1
  <2>2. CASE x \in mails
    <3>1. x.flags \subseteq asked[x.mail]
      BY <1>4, <2>2, RecycledGrows DEF FlagsInv, FlagsAskedFor
    <3>2. x.mail \in Messages /\ Stored(x.mail)
      BY <1>1, <2>2 DEF FlagsInv, TypeInv, TypeOK, Row
    <3> QED
      BY <1>1, <3>1, <3>2, StoredStep
  <2>3. CASE \E s \in Sessions : AppendFlag(s) \/ StoreUpdate(s) \/ CopyFlags(s)
    <3>1. UNCHANGED asked
      BY <2>3 DEF AppendFlag, StoreUpdate, CopyFlags
    <3>2. x \in mails \/ x.flags \subseteq asked[x.mail]
      BY <1>4, <2>3, WrittenFlags
    <3> QED
      BY <2>2, <3>1, <3>2
  <2> QED
    BY <1>1, <1>4, <2>1, <2>2, <2>3, FlagRows
<1> QED
  BY <1>1, <1>2, <1>3, <1>4 DEF FlagsInv, FlagsAskedFor

LEMMA FlagsInit == Init => FlagsInv
<1> SUFFICES ASSUME Init PROVE FlagsInv
  OBVIOUS
<1>1. \A s \in Sessions : HoldInv(session[s])
  BY DEF Init, Ready, HoldInv, Holding
<1> QED
  BY <1>1, TypeInit DEF Init, FlagsInv, FlagsAskedFor

\* In a mailbox whose last message stays and that nothing is copied from,
\* moved to or renamed to, a message has only flags that a client asked it to
\* have, however STOREs, APPENDs, expunges, arrivals and restarts interleave.
THEOREM ImapFlagsAskedFor == Spec => []FlagsAskedFor
<1>1. FlagsInv => FlagsAskedFor
  BY DEF FlagsInv
<1> QED
  BY <1>1, FlagsInit, FlagsStep, PTL DEF Spec
=============================================================================
