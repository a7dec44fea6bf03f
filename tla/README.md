# Yggmail: models, checks and proofs

Yggmail is a mail server that runs as one process per user.  Mail clients talk
IMAP and SMTP to it on localhost; nodes exchange mail by SMTP over the
Yggdrasil overlay, where a node is its public key and an address is
`<key>@yggmail`.  This directory holds TLA+ models of the parts of Yggmail
that keep state, TLC configurations that check them on small instances, and
TLAPS proofs of the main safety properties for instances of any size.
`PROJECT.json` maps every definition to the source lines it stands for, and
lists runs, mutants, findings, hazards and theorems.

## The system

| Component | State | Operations | Where it is hard |
|---|---|---|---|
| `smtpsender` (outbound queues) | rows of `queue` and of mailbox Outbox; per destination a flag `running` and a goroutine; a timer | `QueueFor` (a client submits), `Queue.run` (deliver what is queued for one node), `manager` (kick all queues, once a minute) | a submission and several runs work on the same rows without a transaction, ids are reused, every step may be the last before a crash |
| `storage/sqlite3` `Writer` | flag `running`, task channel, one result channel per call | `Do`, `run` | the first calls race to start the worker; results travel over channels that are also closed |
| `storage/sqlite3` tables | `mails`, `queue`, `mailboxes`, `config` | one SQL statement per method | keys, cascades and `MAX(id)+1` as next id |
| `smtpserver` | per connection: sender and recipients, beside what the SMTP library keeps | `Login`, `AnonymousLogin`, `Mail`, `Rcpt`, `Data`, `Reset` | two copies of the transaction that are reset at different moments |
| `imapserver` | mailboxes, messages, flags; the selected mailbox of a session | FETCH, STORE, COPY, MOVE, APPEND, EXPUNGE, mailbox commands, notifications | each command is many storage calls, by several sessions at once |
| `transport` | the overlay node | `Dial`, `Listener` | reachability; it authenticates the peer's key |
| `utils`, `config`, `cmd/yggmail` | identity key and password in `config` | parse an address; start up | key and password are read, generated and stored step by step |

How they interact: `SessionLocal.Data` calls `QueueFor`; `Queue.run` dials the
destination, whose `SessionRemote.Data` stores the mail in INBOX and calls
`IMAPNotify.NotifyNew`.  Everything that writes to the database goes through
`Writer.Do`; reads go straight to the connection pool.  The prepared
statements are executed on the pool, not in the transaction that `Writer.run`
begins, so each statement commits by itself and a sequence of them is not
atomic.

What makes the components correct:

* outbound: an accepted mail is delivered once to each of its addressees and to
  nobody else, is retried until then, and leaves Outbox afterwards;
* writer: writes are serial, every call returns, and its result is the truth;
* SMTP: a mail in INBOX comes from the node it claims to come from; a submitted
  mail is queued with this node's sender, for the recipients that were
  acknowledged;
* IMAP: a command changes what it names and nothing else, whatever other
  sessions do; INBOX and Outbox always exist;
* start-up: a node keeps its identity, its user gets in with the password that
  was reported and the address that was logged.

## Modules

| Module | Models | Uses |
|---|---|---|
| `MailStore` | the SQL statements on `mails` and `queue`, and what those on `mailboxes` cascade to, as operators on sets of rows | |
| `StoreFacts` | lemmas about those operators | `MailStore` |
| `Sender` | `smtpsender/sender.go` | `MailStore` |
| `MCSender` | instances of `Sender` for TLC | `Sender` |
| `SenderProofs`, `SoleProofs` | theorems about `Sender` | `Sender`, `StoreFacts` |
| `Outbox` | `Sender` composed with a mail client that has Outbox selected | `Sender` |
| `MCOutbox` | instances of `Outbox` for TLC | `Outbox` |
| `OutboxProofs` | theorems about `Outbox` | `Outbox`, `SenderProofs`, `StoreFacts` |
| `SerialStore` | what callers of `Writer.Do` rely on (abstract) | |
| `Writer` | `sqlite3.go`, type `Writer` | `SerialStore` (refinement) |
| `WriterProofs` | theorems about `Writer` | `Writer` |
| `SmtpServer` | `smtpserver/*.go`, with the command rules of the library go-smtp | `MailStore` |
| `MCSmtp` | instance of `SmtpServer` for TLC | `SmtpServer` |
| `SmtpProofs` | theorems about `SmtpServer` | `SmtpServer`, `StoreFacts` |
| `ImapServer` | `imapserver/mailbox.go`, `user.go` and `notify.go`, with the mail that arrives | `MailStore` |
| `MCImap` | instances of `ImapServer` for TLC | `ImapServer` |
| `ImapProofs` | theorems about `ImapServer` | `ImapServer`, `StoreFacts` |
| `Address` | `utils/address.go` | |
| `Startup` | `cmd/yggmail/main.go`, the `config` table and `Backend.Login` | `Address` |
| `MCStartup` | instance of `Startup` for TLC | `Startup` |
| `StartupProofs` | theorems about `Startup` | `Startup` |

### MailStore

A table is a set of rows; an operator is named after the method of the table
that it models and gives the new table or the rows selected.  `MailNextID` is
`MAX(id)+1`, so the id of the last mail is given out again after it is
expunged; `QueueInsertAllowed` is the primary and foreign key of `queue`;
`QueueCascade` is `ON DELETE CASCADE`, `QueueMove` is `ON UPDATE CASCADE`.
`MailIDForSeq` numbers the mails of a mailbox in the order of their ids: the
view does not ask for an order, but SQLite reads the rows of one mailbox
through the index of the primary key.  `MailboxDelete` and `MailboxRename` are
what the statements on `mailboxes` cascade to.
`QueueSelectIsMessagePendingSend` has the source's condition on mailbox and id.

### Sender

`sub[m]` is one call of `QueueFor` with its locals (the recipients, the
position in the list, the id that `MailCreate` returned).  `run[d]` is the
goroutine `Queue.run` of destination `d` with its locals (the list it read,
the current row, the mail).  `manager` is the timer callback.  Every storage
call, and the two halves of the SMTP dialogue, is one action, so that anything
may happen in between.  The dialogue has two halves because of `defer`: the
final dot, and with it the delivery, is sent by the deferred `writer.Close`
after the row was removed (`RunClose`), everything before it is `RunSend`.

| Code | Actions |
|---|---|
| `QueueFor` | `Submit`, `SubCreate`, `SubUnparsable`, `SubSelf`, `SubInsert`, `SubRefused`, `SubKick`, `SubQueued` |
| `Queue.run` | `RunList`, `RunSelect`, `RunSelectNoRows`, `RunPurge`, `RunSend`, `RunSendFails`, `RunUnqueue`, `RunPending`, `RunMark`, `RunClose`, `RunCloseFails`, `RunExpunge`, `RunStop` |
| `manager` | `ManagerFires`, `ManagerKicks`, `ManagerRearms` |
| errors of storage calls | `SubError`, `RunError`, `ManagerError` |
| writes that `Writer` skips (see `WriterSkips`) | `SubSkip`, `RunSkip` |
| the process dies and restarts | `Crash` |

A failed connection (`RunSendFails`) is normal operation and not counted;
`faults` counts the others by kind.

### Outbox

`Outbox` adds to the steps of `Sender` those of one mail client (`client`,
which is declared in `Sender` and idle there) whose commands change the rows
that submissions and runs work on: `ClientAppend`, `ClientRead` and
`ClientWrite` (the two storage calls of STORE), `ClientExpunge`, `ClientMove`
and `ClientDequeue` (the two of MOVE to INBOX).  `OutboxNext` interleaves them
with every step of `Sender`, the crash included.  `ImapServer` has the commands
in full; here each concerns one mail, which is all that matters to the rows.
`ClientDequeue` passes "Outbox" where the table expects a destination, so no
row goes: a row that was moved stays in the table, its destination is kicked
for it every minute, and its id, looked up in Outbox, may belong to another
mail (`OutboxMove`).  `MaxCopies` bounds that endless sending; in the runs of
`Sender` alone it is never reached.

### Writer and SerialStore

Every call `c` of `Do` may start a goroutine `worker[c]`.  `wait[c]` is the
result channel: one place, and closed or not.  `SerialStore` says what the
callers rely on: called, then applied (appended to the log) or refused, then
returned with that result.  Its constant `Lossy`, which `Writer` instantiates
with `BeginMayFail`, allows it to forget a write and return nil: that is what
the code does when `Begin` fails.  The refinement mapping `StateOf` reads the
state of a call off the caller's position and the content of its channel.

### SmtpServer

A connection has the library's half (`helo`, `session`, `fromReceived`,
`recipients`) and the session's half (`from`, `rcpt`).  The library is not in
the repository; its command rules are marked external in the map.  Neither
half is trusted by the properties: what is stored or queued is recorded with
the facts known from outside (the key of the peer, the recipients that were
answered with 250).  `Nesting` is the set of connections on which MAIL may be
sent in an open transaction, which the library lets through.

### ImapServer

`session[s]` is the connection of a mail client: the selected mailbox and the
locals of the command under way.  FETCH, STORE, COPY and MOVE first resolve
their sequence set (`getIDsFromSeqSet`, one storage call per step), then
work through the ids.  Between calls the code only computes, so the
operators `Loop`, `NextRange` and `NextNumber` take a session to its next
storage call.  `delivery[m]` is the end of `SessionRemote.Data` for an arriving
message: it is stored (`Deliver`), and announced in a later step (`NotifyNew`)
with the id it was stored under.

What the code does and one might not expect is in the model: the end of `n:*`
is the greatest id also in a set of sequence numbers; FETCH passes over an id
that is gone, STORE and COPY stop there; STORE FLAGS (without + or -) uses a
mail it has not read, the library recovers from the panic and closes the
connection; APPEND sets its flags one at a time, each of which clears the
others; MOVE keeps the id; the empty name can be selected without a mailbox;
RENAME works the other way round, so that INBOX and Outbox can go, until a
restart creates them again.

| Code | Actions |
|---|---|
| `User` | `Select` (with `Status`), `CreateMailbox`, `DeleteMailbox`, `RenameMailbox` |
| `getIDsFromSeqSet` | `Start`, `RangeUids`, `RangeNumbers`, `Number`, `NumberMissing` |
| `ListMessages` | `Fetch` |
| `UpdateMessagesFlags` | `StoreRead`, `StoreUpdate`, `StorePanics`, `Missing` |
| `CopyMessages` | `CopyRead`, `CopyCreate`, `CopyFlags`, `Missing` |
| `MoveMessages` | `Move` |
| `CreateMessage` | `AppendCreate`, `AppendFlag` |
| `Expunge` | `Expunge` |
| errors of storage calls | `Fails` |
| `SessionRemote.Data`, `IMAPNotify.NotifyNew` | `Deliver`, `NotifyNew` |
| the process dies and `main` starts again | `Restart` |

Four variables are histories that only the properties read: `told` is what
FETCH answered, `asked` the flags that clients asked for, `uidnext` the
greatest UIDNEXT of INBOX that clients were told, and `recycled` the
mailboxes in which an id may name another message than before, because the
last message has left or because COPY, MOVE or RENAME brings ids along.  In
those `UidsStable`, `FlagsAskedFor` and `UidNextHolds` do not hold and are not
claimed.

### Address and Startup

`ParseAddress` works on sequences of characters, with the decoding of
hexadecimal digits in either case, the padding and cutting to `KeyLen` bytes,
and the panic on a name that is the bare domain.  `Startup` has processes
`proc[p]` on one database.  The README of the repository allows a second
process (`-password`) while one is running, so any number may be in any mode at
any step.  A key stands for itself: the private key that is stored determines
the public one.  A hash stands for the password it was made from.

| Code | Actions |
|---|---|
| `main`: identity | `GetKey`, `GenerateKey`, `SetKey` |
| `main`: mailboxes | `CreateInbox`, `CreateOutbox` |
| `main`: flags | `Continue` (in the step before), `Prompt`, `TakeHash`, `SetPassword`, `Report` |
| `main`: listeners, signals | `Listen`, `Stop` |
| `User`: mailbox commands of clients | `RenameMailbox`, `CreateMailbox` |
| `Backend.Login` | `Login`, with `ConfigTryPassword` |

Of the mailboxes, `Startup` keeps only INBOX and Outbox.  Clients of a serving
process can take them away, because RENAME has its names the wrong way round,
and create them again; `taken` is the history of what they took.  `Listen` is
one step for the listeners that `main` starts, two of them in goroutines: no
property tells their order apart, and one that fails is `Stop`.
`Stop` is also every panic and exit on an error, and a crash.  `lapses` is a
history of what a write stored that `Writer` skipped, or two processes at once;
the properties name those cases as exceptions, and each of them is real:
without its exception the property fails.

## Runs

| Run | Instance | Question |
|---|---|---|
| `Outbox` | 2 mails with one recipient, 2 nodes, 1 client command, 1 crash | Do rows refer to mails, does a run send only what it has read, and is `running` set exactly while a goroutine is alive, whatever a mail client does to Outbox? |
| `SenderSole` | 2 mails with one recipient on another node (and own and unparsable ones), 1 fault | Is a mail sent only to its addressee, are duplicates and losses accounted for, does an expunge take only what is done? |
| `SenderLive` | 2 mails to the same node, some with an address that fails the submission afterwards, 1 crash or unacknowledged message | Is every row retried until it is gone; without faults, is every mail delivered and removed from Outbox? |
| `SenderWrongNode` | 2 mails, to 2 nodes or one | violation: a node gets a mail that was not addressed to it |
| `SenderUnacknowledged` | 1 mail, one refusal after the final dot | violation: an accepted mail is lost |
| `OutboxMove` | 2 mails, 1 MOVE | violation: a node gets a mail that was not addressed to it |
| `WriterSerial` | 3 concurrent calls, `Begin` may fail | One worker, one result, one close; refinement of `SerialStore` with liveness |
| `WriterSkips` | 2 calls | violation: nil for a write that never ran |
| `Smtp` | a client and a node, 2 recipients per mail, 2 mails | Are stored and queued mails authentic and for the acknowledged recipients? |
| `Imap` | 2 sessions, 2 messages, at most 3 rows and 3 commands, 3 mailboxes | Do the keys hold, is no message lost, do UIDs, announced UIDNEXTs and flags stay true? |
| `ImapCopy` | 1 session, COPY, no other mailboxes | violation: a message gets flags that no client asked for |
| `Startup` | 2 processes, 3 starts, 2 keys of 2 bytes, 2 typed passwords | Does a node keep its identity, is a reported password in force, are the mailboxes there that no client took away, does the own address log in? |

Bounds.  Two mails and two nodes are what the races of `Sender` need: a
submission under way, a run that expunges, and a second mail that takes the id;
two nodes also give two runs that expunge each other's mails.  In `SenderSole`
one fault, of any kind and at any step, is followed by every recovery from it;
in `SenderLive` both mails go to one node, because a row waits for the run of
its own destination only, and a submission may fail after it has queued its
first recipient.  In `Outbox` the client's command (an append, a
mark, a move or an expunge) and the crash fall between any two steps of two
submissions and their runs; the client's STORE adds Deleted, the only flag that
another action reads.  Its nodes are symmetric together with their addresses.
Three calls of `Do` give two goroutines that lose the compare-and-swap while a
third call waits for the channel.  In `Smtp` the connections are reused after
`Quit`, so two connections stand for any number of consecutive ones; two
recipients and two mails let state of one transaction reach the next; the
addresses are one of this node, one of the peer and one that does not parse.
In `Imap` the third mailbox has the empty name, the only one that may be
selected without being there, and `MaxRows` is the disk being full and
`MaxCommands` the end of the clients' work: two messages and a copy let numbers
and ids shift under a command, and three commands are a STORE or COPY, one of
the other session between its steps, and one that prepares (append, expunge,
move back or rename).  In `Startup` three starts are two processes that race
and a third that finds what they left; keys of two bytes have a zero byte, a
digit and a letter, so that padding, the order of digits and their case matter.
The theorems have no such bounds, and they state every safety property of these
runs: more faults, commands, mails or nodes can break none of them.

Every passing property has a mutant in `PROJECT.json`: a variant of one mapped
definition, kept next to it in the module and marked "Mutant", with a plausible
bug under which TLC finds the property violated.

Deadlock is not checked where the system may stop: when `QueueFor` is over,
the manager is dead and nothing runs (`SenderSole`, and `Outbox` when also the
client is done or `MaxCopies` is reached), when all calls of `Do` have
returned, when a RENAME leaves no mailbox to select in `ImapCopy`, and when all
starts are used up.

Fairness.  `SenderLive` assumes weak fairness of each
submission, each run and the manager: goroutines are scheduled, storage calls
and dials end (they have deadlines or fail), the timer fires.  It assumes
strong fairness of `RunSend`: a destination that is tried again and again is
reachable again and again; without it nothing can be delivered.  Clients need
not submit and faults need not happen.  Errors of storage calls are not among
the faults of this run: one error of the manager's query ends all retries (see
below).  `WriterSerial` assumes that goroutines
are scheduled and that each sender on the unbuffered channel is served in the
end, which Go's first-in-first-out wait queues give.

## What the violations show

The five findings are in `PROJECT.json` with the lines they quote.

* `QueueFor` kicks the queue of the first recipient before it inserts the row
  of the second.  The run may finish in between: it finds no row pending, marks
  the mail, and expunges it.  If another mail takes the id first, the second row
  names that mail (`SenderWrongNode`); if the row is inserted before the
  expunge, it goes with the mail and the second recipient gets nothing.  With
  one recipient on another node per mail neither can happen, which is what
  `SoleProofs` proves.
* The row is removed before the destination has acknowledged the message
  (`SenderUnacknowledged`).
* MOVE out of Outbox keeps the queue row, which then sends other mails to the
  node of the one that was moved (`OutboxMove`).
* `Writer.Do` returns nil when `Begin` fails (`WriterSkips`).
* COPY sets the flags of the new id in the mailbox that is copied from
  (`ImapCopy`).

In the models, but no run of their own:

* `manager` returns on an error of its query before it sets its timer again
  (`ManagerError` of `Sender`), so that the rows of failed deliveries wait for
  the next submission to their node, or a restart.
* RENAME passes its names in the wrong order, which also defeats the protection
  of INBOX and Outbox: RENAME of a name that is not there to INBOX takes INBOX
  away until somebody creates it or the process starts again (`RenameMailbox`
  of `Startup`).  `MailboxesThere` therefore excepts what a client took since
  the mailbox was last created.
* Two STOREs that interleave lose one's flags.  In Outbox a STORE that read the
  flags of a mail that is expunged meanwhile may write the Deleted mark of the
  sender onto the next mail with that id, which the next expunge takes together
  with its row.
* Two processes that are both the first generate two identities, and the one
  whose key is overwritten goes on with an address that is lost on restart
  (`lapses` in `OneIdentity`).
* `-passwordhash` goes on to serve also without peers; `-password` trims the
  password, the login does not, so that one typed with a space never logs in.

## Proofs

Constants are arbitrary; the assumptions are the named `ASSUME`s of the
modules (types, and model values being different from each other), which TLC
evaluates in every run.

* `StoreFacts` has the lemmas that several proofs rest on: ids that are bounded
  have a maximum, so `MailNextID` is new; what each statement does to a row;
  and each statement keeps the keys of the table (`CreateKeepsTable`,
  `MoveKeepsTable`, ...).
* `SenderProofs`: `SenderTypeOK`, `SenderQueueRefsExist`, `SenderRunningFlag`.
  Types are inductive together with `IdsBounded` (the ids of Outbox are bounded,
  so that `MAX` exists).  `QueueRefsExist` needs only the types: an insert
  checks the foreign key and an expunge cascades.
* `SoleProofs`: under `SoleRecipients` (no envelope names two recipients on
  other nodes), for any number of mails, nodes and faults: `SoleInvariant`,
  `SoleOnlyAddressees`, `SoleMarkedIsUnqueued`, `SoleRowsLeave`.  None of these
  is inductive.  `SoleInv` adds why a run may rely on what it has read: until
  the row of a mail is inserted nobody else touches the mail (`FreshInv`); a
  row names an unmarked mail addressed to its destination (`RowInv`); the rows
  a run has listed and not worked on are still in the table, and between
  `MailSelect` and the mark the id still names the same mail (`RunOK`).
  `SoleDuplicatesNeedFaults` is about the copies of a mail that a node has and
  those that it may still get, one for a row, one for a message that waits for
  its final dot.  `CopiesInv` bounds their sum by the faults: a row goes and
  the message waits in one step, so only a write of the run that failed or was
  skipped makes the sum grow.  `SoleLossesNeedFaults` is about the set
  `BareSet` of accepted deliveries that are neither made, nor in a row, nor
  about to be either (`BareInv`).  A refused message or a skipped statement adds
  one; a crash adds at most one per node, because a node has one run and that
  waits for one final dot, which is why this theorem alone assumes that the
  nodes are finitely many.
* `OutboxProofs`: `OutboxQueueRefsExist`, `OutboxTypesHold`,
  `OutboxRunningFlag`.  The lemmas of `SenderProofs` about types have the set of
  mailboxes as a parameter, so that they serve here, where a mail may also be
  in INBOX.  The invariant `RefsInv` of the first theorem is the two keys: the
  primary key of mails, which a MOVE must not break for the row to follow its
  mail, and the foreign key of queue.
* `WriterProofs`: `WriterTypeOK`, `WriterOneWorker`, `WriterTaskOwned` and
  `WriterImplementsSerialStore` (the safety part of the refinement).  The
  invariant adds that the flag is set while a worker is past the
  compare-and-swap and that a channel is untouched until its task is sent.
* `SmtpProofs`: `SmtpTypeOK`, `SmtpAuthentic`, `SmtpOwnEnvelope`,
  `SmtpRecipientsKept`.  The checks are made by MAIL and RCPT and the use is in
  DATA, so the invariant ties the library's state to the session's: while a
  transaction is open its sender is a checked one.
* `ImapProofs`: `ImapKeysHold` and `ImapMessagesKept` from `KeysInv` (the
  primary key, with bounded ids, and the mailbox of every mail), and
  `ImapUidsStable` and `ImapUidNextHolds` from `UidInv`.  The latter is why a
  late announcement is harmless: as long as a mailbox is not recycled its next
  id never falls; every uid that was told is below it and is the same message
  or none (`ToldInv`), and what was announced, or is about to be, is at most
  the next id of INBOX (`NextInv`).
  `ImapTypesHold` says more than its name: a command that loops has an id left,
  one that writes back has read a row, an APPEND between its statements has a
  flag to set.  It is inductive with `KeysInv` (`TypeInv`), because the id that
  is given to a new row is a number only where the ids are bounded.
  `ImapFlagsAskedFor` is about what is read in one call and written in another.
  `FlagsInv` adds to it what a session knows between the two (`HoldInv`): the
  flags that it is about to write are asked of the mail that it has read, and
  the key that it writes to is that mail's or nobody's, where ids are not given
  again (`Means`, which also gives `ToldInv`).
* `StartupProofs`: `StartupTypeOK`, `StartupOneIdentity`,
  `StartupPasswordInForce`, `StartupMailboxesThere`,
  `StartupOwnAddressLogsIn`.  The invariant
  `StartupInv` says, each part unless the history records its lapse: what was
  announced is what is stored, and at most one process is about to store a
  key, while there is none (`IdentityInv`); what was reported, or is about to
  be, is stored (`ForceInv`); once a process is past a mailbox's creation the
  mailbox is there, or a client's RENAME has taken it (`BoxesInv`). The last
  theorem is that an address means its key, for keys of any length: the digits
  of each byte decode to that byte in either case (`DecodeEncode`), no digit is
  an `@`, and a name of the right length is neither padded nor cut
  (`ParseMailAddress`).

Every invariant and action property of the passing runs is stated by one of
these theorems.  Only model-checked: the liveness properties of `SenderLive`
and the liveness part of the refinement of `SerialStore`, because fairness and
`ENABLED` are out of the prover's reach; and the violations, which are
counterexamples.

## Not modelled

The wire formats, headers and TLS-free dialogue of SMTP and IMAP; the overlay
(library code: `Dial` succeeds or fails, and the peer's key is authentic);
the flags of `cmd/yggmail`; subscriptions, which only filter lists; counts
and searches, which change nothing; and the width of sequence numbers, since a
loop that does not end has no next state to say anything about.

Seen while reading and not a property of any module: rows.Err is not
checked after iterating, so a failed iteration is a shorter list; the SASL LOGIN
callbacks call `Login` without a connection, whose address it logs; only the
envelope sender is checked, the `From` header is not; the server accepts 32 MB
where the README says 1 MB; the loop variable of a sequence set has 32 bits, so
that a range up to the greatest number does not end; NotifyNew sends the id of
the new mail where EXISTS has a count; `CreateAddress` prints the bytes of the
key instead of its digits, and is not used.

## Plan

What is left, in this order:

1. `NilMeansApplied` as a theorem of `Writer` for the case that `Begin` cannot
   fail: the converse of the finding in `WriterSkips`.
2. What a node with several recipients per mail may still rely on (a row that
   names a mail names it for good until an id is given again), as a theorem
   beside those of `SoleProofs`.
3. Subscriptions, together with the lists of mailboxes.
