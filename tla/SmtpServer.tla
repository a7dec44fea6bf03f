----------------------------- MODULE SmtpServer -----------------------------
(***************************************************************************)
(* internal/smtpserver: the SMTP sessions of a node.  Connections of mail  *)
(* clients ("internal") end in Queues.QueueFor, connections of other nodes *)
(* over the overlay ("external") in INBOX.                                 *)
(*                                                                         *)
(* A connection has two halves.  The library go-smtp (not part of the      *)
(* repository) keeps the greeting, whether MAIL was accepted, and the      *)
(* recipients it has acknowledged; the session of the repository keeps its *)
(* own sender and recipients.  The library calls the session, and resets   *)
(* both halves after DATA and on RSET.  Commands that are refused without  *)
(* any change are not actions.                                             *)
(***************************************************************************)
EXTENDS MailStore, Sequences

CONSTANTS
  Conns,          \* the connections
  ModeOf,         \* Backend.Mode of the listener of a connection
  Nodes,          \* public keys
  Self,           \* this node's key
  RemoteOf,       \* the key that the overlay gives as RemoteAddr
  Addrs,          \* the addresses that occur in commands
  HostOf,         \* the key that utils.ParseAddress gives
  Unparsable,     \* its error
  Passwords,      \* what clients offer
  Password,       \* the password that is configured, or Unset
  Unset,
  None,           \* no value
  MaxRecipients,  \* of the server
  Nesting,        \* the connections on which MAIL may come in a transaction
  StorageMayFail, \* whether Writer may skip a statement and say it was done
  MaxMails        \* bound: messages that are accepted

ASSUME SmtpAssumption ==
  /\ ModeOf \in [Conns -> {"internal", "external"}]
  /\ Self \in Nodes /\ Unparsable \notin Nodes
  /\ RemoteOf \in [Conns -> Nodes]
  /\ HostOf \in [Addrs -> Nodes \cup {Unparsable}]
  /\ None \notin Nodes \cup Addrs
  /\ MaxRecipients \in Nat /\ MaxMails \in Nat
  /\ Nesting \subseteq Conns /\ StorageMayFail \in BOOLEAN

VARIABLES
  helo,          \* library: the name of the greeting
  session,       \* library: whether there is a session
  fromReceived,  \* library: whether MAIL was accepted
  recipients,    \* library: the recipients acknowledged with 250
  from,          \* SessionLocal.from, SessionRemote.from
  rcpt,          \* SessionLocal.rcpt
  data,          \* data[c]: where the handler Data of the connection is
  mails,         \* table mails, of which only INBOX is used here
  queued         \* the calls of QueueFor that succeeded (a history)

library == <<helo, session, fromReceived, recipients>>
own == <<from, rcpt>>
store == <<mails, queued>>
vars == <<library, own, data, store>>

Init ==
  /\ helo = [c \in Conns |-> None]
  /\ session = [c \in Conns |-> FALSE]
  /\ fromReceived = [c \in Conns |-> FALSE]
  /\ recipients = [c \in Conns |-> <<>>]
  /\ from = [c \in Conns |-> None]
  /\ rcpt = [c \in Conns |-> <<>>]
  /\ data = [c \in Conns |-> "idle"]
  /\ mails = {}
  /\ queued = {}

Local(c) == ModeOf[c] = "internal"

\* How many messages were accepted so far, for the bound.
Accepted == Cardinality(mails) + Cardinality(queued)

-----------------------------------------------------------------------------
(***************************************************************************)
(* The library: greeting, RSET and the end of a connection.                *)
(***************************************************************************)

Hello(c) ==
  /\ data[c] = "idle"
  /\ \E name \in Nodes : helo' = [helo EXCEPT ![c] = name]
  /\ UNCHANGED <<session, fromReceived, recipients, own, data, store>>

\* SessionLocal.Reset clears the session; SessionRemote.Reset does nothing.
SessionReset(c) ==
  IF Local(c) THEN /\ from' = [from EXCEPT ![c] = None]
                   /\ rcpt' = [rcpt EXCEPT ![c] = <<>>]
  ELSE UNCHANGED own

\* Conn.reset of the library.
Reset(c) ==
  /\ fromReceived' = [fromReceived EXCEPT ![c] = FALSE]
  /\ recipients' = [recipients EXCEPT ![c] = <<>>]
  /\ SessionReset(c)
  /\ UNCHANGED <<helo, session>>

Rset(c) ==
  /\ data[c] = "idle" /\ session[c]
  /\ Reset(c)
  /\ UNCHANGED <<data, store>>

\* The connection is closed and another one takes its place.
Quit(c) ==
  /\ data[c] = "idle" /\ helo[c] # None
  /\ helo' = [helo EXCEPT ![c] = None]
  /\ session' = [session EXCEPT ![c] = FALSE]
  /\ fromReceived' = [fromReceived EXCEPT ![c] = FALSE]
  /\ recipients' = [recipients EXCEPT ![c] = <<>>]
  /\ from' = [from EXCEPT ![c] = None]
  /\ rcpt' = [rcpt EXCEPT ![c] = <<>>]
  /\ UNCHANGED <<data, store>>

-----------------------------------------------------------------------------
(***************************************************************************)
(* Backend and sessions.                                                   *)
(***************************************************************************)

ConfigTryPassword(password) == Password = Unset \/ password = Password

\* A username that parses must be this node's address; any other is taken.
Login(c) ==
  /\ data[c] = "idle" /\ helo[c] # None /\ ~session[c]
  /\ Local(c)
  /\ \E username \in Addrs : HostOf[username] \in {Self, Unparsable}
  /\ \E password \in Passwords : ConfigTryPassword(password)
  /\ session' = [session EXCEPT ![c] = TRUE]
  /\ UNCHANGED <<helo, fromReceived, recipients, own, data, store>>

\* Whether the backend opens a session for MAIL without AUTH.
AnonymousLogin(c) == ~Local(c) /\ helo[c] = RemoteOf[c]

\* Mutant: the sender must parse, and that is all.
AnySender(c, a) == HostOf[a] # Unparsable

\* Whom the session lets through as sender.
OwnSender(c, a) ==
  HostOf[a] # Unparsable
    /\ HostOf[a] = IF Local(c) THEN Self ELSE RemoteOf[c]

\* The library has a session for MAIL, or gets one.
MailCommand(c) ==
  /\ data[c] = "idle" /\ helo[c] # None
  /\ session[c] \/ AnonymousLogin(c)
  /\ c \in Nesting \/ ~fromReceived[c]
  /\ session' = [session EXCEPT ![c] = TRUE]
  /\ rcpt' = IF Local(c) THEN [rcpt EXCEPT ![c] = <<>>] ELSE rcpt

\* Mutant: s.from = from is missing.
MailForgets(c) ==
  /\ MailCommand(c)
  /\ \E a \in Addrs : OwnSender(c, a)
  /\ fromReceived' = [fromReceived EXCEPT ![c] = TRUE]
  /\ UNCHANGED <<helo, recipients, from, data, store>>

Mail(c) ==
  /\ MailCommand(c)
  /\ \E a \in Addrs : OwnSender(c, a) /\ from' = [from EXCEPT ![c] = a]
  /\ fromReceived' = [fromReceived EXCEPT ![c] = TRUE]
  /\ UNCHANGED <<helo, recipients, data, store>>

\* Mutant: the sender is kept before it is checked.
MailKeeps(c) ==
  /\ MailCommand(c)
  /\ \E a \in Addrs : ~OwnSender(c, a) /\ from' = [from EXCEPT ![c] = a]
  /\ UNCHANGED <<helo, fromReceived, recipients, data, store>>

\* SessionLocal.Mail has cleared its recipients by then; the library keeps
\* the transaction that may be open.
MailRefused(c) ==
  /\ MailCommand(c)
  /\ \E a \in Addrs : ~OwnSender(c, a)
  /\ UNCHANGED <<helo, fromReceived, recipients, from, data, store>>

\* Mutant: the last recipient replaces the others.
RcptReplaces(c, a) == rcpt' = [rcpt EXCEPT ![c] = <<a>>]

\* SessionLocal.Rcpt.
LocalRcpt(c, a) == rcpt' = [rcpt EXCEPT ![c] = Append(@, a)]

\* SessionRemote.Rcpt.
RemoteRcpt(c, a) == HostOf[a] = Self /\ UNCHANGED rcpt

Rcpt(c) ==
  /\ data[c] = "idle" /\ fromReceived[c]
  /\ Len(recipients[c]) < MaxRecipients
  /\ \E a \in Addrs :
       /\ IF Local(c) THEN LocalRcpt(c, a) ELSE RemoteRcpt(c, a)
       /\ recipients' = [recipients EXCEPT ![c] = Append(@, a)]
  /\ UNCHANGED <<helo, session, fromReceived, from, data, store>>

\* DATA: the session reads the message.
Data(c) ==
  /\ data[c] = "idle" /\ fromReceived[c] /\ recipients[c] # <<>>
  /\ Accepted < MaxMails
  /\ data' = [data EXCEPT ![c] = "store"]
  /\ UNCHANGED <<library, own, store>>

\* The message cannot be read or stored, or the connection breaks.
DataFails(c) ==
  /\ data[c] = "store"
  /\ data' = [data EXCEPT ![c] = "idle"]
  /\ Reset(c)
  /\ UNCHANGED store

\* SessionLocal.Data: QueueFor (see Sender) succeeds.
DataQueue(c) ==
  /\ data[c] = "store" /\ Local(c)
  /\ queued' = queued \cup {[by |-> c, from |-> from[c], rcpt |-> rcpt[c],
                             acknowledged |-> recipients[c]]}
  /\ data' = [data EXCEPT ![c] = "idle"]
  /\ Reset(c)
  /\ UNCHANGED mails

\* SessionRemote.Data: MailCreate ...
DataCreate(c) ==
  /\ data[c] = "store" /\ ~Local(c)
  /\ mails' = MailCreate(mails, "INBOX",
                [by |-> RemoteOf[c], from |-> from[c],
                 acknowledged |-> recipients[c]])
  /\ data' = [data EXCEPT ![c] = "announce"]
  /\ UNCHANGED <<library, own, queued>>

\* The writer skips the statement and MailCreate returns 0 and no error.
DataCreateSkipped(c) ==
  /\ StorageMayFail
  /\ data[c] = "store" /\ ~Local(c)
  /\ data' = [data EXCEPT ![c] = "announce"]
  /\ UNCHANGED <<library, own, store>>

\* ... MailCount, and NotifyNew if that succeeds, which hands an update to the
\* IMAP library.  The mail is accepted in either case.
DataAnnounce(c) ==
  /\ data[c] = "announce"
  /\ data' = [data EXCEPT ![c] = "idle"]
  /\ Reset(c)
  /\ UNCHANGED store

-----------------------------------------------------------------------------

Next == \E c \in Conns :
  \/ Hello(c) \/ Rset(c) \/ Quit(c) \/ Login(c)
  \/ Mail(c) \/ MailRefused(c) \/ Rcpt(c)
  \/ Data(c) \/ DataFails(c) \/ DataQueue(c)
  \/ DataCreate(c) \/ DataCreateSkipped(c) \/ DataAnnounce(c)

Spec == Init /\ [][Next]_vars

-----------------------------------------------------------------------------
(***************************************************************************)
(* Properties.                                                             *)
(***************************************************************************)

\* The types of both halves of a connection and of the tables.
TypeOK ==
  /\ helo \in [Conns -> Nodes \cup {None}]
  /\ session \in [Conns -> BOOLEAN]
  /\ fromReceived \in [Conns -> BOOLEAN]
  /\ recipients \in [Conns -> Seq(Addrs)]
  /\ from \in [Conns -> Addrs \cup {None}]
  /\ rcpt \in [Conns -> Seq(Addrs)]
  /\ data \in [Conns -> {"idle", "store", "announce"}]
  /\ mails \subseteq [mailbox : {"INBOX"}, id : Nat \ {0}, flags : SUBSET Flag,
                      mail : [by : Nodes, from : Addrs,
                              acknowledged : Seq(Addrs)]]
  /\ queued \subseteq [by : Conns, from : Addrs, rcpt : Seq(Addrs),
                       acknowledged : Seq(Addrs)]

\* "Senders are who they say they are": a mail in INBOX was sent from an
\* address of the node at the other end, to addresses of this node, however
\* MAIL, RSET and refused commands follow each other on the connection.
Authentic ==
  \A r \in mails :
    /\ HostOf[r.mail.from] = r.mail.by
    /\ r.mail.acknowledged # <<>>
    /\ \A k \in 1..Len(r.mail.acknowledged) :
         HostOf[r.mail.acknowledged[k]] = Self

\* "Your From address must be your Yggmail address": what clients submit is
\* queued with this node's own address as sender.
OwnEnvelope ==
  \A q \in queued : q.from \in Addrs /\ HostOf[q.from] = Self

\* A mail is queued for all the recipients that the client was told are
\* accepted and for nobody else: the recipients of the session and those of
\* the library do not drift apart, unless the client sends MAIL in an open
\* transaction (SessionLocal.Mail clears one list, the library keeps the
\* other).
RecipientsKept ==
  \A q \in queued : q.by \notin Nesting => q.rcpt = q.acknowledged
=============================================================================
