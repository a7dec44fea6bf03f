----------------------------- MODULE SmtpProofs -----------------------------
(***************************************************************************)
(* What holds of the SMTP sessions for any number of connections, any      *)
(* sequence of commands and any number of recipients.  The sender and the  *)
(* recipients that Data uses were checked by earlier commands, so the      *)
(* invariants say what the library's state tells about the session's.      *)
(***************************************************************************)
EXTENDS SmtpServer, StoreFacts

\* The types of the variables that the arguments below are about.
ConnType ==
  /\ fromReceived \in [Conns -> BOOLEAN]
  /\ recipients \in [Conns -> Seq(Addrs)]
  /\ from \in [Conns -> Addrs \cup {None}]
  /\ rcpt \in [Conns -> Seq(Addrs)]
  /\ data = [c \in Conns |-> data[c]]

\* Every recipient on the list s is an address of this node.
AllOwn(s) == \A k \in 1..Len(s) : HostOf[s[k]] = Self

\* The sender of an open transaction is one that OwnSender let through, the
\* acknowledged recipients of another node's mail are this node's, and Data
\* works in an open transaction that has recipients.
TransactionInv ==
  \A c \in Conns :
    /\ fromReceived[c] => from[c] \in Addrs /\ OwnSender(c, from[c])
    /\ ~Local(c) => AllOwn(recipients[c])
    /\ data[c] = "store" => fromReceived[c] /\ recipients[c] # <<>>

\* What SmtpServer is proved to preserve.
SmtpInv == ConnType /\ TransactionInv /\ Authentic /\ OwnEnvelope

-----------------------------------------------------------------------------

\* How a step that works on the connection c leaves the other connections.
OthersUnchanged(c) ==
  \A e \in Conns \ {c} :
    /\ fromReceived'[e] = fromReceived[e] /\ recipients'[e] = recipients[e]
    /\ from'[e] = from[e] /\ rcpt'[e] = rcpt[e] /\ data'[e] = data[e]

\* SessionLocal.Reset empties the session, SessionRemote.Reset keeps it.
LEMMA SessionResetEffect ==
  ASSUME ConnType, NEW c \in Conns, SessionReset(c)
  PROVE  /\ from' \in [Conns -> Addrs \cup {None}] /\ rcpt' \in [Conns -> Seq(Addrs)]
         /\ Local(c) => rcpt'[c] = <<>>
         /\ \A e \in Conns \ {c} : from'[e] = from[e] /\ rcpt'[e] = rcpt[e]
<1>1. CASE Local(c)
  <2>1. from' = [from EXCEPT ![c] = None] /\ rcpt' = [rcpt EXCEPT ![c] = <<>>]
    BY <1>1 DEF SessionReset
  <2> QED
    BY <2>1 DEF ConnType
<1>2. CASE ~Local(c)
  <2>1. from' = from /\ rcpt' = rcpt
    BY <1>2 DEF SessionReset, own
  <2> QED
    BY <1>2, <2>1 DEF ConnType
<1> QED
  BY <1>1, <1>2

\* A reset leaves no transaction.
LEMMA ResetEffect ==
  ASSUME ConnType, NEW c \in Conns, Reset(c), data' = [data EXCEPT ![c] = "idle"]
  PROVE  /\ ConnType' /\ OthersUnchanged(c)
         /\ ~fromReceived'[c] /\ recipients'[c] = <<>> /\ data'[c] = "idle"
         /\ Local(c) => rcpt'[c] = <<>>
<1>1. data' = [e \in Conns |-> data'[e]]
  BY DEF ConnType
<1>2. fromReceived' \in [Conns -> BOOLEAN] /\ recipients' \in [Conns -> Seq(Addrs)]
  BY DEF ConnType, Reset
<1>3. /\ from' \in [Conns -> Addrs \cup {None}] /\ rcpt' \in [Conns -> Seq(Addrs)]
      /\ Local(c) => rcpt'[c] = <<>>
      /\ \A e \in Conns \ {c} : from'[e] = from[e] /\ rcpt'[e] = rcpt[e]
  BY SessionResetEffect DEF Reset
<1>4. ~fromReceived'[c] /\ recipients'[c] = <<>> /\ data'[c] = "idle"
  BY DEF ConnType, Reset
<1>5. OthersUnchanged(c)
  BY <1>3 DEF ConnType, Reset, OthersUnchanged
<1> QED
  BY <1>1, <1>2, <1>3, <1>4, <1>5 DEF ConnType

\* A list of recipients that grows remains one.
LEMMA AppendType ==
  ASSUME NEW f \in [Conns -> Seq(Addrs)], NEW c \in Conns, NEW a \in Addrs
  PROVE  [f EXCEPT ![c] = Append(@, a)] \in [Conns -> Seq(Addrs)]
<1>1. f[c] \in Seq(Addrs)
  OBVIOUS
<1>2. Append(f[c], a) \in Seq(Addrs)
  BY <1>1
<1> QED
  BY <1>2

\* What a step does to the connection that it works on.
LEMMA ConnStep ==
  ASSUME ConnType, NEW c \in Conns,
         \/ Hello(c) \/ Rset(c) \/ Quit(c) \/ Login(c)
         \/ Mail(c) \/ MailRefused(c) \/ Rcpt(c)
         \/ Data(c) \/ DataFails(c) \/ DataQueue(c)
         \/ DataCreate(c) \/ DataCreateSkipped(c) \/ DataAnnounce(c)
  PROVE  ConnType' /\ OthersUnchanged(c)
<1>1. CASE Hello(c) \/ Login(c)
  BY <1>1 DEF Hello, Login, own, ConnType, OthersUnchanged
<1>2. CASE Rset(c)
  <2>1. UNCHANGED data /\ Reset(c)
    BY <1>2 DEF Rset
  <2>2. fromReceived' \in [Conns -> BOOLEAN] /\ recipients' \in [Conns -> Seq(Addrs)]
    BY <2>1 DEF ConnType, Reset
  <2>3. /\ from' \in [Conns -> Addrs \cup {None}] /\ rcpt' \in [Conns -> Seq(Addrs)]
        /\ \A e \in Conns \ {c} : from'[e] = from[e] /\ rcpt'[e] = rcpt[e]
    BY <2>1, SessionResetEffect DEF Reset
  <2> QED
    BY <2>1, <2>2, <2>3 DEF ConnType, OthersUnchanged, Reset
<1>3. CASE Quit(c)
  BY <1>3 DEF Quit, ConnType, OthersUnchanged
<1>4. CASE Mail(c) \/ MailRefused(c)
  <2>1. rcpt' = [rcpt EXCEPT ![c] = <<>>] \/ rcpt' = rcpt
    BY <1>4 DEF Mail, MailRefused, MailCommand
  <2>2. (\E a \in Addrs : from' = [from EXCEPT ![c] = a]) \/ from' = from
    BY <1>4 DEF Mail, MailRefused
  <2>3. /\ fromReceived' = [fromReceived EXCEPT ![c] = TRUE]
           \/ fromReceived' = fromReceived
        /\ UNCHANGED <<recipients, data>>
    BY <1>4 DEF Mail, MailRefused
  <2>4. /\ rcpt' \in [Conns -> Seq(Addrs)]
        /\ \A e \in Conns \ {c} : rcpt'[e] = rcpt[e]
    <3>1. <<>> \in Seq(Addrs)
      OBVIOUS
    <3>2. CASE rcpt' = rcpt
      BY <3>2 DEF ConnType
    <3>3. CASE rcpt' = [rcpt EXCEPT ![c] = <<>>]
      BY <3>1, <3>3 DEF ConnType
    <3> QED
      BY <2>1, <3>2, <3>3
  <2>5. /\ from' \in [Conns -> Addrs \cup {None}]
        /\ \A e \in Conns \ {c} : from'[e] = from[e]
    BY <2>2 DEF ConnType
  <2>6. /\ fromReceived' \in [Conns -> BOOLEAN]
        /\ \A e \in Conns \ {c} : fromReceived'[e] = fromReceived[e]
    BY <2>3 DEF ConnType
  <2> QED
    BY <2>3, <2>4, <2>5, <2>6 DEF ConnType, OthersUnchanged
<1>5. CASE Rcpt(c)
  <2>1. PICK a \in Addrs :
          /\ IF Local(c) THEN LocalRcpt(c, a) ELSE RemoteRcpt(c, a)
          /\ recipients' = [recipients EXCEPT ![c] = Append(@, a)]
    BY <1>5 DEF Rcpt
  <2>3. rcpt' = [rcpt EXCEPT ![c] = Append(@, a)] \/ rcpt' = rcpt
    <3>1. CASE Local(c)
      BY <2>1, <3>1 DEF LocalRcpt
    <3>2. CASE ~Local(c)
      BY <2>1, <3>2 DEF RemoteRcpt
    <3> QED
      BY <3>1, <3>2
  <2>4. recipients' \in [Conns -> Seq(Addrs)]
    BY <2>1, AppendType DEF ConnType
  <2>5. rcpt' \in [Conns -> Seq(Addrs)]
    <3>1. CASE rcpt' = rcpt
      BY <3>1 DEF ConnType
    <3>2. CASE rcpt' = [rcpt EXCEPT ![c] = Append(@, a)]
      BY <3>2, AppendType DEF ConnType
    <3> QED
      BY <2>3, <3>1, <3>2
  <2>6. \A e \in Conns \ {c} : recipients'[e] = recipients[e] /\ rcpt'[e] = rcpt[e]
    BY <2>1, <2>3 DEF ConnType
  <2> QED
    BY <1>5, <2>4, <2>5, <2>6 DEF Rcpt, ConnType, OthersUnchanged
<1>6. CASE Data(c)
  BY <1>6 DEF Data, library, own, ConnType, OthersUnchanged
<1>7. CASE DataFails(c) \/ DataQueue(c) \/ DataAnnounce(c)
  BY <1>7, ResetEffect DEF DataFails, DataQueue, DataAnnounce
<1>8. CASE DataCreateSkipped(c) \/ DataCreate(c)
  <2>1. UNCHANGED <<fromReceived, recipients, from, rcpt>>
    BY <1>8 DEF DataCreateSkipped, DataCreate, library, own
  <2>2. \E x : data' = [data EXCEPT ![c] = x]
    BY <1>8 DEF DataCreateSkipped, DataCreate
  <2> QED
    BY <2>1, <2>2 DEF ConnType, OthersUnchanged
<1> QED
  BY <1>1, <1>2, <1>3, <1>4, <1>5, <1>6, <1>7, <1>8

-----------------------------------------------------------------------------
(***************************************************************************)
(* The transaction of the connection that a step works on.                 *)
(***************************************************************************)

\* One more recipient of this node keeps the list a list of own ones.
LEMMA AppendOwn ==
  ASSUME NEW s \in Seq(Addrs), NEW a \in Addrs, AllOwn(s), HostOf[a] = Self
  PROVE  AllOwn(Append(s, a))
  BY DEF AllOwn

\* What TransactionInv says of one connection.
Transaction(c) ==
  /\ fromReceived[c] => from[c] \in Addrs /\ OwnSender(c, from[c])
  /\ ~Local(c) => AllOwn(recipients[c])
  /\ data[c] = "store" => fromReceived[c] /\ recipients[c] # <<>>

\* An accepted command leaves a checked transaction, a reset none, and a
\* refused MAIL the one that was open.
LEMMA TransactionStep ==
  ASSUME ConnType, NEW c \in Conns, Transaction(c),
         \/ Hello(c) \/ Rset(c) \/ Quit(c) \/ Login(c)
         \/ Mail(c) \/ MailRefused(c) \/ Rcpt(c)
         \/ Data(c) \/ DataFails(c) \/ DataQueue(c)
         \/ DataCreate(c) \/ DataCreateSkipped(c) \/ DataAnnounce(c)
  PROVE  Transaction(c)'
<1>0. Local(c)' = Local(c) /\ AllOwn(<<>>)
  BY DEF Local, AllOwn
<1>1. CASE Hello(c) \/ Login(c) \/ MailRefused(c)
  <2>1. UNCHANGED <<fromReceived, recipients, from, data>>
    BY <1>1 DEF Hello, Login, MailRefused, own
  <2> QED
    BY <2>1 DEF Transaction, OwnSender, Local, AllOwn
<1>2. CASE Rset(c) \/ Quit(c)
  <2>1. ~fromReceived'[c] /\ recipients'[c] = <<>> /\ data'[c] = "idle"
    BY <1>2 DEF Rset, Quit, Reset, ConnType
  <2> QED
    BY <1>0, <2>1 DEF Transaction
<1>3. CASE DataFails(c) \/ DataQueue(c) \/ DataAnnounce(c)
  <2>1. ~fromReceived'[c] /\ recipients'[c] = <<>> /\ data'[c] = "idle"
    BY <1>3, ResetEffect DEF DataFails, DataQueue, DataAnnounce
  <2> QED
    BY <1>0, <2>1 DEF Transaction
<1>4. CASE Mail(c)
  <2>1. PICK a \in Addrs : OwnSender(c, a) /\ from' = [from EXCEPT ![c] = a]
    BY <1>4 DEF Mail
  <2>2. from'[c] = a
    BY <2>1 DEF ConnType
  <2>3. UNCHANGED <<recipients, data>> /\ data[c] = "idle"
    BY <1>4 DEF Mail, MailCommand
  <2> QED
    BY <2>1, <2>2, <2>3 DEF Transaction, OwnSender, Local, AllOwn
<1>5. CASE Rcpt(c)
  <2>1. PICK a \in Addrs :
          /\ IF Local(c) THEN LocalRcpt(c, a) ELSE RemoteRcpt(c, a)
          /\ recipients' = [recipients EXCEPT ![c] = Append(@, a)]
    BY <1>5 DEF Rcpt
  <2>2. recipients'[c] = Append(recipients[c], a) /\ recipients[c] \in Seq(Addrs)
    BY <2>1 DEF ConnType
  <2>3. ~Local(c) => AllOwn(recipients'[c])
    <3>1. SUFFICES ASSUME ~Local(c) PROVE AllOwn(recipients'[c])
      OBVIOUS
    <3>2. HostOf[a] = Self
      BY <2>1, <3>1 DEF RemoteRcpt
    <3> QED
      BY <2>2, <3>1, <3>2, AppendOwn DEF Transaction
  <2>4. UNCHANGED <<fromReceived, from, data>> /\ data[c] = "idle"
    BY <1>5 DEF Rcpt
  <2> QED
    BY <2>3, <2>4 DEF Transaction, OwnSender, Local
<1>6. CASE Data(c)
  <2>1. UNCHANGED <<fromReceived, recipients, from>>
    BY <1>6 DEF Data, library, own
  <2> QED
    BY <1>6, <2>1 DEF Data, Transaction, OwnSender, Local, AllOwn
<1>7. CASE DataCreateSkipped(c) \/ DataCreate(c)
  <2>1. UNCHANGED <<fromReceived, recipients, from>>
    BY <1>7 DEF DataCreateSkipped, DataCreate, library, own
  <2>2. data'[c] # "store"
    BY <1>7 DEF DataCreateSkipped, DataCreate, ConnType
  <2> QED
    BY <2>1, <2>2 DEF Transaction, OwnSender, Local, AllOwn
<1> QED
  BY <1>1, <1>2, <1>3, <1>4, <1>5, <1>6, <1>7

\* What is stored or queued comes from a checked transaction.
LEMMA StoredStep ==
  ASSUME SmtpInv, [Next]_vars
  PROVE  Authentic' /\ OwnEnvelope'
<1>1. ASSUME NEW c \in Conns, DataCreate(c) PROVE Authentic' /\ OwnEnvelope'
  <2>1. Transaction(c) /\ ~Local(c) /\ data[c] = "store"
    BY <1>1 DEF SmtpInv, TransactionInv, Transaction, DataCreate
  <2>2. /\ HostOf[from[c]] = RemoteOf[c]
        /\ recipients[c] # <<>> /\ AllOwn(recipients[c])
    BY <2>1 DEF Transaction, OwnSender
  <2>3. \A r \in mails' :
          \/ r \in mails
          \/ r.mail = [by |-> RemoteOf[c], from |-> from[c],
                       acknowledged |-> recipients[c]]
    BY <1>1 DEF DataCreate, MailCreate
  <2>4. Authentic'
    BY <2>2, <2>3 DEF SmtpInv, Authentic, AllOwn
  <2> QED
    BY <1>1, <2>4 DEF SmtpInv, OwnEnvelope, DataCreate
<1>2. ASSUME NEW c \in Conns, DataQueue(c) PROVE Authentic' /\ OwnEnvelope'
  <2>1. from[c] \in Addrs /\ HostOf[from[c]] = Self
    BY <1>2 DEF SmtpInv, TransactionInv, DataQueue, OwnSender
  <2> QED
    BY <1>2, <2>1 DEF SmtpInv, Authentic, OwnEnvelope, DataQueue
<1>3. CASE UNCHANGED <<mails, queued>>
  BY <1>3 DEF SmtpInv, Authentic, OwnEnvelope
<1> QED
  BY <1>1, <1>2, <1>3
  DEF Next, vars, store, Hello, Rset, Quit, Login, Mail, MailRefused, Rcpt, Data,
      DataFails, DataCreateSkipped, DataAnnounce

\* The invariant holds at the start and every step preserves it.
THEOREM SmtpInvariant == Spec => []SmtpInv
<1>1. Init => SmtpInv
  <2>1. SUFFICES ASSUME Init PROVE SmtpInv
    OBVIOUS
  <2>2. ConnType
    BY <2>1 DEF Init, ConnType
  <2>3. TransactionInv
    BY <2>1 DEF Init, TransactionInv, AllOwn
  <2> QED
    BY <2>1, <2>2, <2>3 DEF Init, SmtpInv, Authentic, OwnEnvelope
<1>2. SmtpInv /\ [Next]_vars => SmtpInv'
  <2>1. SUFFICES ASSUME SmtpInv, [Next]_vars PROVE SmtpInv'
    OBVIOUS
  <2>2. CASE Next
    <3>1. PICK c \in Conns :
            \/ Hello(c) \/ Rset(c) \/ Quit(c) \/ Login(c)
            \/ Mail(c) \/ MailRefused(c) \/ Rcpt(c)
            \/ Data(c) \/ DataFails(c) \/ DataQueue(c)
            \/ DataCreate(c) \/ DataCreateSkipped(c) \/ DataAnnounce(c)
      BY <2>2 DEF Next
    <3>2. ConnType' /\ OthersUnchanged(c)
      BY <2>1, <3>1, ConnStep DEF SmtpInv
    <3>3. \A e \in Conns : Transaction(e)
      BY <2>1 DEF SmtpInv, TransactionInv, Transaction
    <3>4. Transaction(c)'
      BY <2>1, <3>1, <3>3, TransactionStep DEF SmtpInv
    <3>5. \A e \in Conns \ {c} : Transaction(e)'
      BY <3>2, <3>3 DEF OthersUnchanged, Transaction, OwnSender, Local, AllOwn
    <3>6. TransactionInv'
      BY <3>4, <3>5 DEF TransactionInv, Transaction
    <3> QED
      BY <2>1, <3>2, <3>6, StoredStep DEF SmtpInv
  <2>3. CASE UNCHANGED vars
    <3>1. UNCHANGED <<fromReceived, recipients, from, rcpt, data>>
      BY <2>3 DEF vars, library, own
    <3>2. ConnType' /\ TransactionInv'
      BY <2>1, <3>1
      DEF SmtpInv, ConnType, TransactionInv, OwnSender, Local, AllOwn
    <3> QED
      BY <2>1, <3>2, StoredStep DEF SmtpInv
  <2> QED
    BY <2>1, <2>2, <2>3
<1> QED
  BY <1>1, <1>2, PTL DEF Spec

\* Senders are who they say they are: no sequence of commands on any number
\* of connections puts a mail into INBOX whose sender is not an address of
\* the node at the other end.
THEOREM SmtpAuthentic == Spec => []Authentic
<1>1. SmtpInv => Authentic
  BY DEF SmtpInv
<1> QED
  BY <1>1, SmtpInvariant, PTL

\* What clients submit is queued with this node's own address as sender.
THEOREM SmtpOwnEnvelope == Spec => []OwnEnvelope
<1>1. SmtpInv => OwnEnvelope
  BY DEF SmtpInv
<1> QED
  BY <1>1, SmtpInvariant, PTL

-----------------------------------------------------------------------------
(***************************************************************************)
(* The two lists of recipients.                                            *)
(***************************************************************************)

\* In an open transaction of a client that does not nest MAIL, the session
\* has the recipients that the library has acknowledged, and outside of one
\* the library has none.
Aligned(c) ==
  Local(c) /\ c \notin Nesting =>
              /\ fromReceived[c] => rcpt[c] = recipients[c]
              /\ ~fromReceived[c] => recipients[c] = <<>>

\* Without MAIL in an open transaction, no command separates the two lists.
LEMMA AlignedStep ==
  ASSUME ConnType, NEW c \in Conns, Aligned(c), Local(c), c \notin Nesting,
         \/ Hello(c) \/ Rset(c) \/ Quit(c) \/ Login(c)
         \/ Mail(c) \/ MailRefused(c) \/ Rcpt(c)
         \/ Data(c) \/ DataFails(c) \/ DataQueue(c)
         \/ DataCreate(c) \/ DataCreateSkipped(c) \/ DataAnnounce(c)
  PROVE  Aligned(c)'
<1>1. CASE \/ Hello(c) \/ Login(c) \/ Data(c) \/ DataCreate(c)
           \/ DataCreateSkipped(c)
  <2>1. UNCHANGED <<fromReceived, recipients, rcpt>>
    BY <1>1 DEF Hello, Login, Data, DataCreate, DataCreateSkipped,
                library, own
  <2> QED
    BY <2>1 DEF Aligned, Local
<1>2. CASE \/ Rset(c) \/ Quit(c) \/ DataFails(c) \/ DataQueue(c)
           \/ DataAnnounce(c)
  <2>1. ~fromReceived'[c] /\ recipients'[c] = <<>>
    BY <1>2 DEF Rset, Quit, DataFails, DataQueue, DataAnnounce,
                Reset, ConnType
  <2> QED
    BY <2>1 DEF Aligned
<1>3. CASE Mail(c) \/ MailRefused(c)
  <2>1. ~fromReceived[c] /\ rcpt' = [rcpt EXCEPT ![c] = <<>>]
    BY <1>3 DEF Mail, MailRefused, MailCommand
  <2>2. recipients' = recipients /\ recipients[c] = <<>>
    BY <1>3, <2>1 DEF Mail, MailRefused, Aligned
  <2>3. rcpt'[c] = <<>>
    BY <2>1 DEF ConnType
  <2> QED
    BY <2>2, <2>3 DEF Aligned
<1>4. CASE Rcpt(c)
  <2>1. PICK a \in Addrs :
          /\ IF Local(c) THEN LocalRcpt(c, a) ELSE RemoteRcpt(c, a)
          /\ recipients' = [recipients EXCEPT ![c] = Append(@, a)]
    BY <1>4 DEF Rcpt
  <2>2. rcpt' = [rcpt EXCEPT ![c] = Append(@, a)]
    BY <2>1 DEF LocalRcpt
  <2>3. /\ rcpt'[c] = Append(rcpt[c], a)
        /\ recipients'[c] = Append(recipients[c], a)
    BY <2>1, <2>2 DEF ConnType
  <2>4. fromReceived[c] /\ fromReceived' = fromReceived
    BY <1>4 DEF Rcpt
  <2> QED
    BY <2>3, <2>4 DEF Aligned
<1> QED
  BY <1>1, <1>2, <1>3, <1>4

\* A client that does not nest MAIL has its mail queued for exactly the
\* recipients that it was told are accepted.
THEOREM SmtpRecipientsKept == Spec => []RecipientsKept
<1> DEFINE AlignedInv == (\A c \in Conns : Aligned(c)) /\ RecipientsKept
<1>1. Init => AlignedInv
  BY DEF Init, Aligned, RecipientsKept
<1>2. SmtpInv /\ AlignedInv /\ [Next]_vars => AlignedInv'
  <2>1. SUFFICES ASSUME SmtpInv, AlignedInv, [Next]_vars PROVE AlignedInv'
    OBVIOUS
  <2>2. RecipientsKept'
    <3>1. ASSUME NEW c \in Conns, DataQueue(c) PROVE RecipientsKept'
      <4>1. c \notin Nesting => rcpt[c] = recipients[c]
        BY <2>1, <3>1 DEF SmtpInv, TransactionInv, Aligned, DataQueue
      <4> QED
        BY <2>1, <3>1, <4>1 DEF DataQueue, RecipientsKept
    <3>2. CASE UNCHANGED queued
      BY <2>1, <3>2 DEF RecipientsKept
    <3> QED
      BY <2>1, <3>1, <3>2
      DEF Next, vars, store, Hello, Rset, Quit, Login, Mail, MailRefused, Rcpt,
          Data, DataFails, DataCreate, DataCreateSkipped, DataAnnounce
  <2>3. CASE Next
    <3>1. PICK c \in Conns :
            \/ Hello(c) \/ Rset(c) \/ Quit(c) \/ Login(c)
            \/ Mail(c) \/ MailRefused(c) \/ Rcpt(c)
            \/ Data(c) \/ DataFails(c) \/ DataQueue(c)
            \/ DataCreate(c) \/ DataCreateSkipped(c) \/ DataAnnounce(c)
      BY <2>3 DEF Next
    <3>2. OthersUnchanged(c)
      BY <2>1, <3>1, ConnStep DEF SmtpInv
    <3>3. Local(c) /\ c \notin Nesting => Aligned(c)'
      BY <2>1, <3>1, AlignedStep DEF SmtpInv
    <3>4. ~Local(c) \/ c \in Nesting => Aligned(c)'
      BY DEF Aligned, Local
    <3>5. \A e \in Conns \ {c} : Aligned(e)'
      BY <2>1, <3>2 DEF OthersUnchanged, Aligned, Local
    <3> QED
      BY <2>2, <3>3, <3>4, <3>5
  <2>4. CASE UNCHANGED vars
    BY <2>1, <2>2, <2>4 DEF vars, library, own, Aligned, Local
  <2> QED
    BY <2>1, <2>3, <2>4
<1>3. AlignedInv => RecipientsKept
  OBVIOUS
<1> QED
  BY <1>1, <1>2, <1>3, SmtpInvariant, PTL DEF Spec

-----------------------------------------------------------------------------
(***************************************************************************)
(* The types of all variables: those of ConnType, and the rest.            *)
(***************************************************************************)

MailType == [by : Nodes, from : Addrs, acknowledged : Seq(Addrs)]
InboxRow ==
  [mailbox : {"INBOX"}, id : Nat \ {0}, flags : SUBSET Flag, mail : MailType]
QueuedType ==
  [by : Conns, from : Addrs, rcpt : Seq(Addrs), acknowledged : Seq(Addrs)]

RestType ==
  /\ helo \in [Conns -> Nodes \cup {None}]
  /\ session \in [Conns -> BOOLEAN]
  /\ data \in [Conns -> {"idle", "store", "announce"}]
  /\ mails \subseteq InboxRow /\ Bounded(mails)
  /\ queued \subseteq QueuedType

\* Data finds a sender and recipients that earlier commands have left.
LEMMA DataFinds ==
  ASSUME SmtpInv, NEW c \in Conns, data[c] = "store"
  PROVE  from[c] \in Addrs /\ rcpt[c] \in Seq(Addrs) /\ recipients[c] \in Seq(Addrs)
  BY DEF SmtpInv, ConnType, TransactionInv

LEMMA RestCreate ==
  ASSUME SmtpInv, RestType, NEW c \in Conns, DataCreate(c)
  PROVE  mails' \subseteq InboxRow /\ Bounded(mails')
<1> DEFINE mail == [by |-> RemoteOf[c], from |-> from[c],
                    acknowledged |-> recipients[c]]
           id == MailNextID(mails, "INBOX")
           row == [mailbox |-> "INBOX", id |-> id, mail |-> mail, flags |-> {}]
<1>1. mails' = mails \cup {row}
  BY DEF DataCreate, MailCreate
<1>2. mail \in MailType
  BY DataFinds, SmtpAssumption DEF DataCreate, MailType
<1>3. \A r \in mails : IsRow(r) /\ r.id \in Nat
  BY DEF RestType, InboxRow, IsRow
<1>4. id \in Nat \ {0}
  BY <1>3, NextIDIsNew DEF RestType
<1> HIDE DEF mail, id
<1>5. row \in InboxRow
  BY <1>2, <1>4 DEF InboxRow
<1>6. PICK n \in Nat : \A r \in mails : r.id <= n
  BY DEF RestType, Bounded
<1>7. \A r \in mails \cup {row} : r.id <= n + id
  BY <1>3, <1>4, <1>6
<1>8. Bounded(mails \cup {row})
  BY <1>4, <1>7 DEF Bounded
<1> QED
  BY <1>1, <1>5, <1>8 DEF RestType

LEMMA RestStep ==
  ASSUME SmtpInv, RestType, [Next]_vars
  PROVE  RestType'
<1>1. CASE UNCHANGED vars
  BY <1>1 DEF vars, library, store, RestType
<1>2. ASSUME NEW c \in Conns, Hello(c) \/ Quit(c) \/ Login(c) PROVE RestType'
  BY <1>2 DEF Hello, Quit, Login, store, RestType
<1>3. ASSUME NEW c \in Conns, Mail(c) \/ MailRefused(c) \/ Rcpt(c) \/ Rset(c)
      PROVE  RestType'
  BY <1>3 DEF Mail, MailRefused, MailCommand, Rcpt, Rset, Reset, store, RestType
<1>4. ASSUME NEW c \in Conns,
             Data(c) \/ DataFails(c) \/ DataCreateSkipped(c) \/ DataAnnounce(c)
      PROVE  RestType'
  BY <1>4 DEF Data, DataFails, DataCreateSkipped, DataAnnounce, Reset, library,
              store, RestType
<1>5. ASSUME NEW c \in Conns, DataQueue(c) PROVE RestType'
  <2>1. [by |-> c, from |-> from[c], rcpt |-> rcpt[c],
         acknowledged |-> recipients[c]] \in QueuedType
    BY <1>5, DataFinds DEF DataQueue, QueuedType
  <2>2. queued' \subseteq QueuedType
    BY <1>5, <2>1 DEF DataQueue, RestType
  <2> QED
    BY <1>5, <2>2 DEF DataQueue, Reset, RestType
<1>6. ASSUME NEW c \in Conns, DataCreate(c) PROVE RestType'
  <2>1. mails' \subseteq InboxRow /\ Bounded(mails')
    BY <1>6, RestCreate
  <2> QED
    BY <1>6, <2>1 DEF DataCreate, library, RestType
<1> QED
  BY <1>1, <1>2, <1>3, <1>4, <1>5, <1>6 DEF Next

\* The types of both halves of a connection and of the tables: the message
\* that Data stores or queues has a sender, and its recipients are addresses.
THEOREM SmtpTypeOK == Spec => []TypeOK
<1>1. Init => RestType
  <2> SUFFICES ASSUME Init PROVE RestType
    OBVIOUS
  <2>1. 0 \in Nat /\ mails = {} /\ queued = {}
    BY DEF Init
  <2> QED
    BY <2>1 DEF Init, RestType, Bounded
<1>2. SmtpInv /\ RestType /\ [Next]_vars => RestType'
  BY RestStep
<1>3. SmtpInv /\ RestType => TypeOK
  BY DEF SmtpInv, ConnType, RestType, InboxRow, MailType, QueuedType, TypeOK
<1> QED
  BY <1>1, <1>2, <1>3, SmtpInvariant, PTL DEF Spec
=============================================================================
