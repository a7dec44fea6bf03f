------------------------------- MODULE Startup -------------------------------
(***************************************************************************)
(* cmd/yggmail/main.go: processes that are started on one database, one    *)
(* after the other or at once ("doesn't matter if Yggmail is running or    *)
(* not", says the README of -password), and the logins of mail clients     *)
(* (Backend.Login of imapserver and smtpserver) against what they stored.  *)
(*                                                                         *)
(* Every storage call is one step.  One that fails makes main panic or     *)
(* exit, and a process may be killed at any time: both are Stop.           *)
(***************************************************************************)
EXTENDS Address

CONSTANTS
  Procs,      \* the processes
  Keys,       \* the keys that GenerateKey makes
  Passwords,  \* what is typed for a password
  TrimSpace,  \* strings.TrimSpace
  None,       \* no value
  MaxStarts   \* bound: how often a process is started

Modes == {"password", "passwordhash", "serve", "neither"}
Protected == {"INBOX", "Outbox"}

ASSUME StartupAssumption ==
  /\ Keys \subseteq Key /\ None \notin Keys /\ None \notin Passwords
  /\ TrimSpace \in [Passwords -> Passwords]
  /\ MaxStarts \in Nat

VARIABLES
  privateKey, \* table config: the value of "private_key"
  password,   \* table config: the password whose hash is stored
  boxes,      \* table mailboxes: which of INBOX and Outbox are there
  proc,       \* proc[p]: a process with its locals
  starts,     \* how many processes were started, for the bound
  addresses,  \* the keys whose address a process has logged (a history)
  reported,   \* the password that was last reported to be updated, unless
              \* another one is stored since (a history)
  lapses,     \* what was stored by a write that Writer skipped, or by two
              \* processes at once (a history)
  taken       \* the mailboxes that a client has taken away and nobody has
              \* created again (a history)

config == <<privateKey, password>>
histories == <<addresses, reported, lapses>>
mailboxes == <<boxes, taken>>
vars == <<config, mailboxes, proc, starts, histories>>

Off == [pc |-> "off", mode |-> "neither", key |-> None, hash |-> None]

Init ==
  /\ privateKey = None /\ password = None /\ boxes = {}
  /\ proc = [p \in Procs |-> Off] /\ starts = 0
  /\ addresses = {} /\ reported = None /\ lapses = {} /\ taken = {}

\* The process p goes on at pc, with these locals.
Goes(p, pc, key, hash) ==
  proc' = [proc EXCEPT ![p] =
             [pc |-> pc, mode |-> proc[p].mode, key |-> key, hash |-> hash]]
Goto(p, pc) == Goes(p, pc, proc[p].key, proc[p].hash)
Exits(p) == proc' = [proc EXCEPT ![p] = Off]

\* A write of "what" that changes x to new: done, or skipped by Writer.run,
\* which reports success all the same (see Writer).
Skips(x, what) == x' = x /\ lapses' = lapses \cup {what}
Writes(x, new, what) == (x' = new /\ UNCHANGED lapses) \/ Skips(x, what)

\* MailboxCreate, which leaves a mailbox that is there as it is.
MailboxCreate(name) ==
  \/ /\ boxes' = boxes \cup {name} /\ taken' = taken \ {name}
     /\ UNCHANGED lapses
  \/ Skips(boxes, "boxes") /\ UNCHANGED taken

\* Another process is at pc.
Races(pc, what) ==
  lapses' = IF \E q \in Procs : proc[q].pc = pc THEN lapses \cup {what}
            ELSE lapses

Start(p) ==
  /\ proc[p].pc = "off" /\ starts < MaxStarts
  /\ \E mode \in Modes :
       proc' = [proc EXCEPT ![p] =
         [pc |-> "get", mode |-> mode, key |-> None, hash |-> None]]
  /\ starts' = starts + 1
  /\ UNCHANGED <<config, mailboxes, histories>>

\* Mutant: the stored key is decoded but not copied.
GetKeyForgets(p) ==
  /\ proc[p].pc = "get" /\ privateKey # None
  /\ Goto(p, "inbox")
  /\ UNCHANGED <<config, mailboxes, starts, histories>>

\* The identity that is stored ...
GetKey(p) ==
  /\ proc[p].pc = "get" /\ privateKey # None
  /\ Goes(p, "inbox", privateKey, None)
  /\ addresses' = addresses \cup {privateKey}
  /\ UNCHANGED <<config, mailboxes, starts, reported, lapses>>

\* Mutant: a key is generated on every start.
GenerateAlways(p) ==
  /\ proc[p].pc = "get"
  /\ \E key \in Keys : Goes(p, "set", key, None)
  /\ Races("set", "key")
  /\ UNCHANGED <<config, mailboxes, starts, addresses, reported>>

\* ... or a new one, which is then stored.
GenerateKey(p) ==
  /\ proc[p].pc = "get" /\ privateKey = None
  /\ \E key \in Keys : Goes(p, "set", key, None)
  /\ Races("set", "key")
  /\ UNCHANGED <<config, mailboxes, starts, addresses, reported>>

SetKey(p) ==
  /\ proc[p].pc = "set"
  /\ Writes(privateKey, proc[p].key, "key")
  /\ Goto(p, "inbox")
  /\ addresses' = addresses \cup {proc[p].key}
  /\ UNCHANGED <<password, mailboxes, starts, reported>>

CreateInbox(p) ==
  /\ proc[p].pc = "inbox"
  /\ MailboxCreate("INBOX")
  /\ Goto(p, "outbox")
  /\ UNCHANGED <<config, starts, addresses, reported>>

\* What follows depends on the flags of the command line.
Continue(p) ==
  \/ proc[p].mode = "serve" /\ Goto(p, "listen")
  \/ proc[p].mode = "neither" /\ Exits(p)
  \/ proc[p].mode \in {"password", "passwordhash"} /\ Goto(p, "prompt")

\* Mutant: the name of the first mailbox is used again.
CreateInboxAgain(p) ==
  /\ proc[p].pc = "outbox"
  /\ MailboxCreate("INBOX")
  /\ Continue(p)
  /\ UNCHANGED <<config, starts, addresses, reported>>

CreateOutbox(p) ==
  /\ proc[p].pc = "outbox"
  /\ MailboxCreate("Outbox")
  /\ Continue(p)
  /\ UNCHANGED <<config, starts, addresses, reported>>

\* The same password is typed twice, or else the process exits (Stop).
Prompt(p) ==
  /\ proc[p].pc = "prompt" /\ proc[p].mode = "password"
  /\ \E typed \in Passwords : Goes(p, "hash", proc[p].key, TrimSpace[typed])
  /\ UNCHANGED <<config, mailboxes, starts, histories>>

\* The hash on the command line is one of any password.
TakeHash(p) ==
  /\ proc[p].pc = "prompt" /\ proc[p].mode = "passwordhash"
  /\ \E hashed \in Passwords : Goes(p, "hash", proc[p].key, hashed)
  /\ UNCHANGED <<config, mailboxes, starts, histories>>

\* Mutant: INSERT OR IGNORE.
SetPasswordOnce(p) ==
  /\ proc[p].pc = "hash"
  /\ \/ /\ password' = IF password = None THEN proc[p].hash ELSE password
        /\ Races("report", "password")
     \/ Skips(password, "password")
  /\ reported' = None
  /\ Goto(p, "report")
  /\ UNCHANGED <<privateKey, mailboxes, starts, addresses>>

SetPassword(p) ==
  /\ proc[p].pc = "hash"
  /\ \/ password' = proc[p].hash /\ Races("report", "password")
     \/ Skips(password, "password")
  /\ reported' = None
  /\ Goto(p, "report")
  /\ UNCHANGED <<privateKey, mailboxes, starts, addresses>>

\* "Password for IMAP and SMTP has been updated!"  After -password main
\* exits, after -passwordhash it goes on.
Report(p) ==
  /\ proc[p].pc = "report"
  /\ reported' = proc[p].hash
  /\ IF proc[p].mode = "password" THEN Exits(p) ELSE Goto(p, "listen")
  /\ UNCHANGED <<config, mailboxes, starts, addresses, lapses>>

\* The overlay transport, the queues and the listeners are there.  The SMTP
\* listeners are started by goroutines; where one fails, log.Fatal is Stop.
Listen(p) ==
  /\ proc[p].pc = "listen"
  /\ Goto(p, "serve")
  /\ UNCHANGED <<config, mailboxes, starts, histories>>

\* A client of p sends RENAME Other INBOX (or Outbox), where there is no
\* Other.  The statement has the names the wrong way round, so it is the
\* mailbox of the second name, which nothing protects, that gets the first
\* (see ImapServer).
RenameMailbox(p) ==
  /\ proc[p].pc = "serve"
  /\ \E name \in boxes : boxes' = boxes \ {name} /\ taken' = taken \cup {name}
  /\ UNCHANGED <<config, proc, starts, histories>>

\* A client of p sends CREATE INBOX (or Outbox).
CreateMailbox(p) ==
  /\ proc[p].pc = "serve"
  /\ \E name \in Protected \ boxes :
       boxes' = boxes \cup {name} /\ taken' = taken \ {name}
  /\ UNCHANGED <<config, proc, starts, histories>>

\* A signal, a crash, a failed storage call or listener, passwords that
\* differ or that cannot be hashed.
Stop(p) ==
  /\ proc[p].pc # "off"
  /\ Exits(p)
  /\ UNCHANGED <<config, mailboxes, starts, histories>>

Next ==
  \E p \in Procs :
    \/ Start(p) \/ GetKey(p) \/ GenerateKey(p) \/ SetKey(p) \/ CreateInbox(p)
    \/ CreateOutbox(p) \/ Prompt(p) \/ TakeHash(p) \/ SetPassword(p)
    \/ Report(p) \/ Listen(p) \/ RenameMailbox(p) \/ CreateMailbox(p)
    \/ Stop(p)

Spec == Init /\ [][Next]_vars

-----------------------------------------------------------------------------
(***************************************************************************)
(* Logins, which change nothing.                                           *)
(***************************************************************************)

ConfigTryPassword(typed) == password = None \/ typed = password

\* A name that is not an address is not looked at; one that makes
\* ParseAddress panic ends the connection.
Login(p, username, typed) ==
  LET parsed == ParseAddress(username)
  IN /\ parsed.kind # "panic"
     /\ parsed.kind = "key" => parsed.key = proc[p].key
     /\ ConfigTryPassword(typed)

-----------------------------------------------------------------------------
(***************************************************************************)
(* Properties.                                                             *)
(***************************************************************************)

PC == {"off", "get", "set", "inbox", "outbox", "prompt", "hash", "report",
       "listen", "serve"}
ProcType ==
  {x \in [pc : PC, mode : Modes, key : Keys \cup {None},
          hash : Passwords \cup {None}] :
     /\ x.pc \notin {"off", "get"} => x.key # None
     /\ x.pc \in {"hash", "report"} => x.hash # None}

\* The types; a process past the first steps has an identity.
TypeOK ==
  /\ privateKey \in Keys \cup {None} /\ password \in Passwords \cup {None}
  /\ boxes \subseteq Protected
  /\ proc \in [Procs -> ProcType]
  /\ starts \in Nat
  /\ addresses \subseteq Keys
  /\ reported \in Passwords \cup {None}
  /\ lapses \subseteq {"key", "password", "boxes"}
  /\ taken \subseteq Protected

\* The mail address that a node has told its user stays its address, across
\* crashes at every step and restarts in every mode, unless its key was not
\* stored or two processes were the first.
OneIdentity ==
  "key" \notin lapses => \A k, l \in addresses : k = l

\* When a password is reported to be updated, logins are tried against that
\* password, also at processes that were running before ("doesn't matter if
\* Yggmail is running or not").
PasswordInForce ==
  "password" \notin lapses /\ reported # None =>
    \A typed \in Passwords : ConfigTryPassword(typed) <=> typed = reported

\* A process that serves finds INBOX and Outbox, on which MailCreate and the
\* foreign keys of mail and queue rely, but for those that a client of one of
\* the processes took away by RENAME after they were last created: what start
\* creates is there, and each start makes good what clients did before.
MailboxesThere ==
  "boxes" \notin lapses =>
    \A p \in Procs : proc[p].pc = "serve" => Protected \subseteq boxes \cup taken

\* "Username is your mail address": with the password the address that main
\* logged is let in, in lower and in upper case, and that of another node is
\* not.
OwnAddressLogsIn ==
  \A p \in Procs : \A key \in Keys : \A digits \in {Lower, Upper} :
    \A typed \in Passwords :
      proc[p].pc = "serve" /\ ConfigTryPassword(typed) =>
        (Login(p, MailAddress(key, digits), typed) <=> key = proc[p].key)
=============================================================================
