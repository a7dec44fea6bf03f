---------------------------- MODULE StartupProofs ----------------------------
(***************************************************************************)
(* Theorems about Startup, for any number of processes, keys, passwords    *)
(* and starts.                                                             *)
(***************************************************************************)
EXTENDS Startup, SequenceTheorems, TLAPS

\* Unless a key was not stored or two processes were the first: what was
\* announced is what is stored, and only one process at a time, before there
\* is a key, is about to store one.
IdentityInv ==
  "key" \notin lapses =>
    /\ \A key \in addresses : key = privateKey
    /\ \A p, q \in Procs : proc[p].pc = "set" /\ proc[q].pc = "set" => p = q
    /\ \A p \in Procs : proc[p].pc = "set" => privateKey = None

\* With the same proviso: what was reported, or is about to be, is stored.
ForceInv ==
  "password" \notin lapses =>
    /\ reported # None => password = reported
    /\ \A p \in Procs : proc[p].pc = "report" => password = proc[p].hash

\* With the same proviso: of a mailbox that a process has created nothing
\* but a client's RENAME may have become.
BoxesInv ==
  "boxes" \notin lapses =>
    \A p \in Procs :
      /\ proc[p].pc = "outbox" => "INBOX" \in boxes \cup taken
      /\ proc[p].pc \in {"prompt", "hash", "report", "listen", "serve"} =>
           Protected \subseteq boxes \cup taken

\* The inductive invariant.
StartupInv == TypeOK /\ IdentityInv /\ ForceInv /\ BoxesInv

-----------------------------------------------------------------------------

\* A process that goes on keeps its type.
LEMMA GoesType ==
  ASSUME TypeOK, NEW p \in Procs, NEW pc, NEW key, NEW hash, Goes(p, pc, key, hash),
         pc \in PC \ {"off", "get"}, key \in Keys,
         hash \in Passwords \cup {None},
         pc \in {"hash", "report"} => hash # None
  PROVE  proc' \in [Procs -> ProcType]
<1>1. proc[p].mode \in Modes
  BY DEF TypeOK, ProcType
<1>2. key # None
  BY StartupAssumption
<1>3. [pc |-> pc, mode |-> proc[p].mode, key |-> key, hash |-> hash] \in ProcType
  BY <1>1, <1>2 DEF ProcType
<1> QED
  BY <1>3 DEF TypeOK, Goes

LEMMA ExitsType ==
  ASSUME TypeOK, NEW p \in Procs, Exits(p)
  PROVE  proc' \in [Procs -> ProcType]
<1>1. Off \in ProcType
  BY DEF Off, ProcType, PC, Modes
<1> QED
  BY <1>1 DEF TypeOK, Exits

\* A process past the first steps has an identity, and one that sets a
\* password has it.
LEMMA LocalsType ==
  ASSUME TypeOK, NEW p \in Procs
  PROVE  /\ proc[p].pc \notin {"off", "get"} => proc[p].key \in Keys
         /\ proc[p].hash \in Passwords \cup {None}
         /\ proc[p].pc \in {"hash", "report"} => proc[p].hash \in Passwords
         /\ proc[p].mode \in Modes
  BY DEF TypeOK, ProcType

LEMMA ProcsType ==
  ASSUME TypeOK, [Next]_vars
  PROVE  proc' \in [Procs -> ProcType]
<1>1. CASE UNCHANGED vars
  BY <1>1 DEF vars, TypeOK
<1>2. CASE Next
  <2> SUFFICES ASSUME NEW p \in Procs,
                      \/ Start(p) \/ GetKey(p) \/ GenerateKey(p) \/ SetKey(p)
                      \/ CreateInbox(p) \/ CreateOutbox(p) \/ Prompt(p)
                      \/ TakeHash(p) \/ SetPassword(p) \/ Report(p)
                      \/ Listen(p) \/ RenameMailbox(p) \/ CreateMailbox(p)
                      \/ Stop(p)
               PROVE  proc' \in [Procs -> ProcType]
    BY <1>2 DEF Next
  <2>1. CASE Start(p)
    <3>1. PICK mode \in Modes :
            proc' = [proc EXCEPT ![p] =
              [pc |-> "get", mode |-> mode, key |-> None, hash |-> None]]
      BY <2>1 DEF Start
    <3>2. [pc |-> "get", mode |-> mode, key |-> None, hash |-> None] \in ProcType
      BY DEF ProcType, PC
    <3> QED
      BY <3>1, <3>2 DEF TypeOK
  <2>2. CASE GetKey(p)
    <3>1. privateKey \in Keys /\ Goes(p, "inbox", privateKey, None)
      BY <2>2 DEF GetKey, TypeOK
    <3> QED
      BY <3>1, GoesType DEF PC
  <2>3. CASE GenerateKey(p)
    <3>1. PICK key \in Keys : Goes(p, "set", key, None)
      BY <2>3 DEF GenerateKey
    <3> QED
      BY <3>1, GoesType DEF PC
  <2>4. CASE \/ SetKey(p) \/ CreateInbox(p) \/ SetPassword(p) \/ Listen(p)
    <3>1. /\ proc[p].key \in Keys /\ proc[p].hash \in Passwords \cup {None}
          /\ proc[p].pc \in {"hash", "report"} => proc[p].hash # None
      BY <2>4, LocalsType, StartupAssumption
         DEF SetKey, CreateInbox, SetPassword, Listen
    <3>2. \/ Goto(p, "inbox") \/ Goto(p, "outbox") \/ Goto(p, "serve")
          \/ Goto(p, "report") /\ proc[p].pc = "hash"
      BY <2>4 DEF SetKey, CreateInbox, SetPassword, Listen
    <3> QED
      BY <3>1, <3>2, GoesType DEF Goto, PC
  <2>5. CASE CreateOutbox(p) \/ Report(p)
    <3>1. proc[p].key \in Keys /\ proc[p].hash \in Passwords \cup {None}
      BY <2>5, LocalsType DEF CreateOutbox, Report
    <3>2. Exits(p) \/ Goto(p, "listen") \/ Goto(p, "prompt")
      BY <2>5 DEF CreateOutbox, Continue, Report
    <3> QED
      BY <3>1, <3>2, GoesType, ExitsType DEF Goto, PC
  <2>6. CASE Prompt(p) \/ TakeHash(p)
    <3>1. proc[p].key \in Keys
      BY <2>6, LocalsType DEF Prompt, TakeHash
    <3>2. PICK hash \in Passwords : Goes(p, "hash", proc[p].key, hash)
      BY <2>6, StartupAssumption DEF Prompt, TakeHash
    <3> QED
      BY <3>1, <3>2, GoesType, StartupAssumption DEF PC
  <2>7. CASE Stop(p)
    BY <2>7, ExitsType DEF Stop
  <2>8. CASE RenameMailbox(p) \/ CreateMailbox(p)
    BY <2>8 DEF RenameMailbox, CreateMailbox, TypeOK
  <2> QED
    BY <2>1, <2>2, <2>3, <2>4, <2>5, <2>6, <2>7, <2>8
<1> QED
  BY <1>1, <1>2

\* The other variables keep their types.
LEMMA TypeStep ==
  ASSUME TypeOK, [Next]_vars
  PROVE  TypeOK'
<1>1. proc' \in [Procs -> ProcType]
  BY ProcsType
<1>2. CASE UNCHANGED vars
  BY <1>2 DEF vars, config, mailboxes, histories, TypeOK
<1>3. CASE Next
  <2> SUFFICES ASSUME NEW p \in Procs,
                      \/ Start(p) \/ GetKey(p) \/ GenerateKey(p) \/ SetKey(p)
                      \/ CreateInbox(p) \/ CreateOutbox(p) \/ Prompt(p)
                      \/ TakeHash(p) \/ SetPassword(p) \/ Report(p)
                      \/ Listen(p) \/ RenameMailbox(p) \/ CreateMailbox(p)
                      \/ Stop(p)
               PROVE  TypeOK'
    BY <1>3 DEF Next
  <2>1. CASE Start(p) \/ Prompt(p) \/ TakeHash(p) \/ Listen(p) \/ Stop(p)
    <3>1. UNCHANGED <<config, mailboxes, histories>>
      BY <2>1 DEF Start, Prompt, TakeHash, Listen, Stop
    <3>2. starts' \in Nat
      BY <2>1 DEF Start, Prompt, TakeHash, Listen, Stop, TypeOK
    <3> QED
      BY <1>1, <3>1, <3>2 DEF TypeOK, config, mailboxes, histories
  <2>7. CASE GetKey(p)
    BY <1>1, <2>7 DEF TypeOK, GetKey, config, mailboxes
  <2>2. CASE GenerateKey(p)
    BY <1>1, <2>2 DEF TypeOK, GenerateKey, Races, config, mailboxes
  <2>3. CASE SetKey(p)
    <3>1. proc[p].key \in Keys
      BY <2>3, LocalsType DEF SetKey
    <3> QED
      BY <1>1, <2>3, <3>1 DEF TypeOK, SetKey, Writes, Skips, mailboxes
  <2>4. CASE CreateInbox(p) \/ CreateOutbox(p)
    BY <1>1, <2>4
       DEF TypeOK, CreateInbox, CreateOutbox, MailboxCreate, Skips, Protected,
           config
  <2>5. CASE SetPassword(p)
    <3>1. proc[p].hash \in Passwords
      BY <2>5, LocalsType DEF SetPassword
    <3> QED
      BY <1>1, <2>5, <3>1 DEF TypeOK, SetPassword, Races, Skips, mailboxes
  <2>6. CASE Report(p)
    <3>1. proc[p].hash \in Passwords
      BY <2>6, LocalsType DEF Report
    <3> QED
      BY <1>1, <2>6, <3>1 DEF TypeOK, Report, config, mailboxes
  <2>8. CASE RenameMailbox(p) \/ CreateMailbox(p)
    BY <1>1, <2>8 DEF TypeOK, RenameMailbox, CreateMailbox, config, histories
  <2> QED
    BY <2>1, <2>2, <2>3, <2>4, <2>5, <2>6, <2>7, <2>8
<1> QED
  BY <1>2, <1>3

\* What a step does to the process that takes it, and to the others.
LEMMA ProcEffect ==
  ASSUME TypeOK, NEW p \in Procs, NEW pc, NEW key, NEW hash, Goes(p, pc, key, hash)
  PROVE  /\ proc'[p].pc = pc /\ proc'[p].hash = hash
         /\ \A q \in Procs \ {p} : proc'[q] = proc[q]
  BY DEF TypeOK, Goes

LEMMA ExitEffect ==
  ASSUME TypeOK, NEW p \in Procs, Exits(p)
  PROVE  proc'[p].pc = "off" /\ \A q \in Procs \ {p} : proc'[q] = proc[q]
  BY DEF TypeOK, Exits, Off

\* Where a step leads: the processes that are not at pc now were there before.
LEMMA StepEffect ==
  ASSUME TypeOK, NEW p \in Procs,
         \/ Start(p) \/ Prompt(p) \/ TakeHash(p) \/ Listen(p) \/ Stop(p)
  PROVE  /\ proc'[p].pc \in {"off", "get", "hash", "serve"}
         /\ proc[p].pc \in {"prompt", "listen"} \/ proc'[p].pc \in {"off", "get"}
         /\ \A q \in Procs \ {p} : proc'[q] = proc[q]
         /\ UNCHANGED <<config, mailboxes, histories>>
<1>1. CASE Start(p)
  BY <1>1 DEF Start, TypeOK
<1>2. CASE Prompt(p) \/ TakeHash(p)
  <2>1. \E hash : Goes(p, "hash", proc[p].key, hash)
    BY <1>2 DEF Prompt, TakeHash
  <2> QED
    BY <1>2, <2>1, ProcEffect DEF Prompt, TakeHash
<1>3. CASE Listen(p)
  BY <1>3, ProcEffect DEF Listen, Goto
<1>4. CASE Stop(p)
  BY <1>4, ExitEffect DEF Stop
<1> QED
  BY <1>1, <1>2, <1>3, <1>4

LEMMA OutboxEffect ==
  ASSUME TypeOK, NEW p \in Procs, CreateOutbox(p) \/ Report(p)
  PROVE  /\ proc'[p].pc \in {"off", "listen", "prompt"}
         /\ \A q \in Procs \ {p} : proc'[q] = proc[q]
<1>1. Exits(p) \/ Goto(p, "listen") \/ Goto(p, "prompt")
  BY DEF CreateOutbox, Continue, Report
<1> QED
  BY <1>1, ProcEffect, ExitEffect DEF Goto

-----------------------------------------------------------------------------

LEMMA IdentityStep ==
  ASSUME TypeOK, IdentityInv, NEW p \in Procs,
         \/ Start(p) \/ GetKey(p) \/ GenerateKey(p) \/ SetKey(p)
         \/ CreateInbox(p) \/ CreateOutbox(p) \/ Prompt(p) \/ TakeHash(p)
         \/ SetPassword(p) \/ Report(p) \/ Listen(p)
         \/ RenameMailbox(p) \/ CreateMailbox(p) \/ Stop(p)
  PROVE  IdentityInv'
<1>1. CASE Start(p) \/ Prompt(p) \/ TakeHash(p) \/ Listen(p) \/ Stop(p)
  BY <1>1, StepEffect DEF IdentityInv, config, histories
<1>2. CASE GetKey(p)
  <2>1. proc'[p].pc = "inbox" /\ \A q \in Procs \ {p} : proc'[q] = proc[q]
    BY <1>2, ProcEffect DEF GetKey
  <2> QED
    BY <1>2, <2>1 DEF IdentityInv, GetKey, config
<1>3. CASE GenerateKey(p)
  <2>1. \A q \in Procs \ {p} : proc'[q] = proc[q]
    BY <1>3, ProcEffect DEF GenerateKey
  <2>2. "key" \notin lapses' =>
          "key" \notin lapses /\ \A q \in Procs : proc[q].pc # "set"
    BY <1>3 DEF GenerateKey, Races
  <2>3. privateKey = None /\ UNCHANGED <<privateKey, addresses>>
    BY <1>3 DEF GenerateKey, config
  <2> QED
    BY <2>1, <2>2, <2>3 DEF IdentityInv
<1>4. CASE SetKey(p)
  <2>1. proc'[p].pc = "inbox" /\ \A q \in Procs \ {p} : proc'[q] = proc[q]
    BY <1>4, ProcEffect DEF SetKey, Goto
  <2> SUFFICES ASSUME "key" \notin lapses' PROVE IdentityInv'
    BY DEF IdentityInv
  <2>2. "key" \notin lapses /\ privateKey' = proc[p].key
    BY <1>4 DEF SetKey, Writes, Skips
  <2>3. addresses = {}
    <3>1. privateKey = None
      BY <1>4, <2>2 DEF IdentityInv, SetKey
    <3> QED
      BY <2>2, <3>1, StartupAssumption DEF IdentityInv, TypeOK
  <2>4. \A q \in Procs : proc'[q].pc # "set"
    BY <1>4, <2>1, <2>2 DEF IdentityInv, SetKey
  <2> QED
    BY <1>4, <2>2, <2>3, <2>4 DEF IdentityInv, SetKey
<1>5. CASE CreateInbox(p)
  <2>1. proc'[p].pc = "outbox" /\ \A q \in Procs \ {p} : proc'[q] = proc[q]
    BY <1>5, ProcEffect DEF CreateInbox, Goto
  <2> QED
    BY <1>5, <2>1 DEF IdentityInv, CreateInbox, MailboxCreate, Skips, config
<1>6. CASE CreateOutbox(p) \/ Report(p)
  BY <1>6, OutboxEffect
     DEF IdentityInv, CreateOutbox, Report, MailboxCreate, Skips, config
<1>7. CASE SetPassword(p)
  <2>1. proc'[p].pc = "report" /\ \A q \in Procs \ {p} : proc'[q] = proc[q]
    BY <1>7, ProcEffect DEF SetPassword, Goto
  <2> QED
    BY <1>7, <2>1 DEF IdentityInv, SetPassword, Races, Skips
<1>8. CASE RenameMailbox(p) \/ CreateMailbox(p)
  BY <1>8
  DEF IdentityInv, RenameMailbox, CreateMailbox, config, histories
<1> QED
  BY <1>1, <1>2, <1>3, <1>4, <1>5, <1>6, <1>7, <1>8

LEMMA ForceStep ==
  ASSUME TypeOK, ForceInv, NEW p \in Procs,
         \/ Start(p) \/ GetKey(p) \/ GenerateKey(p) \/ SetKey(p)
         \/ CreateInbox(p) \/ CreateOutbox(p) \/ Prompt(p) \/ TakeHash(p)
         \/ SetPassword(p) \/ Report(p) \/ Listen(p)
         \/ RenameMailbox(p) \/ CreateMailbox(p) \/ Stop(p)
  PROVE  ForceInv'
<1>1. CASE Start(p) \/ Prompt(p) \/ TakeHash(p) \/ Listen(p) \/ Stop(p)
  BY <1>1, StepEffect DEF ForceInv, config, histories
<1>2. CASE GetKey(p) \/ GenerateKey(p) \/ SetKey(p) \/ CreateInbox(p)
  <2>1. /\ proc'[p].pc # "report" /\ \A q \in Procs \ {p} : proc'[q] = proc[q]
    BY <1>2, ProcEffect DEF GetKey, GenerateKey, SetKey, CreateInbox, Goto
  <2>2. UNCHANGED <<password, reported>>
    BY <1>2 DEF GetKey, GenerateKey, SetKey, CreateInbox, config
  <2>3. "password" \notin lapses' => "password" \notin lapses
    BY <1>2
    DEF GetKey, GenerateKey, SetKey, CreateInbox, Races, Writes, MailboxCreate,
        Skips
  <2> QED
    BY <2>1, <2>2, <2>3 DEF ForceInv
<1>3. CASE CreateOutbox(p)
  BY <1>3, OutboxEffect DEF ForceInv, CreateOutbox, MailboxCreate, Skips, config
<1>4. CASE SetPassword(p)
  <2>1. /\ proc'[p].hash = proc[p].hash
        /\ \A q \in Procs \ {p} : proc'[q] = proc[q]
    BY <1>4, ProcEffect DEF SetPassword, Goto
  <2> SUFFICES ASSUME "password" \notin lapses' PROVE ForceInv'
    BY DEF ForceInv
  <2>2. password' = proc[p].hash /\ \A q \in Procs : proc[q].pc # "report"
    BY <1>4 DEF SetPassword, Races, Skips
  <2>3. reported' = None
    BY <1>4 DEF SetPassword
  <2> QED
    BY <2>1, <2>2, <2>3 DEF ForceInv
<1>5. CASE Report(p)
  BY <1>5, OutboxEffect DEF ForceInv, Report, config
<1>6. CASE RenameMailbox(p) \/ CreateMailbox(p)
  BY <1>6 DEF ForceInv, RenameMailbox, CreateMailbox, config, histories
<1> QED
  BY <1>1, <1>2, <1>3, <1>4, <1>5, <1>6

LEMMA BoxesStep ==
  ASSUME TypeOK, BoxesInv, NEW p \in Procs,
         \/ Start(p) \/ GetKey(p) \/ GenerateKey(p) \/ SetKey(p)
         \/ CreateInbox(p) \/ CreateOutbox(p) \/ Prompt(p) \/ TakeHash(p)
         \/ SetPassword(p) \/ Report(p) \/ Listen(p)
         \/ RenameMailbox(p) \/ CreateMailbox(p) \/ Stop(p)
  PROVE  BoxesInv'
<1>1. CASE Start(p) \/ Prompt(p) \/ TakeHash(p) \/ Listen(p) \/ Stop(p)
  BY <1>1, StepEffect DEF BoxesInv, mailboxes, histories
<1>2. CASE GetKey(p) \/ GenerateKey(p) \/ SetKey(p)
  <2>1. /\ proc'[p].pc \in {"set", "inbox"}
        /\ \A q \in Procs \ {p} : proc'[q] = proc[q]
    BY <1>2, ProcEffect DEF GetKey, GenerateKey, SetKey, Goto
  <2>2. UNCHANGED mailboxes /\ ("boxes" \notin lapses' => "boxes" \notin lapses)
    BY <1>2 DEF GetKey, GenerateKey, SetKey, Races, Writes, Skips
  <2> QED
    BY <2>1, <2>2 DEF BoxesInv, mailboxes
<1>3. CASE CreateInbox(p)
  <2>1. proc'[p].pc = "outbox" /\ \A q \in Procs \ {p} : proc'[q] = proc[q]
    BY <1>3, ProcEffect DEF CreateInbox, Goto
  <2>2. "boxes" \notin lapses' =>
          /\ "boxes" \notin lapses
          /\ boxes' = boxes \cup {"INBOX"} /\ taken' = taken \ {"INBOX"}
    BY <1>3 DEF CreateInbox, MailboxCreate, Skips
  <2> QED
    BY <2>1, <2>2 DEF BoxesInv
<1>4. CASE CreateOutbox(p)
  <2>1. "boxes" \notin lapses' =>
          /\ "boxes" \notin lapses
          /\ boxes' = boxes \cup {"Outbox"} /\ taken' = taken \ {"Outbox"}
    BY <1>4 DEF CreateOutbox, MailboxCreate, Skips
  <2>2. "boxes" \notin lapses => "INBOX" \in boxes \cup taken
    BY <1>4 DEF BoxesInv, CreateOutbox
  <2> QED
    BY <1>4, <2>1, <2>2, OutboxEffect DEF BoxesInv, Protected
<1>5. CASE SetPassword(p)
  <2>1. proc'[p].pc = "report" /\ \A q \in Procs \ {p} : proc'[q] = proc[q]
    BY <1>5, ProcEffect DEF SetPassword, Goto
  <2>2. /\ UNCHANGED mailboxes /\ proc[p].pc = "hash"
        /\ "boxes" \notin lapses' => "boxes" \notin lapses
    BY <1>5 DEF SetPassword, Races, Skips
  <2> QED
    BY <2>1, <2>2 DEF BoxesInv, mailboxes
<1>6. CASE Report(p)
  BY <1>6, OutboxEffect DEF BoxesInv, Report, mailboxes
<1>7. CASE RenameMailbox(p) \/ CreateMailbox(p)
  <2>1. boxes \cup taken \subseteq boxes' \cup taken'
    BY <1>7 DEF RenameMailbox, CreateMailbox
  <2> QED
    BY <1>7, <2>1 DEF BoxesInv, RenameMailbox, CreateMailbox, histories
<1> QED
  BY <1>1, <1>2, <1>3, <1>4, <1>5, <1>6, <1>7

-----------------------------------------------------------------------------

LEMMA StartupInit == Init => StartupInv
<1> SUFFICES ASSUME Init PROVE StartupInv
  OBVIOUS
<1>1. Off \in ProcType
  BY DEF Off, ProcType, PC, Modes
<1>2. TypeOK
  BY <1>1, StartupAssumption DEF Init, TypeOK
<1>3. \A p \in Procs : proc[p].pc = "off"
  BY DEF Init, Off
<1> QED
  BY <1>2, <1>3 DEF Init, StartupInv, IdentityInv, ForceInv, BoxesInv

\* Every step of a process keeps the invariant, and so does a stutter.
LEMMA StartupStep == StartupInv /\ [Next]_vars => StartupInv'
<1> SUFFICES ASSUME StartupInv, [Next]_vars PROVE StartupInv'
  OBVIOUS
<1>1. TypeOK'
  BY TypeStep DEF StartupInv
<1>2. CASE Next
  BY <1>1, <1>2, IdentityStep, ForceStep, BoxesStep DEF StartupInv, Next
<1>3. CASE UNCHANGED vars
  <2>1. UNCHANGED <<privateKey, password, mailboxes, proc, addresses, reported,
                  lapses>>
    BY <1>3 DEF vars, config, histories
  <2> QED
    BY <1>1, <2>1 DEF StartupInv, IdentityInv, ForceInv, BoxesInv, mailboxes
<1> QED
  BY <1>2, <1>3

\* The types hold in every reachable state, and a process past the first
\* steps of main has an identity.
THEOREM StartupTypeOK == Spec => []TypeOK
<1>1. StartupInv => TypeOK
  BY DEF StartupInv
<1> QED
  BY <1>1, StartupInit, StartupStep, PTL DEF Spec

\* Whatever crashes and restarts, in any number of processes: all addresses
\* that main logs are one, unless the key was not stored or two processes
\* were the first.
THEOREM StartupOneIdentity == Spec => []OneIdentity
<1>1. StartupInv => OneIdentity
  BY DEF StartupInv, IdentityInv, OneIdentity
<1> QED
  BY <1>1, StartupInit, StartupStep, PTL DEF Spec

\* After a report that the password was updated, that password is the one
\* logins are tried against.
THEOREM StartupPasswordInForce == Spec => []PasswordInForce
<1>1. StartupInv => PasswordInForce
  BY StartupAssumption
     DEF StartupInv, ForceInv, PasswordInForce, ConfigTryPassword, TypeOK
<1> QED
  BY <1>1, StartupInit, StartupStep, PTL DEF Spec

\* A process that serves finds INBOX and Outbox, but for those that a client
\* took away after they were last created.
THEOREM StartupMailboxesThere == Spec => []MailboxesThere
<1>1. StartupInv => MailboxesThere
  BY DEF StartupInv, BoxesInv, MailboxesThere
<1> QED
  BY <1>1, StartupInit, StartupStep, PTL DEF Spec

-----------------------------------------------------------------------------
(***************************************************************************)
(* The mail address of a node is parsed to its key: EncodeToString and     *)
(* DecodeString digit by digit, then ParseAddress, for keys of any length. *)
(***************************************************************************)

\* What the digits are.
LEMMA DigitsOf ==
  ASSUME NEW digits \in {Lower, Upper}
  PROVE  /\ Len(digits) = 16
         /\ digits[1] = "0" /\ digits[2] = "1" /\ digits[3] = "2"
         /\ digits[4] = "3" /\ digits[5] = "4" /\ digits[6] = "5"
         /\ digits[7] = "6" /\ digits[8] = "7" /\ digits[9] = "8"
         /\ digits[10] = "9"
         /\ digits[11] \in {"a", "A"} /\ digits[12] \in {"b", "B"}
         /\ digits[13] \in {"c", "C"} /\ digits[14] \in {"d", "D"}
         /\ digits[15] \in {"e", "E"} /\ digits[16] \in {"f", "F"}
  BY DEF Lower, Upper

\* The letters in which the cases differ.
LEMMA LettersOf ==
  /\ Lower[11] = "a" /\ Lower[12] = "b" /\ Lower[13] = "c"
  /\ Lower[14] = "d" /\ Lower[15] = "e" /\ Lower[16] = "f"
  /\ Upper[11] = "A" /\ Upper[12] = "B" /\ Upper[13] = "C"
  /\ Upper[14] = "D" /\ Upper[15] = "E" /\ Upper[16] = "F"
  BY DEF Lower, Upper

\* A digit stands for one number, in either case.
LEMMA NibblesOf ==
  ASSUME NEW digits \in {Lower, Upper}, NEW n \in 0..15
  PROVE  Nibbles(digits[n + 1]) = {n}
<1>1. ASSUME NEW k \in 0..15
      PROVE  digits[n + 1] \in {Lower[k + 1], Upper[k + 1]} <=> k = n
  BY DigitsOf, LettersOf
<1> QED
  BY <1>1 DEF Nibbles

\* No digit is the sign before the domain.
LEMMA DigitsNoAt ==
  ASSUME NEW digits \in {Lower, Upper}, NEW n \in 0..15
  PROVE  digits[n + 1] # "@"
  BY DigitsOf

\* The bytes of a key, as digits.
LEMMA EncodeOf ==
  ASSUME NEW key \in Key, NEW digits \in {Lower, Upper}
  PROVE  LET e == EncodeToString(key, digits)
         IN /\ Len(key) = KeyLen /\ Len(e) = 2 * KeyLen
            /\ e = [i \in 1..(2 * KeyLen) |-> e[i]]
            /\ \A i \in 1..(2 * KeyLen) : e[i] # "@"
            /\ \A i \in 1..KeyLen :
                 /\ Nibbles(e[2 * i - 1]) = {key[i] \div 16}
                 /\ Nibbles(e[2 * i]) = {key[i] % 16}
<1> USE KeyLenAssumption
<1> DEFINE e == EncodeToString(key, digits)
<1>1. key \in Seq(0..255) /\ Len(key) = KeyLen
  BY DEF Key
<1>2. e = [i \in 1..(2 * KeyLen) |->
             digits[1 + (IF i % 2 = 1 THEN key[(i + 1) \div 2] \div 16
                                      ELSE key[(i + 1) \div 2] % 16)]]
  BY <1>1 DEF EncodeToString
<1> HIDE DEF e
<1>3. DOMAIN e = 1..(2 * KeyLen) /\ Len(e) = 2 * KeyLen
  BY <1>2
<1>4. ASSUME NEW i \in 1..(2 * KeyLen)
      PROVE  \E n \in 0..15 : e[i] = digits[n + 1]
  <2>1. (i + 1) \div 2 \in 1..KeyLen
    OBVIOUS
  <2>2. key[(i + 1) \div 2] \in 0..255
    BY <2>1 DEF Key
  <2>3. \A b \in 0..255 : b \div 16 \in 0..15 /\ b % 16 \in 0..15
    OBVIOUS
  <2>4. PICK n \in 0..15 :
          n = IF i % 2 = 1 THEN key[(i + 1) \div 2] \div 16
                           ELSE key[(i + 1) \div 2] % 16
    BY <2>2, <2>3
  <2>5. e[i] = digits[1 + n]
    BY <1>2, <2>4
  <2> QED
    BY <2>4, <2>5
<1>5. ASSUME NEW i \in 1..KeyLen
      PROVE  /\ Nibbles(e[2 * i - 1]) = {key[i] \div 16}
             /\ Nibbles(e[2 * i]) = {key[i] % 16}
  <2>1. /\ 2 * i - 1 \in 1..(2 * KeyLen) /\ 2 * i \in 1..(2 * KeyLen)
        /\ (2 * i - 1) % 2 = 1 /\ (2 * i) % 2 # 1
        /\ (2 * i - 1 + 1) \div 2 = i /\ (2 * i + 1) \div 2 = i
    OBVIOUS
  <2>2. key[i] \in 0..255
    BY DEF Key
  <2>3. key[i] \div 16 \in 0..15 /\ key[i] % 16 \in 0..15
    BY <2>2
  <2>4. /\ e[2 * i - 1] = digits[1 + (key[i] \div 16)]
        /\ e[2 * i] = digits[1 + (key[i] % 16)]
    BY <1>2, <2>1
  <2>5. PICK a \in 0..15, b \in 0..15 : a = key[i] \div 16 /\ b = key[i] % 16
    BY <2>3
  <2>6. e[2 * i - 1] = digits[a + 1] /\ e[2 * i] = digits[b + 1]
    BY <2>4, <2>5
  <2> QED
    BY <2>5, <2>6, NibblesOf
<1>6. \A i \in 1..(2 * KeyLen) : e[i] # "@"
  BY <1>4, DigitsNoAt
<1>7. e = [i \in 1..(2 * KeyLen) |-> e[i]]
  BY <1>2
<1> QED
  BY <1>1, <1>3, <1>5, <1>6, <1>7 DEF e

\* Decoding what was encoded gives the key.
LEMMA DecodeEncode ==
  ASSUME NEW key \in Key, NEW digits \in {Lower, Upper}
  PROVE  LET e == EncodeToString(key, digits)
         IN Decodes(e) /\ Copied(DecodeString(e)) = key
<1> USE KeyLenAssumption
<1> DEFINE e == EncodeToString(key, digits)
<1>1. /\ Len(key) = KeyLen /\ Len(e) = 2 * KeyLen
      /\ \A i \in 1..KeyLen : /\ Nibbles(e[2 * i - 1]) = {key[i] \div 16}
                              /\ Nibbles(e[2 * i]) = {key[i] % 16}
  BY EncodeOf
<1> HIDE DEF e
<1>2. Decodes(e)
  <2>1. Len(e) % 2 = 0
    BY <1>1
  <2>2. ASSUME NEW i \in 1..Len(e) PROVE Nibbles(e[i]) # {}
    <3>1. PICK j \in 1..KeyLen : i = 2 * j - 1 \/ i = 2 * j
      <4>1. (i + 1) \div 2 \in 1..KeyLen
        BY <1>1
      <4>2. i = 2 * ((i + 1) \div 2) - 1 \/ i = 2 * ((i + 1) \div 2)
        BY <1>1
      <4> QED
        BY <4>1, <4>2
    <3> QED
      BY <1>1, <3>1
  <2> QED
    BY <2>1, <2>2 DEF Decodes
<1>3. ASSUME NEW n PROVE Max({n}) = n
  BY DEF Max
<1>4. Len(e) \div 2 = KeyLen
  BY <1>1
<1>5. \A i \in 1..KeyLen :
        16 * Max(Nibbles(e[2 * i - 1])) + Max(Nibbles(e[2 * i])) = key[i]
  <2>1. SUFFICES ASSUME NEW i \in 1..KeyLen
                 PROVE  16 * Max(Nibbles(e[2 * i - 1])) + Max(Nibbles(e[2 * i]))
                          = key[i]
    OBVIOUS
  <2>2. /\ Max(Nibbles(e[2 * i - 1])) = key[i] \div 16
        /\ Max(Nibbles(e[2 * i])) = key[i] % 16
    BY <1>1, <1>3
  <2>3. key[i] \in 0..255
    BY DEF Key
  <2> QED
    BY <2>2, <2>3
<1>6. DecodeString(e) = [i \in 1..KeyLen |-> key[i]]
  BY <1>4, <1>5 DEF DecodeString
<1>7. Len(DecodeString(e)) = KeyLen /\ \A i \in 1..KeyLen : DecodeString(e)[i] = key[i]
  BY <1>6
<1>8. Copied(DecodeString(e)) = key
  BY <1>7 DEF Copied, Key
<1> QED
  BY <1>2, <1>8 DEF e

\* The address of a node is parsed to its key, in lower and in upper case.
LEMMA ParseMailAddress ==
  ASSUME NEW key \in Key, NEW digits \in {Lower, Upper}
  PROVE  ParseAddress(MailAddress(key, digits)) = Parsed("key", key)
<1> USE KeyLenAssumption
<1> DEFINE e == EncodeToString(key, digits)
           email == MailAddress(key, digits)
           n == 2 * KeyLen
<1>1. /\ Len(e) = n /\ n \in Nat \ {0, 1} /\ e = [i \in 1..n |-> e[i]]
      /\ \A i \in 1..n : e[i] # "@"
  BY EncodeOf
<1>2. Decodes(e) /\ Copied(DecodeString(e)) = key
  BY DecodeEncode
<1>3. email = e \o <<"@", Domain>>
  BY DEF MailAddress
<1> HIDE DEF e, email, n
<1>4. /\ Len(email) = n + 2
      /\ \A i \in 1..n : email[i] = e[i]
      /\ email[n + 1] = "@" /\ email[n + 2] = Domain
      /\ DOMAIN email = 1..(n + 2)
  BY <1>1, <1>3
<1>5. LastAt(email) = n + 1
  <2> DEFINE ats == {0} \cup {i \in 1..Len(email) : email[i] = "@"}
  <2>1. ats = {0, n + 1}
    BY <1>1, <1>4 DEF Domain
  <2>2. Max(ats) = n + 1
    BY <1>1, <2>1 DEF Max
  <2> QED
    BY <2>2 DEF LastAt
<1>6. SubSeq(email, 1, n) = e
  <2> DEFINE chars == {email[i] : i \in 1..n}
             first == SubSeq(email, 1, n)
  <2>1. /\ first \in Seq(chars) /\ Len(first) = n
        /\ \A i \in 1..n : first[i] = email[i]
    <3>1. \A i \in 1..n : email[i] \in chars
      OBVIOUS
    <3> HIDE DEF chars
    <3>2. /\ first \in Seq(chars)
          /\ Len(first) = IF 1 <= n THEN n - 1 + 1 ELSE 0
          /\ \A i \in 1 .. n - 1 + 1 : first[i] = email[1 + i - 1]
      BY <1>1, <3>1, SubSeqProperties
    <3> HIDE DEF first
    <3> QED
      BY <1>1, <3>2
  <2> HIDE DEF chars, first
  <2>2. first = [i \in 1..n |-> first[i]]
    BY <2>1
  <2> QED
    BY <1>1, <1>4, <2>1, <2>2 DEF first
<1>7. SubSeq(email, n + 2, n + 2) = <<Domain>>
  <2> DEFINE last == SubSeq(email, n + 2, n + 2)
  <2>1. /\ last \in Seq({Domain}) /\ Len(last) = 1
        /\ \A i \in 1..1 : last[i] = email[n + 2 + i - 1]
    <3>1. \A i \in n + 2 .. n + 2 : email[i] \in {Domain}
      BY <1>1, <1>4
    <3>2. n + 2 \in Int /\ n + 2 <= n + 2 /\ n + 2 - (n + 2) + 1 = 1
      BY <1>1
    <3> QED
      BY <3>1, <3>2, SubSeqProperties
  <2> HIDE DEF last
  <2>2. last[1] = Domain
    BY <1>1, <1>4, <2>1
  <2>3. last = <<Domain>>
    BY <2>1, <2>2
  <2> QED
    BY <2>3 DEF last
<1>8. /\ LastAt(email) # 1 /\ LastAt(email) # 0 /\ LastAt(email) > 1
      /\ SubSeq(email, LastAt(email) + 1, Len(email)) = <<Domain>>
      /\ SubSeq(email, 1, LastAt(email) - 1) = e
  <2>1. /\ LastAt(email) + 1 = n + 2 /\ LastAt(email) - 1 = n
        /\ LastAt(email) # 1 /\ LastAt(email) # 0 /\ LastAt(email) > 1
        /\ Len(email) = n + 2
    BY <1>1, <1>4, <1>5
  <2> QED
    BY <1>6, <1>7, <2>1
<1>9. ParseAddress(email) = Parsed("key", Copied(DecodeString(e)))
  BY <1>2, <1>8 DEF ParseAddress
<1> QED
  BY <1>2, <1>9 DEF email

\* With the password, the address that main logged logs in, in either case,
\* and that of another node does not.
THEOREM StartupOwnAddressLogsIn == Spec => []OwnAddressLogsIn
<1>1. TypeOK => OwnAddressLogsIn
  <2>1. SUFFICES ASSUME TypeOK, NEW p \in Procs, NEW key \in Keys,
                        NEW digits \in {Lower, Upper}, NEW typed \in Passwords,
                        proc[p].pc = "serve", ConfigTryPassword(typed)
                 PROVE  Login(p, MailAddress(key, digits), typed)
                          <=> key = proc[p].key
    BY DEF OwnAddressLogsIn
  <2>2. ParseAddress(MailAddress(key, digits)) = Parsed("key", key)
    BY ParseMailAddress, StartupAssumption
  <2> QED
    BY <2>1, <2>2 DEF Login, Parsed
<1> QED
  BY <1>1, StartupTypeOK, PTL

=============================================================================
