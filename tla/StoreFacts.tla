----------------------------- MODULE StoreFacts -----------------------------
(***************************************************************************)
(* Lemmas about the statements of MailStore, which the proofs about its    *)
(* users cite: what keeps the primary key of the mails table.              *)
(***************************************************************************)
EXTENDS MailStore, WellFoundedInduction, TLAPS

\* A row has the columns of the table.
IsRow(r) ==
  /\ r = [mailbox |-> r.mailbox, id |-> r.id, mail |-> r.mail, flags |-> r.flags]
  /\ r.id \in Nat \ {0}

Bounded(T) == \E n \in Nat : \A r \in T : r.id <= n
UniqueKeys(T) == \A r, x \in T : r.mailbox = x.mailbox /\ r.id = x.id => r = x

\* What the table mails can be.
IsMailTable(T) == (\A r \in T : IsRow(r)) /\ Bounded(T) /\ UniqueKeys(T)

-----------------------------------------------------------------------------

\* A bounded non-empty set of numbers has a greatest element, and Max is it.
LEMMA MaxOfBounded ==
  ASSUME NEW S \in SUBSET Nat, S # {},
         NEW n \in Nat, \A x \in S : x <= n
  PROVE  Max(S) \in S /\ \A x \in S : x <= Max(S)
<1> DEFINE U == {k \in Nat : \A x \in S : x <= k}
           R == {p \in Nat \X Nat : p[1] < p[2]}
<1>1. PICK u \in U : \A k \in U : ~(<<k, u>> \in R)
  <2>1. U \subseteq Nat /\ U # {}
    OBVIOUS
  <2>2. IsWellFoundedOn(R, Nat)
    BY NatLessThanWellFounded DEF OpToRel
  <2> HIDE DEF U, R
  <2> QED
    BY <2>1, <2>2, WFMin
<1>2. \A k \in U : u <= k
  <2>1. SUFFICES ASSUME NEW k \in U, k < u PROVE FALSE
    OBVIOUS
  <2>2. <<k, u>> \in Nat \X Nat /\ <<k, u>>[1] < <<k, u>>[2]
    BY <2>1
  <2> QED
    BY <1>1, <2>2
<1>3. u \in S
  <2>1. SUFFICES ASSUME u \notin S PROVE FALSE
    OBVIOUS
  <2>2. \A x \in S : x <= u /\ x # u
    BY <2>1
  <2>3. u - 1 \in U
    <3>1. PICK x : x \in S
      OBVIOUS
    <3>2. x \in Nat /\ u \in Nat /\ x < u
      BY <2>2, <3>1
    <3>3. u - 1 \in Nat
      BY <3>2
    <3>4. \A y \in S : y <= u - 1
      BY <2>2
    <3> QED
      BY <3>3, <3>4
  <2> QED
    BY <2>3, <1>2
<1>4. \E x \in S : \A y \in S : x >= y
  BY <1>3
<1> QED
  BY <1>4 DEF Max

\* The id that MailCreate gives is above those of the mailbox.
LEMMA NextIDIsNew ==
  ASSUME NEW T, \A r \in T : IsRow(r), Bounded(T), NEW box
  PROVE  /\ MailNextID(T, box) \in Nat \ {0}
         /\ \A r \in T : r.mailbox = box => r.id < MailNextID(T, box)
<1> DEFINE S == IDs(T, box)
<1>1. S \subseteq Nat /\ \A r \in T : r.mailbox = box => r.id \in S
  BY DEF IDs, IsRow
<1>2. PICK n \in Nat : \A r \in T : r.id <= n
  BY DEF Bounded
<1>3. \A x \in S : x <= n
  BY <1>2 DEF IDs
<1>4. CASE S = {}
  BY <1>1, <1>4 DEF MailNextID
<1>5. CASE S # {}
  <2> HIDE DEF S
  <2>1. Max(S) \in S /\ \A x \in S : x <= Max(S)
    BY <1>1, <1>3, <1>5, MaxOfBounded
  <2>2. MailNextID(T, box) = Max(S) + 1
    BY <1>5 DEF MailNextID, S
  <2>3. Max(S) \in Nat
    BY <1>1, <2>1
  <2>4. \A r \in T : r.mailbox = box => r.id \in Nat /\ r.id <= Max(S)
    BY <1>1, <2>1
  <2> QED
    BY <2>2, <2>3, <2>4
<1> QED
  BY <1>4, <1>5

\* MailExpunge and MailboxDelete.
LEMMA FewerRows ==
  ASSUME NEW T, IsMailTable(T), NEW U \in SUBSET T
  PROVE  IsMailTable(U)
  BY DEF IsMailTable, Bounded, UniqueKeys

LEMMA CreateKeepsTable ==
  ASSUME NEW T, IsMailTable(T), NEW box, NEW data
  PROVE  IsMailTable(MailCreate(T, box, data))
<1> DEFINE id == MailNextID(T, box)
           new == [mailbox |-> box, id |-> id, mail |-> data, flags |-> {}]
<1>1. id \in Nat \ {0} /\ \A r \in T : r.mailbox = box => r.id < id
  BY NextIDIsNew DEF IsMailTable
<1>2. MailCreate(T, box, data) = T \cup {new}
  BY DEF MailCreate
<1> HIDE DEF id
<1>3. \A r \in T \cup {new} : IsRow(r)
  BY <1>1 DEF IsMailTable, IsRow
<1>4. Bounded(T \cup {new})
  <2>1. PICK n \in Nat : \A r \in T : r.id <= n
    BY DEF IsMailTable, Bounded
  <2>2. \A r \in T \cup {new} : r.id <= n + id
    BY <1>1, <1>3, <2>1 DEF IsRow
  <2> QED
    BY <1>1, <2>2 DEF Bounded
<1>5. UniqueKeys(T \cup {new})
  <2>1. \A r \in T : r.mailbox = box => r.id # id
    BY <1>1, <1>3 DEF IsRow
  <2> QED
    BY <2>1 DEF IsMailTable, UniqueKeys
<1> QED
  BY <1>2, <1>3, <1>4, <1>5 DEF IsMailTable

\* A row with other flags has the key and the mail it had.
LEMMA RowFlags ==
  ASSUME NEW r, IsRow(r), NEW flags
  PROVE  LET x == [r EXCEPT !.flags = flags]
         IN IsRow(x) /\ x.mailbox = r.mailbox /\ x.id = r.id /\ x.mail = r.mail
  BY DEF IsRow

\* A row in another mailbox has the id, the mail and the flags it had.
LEMMA RowMailbox ==
  ASSUME NEW r, IsRow(r), NEW box
  PROVE  LET x == [r EXCEPT !.mailbox = box]
         IN /\ IsRow(x) /\ x.mailbox = box
            /\ x.id = r.id /\ x.mail = r.mail /\ x.flags = r.flags
  BY DEF IsRow

\* MailUpdateFlags leaves the keys and the mails alone.
LEMMA UpdateKeepsRows ==
  ASSUME NEW T, \A r \in T : IsRow(r), NEW box, NEW id, NEW flags
  PROVE  LET U == MailUpdateFlags(T, box, id, flags)
         IN /\ \A x \in U : \E r \in T :
                 x.mailbox = r.mailbox /\ x.id = r.id /\ x.mail = r.mail
            /\ \A r \in T : \E x \in U :
                 x.mailbox = r.mailbox /\ x.id = r.id /\ x.mail = r.mail
<1> DEFINE New(r) == IF r.mailbox = box /\ r.id = id
                     THEN [r EXCEPT !.flags = flags] ELSE r
<1>1. MailUpdateFlags(T, box, id, flags) = {New(r) : r \in T}
  BY DEF MailUpdateFlags
<1>2. \A r \in T :
        New(r).mailbox = r.mailbox /\ New(r).id = r.id /\ New(r).mail = r.mail
  BY RowFlags
<1> HIDE DEF New
<1> QED
  BY <1>1, <1>2

LEMMA UpdateKeepsTable ==
  ASSUME NEW T, IsMailTable(T), NEW box, NEW id, NEW flags
  PROVE  IsMailTable(MailUpdateFlags(T, box, id, flags))
<1> DEFINE New(r) == IF r.mailbox = box /\ r.id = id
                     THEN [r EXCEPT !.flags = flags] ELSE r
           U == {New(r) : r \in T}
<1>1. MailUpdateFlags(T, box, id, flags) = U
  BY DEF MailUpdateFlags
<1>2. \A r \in T : /\ IsRow(New(r)) /\ New(r).mailbox = r.mailbox
                   /\ New(r).id = r.id
  BY RowFlags DEF IsMailTable
<1> HIDE DEF New
<1>3. UniqueKeys(U)
  BY <1>2 DEF IsMailTable, UniqueKeys
<1>4. Bounded(U)
  BY <1>2 DEF IsMailTable, Bounded
<1> QED
  BY <1>1, <1>2, <1>3, <1>4 DEF IsMailTable

\* MailDelete leaves the keys alone.
LEMMA DeleteKeepsTable ==
  ASSUME NEW T, IsMailTable(T), NEW box, NEW id
  PROVE  LET U == MailDelete(T, box, id)
         IN /\ IsMailTable(U)
            /\ \A r \in T : \E x \in U : x.mailbox = r.mailbox /\ x.id = r.id
<1> DEFINE New(r) == IF r.mailbox = box /\ r.id = id
                     THEN [r EXCEPT !.flags = @ \cup {"Deleted"}] ELSE r
           U == {New(r) : r \in T}
<1>1. MailDelete(T, box, id) = U
  BY DEF MailDelete
<1>2. \A r \in T : /\ IsRow(New(r)) /\ New(r).mailbox = r.mailbox
                   /\ New(r).id = r.id
  BY RowFlags DEF IsMailTable
<1> HIDE DEF New
<1>3. UniqueKeys(U)
  BY <1>2 DEF IsMailTable, UniqueKeys
<1>4. Bounded(U)
  BY <1>2 DEF IsMailTable, Bounded
<1> QED
  BY <1>1, <1>2, <1>3, <1>4 DEF IsMailTable

\* MailMove, when the statement does not fail.
LEMMA MoveKeepsTable ==
  ASSUME NEW T, IsMailTable(T), NEW box, NEW id, NEW dest, NEW boxes,
         MailMoveAllowed(T, boxes, box, id, dest)
  PROVE  IsMailTable(MailMove(T, box, id, dest))
<1> DEFINE New(r) == IF r.mailbox = box /\ r.id = id
                     THEN [r EXCEPT !.mailbox = dest] ELSE r
           U == {New(r) : r \in T}
<1>1. MailMove(T, box, id, dest) = U
  BY DEF MailMove
<1>2. \A r \in T :
        /\ IsRow(New(r)) /\ New(r).id = r.id
        /\ r.mailbox = box /\ r.id = id => New(r).mailbox = dest
        /\ ~(r.mailbox = box /\ r.id = id) => New(r) = r
  BY RowMailbox DEF IsMailTable
<1>3. \A r, x \in T :
        r.mailbox = box /\ r.id = id /\ x.mailbox = dest /\ x.id = id => r = x
  BY DEF MailMoveAllowed, MailSelect, IsMailTable, UniqueKeys
<1> HIDE DEF New
<1>4. UniqueKeys(U)
  <2> SUFFICES ASSUME NEW r \in T, NEW x \in T,
                      New(r).mailbox = New(x).mailbox, New(r).id = New(x).id
               PROVE  New(r) = New(x)
    BY DEF UniqueKeys
  <2>1. r.id = x.id
    BY <1>2
  <2>2. r.mailbox = x.mailbox => r = x
    BY <2>1 DEF IsMailTable, UniqueKeys
  <2> QED
    BY <1>2, <1>3, <2>1, <2>2
<1>5. Bounded(U)
  BY <1>2 DEF IsMailTable, Bounded
<1> QED
  BY <1>1, <1>2, <1>4, <1>5 DEF IsMailTable

\* MailboxRename to a name that is free.
LEMMA RenameKeepsTable ==
  ASSUME NEW T, IsMailTable(T), NEW from, NEW to,
         \A r \in T : r.mailbox # to
  PROVE  IsMailTable(MailboxRename(T, from, to))
<1> DEFINE New(r) == IF r.mailbox = from THEN [r EXCEPT !.mailbox = to] ELSE r
           U == {New(r) : r \in T}
<1>1. MailboxRename(T, from, to) = U
  BY DEF MailboxRename
<1>2. \A r \in T :
        /\ IsRow(New(r)) /\ New(r).id = r.id
        /\ r.mailbox = from => New(r).mailbox = to
        /\ r.mailbox # from => New(r) = r
  BY RowMailbox DEF IsMailTable
<1> HIDE DEF New
<1>3. UniqueKeys(U)
  BY <1>2 DEF IsMailTable, UniqueKeys
<1>4. Bounded(U)
  BY <1>2 DEF IsMailTable, Bounded
<1> QED
  BY <1>1, <1>2, <1>3, <1>4 DEF IsMailTable
=============================================================================
