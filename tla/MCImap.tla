------------------------------- MODULE MCImap -------------------------------
(***************************************************************************)
(* ImapServer on small instances.                                          *)
(***************************************************************************)
EXTENDS ImapServer, TLC

Cmd(kind, uid, set, op, flags, dest) ==
  [kind |-> kind, uid |-> uid, set |-> set, op |-> op, flags |-> flags,
   dest |-> dest]
From(n, m) == <<[start |-> n, stop |-> m]>>

\* The third mailbox has the name that clients may select without it being
\* there; it is created, renamed, deleted and copied to as any other would be.
Saved == ""
MCNames == {"INBOX", "Outbox", Saved}

\* UID FETCH 1:*, STORE 1 +FLAGS, UID STORE 1 -FLAGS, STORE 1:* FLAGS,
\* COPY 2 and UID MOVE 1:2.
MCCommands ==
  {Cmd("fetch", TRUE, From(1, 0), "add", {}, "INBOX"),
   Cmd("store", FALSE, From(1, 1), "add", {"Deleted"}, "INBOX"),
   Cmd("store", TRUE, From(1, 1), "remove", {"Deleted"}, "INBOX"),
   Cmd("store", FALSE, From(1, 0), "set", {"Seen"}, "INBOX"),
   Cmd("copy", FALSE, From(2, 2), "add", {}, Saved),
   Cmd("move", TRUE, From(1, 2), "add", {}, Saved)}

\* COPY 2 INBOX, on a node that has no other mailboxes.
MCCopy == {Cmd("copy", FALSE, From(2, 2), "add", {}, "INBOX")}

MCFlagLists == {<<"Seen", "Deleted">>}

\* APPEND without flags, or of a mail that has been read.
MCSeen == {<<>>, <<"Seen">>}

Symmetry == Permutations(Messages) \cup Permutations(Sessions)
=============================================================================
