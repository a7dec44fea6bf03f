------------------------------ MODULE Address ------------------------------
(***************************************************************************)
(* internal/utils/address.go: mail addresses and the keys of nodes.        *)
(*                                                                         *)
(* An address is a sequence of characters, except that the domain is one   *)
(* symbol.  A key is a sequence of KeyLen bytes.                           *)
(***************************************************************************)
EXTENDS Integers, Sequences, FiniteSetsExt

CONSTANT KeyLen  \* ed25519.PublicKeySize, 32

ASSUME KeyLenAssumption == KeyLen \in Nat \ {0}

Domain == "yggmail"
Key == [1..KeyLen -> 0..255]

Lower == <<"0", "1", "2", "3", "4", "5", "6", "7", "8", "9",
           "a", "b", "c", "d", "e", "f">>
Upper == <<"0", "1", "2", "3", "4", "5", "6", "7", "8", "9",
           "A", "B", "C", "D", "E", "F">>

\* The hexadecimal digits of a byte string, and back.
EncodeToString(key, digits) ==
  [i \in 1..(2 * Len(key)) |->
     LET byte == key[(i + 1) \div 2]
     IN digits[1 + (IF i % 2 = 1 THEN byte \div 16 ELSE byte % 16)]]

Nibbles(char) == {n \in 0..15 : char \in {Lower[n + 1], Upper[n + 1]}}
Decodes(text) ==
  Len(text) % 2 = 0 /\ \A i \in 1..Len(text) : Nibbles(text[i]) # {}
DecodeString(text) ==
  [i \in 1..(Len(text) \div 2) |->
     16 * Max(Nibbles(text[2 * i - 1])) + Max(Nibbles(text[2 * i]))]

\* The address of a node, as main logs it.
MailAddress(key, digits) == EncodeToString(key, digits) \o <<"@", Domain>>

Parsed(kind, key) == [kind |-> kind, key |-> key]

\* "copy(ed, pk)" into KeyLen zero bytes: padded, or cut.
Copied(bytes) == [i \in 1..KeyLen |-> IF i <= Len(bytes) THEN bytes[i] ELSE 0]

\* The position of the last "@", or 0.
LastAt(email) == Max({0} \cup {i \in 1..Len(email) : email[i] = "@"})

\* Mutant: the local part is taken up to and including the "@".
ParseAddressWithAt(email) ==
  LET local == SubSeq(email, 1, LastAt(email))
  IN IF Decodes(local) THEN Parsed("key", Copied(DecodeString(local)))
     ELSE Parsed("error", <<>>)

\* The domain alone, without "@", passes the test of the domain, and the
\* slice email[:-1] panics.
ParseAddress(email) ==
  LET at == LastAt(email)
      local == SubSeq(email, 1, at - 1)
  IN CASE at = 1 \/ SubSeq(email, at + 1, Len(email)) # <<Domain>> ->
            Parsed("error", <<>>)
       [] at = 0 -> Parsed("panic", <<>>)
       [] at > 1 /\ ~Decodes(local) -> Parsed("error", <<>>)
       [] OTHER -> Parsed("key", Copied(DecodeString(local)))
=============================================================================
