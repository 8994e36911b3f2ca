----------------------------- MODULE HexValues -----------------------------
(***************************************************************************)
(* UUID and SHA512: hexadecimal text of either case, lowered, and the      *)
(* bytes that it stands for.  UUID compares bytes and SHA512 compares the  *)
(* lowered text.  A text is a record: whether its length, and the dashes   *)
(* of a UUID, are right, and its characters less the dashes.               *)
(***************************************************************************)
EXTENDS Integers, Sequences

CONSTANTS
    HexTexts,   \* the strings that are parsed
    ValueBytes, \* bytes of a value: 16 of a UUID, 64 of a SHA512
    MaxValues   \* bounds the objects

Char == 0..255

ASSUME HexAssumption ==
    /\ ValueBytes \in Nat \ {0} /\ MaxValues \in Nat
    /\ HexTexts \subseteq [shaped : BOOLEAN, chars : Seq(Char)]
    /\ \A t \in HexTexts : t.shaped => Len(t.chars) = 2 * ValueBytes

VARIABLES
    uuids,  \* the UUIDs that were constructed
    hashes  \* the SHA512s

hexVars == <<uuids, hashes>>
-----------------------------------------------------------------------------
Code == [zero |-> 48, nine |-> 57, A |-> 65, F |-> 70, a |-> 97, f |-> 102]

isxdigit(c) ==
    c \in Code.zero..Code.nine \/ c \in Code.A..Code.F \/ c \in Code.a..Code.f

is_valid(text) == text.shaped /\ \A n \in 1..Len(text.chars) : isxdigit(text.chars[n])

tolower(c) == IF c \in Code.A..(Code.A + 25) THEN c + 32 ELSE c

(* Fault: the case is kept. *)
to_lower_Kept(chars) == chars

to_lower(chars) == [n \in 1..Len(chars) |-> tolower(chars[n])]

(* Fault: a hash keeps its case. *)
normalized_Kept(chars) == chars

(* The same, done by SHA512 with its check of each character.              *)
normalized(chars) == [n \in 1..Len(chars) |-> tolower(chars[n])]

nibble(c) ==
    IF c \in Code.zero..Code.nine THEN c - Code.zero ELSE tolower(c) - Code.a + 10

hex_pair_to_byte(hi, lo) == (16 * nibble(hi) + nibble(lo)) % 256

parse_bytes(chars) == [n \in 1..ValueBytes |-> hex_pair_to_byte(chars[2 * n - 1], chars[2 * n])]

(* std::from_chars, base 16, of two characters that are digits.            *)
from_chars(hi, lo) == 16 * nibble(hi) + nibble(lo)
-----------------------------------------------------------------------------
HexInit == uuids = <<>> /\ hashes = <<>>

ConstructUUID ==
    \E t \in HexTexts :
        /\ is_valid(t) /\ Len(uuids) < MaxValues
        /\ uuids' = Append(uuids, [text |-> to_lower(t.chars), bytes |-> parse_bytes(to_lower(t.chars))])
        /\ UNCHANGED hashes

ConstructSHA512 ==
    \E t \in HexTexts :
        /\ is_valid(t) /\ Len(hashes) < MaxValues
        /\ hashes' = Append(hashes,
              LET lowered == normalized(t.chars)
              IN  [text |-> lowered,
                   bytes |-> [n \in 1..ValueBytes |-> from_chars(lowered[2 * n - 1], lowered[2 * n])]])
        /\ UNCHANGED uuids

(* A constructor that throws leaves no object. *)
Refuse == (\E t \in HexTexts : ~is_valid(t)) /\ UNCHANGED hexVars

HexNext == ConstructUUID \/ ConstructSHA512 \/ Refuse

HexSpec == HexInit /\ [][HexNext]_hexVars
-----------------------------------------------------------------------------
precedes(p, q) ==
    \E n \in DOMAIN p : p[n] < q[n] /\ \A m \in 1..(n - 1) : p[m] = q[m]

(* operator<=> of each class *)
uuid_less(u, v) == precedes(u.bytes, v.bytes)
hash_less(h, k) == precedes(h.text, k.text)

(* SHA512::matches a digest that was computed elsewhere.                   *)
matches(h, digest) == h.bytes = digest
-----------------------------------------------------------------------------
(* Two hashes are equal, which compares text, just when each matches the   *)
(* digest of the other, which compares bytes, in whatever case they were   *)
(* written; and they are ordered as those digests are.                     *)
HashesCompareAsDigests ==
    \A m, n \in DOMAIN hashes :
        LET h == hashes[m]
            k == hashes[n]
        IN  /\ (h.text = k.text) <=> matches(h, k.bytes)
            /\ hash_less(h, k) <=> precedes(h.bytes, k.bytes)

(* UUIDs are equal when what they return as text is, and they are ordered  *)
(* as that text is, though it is their bytes that are compared.            *)
UUIDsCompareAsText ==
    \A m, n \in DOMAIN uuids :
        LET u == uuids[m]
            v == uuids[n]
        IN  /\ (u.bytes = v.bytes) <=> (u.text = v.text)
            /\ uuid_less(u, v) <=> precedes(u.text, v.text)
=============================================================================
