--------------------------- MODULE ResourceNamer ---------------------------
(***************************************************************************)
(* validResourceName (src/controllers/acl_controller.go): the name under   *)
(* which the ACL reconciler stores and looks up the shared address records *)
(* (ACLDNSEntry, TsuruAppAddress, RpaasInstanceAddress).  A key is a       *)
(* sequence of characters drawn from a small alphabet that has one         *)
(* representative of every class the code tells apart: a lowercase        *)
(* letter, a digit, an uppercase letter, '-', '.' and '_'.                 *)
(*                                                                         *)
(* The state machine is the sequence of keys the reconciler names; the     *)
(* invariants are about every name it can produce.                         *)
(***************************************************************************)
EXTENDS Naturals, Sequences, SequencesExt

CONSTANTS
  Lower,      \* lowercase letters and digits: [a-z0-9]
  Other,      \* characters outside [a-z0-9.-], e.g. "A", "_"
  MaxChars,   \* maxChars (253 in the code)
  DigestLen,  \* number of hex characters of the digest kept (10)
  HexChar,    \* a character of the digest's alphabet [0-9a-f]
  MaxKeyLen   \* longest key enumerated

ASSUME HexChar \in Lower
ASSUME DigestLen \in Nat \ {0} /\ MaxChars > DigestLen + 1

Alphabet == Lower \cup Other \cup {"-", "."}

\* Every key the reconciler may name: a DNS host, an app name or
\* "<service>-<instance>" as written by the user.
Keys == BoundedSeq(Alphabet, MaxKeyLen) \ {<<>>}

VARIABLES key, name

vars == <<key, name>>

(***************************************************************************)
(* validation.IsDNS1123Subdomain: at most MaxChars characters matching     *)
(* [a-z0-9]([-a-z0-9]*[a-z0-9])?(\.[a-z0-9]([-a-z0-9]*[a-z0-9])?)* , i.e.  *)
(* only [a-z0-9.-], starting and ending with [a-z0-9], and every '.'       *)
(* between two characters of [a-z0-9].                                     *)
(***************************************************************************)
IsDNS1123Subdomain(s) ==
  /\ 1 <= Len(s) /\ Len(s) <= MaxChars
  /\ \A i \in 1..Len(s) : s[i] \in Lower \cup {"-", "."}
  /\ s[1] \in Lower /\ s[Len(s)] \in Lower
  /\ \A i \in 2..Len(s) - 1 :
        s[i] = "." => s[i - 1] \in Lower /\ s[i + 1] \in Lower

\* regexp "[^a-z0-9.-]" replaced by "-".
ReplaceIllegal(s) ==
  [i \in 1..Len(s) |-> IF s[i] \in Lower \cup {"-", "."} THEN s[i] ELSE "-"]

\* regexp "^[^a-z0-9]+" replaced by "".
RECURSIVE StripLeading(_)
StripLeading(s) ==
  IF s # <<>> /\ Head(s) \notin Lower THEN StripLeading(Tail(s)) ELSE s

\* Mutant: the digest is written in uppercase hex.
DigestUpper(s) == [i \in 1..DigestLen |-> CHOOSE c \in Other : TRUE]

\* sha256String(name)[:10]: only its width and alphabet matter here.
Digest(s) == [i \in 1..DigestLen |-> HexChar]

\* maxChars-11: room left for "-" and the digest.
PrefixBound == MaxChars - (DigestLen + 1)

TruncatedName(s) == StripLeading(ReplaceIllegal(s))

\* Mutant: the prefix is cut one character short (maxChars-12).
validResourceNameOffByOne(s) ==
  IF IsDNS1123Subdomain(s) THEN s
  ELSE LET t == TruncatedName(s) IN
       IF Len(t) < PrefixBound
         THEN t \o <<"-">> \o Digest(s)
         ELSE SubSeq(t, 1, PrefixBound - 1) \o <<"-">> \o Digest(s)

validResourceName(s) ==
  IF IsDNS1123Subdomain(s) THEN s
  ELSE LET t == TruncatedName(s) IN
       IF Len(t) < PrefixBound
         THEN t \o <<"-">> \o Digest(s)
         ELSE SubSeq(t, 1, PrefixBound) \o <<"-">> \o Digest(s)

Init == \E c \in Alphabet : key = <<c>> /\ name = validResourceName(key)

(***************************************************************************)
(* The reconciler names another key (ensureDNSEntry, ensureTsuruAppAddress *)
(* and ensureRpaasInstanceAddress each call validResourceName first).  The *)
(* keys are enumerated by extending the last one by a character or         *)
(* starting a new one, so that every key of Keys is reached.               *)
(***************************************************************************)
Name ==
  \E c \in Alphabet :
     /\ key' \in {<<c>>} \cup (IF Len(key) < MaxKeyLen THEN {Append(key, c)} ELSE {})
     /\ name' = validResourceName(key')

Next == Name

Spec == Init /\ [][Next]_vars

-----------------------------------------------------------------------------
\* Keys are any strings; names use only the characters of object names.
TypeOK == key \in Keys /\ name \in Seq(Lower \cup {"-", "."})

(***************************************************************************)
(* Length contract of validResourceName (spec 8, "monotonicity under       *)
(* truncation"): a name never exceeds MaxChars, and a key whose sanitized  *)
(* form does not fit is cut so that the name is exactly MaxChars long.     *)
(***************************************************************************)
NameLength ==
  /\ Len(name) <= MaxChars
  /\ ~IsDNS1123Subdomain(key) /\ Len(TruncatedName(key)) >= PrefixBound
       => Len(name) = MaxChars

(***************************************************************************)
(* Every name validResourceName returns is a legal object name, so the    *)
(* Create of the address record that uses it can succeed (spec 4.1).       *)
(***************************************************************************)
NameLegal == IsDNS1123Subdomain(name)
=============================================================================
