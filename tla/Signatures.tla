----------------------------- MODULE Signatures -----------------------------
(***************************************************************************)
(* The keys and the signature of a block that its miner signs              *)
(* (Signatures.cpp): from the wallet's secret key to the pair of keys of   *)
(* one block, made by the proxy (Job::setSpendSecretKey and                *)
(* generateSignatureData), and from that to a signature and its check.     *)
(*                                                                         *)
(* A point is its multiple of the base point, so numbers modulo the order  *)
(* L stand for points as for scalars; how multiples are computed is in     *)
(* EdwardsOps, and how remainders are in ScalarOps.  A hash is a function  *)
(* of which a value is made up when it is asked for first.                 *)
(***************************************************************************)
EXTENDS Integers, Sequences, FiniteSets

CONSTANTS L,         \* the order, a prime
          Secrets,   \* bound: secret keys in the configuration, remainders or not
          Stale,     \* bound: what r may be where the signature is going to be written
          Group,     \* numbers that one byte of an index holds: 128
          Width,     \* an index is less than this: 2^64
          TextRoom   \* bytes there are for it: 10

Scalar == 0..(L - 1)
SignaturesAssumption ==
  /\ L \in Nat /\ L > 2 /\ \A x \in 2..(L - 1) : L % x # 0
  /\ Secrets \subseteq Nat /\ Stale \subseteq Scalar /\ 0 \in Stale
  /\ {Group, Width, TextRoom} \subseteq Nat /\ Group > 1 /\ Width <= Group ^ TextRoom

VARIABLES pc,
          spend, view,    \* the wallet's secret keys
          tx,             \* the transaction's secret key
          index,          \* which of its outputs
          hs,             \* derivation_to_scalar, as far as it was asked for
          ephPub, ephSec, \* the pair of keys of the block, public and secret
          ch,             \* the hash of what is signed, by the commitment
          k, c, r,        \* random scalar, and the signature
          accepted

vars == <<pc, spend, view, tx, index, hs, ephPub, ephSec, ch, k, c, r, accepted>>

---------------------------------------------------------------------------

(* An index in groups of seven bits, each but the last one marked.         *)
Varint(x) == LET t[n \in 0..x] == IF n < Group THEN <<n>> ELSE <<Group + (n % Group)>> \o t[n \div Group] IN t[x]

(* sc_check: the order itself gets through (ScalarOps).                    *)
Check(s) == s <= L

(* sc_isnonzero: of the bytes as they are; the order is not zero to it.    *)
IsNonZero(s) == s # 0

Multiple(s) == s % L                    \* of the base point
Times(s, point) == (s * point) % L

Derivation(point, secret) == Times(8, Times(secret, point))

(* The hash of a derivation and an index, made up if there is none.        *)
Hashes(h, x, v) == IF x \in DOMAIN h THEN h[x] = v ELSE v \in Scalar
Known(h, x, v)  == [y \in DOMAIN h \cup {x} |-> IF y = x THEN v ELSE h[y]]

(* derive_public_key: the wallet's public key and a multiple.              *)
PublicOf(v) == (Multiple(spend) + Multiple(v)) % L

(* derive_secret_key: sc_add.                                              *)
SecretOf(v) == (spend + v) % L

---------------------------------------------------------------------------
Init == /\ pc = "config" /\ spend \in Secrets /\ index \in 0..(Width - 1)
        /\ view = 0 /\ tx = 0 /\ hs = <<>> /\ ephPub = 0 /\ ephSec = 0 /\ ch = <<>>
        /\ k = 0 /\ c = 0 /\ r \in Stale /\ accepted = FALSE

(* Job::setSpendSecretKey, after the daemon client has checked the key.    *)
SetSpendSecretKey ==
    /\ pc = "config"
    /\ IF Check(spend) THEN view' \in Scalar /\ pc' = "tx" ELSE pc' = "refused" /\ UNCHANGED view
    /\ UNCHANGED <<spend, tx, index, hs, ephPub, ephSec, ch, k, c, r, accepted>>

(* Job::generateSignatureData: keys of the transaction, the block's public *)
(* key as its sender finds it, and its secret key as its receiver does.    *)
GenerateKeys == /\ pc = "tx" /\ pc' = "public" /\ tx' \in Scalar
                /\ UNCHANGED <<spend, view, index, hs, ephPub, ephSec, ch, k, c, r, accepted>>

DerivePublic == /\ pc = "public" /\ pc' = "secret"
                /\ \E v \in Scalar :
                     LET x == <<Derivation(Multiple(view), tx), Varint(index)>>
                     IN  Hashes(hs, x, v) /\ hs' = Known(hs, x, v) /\ ephPub' = PublicOf(v)
                /\ UNCHANGED <<spend, view, tx, index, ephSec, ch, k, c, r, accepted>>

DeriveSecret == /\ pc = "secret" /\ pc' = "sign"
                /\ \E v \in Scalar :
                     LET x == <<Times(8, Times(view, Multiple(tx))), Varint(index)>>
                     IN  Hashes(hs, x, v) /\ hs' = Known(hs, x, v) /\ ephSec' = SecretOf(v)
                /\ UNCHANGED <<spend, view, tx, index, ephPub, ch, k, c, r, accepted>>

---------------------------------------------------------------------------

Again(s) == ~IsNonZero(s)

(* generate_signature, one round of its loop: if the hash is zero there is *)
(* no response, and what r holds says whether there is another round.      *)
Sign == /\ pc = "sign"
        /\ \E x, h \in Scalar :
             /\ Hashes(ch, Multiple(x), h) /\ ch' = Known(ch, Multiple(x), h)
             /\ k' = x /\ c' = h
             /\ r' = (IF ~IsNonZero(h) THEN r ELSE (x - h * ephSec) % L)
        /\ pc' = (IF Again(r') THEN "sign" ELSE "signed")
        /\ UNCHANGED <<spend, view, tx, index, hs, ephPub, ephSec, accepted>>

\* bug: the scalars change places
CommitmentSwapped(x, y) == (Times(y, ephPub) + Multiple(x)) % L

(* ge_double_scalarmult_base_vartime.                                      *)
Commitment(x, y) == (Times(x, ephPub) + Multiple(y)) % L

(* check_signature: the commitment is found from the signature, it must    *)
(* not be the neutral point, and its hash is compared.                     *)
CheckSignature ==
    /\ pc = "signed" /\ pc' = "checked"
    /\ IF ~Check(c) \/ ~Check(r) \/ ~IsNonZero(c) \/ Commitment(c, r) = 0 THEN accepted' = FALSE /\ UNCHANGED ch
       ELSE \E h \in Scalar : /\ Hashes(ch, Commitment(c, r), h) /\ ch' = Known(ch, Commitment(c, r), h)
                              /\ accepted' = ~IsNonZero((h - c) % L)
    /\ UNCHANGED <<spend, view, tx, index, hs, ephPub, ephSec, k, c, r>>

Ended == pc \in {"checked", "refused"} /\ UNCHANGED vars

Next == SetSpendSecretKey \/ GenerateKeys \/ DerivePublic \/ DeriveSecret \/ Sign \/ CheckSignature \/ Ended

Spec == Init /\ [][Next]_vars

---------------------------------------------------------------------------
TypeOK == /\ pc \in {"config", "tx", "public", "secret", "sign", "signed", "checked", "refused"}
          /\ spend \in Secrets /\ {view, tx, ephPub, ephSec, k, c, r} \subseteq Scalar
          /\ index \in 0..(Width - 1) /\ accepted \in BOOLEAN
          /\ DOMAIN ch \subseteq Scalar /\ \A x \in DOMAIN ch : ch[x] \in Scalar
          /\ Cardinality(DOMAIN hs) <= 1

(* The keys of a block belong together, though the public one is found     *)
(* with the sender's secret and the other with the receiver's.             *)
KeysBelong == pc \in {"sign", "signed", "checked"} => ephPub = Multiple(ephSec)

(* What was signed is accepted, unless the random scalar was zero or the   *)
(* hash was (which the code leaves to chance).                             *)
SignedAccepted == pc = "checked" => (accepted <=> k # 0 /\ c # 0)

(* A signature never gives its secret key away by a response of zero.      *)
ResponseGiven == pc \in {"signed", "checked"} => r # 0

(* Two indices never have the same text, and each fits the room for it.    *)
IndexText == /\ Len(Varint(index)) <= TextRoom
             /\ \A other \in 0..(Width - 1) : Varint(other) = Varint(index) => other = index
             /\ \A other \in 0..(Width - 1) : \A n \in 1..(Len(Varint(other)) - 1) :
                  SubSeq(Varint(other), 1, n) # Varint(index)
=============================================================================
