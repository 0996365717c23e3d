------------------------------ MODULE TextOps -------------------------------
(***************************************************************************)
(* Texts: bytes read from hexadecimal digits and written as them (Cvt),    *)
(* words split at a separator and joined with it, and the assignments of a *)
(* String, which may be null (String).  Digits are told apart and valued   *)
(* without a branch, by what subtractions borrow; blobs, targets, results  *)
(* and nonces all pass there.                                              *)
(***************************************************************************)
EXTENDS Integers, Sequences, FiniteSets, Bitwise

CONSTANTS Codes,   \* texts to read, with room for bytes: <<characters, room>>
          Bytes,   \* bytes to write
          Lists,   \* texts to split
          Sep,     \* the separator
          Words    \* texts of Strings

TextAssumption ==
    /\ \A c \in Codes : c[1] \in Seq(0..255) /\ c[2] \in Nat
    /\ \A b \in Bytes : b \in Seq(0..255)
    /\ \A t \in Lists \cup Words : t \in Seq(1..255)

VARIABLES op,     \* "read", "write", "split", "join", "box"
          text,   \* what is read
          room,   \* bytes there is room for
          pos,    \* characters done
          acc,    \* the upper half of a byte; where a word starts
          odd,    \* state: half a byte was read
          out,    \* what was written
          res,    \* "run", "ok", "bad"
          box,    \* two Strings: m_data, m_size, and the bytes allocated
          meant   \* what was assigned to them

vars == <<op, text, room, pos, acc, odd, out, res, box, meant>>
Rest == <<op, text, room, box, meant>>

Null    == <<>>
Some(s) == <<s>>

UChar(x) == x % 256
\* unsigned int: no more than its second byte is looked at
UInt(x)  == x % 65536

NoBox == [data |-> Null, size |-> 0, bytes |-> 0]

Init == /\ pos = 0 /\ acc = 0 /\ odd = FALSE /\ out = <<>> /\ res = "run"
        /\ box = <<NoBox, NoBox>> /\ meant = <<Null, Null>>
        /\ \/ op = "read"  /\ \E c \in Codes : text = c[1] /\ room = c[2]
           \/ op = "write" /\ text \in Bytes /\ room = 2 * Len(text) + 1
           \/ op = "split" /\ text \in Lists /\ room = 0
           \/ op = "box"   /\ text = <<>>    /\ room = 0

---------------------------------------------------------------------------
(* cvt_hex2bin                                                             *)
Num(c)    == c ^^ 48
Num0(c)   == UChar(UInt(Num(c) - 10) \div 256)
Alpha(c)  == UChar((c & 223) - 55)
Alpha0(c) == UChar((UInt(Alpha(c) - 10) ^^ UInt(Alpha(c) - 16)) \div 256)

IsDigit(c) == (Num0(c) | Alpha0(c)) # 0
Value(c)   == (Num0(c) & Num(c)) | (Alpha0(c) & Alpha(c))

ReadDigit ==
    /\ op = "read" /\ res = "run" /\ pos < Len(text)
    /\ IsDigit(text[pos + 1]) /\ Len(out) < room
    /\ IF odd THEN out' = Append(out, acc | Value(text[pos + 1])) /\ UNCHANGED acc
              ELSE acc' = UChar(Value(text[pos + 1]) * 16) /\ UNCHANGED out
    /\ odd' = ~odd
    /\ pos' = pos + 1
    /\ UNCHANGED <<Rest, res>>

\* The end of the text, a character that is no digit, or no room; an empty text
\* is refused before
ReadEnd ==
    /\ op = "read" /\ res = "run"
    /\ pos < Len(text) => ~IsDigit(text[pos + 1]) \/ Len(out) >= room
    /\ res' = IF odd \/ pos < Len(text) \/ text = <<>> THEN "bad" ELSE "ok"
    /\ UNCHANGED <<Rest, pos, acc, odd, out>>

(* cvt_bin2hex                                                             *)
Written(half) == UChar(87 + half + ((UInt(half - 10) \div 256) & (65535 - 38)))

WriteByte ==
    /\ op = "write" /\ res = "run" /\ pos < Len(text)
    /\ room >= 2 * Len(text)
    /\ out' = out \o <<Written(text[pos + 1] \div 16), Written(text[pos + 1] & 15)>>
    /\ pos' = pos + 1
    /\ UNCHANGED <<Rest, acc, odd, res>>

WriteEnd ==
    /\ op = "write" /\ res = "run" /\ pos = Len(text)
    /\ res' = IF text = <<>> THEN "bad" ELSE "ok"
    /\ UNCHANGED <<Rest, pos, acc, odd, out>>

---------------------------------------------------------------------------
(* String::split: acc is where the word starts                             *)
Word == IF pos > acc THEN <<SubSeq(text, acc + 1, pos)>> ELSE <<>>

SplitAt ==
    /\ op = "split" /\ res = "run" /\ pos < Len(text)
    /\ IF text[pos + 1] = Sep THEN out' = out \o Word /\ acc' = pos + 1
                              ELSE UNCHANGED <<out, acc>>
    /\ pos' = pos + 1
    /\ UNCHANGED <<Rest, odd, res>>

SplitEnd ==
    /\ op = "split" /\ res = "run" /\ pos = Len(text)
    /\ out' = IF text = <<>> THEN <<text>> ELSE out \o Word
    /\ res' = "ok"
    /\ UNCHANGED <<Rest, pos, acc, odd>>

(* String::join of these words: a buffer that is not cleared, the words    *)
(* with a separator behind each that is not the last, and a zero.          *)
Cat(v, n) == LET len[i \in 0..Len(v)] == IF i = 0 THEN 0 ELSE len[i - 1] + Len(v[i]) + 1 IN len[n]

Joined(v) ==
    LET size == Cat(v, Len(v))
        At(i) == CHOOSE k \in 1..Len(v) : Cat(v, k - 1) < i /\ i <= Cat(v, k)
        Buf(i) == CASE i = size -> 0
                    [] i < size /\ i < Cat(v, At(i)) -> v[At(i)][i - Cat(v, At(i) - 1)]
                    [] i < size /\ i = Cat(v, At(i)) -> Sep
    IN  [i \in 1..size |-> Buf(i)]

\* String(char *): up to the first zero
StrLen(buf) == CHOOSE n \in 0..Len(buf) : buf[n + 1] = 0 /\ \A i \in 1..n : buf[i] # 0
Join(v) == IF v = <<>> THEN <<>> ELSE SubSeq(Joined(v), 1, StrLen(Joined(v)))

---------------------------------------------------------------------------
(* The assignments of a String                                             *)
New(s) == [data |-> Some(s), size |-> Len(s), bytes |-> Len(s) + 1]

Assign(x, b, m) == /\ op = "box"
                   /\ box' = [box EXCEPT ![x] = b]
                   /\ meant' = [meant EXCEPT ![x] = m]
                   /\ UNCHANGED <<op, text, room, pos, acc, odd, out, res>>

\* From characters, or none
CopyChars(x, v) == Assign(x, IF v = Null THEN NoBox ELSE New(v[1]), v)

\* From a document: an empty string is read as none
FromJSON(x, s) == Assign(x, IF s = <<>> THEN NoBox ELSE New(s), IF s = <<>> THEN Null ELSE Some(s))

\* From the other one; of the same length, into the bytes there are
Copied(old, other) ==
    IF old.size > 0 /\ old.size = other.size THEN [old EXCEPT !.data = other.data]
    ELSE IF other.data = Null THEN NoBox ELSE New(other.data[1])

CopyString(x, y) == x # y /\ Assign(x, Copied(box[x], box[y]), meant[y])

MoveString(x, y) ==
    /\ op = "box" /\ x # y
    /\ box' = [box EXCEPT ![x] = box[y], ![y] = NoBox]
    /\ meant' = [meant EXCEPT ![x] = meant[y], ![y] = Null]
    /\ UNCHANGED <<op, text, room, pos, acc, odd, out, res>>

\* String::isEqual
IsEqual(a, b) == a.size = b.size /\ (a.data = Null <=> b.data = Null) /\ a.data = b.data

Next == \/ ReadDigit \/ ReadEnd \/ WriteByte \/ WriteEnd \/ SplitAt \/ SplitEnd
        \/ \E x, y \in {1, 2} : \/ CopyString(x, y) \/ MoveString(x, y)
                                \/ \E w \in Words : CopyChars(x, Some(w)) \/ FromJSON(x, w)
                                \/ CopyChars(x, Null)

Spec == Init /\ [][Next]_vars

---------------------------------------------------------------------------
TypeOK == /\ op \in {"read", "write", "split", "box"} /\ res \in {"run", "ok", "bad"}
          /\ room \in Nat /\ pos \in 0..Len(text) /\ acc \in Nat /\ odd \in BOOLEAN
          /\ Len(out) <= Len(text) * 2 + 1

Digits == (48..57) \cup (65..70) \cup (97..102)
Worth(c) == CASE c \in 48..57 -> c - 48 [] c \in 65..70 -> c - 55 [] c \in 97..102 -> c - 87

(* A text is read if and only if it is pairs of digits for which there is  *)
(* room, as what they stand for, and nothing else is ever written.         *)
ReadExact ==
    op = "read" =>
      /\ \A i \in DOMAIN out : /\ {text[2 * i - 1], text[2 * i]} \subseteq Digits
                               /\ out[i] = 16 * Worth(text[2 * i - 1]) + Worth(text[2 * i])
      /\ res # "run" =>
           (res = "ok" <=> /\ text # <<>> /\ 2 * Len(out) = Len(text)
                           /\ \A i \in DOMAIN text : text[i] \in Digits)
      /\ res = "bad" => \/ text = <<>> \/ Len(text) % 2 = 1 \/ room < Len(text) \div 2
                        \/ \E i \in DOMAIN text : text[i] \notin Digits

(* Bytes are written as the small digits that are read as them.            *)
WriteExact ==
    op = "write" => \A i \in 1..pos :
                      /\ {out[2 * i - 1], out[2 * i]} \subseteq Digits \ (65..70)
                      /\ text[i] = 16 * Worth(out[2 * i - 1]) + Worth(out[2 * i])

(* The words of a text are the runs between its separators, in order, and  *)
(* splitting what they are joined to gives the same words.                 *)
Runs == {<<a, b>> \in (1..Len(text)) \X (1..Len(text)) :
           /\ a <= b /\ \A i \in a..b : text[i] # Sep
           /\ a > 1 => text[a - 1] = Sep
           /\ b < Len(text) => text[b + 1] = Sep}

SplitExact ==
    op = "split" /\ res = "ok" /\ text # <<>> =>
      /\ Len(out) = Cardinality(Runs)
      /\ \A r \in Runs : out[Cardinality({q \in Runs : q[1] <= r[1]})] = SubSeq(text, r[1], r[2])
      /\ LET joined == Join(out)
         IN  /\ Len(joined) <= Len(text)
             /\ joined = text <=> (Len(joined) = Len(text))
             /\ \A i \in DOMAIN joined : joined[i] = Sep =>
                  /\ i > 1 /\ i < Len(joined)
                  /\ joined[i - 1] # Sep
             /\ Cardinality({i \in DOMAIN joined : joined[i] = Sep}) = (IF out = <<>> THEN 0 ELSE Len(out) - 1)

(* A String holds what was assigned to it last, in bytes enough for it and *)
(* its end, and two are equal when that is the same: none is not empty.    *)
BoxesHold ==
    /\ \A x \in {1, 2} : /\ box[x].data = meant[x]
                         /\ box[x].data = Null => box[x].size = 0
                         /\ box[x].data # Null => /\ box[x].size = Len(box[x].data[1])
                                                  /\ box[x].bytes > box[x].size
    /\ IsEqual(box[1], box[2]) <=> meant[1] = meant[2]
=============================================================================
