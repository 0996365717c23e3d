--------------------------- MODULE WalletAddress ---------------------------
(***************************************************************************)
(* How the text of a wallet becomes its keys                               *)
(* (base/tools/cryptonote/WalletAddress.cpp, decode): blocks of characters *)
(* are numbers in base 58 that give eight bytes each, the last one fewer;  *)
(* the bytes are a tag, the keys and a checksum.  An object may be given   *)
(* one text after another.  The bases and the lengths are parameters.      *)
(***************************************************************************)
EXTENDS Integers, SequencesExt

CONSTANTS Alphabet,     \* digits, 58
          Bytes,        \* values of a byte, 256
          Sizes,        \* block_sizes: Sizes[b + 1] characters for b bytes
          MinSize, MaxSize, MinData,
          KeyBytes,     \* of the two keys together, 64
          Sum(_),       \* the checksum of bytes, one byte here
          Texts, Olds   \* texts that are decoded, objects that are given them

Word == Bytes ^ (Len(Sizes) - 1)      \* 2^64
Full == Sizes[Len(Sizes)]

AddressAssumption ==
    /\ Alphabet \in Nat \ {0} /\ Bytes \in Nat \ {0, 1}
    /\ \A b \in DOMAIN Sizes : Alphabet ^ Sizes[b] >= Bytes ^ (b - 1)      \* the bytes fit
    /\ Alphabet ^ (Full - 1) < Word
    /\ MinData > KeyBytes + 1

VARIABLES obj,        \* tag, keys, text; the tag is 0 until a wallet is read
          prefix,     \* of Townforge: "none", "known", "unknown"
          text,       \* digits; what is no digit is -1
          block, j,   \* the block, the character in it, from its end
          num, order, \* of uint64_t
          data,       \* the bytes so far
          said        \* what decode returned

vars == <<obj, prefix, text, block, j, num, order, data, said>>

FullBlocks == Len(text) \div Full
LastSize == Len(text) % Full
\* last_block_size_index, or -1
LastBytes == IF \E b \in DOMAIN Sizes : Sizes[b] = LastSize
             THEN (CHOOSE b \in DOMAIN Sizes : Sizes[b] = LastSize) - 1 ELSE -1
BlockSize(i) == IF i < FullBlocks THEN Full ELSE LastSize
BlockBytes(i) == IF i < FullBlocks THEN Len(Sizes) - 1 ELSE LastBytes
DataSize == FullBlocks * (Len(Sizes) - 1) + LastBytes

Init ==
    /\ text \in Texts /\ obj \in Olds /\ prefix \in {"none", "known", "unknown"}
    /\ block = 0 /\ j = BlockSize(0) /\ num = 0 /\ order = 1
    /\ data = <<>> /\ said = "nothing"

Says(what) == said' = what
Running == said = "nothing"
Same == UNCHANGED <<prefix, text>>

\* What is refused before a character is read; the object stays as it is
Unfit ==
    \/ prefix = "unknown"
    \/ Len(text) \notin MinSize..MaxSize
    \/ LastBytes < 0
    \/ DataSize < MinData

Refuse ==
    /\ Running /\ Unfit
    /\ Says("refused")
    /\ UNCHANGED <<obj, block, j, num, order, data>> /\ Same

\* A block's characters are read from its last to its first
Reading == Running /\ ~Unfit /\ j > 0
Read == Running /\ ~Unfit /\ j = 0
At == block * Full + j

\* (tmp < num) || hi
Overflow(sum, product) == product >= Word \/ sum % Word < num

\* A character; after the first of a block its bytes, and the next block
Character ==
    /\ Reading
    /\ LET digit == text[At]
           product == order * digit
           sum == (product % Word) + num
           n == BlockBytes(block)
       IN IF digit < 0 \/ Overflow(sum, product)
          THEN Says("refused") /\ UNCHANGED <<block, j, num, order, data>>
          ELSE /\ said' = said
               /\ IF j > 1
                  THEN /\ j' = j - 1
                       /\ num' = sum % Word /\ order' = (order * Alphabet) % Word
                       /\ UNCHANGED <<block, data>>
                  ELSE /\ j' = IF block < FullBlocks THEN BlockSize(block + 1) ELSE 0
                       /\ num' = 0 /\ order' = 1
                       /\ block' = block + 1
                       /\ data' = data \o [k \in 1..n |-> ((sum % Word) \div Bytes ^ (n - k)) % Bytes]
    /\ UNCHANGED obj /\ Same

\* getVarint: the bytes up to the first that is below a half
TagLength == CHOOSE n \in 1..Len(data) : data[n] < Bytes \div 2 /\ \A k \in 1..(n - 1) : data[k] >= Bytes \div 2
TagEnds == \E n \in DOMAIN data : data[n] < Bytes \div 2
Tag == FoldRight(LAMBDA byte, tag: tag * (Bytes \div 2) + (byte % (Bytes \div 2)), SubSeq(data, 1, TagLength), 0)

\* The checksum is the last byte: skip takes remaining() - 1 beyond the end as well
\* as before it, for the sum wraps
Checksum == data[Len(data)] = Sum(SubSeq(data, 1, Len(data) - 1))

Readable == TagEnds /\ TagLength + KeyBytes <= Len(data)

Keys == SubSeq(data, TagLength + 1, TagLength + KeyBytes)

\* The tag and the keys are read into the object before the checksum is known
Finish ==
    /\ Read
    /\ LET read == IF Readable
                   THEN [obj EXCEPT !.tag = Tag, !.keys = Keys]
                   ELSE obj
       IN IF Readable /\ Checksum
          THEN /\ obj' = [read EXCEPT !.text = text, !.tag = IF prefix = "known" THEN Bytes ELSE @]
               /\ Says("accepted")
          ELSE /\ obj' = [read EXCEPT !.tag = 0]
               /\ Says("refused")
    /\ UNCHANGED <<block, j, num, order, data>> /\ Same

Next == Refuse \/ Character \/ Finish
Spec == Init /\ [][Next]_vars

-----------------------------------------------------------------------------
IsValid == obj.tag > 0 /\ Len(obj.text) >= MinSize
TypeOK ==
    /\ obj.tag \in 0..Word /\ obj.keys \in Seq(0..(Bytes - 1)) /\ Len(obj.keys) \in {0, KeyBytes}
    /\ num \in 0..(Word - 1) /\ order \in 0..(Word - 1)
    /\ data \in Seq(0..(Bytes - 1))
    /\ said \in {"nothing", "accepted", "refused"}

\* The text of bytes as wallets write it: the reference, by division
Digits(value, n) == [k \in 1..n |-> (value \div Alphabet ^ (n - k)) % Alphabet]
Value(bytes) == FoldLeft(LAMBDA v, b: v * Bytes + b, 0, bytes)
Encode(bytes) ==
    LET per == Len(Sizes) - 1
        full == Len(bytes) \div per
        Block(i) == LET b == SubSeq(bytes, i * per + 1, (i + 1) * per)
                    IN IF i < full THEN Digits(Value(b), Full)
                       ELSE LET rest == SubSeq(bytes, full * per + 1, Len(bytes))
                            IN Digits(Value(rest), Sizes[Len(rest) + 1])
    IN FoldLeft(LAMBDA t, i: t \o Block(i), <<>>, [k \in 1..(full + 1) |-> k - 1])

\* The exact value of a block of the text
Exact(i) == FoldLeft(LAMBDA v, d: v * Alphabet + d, 0, SubSeq(text, i * Full + 1, i * Full + BlockSize(i)))

\* All the bytes announced are there when the text has been read
DataWhole == Read => Len(data) = DataSize

\* A wallet that is accepted is the one whose text this is: its bytes, written
\* again, are the text, but for a last block above what its bytes hold, whose
\* excess is dropped
AcceptedIsWritten ==
    said = "accepted" =>
        \/ Encode(data) = text
        \/ /\ SubSeq(Encode(data), 1, FullBlocks * Full) = SubSeq(text, 1, FullBlocks * Full)
           /\ Exact(FullBlocks) >= Bytes ^ LastBytes

\* Every text that is the writing of bytes with their checksum is accepted
WrittenIsAccepted ==
    said = "refused" /\ ~Unfit /\ (\A k \in DOMAIN text : text[k] >= 0)
        => \/ \E i \in 0..(FullBlocks - 1) : Exact(i) >= Word
           \/ Len(data) = DataSize /\ (~Readable \/ data[DataSize] # Sum(SubSeq(data, 1, DataSize - 1)))

\* A refused text leaves no valid wallet in an object that had none; one that
\* had a wallet may keep it, for what is refused early leaves it alone
RefusedNotValid == said = "refused" => ~IsValid \/ obj \in Olds

=============================================================================
