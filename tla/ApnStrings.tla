------------------------------ MODULE ApnStrings ------------------------------
(***************************************************************************)
(* The string functions of the library, the two ways apn-pusher reads a    *)
(* list of tokens, and the hexadecimal form of a token, as operators.  A C *)
(* string is the sequence of its bytes, each 1 .. 255, without the         *)
(* terminator.                                                             *)
(***************************************************************************)
EXTENDS Integers, Sequences, FiniteSetsExt, SequencesExt

CONSTANT TokenSize  \* APN_TOKEN_BINARY_SIZE: 32

ASSUME TokenSizeAssumption == TokenSize \in Nat \ {0} /\ TokenSize < 65536

Bytes == 0 .. 255

-----------------------------------------------------------------------------
(* UTF-8 *)

\* _apn_seq_octets: the length a lead byte announces, 0 when it is none.
Octets(ch) ==
    CASE ch < 128          -> 1
      [] ch \in 192 .. 223 -> 2
      [] ch \in 224 .. 239 -> 3
      [] ch \in 240 .. 247 -> 4
      [] OTHER             -> 0

\* Mutant: the bytes behind the lead byte are not compared with 0x80.
AnyContinuation == 0 .. 251

\* What the code takes for a byte behind a lead byte; in UTF-8 it is 128 .. 191.
Continuation == 128 .. 251

\* apn_string_is_utf8.  The terminator is read, and is no continuation.
IsUtf8(s) ==
    LET byte(k) == IF k <= Len(s) THEN s[k] ELSE 0
        from[k \in 1 .. Len(s) + 4] ==
            \/ k > Len(s)
            \/ /\ Octets(s[k]) > 0
               /\ \A j \in 1 .. Octets(s[k]) - 1 : byte(k + j) \in Continuation
               /\ from[k + Octets(s[k])]
    IN  from[1]

-----------------------------------------------------------------------------
(* Copies *)

\* What apn_strncpy leaves in a buffer with room for one byte at least: the
\* string, and the bytes written, the terminator included.
Stored(s) == [string |-> s, written |-> Len(s) + 1]

\* Mutant: src_size is the only bound.
CopyCountUnbounded(dst_size, src_size) == src_size

\* One byte less is copied when src_size reaches the size of the buffer; it is
\* src_size that counts even so.
CopyCount(dst_size, src_size) ==
    IF src_size > 0 /\ dst_size <= src_size THEN src_size - 1 ELSE src_size

\* apn_strncpy, to a buffer of a size other than 0
Strncpy(src, dst_size, src_size) ==
    Stored(SubSeq(src, 1, Min({CopyCount(dst_size, src_size), Len(src)})))

\* Mutant: the piece may fill the buffer.
SubstrCountExact(dst_size, count) == count

\* A piece that does not fit in front of the terminator is cut.
SubstrCount(dst_size, count) == IF count >= dst_size - 1 THEN dst_size ELSE count

\* apn_substr: bytes start .. stop - 1 of src, counted from 0
Substr(src, dst_size, start, stop) ==
    Strncpy(SubSeq(src, start + 1, Len(src)), dst_size, SubstrCount(dst_size, stop - start))

\* Mutant: the room left does not shrink with what is there.
StrcatWholeRoom(dst, src, dst_size, src_size) ==
    LET copy == Strncpy(src, dst_size, src_size)
    IN  [string |-> dst \o copy.string, written |-> Len(dst) + copy.written]

\* apn_strcat: behind what is in the buffer
Strcat(dst, src, dst_size, src_size) ==
    LET copy == Strncpy(src, dst_size - Len(dst), src_size)
    IN  [string |-> dst \o copy.string, written |-> Len(dst) + copy.written]

-----------------------------------------------------------------------------
(* Lists of tokens *)

Newline == 10

\* The n-th of the elements of a set of numbers, from the smallest on.
Rank(S, k) == Cardinality({j \in S : j <= k})
Nth(S, n)  == CHOOSE k \in S : Rank(S, k) = n

\* Mutant: the last line needs its newline.
LineEndsTerminated(s) == {k \in 1 .. Len(s) : s[k] = Newline}

\* Where the lines end: at a newline, and at the end of the file when there is
\* none.
LineEnds(s) ==
    {k \in 1 .. Len(s) + 1 : IF k <= Len(s) THEN s[k] = Newline ELSE s[Len(s)] # Newline}

\* Where the n-th line ends, and the one before it, from which p_start counts.
LineEnd(s, n) == IF n = 0 THEN 0 ELSE Nth(LineEnds(s), n)

\* __apn_read_tokens_from_file, for a file that is not empty: every line, be it
\* blank, cut out by apn_substr into a buffer one byte longer.
Lines(s) ==
    [n \in 1 .. Cardinality(LineEnds(s)) |->
        LET start == LineEnd(s, n - 1)
            size  == LineEnd(s, n) - 1 - start
        IN  Substr(SubSeq(s, start + 1, Len(s)), size + 1, 0, size).string]

\* The bytes that begin a word, and the last one of it.
WordStarts(s, delim) ==
    {k \in 1 .. Len(s) : s[k] # delim /\ (k = 1 \/ s[k - 1] = delim)}
WordEnd(s, delim, k) == Max({m \in k .. Len(s) : \A j \in k .. m : s[j] # delim})

\* __apn_split_tokens and apn_strsplit, by way of strtok: the stretches without
\* a delimiter.
Words(s, delim) ==
    [n \in 1 .. Cardinality(WordStarts(s, delim)) |->
        LET start == Nth(WordStarts(s, delim), n)
        IN  SubSeq(s, start, WordEnd(s, delim, start))]

-----------------------------------------------------------------------------
(* Tokens *)

Upper == [d \in 0 .. 15 |-> IF d < 10 THEN 48 + d ELSE 55 + d]
Lower == [d \in 0 .. 15 |-> IF d < 10 THEN 48 + d ELSE 87 + d]

IsHexDigit(ch) == \E d \in 0 .. 15 : ch \in {Upper[d], Lower[d]}

DigitValue(ch) == CHOOSE d \in 0 .. 15 : ch \in {Upper[d], Lower[d]}

\* apn_hex_token_is_valid
IsToken(s) == Len(s) = 2 * TokenSize /\ \A k \in 1 .. Len(s) : IsHexDigit(s[k])

\* Mutant: the digits of a byte are swapped.
HexToBinarySwapped(s) ==
    [k \in 1 .. TokenSize |-> 16 * DigitValue(s[2 * k]) + DigitValue(s[2 * k - 1])]

\* apn_token_hex_to_binary, for a string that is a token
HexToBinary(s) ==
    [k \in 1 .. TokenSize |-> 16 * DigitValue(s[2 * k - 1]) + DigitValue(s[2 * k])]

\* apn_token_binary_to_hex
BinaryToHex(b) ==
    [k \in 1 .. 2 * TokenSize |->
        Upper[IF k % 2 = 1 THEN b[(k + 1) \div 2] \div 16 ELSE b[k \div 2] % 16]]
=============================================================================
