-------------------------------- MODULE MCData --------------------------------
(***************************************************************************)
(* ApnMessage for TLC, and the string functions on every short string over *)
(* an alphabet of bytes they tell apart.  The string is picked before the  *)
(* message is made, and is also passed to it as a token.                   *)
(***************************************************************************)
EXTENDS ApnMessage

CONSTANTS
    Alphabet,   \* the bytes of the strings
    MaxLength   \* of a string

ASSUME DataAssumption == Alphabet \subseteq 1 .. 255 /\ MaxLength \in Nat

VARIABLE text

Strings == UNION {[1 .. n -> Alphabet] : n \in 0 .. MaxLength}

FewDocuments == {<<>>, <<123>>, <<91, 34, 93, 44>>, <<1, 2, 3, 4, 5>>}
OneBinary == {<<169, 15>>}

MCInit == Init /\ text \in Strings

MCNext == Step({text}) /\ text' = text

MCSpec == MCInit /\ [][MCNext]_<<vars, text>>

\* The strings are looked at once each.
Picked == pc = "none"

-----------------------------------------------------------------------------
(* Reference definitions *)

\* The characters of UTF-8, by the table of well-formed byte sequences of the
\* Unicode standard.
Tail80(c, from) == \A k \in from .. Len(c) : c[k] \in 128 .. 191
ProperChar(c) ==
    \/ Len(c) = 1 /\ c[1] < 128
    \/ Len(c) = 2 /\ c[1] \in 194 .. 223 /\ Tail80(c, 2)
    \/ /\ Len(c) = 3 /\ Tail80(c, 3)
       /\ \/ c[1] = 224 /\ c[2] \in 160 .. 191
          \/ c[1] \in (225 .. 239) \ {237} /\ c[2] \in 128 .. 191
          \/ c[1] = 237 /\ c[2] \in 128 .. 159
    \/ /\ Len(c) = 4 /\ Tail80(c, 3)
       /\ \/ c[1] = 240 /\ c[2] \in 144 .. 191
          \/ c[1] \in 241 .. 243 /\ c[2] \in 128 .. 191
          \/ c[1] = 244 /\ c[2] \in 128 .. 143

\* The string can be cut into pieces that are all of one kind: there are places
\* where pieces begin, the end of the string the last, and what lies between two
\* neighbours is one.
CutsInto(s, IsPiece(_)) ==
    \E inner \in SUBSET (2 .. Len(s)) :
        LET cuts == inner \union {1, Len(s) + 1}
        IN  \A a, b \in cuts :
                a < b /\ (\A c \in cuts : c <= a \/ b <= c) => IsPiece(SubSeq(s, a, b - 1))

ProperUtf8(s) == CutsInto(s, ProperChar)

\* What the library takes for a character beside: a lead byte followed by as
\* many bytes as it announces, none of them ASCII or 0xFC and above.
LaxChar(c) ==
    c # <<>> /\ Len(c) = Octets(c[1]) /\ \A k \in 2 .. Len(c) : c[k] \in 128 .. 251

-----------------------------------------------------------------------------
(* Properties *)

\* No proper text is refused by apn_string_is_utf8, and what it accepts beside
\* has at least the right number of bytes behind each lead byte, so that a
\* character is never cut off by the end of the text (apn_strings.c:58-98).
Utf8Judged ==
    Picked => /\ ProperUtf8(text) => IsUtf8(text)
              /\ IsUtf8(text) => CutsInto(text, LaxChar)

\* A copy of at most as many bytes as the buffer has stays in it, and is the
\* beginning of the source; a whole string copied with its length is cut only
\* when its terminator has no room (apn_strings.c:138-167).
CopiesFit ==
    Picked =>
        \A dst_size \in 1 .. MaxLength + 1, src_size \in 0 .. MaxLength + 1 :
            LET copy == Strncpy(text, dst_size, src_size)
            IN  src_size <= dst_size =>
                    /\ copy.written <= dst_size
                    /\ IsPrefix(copy.string, text)
                    /\ Len(text) = src_size /\ src_size < dst_size => copy.string = text

\* apn_substr always stays in the buffer, and cuts out as much of the piece as
\* there is room for (apn_strings.c:125-136).
PiecesFit ==
    Picked =>
        \A dst_size \in 1 .. MaxLength + 1, start, stop \in 0 .. Len(text) :
            LET piece == Substr(text, dst_size, start, stop)
            IN  start <= stop =>
                    /\ piece.written <= dst_size
                    /\ piece.string =
                           SubSeq(text, start + 1, Min({stop, start + dst_size - 1}))

\* Appending the parts of a certificate's name with their lengths gives the
\* whole name as long as it fits, and a part no longer than the room left stays
\* in the buffer (apn_strings.c:169-181; apn_ssl.c:446-465).  A longer part is not
\* spoken of: apn_ssl.c:458 passes the part's length, whatever room is left.
PartsJoined ==
    Picked =>
        \A n \in 0 .. Len(text), dst_size \in 1 .. MaxLength + 1 :
            LET joined == Strcat(SubSeq(text, 1, n), SubSeq(text, n + 1, Len(text)),
                                 dst_size, Len(text) - n)
            IN  n < dst_size =>
                    /\ Len(text) < dst_size => joined.string = text
                    /\ Len(text) - n <= dst_size - n => joined.written <= dst_size

\* The lines of a file but the blank ones.
NotBlank(lines) ==
    LET kept == {n \in 1 .. Len(lines) : lines[n] # <<>>}
    IN  [n \in 1 .. Cardinality(kept) |-> lines[Nth(kept, n)]]

\* A list of tokens means the same in a file and on the command line, but for
\* its empty items, which only the file has (pusher.c:80-142).
ListsAgree ==
    Picked /\ text # <<>> => NotBlank(Lines(text)) = Words(text, Newline)

\* A token's two forms belong together: its bytes read in hexadecimal are the
\* token again, in capitals (apn_tokens.c:32-95).
TokensRoundTrip ==
    Picked /\ IsToken(text) =>
        BinaryToHex(HexToBinary(text)) =
            [k \in 1 .. 2 * TokenSize |-> Upper[DigitValue(text[k])]]
=============================================================================
