------------------------------ MODULE ApnMessage ------------------------------
(***************************************************************************)
(* The one binary message all attempts of apn_send share: its bytes, made  *)
(* from a JSON document, and the two places in them, computed beside,      *)
(* where id and token of every notification are stored.                    *)
(***************************************************************************)
EXTENDS ApnStrings

CONSTANTS
    MaxPayload,  \* APN_PAYLOAD_MAX_SIZE: 2048
    Documents,   \* JSON documents
    Expiries, Priorities,
    Ids,         \* indices of tokens
    Texts,       \* strings passed as tokens
    Binaries     \* binary tokens

ASSUME MessageAssumption ==
    /\ MaxPayload \in Nat /\ MaxPayload < 65536
    /\ Documents \subseteq Seq(Bytes)
    /\ Expiries \subseteq Nat /\ Priorities \subseteq Bytes
    /\ Ids \subseteq Nat
    /\ Texts \subseteq Seq(1 .. 255)
    /\ Binaries \subseteq [1 .. TokenSize -> Bytes]

VARIABLES
    pc,         \* "none", "ready", "refused" or "freed"
    message,    \* the bytes
    tokenHex,   \* token_hex, "null" or a string
    source,     \* history: document, expiry and priority of the message
    id          \* history: the id last stored

vars == <<pc, message, tokenHex, source, id>>

\* A byte of the message that nobody has written.
Unwritten == 256

NoToken == [string |-> <<>>, set |-> FALSE]

TypeOK ==
    /\ pc \in {"none", "ready", "refused", "freed"}
    /\ message \in Seq(Bytes \union {Unwritten})
    /\ tokenHex \in [string : Seq(1 .. 255), set : BOOLEAN]
    /\ source \in [json : Seq(Bytes), expiry : Nat, priority : Bytes]
    /\ id \in Nat

NoSource == [json |-> <<>>, expiry |-> 0, priority |-> 0]

Init ==
    /\ pc = "none" /\ message = <<>> /\ tokenHex = NoToken
    /\ source = NoSource /\ id = 0

-----------------------------------------------------------------------------
(* The layout *)

\* What a byte counts for, by the number of bytes from it to the last one.
Weight == <<1, 256, 65536, 16777216>>

\* n in network order, in width bytes: htons and htonl with their cast.
Network(n, width) == [k \in 1 .. width |-> (n \div Weight[width - k + 1]) % 256]

\* An item of a frame: number, size, data.
Item(number, data) == <<number>> \o Network(Len(data), 2) \o data

\* The frame after its command and size bytes.
Frame(src) ==
    Item(1, [k \in 1 .. TokenSize |-> Unwritten])
    \o Item(2, src.json)
    \o Item(3, Network(0, 4))
    \o Item(4, Network(src.expiry, 4))
    \o Item(5, <<src.priority>>)

\* frame_size, which is also what is allocated
FrameSize(jsonSize) == 3 * 5 + TokenSize + jsonSize + 4 + 4 + 1

\* token_position, counted from the start of the message
TokenPosition == 1 + 4 + 3

\* Mutant: one header is counted.
IdPositionShort(jsonSize) == TokenPosition + TokenSize + 3 + jsonSize

\* id_position
IdPosition(jsonSize) == TokenPosition + TokenSize + 3 * 2 + jsonSize

\* memcpy of data to a place in the message
Store(m, position, data) ==
    [k \in 1 .. Len(m) |->
        IF k - position \in 1 .. Len(data) THEN data[k - position] ELSE m[k]]

-----------------------------------------------------------------------------
(* The functions *)

\* apn_create_binary_message
Create(json, expiry, priority) ==
    /\ pc = "none"
    /\ \/ /\ Len(json) > MaxPayload
          /\ pc' = "refused"
          /\ UNCHANGED <<message, source>>
       \/ /\ Len(json) <= MaxPayload
          /\ pc' = "ready"
          /\ source' = [json |-> json, expiry |-> expiry, priority |-> priority]
          /\ message' = <<2>> \o Network(FrameSize(Len(json)), 4) \o Frame(source')
    /\ UNCHANGED <<tokenHex, id>>

\* apn_binary_message_set_id
SetId(n) ==
    /\ pc = "ready"
    /\ message' = Store(message, IdPosition(Len(source.json)), Network(n, 4))
    /\ id' = n
    /\ UNCHANGED <<pc, tokenHex, source>>

\* __apn_binary_message_set_token: token and hexadecimal form
SetToken(binary, hex) ==
    /\ message' = Store(message, TokenPosition, binary)
    /\ tokenHex' = [string |-> hex, set |-> TRUE]
    /\ UNCHANGED <<pc, source, id>>

\* apn_binary_message_set_token_hex.  The conversion comes before the check; of
\* a string that is no token its result is thrown away.  That it reads behind the
\* end of a string shorter than a token (apn_tokens.c:44-45) is left out: the
\* strings offered are taken to lie in readable memory.
SetTokenHex(s) ==
    /\ pc = "ready"
    /\ \/ IsToken(s) /\ SetToken(HexToBinary(s), s)
       \/ ~IsToken(s) /\ UNCHANGED vars

\* apn_binary_message_set_token
SetTokenBinary(binary) ==
    /\ pc = "ready"
    /\ SetToken(binary, BinaryToHex(binary))

\* apn_binary_message_free
Free ==
    /\ pc = "ready"
    /\ pc' = "freed"
    /\ UNCHANGED <<message, tokenHex, source, id>>

Terminated == pc \in {"refused", "freed"} /\ UNCHANGED vars

\* One call, with one of these strings where a token is asked for.
Step(strings) ==
    \/ \E json \in Documents, expiry \in Expiries, priority \in Priorities :
           Create(json, expiry, priority)
    \/ \E n \in Ids : SetId(n)
    \/ \E s \in strings : SetTokenHex(s)
    \/ \E binary \in Binaries : SetTokenBinary(binary)
    \/ Free \/ Terminated

Next == Step(Texts)

Spec == Init /\ [][Next]_vars

-----------------------------------------------------------------------------
(* Properties *)

\* The gateway's reading of a frame (external): an item is as long as its header
\* says, and the next one follows it.
ByteAt(m, k) == IF k \in 1 .. Len(m) THEN m[k] ELSE Unwritten
SizeAt(m, k) == 256 * ByteAt(m, k + 1) + ByteAt(m, k + 2)
ItemAt(m, k) == [number |-> ByteAt(m, k),
                 data   |-> [j \in 1 .. SizeAt(m, k) |-> ByteAt(m, k + 2 + j)]]
After(m, k)  == k + 3 + SizeAt(m, k)
Parsed(m) ==
    LET second == After(m, 6)
        third  == After(m, second)
        fourth == After(m, third)
        fifth  == After(m, fourth)
    IN  [items |-> <<ItemAt(m, 6), ItemAt(m, second), ItemAt(m, third),
                     ItemAt(m, fourth), ItemAt(m, fifth)>>,
         size  |-> After(m, fifth) - 1]

\* The token in the message: the one whose hexadecimal form it keeps.
StoredToken == IF tokenHex.set THEN HexToBinary(tokenHex.string)
               ELSE [k \in 1 .. TokenSize |-> Unwritten]

\* The two places are those of the items' data, however long the document is.
PlacesRight ==
    /\ Len(message) = 5 + FrameSize(Len(source.json))
    /\ SubSeq(message, IdPosition(Len(source.json)) + 1,
              IdPosition(Len(source.json)) + 4) = Network(id, 4)
    /\ tokenHex.set => SubSeq(message, TokenPosition + 1, TokenPosition + TokenSize)
                           = HexToBinary(tokenHex.string)

\* Whatever was stored in the message, the gateway finds the command that sends a
\* notification, five items and nothing behind them: token, document, the id
\* stored last, expiry and priority; the size in front is the size of what
\* follows, and the two places kept for the next id and token are those of their
\* items (apn_binary_message.c:96-211).
FrameTells ==
    pc = "ready" =>
        /\ message[1] = 2
        /\ Parsed(message).items =
               <<[number |-> 1, data |-> StoredToken],
                 [number |-> 2, data |-> source.json],
                 [number |-> 3, data |-> Network(id, 4)],
                 [number |-> 4, data |-> Network(source.expiry, 4)],
                 [number |-> 5, data |-> <<source.priority>>]>>
        /\ Parsed(message).size = Len(message)
        /\ SubSeq(message, 2, 5) = Network(Len(message) - 5, 4)
        /\ PlacesRight
=============================================================================
