-------------------------- MODULE ApnMessageProofs --------------------------
(***************************************************************************)
(* Theorems about the binary message, for tokens, documents, ids, expiries *)
(* and strings of any length and value: its types, and what the gateway    *)
(* reads in it after any calls.                                            *)
(***************************************************************************)
EXTENDS ApnMessage, SequenceTheorems, TLAPS

-----------------------------------------------------------------------------
(* The inductive invariant *)

Cell == Bytes \union {Unwritten}

\* The message has this data behind its first p bytes, ...
Field(m, p, data) == \A k \in 1 .. Len(data) : m[p + k] = data[k]

\* ... or this item.
Carries(m, p, number, data) ==
    /\ m[p + 1] = number
    /\ Field(m, p + 1, Network(Len(data), 2))
    /\ Field(m, p + 3, data)

\* An item's size fits in its two bytes.
Short(data) == Len(data) < 65536

\* The message is the command, the size of the rest, and five items of which the
\* second alone has a length of its own.
Laid(m, d1, d2, d3, d4, d5) ==
    /\ Len(m) = 29 + TokenSize + Len(d2)
    /\ m[1] = 2
    /\ Field(m, 1, Network(FrameSize(Len(d2)), 4))
    /\ Carries(m, 5, 1, d1)
    /\ Carries(m, 8 + TokenSize, 2, d2)
    /\ Carries(m, 11 + TokenSize + Len(d2), 3, d3)
    /\ Carries(m, 18 + TokenSize + Len(d2), 4, d4)
    /\ Carries(m, 25 + TokenSize + Len(d2), 5, d5)

\* Data of the lengths the layout counts on.
Lengths(d1, d2, d3, d4, d5) ==
    /\ d1 \in Seq(Cell) /\ Len(d1) = TokenSize
    /\ d2 \in Seq(Cell) /\ Short(d2)
    /\ d3 \in Seq(Cell) /\ Len(d3) = 4
    /\ d4 \in Seq(Cell) /\ Len(d4) = 4
    /\ d5 \in Seq(Cell) /\ Len(d5) = 1

\* The message is laid out around a document that is not too long, its token is
\* the one whose hexadecimal form it keeps, and that form is a token's.
Standing ==
    /\ Len(source.json) <= MaxPayload
    /\ Laid(message, StoredToken, source.json, Network(id, 4),
            Network(source.expiry, 4), <<source.priority>>)

MessageInv ==
    /\ TypeOK
    /\ pc = "none" => ~tokenHex.set /\ id = 0
    /\ tokenHex.set => IsToken(tokenHex.string)
    /\ pc = "ready" => Standing

-----------------------------------------------------------------------------
(* Numbers in network order *)

\* A token's size fits in the two bytes an item has for it.
LEMMA TokenSizeFits == TokenSize \in Nat /\ TokenSize < 65536
BY TokenSizeAssumption

\* A function on the first numbers is a sequence.
LEMMA FunctionIsSequence ==
    ASSUME NEW S, NEW n \in Nat, NEW f \in [1 .. n -> S]
    PROVE  f \in Seq(S) /\ Len(f) = n
OBVIOUS

\* htons and htonl fill as many bytes as asked for.
LEMMA NetworkBytes ==
    ASSUME NEW n \in Nat, NEW width \in 1 .. 4
    PROVE  /\ Network(n, width) \in Seq(Bytes)
           /\ Len(Network(n, width)) = width
<1>1. \A k \in 1 .. width : Weight[width - k + 1] \in Nat \ {0}
  <2> SUFFICES ASSUME NEW k \in 1 .. width PROVE Weight[width - k + 1] \in Nat \ {0}
    OBVIOUS
  <2>1. width - k + 1 \in 1 .. 4
    OBVIOUS
  <2> QED  BY <2>1 DEF Weight
<1>2. \A k \in 1 .. width : (n \div Weight[width - k + 1]) % 256 \in Bytes
  <2> SUFFICES ASSUME NEW k \in 1 .. width, NEW w \in Nat \ {0}
               PROVE  (n \div w) % 256 \in Bytes
    BY <1>1
  <2>1. n \div w \in Int
    OBVIOUS
  <2> QED  BY <2>1 DEF Bytes
<1> QED  BY <1>2 DEF Network

\* A size of an item reads back as itself.
LEMMA SizeReads ==
    ASSUME NEW n \in Nat, n < 65536
    PROVE  256 * Network(n, 2)[1] + Network(n, 2)[2] = n
<1>1. Network(n, 2)[1] = (n \div 256) % 256 /\ Network(n, 2)[2] = (n \div 1) % 256
  BY DEF Network, Weight
<1>2. n \div 1 = n
  OBVIOUS
<1>3. n % 256 \in 0 .. 255 /\ n \div 256 \in Int
  OBVIOUS
<1>4. n = 256 * (n \div 256) + (n % 256)
  OBVIOUS
<1>5. n \div 256 \in 0 .. 255
  <2>1. n \div 256 >= 0
    OBVIOUS
  <2>2. n \div 256 <= 255
    OBVIOUS
  <2> QED  BY <1>3, <2>1, <2>2
<1>6. (n \div 256) % 256 = n \div 256
  BY <1>5
<1> QED  BY <1>1, <1>2, <1>4, <1>6

-----------------------------------------------------------------------------
(* Items *)

\* Bytes are cells.
LEMMA BytesAreCells == \A s \in Seq(Bytes) : s \in Seq(Cell)
BY DEF Cell

\* Two sequences of cells, one behind the other.
LEMMA Joined ==
    ASSUME NEW a \in Seq(Cell), NEW b \in Seq(Cell)
    PROVE  /\ a \o b \in Seq(Cell)
           /\ Len(a \o b) = Len(a) + Len(b)
           /\ \A i \in 1 .. Len(a) : (a \o b)[i] = a[i]
           /\ \A i \in 1 .. Len(b) : (a \o b)[Len(a) + i] = b[i]
<1>1. Len(a) \in Nat /\ Len(b) \in Nat
  OBVIOUS
<1>2. a \o b \in Seq(Cell)
  BY ConcatProperties, Zenon
<1>3. Len(a \o b) = Len(a) + Len(b)
  BY ConcatProperties, Zenon
<1>4. \A i \in 1 .. Len(a) + Len(b) :
          (a \o b)[i] = IF i <= Len(a) THEN a[i] ELSE b[i - Len(a)]
  BY ConcatProperties, Zenon
<1> DEFINE ab == a \o b
<1> HIDE DEF ab
<1>5. \A i \in 1 .. Len(a) + Len(b) : ab[i] = IF i <= Len(a) THEN a[i] ELSE b[i - Len(a)]
  BY <1>4 DEF ab
<1>6. \A i \in 1 .. Len(a) : ab[i] = a[i]
  BY <1>1, <1>5
<1>7. \A i \in 1 .. Len(b) : ab[Len(a) + i] = b[i]
  <2> SUFFICES ASSUME NEW i \in 1 .. Len(b) PROVE ab[Len(a) + i] = b[i]
    OBVIOUS
  <2>1. /\ Len(a) + i \in 1 .. Len(a) + Len(b) /\ ~(Len(a) + i <= Len(a))
        /\ Len(a) + i - Len(a) = i
    BY <1>1
  <2> QED  BY <1>5, <2>1
<1> QED  BY <1>2, <1>3, <1>6, <1>7 DEF ab

\* An item's header and data make one sequence, ...
LEMMA ItemLaid ==
    ASSUME NEW number \in Bytes, NEW data \in Seq(Cell)
    PROVE  /\ Item(number, data) \in Seq(Cell)
           /\ Len(Item(number, data)) = 3 + Len(data)
           /\ Carries(Item(number, data), 0, number, data)
<1> DEFINE size == Network(Len(data), 2)
<1>1. Len(data) \in Nat
  OBVIOUS
<1>2. size \in Seq(Cell) /\ Len(size) = 2
  BY <1>1, NetworkBytes, BytesAreCells
<1>3. <<number>> \in Seq(Cell) /\ Len(<<number>>) = 1 /\ <<number>>[1] = number
  BY DEF Cell
<1> DEFINE head == <<number>> \o size
<1> HIDE DEF size
<1>4. /\ head \in Seq(Cell) /\ Len(head) = 3
      /\ head[1] = number /\ head[2] = size[1] /\ head[3] = size[2]
  <2> DEFINE first == <<number>>
  <2>1. first \in Seq(Cell) /\ Len(first) = 1 /\ first[1] = number
    BY <1>3
  <2> HIDE DEF first
  <2>2. /\ first \o size \in Seq(Cell) /\ Len(first \o size) = Len(first) + Len(size)
        /\ \A i \in 1 .. Len(first) : (first \o size)[i] = first[i]
        /\ \A i \in 1 .. Len(size) : (first \o size)[Len(first) + i] = size[i]
    BY <1>2, <2>1, Joined, Zenon
  <2>3. head = first \o size
    BY DEF first
  <2> HIDE DEF head
  <2>4. /\ head \in Seq(Cell) /\ Len(head) = 1 + 2
        /\ \A i \in 1 .. 1 : head[i] = first[i]
        /\ \A i \in 1 .. 2 : head[1 + i] = size[i]
    BY <1>2, <2>1, <2>2, <2>3, Zenon
  <2> QED  BY <2>1, <2>4
<1> HIDE DEF head
<1>5. /\ head \o data \in Seq(Cell) /\ Len(head \o data) = 3 + Len(data)
      /\ \A i \in 1 .. 3 : (head \o data)[i] = head[i]
      /\ \A i \in 1 .. Len(data) : (head \o data)[3 + i] = data[i]
  <2>1. /\ head \o data \in Seq(Cell) /\ Len(head \o data) = Len(head) + Len(data)
        /\ \A i \in 1 .. Len(head) : (head \o data)[i] = head[i]
        /\ \A i \in 1 .. Len(data) : (head \o data)[Len(head) + i] = data[i]
    BY <1>4, Joined, Zenon
  <2> QED  BY <1>4, <2>1, Zenon
<1>6. Item(number, data) = head \o data
  BY DEF Item, head, size
<1>7. Field(head \o data, 1, size)
  BY <1>1, <1>2, <1>4, <1>5 DEF Field
<1>8. Field(head \o data, 3, data)
  BY <1>1, <1>5 DEF Field
<1>9. (head \o data)[1] = number
  BY <1>1, <1>4, <1>5
<1> QED  BY <1>5, <1>6, <1>7, <1>8, <1>9 DEF Carries, size

\* ... which is found in what it is appended to, ...
LEMMA CarriesRight ==
    ASSUME NEW a \in Seq(Cell), NEW b \in Seq(Cell), NEW p \in Nat,
           NEW number, NEW data \in Seq(Cell),
           Carries(b, p, number, data), p + 3 + Len(data) <= Len(b)
    PROVE  Carries(a \o b, Len(a) + p, number, data)
<1> DEFINE size == Network(Len(data), 2)
           ab == a \o b
<1>1. Len(data) \in Nat /\ Len(size) = 2 /\ Len(a) \in Nat /\ Len(b) \in Nat
  BY NetworkBytes
<1> HIDE DEF size
<1>2. \A i \in 1 .. Len(b) : ab[Len(a) + i] = b[i]
  BY Joined, Zenon
<1> HIDE DEF ab
<1>3. b[p + 1] = number /\ Field(b, p + 1, size) /\ Field(b, p + 3, data)
  BY DEF Carries, size
<1>4. ab[Len(a) + p + 1] = number
  <2>1. p + 1 \in 1 .. Len(b) /\ Len(a) + p + 1 = Len(a) + (p + 1)
    BY <1>1
  <2> QED  BY <1>2, <1>3, <2>1
<1>5. Field(ab, Len(a) + p + 1, size)
  <2> SUFFICES ASSUME NEW k \in 1 .. 2 PROVE ab[Len(a) + p + 1 + k] = size[k]
    BY <1>1 DEF Field
  <2>1. /\ p + 1 + k \in 1 .. Len(b)
        /\ Len(a) + p + 1 + k = Len(a) + (p + 1 + k)
    BY <1>1
  <2>2. b[p + 1 + k] = size[k]
    BY <1>1, <1>3 DEF Field
  <2> QED  BY <1>2, <2>1, <2>2
<1>6. Field(ab, Len(a) + p + 3, data)
  <2> SUFFICES ASSUME NEW k \in 1 .. Len(data) PROVE ab[Len(a) + p + 3 + k] = data[k]
    BY DEF Field
  <2>1. /\ p + 3 + k \in 1 .. Len(b)
        /\ Len(a) + p + 3 + k = Len(a) + (p + 3 + k)
    BY <1>1
  <2>2. b[p + 3 + k] = data[k]
    BY <1>3 DEF Field
  <2> QED  BY <1>2, <2>1, <2>2
<1> QED  BY <1>4, <1>5, <1>6 DEF Carries, size, ab

\* ... and in what something is appended to.
LEMMA CarriesLeft ==
    ASSUME NEW a \in Seq(Cell), NEW b \in Seq(Cell), NEW p \in Nat,
           NEW number, NEW data \in Seq(Cell),
           Carries(a, p, number, data), p + 3 + Len(data) <= Len(a)
    PROVE  Carries(a \o b, p, number, data)
<1> DEFINE size == Network(Len(data), 2)
<1>1. Len(data) \in Nat /\ Len(size) = 2 /\ Len(a) \in Nat /\ Len(b) \in Nat
  BY NetworkBytes
<1> HIDE DEF size
<1>2. \A i \in 1 .. Len(a) : (a \o b)[i] = a[i]
  BY Joined, Zenon
<1> DEFINE ab == a \o b
<1> HIDE DEF ab
<1>3. \A i \in 1 .. Len(a) : ab[i] = a[i]
  BY <1>2 DEF ab
<1>4. a[p + 1] = number /\ Field(a, p + 1, size) /\ Field(a, p + 3, data)
  BY DEF Carries, size
<1>5. ab[p + 1] = number
  <2>1. p + 1 \in 1 .. Len(a)
    BY <1>1
  <2> QED  BY <1>3, <1>4, <2>1
<1>6. Field(ab, p + 1, size)
  <2> SUFFICES ASSUME NEW k \in 1 .. 2 PROVE ab[p + 1 + k] = size[k]
    BY <1>1 DEF Field
  <2>1. a[p + 1 + k] = size[k]
    BY <1>1, <1>4 DEF Field
  <2>2. p + 1 + k \in 1 .. Len(a)
    BY <1>1
  <2> QED  BY <1>3, <2>1, <2>2
<1>7. Field(ab, p + 3, data)
  BY <1>1, <1>3, <1>4 DEF Field
<1> QED  BY <1>5, <1>6, <1>7 DEF Carries, size, ab

\* An item appended to items: it is there, and they are there still.
LEMMA Appended ==
    ASSUME NEW a \in Seq(Cell), NEW number \in Bytes, NEW data \in Seq(Cell)
    PROVE  /\ a \o Item(number, data) \in Seq(Cell)
           /\ Len(a \o Item(number, data)) = Len(a) + 3 + Len(data)
           /\ Carries(a \o Item(number, data), Len(a), number, data)
           /\ \A p \in Nat, other \in Bytes, d \in Seq(Cell) :
                  Carries(a, p, other, d) /\ p + 3 + Len(d) <= Len(a)
                      => Carries(a \o Item(number, data), p, other, d)
<1> DEFINE item == Item(number, data)
<1>1. /\ item \in Seq(Cell) /\ Len(item) = 3 + Len(data)
      /\ Carries(item, 0, number, data)
  BY ItemLaid
<1> HIDE DEF item
<1>2. Len(a) \in Nat /\ Len(data) \in Nat /\ Len(a) + 0 = Len(a)
  OBVIOUS
<1>3. a \o item \in Seq(Cell) /\ Len(a \o item) = Len(a) + Len(item)
  BY <1>1, Joined, Zenon
<1>4. Carries(a \o item, Len(a) + 0, number, data)
  <2>1. 0 + 3 + Len(data) <= Len(item) /\ 0 \in Nat
    BY <1>1, <1>2
  <2> QED  BY <1>1, <2>1, CarriesRight, Zenon
<1>5. \A p \in Nat, other \in Bytes, d \in Seq(Cell) :
          Carries(a, p, other, d) /\ p + 3 + Len(d) <= Len(a)
              => Carries(a \o item, p, other, d)
  BY <1>1, CarriesLeft, Zenon
<1> DEFINE all == a \o item
<1> HIDE DEF all
<1>6. Len(all) = Len(a) + 3 + Len(data)
  BY <1>1, <1>2, <1>3 DEF all
<1>7. Carries(all, Len(a), number, data)
  BY <1>2, <1>4, Zenon DEF all
<1> QED  BY <1>3, <1>5, <1>6, <1>7, Zenon DEF item, all

-----------------------------------------------------------------------------
(* Creation *)

\* Five items one behind the other, from the start of f to its end.
AreItems(f, d1, d2, d3, d4, d5) ==
    /\ f \in Seq(Cell)
    /\ Len(f) = 15 + Len(d1) + Len(d2) + Len(d3) + Len(d4) + Len(d5)
    /\ Carries(f, 0, 1, d1)
    /\ Carries(f, 3 + Len(d1), 2, d2)
    /\ Carries(f, 6 + Len(d1) + Len(d2), 3, d3)
    /\ Carries(f, 9 + Len(d1) + Len(d2) + Len(d3), 4, d4)
    /\ Carries(f, 12 + Len(d1) + Len(d2) + Len(d3) + Len(d4), 5, d5)

LEMMA FiveItems ==
    ASSUME NEW d1 \in Seq(Cell), NEW d2 \in Seq(Cell), NEW d3 \in Seq(Cell),
           NEW d4 \in Seq(Cell), NEW d5 \in Seq(Cell)
    PROVE  AreItems(Item(1, d1) \o Item(2, d2) \o Item(3, d3) \o Item(4, d4)
                    \o Item(5, d5), d1, d2, d3, d4, d5)
<1> DEFINE Has(f, p, number, d) ==
               Carries(f, p, number, d) /\ p \in Nat /\ p + 3 + Len(d) <= Len(f)
           Appends(f, g, number, d) ==
               /\ g \in Seq(Cell) /\ Len(g) = Len(f) + 3 + Len(d)
               /\ Has(g, Len(f), number, d)
               /\ \A p \in Nat, other \in Bytes, e \in Seq(Cell) :
                      Has(f, p, other, e) => Has(g, p, other, e)
<1>1. \A f \in Seq(Cell), number \in Bytes, d \in Seq(Cell) :
          Appends(f, f \o Item(number, d), number, d)
  <2> SUFFICES ASSUME NEW f \in Seq(Cell), NEW number \in Bytes, NEW d \in Seq(Cell)
               PROVE  Appends(f, f \o Item(number, d), number, d)
    OBVIOUS
  <2> DEFINE g == f \o Item(number, d)
  <2>1. /\ g \in Seq(Cell)
        /\ Len(g) = Len(f) + 3 + Len(d)
        /\ Carries(g, Len(f), number, d)
        /\ \A p \in Nat, other \in Bytes, e \in Seq(Cell) :
               Carries(f, p, other, e) /\ p + 3 + Len(e) <= Len(f) => Carries(g, p, other, e)
    BY Appended, Zenon
  <2> HIDE DEF g
  <2>2. Len(f) \in Nat /\ Len(d) \in Nat
    OBVIOUS
  <2>3. Has(g, Len(f), number, d)
    BY <2>1, <2>2
  <2>4. ASSUME NEW p \in Nat, NEW other \in Bytes, NEW e \in Seq(Cell),
                  Has(f, p, other, e)
        PROVE  Has(g, p, other, e)
    <3>1. Carries(g, p, other, e)
      BY <2>1, <2>4
    <3>2. p + 3 + Len(e) <= Len(g)
      <4>1. Len(e) \in Nat /\ p \in Nat /\ p + 3 + Len(e) <= Len(f)
        BY <2>4
      <4> QED  BY <2>1, <2>2, <4>1
    <3> QED  BY <2>4, <3>1, <3>2
  <2> QED  BY <2>1, <2>3, <2>4 DEF g
<1>2. 1 \in Bytes /\ 2 \in Bytes /\ 3 \in Bytes /\ 4 \in Bytes /\ 5 \in Bytes
  BY DEF Bytes
<1>3. /\ Len(d1) \in Nat /\ Len(d2) \in Nat /\ Len(d3) \in Nat
      /\ Len(d4) \in Nat /\ Len(d5) \in Nat
  OBVIOUS
<1> DEFINE f1 == Item(1, d1)
           f2 == f1 \o Item(2, d2)
           f3 == f2 \o Item(3, d3)
           f4 == f3 \o Item(4, d4)
           f5 == f4 \o Item(5, d5)
<1>4. f1 \in Seq(Cell) /\ Len(f1) = 3 + Len(d1) /\ Has(f1, 0, 1, d1)
  <2>1. f1 \in Seq(Cell) /\ Len(f1) = 3 + Len(d1) /\ Carries(f1, 0, 1, d1)
    BY <1>2, ItemLaid, Zenon
  <2> HIDE DEF f1
  <2> QED  BY <1>3, <2>1
<1> HIDE DEF f1
<1>5. Appends(f1, f2, 2, d2)
  BY <1>1, <1>2, <1>4, Zenon
<1> HIDE DEF f2
<1>6. Appends(f2, f3, 3, d3)
  BY <1>1, <1>2, <1>5, Zenon
<1> HIDE DEF f3
<1>7. Appends(f3, f4, 4, d4)
  BY <1>1, <1>2, <1>6, Zenon
<1> HIDE DEF f4
<1>8. Appends(f4, f5, 5, d5)
  BY <1>1, <1>2, <1>7, Zenon
<1> HIDE DEF f5
<1> HIDE DEF Has
<1>9. /\ Has(f5, 0, 1, d1) /\ Has(f5, Len(f1), 2, d2) /\ Has(f5, Len(f2), 3, d3)
      /\ Has(f5, Len(f3), 4, d4) /\ Has(f5, Len(f4), 5, d5)
  <2>1. /\ 0 \in Nat /\ Len(f1) \in Nat /\ Len(f2) \in Nat /\ Len(f3) \in Nat
        /\ Len(f4) \in Nat
    BY <1>4, <1>5, <1>6, <1>7
  <2>2. Has(f2, 0, 1, d1) /\ Has(f2, Len(f1), 2, d2)
    BY <1>2, <1>4, <1>5, <2>1, Zenon
  <2>3. Has(f3, 0, 1, d1) /\ Has(f3, Len(f1), 2, d2) /\ Has(f3, Len(f2), 3, d3)
    BY <1>2, <1>6, <2>1, <2>2, Zenon
  <2>4. /\ Has(f4, 0, 1, d1) /\ Has(f4, Len(f1), 2, d2) /\ Has(f4, Len(f2), 3, d3)
        /\ Has(f4, Len(f3), 4, d4)
    BY <1>2, <1>7, <2>1, <2>3, Zenon
  <2> QED  BY <1>2, <1>8, <2>1, <2>4, Zenon
<1>10. /\ Len(f1) = 3 + Len(d1)
       /\ Len(f2) = 6 + Len(d1) + Len(d2)
       /\ Len(f3) = 9 + Len(d1) + Len(d2) + Len(d3)
       /\ Len(f4) = 12 + Len(d1) + Len(d2) + Len(d3) + Len(d4)
       /\ Len(f5) = 15 + Len(d1) + Len(d2) + Len(d3) + Len(d4) + Len(d5)
  BY <1>3, <1>4, <1>5, <1>6, <1>7, <1>8
<1>11. /\ Has(f5, 0, 1, d1)
       /\ Has(f5, 3 + Len(d1), 2, d2)
       /\ Has(f5, 6 + Len(d1) + Len(d2), 3, d3)
       /\ Has(f5, 9 + Len(d1) + Len(d2) + Len(d3), 4, d4)
       /\ Has(f5, 12 + Len(d1) + Len(d2) + Len(d3) + Len(d4), 5, d5)
  BY <1>9, <1>10, Zenon
<1>12. f5 \in Seq(Cell)
  BY <1>8, Zenon
<1>13. AreItems(f5, d1, d2, d3, d4, d5)
  BY <1>10, <1>11, <1>12, Zenon DEF Has, AreItems
<1> QED  BY <1>13, Zenon DEF f1, f2, f3, f4, f5

\* What is created is laid out: no token yet, the id 0.
LEMMA FrameLaid ==
    ASSUME NEW src \in [json : Seq(Bytes), expiry : Nat, priority : Bytes]
    PROVE  LET m == <<2>> \o Network(FrameSize(Len(src.json)), 4) \o Frame(src)
           IN  /\ m \in Seq(Cell)
               /\ Laid(m, [k \in 1 .. TokenSize |-> Unwritten], src.json, Network(0, 4),
                       Network(src.expiry, 4), <<src.priority>>)
<1> DEFINE token == [k \in 1 .. TokenSize |-> Unwritten]
           json == src.json
           size == Network(FrameSize(Len(json)), 4)
           zero == Network(0, 4)
           until == Network(src.expiry, 4)
           prio == <<src.priority>>
           first == <<2>>
           head == first \o size
           body == Frame(src)
           m == head \o body
<1>1. /\ token \in Seq(Cell) /\ Len(token) = TokenSize /\ TokenSize \in Nat
  BY TokenSizeAssumption DEF Cell
<1>2. /\ prio \in Seq(Cell) /\ Len(prio) = 1 /\ first \in Seq(Cell)
      /\ Len(first) = 1 /\ first[1] = 2
  BY DEF Cell, Bytes
<1>3. json \in Seq(Cell) /\ Len(json) \in Nat
  BY BytesAreCells
<1>4. /\ size \in Seq(Cell) /\ Len(size) = 4 /\ zero \in Seq(Cell) /\ Len(zero) = 4
      /\ until \in Seq(Cell) /\ Len(until) = 4
  <2>1. \A n \in Nat : Network(n, 4) \in Seq(Cell) /\ Len(Network(n, 4)) = 4
    BY NetworkBytes, BytesAreCells
  <2>2. FrameSize(Len(json)) \in Nat /\ 0 \in Nat /\ src.expiry \in Nat
    BY <1>1, <1>3 DEF FrameSize
  <2> QED  BY <2>1, <2>2
<1>5. body = Item(1, token) \o Item(2, json) \o Item(3, zero) \o Item(4, until)
             \o Item(5, prio)
  BY DEF Frame
<1> HIDE DEF token, json, size, zero, until, prio, first, body
<1>6. /\ body \in Seq(Cell) /\ Len(body) = 24 + TokenSize + Len(json)
      /\ Carries(body, 0, 1, token)
      /\ Carries(body, 3 + TokenSize, 2, json)
      /\ Carries(body, 6 + TokenSize + Len(json), 3, zero)
      /\ Carries(body, 13 + TokenSize + Len(json), 4, until)
      /\ Carries(body, 20 + TokenSize + Len(json), 5, prio)
  <2>1. AreItems(body, token, json, zero, until, prio)
    <3>1. /\ token \in Seq(Cell) /\ json \in Seq(Cell) /\ zero \in Seq(Cell)
          /\ until \in Seq(Cell) /\ prio \in Seq(Cell)
      BY <1>1, <1>2, <1>3, <1>4
    <3>2. AreItems(Item(1, token) \o Item(2, json) \o Item(3, zero) \o Item(4, until)
                   \o Item(5, prio), token, json, zero, until, prio)
      BY <3>1, FiveItems
    <3> QED  BY <1>5, <3>2, Zenon
  <2>2. /\ 15 + Len(token) + Len(json) + Len(zero) + Len(until) + Len(prio)
               = 24 + TokenSize + Len(json)
        /\ 3 + Len(token) = 3 + TokenSize
        /\ 6 + Len(token) + Len(json) = 6 + TokenSize + Len(json)
        /\ 9 + Len(token) + Len(json) + Len(zero) = 13 + TokenSize + Len(json)
        /\ 12 + Len(token) + Len(json) + Len(zero) + Len(until) = 20 + TokenSize + Len(json)
    BY <1>1, <1>2, <1>3, <1>4
  <2> QED  BY <2>1, <2>2, Zenon DEF AreItems
<1>7. /\ head \in Seq(Cell) /\ Len(head) = 5 /\ head[1] = 2
      /\ \A i \in 1 .. 4 : head[1 + i] = size[i]
  <2>1. /\ head \in Seq(Cell) /\ Len(head) = Len(first) + Len(size)
        /\ \A i \in 1 .. Len(first) : head[i] = first[i]
        /\ \A i \in 1 .. Len(size) : head[Len(first) + i] = size[i]
    BY <1>2, <1>4, Joined, Zenon
  <2> HIDE DEF head
  <2>2. /\ Len(head) = 1 + 4
        /\ \A i \in 1 .. 1 : head[i] = first[i]
        /\ \A i \in 1 .. 4 : head[1 + i] = size[i]
    BY <1>2, <1>4, <2>1, Zenon
  <2>3. head[1] = 2 /\ Len(head) = 5
    BY <1>2, <2>2
  <2> QED  BY <2>1, <2>2, <2>3
<1> HIDE DEF head
<1>8. /\ m \in Seq(Cell) /\ Len(m) = 29 + TokenSize + Len(json)
      /\ \A i \in 1 .. 5 : m[i] = head[i]
  <2>1. /\ m \in Seq(Cell) /\ Len(m) = Len(head) + Len(body)
        /\ \A i \in 1 .. Len(head) : m[i] = head[i]
    BY <1>6, <1>7, Joined, Zenon
  <2> HIDE DEF m
  <2> QED  BY <1>1, <1>3, <1>6, <1>7, <2>1
<1>9. ASSUME NEW p \in Nat, NEW number \in Bytes, NEW data \in Seq(Cell),
             Carries(body, p, number, data), p + 3 + Len(data) <= Len(body),
             NEW place, place = 5 + p
      PROVE  Carries(m, place, number, data)
  <2>1. Carries(m, Len(head) + p, number, data)
    BY <1>6, <1>7, <1>9, CarriesRight, Zenon
  <2> QED  BY <1>7, <1>9, <2>1, Zenon
<1> HIDE DEF m
<1>10. 1 \in Bytes /\ 2 \in Bytes /\ 3 \in Bytes /\ 4 \in Bytes /\ 5 \in Bytes
  BY DEF Bytes
<1>11. Carries(m, 5, 1, token)
  <2>1. 0 \in Nat /\ 0 + 3 + Len(token) <= Len(body) /\ 5 = 5 + 0
    BY <1>1, <1>3, <1>6
  <2> QED  BY <1>1, <1>6, <1>9, <1>10, <2>1, Zenon
<1>12. Carries(m, 8 + TokenSize, 2, json)
  <2>1. /\ 3 + TokenSize \in Nat /\ 3 + TokenSize + 3 + Len(json) <= Len(body)
        /\ 8 + TokenSize = 5 + (3 + TokenSize)
    BY <1>1, <1>3, <1>6
  <2> QED  BY <1>3, <1>6, <1>9, <1>10, <2>1, Zenon
<1>13. Carries(m, 11 + TokenSize + Len(json), 3, zero)
  <2>1. /\ 6 + TokenSize + Len(json) \in Nat
        /\ 6 + TokenSize + Len(json) + 3 + Len(zero) <= Len(body)
        /\ 11 + TokenSize + Len(json) = 5 + (6 + TokenSize + Len(json))
    BY <1>1, <1>3, <1>4, <1>6
  <2> QED  BY <1>4, <1>6, <1>9, <1>10, <2>1, Zenon
<1>14. Carries(m, 18 + TokenSize + Len(json), 4, until)
  <2>1. /\ 13 + TokenSize + Len(json) \in Nat
        /\ 13 + TokenSize + Len(json) + 3 + Len(until) <= Len(body)
        /\ 18 + TokenSize + Len(json) = 5 + (13 + TokenSize + Len(json))
    BY <1>1, <1>3, <1>4, <1>6
  <2> QED  BY <1>4, <1>6, <1>9, <1>10, <2>1, Zenon
<1>15. Carries(m, 25 + TokenSize + Len(json), 5, prio)
  <2>1. /\ 20 + TokenSize + Len(json) \in Nat
        /\ 20 + TokenSize + Len(json) + 3 + Len(prio) <= Len(body)
        /\ 25 + TokenSize + Len(json) = 5 + (20 + TokenSize + Len(json))
    BY <1>1, <1>2, <1>3, <1>6
  <2> QED  BY <1>2, <1>6, <1>9, <1>10, <2>1, Zenon
<1>16. m[1] = 2 /\ Field(m, 1, size)
  <2>1. m[1] = 2
    BY <1>7, <1>8
  <2>2. \A i \in 1 .. 4 : m[1 + i] = size[i]
    BY <1>7, <1>8
  <2> QED  BY <1>4, <2>1, <2>2, Zenon DEF Field
<1> QED
  BY <1>8, <1>11, <1>12, <1>13, <1>14, <1>15, <1>16, Zenon
  DEF Laid, token, json, size, zero, until, prio, first, head, body, m

-----------------------------------------------------------------------------
(* Storing *)

\* memcpy to a place in the message leaves its length, ...
LEMMA StoreKeepsLength ==
    ASSUME NEW m \in Seq(Cell), NEW position \in Nat, NEW x \in Seq(Cell)
    PROVE  /\ Store(m, position, x) \in Seq(Cell)
           /\ Len(Store(m, position, x)) = Len(m)
           /\ \A k \in 1 .. Len(m) :
                  Store(m, position, x)[k] = IF k - position \in 1 .. Len(x)
                                             THEN x[k - position] ELSE m[k]
<1>1. \A k \in 1 .. Len(m) :
          (IF k - position \in 1 .. Len(x) THEN x[k - position] ELSE m[k]) \in Cell
  OBVIOUS
<1> QED  BY <1>1 DEF Store

\* ... the bytes elsewhere, ...
LEMMA StoreElsewhere ==
    ASSUME NEW m \in Seq(Cell), NEW position \in Nat, NEW x \in Seq(Cell),
           NEW k \in 1 .. Len(m), ~(k - position \in 1 .. Len(x))
    PROVE  Store(m, position, x)[k] = m[k]
BY DEF Store

\* ... so what lies before or behind the place, ...
LEMMA StoreKeepsField ==
    ASSUME NEW m \in Seq(Cell), NEW position \in Nat, NEW x \in Seq(Cell),
           NEW p \in Nat, NEW data \in Seq(Cell),
           Field(m, p, data), p + Len(data) <= Len(m),
           p + Len(data) <= position \/ position + Len(x) <= p
    PROVE  Field(Store(m, position, x), p, data)
<1> SUFFICES ASSUME NEW k \in 1 .. Len(data)
             PROVE  Store(m, position, x)[p + k] = data[k]
  BY DEF Field
<1>1. Len(data) \in Nat /\ Len(x) \in Nat /\ Len(m) \in Nat
  OBVIOUS
<1>2. p + k \in 1 .. Len(m) /\ ~(p + k - position \in 1 .. Len(x))
  BY <1>1
<1>3. m[p + k] = data[k]
  BY DEF Field
<1> DEFINE at == p + k
<1>4. at \in 1 .. Len(m) /\ ~(at - position \in 1 .. Len(x))
  BY <1>2
<1> HIDE DEF at
<1>5. Store(m, position, x)[at] = m[at]
  BY <1>4, StoreElsewhere, Zenon
<1> QED  BY <1>3, <1>5 DEF at

\* ... the items there, ...
LEMMA StoreKeepsItem ==
    ASSUME NEW m \in Seq(Cell), NEW position \in Nat, NEW x \in Seq(Cell),
           NEW p \in Nat, NEW number, NEW data \in Seq(Cell),
           Carries(m, p, number, data), p + 3 + Len(data) <= Len(m),
           p + 3 + Len(data) <= position \/ position + Len(x) <= p
    PROVE  Carries(Store(m, position, x), p, number, data)
<1> DEFINE size == Network(Len(data), 2)
<1>1. Len(data) \in Nat /\ Len(x) \in Nat /\ Len(m) \in Nat
  OBVIOUS
<1>2. size \in Seq(Cell) /\ Len(size) = 2
  BY <1>1, NetworkBytes, BytesAreCells
<1>3. m[p + 1] = number /\ Field(m, p + 1, size) /\ Field(m, p + 3, data)
  BY DEF Carries
<1> HIDE DEF size
<1>4. Store(m, position, x)[p + 1] = number
  <2> DEFINE at == p + 1
  <2>1. at \in 1 .. Len(m) /\ ~(at - position \in 1 .. Len(x))
    BY <1>1
  <2>2. m[at] = number
    BY <1>3
  <2> HIDE DEF at
  <2>3. Store(m, position, x)[at] = m[at]
    BY <2>1, StoreElsewhere, Zenon
  <2>4. Store(m, position, x)[at] = number
    BY <2>2, <2>3, Zenon
  <2> QED  BY <2>4 DEF at
<1>5. Field(Store(m, position, x), p + 1, size)
  <2>1. /\ p + 1 \in Nat /\ p + 1 + Len(size) <= Len(m)
        /\ p + 1 + Len(size) <= position \/ position + Len(x) <= p + 1
    BY <1>1, <1>2
  <2> QED  BY <1>2, <1>3, <2>1, StoreKeepsField, Zenon
<1>6. Field(Store(m, position, x), p + 3, data)
  <2>1. /\ p + 3 \in Nat
        /\ p + 3 + Len(data) <= position \/ position + Len(x) <= p + 3
    BY <1>1
  <2> QED  BY <1>3, <2>1, StoreKeepsField, Zenon
<1> QED  BY <1>4, <1>5, <1>6 DEF Carries, size

\* ... and the header of the item whose data it replaces.
LEMMA StoreSetsItem ==
    ASSUME NEW m \in Seq(Cell), NEW x \in Seq(Cell),
           NEW p \in Nat, NEW number, NEW data \in Seq(Cell),
           Carries(m, p, number, data), p + 3 + Len(data) <= Len(m),
           Len(x) = Len(data)
    PROVE  Carries(Store(m, p + 3, x), p, number, x)
<1> DEFINE size == Network(Len(data), 2)
<1>1. Len(data) \in Nat /\ Len(m) \in Nat
  OBVIOUS
<1>2. size \in Seq(Cell) /\ Len(size) = 2
  BY <1>1, NetworkBytes, BytesAreCells
<1>3. m[p + 1] = number /\ Field(m, p + 1, size)
  BY DEF Carries
<1>4. size = Network(Len(x), 2)
  OBVIOUS
<1> HIDE DEF size
<1>5. Store(m, p + 3, x)[p + 1] = number
  <2>1. p + 1 \in 1 .. Len(m) /\ ~(p + 1 - (p + 3) \in 1 .. Len(x)) /\ p + 3 \in Nat
    BY <1>1
  <2> QED  BY <1>3, <2>1, StoreKeepsLength
<1>6. Field(Store(m, p + 3, x), p + 1, size)
  <2>1. /\ p + 1 \in Nat /\ p + 3 \in Nat /\ p + 1 + Len(size) <= Len(m)
        /\ p + 1 + Len(size) <= p + 3
    BY <1>1, <1>2
  <2> QED  BY <1>2, <1>3, <2>1, StoreKeepsField, Zenon
<1>7. Field(Store(m, p + 3, x), p + 3, x)
  <2> SUFFICES ASSUME NEW k \in 1 .. Len(x)
               PROVE  Store(m, p + 3, x)[p + 3 + k] = x[k]
    BY DEF Field
  <2>1. /\ p + 3 + k \in 1 .. Len(m) /\ p + 3 + k - (p + 3) = k /\ p + 3 \in Nat
    BY <1>1
  <2> QED  BY <2>1, StoreKeepsLength
<1> QED  BY <1>4, <1>5, <1>6, <1>7 DEF Carries

-----------------------------------------------------------------------------
(* Tokens *)

\* A hexadecimal digit stands for one number, whatever its case.
LEMMA DigitReads ==
    /\ \A ch : IsHexDigit(ch) => DigitValue(ch) \in 0 .. 15
    /\ \A d \in 0 .. 15 : /\ Upper[d] \in 48 .. 70 /\ IsHexDigit(Upper[d])
                          /\ DigitValue(Upper[d]) = d
<1>1. ASSUME NEW ch, IsHexDigit(ch)
      PROVE  /\ DigitValue(ch) \in 0 .. 15
             /\ ch \in {Upper[DigitValue(ch)], Lower[DigitValue(ch)]}
  BY <1>1 DEF IsHexDigit, DigitValue
<1>2. ASSUME NEW d \in 0 .. 15
      PROVE  Upper[d] \in 48 .. 70 /\ IsHexDigit(Upper[d]) /\ DigitValue(Upper[d]) = d
  <2>1. Upper[d] = IF d < 10 THEN 48 + d ELSE 55 + d
    BY DEF Upper
  <2>2. Upper[d] \in 48 .. 70
    BY <2>1
  <2>3. IsHexDigit(Upper[d])
    BY DEF IsHexDigit
  <2>4. ASSUME NEW e \in 0 .. 15, Upper[d] \in {Upper[e], Lower[e]} PROVE e = d
    <3>1. /\ Upper[e] = IF e < 10 THEN 48 + e ELSE 55 + e
          /\ Lower[e] = IF e < 10 THEN 48 + e ELSE 87 + e
      BY DEF Upper, Lower
    <3> QED  BY <2>1, <2>4, <3>1
  <2>5. /\ DigitValue(Upper[d]) \in 0 .. 15
        /\ Upper[d] \in {Upper[DigitValue(Upper[d])], Lower[DigitValue(Upper[d])]}
    BY <1>1, <2>3
  <2> QED  BY <2>2, <2>3, <2>4, <2>5
<1> QED  BY <1>1, <1>2

\* A token's string stands for as many bytes as a token has.
LEMMA TokenReads ==
    ASSUME NEW s, IsToken(s)
    PROVE  HexToBinary(s) \in [1 .. TokenSize -> Bytes]
<1>1. ASSUME NEW k \in 1 .. TokenSize
      PROVE  16 * DigitValue(s[2 * k - 1]) + DigitValue(s[2 * k]) \in Bytes
  <2>1. 2 * k - 1 \in 1 .. 2 * TokenSize /\ 2 * k \in 1 .. 2 * TokenSize
    BY TokenSizeAssumption
  <2>2. IsHexDigit(s[2 * k - 1]) /\ IsHexDigit(s[2 * k])
    BY <2>1 DEF IsToken
  <2>3. DigitValue(s[2 * k - 1]) \in 0 .. 15 /\ DigitValue(s[2 * k]) \in 0 .. 15
    BY <2>2, DigitReads
  <2> QED  BY <2>3 DEF Bytes
<1> QED  BY <1>1 DEF HexToBinary

\* The hexadecimal form of a binary token is a token's, and stands for it.
LEMMA HexReadsBack ==
    ASSUME NEW b \in [1 .. TokenSize -> Bytes]
    PROVE  /\ BinaryToHex(b) \in Seq(1 .. 255)
           /\ IsToken(BinaryToHex(b))
           /\ HexToBinary(BinaryToHex(b)) = b
<1> DEFINE digit(k) == IF k % 2 = 1 THEN b[(k + 1) \div 2] \div 16 ELSE b[k \div 2] % 16
           hex == BinaryToHex(b)
<1>1. \A n \in Bytes : n \div 16 \in 0 .. 15 /\ n % 16 \in 0 .. 15
                       /\ 16 * (n \div 16) + (n % 16) = n
  <2> SUFFICES ASSUME NEW n \in Bytes
               PROVE  n \div 16 \in 0 .. 15 /\ n % 16 \in 0 .. 15
                      /\ 16 * (n \div 16) + (n % 16) = n
    OBVIOUS
  <2>1. n \in 0 .. 255
    BY DEF Bytes
  <2>2. n \div 16 >= 0
    BY <2>1
  <2>3. n \div 16 <= 15
    BY <2>1
  <2>4. n \div 16 \in Int /\ n % 16 \in 0 .. 15
    BY <2>1
  <2>5. 16 * (n \div 16) + (n % 16) = n
    BY <2>1
  <2> QED  BY <2>2, <2>3, <2>4, <2>5
<1>2. \A k \in 1 .. 2 * TokenSize : digit(k) \in 0 .. 15
  <2> SUFFICES ASSUME NEW k \in 1 .. 2 * TokenSize PROVE digit(k) \in 0 .. 15
    OBVIOUS
  <2>1. CASE k % 2 = 1
    <3>1. (k + 1) \div 2 \in 1 .. TokenSize
      BY <2>1, TokenSizeAssumption
    <3> QED  BY <1>1, <2>1, <3>1
  <2>2. CASE k % 2 # 1
    <3>1. k \div 2 \in 1 .. TokenSize
      BY <2>2, TokenSizeAssumption
    <3> QED  BY <1>1, <2>2, <3>1
  <2> QED  BY <2>1, <2>2
<1>3. hex = [k \in 1 .. 2 * TokenSize |-> Upper[digit(k)]]
  BY DEF BinaryToHex
<1>4. \A k \in 1 .. TokenSize :
          hex[2 * k - 1] = Upper[b[k] \div 16] /\ hex[2 * k] = Upper[b[k] % 16]
  <2> SUFFICES ASSUME NEW k \in 1 .. TokenSize
               PROVE  hex[2 * k - 1] = Upper[b[k] \div 16] /\ hex[2 * k] = Upper[b[k] % 16]
    OBVIOUS
  <2>1. 2 * k - 1 \in 1 .. 2 * TokenSize /\ 2 * k \in 1 .. 2 * TokenSize
    BY TokenSizeAssumption
  <2>2. /\ (2 * k - 1) % 2 = 1 /\ (2 * k - 1 + 1) \div 2 = k
        /\ (2 * k) % 2 = 0 /\ (2 * k) \div 2 = k
    OBVIOUS
  <2>3. digit(2 * k - 1) = b[k] \div 16 /\ digit(2 * k) = b[k] % 16
    BY <2>2
  <2> HIDE DEF digit
  <2> QED  BY <1>3, <2>1, <2>3
<1> HIDE DEF digit, hex
<1>5. \A k \in 1 .. 2 * TokenSize : hex[k] \in 48 .. 70 /\ IsHexDigit(hex[k])
  BY <1>2, <1>3, DigitReads
<1>6. hex \in Seq(1 .. 255) /\ Len(hex) = 2 * TokenSize
  <2>1. 2 * TokenSize \in Nat
    BY TokenSizeAssumption
  <2>2. \A k \in 1 .. 2 * TokenSize : Upper[digit(k)] \in 1 .. 255
    <3> SUFFICES ASSUME NEW k \in 1 .. 2 * TokenSize PROVE Upper[digit(k)] \in 1 .. 255
      OBVIOUS
    <3>1. Upper[digit(k)] \in 48 .. 70
      BY <1>2, DigitReads
    <3> QED  BY <3>1
  <2>3. hex \in [1 .. 2 * TokenSize -> 1 .. 255]
    BY <1>3, <2>2
  <2>4. \A S, n : n \in Nat => \A f \in [1 .. n -> S] : f \in Seq(S) /\ Len(f) = n
    BY FunctionIsSequence
  <2> QED  BY <2>1, <2>3, <2>4
<1>7. IsToken(hex)
  BY <1>5, <1>6 DEF IsToken
<1>8. HexToBinary(hex) = b
  <2>1. \A k \in 1 .. TokenSize :
            16 * DigitValue(hex[2 * k - 1]) + DigitValue(hex[2 * k]) = b[k]
    <3> SUFFICES ASSUME NEW k \in 1 .. TokenSize
                 PROVE  16 * DigitValue(hex[2 * k - 1]) + DigitValue(hex[2 * k]) = b[k]
      OBVIOUS
    <3>1. b[k] \in Bytes
      OBVIOUS
    <3>2. /\ DigitValue(hex[2 * k - 1]) = b[k] \div 16
          /\ DigitValue(hex[2 * k]) = b[k] % 16
      BY <1>1, <1>4, <3>1, DigitReads
    <3> QED  BY <1>1, <3>1, <3>2
  <2> QED  BY <2>1 DEF HexToBinary
<1> QED  BY <1>6, <1>7, <1>8 DEF hex

-----------------------------------------------------------------------------
(* Reading *)

\* The gateway finds an item where the message carries it.
LEMMA ItemRead ==
    ASSUME NEW m \in Seq(Cell), NEW p \in Nat, NEW number, NEW data \in Seq(Cell),
           Carries(m, p, number, data), p + 3 + Len(data) <= Len(m),
           Short(data)
    PROVE  /\ ItemAt(m, p + 1) = [number |-> number, data |-> data]
           /\ After(m, p + 1) = p + 4 + Len(data)
<1> DEFINE size == Network(Len(data), 2)
<1>1. Len(data) \in Nat /\ Len(m) \in Nat
  OBVIOUS
<1>2. Len(size) = 2 /\ 256 * size[1] + size[2] = Len(data)
  BY <1>1, NetworkBytes, SizeReads DEF Short
<1>3. m[p + 1] = number /\ Field(m, p + 1, size) /\ Field(m, p + 3, data)
  BY DEF Carries
<1> HIDE DEF size
<1>4. m[p + 2] = size[1] /\ m[p + 3] = size[2]
  <2>1. m[p + 1 + 1] = size[1] /\ m[p + 1 + 2] = size[2]
    BY <1>2, <1>3 DEF Field
  <2>2. p + 1 + 1 = p + 2 /\ p + 1 + 2 = p + 3
    OBVIOUS
  <2> QED  BY <2>1, <2>2
<1>5. /\ p + 1 \in 1 .. Len(m) /\ p + 2 \in 1 .. Len(m) /\ p + 3 \in 1 .. Len(m)
      /\ p + 1 + 1 = p + 2 /\ p + 1 + 2 = p + 3
  BY <1>1
<1>6. SizeAt(m, p + 1) = Len(data)
  BY <1>2, <1>4, <1>5 DEF SizeAt, ByteAt
<1>7. ByteAt(m, p + 1) = number
  BY <1>3, <1>5 DEF ByteAt
<1>8. \A j \in 1 .. Len(data) : ByteAt(m, p + 1 + 2 + j) = data[j]
  <2> SUFFICES ASSUME NEW j \in 1 .. Len(data)
               PROVE  ByteAt(m, p + 1 + 2 + j) = data[j]
    OBVIOUS
  <2>1. p + 1 + 2 + j = p + 3 + j /\ p + 3 + j \in 1 .. Len(m)
    BY <1>1
  <2>2. m[p + 3 + j] = data[j]
    BY <1>3 DEF Field
  <2> QED  BY <2>1, <2>2 DEF ByteAt
<1>9. [j \in 1 .. Len(data) |-> ByteAt(m, p + 1 + 2 + j)] = data
  BY <1>8
<1>10. ItemAt(m, p + 1) = [number |-> number, data |-> data]
  BY <1>6, <1>7, <1>9 DEF ItemAt
<1>11. After(m, p + 1) = p + 4 + Len(data)
  BY <1>1, <1>6 DEF After
<1> QED  BY <1>10, <1>11

\* A stretch of the message that is a field is its data.
LEMMA FieldIsStretch ==
    ASSUME NEW m \in Seq(Cell), NEW p \in Nat, NEW data \in Seq(Cell),
           Field(m, p, data), p + Len(data) <= Len(m)
    PROVE  SubSeq(m, p + 1, p + Len(data)) = data
<1> DEFINE part == SubSeq(m, p + 1, p + Len(data))
<1>1. Len(data) \in Nat /\ Len(m) \in Nat /\ p + 1 \in Int /\ p + Len(data) \in Int
  OBVIOUS
<1>2. \A i \in p + 1 .. p + Len(data) : m[i] \in Cell
  BY <1>1
<1>3. /\ part \in Seq(Cell)
      /\ Len(part) = IF p + 1 <= p + Len(data) THEN p + Len(data) - (p + 1) + 1 ELSE 0
      /\ \A i \in 1 .. p + Len(data) - (p + 1) + 1 : part[i] = m[p + 1 + i - 1]
  BY <1>1, <1>2, SubSeqProperties
<1> HIDE DEF part
<1>4. Len(part) = Len(data)
  BY <1>1, <1>3
<1>5. \A i \in 1 .. Len(data) : part[i] = data[i]
  <2> SUFFICES ASSUME NEW i \in 1 .. Len(data) PROVE part[i] = data[i]
    OBVIOUS
  <2>1. p + 1 + i - 1 = p + i /\ i \in 1 .. p + Len(data) - (p + 1) + 1
    BY <1>1
  <2>2. m[p + i] = data[i]
    BY DEF Field
  <2> QED  BY <1>3, <2>1, <2>2
<1>6. part = data
  BY <1>3, <1>4, <1>5, SeqEqual
<1> QED  BY <1>6 DEF part

-----------------------------------------------------------------------------
(* What stores and what reads, on a message laid out *)

\* An id stored takes the place of the one before, and disturbs nothing else.
LEMMA IdTakesPlace ==
    ASSUME NEW m \in Seq(Cell), NEW d1, NEW d2, NEW d3, NEW d4, NEW d5, NEW new,
           Lengths(d1, d2, d3, d4, d5), Laid(m, d1, d2, d3, d4, d5),
           new \in Seq(Cell), Len(new) = 4
    PROVE  /\ Store(m, IdPosition(Len(d2)), new) \in Seq(Cell)
           /\ Laid(Store(m, IdPosition(Len(d2)), new), d1, d2, new, d4, d5)
<1> DEFINE size == Network(FrameSize(Len(d2)), 4)
           J == Len(d2)
           at == IdPosition(J)
           s == Store(m, at, new)
<1>1. /\ d1 \in Seq(Cell) /\ d2 \in Seq(Cell) /\ d3 \in Seq(Cell)
      /\ d4 \in Seq(Cell) /\ d5 \in Seq(Cell)
  BY DEF Lengths
<1>2. /\ Len(d1) = TokenSize /\ Len(d3) = 4 /\ Len(d4) = 4 /\ Len(d5) = 1 /\ Len(new) = 4
      /\ J \in Nat /\ TokenSize \in Nat
  <2>1. J \in Nat
    BY <1>1
  <2>2. TokenSize \in Nat
    BY TokenSizeFits
  <2> QED  BY <2>1, <2>2, Zenon DEF Lengths
<1>3. at = 14 + TokenSize + J
  BY <1>2 DEF IdPosition, TokenPosition
<1>4. size \in Seq(Cell) /\ Len(size) = 4
  <2>1. FrameSize(J) \in Nat
    BY <1>2 DEF FrameSize
  <2> QED  BY <2>1, NetworkBytes, BytesAreCells
<1>5. /\ Len(m) = 29 + TokenSize + J /\ m[1] = 2 /\ Field(m, 1, size)
      /\ Carries(m, 5, 1, d1) /\ Carries(m, 8 + TokenSize, 2, d2)
      /\ Carries(m, 11 + TokenSize + J, 3, d3) /\ Carries(m, 18 + TokenSize + J, 4, d4)
      /\ Carries(m, 25 + TokenSize + J, 5, d5)
  BY DEF Laid
<1> HIDE DEF size, J, at
<1>6. at \in Nat
  BY <1>2, <1>3
<1>7. s \in Seq(Cell) /\ Len(s) = 29 + TokenSize + J /\ s[1] = 2
  <2>1. 1 \in 1 .. Len(m) /\ ~(1 - at \in 1 .. Len(new))
    BY <1>2, <1>3, <1>5
  <2>2. /\ s \in Seq(Cell) /\ Len(s) = Len(m)
        /\ \A k \in 1 .. Len(m) : s[k] = IF k - at \in 1 .. Len(new)
                                         THEN new[k - at] ELSE m[k]
    BY <1>6, StoreKeepsLength
  <2> HIDE DEF s
  <2> QED  BY <1>5, <2>1, <2>2
<1>8. Field(s, 1, size)
  <2>1. 1 + Len(size) <= Len(m) /\ 1 + Len(size) <= at /\ 1 \in Nat
    BY <1>2, <1>3, <1>4, <1>5
  <2> QED  BY <1>4, <1>5, <1>6, <2>1, StoreKeepsField, Zenon
<1>9. Carries(s, 5, 1, d1)
  <2>1. 5 \in Nat /\ 5 + 3 + Len(d1) <= Len(m) /\ 5 + 3 + Len(d1) <= at
    BY <1>2, <1>3, <1>5
  <2> QED  BY <1>1, <1>5, <1>6, <2>1, StoreKeepsItem, Zenon
<1>10. Carries(s, 8 + TokenSize, 2, d2)
  <2>1. /\ 8 + TokenSize \in Nat /\ 8 + TokenSize + 3 + Len(d2) <= Len(m)
        /\ 8 + TokenSize + 3 + Len(d2) <= at
    BY <1>2, <1>3, <1>5 DEF J
  <2> QED  BY <1>1, <1>5, <1>6, <2>1, StoreKeepsItem, Zenon
<1>11. Carries(s, 11 + TokenSize + J, 3, new)
  <2>1. /\ 11 + TokenSize + J \in Nat /\ 11 + TokenSize + J + 3 + Len(d3) <= Len(m)
        /\ Len(new) = Len(d3) /\ at = 11 + TokenSize + J + 3
    BY <1>2, <1>3, <1>5
  <2>2. Carries(Store(m, 11 + TokenSize + J + 3, new), 11 + TokenSize + J, 3, new)
    BY <1>1, <1>5, <2>1, StoreSetsItem, Zenon
  <2> QED  BY <2>1, <2>2, Zenon
<1>12. Carries(s, 18 + TokenSize + J, 4, d4)
  <2>1. /\ 18 + TokenSize + J \in Nat /\ 18 + TokenSize + J + 3 + Len(d4) <= Len(m)
        /\ at + Len(new) <= 18 + TokenSize + J
    BY <1>2, <1>3, <1>5
  <2> QED  BY <1>1, <1>5, <1>6, <2>1, StoreKeepsItem, Zenon
<1>13. Carries(s, 25 + TokenSize + J, 5, d5)
  <2>1. /\ 25 + TokenSize + J \in Nat /\ 25 + TokenSize + J + 3 + Len(d5) <= Len(m)
        /\ at + Len(new) <= 25 + TokenSize + J
    BY <1>2, <1>3, <1>5
  <2> QED  BY <1>1, <1>5, <1>6, <2>1, StoreKeepsItem, Zenon
<1> HIDE DEF s
<1>14. Laid(s, d1, d2, new, d4, d5)
  BY <1>7, <1>8, <1>9, <1>10, <1>11, <1>12, <1>13, Zenon DEF Laid, size, J
<1> QED  BY <1>7, <1>14, Zenon DEF s, at, J

\* So does a token.
LEMMA TokenTakesPlace ==
    ASSUME NEW m \in Seq(Cell), NEW d1, NEW d2, NEW d3, NEW d4, NEW d5, NEW new,
           Lengths(d1, d2, d3, d4, d5), Laid(m, d1, d2, d3, d4, d5),
           new \in Seq(Cell), Len(new) = TokenSize
    PROVE  /\ Store(m, TokenPosition, new) \in Seq(Cell)
           /\ Laid(Store(m, TokenPosition, new), new, d2, d3, d4, d5)
<1> DEFINE size == Network(FrameSize(Len(d2)), 4)
           J == Len(d2)
           at == TokenPosition
           s == Store(m, at, new)
<1>1. /\ d1 \in Seq(Cell) /\ d2 \in Seq(Cell) /\ d3 \in Seq(Cell)
      /\ d4 \in Seq(Cell) /\ d5 \in Seq(Cell)
  BY DEF Lengths
<1>2. /\ Len(d1) = TokenSize /\ Len(d3) = 4 /\ Len(d4) = 4 /\ Len(d5) = 1
      /\ Len(new) = TokenSize /\ J \in Nat /\ TokenSize \in Nat
  <2>1. J \in Nat
    BY <1>1
  <2>2. TokenSize \in Nat
    BY TokenSizeFits
  <2> QED  BY <2>1, <2>2, Zenon DEF Lengths
<1>3. at = 8
  BY DEF TokenPosition
<1>4. size \in Seq(Cell) /\ Len(size) = 4
  <2>1. FrameSize(J) \in Nat
    BY <1>2 DEF FrameSize
  <2> QED  BY <2>1, NetworkBytes, BytesAreCells
<1>5. /\ Len(m) = 29 + TokenSize + J /\ m[1] = 2 /\ Field(m, 1, size)
      /\ Carries(m, 5, 1, d1) /\ Carries(m, 8 + TokenSize, 2, d2)
      /\ Carries(m, 11 + TokenSize + J, 3, d3) /\ Carries(m, 18 + TokenSize + J, 4, d4)
      /\ Carries(m, 25 + TokenSize + J, 5, d5)
  BY DEF Laid
<1> HIDE DEF size, J, at
<1>6. at \in Nat
  BY <1>3
<1>7. s \in Seq(Cell) /\ Len(s) = 29 + TokenSize + J /\ s[1] = 2
  <2>1. 1 \in 1 .. Len(m) /\ ~(1 - at \in 1 .. Len(new))
    BY <1>2, <1>3, <1>5
  <2>2. /\ s \in Seq(Cell) /\ Len(s) = Len(m)
        /\ \A k \in 1 .. Len(m) : s[k] = IF k - at \in 1 .. Len(new)
                                         THEN new[k - at] ELSE m[k]
    BY <1>6, StoreKeepsLength
  <2> HIDE DEF s
  <2> QED  BY <1>5, <2>1, <2>2
<1>8. Field(s, 1, size)
  <2>1. 1 + Len(size) <= Len(m) /\ 1 + Len(size) <= at /\ 1 \in Nat
    BY <1>2, <1>3, <1>4, <1>5
  <2> QED  BY <1>4, <1>5, <1>6, <2>1, StoreKeepsField, Zenon
<1>9. Carries(s, 5, 1, new)
  <2>1. /\ 5 \in Nat /\ 5 + 3 + Len(d1) <= Len(m) /\ Len(new) = Len(d1) /\ at = 5 + 3
    BY <1>2, <1>3, <1>5
  <2>2. Carries(Store(m, 5 + 3, new), 5, 1, new)
    BY <1>1, <1>5, <2>1, StoreSetsItem, Zenon
  <2> QED  BY <2>1, <2>2, Zenon
<1>10. Carries(s, 8 + TokenSize, 2, d2)
  <2>1. /\ 8 + TokenSize \in Nat /\ 8 + TokenSize + 3 + Len(d2) <= Len(m)
        /\ at + Len(new) <= 8 + TokenSize
    BY <1>2, <1>3, <1>5 DEF J
  <2> QED  BY <1>1, <1>5, <1>6, <2>1, StoreKeepsItem, Zenon
<1>11. Carries(s, 11 + TokenSize + J, 3, d3)
  <2>1. /\ 11 + TokenSize + J \in Nat /\ 11 + TokenSize + J + 3 + Len(d3) <= Len(m)
        /\ at + Len(new) <= 11 + TokenSize + J
    BY <1>2, <1>3, <1>5
  <2> QED  BY <1>1, <1>5, <1>6, <2>1, StoreKeepsItem, Zenon
<1>12. Carries(s, 18 + TokenSize + J, 4, d4)
  <2>1. /\ 18 + TokenSize + J \in Nat /\ 18 + TokenSize + J + 3 + Len(d4) <= Len(m)
        /\ at + Len(new) <= 18 + TokenSize + J
    BY <1>2, <1>3, <1>5
  <2> QED  BY <1>1, <1>5, <1>6, <2>1, StoreKeepsItem, Zenon
<1>13. Carries(s, 25 + TokenSize + J, 5, d5)
  <2>1. /\ 25 + TokenSize + J \in Nat /\ 25 + TokenSize + J + 3 + Len(d5) <= Len(m)
        /\ at + Len(new) <= 25 + TokenSize + J
    BY <1>2, <1>3, <1>5
  <2> QED  BY <1>1, <1>5, <1>6, <2>1, StoreKeepsItem, Zenon
<1> HIDE DEF s
<1>14. Laid(s, new, d2, d3, d4, d5)
  BY <1>7, <1>8, <1>9, <1>10, <1>11, <1>12, <1>13, Zenon DEF Laid, size, J
<1> QED  BY <1>7, <1>14, Zenon DEF s, at

\* The gateway finds the five items and nothing behind them, and id and token are
\* where they are stored.
LEMMA LaidReads ==
    ASSUME NEW m \in Seq(Cell), NEW d1, NEW d2, NEW d3, NEW d4, NEW d5,
           Lengths(d1, d2, d3, d4, d5), Laid(m, d1, d2, d3, d4, d5)
    PROVE  /\ m[1] = 2
           /\ Parsed(m).items = <<[number |-> 1, data |-> d1], [number |-> 2, data |-> d2],
                                  [number |-> 3, data |-> d3], [number |-> 4, data |-> d4],
                                  [number |-> 5, data |-> d5]>>
           /\ Parsed(m).size = Len(m)
           /\ SubSeq(m, 2, 5) = Network(Len(m) - 5, 4)
           /\ Len(m) = 5 + FrameSize(Len(d2))
           /\ SubSeq(m, IdPosition(Len(d2)) + 1, IdPosition(Len(d2)) + 4) = d3
           /\ SubSeq(m, TokenPosition + 1, TokenPosition + TokenSize) = d1
<1> DEFINE size == Network(FrameSize(Len(d2)), 4)
           J == Len(d2)
<1>1. /\ d1 \in Seq(Cell) /\ d2 \in Seq(Cell) /\ d3 \in Seq(Cell)
      /\ d4 \in Seq(Cell) /\ d5 \in Seq(Cell)
  BY DEF Lengths
<1>2. /\ Len(d1) = TokenSize /\ Short(d2) /\ Len(d3) = 4 /\ Len(d4) = 4 /\ Len(d5) = 1
      /\ J \in Nat /\ TokenSize \in Nat /\ Short(d1) /\ Short(d3) /\ Short(d4) /\ Short(d5)
  <2>1. J \in Nat
    BY <1>1
  <2>2. /\ Len(d1) = TokenSize /\ Short(d2) /\ Len(d3) = 4 /\ Len(d4) = 4
        /\ Len(d5) = 1
    BY Zenon DEF Lengths
  <2>3. Short(d1) /\ Short(d3) /\ Short(d4) /\ Short(d5)
    BY <2>2, TokenSizeFits DEF Short
  <2> QED  BY <2>1, <2>2, <2>3, TokenSizeFits
<1>3. size \in Seq(Cell) /\ Len(size) = 4
  <2>1. FrameSize(J) \in Nat
    BY <1>2 DEF FrameSize
  <2> QED  BY <2>1, NetworkBytes, BytesAreCells
<1>4. /\ Len(m) = 29 + TokenSize + J /\ m[1] = 2 /\ Field(m, 1, size)
      /\ Carries(m, 5, 1, d1) /\ Carries(m, 8 + TokenSize, 2, d2)
      /\ Carries(m, 11 + TokenSize + J, 3, d3) /\ Carries(m, 18 + TokenSize + J, 4, d4)
      /\ Carries(m, 25 + TokenSize + J, 5, d5)
  BY DEF Laid
<1>5. FrameSize(J) = Len(m) - 5 /\ Len(m) = 5 + FrameSize(J)
  BY <1>2, <1>4 DEF FrameSize
<1>6. IdPosition(J) = 14 + TokenSize + J /\ TokenPosition = 8
  BY <1>2 DEF IdPosition, TokenPosition
<1>7. size = Network(Len(m) - 5, 4)
  BY <1>5
<1> HIDE DEF size, J
<1>8. J = Len(d2)
  BY DEF J
<1> DEFINE Has(p, number, d) ==
               /\ p \in Nat /\ d \in Seq(Cell) /\ Short(d) /\ p + 3 + Len(d) <= Len(m)
               /\ Carries(m, p, number, d)
           Read(p, number, d) ==
               /\ ItemAt(m, p + 1) = [number |-> number, data |-> d]
               /\ After(m, p + 1) = p + 4 + Len(d)
<1>9. \A p, number, d : Has(p, number, d) => Read(p, number, d)
  BY ItemRead
<1>10. /\ Has(5, 1, d1) /\ Has(8 + TokenSize, 2, d2) /\ Has(11 + TokenSize + J, 3, d3)
       /\ Has(18 + TokenSize + J, 4, d4) /\ Has(25 + TokenSize + J, 5, d5)
  BY <1>1, <1>2, <1>4, <1>8
<1> HIDE DEF Has, Read
<1>11. /\ Read(5, 1, d1) /\ Read(8 + TokenSize, 2, d2) /\ Read(11 + TokenSize + J, 3, d3)
       /\ Read(18 + TokenSize + J, 4, d4) /\ Read(25 + TokenSize + J, 5, d5)
  BY <1>9, <1>10
<1> DEFINE second == 9 + TokenSize
           third == 12 + TokenSize + J
           fourth == 19 + TokenSize + J
           fifth == 26 + TokenSize + J
           end == 30 + TokenSize + J
<1>12. /\ 6 = 5 + 1 /\ second = 5 + 4 + Len(d1)
       /\ second = 8 + TokenSize + 1 /\ third = 8 + TokenSize + 4 + Len(d2)
       /\ third = 11 + TokenSize + J + 1 /\ fourth = 11 + TokenSize + J + 4 + Len(d3)
       /\ fourth = 18 + TokenSize + J + 1 /\ fifth = 18 + TokenSize + J + 4 + Len(d4)
       /\ fifth = 25 + TokenSize + J + 1 /\ end = 25 + TokenSize + J + 4 + Len(d5)
       /\ end - 1 = Len(m)
  BY <1>2, <1>4, <1>8
<1> HIDE DEF second, third, fourth, fifth, end
<1>13. /\ ItemAt(m, 6) = [number |-> 1, data |-> d1] /\ After(m, 6) = second
       /\ ItemAt(m, second) = [number |-> 2, data |-> d2] /\ After(m, second) = third
       /\ ItemAt(m, third) = [number |-> 3, data |-> d3] /\ After(m, third) = fourth
       /\ ItemAt(m, fourth) = [number |-> 4, data |-> d4] /\ After(m, fourth) = fifth
       /\ ItemAt(m, fifth) = [number |-> 5, data |-> d5] /\ After(m, fifth) = end
  BY <1>11, <1>12 DEF Read
<1>14. Parsed(m) = [items |-> <<ItemAt(m, 6), ItemAt(m, second), ItemAt(m, third),
                                ItemAt(m, fourth), ItemAt(m, fifth)>>,
                    size  |-> end - 1]
  BY <1>13 DEF Parsed
<1>15. /\ Parsed(m).items =
              <<[number |-> 1, data |-> d1], [number |-> 2, data |-> d2],
                [number |-> 3, data |-> d3], [number |-> 4, data |-> d4],
                [number |-> 5, data |-> d5]>>
       /\ Parsed(m).size = Len(m)
  <2> DEFINE items == <<ItemAt(m, 6), ItemAt(m, second), ItemAt(m, third),
                        ItemAt(m, fourth), ItemAt(m, fifth)>>
  <2>1. items = <<[number |-> 1, data |-> d1], [number |-> 2, data |-> d2],
                  [number |-> 3, data |-> d3], [number |-> 4, data |-> d4],
                  [number |-> 5, data |-> d5]>>
    BY <1>13, Zenon
  <2>2. Parsed(m) = [items |-> items, size |-> end - 1]
    BY <1>14, Zenon
  <2> HIDE DEF items
  <2>3. Parsed(m).items = items /\ Parsed(m).size = end - 1
    BY <2>2
  <2> QED  BY <1>12, <2>1, <2>3, Zenon
<1>16. SubSeq(m, 2, 5) = size
  <2>1. 1 + Len(size) <= Len(m) /\ 1 \in Nat /\ 1 + 1 = 2 /\ 1 + Len(size) = 5
    BY <1>2, <1>3, <1>4
  <2>2. SubSeq(m, 1 + 1, 1 + Len(size)) = size
    BY <1>3, <1>4, <2>1, FieldIsStretch, Zenon
  <2> QED  BY <2>1, <2>2, Zenon
<1>17. SubSeq(m, IdPosition(J) + 1, IdPosition(J) + 4) = d3
  <2> DEFINE p == 11 + TokenSize + J + 3
  <2>1. p \in Nat /\ p + Len(d3) <= Len(m) /\ p = IdPosition(J) /\ Len(d3) = 4
    BY <1>2, <1>4, <1>6
  <2>2. Field(m, p, d3)
    BY <1>4 DEF Carries
  <2> HIDE DEF p
  <2>3. SubSeq(m, p + 1, p + Len(d3)) = d3
    BY <1>1, <2>1, <2>2, FieldIsStretch, Zenon
  <2> QED  BY <2>1, <2>3, Zenon
<1>18. SubSeq(m, TokenPosition + 1, TokenPosition + TokenSize) = d1
  <2> DEFINE p == 5 + 3
  <2>1. p \in Nat /\ p + Len(d1) <= Len(m) /\ p = TokenPosition /\ Len(d1) = TokenSize
    BY <1>2, <1>4, <1>6
  <2>2. Field(m, p, d1)
    BY <1>4 DEF Carries
  <2> HIDE DEF p
  <2>3. SubSeq(m, p + 1, p + Len(d1)) = d1
    BY <1>1, <2>1, <2>2, FieldIsStretch, Zenon
  <2> QED  BY <2>1, <2>3, Zenon
<1> QED  BY <1>4, <1>5, <1>7, <1>15, <1>16, <1>17, <1>18 DEF J

-----------------------------------------------------------------------------
(* The invariant *)

\* A document that is not refused is short enough for an item.
LEMMA DocumentFits ==
    ASSUME NEW data \in Seq(Cell), Len(data) <= MaxPayload PROVE Short(data)
<1>1. MaxPayload \in Nat /\ MaxPayload < 65536
  BY MessageAssumption
<1>2. Len(data) \in Nat
  OBVIOUS
<1> QED  BY <1>1, <1>2 DEF Short

\* The data of a message, in the lengths the layout counts on.
LEMMA SourceLengths ==
    ASSUME NEW src \in [json : Seq(Bytes), expiry : Nat, priority : Bytes],
           Len(src.json) <= MaxPayload, NEW n \in Nat,
           NEW token \in [1 .. TokenSize -> Cell]
    PROVE  Lengths(token, src.json, Network(n, 4), Network(src.expiry, 4),
                   <<src.priority>>)
<1>1. token \in Seq(Cell) /\ Len(token) = TokenSize
  BY TokenSizeFits, FunctionIsSequence
<1>2. src.json \in Seq(Cell)
  BY BytesAreCells
<1>3. Short(src.json)
  BY <1>2, DocumentFits
<1>4. \A k \in Nat : Network(k, 4) \in Seq(Cell) /\ Len(Network(k, 4)) = 4
  BY NetworkBytes, BytesAreCells
<1>5. <<src.priority>> \in Seq(Cell) /\ Len(<<src.priority>>) = 1
  BY DEF Cell
<1>6. src.expiry \in Nat
  OBVIOUS
<1> QED  BY <1>1, <1>2, <1>3, <1>4, <1>5, <1>6 DEF Lengths

\* The token in the message, known or not, is as long as a token.
LEMMA StoredTokenTyped ==
    ASSUME tokenHex.set => IsToken(tokenHex.string)
    PROVE  StoredToken \in [1 .. TokenSize -> Cell]
<1>1. CASE tokenHex.set
  <2>1. HexToBinary(tokenHex.string) \in [1 .. TokenSize -> Bytes]
    BY <1>1, TokenReads
  <2> QED  BY <1>1, <2>1 DEF StoredToken, Cell
<1>2. CASE ~tokenHex.set
  BY <1>2 DEF StoredToken, Cell
<1> QED  BY <1>1, <1>2

\* What a ready message is, for the steps that store in it or read it.
LEMMA ReadyFacts ==
    ASSUME MessageInv, pc = "ready"
    PROVE  /\ message \in Seq(Cell) /\ id \in Nat
           /\ source \in [json : Seq(Bytes), expiry : Nat, priority : Bytes]
           /\ Len(source.json) <= MaxPayload
           /\ Lengths(StoredToken, source.json, Network(id, 4),
                      Network(source.expiry, 4), <<source.priority>>)
           /\ Laid(message, StoredToken, source.json, Network(id, 4),
                   Network(source.expiry, 4), <<source.priority>>)
<1>1. /\ message \in Seq(Cell) /\ id \in Nat
      /\ source \in [json : Seq(Bytes), expiry : Nat, priority : Bytes]
  BY DEF MessageInv, TypeOK, Cell
<1>2. /\ Len(source.json) <= MaxPayload
      /\ Laid(message, StoredToken, source.json, Network(id, 4),
              Network(source.expiry, 4), <<source.priority>>)
  BY DEF MessageInv, Standing
<1>3. StoredToken \in [1 .. TokenSize -> Cell]
  BY StoredTokenTyped DEF MessageInv
<1>4. Lengths(StoredToken, source.json, Network(id, 4), Network(source.expiry, 4),
              <<source.priority>>)
  BY <1>1, <1>2, <1>3, SourceLengths
<1> QED  BY <1>1, <1>2, <1>4

\* A message created is laid out.
LEMMA CreateKeeps ==
    ASSUME MessageInv, NEW json \in Documents, NEW expiry \in Expiries,
           NEW priority \in Priorities, Create(json, expiry, priority)
    PROVE  MessageInv'
<1>1. pc = "none" /\ ~tokenHex.set /\ id = 0 /\ UNCHANGED <<tokenHex, id>>
  BY DEF Create, MessageInv
<1>2. CASE pc' = "refused" /\ UNCHANGED <<message, source>>
  BY <1>1, <1>2 DEF MessageInv, TypeOK
<1>3. CASE /\ Len(json) <= MaxPayload /\ pc' = "ready"
           /\ source' = [json |-> json, expiry |-> expiry, priority |-> priority]
           /\ message' = <<2>> \o Network(FrameSize(Len(json)), 4) \o Frame(source')
  <2> DEFINE src == [json |-> json, expiry |-> expiry, priority |-> priority]
             m == <<2>> \o Network(FrameSize(Len(json)), 4) \o Frame(src)
             token == [k \in 1 .. TokenSize |-> Unwritten]
  <2>1. src \in [json : Seq(Bytes), expiry : Nat, priority : Bytes]
    BY MessageAssumption
  <2>2. source' = src /\ source'.json = json /\ message' = m
    BY <1>3
  <2>3. src.json = json
    OBVIOUS
  <2> HIDE DEF src
  <2>4. /\ m \in Seq(Cell)
        /\ Laid(m, token, src.json, Network(0, 4), Network(src.expiry, 4),
                <<src.priority>>)
    BY <2>1, <2>3, FrameLaid
  <2> HIDE DEF m
  <2>5. StoredToken' = token
    BY <1>1 DEF StoredToken
  <2>6. id' = 0
    BY <1>1
  <2> HIDE DEF token
  <2>7. Laid(message', StoredToken', source'.json, Network(id', 4),
             Network(source'.expiry, 4), <<source'.priority>>)
    BY <2>2, <2>4, <2>5, <2>6
  <2>8. Standing'
    BY <1>3, <2>2, <2>7 DEF Standing, Laid, StoredToken
  <2>9. TypeOK'
    BY <1>1, <1>3, <2>1, <2>2, <2>4 DEF MessageInv, TypeOK, Cell
  <2> QED  BY <1>1, <1>3, <2>8, <2>9 DEF MessageInv
<1> QED  BY <1>2, <1>3 DEF Create

\* An id stored is the one the message tells.
LEMMA SetIdKeeps ==
    ASSUME MessageInv, NEW n \in Ids, SetId(n)
    PROVE  MessageInv'
<1> DEFINE m == Store(message, IdPosition(Len(source.json)), Network(n, 4))
<1>1. /\ pc = "ready" /\ message' = m /\ id' = n /\ UNCHANGED <<pc, tokenHex, source>>
  BY DEF SetId
<1>2. n \in Nat /\ Network(n, 4) \in Seq(Cell) /\ Len(Network(n, 4)) = 4
  BY MessageAssumption, NetworkBytes, BytesAreCells
<1>3. /\ message \in Seq(Cell) /\ Len(source.json) <= MaxPayload
      /\ Lengths(StoredToken, source.json, Network(id, 4),
                 Network(source.expiry, 4), <<source.priority>>)
      /\ Laid(message, StoredToken, source.json, Network(id, 4),
              Network(source.expiry, 4), <<source.priority>>)
  BY <1>1, ReadyFacts
<1>4. /\ m \in Seq(Cell)
      /\ Laid(m, StoredToken, source.json, Network(n, 4), Network(source.expiry, 4),
              <<source.priority>>)
  BY <1>2, <1>3, IdTakesPlace
<1> HIDE DEF m
<1>5. StoredToken' = StoredToken
  BY <1>1 DEF StoredToken
<1>6. Laid(message', StoredToken', source'.json, Network(id', 4),
           Network(source'.expiry, 4), <<source'.priority>>)
  BY <1>1, <1>4, <1>5
<1>7. Standing'
  BY <1>1, <1>3, <1>6 DEF Standing
<1>8. TypeOK'
  BY <1>1, <1>2, <1>4 DEF MessageInv, TypeOK, Cell
<1> QED  BY <1>1, <1>7, <1>8 DEF MessageInv

\* A token stored is the one whose hexadecimal form is kept.
LEMMA SetTokenKeeps ==
    ASSUME MessageInv, pc = "ready", NEW hex \in Seq(1 .. 255), IsToken(hex),
           NEW binary, binary = HexToBinary(hex), SetToken(binary, hex)
    PROVE  MessageInv'
<1> DEFINE m == Store(message, TokenPosition, binary)
<1>1. /\ message' = m /\ tokenHex' = [string |-> hex, set |-> TRUE]
      /\ UNCHANGED <<pc, source, id>>
  BY DEF SetToken
<1>2. binary \in Seq(Cell) /\ Len(binary) = TokenSize
  <2>1. binary \in [1 .. TokenSize -> Bytes]
    BY TokenReads
  <2>2. binary \in [1 .. TokenSize -> Cell]
    BY <2>1 DEF Cell
  <2> QED  BY <2>2, TokenSizeFits, FunctionIsSequence
<1>3. /\ message \in Seq(Cell) /\ Len(source.json) <= MaxPayload
      /\ Lengths(StoredToken, source.json, Network(id, 4),
                 Network(source.expiry, 4), <<source.priority>>)
      /\ Laid(message, StoredToken, source.json, Network(id, 4),
              Network(source.expiry, 4), <<source.priority>>)
  BY ReadyFacts
<1>4. /\ m \in Seq(Cell)
      /\ Laid(m, binary, source.json, Network(id, 4), Network(source.expiry, 4),
              <<source.priority>>)
  BY <1>2, <1>3, TokenTakesPlace
<1> HIDE DEF m
<1>5. StoredToken' = binary
  BY <1>1 DEF StoredToken
<1>6. Laid(message', StoredToken', source'.json, Network(id', 4),
           Network(source'.expiry, 4), <<source'.priority>>)
  BY <1>1, <1>4, <1>5
<1>7. Standing'
  BY <1>1, <1>3, <1>6 DEF Standing
<1>8. TypeOK'
  BY <1>1, <1>4 DEF MessageInv, TypeOK, Cell
<1>9. tokenHex'.set => IsToken(tokenHex'.string)
  BY <1>1
<1> QED  BY <1>1, <1>7, <1>8, <1>9 DEF MessageInv

\* A step that changes nothing keeps the invariant.
LEMMA StutterKeeps == MessageInv /\ UNCHANGED vars => MessageInv'
BY DEF vars, MessageInv, TypeOK, Standing, StoredToken

\* Any call keeps the invariant, with strings of whatever bytes for tokens.
LEMMA StepKeeps ==
    ASSUME MessageInv, NEW strings \in SUBSET Seq(1 .. 255), Step(strings)
    PROVE  MessageInv'
<1>1. ASSUME NEW json \in Documents, NEW expiry \in Expiries, NEW priority \in Priorities,
             Create(json, expiry, priority)
      PROVE  MessageInv'
  BY <1>1, CreateKeeps
<1>2. ASSUME NEW n \in Ids, SetId(n) PROVE MessageInv'
  BY <1>2, SetIdKeeps
<1>3. ASSUME UNCHANGED vars PROVE MessageInv'
  BY <1>3, StutterKeeps
<1>4. ASSUME NEW s \in strings, SetTokenHex(s) PROVE MessageInv'
  <2>1. CASE IsToken(s) /\ SetToken(HexToBinary(s), s)
    <3>1. pc = "ready" /\ s \in Seq(1 .. 255)
      BY <1>4 DEF SetTokenHex
    <3> QED  BY <2>1, <3>1, SetTokenKeeps
  <2>2. CASE ~IsToken(s) /\ UNCHANGED vars
    BY <1>3, <2>2
  <2> QED  BY <1>4, <2>1, <2>2 DEF SetTokenHex
<1>5. ASSUME NEW binary \in Binaries, SetTokenBinary(binary) PROVE MessageInv'
  <2>1. pc = "ready" /\ SetToken(binary, BinaryToHex(binary))
    BY <1>5 DEF SetTokenBinary
  <2>2. /\ BinaryToHex(binary) \in Seq(1 .. 255) /\ IsToken(BinaryToHex(binary))
        /\ binary = HexToBinary(BinaryToHex(binary))
    BY MessageAssumption, HexReadsBack
  <2> QED  BY <2>1, <2>2, SetTokenKeeps
<1>6. ASSUME Free PROVE MessageInv'
  BY <1>6 DEF Free, MessageInv, TypeOK
<1>7. ASSUME Terminated PROVE MessageInv'
  BY <1>3, <1>7 DEF Terminated
<1> QED  BY <1>1, <1>2, <1>4, <1>5, <1>6, <1>7 DEF Step

\* The invariant holds at the start.
LEMMA InitKeeps == Init => MessageInv
<1> SUFFICES ASSUME Init PROVE MessageInv
  OBVIOUS
<1>1. NoSource \in [json : Seq(Bytes), expiry : Nat, priority : Bytes]
  BY DEF NoSource, Bytes
<1>2. NoToken \in [string : Seq(1 .. 255), set : BOOLEAN] /\ ~NoToken.set
  BY DEF NoToken
<1>3. message \in Seq(Bytes \union {Unwritten})
  BY DEF Init
<1> QED  BY <1>1, <1>2, <1>3 DEF Init, MessageInv, TypeOK

\* A message laid out is what the gateway reads, with id and token in their places.
LEMMA InvTellsFrame == MessageInv => FrameTells
<1> SUFFICES ASSUME MessageInv, pc = "ready"
             PROVE  /\ message[1] = 2
                    /\ Parsed(message).items =
                           <<[number |-> 1, data |-> StoredToken],
                             [number |-> 2, data |-> source.json],
                             [number |-> 3, data |-> Network(id, 4)],
                             [number |-> 4, data |-> Network(source.expiry, 4)],
                             [number |-> 5, data |-> <<source.priority>>]>>
                    /\ Parsed(message).size = Len(message)
                    /\ SubSeq(message, 2, 5) = Network(Len(message) - 5, 4)
                    /\ PlacesRight
  BY DEF FrameTells
<1>1. PlacesRight
  <2>1. /\ Len(message) = 5 + FrameSize(Len(source.json))
        /\ SubSeq(message, IdPosition(Len(source.json)) + 1,
                  IdPosition(Len(source.json)) + 4) = Network(id, 4)
        /\ SubSeq(message, TokenPosition + 1, TokenPosition + TokenSize) = StoredToken
    BY ReadyFacts, LaidReads
  <2> QED  BY <2>1 DEF PlacesRight, StoredToken
<1> QED  BY <1>1, ReadyFacts, LaidReads

-----------------------------------------------------------------------------
(* The theorems *)

\* The message is laid out as the gateway reads it, whatever is stored in it
\* (apn_binary_message.c:37-211).
THEOREM MessageInvariant == Spec => []MessageInv
<1>1. MessageInv /\ [Next]_vars => MessageInv'
  <2> SUFFICES ASSUME MessageInv, [Next]_vars PROVE MessageInv'
    OBVIOUS
  <2>1. CASE Next
    BY <2>1, StepKeeps, MessageAssumption DEF Next
  <2>2. CASE UNCHANGED vars
    BY <2>2, StutterKeeps
  <2> QED  BY <2>1, <2>2
<1> QED  BY <1>1, InitKeeps, PTL DEF Spec

\* The message and what is kept beside it have their types: a byte nobody has
\* written is the only one that is none.
THEOREM TypeCorrect == Spec => []TypeOK
<1>1. MessageInv => TypeOK
  BY DEF MessageInv
<1> QED  BY <1>1, MessageInvariant, PTL

\* Whatever was stored in the message, the gateway finds in it the command, five
\* items and nothing behind them, with what was stored last, and the size of all
\* that in front; the next id and token are stored where it looks for them,
\* however long the document is (apn_binary_message.c:96-211).
THEOREM FrameTellsHolds == Spec => []FrameTells
BY InvTellsFrame, MessageInvariant, PTL
=============================================================================
