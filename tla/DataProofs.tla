---------------------------- MODULE DataProofs ----------------------------
(***************************************************************************)
(* Theorems about the string functions, for strings over any bytes and of  *)
(* any length and for buffers of any size: what is copied, and where it    *)
(* ends; what is taken for UTF-8; what a list of tokens is cut into; and a *)
(* token's two forms.                                                      *)
(***************************************************************************)
EXTENDS MCData, ApnMessageProofs, FiniteSetTheorems

-----------------------------------------------------------------------------
(* Stretches of a sequence *)

\* The smaller of two numbers.
LEMMA MinOfTwo ==
    ASSUME NEW a \in Int, NEW b \in Int
    PROVE  Min({a, b}) = IF a <= b THEN a ELSE b
<1> DEFINE least == IF a <= b THEN a ELSE b
<1>1. least \in {a, b} /\ \A y \in {a, b} : least =< y
  OBVIOUS
<1>2. Min({a, b}) \in {a, b} /\ \A y \in {a, b} : Min({a, b}) =< y
  BY <1>1 DEF Min
<1> QED  BY <1>1, <1>2

\* What a stretch is: its length and elements.
LEMMA Stretch ==
    ASSUME NEW S, NEW s \in Seq(S), NEW from \in Nat, NEW n \in Nat, from + n <= Len(s)
    PROVE  /\ SubSeq(s, from + 1, from + n) \in Seq(S)
           /\ Len(SubSeq(s, from + 1, from + n)) = n
           /\ \A i \in 1 .. n : SubSeq(s, from + 1, from + n)[i] = s[from + i]
<1> DEFINE part == SubSeq(s, from + 1, from + n)
<1>1. Len(s) \in Nat /\ from + 1 \in Int /\ from + n \in Int
  OBVIOUS
<1>2. \A i \in from + 1 .. from + n : s[i] \in S
  BY <1>1
<1>3. /\ part \in Seq(S)
      /\ Len(part) = IF from + 1 <= from + n THEN from + n - (from + 1) + 1 ELSE 0
      /\ \A i \in 1 .. from + n - (from + 1) + 1 : part[i] = s[from + 1 + i - 1]
  BY <1>1, <1>2, SubSeqProperties
<1> HIDE DEF part
<1>4. Len(part) = n
  BY <1>3
<1>5. \A i \in 1 .. n : part[i] = s[from + i]
  <2> SUFFICES ASSUME NEW i \in 1 .. n PROVE part[i] = s[from + i]
    OBVIOUS
  <2>1. from + 1 + i - 1 = from + i /\ i \in 1 .. from + n - (from + 1) + 1
    BY <1>1
  <2> QED  BY <1>3, <2>1
<1> QED  BY <1>3, <1>4, <1>5 DEF part

\* The beginning of a stretch is a stretch.
LEMMA StretchOfStretch ==
    ASSUME NEW S, NEW s \in Seq(S), NEW from \in Nat, NEW n \in Nat, NEW k \in Nat,
           from + n <= Len(s), k <= n
    PROVE  SubSeq(SubSeq(s, from + 1, from + n), 1, k) = SubSeq(s, from + 1, from + k)
<1> DEFINE part == SubSeq(s, from + 1, from + n)
           whole == SubSeq(s, from + 1, from + k)
           piece == SubSeq(part, 0 + 1, 0 + k)
<1>1. /\ part \in Seq(S) /\ Len(part) = n
      /\ \A i \in 1 .. n : part[i] = s[from + i]
  BY Stretch
<1>2. /\ whole \in Seq(S) /\ Len(whole) = k
      /\ \A i \in 1 .. k : whole[i] = s[from + i]
  <2>1. from + k <= Len(s)
    OBVIOUS
  <2> QED  BY <2>1, Stretch
<1> HIDE DEF part, whole
<1>3. /\ piece \in Seq(S) /\ Len(piece) = k
      /\ \A i \in 1 .. k : piece[i] = part[0 + i]
  <2>1. 0 + k <= Len(part) /\ 0 \in Nat
    BY <1>1
  <2> QED  BY <1>1, <2>1, Stretch
<1> HIDE DEF piece
<1>4. \A i \in 1 .. k : piece[i] = whole[i]
  <2> SUFFICES ASSUME NEW i \in 1 .. k PROVE piece[i] = whole[i]
    OBVIOUS
  <2>1. i \in 1 .. n /\ 0 + i = i
    OBVIOUS
  <2>2. piece[i] = part[i] /\ part[i] = s[from + i]
    BY <1>1, <1>3, <2>1
  <2> QED  BY <1>2, <2>2
<1>5. piece = whole
  BY <1>2, <1>3, <1>4, SeqEqual
<1>6. piece = SubSeq(part, 1, k)
  BY DEF piece
<1> QED  BY <1>5, <1>6 DEF part, whole

\* All of a sequence is the sequence.
LEMMA WholeStretch ==
    ASSUME NEW S, NEW s \in Seq(S)
    PROVE  SubSeq(s, 1, Len(s)) = s
<1> DEFINE whole == SubSeq(s, 0 + 1, 0 + Len(s))
<1>1. /\ whole \in Seq(S) /\ Len(whole) = Len(s)
      /\ \A i \in 1 .. Len(s) : whole[i] = s[0 + i]
  BY Stretch
<1> HIDE DEF whole
<1>2. \A i \in 1 .. Len(s) : whole[i] = s[i]
  BY <1>1
<1>3. whole = s
  BY <1>1, <1>2, SeqEqual
<1> QED  BY <1>3 DEF whole

\* The two parts of a sequence make it up.
LEMMA PartsOfSequence ==
    ASSUME NEW S, NEW s \in Seq(S), NEW n \in 0 .. Len(s)
    PROVE  SubSeq(s, 1, n) \o SubSeq(s, n + 1, Len(s)) = s
<1>1. n \in 1 - 1 .. Len(s) /\ Len(s) \in n .. Len(s) /\ 1 \in 1 .. Len(s) + 1
  OBVIOUS
<1>2. SubSeq(s, 1, n) \o SubSeq(s, n + 1, Len(s)) = SubSeq(s, 1, Len(s))
  BY <1>1, ConcatAdjacentSubSeq
<1> QED  BY <1>2, WholeStretch

-----------------------------------------------------------------------------
(* Copies *)

\* What apn_strncpy copies: as many bytes as it counts and the source has.
Copied(s, dst_size, src_size) ==
    IF CopyCount(dst_size, src_size) <= Len(s) THEN CopyCount(dst_size, src_size) ELSE Len(s)

LEMMA StrncpyCopies ==
    ASSUME NEW S, NEW s \in Seq(S), NEW dst_size \in Nat \ {0}, NEW src_size \in Nat
    PROVE  /\ Copied(s, dst_size, src_size) \in Nat
           /\ Copied(s, dst_size, src_size) <= Len(s)
           /\ Strncpy(s, dst_size, src_size).string
                  = SubSeq(s, 1, Copied(s, dst_size, src_size))
           /\ Strncpy(s, dst_size, src_size).written = Copied(s, dst_size, src_size) + 1
<1> DEFINE count == CopyCount(dst_size, src_size)
           n == Copied(s, dst_size, src_size)
<1>1. count \in Nat
  BY DEF CopyCount
<1>2. Len(s) \in Nat
  OBVIOUS
<1> HIDE DEF count
<1>3. n = IF count <= Len(s) THEN count ELSE Len(s)
  BY DEF Copied, count
<1> HIDE DEF n
<1>4. n \in Nat /\ n <= Len(s)
  BY <1>1, <1>2, <1>3
<1>5. Min({count, Len(s)}) = n
  BY <1>1, <1>2, <1>3, MinOfTwo
<1>6. Strncpy(s, dst_size, src_size) = Stored(SubSeq(s, 1, n))
  BY <1>5 DEF Strncpy, count
<1>7. Len(SubSeq(s, 1, n)) = n
  <2>1. Len(SubSeq(s, 0 + 1, 0 + n)) = n
    BY <1>2, <1>4, Stretch
  <2>2. 0 + 1 = 1 /\ 0 + n = n
    BY <1>4
  <2> QED  BY <2>1, <2>2, Zenon
<1> QED  BY <1>4, <1>6, <1>7 DEF Stored, n

\* A copy of at most as many bytes as the buffer has stays in it, is the
\* beginning of the source, and all of it when there is room for the terminator.
LEMMA StrncpyFits ==
    ASSUME NEW S, NEW s \in Seq(S), NEW dst_size \in Nat \ {0}, NEW src_size \in Nat,
           src_size <= dst_size
    PROVE  LET copy == Strncpy(s, dst_size, src_size)
           IN  /\ copy.written <= dst_size
               /\ IsPrefix(copy.string, s)
               /\ Len(s) = src_size /\ src_size < dst_size => copy.string = s
<1> DEFINE copy == Strncpy(s, dst_size, src_size)
           count == CopyCount(dst_size, src_size)
           n == Copied(s, dst_size, src_size)
<1>0. n = IF count <= Len(s) THEN count ELSE Len(s)
  BY DEF Copied
<1>1. /\ n \in Nat /\ n <= Len(s) /\ copy.string = SubSeq(s, 1, n)
      /\ copy.written = n + 1
  BY StrncpyCopies
<1>2. /\ count \in Nat /\ count + 1 <= dst_size
      /\ src_size < dst_size => count = src_size
  BY DEF CopyCount
<1>3. Len(s) \in Nat
  OBVIOUS
<1> HIDE DEF copy, count, n
<1>4. n <= count /\ (Len(s) = src_size /\ src_size < dst_size => n = Len(s))
  BY <1>0, <1>1, <1>2, <1>3
<1>5. copy.written <= dst_size
  BY <1>1, <1>2, <1>4
<1>6. IsPrefix(copy.string, s)
  <2>0. Len(SubSeq(s, 1, n)) = n /\ SubSeq(s, 1, n) \in Seq(S)
    <3>1. /\ Len(SubSeq(s, 0 + 1, 0 + n)) = n /\ SubSeq(s, 0 + 1, 0 + n) \in Seq(S)
      BY <1>1, <1>3, Stretch
    <3>2. 0 + n = n
      BY <1>1
    <3> QED  BY <3>1, <3>2
  <2>1. SubSeq(SubSeq(s, 1, n), 1, n) = SubSeq(s, 1, n)
    BY <2>0, WholeStretch
  <2>2. IsPrefix(SubSeq(s, 1, n), s)
    BY <1>1, <2>0, <2>1 DEF IsPrefix
  <2> QED  BY <1>1, <2>2
<1>7. Len(s) = src_size /\ src_size < dst_size => copy.string = s
  BY <1>1, <1>4, WholeStretch
<1> QED  BY <1>5, <1>6, <1>7 DEF copy

\* What apn_substr cuts out: the piece asked for, as far as there is room.
LEMMA SubstrFits ==
    ASSUME NEW S, NEW s \in Seq(S), NEW dst_size \in Nat \ {0},
           NEW start \in 0 .. Len(s), NEW stop \in 0 .. Len(s), start <= stop
    PROVE  LET piece == Substr(s, dst_size, start, stop)
           IN  /\ piece.written <= dst_size
               /\ piece.string = SubSeq(s, start + 1, Min({stop, start + dst_size - 1}))
<1> DEFINE src == SubSeq(s, start + 1, Len(s))
           size == SubstrCount(dst_size, stop - start)
           count == CopyCount(dst_size, size)
           n == Copied(src, dst_size, size)
           piece == Substr(s, dst_size, start, stop)
           rest == Len(s) - start
           room == dst_size - 1
           asked == stop - start
<1>1. /\ Len(s) \in Nat /\ start \in Nat /\ rest \in Nat /\ start + rest = Len(s)
      /\ asked \in Nat /\ asked <= rest /\ room \in Nat /\ start + asked = stop
  OBVIOUS
<1>2. src \in Seq(S) /\ Len(src) = rest
  <2>1. /\ SubSeq(s, start + 1, start + rest) \in Seq(S)
        /\ Len(SubSeq(s, start + 1, start + rest)) = rest
    <3>1. start + rest <= Len(s)
      BY <1>1
    <3> HIDE DEF rest
    <3> QED  BY <1>1, <3>1, Stretch
  <2> QED  BY <1>1, <2>1
<1>3. size \in Nat
  BY <1>1 DEF SubstrCount
<1>4. count = IF asked <= room THEN asked ELSE room
  BY <1>1 DEF CopyCount, SubstrCount
<1>5. piece = Strncpy(src, dst_size, size)
  BY DEF Substr
<1> HIDE DEF src, size, piece
<1>6. /\ piece.string = SubSeq(src, 1, n) /\ piece.written = n + 1
  BY <1>2, <1>3, <1>5, StrncpyCopies
<1>7. n = IF asked <= room THEN asked ELSE room
  <2>1. n = IF count <= Len(src) THEN count ELSE Len(src)
    BY DEF Copied
  <2>2. asked \in Nat /\ room \in Nat /\ asked <= rest /\ rest \in Nat
    BY <1>1
  <2> HIDE DEF n, count, asked, room, rest
  <2> QED  BY <1>2, <1>4, <2>1, <2>2
<1> HIDE DEF n, count
<1>8. n \in Nat /\ n <= rest /\ n <= room
  BY <1>1, <1>7
<1>9. piece.written <= dst_size
  BY <1>6, <1>8
<1>10. Min({stop, start + dst_size - 1}) = start + n
  <2>1. Min({stop, start + dst_size - 1})
            = IF stop <= start + dst_size - 1 THEN stop ELSE start + dst_size - 1
    BY MinOfTwo
  <2> QED  BY <1>1, <1>7, <2>1
<1>11. SubSeq(src, 1, n) = SubSeq(s, start + 1, start + n)
  <2>1. src = SubSeq(s, start + 1, start + rest)
    BY <1>1 DEF src
  <2> HIDE DEF rest
  <2>2. SubSeq(SubSeq(s, start + 1, start + rest), 1, n) = SubSeq(s, start + 1, start + n)
    BY <1>1, <1>8, StretchOfStretch
  <2> QED  BY <2>1, <2>2
<1> QED  BY <1>6, <1>9, <1>10, <1>11 DEF piece

\* What apn_strcat makes of the two parts of a string.
LEMMA StrcatJoins ==
    ASSUME NEW S, NEW s \in Seq(S), NEW n \in 0 .. Len(s), NEW dst_size \in Nat \ {0},
           n < dst_size
    PROVE  LET joined == Strcat(SubSeq(s, 1, n), SubSeq(s, n + 1, Len(s)), dst_size,
                                Len(s) - n)
           IN  /\ Len(s) < dst_size => joined.string = s
               /\ Len(s) - n <= dst_size - n => joined.written <= dst_size
<1> DEFINE front == SubSeq(s, 1, n)
           back == SubSeq(s, n + 1, Len(s))
           room == dst_size - n
           rest == Len(s) - n
           copy == Strncpy(back, room, rest)
           joined == Strcat(front, back, dst_size, rest)
<1>1. /\ Len(s) \in Nat /\ n \in Nat /\ n <= Len(s) /\ rest \in Nat /\ n + rest = Len(s)
      /\ room \in Nat \ {0} /\ dst_size = n + room
  OBVIOUS
<1>2. front \in Seq(S) /\ Len(front) = n
  <2>1. /\ SubSeq(s, 0 + 1, 0 + n) \in Seq(S) /\ Len(SubSeq(s, 0 + 1, 0 + n)) = n
    BY <1>1, Stretch
  <2>2. 0 + n = n
    OBVIOUS
  <2> QED  BY <2>1, <2>2
<1>3. back \in Seq(S) /\ Len(back) = rest
  <2>1. /\ SubSeq(s, n + 1, n + rest) \in Seq(S) /\ Len(SubSeq(s, n + 1, n + rest)) = rest
    <3>1. n + rest <= Len(s)
      BY <1>1
    <3> HIDE DEF rest
    <3> QED  BY <1>1, <3>1, Stretch
  <2> QED  BY <1>1, <2>1
<1>4. front \o back = s
  BY PartsOfSequence
<1> HIDE DEF front, back, rest, room
<1>5. joined = [string |-> front \o copy.string, written |-> n + copy.written]
  BY <1>2 DEF Strcat, room
<1>6. rest <= room => /\ copy.written <= room
                      /\ rest < room => copy.string = back
  BY <1>1, <1>3, StrncpyFits
<1>7. copy.written \in Nat
  <2>1. /\ Copied(back, room, rest) \in Nat
        /\ copy.written = Copied(back, room, rest) + 1
    BY <1>1, <1>3, StrncpyCopies
  <2> QED  BY <2>1
<1> HIDE DEF copy, joined
<1>8. CASE ~(rest <= room)
  <2>1. ~(Len(s) < dst_size) /\ ~(Len(s) - n <= dst_size - n)
    BY <1>1, <1>8
  <2> QED  BY <2>1
<1>9. CASE rest <= room
  <2>1. copy.written <= room
    BY <1>6, <1>9
  <2>2. joined.written = n + copy.written
    BY <1>5
  <2>3. ASSUME Len(s) < dst_size PROVE joined.string = s
    <3>1. rest < room
      BY <1>1, <2>3
    <3>2. copy.string = back
      BY <1>6, <1>9, <3>1
    <3> QED  BY <1>4, <1>5, <3>2
  <2>4. joined.written <= dst_size
    <3>1. copy.written \in Nat
      BY <1>7
    <3> QED  BY <1>1, <2>1, <2>2, <3>1
  <2> QED  BY <2>3, <2>4 DEF joined, front, back, rest
<1> QED  BY <1>8, <1>9

-----------------------------------------------------------------------------
(* Tokens *)

\* The hexadecimal form of a token's bytes is the token in capitals.
LEMMA BinaryReadsBack ==
    ASSUME NEW s, IsToken(s)
    PROVE  BinaryToHex(HexToBinary(s)) =
               [k \in 1 .. 2 * TokenSize |-> Upper[DigitValue(s[k])]]
<1> DEFINE b == HexToBinary(s)
           half(k) == IF k % 2 = 1 THEN b[(k + 1) \div 2] \div 16 ELSE b[k \div 2] % 16
<1>1. \A k \in 1 .. 2 * TokenSize : DigitValue(s[k]) \in 0 .. 15
  BY DigitReads DEF IsToken
<1>2. \A k \in 1 .. TokenSize : b[k] = 16 * DigitValue(s[2 * k - 1]) + DigitValue(s[2 * k])
  BY DEF HexToBinary
<1> HIDE DEF b
<1>3. TokenSize \in Nat
  BY TokenSizeFits
<1>4. \A x \in 0 .. 15, y \in 0 .. 15 : (16 * x + y) \div 16 = x /\ (16 * x + y) % 16 = y
  OBVIOUS
<1>5. ASSUME NEW k \in 1 .. 2 * TokenSize PROVE half(k) = DigitValue(s[k])
  <2>1. CASE k % 2 = 1
    <3> DEFINE j == (k + 1) \div 2
    <3>1. j \in 1 .. TokenSize /\ 2 * j - 1 = k /\ 2 * j \in 1 .. 2 * TokenSize
      BY <1>3, <2>1
    <3>2. half(k) = b[j] \div 16
      BY <2>1
    <3> HIDE DEF j
    <3>3. b[j] = 16 * DigitValue(s[k]) + DigitValue(s[2 * j])
      BY <1>2, <3>1
    <3> QED  BY <1>1, <1>4, <3>1, <3>2, <3>3
  <2>2. CASE k % 2 # 1
    <3> DEFINE j == k \div 2
    <3>1. j \in 1 .. TokenSize /\ 2 * j = k /\ 2 * j - 1 \in 1 .. 2 * TokenSize
      BY <1>3, <2>2
    <3>2. half(k) = b[j] % 16
      BY <2>2
    <3> HIDE DEF j
    <3>3. b[j] = 16 * DigitValue(s[2 * j - 1]) + DigitValue(s[k])
      BY <1>2, <3>1
    <3> QED  BY <1>1, <1>4, <3>1, <3>2, <3>3
  <2> QED  BY <2>1, <2>2
<1>6. BinaryToHex(b) = [k \in 1 .. 2 * TokenSize |-> Upper[half(k)]]
  BY DEF BinaryToHex
<1> HIDE DEF half
<1> QED  BY <1>5, <1>6 DEF b

-----------------------------------------------------------------------------
(* Numbers by their rank *)

\* Ranks count from 1 to the number of elements, in the order of the elements.
LEMMA RankOrders ==
    ASSUME NEW S \in SUBSET Nat, IsFiniteSet(S)
    PROVE  /\ Cardinality(S) \in Nat
           /\ \A x \in S : Rank(S, x) \in 1 .. Cardinality(S)
           /\ \A x, y \in S : x < y => Rank(S, x) < Rank(S, y)
<1> DEFINE Low(x) == {j \in S : j <= x}
<1>1. Cardinality(S) \in Nat
  BY FS_CardinalityType
<1>2. \A x \in S : /\ IsFiniteSet(Low(x)) /\ Cardinality(Low(x)) \in Nat
                   /\ Cardinality(Low(x)) <= Cardinality(S)
  BY FS_Subset, FS_CardinalityType
<1>3. \A x \in S : Cardinality(Low(x)) # 0
  <2> SUFFICES ASSUME NEW x \in S PROVE Cardinality(Low(x)) # 0
    OBVIOUS
  <2>1. x \in Low(x)
    OBVIOUS
  <2> QED  BY <1>2, <2>1, FS_EmptySet
<1>4. \A x, y \in S : x < y => Cardinality(Low(x)) < Cardinality(Low(y))
  <2> SUFFICES ASSUME NEW x \in S, NEW y \in S, x < y
               PROVE  Cardinality(Low(x)) < Cardinality(Low(y))
    OBVIOUS
  <2>1. x \in Nat /\ y \in Nat /\ \A j \in S : j \in Nat
    OBVIOUS
  <2>4. \A j \in S : j <= x => j <= y
    BY <2>1
  <2>5. y <= y /\ ~(y <= x)
    BY <2>1
  <2>6. Low(x) \in SUBSET Low(y) /\ y \in Low(y) /\ y \notin Low(x)
    BY <2>4, <2>5, Zenon
  <2>2. Low(x) # Low(y)
    BY <2>6
  <2>3. Cardinality(Low(x)) <= Cardinality(Low(y)) /\ Cardinality(Low(x)) # Cardinality(Low(y))
    <3> HIDE DEF Low
    <3> QED  BY <1>2, <2>6, <2>2, FS_Subset
  <2> QED  BY <1>2, <2>3
<1>5. \A x : Rank(S, x) = Cardinality(Low(x))
  BY DEF Rank
<1> HIDE DEF Low
<1> QED  BY <1>1, <1>2, <1>3, <1>4, <1>5

\* There is an element of every rank.
LEMMA RankReached ==
    ASSUME NEW S \in SUBSET Nat, IsFiniteSet(S), NEW n \in 1 .. Cardinality(S)
    PROVE  \E x \in S : Rank(S, x) = n
<1> DEFINE T == 1 .. Cardinality(S)
           rank == [x \in S |-> Rank(S, x)]
<1>1. Cardinality(S) \in Nat /\ IsFiniteSet(T) /\ Cardinality(T) = Cardinality(S)
  BY RankOrders, FS_Interval
<1>2. rank \in [S -> T]
  BY RankOrders
<1>3. \A x, y \in S : rank[x] = rank[y] => x = y
  <2> SUFFICES ASSUME NEW x \in S, NEW y \in S, rank[x] = rank[y] PROVE x = y
    OBVIOUS
  <2>1. ~(x < y) /\ ~(y < x)
    BY RankOrders
  <2> QED  BY <2>1
<1>4. rank \in Injection(S, T)
  <2> HIDE DEF rank, T
  <2> QED  BY <1>2, <1>3 DEF Injection, IsInjective
<1>5. rank \in Surjection(S, T)
  <2> HIDE DEF rank, T
  <2> QED  BY <1>1, <1>4, FS_Injection
<1>6. \E x \in S : rank[x] = n
  <2>1. n \in T
    OBVIOUS
  <2> HIDE DEF rank, T
  <2> QED  BY <1>5, <2>1 DEF Surjection
<1> QED  BY <1>6

\* Elements by their rank.
LEMMA NthHasRank ==
    ASSUME NEW S \in SUBSET Nat, IsFiniteSet(S)
    PROVE  /\ Cardinality(S) \in Nat
           /\ \A n \in 1 .. Cardinality(S) : Nth(S, n) \in S /\ Rank(S, Nth(S, n)) = n
           /\ \A x \in S : Rank(S, x) \in 1 .. Cardinality(S) /\ Nth(S, Rank(S, x)) = x
           /\ \A m, n \in 1 .. Cardinality(S) : m < n => Nth(S, m) < Nth(S, n)
<1>1. Cardinality(S) \in Nat
  BY RankOrders
<1>2. \A n \in 1 .. Cardinality(S) : Nth(S, n) \in S /\ Rank(S, Nth(S, n)) = n
  BY RankReached DEF Nth
<1>3. \A x \in S : Rank(S, x) \in 1 .. Cardinality(S)
  BY RankOrders
<1>4. \A x, y \in S : Rank(S, x) <= Rank(S, y) => x <= y
  <2> SUFFICES ASSUME NEW x \in S, NEW y \in S, ~(x <= y)
               PROVE  ~(Rank(S, x) <= Rank(S, y))
    OBVIOUS
  <2>1. y < x
    OBVIOUS
  <2> QED  BY <1>1, <1>3, <2>1, RankOrders
<1>5. \A x \in S : Nth(S, Rank(S, x)) = x
  <2> SUFFICES ASSUME NEW x \in S PROVE Nth(S, Rank(S, x)) = x
    OBVIOUS
  <2> DEFINE y == Nth(S, Rank(S, x))
  <2>1. y \in S /\ Rank(S, y) = Rank(S, x)
    BY <1>2, <1>3
  <2> HIDE DEF y
  <2>2. y <= x /\ x <= y
    BY <1>1, <1>3, <1>4, <2>1
  <2>3. x \in Nat /\ y \in Nat
    BY <2>1
  <2>4. x = y
    BY <2>2, <2>3
  <2> QED  BY <2>4 DEF y
<1>6. \A m, n \in 1 .. Cardinality(S) : m < n => Nth(S, m) < Nth(S, n)
  <2> SUFFICES ASSUME NEW m \in 1 .. Cardinality(S), NEW n \in 1 .. Cardinality(S), m < n
               PROVE  Nth(S, m) < Nth(S, n)
    OBVIOUS
  <2>1. Nth(S, m) \in S /\ Nth(S, n) \in S /\ Nth(S, m) # Nth(S, n)
    BY <1>1, <1>2
  <2>2. Rank(S, Nth(S, m)) <= Rank(S, Nth(S, n))
    BY <1>1, <1>2
  <2>3. Nth(S, m) <= Nth(S, n)
    BY <1>4, <2>1, <2>2, Zenon
  <2>4. Nth(S, m) \in Nat /\ Nth(S, n) \in Nat
    BY <2>1
  <2> QED  BY <2>1, <2>3, <2>4
<1> QED  BY <1>1, <1>2, <1>3, <1>5, <1>6

\* A set of numbers that has an element has a first and a last one.
LEMMA FirstAndLast ==
    ASSUME NEW S \in SUBSET Nat, IsFiniteSet(S), S # {}
    PROVE  /\ \E x \in S : \A y \in S : x <= y
           /\ \E x \in S : \A y \in S : y <= x
<1>1. Cardinality(S) \in Nat \ {0}
  BY FS_EmptySet, RankOrders
<1> DEFINE a == Nth(S, 1)
           b == Nth(S, Cardinality(S))
<1>2. a \in S /\ b \in S
  BY <1>1, NthHasRank
<1>3. \A y \in S : /\ Rank(S, y) \in 1 .. Cardinality(S) /\ y = Nth(S, Rank(S, y))
  BY NthHasRank
<1>4. \A m \in 1 .. Cardinality(S) : a <= Nth(S, m) /\ Nth(S, m) <= b
  <2> SUFFICES ASSUME NEW m \in 1 .. Cardinality(S) PROVE a <= Nth(S, m) /\ Nth(S, m) <= b
    OBVIOUS
  <2>1. m = 1 \/ a < Nth(S, m)
    BY <1>1, NthHasRank
  <2>2. m = Cardinality(S) \/ Nth(S, m) < b
    BY <1>1, NthHasRank
  <2>3. Nth(S, m) \in Nat /\ a \in Nat /\ b \in Nat
    <3>1. Nth(S, m) \in S
      BY NthHasRank
    <3> HIDE DEF a, b
    <3> QED  BY <1>2, <3>1
  <2> HIDE DEF a, b
  <2> QED  BY <2>1, <2>2, <2>3 DEF a, b
<1> HIDE DEF a, b
<1> QED  BY <1>2, <1>3, <1>4

\* Sets of numbers that a function maps one to the other in their order have the
\* same size, and the n-th of one goes to the n-th of the other.
LEMMA SameOrder ==
    ASSUME NEW S \in SUBSET Nat, IsFiniteSet(S), NEW T \in SUBSET Nat, NEW f \in [S -> T],
           \A x, y \in S : x < y => f[x] < f[y],
           \A z \in T : \E x \in S : f[x] = z
    PROVE  /\ Cardinality(T) = Cardinality(S)
           /\ \A n \in 1 .. Cardinality(S) : f[Nth(S, n)] = Nth(T, n)
<1>1. \A x, y \in S : /\ x \in Nat /\ y \in Nat /\ f[x] \in Nat /\ f[y] \in Nat
                      /\ f[x] = f[y] => x = y
  <2> SUFFICES ASSUME NEW x \in S, NEW y \in S
               PROVE  /\ x \in Nat /\ y \in Nat /\ f[x] \in Nat /\ f[y] \in Nat
                      /\ f[x] = f[y] => x = y
    OBVIOUS
  <2>1. x \in Nat /\ y \in Nat /\ f[x] \in Nat /\ f[y] \in Nat
    OBVIOUS
  <2>2. (x < y => f[x] < f[y]) /\ (y < x => f[y] < f[x])
    OBVIOUS
  <2> QED  BY <2>1, <2>2
<1>2. f \in Bijection(S, T)
  BY <1>1 DEF Bijection, Injection, Surjection, IsInjective
<1>3. IsFiniteSet(T) /\ Cardinality(T) = Cardinality(S)
  BY <1>2, FS_Bijection DEF ExistsBijection
<1>4. ASSUME NEW x \in S PROVE Rank(T, f[x]) = Rank(S, x)
  <2> DEFINE A == {j \in S : j <= x}
             B == {j \in T : j <= f[x]}
             g == [j \in A |-> f[j]]
  <2>1. IsFiniteSet(A)
    BY FS_Subset
  <2>2. \A j \in S : j <= x <=> f[j] <= f[x]
    <3> SUFFICES ASSUME NEW j \in S PROVE j <= x <=> f[j] <= f[x]
      OBVIOUS
    <3>1. (j < x => f[j] < f[x]) /\ (x < j => f[x] < f[j])
      OBVIOUS
    <3> QED  BY <1>1, <3>1
  <2>3. g \in [A -> B]
    BY <2>2
  <2>4. \A y, z \in A : g[y] = g[z] => y = z
    BY <1>1
  <2>5. \A z \in B : \E y \in A : g[y] = z
    BY <2>2
  <2>6. g \in Bijection(A, B)
    <3> HIDE DEF A, B, g
    <3> QED  BY <2>3, <2>4, <2>5 DEF Bijection, Injection, Surjection, IsInjective
  <2>7. Cardinality(B) = Cardinality(A)
    <3> HIDE DEF A, B, g
    <3> QED  BY <2>1, <2>6, FS_Bijection DEF ExistsBijection
  <2> QED  BY <2>7 DEF Rank
<1>5. ASSUME NEW n \in 1 .. Cardinality(S) PROVE f[Nth(S, n)] = Nth(T, n)
  <2>1. Nth(S, n) \in S /\ Rank(S, Nth(S, n)) = n
    BY NthHasRank
  <2>2. f[Nth(S, n)] \in T /\ Rank(T, f[Nth(S, n)]) = n
    BY <1>4, <2>1
  <2>3. \A z \in T : Nth(T, Rank(T, z)) = z
    BY <1>3, NthHasRank
  <2> QED  BY <2>2, <2>3
<1> QED  BY <1>3, <1>5

-----------------------------------------------------------------------------
(* UTF-8 *)

\* One step of the check: a character of the kind the library looks for.
FitsAt(s, k) ==
    /\ Octets(s[k]) > 0
    /\ \A j \in 1 .. Octets(s[k]) - 1 :
           (IF k + j <= Len(s) THEN s[k + j] ELSE 0) \in Continuation

\* The function by which IsUtf8 is defined.
Accepts(s) ==
    CHOOSE from :
        from = [k \in 1 .. Len(s) + 4 |->
                    \/ k > Len(s)
                    \/ /\ FitsAt(s, k)
                       /\ from[k + Octets(s[k])]]

\* The length a lead byte announces, kind by kind.
LEMMA OctetsOf ==
    \A ch \in 1 .. 255 : /\ ch < 128          => Octets(ch) = 1
                         /\ ch \in 192 .. 223 => Octets(ch) = 2
                         /\ ch \in 224 .. 239 => Octets(ch) = 3
                         /\ ch \in 240 .. 247 => Octets(ch) = 4
<1> SUFFICES ASSUME NEW ch \in 1 .. 255
             PROVE  /\ ch < 128          => Octets(ch) = 1
                    /\ ch \in 192 .. 223 => Octets(ch) = 2
                    /\ ch \in 224 .. 239 => Octets(ch) = 3
                    /\ ch \in 240 .. 247 => Octets(ch) = 4
  OBVIOUS
<1>1. ch < 128 => Octets(ch) = 1
  BY DEF Octets
<1>2. ch \in 192 .. 223 => Octets(ch) = 2
  BY DEF Octets
<1>3. ch \in 224 .. 239 => Octets(ch) = 3
  BY DEF Octets
<1>4. ch \in 240 .. 247 => Octets(ch) = 4
  BY DEF Octets
<1> QED  BY <1>1, <1>2, <1>3, <1>4

\* It is four at most.
LEMMA OctetsAtMostFour == \A ch \in 1 .. 255 : Octets(ch) \in 0 .. 4
  BY DEF Octets

\* The places a text is accepted from: those in a set that holds the next place
\* with every place.
Closed(s, P) == \A p \in P : p <= Len(s) => FitsAt(s, p) /\ p + Octets(s[p]) \in P

\* The function exists, so that it is what it is defined to be.
LEMMA AcceptsDefined ==
    ASSUME NEW s \in Seq(1 .. 255)
    PROVE  \A k \in 1 .. Len(s) + 4 :
               Accepts(s)[k] <=> k > Len(s) \/ (FitsAt(s, k) /\ Accepts(s)[k + Octets(s[k])])
<1> DEFINE Places == 1 .. Len(s) + 4
           Onward(f, k) == k > Len(s) \/ (FitsAt(s, k) /\ f[k + Octets(s[k])])
           Sat(f) == f = [k \in Places |-> Onward(f, k)]
           Held(k) == \E P \in SUBSET Places : k \in P /\ Closed(s, P)
           g == [k \in Places |-> Held(k)]
<1>1. \A k \in Places : k <= Len(s) => k + Octets(s[k]) \in Places
  <2> SUFFICES ASSUME NEW k \in Places, k <= Len(s) PROVE k + Octets(s[k]) \in Places
    OBVIOUS
  <2>1. k \in 1 .. Len(s) /\ Len(s) \in Nat
    OBVIOUS
  <2>2. s[k] \in 1 .. 255
    BY <2>1, ElementOfSeq
  <2>3. Octets(s[k]) \in 0 .. 4
    BY <2>2, OctetsAtMostFour, Zenon
  <2> QED  BY <2>1, <2>3
<1>2. \A k \in Places : Held(k) <=> Onward(g, k)
  <2> SUFFICES ASSUME NEW k \in Places PROVE Held(k) <=> Onward(g, k)
    OBVIOUS
  <2>1. CASE k > Len(s)
    <3>1. {k} \in SUBSET Places /\ k \in {k}
      OBVIOUS
    <3>2. ~(k <= Len(s))
      BY <2>1
    <3>3. Closed(s, {k})
      BY <3>2, Zenon DEF Closed
    <3>4. Held(k)
      BY <3>1, <3>3, Zenon
    <3> HIDE DEF Held, Places, g
    <3> QED  BY <2>1, <3>4
  <2>2. CASE k <= Len(s)
    <3> DEFINE n == k + Octets(s[k])
    <3>1. n \in Places /\ ~(k > Len(s))
      BY <1>1, <2>2
    <3>2. g[n] <=> Held(n)
      BY <3>1
    <3>3. Held(k) => FitsAt(s, k) /\ Held(n)
      BY <2>2, <3>1 DEF Closed
    <3>4. FitsAt(s, k) /\ Held(n) => Held(k)
      <4> SUFFICES ASSUME FitsAt(s, k), NEW P \in SUBSET Places, n \in P, Closed(s, P)
                   PROVE  Held(k)
        OBVIOUS
      <4>1. Closed(s, P \union {k})
        BY DEF Closed
      <4>2. P \union {k} \in SUBSET Places /\ k \in P \union {k}
        OBVIOUS
      <4> QED  BY <4>1, <4>2, Zenon
    <3>5. Onward(g, k) <=> k > Len(s) \/ (FitsAt(s, k) /\ g[n])
      OBVIOUS
    <3> HIDE DEF n, g, Held, Onward, Places
    <3> QED  BY <3>1, <3>2, <3>3, <3>4, <3>5
  <2>3. k > Len(s) \/ k <= Len(s)
    OBVIOUS
  <2> HIDE DEF Held, Onward, Places, g
  <2> QED  BY <2>1, <2>2, <2>3
<1>3. Sat(g)
  <2>1. \A k \in Places : Held(k) \in BOOLEAN /\ Onward(g, k) \in BOOLEAN
    OBVIOUS
  <2> HIDE DEF Held, Onward, Places
  <2>2. [k \in Places |-> Held(k)] = [k \in Places |-> Onward(g, k)]
    <3> HIDE DEF g
    <3> QED  BY <1>2, <2>1
  <2> QED  BY <2>2
<1>4. Accepts(s) = CHOOSE from : Sat(from)
  BY DEF Accepts
<1>5. Sat(Accepts(s))
  <2> HIDE DEF Sat, g
  <2> QED  BY <1>3, <1>4
<1>6. \A k \in Places : Accepts(s)[k] <=> Onward(Accepts(s), k)
  <2> HIDE DEF Onward, Places
  <2> QED  BY <1>5
<1> QED  BY <1>6

\* A text is accepted from its first place.
LEMMA IsUtf8Accepts == \A s : IsUtf8(s) = Accepts(s)[1]
  BY DEF IsUtf8, Accepts, FitsAt

\* A character the library takes lies within the text.
LEMMA FitsWithin ==
    ASSUME NEW s \in Seq(1 .. 255), NEW k \in 1 .. Len(s), FitsAt(s, k)
    PROVE  /\ Octets(s[k]) \in 1 .. 4
           /\ k + Octets(s[k]) \in k + 1 .. Len(s) + 1
           /\ LaxChar(SubSeq(s, k, k + Octets(s[k]) - 1))
<1> DEFINE n == Octets(s[k])
<1>1. Len(s) \in Nat /\ s[k] \in 1 .. 255
  BY ElementOfSeq
<1>2. n \in 0 .. 4
  BY <1>1, OctetsAtMostFour, Zenon
<1>3. n \in 1 .. 4
  BY <1>2 DEF FitsAt
<1>4. \A j \in 1 .. n - 1 : (IF k + j <= Len(s) THEN s[k + j] ELSE 0) \in 128 .. 251
  BY DEF FitsAt, Continuation
<1> HIDE DEF n
<1>5. \A j \in 1 .. n - 1 : k + j <= Len(s) /\ s[k + j] \in 128 .. 251
  <2> SUFFICES ASSUME NEW j \in 1 .. n - 1
               PROVE  k + j <= Len(s) /\ s[k + j] \in 128 .. 251
    OBVIOUS
  <2>1. CASE k + j <= Len(s)
    BY <1>4, <2>1
  <2>2. CASE ~(k + j <= Len(s))
    <3>1. 0 \in 128 .. 251
      BY <1>4, <2>2
    <3> QED  BY <3>1
  <2> QED  BY <2>1, <2>2
<1>6. k + n - 1 <= Len(s)
  <2>1. CASE n = 1
    BY <1>1, <2>1
  <2>2. CASE n # 1
    <3>1. n - 1 \in 1 .. n - 1
      BY <1>3, <2>2
    <3>2. k + (n - 1) <= Len(s)
      BY <1>5, <3>1
    <3> QED  BY <1>3, <3>2
  <2> QED  BY <2>1, <2>2
<1> DEFINE c == SubSeq(s, k, k + n - 1)
<1>7. Len(c) = n /\ \A i \in 1 .. n : c[i] = s[k + i - 1]
  <2>1. k \in Int /\ k + n - 1 \in Int
    BY <1>3
  <2>2. \A i \in k .. k + n - 1 : i \in 1 .. Len(s)
    BY <1>1, <1>3, <1>6
  <2>3. Len(c) = (k + n - 1) - k + 1 /\ \A i \in 1 .. (k + n - 1) - k + 1 : c[i] = s[k + i - 1]
    BY <1>1, <1>3, <1>6, <2>1, <2>2, SubSeqProperties
  <2>4. (k + n - 1) - k + 1 = n
    BY <1>3
  <2> QED  BY <2>3, <2>4
<1> HIDE DEF c
<1>8. c # <<>> /\ Len(c) = Octets(c[1])
  BY <1>3, <1>7 DEF n
<1>9. \A i \in 2 .. Len(c) : c[i] \in 128 .. 251
  <2> SUFFICES ASSUME NEW i \in 2 .. Len(c) PROVE c[i] \in 128 .. 251
    OBVIOUS
  <2>1. i \in 1 .. n /\ i - 1 \in 1 .. n - 1 /\ k + i - 1 = k + (i - 1)
    BY <1>3, <1>7
  <2> QED  BY <1>5, <1>7, <2>1
<1>10. LaxChar(c)
  BY <1>8, <1>9 DEF LaxChar
<1>11. k + n \in k + 1 .. Len(s) + 1
  BY <1>1, <1>3, <1>6
<1> QED  BY <1>3, <1>10, <1>11 DEF c, n


-----------------------------------------------------------------------------
(* The places of a text that the check comes to *)

\* Places from which the check goes on, with the first one.
Covers(s, P) == P \in SUBSET (1 .. Len(s) + 1) /\ 1 \in P /\ Closed(s, P)

\* The places that all such sets have.
Visited(s) == {p \in 1 .. Len(s) + 1 : \A P : Covers(s, P) => p \in P}

\* What is accepted has such a set, so that the places visited are one.
LEMMA AcceptedCovers ==
    ASSUME NEW s \in Seq(1 .. 255), IsUtf8(s)
    PROVE  Covers(s, Visited(s))
<1> DEFINE Good == {p \in 1 .. Len(s) + 1 : Accepts(s)[p]}
<1>1. Len(s) \in Nat
  OBVIOUS
<1>2. \A p \in Good : p <= Len(s) => FitsAt(s, p) /\ p + Octets(s[p]) \in Good
  <2> SUFFICES ASSUME NEW p \in 1 .. Len(s) + 1, Accepts(s)[p], p <= Len(s)
               PROVE  FitsAt(s, p) /\ p + Octets(s[p]) \in Good
    OBVIOUS
  <2>1. p \in 1 .. Len(s) + 4 /\ p \in 1 .. Len(s) /\ ~(p > Len(s))
    BY <1>1
  <2>2. FitsAt(s, p) /\ Accepts(s)[p + Octets(s[p])]
    BY <2>1, AcceptsDefined
  <2>3. p + Octets(s[p]) \in p + 1 .. Len(s) + 1
    BY <2>1, <2>2, FitsWithin
  <2>4. p + Octets(s[p]) \in 1 .. Len(s) + 1
    BY <1>1, <2>1, <2>3
  <2> QED  BY <2>2, <2>4
<1>3. 1 \in Good
  BY <1>1, IsUtf8Accepts
<1>4. Covers(s, Good)
  <2>1. Good \in SUBSET (1 .. Len(s) + 1)
    OBVIOUS
  <2> HIDE DEF Good
  <2> QED  BY <1>2, <1>3, <2>1 DEF Covers, Closed
<1> HIDE DEF Good
<1>5. Visited(s) \in SUBSET (1 .. Len(s) + 1) /\ 1 \in Visited(s)
  BY <1>1 DEF Visited, Covers
<1>6. \A p \in Visited(s) : p <= Len(s) => FitsAt(s, p) /\ p + Octets(s[p]) \in Visited(s)
  <2> SUFFICES ASSUME NEW p \in Visited(s), p <= Len(s)
               PROVE  FitsAt(s, p) /\ p + Octets(s[p]) \in Visited(s)
    OBVIOUS
  <2>1. FitsAt(s, p) /\ p + Octets(s[p]) \in 1 .. Len(s) + 1
    BY <1>4 DEF Visited, Covers, Closed
  <2>2. \A P : Covers(s, P) => p + Octets(s[p]) \in P
    BY DEF Visited, Covers, Closed
  <2> QED  BY <2>1, <2>2 DEF Visited
<1> QED  BY <1>5, <1>6 DEF Covers, Closed

\* Of the places visited none lies between one and the next.
LEMMA VisitedInOrder ==
    ASSUME NEW s \in Seq(1 .. 255), Covers(s, Visited(s)),
           NEW p \in Visited(s), NEW r \in Visited(s), p <= Len(s), p < r
    PROVE  p + Octets(s[p]) <= r
<1> DEFINE V == Visited(s)
           After1(x) == x + Octets(s[x])
           Skipped(x) == {y \in V : y <= x \/ After1(x) <= y}
           Reached == {x \in V : \A y \in V : y < x => After1(y) <= x}
<1>1. Len(s) \in Nat /\ V \in SUBSET (1 .. Len(s) + 1) /\ 1 \in V
  BY DEF Covers
<1>2. \A x \in V : x <= Len(s) => FitsAt(s, x) /\ After1(x) \in V
  BY DEF Covers, Closed
<1>3. \A x \in V : x <= Len(s) => After1(x) \in x + 1 .. Len(s) + 1
  BY <1>1, <1>2, FitsWithin
<1>4. \A P \in SUBSET V : 1 \in P /\ (\A x \in P : x <= Len(s) => After1(x) \in P) => P = V
  <2> SUFFICES ASSUME NEW P \in SUBSET V, 1 \in P, \A x \in P : x <= Len(s) => After1(x) \in P
               PROVE  P = V
    OBVIOUS
  <2>1. Covers(s, P)
    BY <1>1, <1>2 DEF Covers, Closed
  <2> QED  BY <2>1 DEF Visited
<1> HIDE DEF V, After1
<1>5. \A x \in Reached : x <= Len(s) => Skipped(x) = V
  <2> SUFFICES ASSUME NEW x \in Reached, x <= Len(s) PROVE Skipped(x) = V
    OBVIOUS
  <2>1. x \in V /\ 1 \in Skipped(x)
    BY <1>1
  <2>2. \A y \in Skipped(x) : y <= Len(s) => After1(y) \in Skipped(x)
    <3> SUFFICES ASSUME NEW y \in Skipped(x), y <= Len(s) PROVE After1(y) \in Skipped(x)
      OBVIOUS
    <3>1. y \in V /\ After1(y) \in V /\ After1(y) \in y + 1 .. Len(s) + 1
      BY <1>2, <1>3
    <3>2. After1(x) \in Nat /\ y \in Nat /\ x \in Nat
      BY <1>1, <1>3, <2>1, <3>1
    <3>3. CASE y < x
      BY <3>1, <3>3
    <3>4. CASE y = x
      BY <3>1, <3>2, <3>4
    <3>5. CASE After1(x) <= y
      BY <3>1, <3>2, <3>5
    <3>6. y <= x \/ After1(x) <= y
      OBVIOUS
    <3> QED  BY <3>2, <3>3, <3>4, <3>5, <3>6
  <2>3. Skipped(x) \in SUBSET V
    OBVIOUS
  <2> HIDE DEF Skipped
  <2> QED  BY <1>4, <2>1, <2>2, <2>3
<1>6. Reached = V
  <2>1. 1 \in Reached
    BY <1>1
  <2>2. \A x \in Reached : x <= Len(s) => After1(x) \in Reached
    <3> SUFFICES ASSUME NEW x \in Reached, x <= Len(s) PROVE After1(x) \in Reached
      OBVIOUS
    <3>1. x \in V /\ x \in Nat /\ After1(x) \in V /\ After1(x) \in x + 1 .. Len(s) + 1
      BY <1>1, <1>2, <1>3
    <3>2. ASSUME NEW y \in V, y < After1(x) PROVE After1(y) <= After1(x)
      <4>1. y \in Nat /\ y <= Len(s)
        BY <1>1, <3>1, <3>2
      <4>2. After1(y) \in Nat
        BY <1>3, <4>1
      <4>3. y <= x \/ After1(x) <= y
        BY <1>5
      <4>4. y <= x
        BY <3>1, <3>2, <4>1, <4>3
      <4>5. CASE y < x
        <5>1. After1(y) <= x
          BY <4>5
        <5> QED  BY <3>1, <4>2, <5>1
      <4>6. CASE y = x
        BY <3>1, <4>6
      <4> QED  BY <3>1, <4>1, <4>4, <4>5, <4>6
    <3> QED  BY <3>1, <3>2
  <2>3. Reached \in SUBSET V
    OBVIOUS
  <2> HIDE DEF Reached
  <2> QED  BY <1>4, <2>1, <2>2, <2>3
<1>7. r \in Reached /\ p \in V
  BY <1>6 DEF V
<1>8. After1(p) <= r
  BY <1>7
<1> QED  BY <1>8 DEF After1


\* The last place visited is the end of the text.
LEMMA EndVisited ==
    ASSUME NEW s \in Seq(1 .. 255), Covers(s, Visited(s))
    PROVE  Len(s) + 1 \in Visited(s)
<1>1. Len(s) \in Nat /\ Visited(s) \in SUBSET (1 .. Len(s) + 1) /\ 1 \in Visited(s)
  BY DEF Covers
<1>2. Visited(s) \in SUBSET Nat /\ IsFiniteSet(Visited(s)) /\ Visited(s) # {}
  <2>1. IsFiniteSet(1 .. Len(s) + 1)
    BY <1>1, FS_Interval
  <2>2. IsFiniteSet(Visited(s))
    BY <1>1, <2>1, FS_Subset
  <2> QED  BY <1>1, <2>2
<1>3. PICK p \in Visited(s) : \A y \in Visited(s) : y <= p
  BY <1>2, FirstAndLast
<1>4. ~(p <= Len(s))
  <2> SUFFICES ASSUME p <= Len(s) PROVE FALSE
    OBVIOUS
  <2>1. FitsAt(s, p) /\ p + Octets(s[p]) \in Visited(s)
    BY DEF Covers, Closed
  <2>2. p \in 1 .. Len(s)
    BY <1>1
  <2>3. p + Octets(s[p]) \in p + 1 .. Len(s) + 1
    BY <2>1, <2>2, FitsWithin
  <2> QED  BY <1>3, <2>1, <2>2, <2>3
<1>5. p = Len(s) + 1
  BY <1>1, <1>4
<1> QED  BY <1>5

\* What apn_string_is_utf8 accepts can be cut into characters it takes.
LEMMA AcceptedCut ==
    ASSUME NEW s \in Seq(1 .. 255), IsUtf8(s)
    PROVE  CutsInto(s, LaxChar)
<1> DEFINE V == Visited(s)
           inner == V \ {1, Len(s) + 1}
<1>1. Covers(s, V)
  BY AcceptedCovers
<1>2. Len(s) \in Nat /\ V \in SUBSET (1 .. Len(s) + 1) /\ 1 \in V /\ Len(s) + 1 \in V
  BY <1>1, EndVisited DEF Covers
<1>3. inner \in SUBSET (2 .. Len(s)) /\ inner \union {1, Len(s) + 1} = V
  <2> HIDE DEF V
  <2>1. ASSUME NEW x \in V, x # 1, x # Len(s) + 1 PROVE x \in 2 .. Len(s)
    <3>1. x \in 1 .. Len(s) + 1
      BY <1>2
    <3> QED  BY <1>2, <2>1, <3>1
  <2>2. \A x \in inner : x \in 2 .. Len(s)
    BY <2>1
  <2> QED  BY <1>2, <2>2, Zenon
<1>4. ASSUME NEW a \in V, NEW b \in V, a < b, \A c \in V : c <= a \/ b <= c
      PROVE  LaxChar(SubSeq(s, a, b - 1))
  <2> DEFINE next == a + Octets(s[a])
  <2>1. a \in 1 .. Len(s) /\ a <= Len(s) /\ b \in 1 .. Len(s) + 1
    BY <1>2, <1>4
  <2>2. FitsAt(s, a) /\ next \in V
    BY <1>1, <2>1 DEF Covers, Closed
  <2>3. next \in a + 1 .. Len(s) + 1 /\ LaxChar(SubSeq(s, a, next - 1))
    BY <2>1, <2>2, FitsWithin
  <2>4. next <= b
    BY <1>1, <1>4, <2>1, VisitedInOrder
  <2>5. b <= next
    <3> HIDE DEF next, V
    <3>1. next <= a \/ b <= next
      BY <1>4, <2>2
    <3> QED  BY <2>1, <2>3, <3>1
  <2> HIDE DEF next
  <2>6. next = b
    BY <2>1, <2>3, <2>4, <2>5
  <2> QED  BY <2>3, <2>6
<1> HIDE DEF V, inner
<1> QED  BY <1>3, <1>4 DEF CutsInto

-----------------------------------------------------------------------------
(* Proper texts *)

\* A proper character is one the library takes.
LEMMA ProperIsLax ==
    ASSUME NEW c \in Seq(1 .. 255), ProperChar(c)
    PROVE  LaxChar(c)
<1>1. Len(c) \in 1 .. 4 /\ c # <<>>
  BY DEF ProperChar
<1>2. \A k \in 1 .. Len(c) : c[k] \in 1 .. 255
  BY ElementOfSeq
<1>3. c[1] \in 1 .. 255
  BY <1>1, <1>2
<1> DEFINE TailFrom(from) == \A k \in from .. Len(c) : c[k] \in 128 .. 191
<1>4. \/ Len(c) = 1 /\ c[1] < 128
      \/ Len(c) = 2 /\ c[1] \in 192 .. 223 /\ TailFrom(2)
      \/ Len(c) = 3 /\ c[1] \in 224 .. 239 /\ c[2] \in 128 .. 191 /\ TailFrom(3)
      \/ Len(c) = 4 /\ c[1] \in 240 .. 247 /\ c[2] \in 128 .. 191 /\ TailFrom(3)
  <2>1. CASE Len(c) = 1
    BY <2>1 DEF ProperChar
  <2>2. CASE Len(c) = 2
    <3>1. c[1] \in 194 .. 223 /\ TailFrom(2)
      BY <2>2 DEF ProperChar, Tail80
    <3>2. c[1] \in 192 .. 223
      BY <1>3, <3>1
    <3> QED  BY <2>2, <3>1, <3>2
  <2>3. CASE Len(c) = 3
    <3>1. /\ TailFrom(3)
          /\ \/ c[1] = 224 /\ c[2] \in 160 .. 191
             \/ c[1] \in (225 .. 239) \ {237} /\ c[2] \in 128 .. 191
             \/ c[1] = 237 /\ c[2] \in 128 .. 159
      BY <2>3 DEF ProperChar, Tail80
    <3> HIDE DEF TailFrom
    <3>2. c[1] \in 224 .. 239 /\ c[2] \in 128 .. 191
      BY <1>3, <3>1
    <3> QED  BY <2>3, <3>1, <3>2
  <2>4. CASE Len(c) = 4
    <3>1. /\ TailFrom(3)
          /\ \/ c[1] = 240 /\ c[2] \in 144 .. 191
             \/ c[1] \in 241 .. 243 /\ c[2] \in 128 .. 191
             \/ c[1] = 244 /\ c[2] \in 128 .. 143
      BY <2>4 DEF ProperChar, Tail80
    <3> HIDE DEF TailFrom
    <3>2. c[1] \in 240 .. 247 /\ c[2] \in 128 .. 191
      BY <1>3, <3>1
    <3> QED  BY <2>4, <3>1, <3>2
  <2> QED  BY <1>1, <2>1, <2>2, <2>3, <2>4
<1>5. Len(c) = Octets(c[1])
  <2> DEFINE ch == c[1]
             len == Len(c)
  <2>1. \/ len = 1 /\ ch < 128
        \/ len = 2 /\ ch \in 192 .. 223
        \/ len = 3 /\ ch \in 224 .. 239
        \/ len = 4 /\ ch \in 240 .. 247
    BY <1>4
  <2>2. ch \in 1 .. 255
    BY <1>3
  <2> HIDE DEF ch, len
  <2>3. /\ ch < 128          => Octets(ch) = 1
        /\ ch \in 192 .. 223 => Octets(ch) = 2
        /\ ch \in 224 .. 239 => Octets(ch) = 3
        /\ ch \in 240 .. 247 => Octets(ch) = 4
    BY <2>2, OctetsOf, Zenon
  <2>4. len = Octets(ch)
    BY <2>1, <2>3
  <2> QED  BY <2>4 DEF ch, len
<1>6. ASSUME NEW k \in 2 .. Len(c) PROVE c[k] \in 128 .. 251
  <2>1. CASE Len(c) = 1
    BY <2>1
  <2>2. CASE Len(c) = 2 /\ TailFrom(2)
    <3>1. c[k] \in 128 .. 191
      BY <2>2
    <3> QED  BY <3>1
  <2>3. CASE c[2] \in 128 .. 191 /\ TailFrom(3)
    <3>1. k = 2 \/ k \in 3 .. Len(c)
      BY <1>1
    <3>2. c[k] \in 128 .. 191
      BY <2>3, <3>1
    <3> QED  BY <3>2
  <2> HIDE DEF TailFrom
  <2> QED  BY <1>4, <2>1, <2>2, <2>3
<1> QED  BY <1>1, <1>5, <1>6 DEF LaxChar

\* What the library takes for a character lets the check go on.
LEMMA LaxFits ==
    ASSUME NEW s \in Seq(1 .. 255), NEW a \in 1 .. Len(s), NEW b \in a + 1 .. Len(s) + 1,
           LaxChar(SubSeq(s, a, b - 1))
    PROVE  FitsAt(s, a) /\ b = a + Octets(s[a])
<1> DEFINE c == SubSeq(s, a, b - 1)
<1>1. Len(s) \in Nat /\ a \in Int /\ b - 1 \in Int /\ b \in Int
  OBVIOUS
<1>2. Len(c) = b - a /\ \A i \in 1 .. b - a : c[i] = s[a + i - 1]
  <2>1. \A i \in a .. b - 1 : s[i] \in 1 .. 255
    <3> SUFFICES ASSUME NEW i \in a .. b - 1 PROVE s[i] \in 1 .. 255
      OBVIOUS
    <3>1. i \in 1 .. Len(s)
      BY <1>1
    <3> QED  BY <3>1, ElementOfSeq
  <2>2. a <= b - 1 /\ b - 1 - a + 1 = b - a
    BY <1>1
  <2>3. Len(c) = b - 1 - a + 1 /\ \A i \in 1 .. b - 1 - a + 1 : c[i] = s[a + i - 1]
    BY <1>1, <2>1, <2>2, SubSeqProperties
  <2> QED  BY <2>2, <2>3
<1>3. Len(c) = Octets(c[1]) /\ \A k \in 2 .. Len(c) : c[k] \in 128 .. 251
  BY DEF LaxChar
<1> HIDE DEF c
<1>4. c[1] = s[a]
  BY <1>1, <1>2
<1>5. b = a + Octets(s[a]) /\ Octets(s[a]) = b - a
  BY <1>1, <1>2, <1>3, <1>4
<1>6. ASSUME NEW j \in 1 .. b - a - 1
      PROVE  (IF a + j <= Len(s) THEN s[a + j] ELSE 0) \in 128 .. 251
  <2>1. a + j <= Len(s) /\ j + 1 \in 2 .. b - a /\ j + 1 \in 1 .. b - a /\ a + (j + 1) - 1 = a + j
    BY <1>1
  <2>2. c[j + 1] = s[a + j] /\ c[j + 1] \in 128 .. 251
    BY <1>2, <1>3, <2>1
  <2> QED  BY <2>1, <2>2
<1>7. Octets(s[a]) > 0
  BY <1>1, <1>5
<1> QED  BY <1>5, <1>6, <1>7 DEF FitsAt, Continuation

\* A text that can be cut into proper characters is accepted: the last place of
\* the cuts from which it would not be is before another one.
LEMMA ProperAccepted ==
    ASSUME NEW s \in Seq(1 .. 255), CutsInto(s, ProperChar)
    PROVE  IsUtf8(s)
<1>1. Len(s) \in Nat
  OBVIOUS
<1>2. PICK inner \in SUBSET (2 .. Len(s)) :
          \A a, b \in inner \union {1, Len(s) + 1} :
              a < b /\ (\A c \in inner \union {1, Len(s) + 1} : c <= a \/ b <= c)
                  => ProperChar(SubSeq(s, a, b - 1))
  BY DEF CutsInto
<1> DEFINE cuts == inner \union {1, Len(s) + 1}
           Wrong == {a \in cuts : ~Accepts(s)[a]}
           Later(a) == {b \in cuts : a < b}
<1>3. cuts \in SUBSET (1 .. Len(s) + 1) /\ 1 \in cuts /\ Len(s) + 1 \in cuts
  <2>1. \A x \in 2 .. Len(s) : x \in 1 .. Len(s) + 1
    BY <1>1
  <2>2. 1 \in 1 .. Len(s) + 1 /\ Len(s) + 1 \in 1 .. Len(s) + 1
    BY <1>1
  <2> QED  BY <2>1, <2>2, Zenon
<1>4. \A S \in SUBSET cuts : S \in SUBSET Nat /\ IsFiniteSet(S)
  <2> SUFFICES ASSUME NEW S \in SUBSET cuts PROVE S \in SUBSET Nat /\ IsFiniteSet(S)
    OBVIOUS
  <2>1. IsFiniteSet(1 .. Len(s) + 1) /\ S \in SUBSET (1 .. Len(s) + 1)
    <3>1. 1 \in Int /\ Len(s) + 1 \in Int
      BY <1>1
    <3>2. S \in SUBSET (1 .. Len(s) + 1)
      <4> HIDE DEF cuts
      <4> QED  BY <1>3
    <3> QED  BY <3>1, <3>2, FS_Interval
  <2>2. IsFiniteSet(S)
    BY <2>1, FS_Subset
  <2> QED  BY <1>1, <2>1, <2>2
<1>5. \A a, b \in cuts : a < b /\ (\A c \in cuts : c <= a \/ b <= c)
                             => ProperChar(SubSeq(s, a, b - 1))
  BY <1>2
<1> HIDE DEF cuts
<1>6. Accepts(s)[Len(s) + 1]
  <2>1. Len(s) + 1 \in 1 .. Len(s) + 4 /\ Len(s) + 1 > Len(s)
    BY <1>1
  <2> QED  BY <2>1, AcceptsDefined
<1>7. Wrong = {}
  <2> SUFFICES ASSUME Wrong # {} PROVE FALSE
    OBVIOUS
  <2>1. Wrong \in SUBSET Nat /\ IsFiniteSet(Wrong)
    BY <1>4
  <2>2. PICK a \in Wrong : \A y \in Wrong : y <= a
    <3> HIDE DEF Wrong
    <3> QED  BY <2>1, FirstAndLast
  <2>3. a \in cuts /\ ~Accepts(s)[a] /\ a \in 1 .. Len(s) /\ Len(s) + 1 \in Later(a)
    BY <1>1, <1>3, <1>6
  <2>4. Later(a) \in SUBSET Nat /\ IsFiniteSet(Later(a)) /\ Later(a) # {}
    BY <1>4, <2>3
  <2>5. PICK b \in Later(a) : \A y \in Later(a) : b <= y
    <3> HIDE DEF Later
    <3> QED  BY <2>4, FirstAndLast
  <2>6. b \in cuts /\ a < b /\ b \in a + 1 .. Len(s) + 1
    BY <1>1, <1>3, <2>3
  <2>7. \A c \in cuts : c <= a \/ b <= c
    <3> SUFFICES ASSUME NEW c \in cuts, ~(c <= a) PROVE b <= c
      OBVIOUS
    <3>1. a < c
      BY <1>1, <1>3, <2>3
    <3> QED  BY <2>5, <3>1
  <2>8. ProperChar(SubSeq(s, a, b - 1))
    BY <1>5, <2>3, <2>6, <2>7
  <2>9. SubSeq(s, a, b - 1) \in Seq(1 .. 255)
    <3>1. a \in Int /\ b - 1 \in Int /\ \A i \in a .. b - 1 : i \in 1 .. Len(s)
      BY <1>1, <2>3, <2>6
    <3>2. \A i \in a .. b - 1 : s[i] \in 1 .. 255
      BY <3>1, ElementOfSeq
    <3> QED  BY <3>1, <3>2, SubSeqProperties
  <2>10. FitsAt(s, a) /\ b = a + Octets(s[a])
    BY <2>3, <2>6, <2>8, <2>9, LaxFits, ProperIsLax
  <2>11. Accepts(s)[b]
    <3>1. b \notin Wrong
      BY <1>1, <2>2, <2>3, <2>6
    <3> QED  BY <2>6, <3>1
  <2>12. a \in 1 .. Len(s) + 4
    BY <1>1, <2>3
  <2> QED  BY <2>3, <2>10, <2>11, <2>12, AcceptsDefined
<1> QED  BY <1>3, <1>7, IsUtf8Accepts

-----------------------------------------------------------------------------
(* Lists of tokens *)

\* Where lines end.
LEMMA EndFacts ==
    ASSUME NEW s \in Seq(1 .. 255), s # <<>>
    PROVE  /\ Len(s) \in Nat \ {0}
           /\ LineEnds(s) \in SUBSET (1 .. Len(s) + 1)
           /\ LineEnds(s) \in SUBSET Nat /\ IsFiniteSet(LineEnds(s))
           /\ \A k \in 1 .. Len(s) : k \in LineEnds(s) <=> s[k] = Newline
           /\ \E k \in LineEnds(s) : k >= Len(s)
<1>1. Len(s) \in Nat \ {0}
  OBVIOUS
<1>2. LineEnds(s) \in SUBSET (1 .. Len(s) + 1)
  BY DEF LineEnds
<1>3. IsFiniteSet(LineEnds(s))
  <2>1. 1 \in Int /\ Len(s) + 1 \in Int
    BY <1>1
  <2> QED  BY <1>2, <2>1, FS_Interval, FS_Subset
<1>4. \A k \in 1 .. Len(s) : k \in LineEnds(s) <=> s[k] = Newline
  <2> SUFFICES ASSUME NEW k \in 1 .. Len(s) PROVE k \in LineEnds(s) <=> s[k] = Newline
    OBVIOUS
  <2>1. k \in 1 .. Len(s) + 1 /\ k <= Len(s)
    BY <1>1
  <2> QED  BY <2>1 DEF LineEnds
<1>5. \E k \in LineEnds(s) : k >= Len(s)
  <2>1. CASE s[Len(s)] = Newline
    <3>1. Len(s) \in LineEnds(s)
      BY <1>1, <1>4, <2>1
    <3> QED  BY <1>1, <3>1
  <2>2. CASE s[Len(s)] # Newline
    <3>1. Len(s) + 1 \in 1 .. Len(s) + 1 /\ ~(Len(s) + 1 <= Len(s)) /\ Len(s) + 1 >= Len(s)
      BY <1>1
    <3>2. Len(s) + 1 \in LineEnds(s)
      BY <2>2, <3>1 DEF LineEnds
    <3> QED  BY <3>1, <3>2
  <2> QED  BY <2>1, <2>2
<1> QED  BY <1>1, <1>2, <1>3, <1>4, <1>5

\* The first place of a line.
LineStart(s, n) == LineEnd(s, n - 1) + 1

\* Lines follow one another, and no end lies within one.
LEMMA EndsInOrder ==
    ASSUME NEW s \in Seq(1 .. 255), s # <<>>
    PROVE  /\ Cardinality(LineEnds(s)) \in Nat \ {0}
           /\ \A n \in 0 .. Cardinality(LineEnds(s)) : LineEnd(s, n) \in 0 .. Len(s) + 1
           /\ \A n \in 1 .. Cardinality(LineEnds(s)) :
                  /\ LineEnd(s, n) \in LineEnds(s)
                  /\ LineEnd(s, n - 1) < LineEnd(s, n)
                  /\ \A k \in LineEnds(s) : k <= LineEnd(s, n - 1) \/ LineEnd(s, n) <= k
           /\ \A m, n \in 1 .. Cardinality(LineEnds(s)) : m < n => LineEnd(s, m) < LineEnd(s, n)
           /\ \A k \in LineEnds(s) : /\ Rank(LineEnds(s), k) \in 1 .. Cardinality(LineEnds(s))
                                     /\ LineEnd(s, Rank(LineEnds(s), k)) = k
<1> DEFINE E == LineEnds(s)
           N == Cardinality(E)
<1>1. /\ Len(s) \in Nat \ {0} /\ E \in SUBSET (1 .. Len(s) + 1)
      /\ E \in SUBSET Nat /\ IsFiniteSet(E) /\ E # {}
  BY EndFacts
<1>2. /\ N \in Nat
      /\ \A n \in 1 .. N : Nth(E, n) \in E
      /\ \A x \in E : Rank(E, x) \in 1 .. N /\ Nth(E, Rank(E, x)) = x
      /\ \A m, n \in 1 .. N : m < n => Nth(E, m) < Nth(E, n)
  BY <1>1, NthHasRank
<1>3. N # 0
  BY <1>1, FS_EmptySet
<1>4. LineEnd(s, 0) = 0 /\ \A n \in 1 .. N : LineEnd(s, n) = Nth(E, n)
  BY DEF LineEnd
<1> HIDE DEF E, N
<1>5. \A n \in 1 .. N : LineEnd(s, n) \in E /\ LineEnd(s, n) \in 1 .. Len(s) + 1
  BY <1>1, <1>2, <1>4
<1>6. \A n \in 0 .. N : LineEnd(s, n) \in 0 .. Len(s) + 1
  <2> SUFFICES ASSUME NEW n \in 0 .. N PROVE LineEnd(s, n) \in 0 .. Len(s) + 1
    OBVIOUS
  <2>1. n = 0 \/ n \in 1 .. N
    BY <1>2
  <2>2. LineEnd(s, n) = 0 \/ LineEnd(s, n) \in 1 .. Len(s) + 1
    BY <1>4, <1>5, <2>1
  <2> QED  BY <1>1, <2>2
<1>7. \A m \in 0 .. N : \A n \in 1 .. N : m < n => LineEnd(s, m) < LineEnd(s, n)
  <2> SUFFICES ASSUME NEW m \in 0 .. N, NEW n \in 1 .. N, m < n
               PROVE  LineEnd(s, m) < LineEnd(s, n)
    OBVIOUS
  <2>1. CASE m = 0
    BY <1>4, <1>5, <2>1
  <2>2. CASE m # 0
    <3>1. m \in 1 .. N
      BY <1>2, <2>2
    <3> QED  BY <1>2, <1>4, <3>1
  <2> QED  BY <2>1, <2>2
<1>8. \A k \in E : Rank(E, k) \in 1 .. N /\ LineEnd(s, Rank(E, k)) = k
  BY <1>2, <1>4
<1>9. ASSUME NEW n \in 1 .. N
      PROVE  /\ LineEnd(s, n - 1) < LineEnd(s, n)
             /\ \A k \in E : k <= LineEnd(s, n - 1) \/ LineEnd(s, n) <= k
  <2>1. n - 1 \in 0 .. N /\ n - 1 < n
    BY <1>2
  <2>2. LineEnd(s, n - 1) < LineEnd(s, n)
    BY <1>7, <2>1
  <2>3. ASSUME NEW k \in E PROVE k <= LineEnd(s, n - 1) \/ LineEnd(s, n) <= k
    <3> DEFINE r == Rank(E, k)
    <3>1. r \in 1 .. N /\ LineEnd(s, r) = k
      BY <1>8
    <3> HIDE DEF r
    <3>2. k \in Nat /\ LineEnd(s, n) \in Nat /\ LineEnd(s, n - 1) \in Nat
      BY <1>1, <1>6, <2>1
    <3>3. r = n - 1 \/ r < n - 1 \/ r = n \/ n < r
      BY <1>2, <3>1
    <3>4. r < n - 1 => LineEnd(s, r) < LineEnd(s, n - 1)
      BY <1>2, <1>7, <2>1, <3>1
    <3>5. n < r => LineEnd(s, n) < LineEnd(s, r)
      BY <1>2, <1>7, <3>1
    <3> QED  BY <3>1, <3>2, <3>3, <3>4, <3>5
  <2> QED  BY <2>2, <2>3
<1>10. \A m, n \in 1 .. N : m < n => LineEnd(s, m) < LineEnd(s, n)
  BY <1>2, <1>4
<1> QED  BY <1>2, <1>3, <1>5, <1>6, <1>8, <1>9, <1>10 DEF E, N

\* The n-th line read is what lies between two ends.
LEMMA LineText ==
    ASSUME NEW s \in Seq(1 .. 255), s # <<>>, NEW n \in 1 .. Cardinality(LineEnds(s))
    PROVE  /\ Lines(s)[n] = SubSeq(s, LineStart(s, n), LineEnd(s, n) - 1)
           /\ Len(Lines(s)[n]) = LineEnd(s, n) - LineStart(s, n)
<1> DEFINE start == LineEnd(s, n - 1)
           size == LineEnd(s, n) - 1 - start
           rest == SubSeq(s, start + 1, Len(s))
<1>1. Len(s) \in Nat /\ Cardinality(LineEnds(s)) \in Nat
  BY EndsInOrder
<1>2. n - 1 \in 0 .. Cardinality(LineEnds(s)) /\ n \in 0 .. Cardinality(LineEnds(s))
  BY <1>1
<1>3. start \in 0 .. Len(s) + 1 /\ LineEnd(s, n) \in 0 .. Len(s) + 1 /\ start < LineEnd(s, n)
  BY <1>2, EndsInOrder
<1>4. /\ start \in Nat /\ size \in Nat /\ start + size <= Len(s) /\ start <= Len(s)
      /\ start + size = LineEnd(s, n) - 1 /\ size = LineEnd(s, n) - LineStart(s, n)
  BY <1>1, <1>3 DEF LineStart
<1>5. Lines(s)[n] = Substr(rest, size + 1, 0, size).string
  BY DEF Lines
<1> HIDE DEF start, size
<1>6. rest \in Seq(1 .. 255) /\ Len(rest) = Len(s) - start
  <2> DEFINE d == Len(s) - start
  <2>1. d \in Nat /\ start + d = Len(s) /\ start + d <= Len(s)
    BY <1>1, <1>4
  <2> HIDE DEF d, rest
  <2>2. Len(SubSeq(s, start + 1, start + d)) = d
    BY <1>4, <2>1, Stretch
  <2>4. SubSeq(s, start + 1, start + d) \in Seq(1 .. 255)
    BY <1>4, <2>1, Stretch
  <2>3. SubSeq(s, start + 1, start + d) = rest
    BY <2>1 DEF rest
  <2> QED  BY <2>2, <2>3, <2>4 DEF d
<1>7. Substr(rest, size + 1, 0, size).string = SubSeq(rest, 1, size)
  <2> DEFINE piece == Substr(rest, size + 1, 0, size)
  <2> HIDE DEF rest
  <2>1. size + 1 \in Nat \ {0} /\ 0 \in 0 .. Len(rest) /\ size \in 0 .. Len(rest) /\ 0 <= size
    BY <1>1, <1>4, <1>6
  <2>2. piece.string = SubSeq(rest, 0 + 1, Min({size, 0 + (size + 1) - 1}))
    BY <1>6, <2>1, SubstrFits
  <2>3. 0 + (size + 1) - 1 = size /\ 0 + 1 = 1 /\ size \in Int
    BY <1>4
  <2>4. Min({size, size}) = size
    BY <2>3, MinOfTwo
  <2> HIDE DEF piece
  <2>5. piece.string = SubSeq(rest, 1, size)
    BY <2>2, <2>3, <2>4
  <2> QED  BY <2>5 DEF piece
<1>8. SubSeq(rest, 1, size) = SubSeq(s, start + 1, start + size)
  <2>1. Len(s) - start \in Nat /\ start + (Len(s) - start) = Len(s) /\ size <= Len(s) - start
    BY <1>1, <1>4
  <2>2. start + (Len(s) - start) <= Len(s)
    BY <1>1, <2>1
  <2>3. SubSeq(SubSeq(s, start + 1, start + (Len(s) - start)), 1, size)
            = SubSeq(s, start + 1, start + size)
    BY <1>4, <2>1, <2>2, StretchOfStretch
  <2> QED  BY <2>1, <2>3
<1>9. Len(SubSeq(s, start + 1, start + size)) = size
  BY <1>4, Stretch
<1> HIDE DEF rest
<1>10. Lines(s)[n] = SubSeq(s, start + 1, start + size)
  BY <1>5, <1>7, <1>8
<1>11. LineStart(s, n) = start + 1
  BY DEF LineStart, start
<1> QED  BY <1>4, <1>9, <1>10, <1>11

\* The lines that are not blank.
Filled(s) == {n \in 1 .. Cardinality(LineEnds(s)) : LineStart(s, n) < LineEnd(s, n)}

\* A line that is not blank is a word.
LEMMA LineIsWord ==
    ASSUME NEW s \in Seq(1 .. 255), s # <<>>, NEW n \in Filled(s)
    PROVE  /\ LineStart(s, n) \in WordStarts(s, Newline)
           /\ WordEnd(s, Newline, LineStart(s, n)) = LineEnd(s, n) - 1
<1> DEFINE E == LineEnds(s)
           a == LineStart(s, n)
           b == LineEnd(s, n)
           Good == {m \in a .. Len(s) : \A j \in a .. m : s[j] # Newline}
<1>1. /\ Len(s) \in Nat /\ n \in 1 .. Cardinality(E) /\ Cardinality(E) \in Nat
      /\ \A k \in 1 .. Len(s) : k \in E <=> s[k] = Newline
      /\ E \in SUBSET (1 .. Len(s) + 1)
  BY EndFacts, EndsInOrder DEF Filled
<1>2. /\ b \in E /\ \A k \in E : k <= LineEnd(s, n - 1) \/ b <= k
  BY <1>1, EndsInOrder
<1>3. LineEnd(s, n - 1) \in 0 .. Len(s) + 1 /\ a = LineEnd(s, n - 1) + 1 /\ a < b
  <2>1. n - 1 \in 0 .. Cardinality(E)
    BY <1>1
  <2> QED  BY <2>1, EndsInOrder DEF Filled, LineStart
<1>4. b \in 1 .. Len(s) + 1 /\ a \in 1 .. Len(s)
  BY <1>1, <1>2, <1>3
<1> HIDE DEF a, b, E
<1>5. \A j \in a .. b - 1 : j \in 1 .. Len(s) /\ s[j] # Newline
  <2> SUFFICES ASSUME NEW j \in a .. b - 1 PROVE j \in 1 .. Len(s) /\ s[j] # Newline
    OBVIOUS
  <2>1. j \in 1 .. Len(s) /\ ~(b <= j) /\ ~(j <= LineEnd(s, n - 1))
    BY <1>1, <1>3, <1>4
  <2>2. j \notin E
    BY <1>2, <2>1
  <2> QED  BY <1>1, <2>1, <2>2
<1>6. a \in WordStarts(s, Newline)
  <2>1. s[a] # Newline
    <3>1. a \in a .. b - 1
      BY <1>3, <1>4
    <3> QED  BY <1>5, <3>1
  <2>2. CASE n = 1
    <3>1. a = 1
      BY <1>3, <2>2 DEF LineEnd
    <3> QED  BY <1>4, <2>1, <3>1 DEF WordStarts
  <2>3. CASE n # 1
    <3>1. n - 1 \in 1 .. Cardinality(E)
      BY <1>1, <2>3
    <3>2. LineEnd(s, n - 1) \in E
      BY <3>1, EndsInOrder DEF E
    <3>3. a - 1 = LineEnd(s, n - 1) /\ a - 1 \in 1 .. Len(s)
      BY <1>1, <1>3, <1>4, <3>2
    <3>4. s[a - 1] = Newline
      BY <1>1, <3>2, <3>3
    <3> QED  BY <1>4, <2>1, <3>4 DEF WordStarts
  <2> QED  BY <2>2, <2>3
<1>7. b - 1 \in Good
  <2>1. b - 1 \in a .. Len(s)
    BY <1>1, <1>3, <1>4
  <2> QED  BY <1>5, <2>1
<1>8. \A m \in Good : m \in Int /\ b - 1 >= m
  <2> SUFFICES ASSUME NEW m \in Good, ~(b - 1 >= m) PROVE FALSE
    BY <1>1, <1>4
  <2>1. m \in a .. Len(s) /\ b \in a .. m /\ b \in 1 .. Len(s)
    BY <1>1, <1>3, <1>4
  <2>2. s[b] # Newline /\ s[b] = Newline
    BY <1>1, <1>2, <2>1
  <2> QED  BY <2>2
<1>9. WordEnd(s, Newline, a) = Max(Good)
  BY DEF WordEnd
<1>10. Max(Good) = b - 1
  <2> HIDE DEF Good
  <2>1. Max(Good) \in Good /\ \A y \in Good : Max(Good) >= y
    BY <1>7, <1>8 DEF Max
  <2> DEFINE m == Max(Good)
  <2>2. m \in Int /\ b - 1 >= m /\ m >= b - 1
    BY <1>7, <1>8, <2>1
  <2> HIDE DEF m
  <2>3. m = b - 1
    BY <1>4, <2>2
  <2> QED  BY <2>3 DEF m
<1> QED  BY <1>6, <1>9, <1>10 DEF a, b

\* Every word is a line that is not blank.
LEMMA WordIsLine ==
    ASSUME NEW s \in Seq(1 .. 255), s # <<>>, NEW w \in WordStarts(s, Newline)
    PROVE  \E n \in Filled(s) : LineStart(s, n) = w
<1> DEFINE E == LineEnds(s)
           N == Cardinality(E)
<1>1. /\ Len(s) \in Nat \ {0} /\ E \in SUBSET (1 .. Len(s) + 1) /\ N \in Nat \ {0}
      /\ \A k \in 1 .. Len(s) : k \in E <=> s[k] = Newline
  BY EndFacts, EndsInOrder
<1>2. w \in 1 .. Len(s) /\ s[w] # Newline /\ w \notin E
  BY <1>1 DEF WordStarts
<1>3. \A n \in 1 .. N : LineEnd(s, n) \in E /\ LineEnd(s, n - 1) < LineEnd(s, n)
  BY EndsInOrder
<1>4. ASSUME NEW n \in 1 .. N, LineEnd(s, n - 1) = w - 1
      PROVE  n \in Filled(s) /\ LineStart(s, n) = w
  <2>1. LineStart(s, n) = w
    BY <1>2, <1>4 DEF LineStart
  <2>2. LineEnd(s, n) \in 1 .. Len(s) + 1 /\ w - 1 < LineEnd(s, n) /\ LineEnd(s, n) # w
    BY <1>1, <1>2, <1>3, <1>4
  <2>3. w < LineEnd(s, n)
    BY <1>2, <2>2
  <2> QED  BY <2>1, <2>3 DEF Filled
<1>5. CASE w = 1
  <2>1. 1 \in 1 .. N /\ LineEnd(s, 1 - 1) = w - 1
    BY <1>1, <1>5 DEF LineEnd
  <2> QED  BY <1>4, <2>1
<1>6. CASE w # 1
  <2>1. w - 1 \in 1 .. Len(s) /\ s[w - 1] = Newline
    BY <1>1, <1>2, <1>6 DEF WordStarts
  <2> DEFINE r == Rank(E, w - 1)
  <2>2. w - 1 \in E
    BY <1>1, <2>1
  <2>3. r \in 1 .. N /\ LineEnd(s, r) = w - 1
    BY <2>2, EndsInOrder
  <2> HIDE DEF r
  <2>4. PICK k \in E : k >= Len(s)
    BY EndFacts
  <2> DEFINE q == Rank(E, k)
  <2>5. q \in 1 .. N /\ LineEnd(s, q) = k
    BY EndsInOrder
  <2> HIDE DEF q
  <2>6. ~(q <= r)
    <3>1. q < r => k < w - 1
      <4>1. q < r => LineEnd(s, q) < LineEnd(s, r)
        BY <2>3, <2>5, EndsInOrder
      <4> QED  BY <2>3, <2>5, <4>1
    <3>2. k \in Nat /\ ~(k < w - 1) /\ k # w - 1
      BY <1>1, <1>2, <2>4
    <3>3. q # r
      BY <2>3, <2>5, <3>2
    <3> QED  BY <1>1, <2>3, <2>5, <3>1, <3>2, <3>3
  <2>7. r + 1 \in 1 .. N /\ (r + 1) - 1 = r
    BY <1>1, <2>3, <2>5, <2>6
  <2>8. LineEnd(s, (r + 1) - 1) = w - 1
    BY <2>3, <2>7
  <2> QED  BY <1>4, <2>7, <2>8
<1> QED  BY <1>5, <1>6

\* The lines that are not blank are the words, in their order.
LEMMA LinesAreWords ==
    ASSUME NEW s \in Seq(1 .. 255), s # <<>>
    PROVE  NotBlank(Lines(s)) = Words(s, Newline)
<1> DEFINE N == Cardinality(LineEnds(s))
           W == WordStarts(s, Newline)
           F == Filled(s)
           start == [n \in F |-> LineStart(s, n)]
<1>1. N \in Nat /\ Len(s) \in Nat
  BY EndsInOrder
<1>2. F \in SUBSET Nat /\ IsFiniteSet(F) /\ F \in SUBSET (1 .. N)
  <2>1. F \in SUBSET (1 .. N) /\ 1 \in Int /\ N \in Int
    BY <1>1 DEF Filled
  <2>2. IsFiniteSet(F)
    <3> HIDE DEF F, N
    <3> QED  BY <2>1, FS_Interval, FS_Subset
  <2> QED  BY <1>1, <2>1, <2>2
<1>3. W \in SUBSET Nat
  BY DEF WordStarts
<1>4. start \in [F -> W]
  BY LineIsWord
<1>5. \A m, n \in F : m < n => start[m] < start[n]
  <2> SUFFICES ASSUME NEW m \in F, NEW n \in F, m < n PROVE LineStart(s, m) < LineStart(s, n)
    OBVIOUS
  <2>1. m \in 1 .. N /\ n \in 1 .. N
    BY <1>2
  <2>2. n - 1 \in 0 .. N /\ m \in 0 .. N /\ m - 1 \in 0 .. N
    BY <1>1, <2>1
  <2>3. /\ LineEnd(s, m - 1) < LineEnd(s, m) /\ LineEnd(s, m) \in 0 .. Len(s) + 1
        /\ LineEnd(s, n - 1) \in 0 .. Len(s) + 1 /\ LineEnd(s, m - 1) \in 0 .. Len(s) + 1
    BY <2>1, <2>2, EndsInOrder
  <2>4. m = n - 1 \/ (m < n - 1 /\ n - 1 \in 1 .. N)
    BY <1>1, <2>1
  <2>5. m = n - 1 \/ LineEnd(s, m) < LineEnd(s, n - 1)
    BY <2>1, <2>4, EndsInOrder
  <2>6. LineEnd(s, m - 1) < LineEnd(s, n - 1)
    BY <1>1, <2>3, <2>5
  <2> QED  BY <1>1, <2>3, <2>6 DEF LineStart
<1>6. \A w \in W : \E n \in F : start[n] = w
  BY WordIsLine
<1>7. /\ Cardinality(W) = Cardinality(F) /\ Cardinality(F) \in Nat
      /\ \A i \in 1 .. Cardinality(F) : start[Nth(F, i)] = Nth(W, i) /\ Nth(F, i) \in F
  <2> HIDE DEF start, F, W
  <2>1. /\ Cardinality(W) = Cardinality(F)
        /\ \A i \in 1 .. Cardinality(F) : start[Nth(F, i)] = Nth(W, i)
    BY <1>2, <1>3, <1>4, <1>5, <1>6, SameOrder
  <2>2. Cardinality(F) \in Nat /\ \A i \in 1 .. Cardinality(F) : Nth(F, i) \in F
    BY <1>2, NthHasRank
  <2> QED  BY <2>1, <2>2
<1>8. Len(Lines(s)) = N
  BY <1>1 DEF Lines
<1>9. {n \in 1 .. Len(Lines(s)) : Lines(s)[n] # <<>>} = F
  <2>1. ASSUME NEW n \in 1 .. N PROVE Lines(s)[n] # <<>> <=> LineStart(s, n) < LineEnd(s, n)
    <3>1. /\ Lines(s)[n] = SubSeq(s, LineStart(s, n), LineEnd(s, n) - 1)
          /\ Len(Lines(s)[n]) = LineEnd(s, n) - LineStart(s, n)
      BY LineText
    <3>2. LineStart(s, n) \in Nat /\ LineEnd(s, n) \in Nat /\ LineEnd(s, n - 1) \in Nat
      <4>1. n - 1 \in 0 .. N /\ n \in 0 .. N
        BY <1>1
      <4> QED  BY <1>1, <4>1, EndsInOrder DEF LineStart
    <3>3. LineStart(s, n) <= LineEnd(s, n)
      <4>1. LineEnd(s, n - 1) < LineEnd(s, n)
        BY EndsInOrder
      <4> QED  BY <3>2, <4>1 DEF LineStart
    <3>4. Lines(s)[n] = <<>> => Len(Lines(s)[n]) = 0
      OBVIOUS
    <3>5. LineStart(s, n) = LineEnd(s, n) => Lines(s)[n] = <<>>
      <4> SUFFICES ASSUME LineStart(s, n) = LineEnd(s, n) PROVE Lines(s)[n] = <<>>
        OBVIOUS
      <4>1. LineEnd(s, n) - 1 \in Int /\ LineStart(s, n) \in Int /\ LineEnd(s, n) - 1 < LineStart(s, n)
        BY <3>2
      <4> QED  BY <3>1, <4>1, SubSeqEmpty
    <3> QED  BY <3>1, <3>2, <3>3, <3>4, <3>5
  <2> QED  BY <1>8, <2>1 DEF Filled
<1>10. NotBlank(Lines(s)) = [i \in 1 .. Cardinality(F) |-> Lines(s)[Nth(F, i)]]
  <2> HIDE DEF F
  <2> QED  BY <1>9 DEF NotBlank
<1>11. ASSUME NEW i \in 1 .. Cardinality(F)
       PROVE  Lines(s)[Nth(F, i)] = SubSeq(s, Nth(W, i), WordEnd(s, Newline, Nth(W, i)))
  <2> DEFINE n == Nth(F, i)
  <2>1. n \in F /\ start[n] = Nth(W, i)
    BY <1>7
  <2>2. n \in 1 .. N
    BY <1>2, <2>1
  <2> HIDE DEF n
  <2>3. LineStart(s, n) = Nth(W, i)
    BY <2>1
  <2>4. Lines(s)[n] = SubSeq(s, LineStart(s, n), LineEnd(s, n) - 1)
    BY <2>2, LineText
  <2>5. WordEnd(s, Newline, LineStart(s, n)) = LineEnd(s, n) - 1
    BY <2>1, LineIsWord
  <2>6. Lines(s)[n] = SubSeq(s, Nth(W, i), WordEnd(s, Newline, Nth(W, i)))
    BY <2>3, <2>4, <2>5
  <2> QED  BY <2>6 DEF n
<1>12. Words(s, Newline)
           = [i \in 1 .. Cardinality(W) |-> SubSeq(s, Nth(W, i), WordEnd(s, Newline, Nth(W, i)))]
  BY DEF Words
<1> HIDE DEF F, W
<1> QED  BY <1>7, <1>10, <1>11, <1>12

-----------------------------------------------------------------------------
(* The theorems *)

\* The string is of bytes other than the terminator, and stays as it is.
TextInv == text \in Seq(1 .. 255)

\* The strings the functions are given are C strings.
THEOREM TextInvariant == MCSpec => []TextInv
<1>1. MCInit => TextInv
  <2> SUFFICES ASSUME text \in Strings PROVE text \in Seq(1 .. 255)
    BY DEF MCInit, TextInv
  <2>1. PICK n \in 0 .. MaxLength : text \in [1 .. n -> Alphabet]
    BY DEF Strings
  <2>2. n \in Nat
    BY DataAssumption
  <2>3. text \in [1 .. n -> 1 .. 255]
    BY <2>1, DataAssumption
  <2>4. \A S : \A f \in [1 .. n -> S] : f \in Seq(S)
    BY <2>2, FunctionIsSequence
  <2> QED  BY <2>3, <2>4
<1>2. TextInv /\ [MCNext]_<<vars, text>> => TextInv'
  BY DEF TextInv, MCNext
<1> QED  BY <1>1, <1>2, PTL DEF MCSpec

\* With any of these strings for tokens the message stays laid out, so that what
\* the theorems of ApnMessageProofs say holds here too.
THEOREM MessageInvariantHere == MCSpec => [](MessageInv /\ FrameTells)
<1>1. MCInit => MessageInv
  <2>1. MCInit => Init
    BY DEF MCInit
  <2>2. Init => MessageInv
    BY InitKeeps
  <2> QED  BY <2>1, <2>2
<1>2. TextInv /\ MessageInv /\ [MCNext]_<<vars, text>> => MessageInv'
  <2> SUFFICES ASSUME TextInv, MessageInv, [MCNext]_<<vars, text>> PROVE MessageInv'
    OBVIOUS
  <2>1. CASE MCNext
    <3>1. {text} \in SUBSET Seq(1 .. 255) /\ Step({text})
      BY <2>1 DEF MCNext, TextInv
    <3> QED  BY <3>1, StepKeeps
  <2>2. CASE UNCHANGED <<vars, text>>
    BY <2>2, StutterKeeps
  <2> QED  BY <2>1, <2>2
<1>3. MessageInv => FrameTells
  BY InvTellsFrame
<1> QED  BY <1>1, <1>2, <1>3, TextInvariant, PTL DEF MCSpec

\* apn_string_is_utf8 accepts every proper text, and what it accepts can be cut
\* into characters that end within it (apn_strings.c:58-98).
THEOREM Utf8JudgedHolds == MCSpec => []Utf8Judged
<1>1. TextInv => Utf8Judged
  BY AcceptedCut, ProperAccepted DEF TextInv, Utf8Judged, ProperUtf8
<1> QED  BY <1>1, TextInvariant, PTL

\* The lines of a token file but the blank ones are what strtok cuts the same
\* bytes into, in the same order (pusher.c:80-142).
THEOREM ListsAgreeHolds == MCSpec => []ListsAgree
<1>1. TextInv => ListsAgree
  BY LinesAreWords DEF TextInv, ListsAgree
<1> QED  BY <1>1, TextInvariant, PTL

\* No copy of at most as many bytes as the buffer has leaves it
\* (apn_strings.c:138-167).
THEOREM CopiesFitHolds == MCSpec => []CopiesFit
<1>1. TextInv => CopiesFit
  <2> SUFFICES ASSUME TextInv, NEW dst_size \in 1 .. MaxLength + 1,
                      NEW src_size \in 0 .. MaxLength + 1, src_size <= dst_size
               PROVE  LET copy == Strncpy(text, dst_size, src_size)
                      IN  /\ copy.written <= dst_size
                          /\ IsPrefix(copy.string, text)
                          /\ Len(text) = src_size /\ src_size < dst_size
                                 => copy.string = text
    BY DEF CopiesFit
  <2>1. text \in Seq(1 .. 255) /\ dst_size \in Nat \ {0} /\ src_size \in Nat
    BY DataAssumption DEF TextInv
  <2> QED  BY <2>1, StrncpyFits
<1> QED  BY <1>1, TextInvariant, PTL

\* No piece leaves the buffer, and it is the one asked for as far as there is
\* room (apn_strings.c:125-136).
THEOREM PiecesFitHolds == MCSpec => []PiecesFit
<1>1. TextInv => PiecesFit
  <2> SUFFICES ASSUME TextInv, NEW dst_size \in 1 .. MaxLength + 1,
                      NEW start \in 0 .. Len(text), NEW stop \in 0 .. Len(text),
                      start <= stop
               PROVE  LET piece == Substr(text, dst_size, start, stop)
                      IN  /\ piece.written <= dst_size
                          /\ piece.string =
                                 SubSeq(text, start + 1, Min({stop, start + dst_size - 1}))
    BY DEF PiecesFit
  <2>1. text \in Seq(1 .. 255) /\ dst_size \in Nat \ {0}
    BY DataAssumption DEF TextInv
  <2> QED  BY <2>1, SubstrFits
<1> QED  BY <1>1, TextInvariant, PTL

\* A name put together from its parts is the whole name when it fits, and a part no
\* longer than the room left stays in the buffer; nothing is said of a longer one
\* (apn_strings.c:169-181; apn_ssl.c:446-465).
THEOREM PartsJoinedHolds == MCSpec => []PartsJoined
<1>1. TextInv => PartsJoined
  <2> SUFFICES ASSUME TextInv, NEW n \in 0 .. Len(text),
                      NEW dst_size \in 1 .. MaxLength + 1, n < dst_size
               PROVE  LET joined == Strcat(SubSeq(text, 1, n),
                                           SubSeq(text, n + 1, Len(text)),
                                           dst_size, Len(text) - n)
                      IN  /\ Len(text) < dst_size => joined.string = text
                          /\ Len(text) - n <= dst_size - n => joined.written <= dst_size
    BY DEF PartsJoined
  <2>1. text \in Seq(1 .. 255) /\ dst_size \in Nat \ {0}
    BY DataAssumption DEF TextInv
  <2> QED  BY <2>1, StrcatJoins
<1> QED  BY <1>1, TextInvariant, PTL

\* A token's two forms belong together (apn_tokens.c:32-95).
THEOREM TokensRoundTripHolds == MCSpec => []TokensRoundTrip
<1>1. TokensRoundTrip
  BY BinaryReadsBack DEF TokensRoundTrip
<1> QED  BY <1>1, PTL
=============================================================================
