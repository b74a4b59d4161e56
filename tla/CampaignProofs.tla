--------------------------- MODULE CampaignProofs ---------------------------
(***************************************************************************)
(* Theorems about the campaign driver, for tables, buffers and numbers of  *)
(* restarts and failures of any size: its types, what it marks, how often  *)
(* it sends again, and that it forgets nobody but what a connection that   *)
(* broke has lost.                                                         *)
(***************************************************************************)
EXTENDS Campaign, SequenceTheorems, TLAPS

-----------------------------------------------------------------------------
(* The inductive invariant *)

\* A part file is at work.
Working == {"push", "pusher", "parse", "truncate", "write_back", "mark"}

\* Where the driver is tells what the index file, the list of invalid tokens and
\* the variable of the part file are, ...
PlaceInv ==
    /\ pc = "prepare" => index = "absent"
    /\ pc = "write_index" => index = "empty"
    /\ pc \in Working \union {"pick", "done"} => index = "written"
    /\ pc \in Working => part \in Parts \ todo
    /\ pc \in {"start", "prepare", "write_index", "pick", "push", "done"} => bad = <<>>
    /\ pc \in {"truncate", "write_back", "mark"} => bad # <<>>
    /\ pc = "done" => todo = {}

\* ... only refused tokens are marked, and in the first session all of them whose
\* verdict was heard are or are about to be, ...
MarkInv ==
    /\ marked \subseteq refused /\ Range(bad) \subseteq refused
    /\ restarts = 0 => refused \ unheard \subseteq marked \union Range(bad)
    /\ index = "absent" => marked = {}

\* ... a part file holds the end of its table, all of it until the campaign
\* begins, ...
EndOf(p, lines) ==
    /\ Len(lines) <= Len(Rows[p])
    /\ \A k \in 1 .. Len(lines) : lines[k] = Rows[p][Len(Rows[p]) - Len(lines) + k]

FileInv ==
    /\ \A p \in Parts : EndOf(p, file[p])
    /\ pc \in {"truncate", "write_back"} => EndOf(part, content)
    /\ pc = "prepare" => \A p \in Parts : p <= part => file[p] = Rows[p]
    /\ index = "empty" => \A p \in Parts : file[p] = Rows[p]

\* ... and the last token named is a line of the file that is not registered.
NamedAt(K) == Lines[K] = Last(bad) /\ kind[Lines[K]] = "unknown"

ScanInv == pc \in {"pusher", "parse"} =>
    /\ next <= Len(Lines) + 1
    /\ bad # <<>> => \E K \in 1 .. Len(Lines) : NamedAt(K)

ShapeInv == TypeOK /\ PlaceInv /\ MarkInv /\ FileInv /\ ScanInv

-----------------------------------------------------------------------------
(* How often a device is notified *)

RefusedBefore(x) == Before(x) \cap refused # {}

\* What earlier sessions and the failures so far account for, ...
Earlier(x) == failures + IF RefusedBefore(x) THEN 2 * restarts ELSE restarts

\* ... with this session to come, in which a line is sent once or, behind a refused
\* one, twice.  Spare: a failure has just been counted that has not cost anything.
Spare(x) == delivered[x] + 1 <= Earlier(x)
Fresh(x) == delivered[x] <= Earlier(x)
Once(x)  == delivered[x] <= Earlier(x) + 1
Total(x) == delivered[x] <= Earlier(x) + IF RefusedBefore(x) THEN 2 ELSE 1

GoodBetween(lines, first, last) == \A k \in first .. last : kind[lines[k]] = "good"

\* The k-th line has not been sent in this session, or once: then the first line
\* that is not registered comes behind it, so that this is the last time.
Ready(lines, k) ==
    \/ Fresh(lines[k])
    \/ /\ Once(lines[k]) /\ RefusedBefore(lines[k])
       /\ GoodBetween(lines, 1, k)

\* The same once it has been sent.
Passed(lines, k) == Once(lines[k]) \/ GoodBetween(lines, 1, k)

\* Behind the last token named, which is the K-th line: a line that may have to be
\* sent twice more has a token not registered between, and that was missed only
\* in a failure.
Trail(K) ==
    /\ \A k \in K + 1 .. next - 1 : Fresh(Lines[k]) \/ GoodBetween(Lines, K + 1, k)
    /\ \/ GoodBetween(Lines, K + 1, next - 1)
       \/ \A k \in next .. Len(Lines) : Spare(Lines[k])

ScanReady ==
    /\ \A k \in next .. Len(Lines) : Ready(Lines, k)
    /\ \A k \in 1 .. next - 1 : Passed(Lines, k)
    /\ bad # <<>> => \A K \in 1 .. Len(Lines) : NamedAt(K) => Trail(K)

ResentInv ==
    /\ \A x \in Token : Total(x)
    /\ pc \in {"start", "prepare", "write_index"} => \A x \in Token : Fresh(x)
    /\ pc \in Working \union {"pick"} => \A p \in todo : \A x \in TokensOf(p) : Fresh(x)
    /\ pc \in {"push", "mark"} => \A k \in 1 .. Len(Lines) : Ready(Lines, k)
    /\ pc \in {"truncate", "write_back"} => \A k \in 1 .. Len(content) : Ready(content, k)
    /\ pc \in {"pusher", "parse"} => ScanReady

-----------------------------------------------------------------------------
(* Nobody is forgotten *)

\* Whatever has gone wrong before: what apn-pusher has passed is answered, and what
\* remove_file_lines will leave out, though apn-pusher may have gone back since.
ScanDecided == pc \in {"pusher", "parse"} =>
    /\ \A k \in 1 .. next - 1 : Answered(Lines[k])
    /\ bad # <<>> => \A K \in 1 .. Len(Lines) :
           NamedAt(K) => \A k \in 1 .. K : Answered(Lines[k])
CutOff      == pc = "truncate" => \A x \in Range(Lines) \ Range(content) : Answered(x)
PassedInv   == ScanDecided /\ CutOff

\* The rows of the p-th table that are not in lines any more are answered.
CutDecided(p, lines) == \A m \in 1 .. Len(Rows[p]) - Len(lines) : Answered(Rows[p][m])

\* The part files the driver has not finished with.
Unfinished == todo \union IF pc \in Working THEN {part} ELSE {}

LeftDecided  == index = "written" => \A p \in Parts : CutDecided(p, Left(p))
TrimDecided  == pc = "truncate" => CutDecided(part, content)
EndReached   == pc = "parse" /\ bad = <<>> => next > Len(Lines)
PartsDecided == pc \in Working \union {"pick", "done"} =>
                    \A p \in Parts \ Unfinished : \A x \in TokensOf(p) : Answered(x)

DecidedInv == ~torn /\ ~abandoned =>
    LeftDecided /\ TrimDecided /\ EndReached /\ PartsDecided

-----------------------------------------------------------------------------
(* The tables and what is left of them *)

LEMMA RowFacts ==
    /\ Len(Rows) \in Nat /\ Parts = 1 .. Len(Rows)
    /\ \A p \in Parts : /\ Rows[p] \in Seq(Token) /\ Len(Rows[p]) \in Nat
                        /\ TokensOf(p) \subseteq Token
                        /\ \A k \in 1 .. Len(Rows[p]) : Rows[p][k] \in TokensOf(p)
  <1>1. Rows \in Seq(Seq(Nat)) /\ Len(Rows) \in Nat /\ Parts = 1 .. Len(Rows)
    BY RowsAssumption DEF Parts
  <1>2. ASSUME NEW p \in Parts
        PROVE  /\ Rows[p] \in Seq(Token) /\ Len(Rows[p]) \in Nat
               /\ TokensOf(p) \subseteq Token
               /\ \A k \in 1 .. Len(Rows[p]) : Rows[p][k] \in TokensOf(p)
    <2>1. Rows[p] \in Seq(Nat) /\ Len(Rows[p]) \in Nat /\ DOMAIN Rows[p] = 1 .. Len(Rows[p])
      BY <1>1
    <2>2. \A k \in 1 .. Len(Rows[p]) : Rows[p][k] \in TokensOf(p)
      BY <2>1 DEF TokensOf, Range
    <2>3. TokensOf(p) \subseteq Token
      BY DEF Token
    <2>4. Rows[p] \in Seq(Token)
      BY <2>1, <2>2, <2>3
    <2> QED
      BY <2>1, <2>2, <2>3, <2>4
  <1> QED
    BY <1>1, <1>2

\* A token stands in one place only.
LEMMA RowsDistinct ==
    ASSUME NEW p \in Parts, NEW q \in Parts,
           NEW j \in 1 .. Len(Rows[p]), NEW k \in 1 .. Len(Rows[q]), Rows[p][j] = Rows[q][k]
    PROVE  p = q /\ j = k
  <1>1. Rows[p][j] \in TokensOf(p) /\ Rows[q][k] \in TokensOf(q)
    BY RowFacts
  <1>2. p = q
    BY <1>1, RowsAssumption
  <1>3. IsInjective(Rows[p]) /\ DOMAIN Rows[p] = 1 .. Len(Rows[p])
    BY RowFacts, RowsAssumption
  <1> QED
    BY <1>2, <1>3 DEF IsInjective

LEMMA BeforeRow ==
    ASSUME NEW p \in Parts, NEW j \in 1 .. Len(Rows[p]), NEW k \in 1 .. Len(Rows[p]), j < k
    PROVE  Rows[p][j] \in Before(Rows[p][k])
  BY DEF Before

\* The lines of a part file.
LEMMA EndFacts ==
    ASSUME NEW p \in Parts, NEW lines \in Seq(Token), EndOf(p, lines)
    PROVE  /\ \A k \in 1 .. Len(lines) : lines[k] \in TokensOf(p) /\ lines[k] \in Token
           /\ \A j, k \in 1 .. Len(lines) : lines[j] = lines[k] => j = k
           /\ \A j, k \in 1 .. Len(lines) : j < k => lines[j] \in Before(lines[k])
  <1> DEFINE Cut == Len(Rows[p]) - Len(lines)
  <1>1. Len(lines) \in Nat /\ Len(Rows[p]) \in Nat /\ Cut \in Nat
    BY RowFacts DEF EndOf
  <1>2. \A k \in 1 .. Len(lines) : Cut + k \in 1 .. Len(Rows[p]) /\ lines[k] = Rows[p][Cut + k]
    BY <1>1 DEF EndOf
  <1>3. \A k \in 1 .. Len(lines) : lines[k] \in TokensOf(p) /\ lines[k] \in Token
    BY <1>2, RowFacts
  <1>4. ASSUME NEW j \in 1 .. Len(lines), NEW k \in 1 .. Len(lines), lines[j] = lines[k]
        PROVE  j = k
    <2> DEFINE J == Cut + j
               K == Cut + k
    <2>1. J \in 1 .. Len(Rows[p]) /\ K \in 1 .. Len(Rows[p]) /\ Rows[p][J] = Rows[p][K]
      BY <1>2, <1>4
    <2> HIDE DEF J, K
    <2>2. J = K
      BY <2>1, RowsDistinct
    <2> QED
      BY <1>1, <2>2 DEF J, K
  <1>5. ASSUME NEW j \in 1 .. Len(lines), NEW k \in 1 .. Len(lines), j < k
        PROVE  lines[j] \in Before(lines[k])
    <2>1. Cut + j < Cut + k
      BY <1>1, <1>5
    <2> QED
      BY <1>2, <2>1, BeforeRow
  <1> QED
    BY <1>3, <1>4, <1>5

\* remove_file_lines, given the K-th line.
LEMMA RestFacts ==
    ASSUME NEW lines \in Seq(Token), NEW K \in 1 .. Len(lines),
           \A j \in 1 .. Len(lines) : lines[j] = lines[K] => j = K
    PROVE  /\ Rest(lines, lines[K]) \in Seq(Token)
           /\ Len(Rest(lines, lines[K])) = Len(lines) - K
           /\ \A k \in 1 .. Len(lines) - K : Rest(lines, lines[K])[k] = lines[K + k]
  <1>1. Len(lines) \in Nat
    OBVIOUS
  <1>2. LineOf(lines, lines[K]) = K
    <2>1. {k \in 1 .. Len(lines) : lines[k] = lines[K]} \union {Len(lines)} = {K, Len(lines)}
      OBVIOUS
    <2>2. \E x \in {K, Len(lines)} : \A y \in {K, Len(lines)} : x =< y
      BY <1>1
    <2>3. Min({K, Len(lines)}) \in {K, Len(lines)} /\ \A y \in {K, Len(lines)} : Min({K, Len(lines)}) =< y
      BY <2>2 DEF Min
    <2>4. Min({K, Len(lines)}) = K
      BY <1>1, <2>3
    <2> QED
      BY <2>1, <2>4 DEF LineOf
  <1>3. Rest(lines, lines[K]) = SubSeq(lines, K + 1, Len(lines))
    BY <1>2 DEF Rest
  <1>4. /\ SubSeq(lines, K + 1, Len(lines)) \in Seq(Token)
        /\ Len(SubSeq(lines, K + 1, Len(lines)))
               = IF K + 1 <= Len(lines) THEN Len(lines) - (K + 1) + 1 ELSE 0
        /\ \A k \in 1 .. Len(lines) - (K + 1) + 1 :
               SubSeq(lines, K + 1, Len(lines))[k] = lines[K + 1 + k - 1]
    <2>1. K + 1 \in Int /\ Len(lines) \in Int /\ \A k \in K + 1 .. Len(lines) : lines[k] \in Token
      BY <1>1
    <2> QED
      BY <2>1, SubSeqProperties
  <1>5. Len(SubSeq(lines, K + 1, Len(lines))) = Len(lines) - K
    BY <1>1, <1>4
  <1>6. ASSUME NEW k \in 1 .. Len(lines) - K
        PROVE  SubSeq(lines, K + 1, Len(lines))[k] = lines[K + k]
    <2>1. k \in 1 .. Len(lines) - (K + 1) + 1 /\ K + 1 + k - 1 = K + k
      BY <1>1
    <2> QED
      BY <1>4, <2>1
  <1> QED
    BY <1>3, <1>4, <1>5, <1>6

-----------------------------------------------------------------------------
(* Types *)

\* What an action gets to work on.
LEMMA LinesFacts ==
    ASSUME TypeOK, PlaceInv, FileInv, pc \in Working
    PROVE  /\ part \in Parts /\ Lines \in Seq(Token) /\ Len(Lines) \in Nat
           /\ \A k \in 1 .. Len(Lines) : Lines[k] \in TokensOf(part) /\ Lines[k] \in Token
           /\ \A j, k \in 1 .. Len(Lines) : Lines[j] = Lines[k] => j = k
           /\ \A j, k \in 1 .. Len(Lines) : j < k => Lines[j] \in Before(Lines[k])
           /\ next \in 1 .. Len(Lines) <=> next <= Len(Lines)
  <1>1. part \in Parts /\ Lines \in Seq(Token) /\ EndOf(part, Lines)
    BY DEF TypeOK, PlaceInv, FileInv, Lines
  <1>2. next \in Nat \ {0} /\ Len(Lines) \in Nat
    BY <1>1 DEF TypeOK
  <1> QED
    BY <1>1, <1>2, EndFacts

\* Where the last token named stands, and what remove_file_lines leaves.
LEMMA TrimFacts ==
    ASSUME TypeOK, PlaceInv, FileInv, ScanInv, pc = "parse", bad # <<>>
    PROVE  \E K \in 1 .. Len(Lines) :
               /\ NamedAt(K)
               /\ Rest(Lines, Last(bad)) \in Seq(Token)
               /\ Len(Rest(Lines, Last(bad))) = Len(Lines) - K
               /\ \A k \in 1 .. Len(Lines) - K : Rest(Lines, Last(bad))[k] = Lines[K + k]
  <1>1. /\ Lines \in Seq(Token) /\ Len(Lines) \in Nat
        /\ \A j, k \in 1 .. Len(Lines) : Lines[j] = Lines[k] => j = k
    BY LinesFacts DEF Working
  <1>2. PICK K \in 1 .. Len(Lines) : NamedAt(K)
    BY DEF ScanInv
  <1>3. Lines[K] = Last(bad)
    BY <1>2 DEF NamedAt
  <1> DEFINE rest == Rest(Lines, Lines[K])
  <1>4. /\ rest \in Seq(Token) /\ Len(rest) = Len(Lines) - K
        /\ \A k \in 1 .. Len(Lines) - K : rest[k] = Lines[K + k]
    BY <1>1, RestFacts
  <1> QED
    BY <1>2, <1>3, <1>4

LEMMA TypeInit == Init => TypeOK
  <1> SUFFICES ASSUME Init PROVE TypeOK
    OBVIOUS
  <1> USE DEF Init
  <1>1. Cap \in Nat
    BY BoundsAssumption DEF Cap
  <1>2. delivered \in [Token -> 0 .. Cap] /\ file \in [Parts -> Seq(Token)]
    BY <1>1
  <1>3. restarts \in 0 .. MaxRestarts /\ failures \in 0 .. MaxFailures /\ part \in 0 .. Len(Rows)
    BY BoundsAssumption, RowFacts
  <1>4. /\ kind \in [Token -> {"good", "unknown"}] /\ marked \in SUBSET Token
        /\ refused \in SUBSET Token /\ unheard \in SUBSET Token /\ lost \in SUBSET Token
        /\ index = "absent" /\ todo \in SUBSET Parts
        /\ bad \in Seq(Token) /\ content \in Seq(Token) /\ next \in Nat \ {0}
        /\ torn \in BOOLEAN /\ abandoned \in BOOLEAN
        /\ pc = "start"
    <2>1. <<>> \in Seq(Token)
      OBVIOUS
    <2>2. kind \in [Token -> {"good", "unknown"}]
      BY Zenon
    <2>3. 1 \in Nat \ {0}
      OBVIOUS
    <2> QED
      BY <2>1, <2>2, <2>3, Zenon
  <1> QED
    BY <1>2, <1>3, <1>4, Zenon DEF TypeOK, Stopped

LEMMA TypeStep == ShapeInv /\ [Next]_vars => TypeOK'
  <1> SUFFICES ASSUME TypeOK, PlaceInv, MarkInv, FileInv, ScanInv, [Next]_vars PROVE TypeOK'
    BY DEF ShapeInv
  <1>a. pc \in {"pusher", "parse"} /\ next <= Len(Lines) => Lines[next] \in Token
    BY LinesFacts DEF Working
  <1>b. pc = "parse" /\ bad # <<>> => Rest(Lines, Last(bad)) \in Seq(Token)
    BY TrimFacts
  <1>c. Cap \in Nat
    BY BoundsAssumption DEF Cap
  <1> USE DEF TypeOK, Stopped, database, disk, pusher, crashes
  <1>1. CASE Start
    BY <1>1, RowFacts DEF Start, Files
  <1>2. CASE PrepareFile
    <2>1. part' \in Parts /\ part' \in 0 .. Len(Rows) /\ marked = {}
      BY <1>2, RowFacts DEF PrepareFile, PlaceInv, MarkInv
    <2>2. Unmarked(Rows[part']) \in Seq(Token)
      BY <2>1, RowFacts DEF Unmarked
    <2>3. file' \in [Parts -> Seq(Token)]
      BY <1>2, <2>2 DEF PrepareFile
    <2> QED
      BY <1>2, <2>1, <2>3 DEF PrepareFile
  <1>3. CASE CreateIndex \/ WriteIndex
    BY <1>3 DEF CreateIndex, WriteIndex, Files
  <1>4. CASE PickFile
    BY <1>4, RowFacts DEF PickFile
  <1>5. CASE Finish \/ PusherEnds \/ NothingInvalid
    BY <1>5 DEF Finish, PusherEnds, NothingInvalid
  <1>15. CASE RunPusher
    BY <1>15 DEF RunPusher
  <1>6. CASE Deliver
    <2>1. Lines[next] \in Token
      BY <1>6, <1>a DEF Deliver
    <2>2. delivered' \in [Token -> 0 .. Cap]
      BY <1>6, <1>c, <2>1 DEF Deliver
    <2> QED
      BY <1>6, <2>2 DEF Deliver
  <1>7. CASE Refuse
    <2>1. Lines[next] \in Token
      BY <1>7, <1>a DEF Refuse
    <2> QED
      BY <1>7, <2>1 DEF Refuse
  <1>8. CASE PusherTrouble
    <2>0. Trouble
      BY <1>8 DEF PusherTrouble, Lose, Rewind, PusherFails, PusherKilled
    <2>1. /\ pc = "pusher" /\ next <= Len(Lines) /\ failures' \in 0 .. MaxFailures
          /\ next \in Nat \ {0} /\ Len(Lines) \in Nat /\ Lines[next] \in Token
      <3>1. pc = "pusher" /\ next <= Len(Lines) /\ next \in Nat \ {0}
        BY <2>0 DEF Trouble
      <3>2. failures' \in 0 .. MaxFailures
        BY <2>0, BoundsAssumption DEF Trouble
      <3>3. Len(Lines) \in Nat
        BY <3>1, LinesFacts DEF Working
      <3> QED
        BY <1>a, <3>1, <3>2, <3>3
    <2>2. CASE Lose
      <3>1. \A k \in 1 .. Len(Lines) : Lines[k] \in Token
        BY <2>1, LinesFacts DEF Working
      <3>2. lost' \in SUBSET Token /\ next' \in Nat \ {0}
        BY <2>1, <2>2, <3>1 DEF Lose
      <3> QED
        BY <2>1, <2>2, <3>2 DEF Lose, Trouble, MaybeRefused
    <2>3. CASE Rewind
      BY <2>1, <2>3 DEF Rewind, Trouble, MaybeRefused
    <2>4. CASE PusherFails
      BY <2>1, <2>4 DEF PusherFails, Trouble
    <2>5. CASE PusherKilled
      <3>1. Range(bad) \subseteq Token /\ <<>> \in Seq(Token)
        BY DEF Range
      <3> QED
        BY <2>1, <2>5, <3>1 DEF PusherKilled, Trouble
    <2> QED
      BY <1>8, <2>2, <2>3, <2>4, <2>5 DEF PusherTrouble
  <1>9. CASE FindLastInvalid
    <2>1. content' \in Seq(Token)
      BY <1>9, <1>b DEF FindLastInvalid
    <2> QED
      BY <1>9, <2>1 DEF FindLastInvalid
  <1>10. CASE Truncate \/ WriteBack
    <2>1. <<>> \in Seq(Token)
      OBVIOUS
    <2>2. file' \in [Parts -> Seq(Token)]
      BY <1>10, <2>1 DEF Truncate, WriteBack
    <2> QED
      BY <1>10, <2>2 DEF Truncate, WriteBack
  <1>11. CASE Mark
    <2>1. bad # <<>> /\ Head(bad) \in Token /\ Tail(bad) \in Seq(Token)
      BY <1>11 DEF Mark, PlaceInv
    <2> QED
      BY <1>11, <2>1 DEF Mark
  <1>12. CASE Killed
    BY <1>12 DEF Killed
  <1>13. CASE Restart
    BY <1>13, BoundsAssumption, RowFacts DEF Restart
  <1>14. CASE UNCHANGED vars
    BY <1>14 DEF vars
  <1> QED
    BY <1>1, <1>2, <1>3, <1>4, <1>5, <1>6, <1>7, <1>8, <1>9, <1>10, <1>11, <1>12, <1>13, <1>14,
       <1>15 DEF Next, Driver, Terminated

-----------------------------------------------------------------------------
(* Control, marks and files *)

LEMMA PlaceStep == ShapeInv /\ [Next]_vars => PlaceInv'
  <1> SUFFICES ASSUME TypeOK, PlaceInv, [Next]_vars PROVE PlaceInv'
    BY DEF ShapeInv
  <1> USE DEF PlaceInv, Working, database, disk, pusher, crashes
  <1>1. CASE Start
    BY <1>1 DEF Start
  <1>2. CASE PrepareFile \/ CreateIndex \/ WriteIndex
    BY <1>2 DEF PrepareFile, CreateIndex, WriteIndex
  <1>3. CASE PickFile
    BY <1>3 DEF PickFile, TypeOK
  <1>4. CASE Finish \/ RunPusher \/ Deliver \/ PusherEnds \/ NothingInvalid
    BY <1>4 DEF Finish, RunPusher, Deliver, PusherEnds, NothingInvalid
  <1>10. CASE PusherTrouble
    BY <1>10 DEF PusherTrouble, Lose, Rewind, PusherFails, PusherKilled, Trouble
  <1>5. CASE Refuse
    BY <1>5 DEF Refuse
  <1>6. CASE FindLastInvalid \/ Truncate \/ WriteBack
    BY <1>6 DEF FindLastInvalid, Truncate, WriteBack
  <1>7. CASE Mark
    BY <1>7 DEF Mark
  <1>8. CASE Killed \/ Restart
    BY <1>8 DEF Killed, Restart
  <1>9. CASE UNCHANGED vars
    BY <1>9 DEF vars
  <1> QED
    BY <1>1, <1>2, <1>3, <1>4, <1>5, <1>6, <1>7, <1>8, <1>9, <1>10 DEF Next, Driver, Terminated

LEMMA RangeAppend ==
    ASSUME NEW s \in Seq(Token), NEW x
    PROVE  Range(Append(s, x)) = Range(s) \union {x}
  <1>1. /\ DOMAIN s = 1 .. Len(s) /\ Len(s) \in Nat
        /\ DOMAIN Append(s, x) = 1 .. Len(s) + 1
        /\ Append(s, x)[Len(s) + 1] = x
        /\ \A k \in 1 .. Len(s) : Append(s, x)[k] = s[k]
    OBVIOUS
  <1>2. 1 .. Len(s) + 1 = (1 .. Len(s)) \union {Len(s) + 1}
    BY <1>1
  <1> QED
    BY <1>1, <1>2, Zenon DEF Range

LEMMA RangeHeadTail ==
    ASSUME NEW s \in Seq(Token), s # <<>>
    PROVE  Range(s) = {Head(s)} \union Range(Tail(s))
  <1>1. /\ DOMAIN s = 1 .. Len(s) /\ Len(s) \in Nat /\ Len(s) > 0
        /\ DOMAIN Tail(s) = 1 .. Len(s) - 1
        /\ Head(s) = s[1]
        /\ \A k \in 1 .. Len(s) - 1 : Tail(s)[k] = s[k + 1]
    OBVIOUS
  <1>2. ASSUME NEW y
        PROVE  y \in Range(s) <=> y \in {Head(s)} \union Range(Tail(s))
    <2>1. ASSUME NEW k \in 1 .. Len(s), y = s[k]
          PROVE  y = Head(s) \/ \E j \in 1 .. Len(s) - 1 : y = Tail(s)[j]
      <3>1. CASE k = 1
        BY <1>1, <2>1, <3>1
      <3>2. CASE k # 1
        <4>1. k - 1 \in 1 .. Len(s) - 1 /\ (k - 1) + 1 = k
          BY <1>1, <3>2
        <4>2. y = Tail(s)[k - 1]
          BY <1>1, <2>1, <4>1
        <4> QED
          BY <4>1, <4>2
      <3> QED
        BY <3>1, <3>2
    <2>2. 1 \in 1 .. Len(s) /\ \A j \in 1 .. Len(s) - 1 : j + 1 \in 1 .. Len(s)
      BY <1>1
    <2> QED
      <3>1. y \in Range(s) <=> \E k \in 1 .. Len(s) : y = s[k]
        BY <1>1, Zenon DEF Range
      <3>2. y \in Range(Tail(s)) <=> \E j \in 1 .. Len(s) - 1 : y = Tail(s)[j]
        BY <1>1, Zenon DEF Range
      <3>3. y = Head(s) => y \in Range(s)
        BY <1>1, <2>2, <3>1
      <3>4. y \in Range(Tail(s)) => y \in Range(s)
        BY <1>1, <2>2, <3>1, <3>2
      <3> QED
        BY <2>1, <3>1, <3>2, <3>3, <3>4, Zenon
  <1> QED
    BY <1>2, Zenon

LEMMA MarkStep == ShapeInv /\ [Next]_vars => MarkInv'
  <1> SUFFICES ASSUME TypeOK, PlaceInv, MarkInv, [Next]_vars PROVE MarkInv'
    BY DEF ShapeInv
  <1>0. Range(<<>>) = {}
    BY DEF Range
  <1>1. CASE /\ UNCHANGED <<marked, refused, unheard, bad, restarts>>
             /\ index' = "absent" => index = "absent"
    BY <1>1 DEF MarkInv
  <1>2. CASE RunPusher
    <2>1. UNCHANGED <<marked, refused, unheard, bad, restarts, index>>
      BY <1>2 DEF RunPusher, PlaceInv, database, disk, crashes
    <2> QED
      BY <1>1, <2>1
  <1>3. CASE Refuse
    <2>1. /\ refused' = refused \union {Lines[next]} /\ UNCHANGED <<marked, restarts, index>>
          /\ Range(bad') = Range(bad) \union {Lines[next]} /\ unheard' = unheard \ {Lines[next]}
      BY <1>3, RangeAppend DEF Refuse, TypeOK, database, disk, crashes
    <2> QED
      BY <2>1 DEF MarkInv
  <1>4. CASE Mark
    <2>1. /\ marked' = marked \union {Head(bad)} /\ UNCHANGED <<refused, unheard, restarts, index>>
          /\ Range(bad) = {Head(bad)} \union Range(bad') /\ index = "written"
      BY <1>4, RangeHeadTail DEF Mark, TypeOK, PlaceInv, Working, disk, pusher, crashes
    <2> QED
      BY <2>1 DEF MarkInv
  <1>5. CASE Restart
    <2>1. /\ restarts' # 0 /\ Range(bad') = {} /\ UNCHANGED <<marked, refused, unheard, index>>
      BY <1>0, <1>5 DEF Restart, TypeOK, database, disk
    <2> QED
      BY <2>1 DEF MarkInv
  <1>6. CASE \/ Start \/ PrepareFile \/ CreateIndex \/ WriteIndex \/ PickFile \/ Finish
             \/ Deliver \/ PusherEnds \/ PusherFails \/ NothingInvalid
    BY <1>1, <1>6 DEF Start, PrepareFile, CreateIndex, WriteIndex, PickFile, Finish, Deliver,
       PusherEnds, PusherFails, Trouble, NothingInvalid, database, disk, pusher, crashes
  <1>7. CASE FindLastInvalid \/ Truncate \/ WriteBack \/ Killed \/ UNCHANGED vars
    BY <1>1, <1>7 DEF FindLastInvalid, Truncate, WriteBack, Killed, vars, database, disk,
       pusher, crashes
  <1>8. CASE Lose \/ Rewind
    <2>1. /\ UNCHANGED <<marked, bad, restarts, index>>
          /\ \/ UNCHANGED <<refused, unheard>>
             \/ \E x : refused' = refused \union {x} /\ unheard' = unheard \union {x}
      BY <1>8 DEF Lose, Rewind, MaybeRefused, database, disk, crashes
    <2> QED
      BY <2>1 DEF MarkInv
  <1>9. CASE PusherKilled
    <2>1. /\ UNCHANGED <<marked, refused, restarts, index>> /\ Range(bad') = {}
          /\ unheard' = unheard \union Range(bad)
      BY <1>0, <1>9 DEF PusherKilled, database, disk, crashes
    <2> QED
      BY <2>1 DEF MarkInv
  <1> QED
    BY <1>2, <1>3, <1>4, <1>5, <1>6, <1>7, <1>8, <1>9 DEF Next, Driver, Terminated, PusherTrouble

LEMMA EndOfRest ==
    ASSUME NEW p \in Parts, NEW lines \in Seq(Token), EndOf(p, lines),
           NEW rest \in Seq(Token), NEW K \in 1 .. Len(lines), Len(rest) = Len(lines) - K,
           \A k \in 1 .. Len(lines) - K : rest[k] = lines[K + k]
    PROVE  EndOf(p, rest)
  <1>1. PICK M \in Nat, L \in Nat : M = Len(Rows[p]) /\ L = Len(lines) /\ L <= M
    BY RowFacts DEF EndOf
  <1>2. K \in 1 .. L /\ Len(rest) = L - K
    BY <1>1
  <1>3. L - K <= M /\ L - K \in Nat
    <2> M \in Nat /\ L \in Nat /\ L <= M /\ K \in 1 .. L
      BY <1>1, <1>2
    <2> QED
      OBVIOUS
  <1>4. ASSUME NEW k \in 1 .. L - K
        PROVE  rest[k] = Rows[p][M - (L - K) + k]
    <2>1. K + k \in 1 .. L /\ M - (L - K) + k = M - L + (K + k)
      <3> L \in Nat /\ K \in 1 .. L
        BY <1>2
      <3> QED
        OBVIOUS
    <2>2. rest[k] = lines[K + k]
      BY <1>1
    <2>3. lines[K + k] = Rows[p][M - L + (K + k)]
      BY <1>1, <2>1 DEF EndOf
    <2> QED
      BY <2>1, <2>2, <2>3
  <1>5. \A k \in 1 .. Len(rest) : rest[k] = Rows[p][Len(Rows[p]) - Len(rest) + k]
    BY <1>1, <1>2, <1>4, Zenon
  <1> QED
    BY <1>1, <1>2, <1>3, <1>5 DEF EndOf

LEMMA FileStep == ShapeInv /\ [Next]_vars => FileInv'
  <1> SUFFICES ASSUME ShapeInv, [Next]_vars PROVE FileInv'
    OBVIOUS
  <1>0. TypeOK /\ PlaceInv /\ MarkInv /\ FileInv /\ ScanInv
    BY DEF ShapeInv
  <1>1. CASE /\ UNCHANGED <<file, index, content>>
             /\ pc' \in {"truncate", "write_back"} => pc' = pc /\ part' = part
             /\ pc' # "prepare"
    BY <1>0, <1>1 DEF FileInv, EndOf
  <1>2. CASE Start
    <2>1. UNCHANGED <<file, index>> /\ pc' \notin {"truncate", "write_back"} /\ part' = 0
      BY <1>2 DEF Start, disk
    <2>2. \A p \in Parts : ~(p <= 0)
      BY RowFacts
    <2> QED
      BY <1>0, <2>1, <2>2 DEF FileInv, EndOf
  <1>3. CASE PrepareFile
    <2>1. /\ part' = part + 1 /\ part' \in Parts /\ marked = {} /\ pc = "prepare"
          /\ pc' = "prepare" /\ index' = "absent"
          /\ \A p \in Parts : p <= part' => p <= part \/ p = part'
      BY <1>0, <1>3, RowFacts DEF PrepareFile, PlaceInv, MarkInv, TypeOK
    <2>2. file' = [file EXCEPT ![part'] = Rows[part']]
      BY <1>3, <2>1 DEF PrepareFile, Unmarked
    <2>3. EndOf(part', Rows[part'])
      BY <2>1, RowFacts DEF EndOf
    <2>4. \A p \in Parts : file'[p] = IF p = part' THEN Rows[p] ELSE file[p]
      BY <1>0, <2>2 DEF TypeOK
    <2>5. \A p \in Parts : EndOf(p, file'[p])
      BY <1>0, <2>3, <2>4 DEF FileInv
    <2>6. \A p \in Parts : p <= part' => file'[p] = Rows[p]
      BY <1>0, <2>1, <2>4 DEF FileInv
    <2> QED
      BY <2>1, <2>5, <2>6 DEF FileInv, EndOf
  <1>4. CASE CreateIndex
    <2>1. \A p \in Parts : file[p] = Rows[p]
      BY <1>0, <1>4, RowFacts DEF CreateIndex, FileInv
    <2> QED
      BY <1>0, <1>4, <2>1 DEF CreateIndex, FileInv, EndOf
  <1>5. CASE WriteIndex
    BY <1>0, <1>5 DEF WriteIndex, FileInv, EndOf
  <1>6. CASE FindLastInvalid
    <2>1. /\ UNCHANGED <<file, index, part>> /\ pc = "parse" /\ bad # <<>>
          /\ pc' \in {"value_error", "truncate"}
          /\ pc' = "truncate" => content' = Rest(Lines, Last(bad))
      BY <1>6 DEF FindLastInvalid, disk
    <2>2. part \in Parts /\ Lines \in Seq(Token) /\ EndOf(part, Lines)
      BY <1>0, <2>1, LinesFacts DEF Working, FileInv, Lines
    <2>3. EndOf(part, Rest(Lines, Last(bad)))
      BY <1>0, <2>1, <2>2, TrimFacts, EndOfRest
    <2> QED
      BY <1>0, <2>1, <2>3 DEF FileInv, EndOf
  <1>7. CASE Truncate \/ WriteBack
    <2>1. /\ part' = part /\ part \in Parts /\ UNCHANGED <<content, index>>
          /\ index' = "written" /\ pc' \in {"write_back", "mark"} /\ EndOf(part, content)
          /\ \E lines \in {<<>>, content} : file' = [file EXCEPT ![part] = lines]
      BY <1>0, <1>7 DEF Truncate, WriteBack, PlaceInv, FileInv, Working
    <2>2. PICK lines \in {<<>>, content} : file' = [file EXCEPT ![part] = lines]
      BY <2>1
    <2>3. EndOf(part, <<>>)
      BY <2>1, RowFacts DEF EndOf
    <2>4. \A p \in Parts : file'[p] = IF p = part THEN lines ELSE file[p]
      BY <1>0, <2>2 DEF TypeOK
    <2>5. \A p \in Parts : EndOf(p, file'[p])
      BY <1>0, <2>1, <2>2, <2>3, <2>4 DEF FileInv
    <2> QED
      BY <2>1, <2>5 DEF FileInv, EndOf
  <1>8. CASE \/ PickFile \/ Finish \/ RunPusher \/ Deliver \/ Refuse
             \/ PusherEnds \/ PusherTrouble \/ NothingInvalid \/ Mark
    BY <1>1, <1>8 DEF PickFile, Finish, RunPusher, Deliver, Refuse, PusherEnds, PusherTrouble,
       Lose, Rewind, PusherFails, PusherKilled, Trouble, NothingInvalid, Mark, disk
  <1>9. CASE Killed
    BY <1>1, <1>9 DEF Killed, disk
  <1>10. CASE Restart
    BY <1>0, <1>10 DEF Restart, disk, FileInv, EndOf
  <1>11. CASE UNCHANGED vars
    BY <1>0, <1>11 DEF vars, disk, FileInv, EndOf
  <1> QED
    BY <1>2, <1>3, <1>4, <1>5, <1>6, <1>7, <1>8, <1>9, <1>10, <1>11 DEF Next, Driver, Terminated

LEMMA ScanStep == ShapeInv /\ [Next]_vars => ScanInv'
  <1> SUFFICES ASSUME TypeOK, PlaceInv, FileInv, ScanInv, [Next]_vars,
                      pc' \in {"pusher", "parse"}
               PROVE  /\ next' <= Len(Lines') + 1
                      /\ bad' # <<>> => \E K \in 1 .. Len(Lines') : NamedAt(K)'
    BY DEF ScanInv, ShapeInv
  <1>a. pc \in {"pusher", "parse"} => Len(Lines) \in Nat /\ next \in Nat \ {0}
    BY LinesFacts DEF Working, TypeOK
  <1>1. CASE RunPusher
    <2>1. next' = 1 /\ Lines' = Lines /\ Len(Lines) \in Nat /\ bad' = <<>>
      BY <1>1, LinesFacts DEF RunPusher, Lines, Working, disk
    <2> QED
      BY <2>1
  \* The last token named stays where it is.
  <1>2. ASSUME pc \in {"pusher", "parse"}, UNCHANGED <<kind, file, part>>,
               bad' = bad \/ bad' = <<>>, next' <= Len(Lines) + 1
        PROVE  /\ next' <= Len(Lines') + 1
               /\ bad' # <<>> => \E K \in 1 .. Len(Lines') : NamedAt(K)'
    <2>1. Lines' = Lines
      BY <1>2 DEF Lines
    <2>2. ASSUME bad' # <<>> PROVE \E K \in 1 .. Len(Lines') : NamedAt(K)'
      <3>1. PICK K \in 1 .. Len(Lines) : NamedAt(K)
        BY <1>2, <2>2 DEF ScanInv
      <3>2. NamedAt(K)'
        BY <1>2, <2>1, <2>2, <3>1 DEF NamedAt
      <3> QED
        BY <2>1, <3>2
    <2> QED
      BY <1>2, <2>1, <2>2
  <1>3. CASE Deliver \/ Lose \/ Rewind \/ PusherFails \/ PusherKilled \/ PusherEnds
    <2>1. /\ pc = "pusher" /\ UNCHANGED <<kind, file, part>> /\ (bad' = bad \/ bad' = <<>>)
      BY <1>3 DEF Deliver, Lose, Rewind, PusherFails, PusherKilled, Trouble, PusherEnds,
         database, disk
    <2>2. next' <= Len(Lines) + 1
      BY <1>3, <1>a, <2>1 DEF Deliver, Lose, Rewind, PusherFails, PusherKilled, Trouble,
         PusherEnds, pusher, ScanInv
    <2> QED
      BY <1>2, <2>1, <2>2
  <1>4. CASE Refuse
    <2>1. /\ UNCHANGED <<kind, file, part>> /\ Lines' = Lines /\ next' = next + 1
          /\ bad' = Append(bad, Lines[next]) /\ bad \in Seq(Token)
          /\ kind[Lines[next]] = "unknown" /\ next <= Len(Lines)
          /\ next \in Nat \ {0} /\ Len(Lines) \in Nat
      BY <1>4, <1>a DEF Refuse, Lines, database, disk, TypeOK
    <2>2. bad' # <<>> /\ Last(bad') = Lines[next]
      BY <2>1 DEF Last
    <2>3. PICK K \in 1 .. Len(Lines) : K = next
      BY <2>1
    <2>4. NamedAt(K)'
      BY <2>1, <2>2, <2>3 DEF NamedAt
    <2>5. next' <= Len(Lines') + 1
      BY <2>1
    <2> QED
      BY <2>1, <2>4, <2>5
  <1>5. CASE UNCHANGED vars
    <2>1. pc \in {"pusher", "parse"} /\ UNCHANGED <<kind, file, part, bad, next>>
      BY <1>5 DEF vars, database, disk, pusher
    <2> QED
      BY <1>2, <2>1 DEF ScanInv
  <1>7. CASE \/ Start \/ PrepareFile \/ CreateIndex \/ WriteIndex \/ PickFile \/ Finish
             \/ NothingInvalid \/ FindLastInvalid \/ Truncate \/ WriteBack \/ Mark
             \/ Killed \/ Restart
    BY <1>7 DEF Start, PrepareFile, CreateIndex, WriteIndex, PickFile, Finish, NothingInvalid,
       FindLastInvalid, Truncate, WriteBack, Mark, Killed, Restart
  <1> QED
    BY <1>1, <1>3, <1>4, <1>5, <1>7 DEF Next, Driver, Terminated, PusherTrouble

LEMMA ShapeInit == Init => ShapeInv
  <1> SUFFICES ASSUME Init PROVE ShapeInv
    OBVIOUS
  <1>1. TypeOK
    BY TypeInit
  <1>2. pc = "start" /\ index = "absent" /\ bad = <<>> /\ marked = {} /\ refused = {}
        /\ unheard = {} /\ \A p \in Parts : file[p] = <<>>
    BY DEF Init
  <1>3. PlaceInv /\ ScanInv
    BY <1>2 DEF PlaceInv, Working, ScanInv
  <1>4. MarkInv
    BY <1>2 DEF MarkInv, Range
  <1>5. FileInv
    <2>1. \A p \in Parts : EndOf(p, <<>>)
      BY RowFacts DEF EndOf
    <2> QED
      BY <1>2, <2>1 DEF FileInv
  <1> QED
    BY <1>1, <1>3, <1>4, <1>5 DEF ShapeInv

\* The types, the control, the marks and the files are as described.
THEOREM ShapeInvariant == Spec => []ShapeInv
  <1>1. ShapeInv /\ [Next]_vars => ShapeInv'
    BY TypeStep, PlaceStep, MarkStep, FileStep, ScanStep DEF ShapeInv
  <1> QED
    BY <1>1, ShapeInit, PTL DEF Spec

\* Every variable keeps to its type, whatever the tables and the bounds are.
THEOREM TypeCorrect == Spec => []TypeOK
  BY ShapeInvariant, PTL DEF ShapeInv

\* Only tokens the gateway has refused are marked, and a campaign that was never
\* interrupted leaves marked all of them whose verdict apn-pusher has read and
\* lived to print, whatever connections have broken.
THEOREM MarkedAreRefusedHolds == Spec => []MarkedAreRefused
  <1>1. ShapeInv => MarkedAreRefused
    <2>1. Range(<<>>) = {}
      BY DEF Range
    <2> QED
      BY <2>1 DEF ShapeInv, MarkInv, PlaceInv, MarkedAreRefused
  <1> QED
    BY <1>1, ShapeInvariant, PTL

-----------------------------------------------------------------------------
(* No device is notified more often than is said *)

LEMMA BoundsOrdered ==
    ASSUME TypeOK, NEW x \in Token
    PROVE  (Spare(x) => Fresh(x)) /\ (Fresh(x) => Once(x)) /\ (Once(x) => Total(x))
  <1>1. delivered[x] \in Nat /\ restarts \in Nat /\ failures \in Nat
    BY BoundsAssumption DEF TypeOK, Cap
  <1> QED
    BY <1>1 DEF Spare, Fresh, Once, Total, Earlier

LEMMA BoundsGrow ==
    ASSUME TypeOK, refused \subseteq refused', UNCHANGED <<delivered, restarts, failures>>,
           NEW x \in Token
    PROVE  /\ Spare(x) => Spare(x)'
           /\ Fresh(x) => Fresh(x)'
           /\ Once(x) => Once(x)'
           /\ Total(x) => Total(x)'
           /\ RefusedBefore(x) => RefusedBefore(x)'
  <1>1. delivered[x] \in Nat /\ restarts \in Nat /\ failures \in Nat
    BY BoundsAssumption DEF TypeOK, Cap
  <1>2. RefusedBefore(x) => RefusedBefore(x)'
    BY DEF RefusedBefore, Before
  <1> QED
    BY <1>1, <1>2 DEF Spare, Fresh, Once, Total, Earlier

\* A failure that is counted makes room for one notification of every device.
LEMMA BoundsGain ==
    ASSUME TypeOK, refused \subseteq refused', UNCHANGED <<delivered, restarts>>,
           failures' = failures + 1, NEW x \in Token
    PROVE  /\ Fresh(x) => Spare(x)'
           /\ Once(x) => Fresh(x)'
           /\ Total(x) => Once(x)'
           /\ Total(x) /\ ~RefusedBefore(x)' => Fresh(x)'
           /\ RefusedBefore(x) => RefusedBefore(x)'
  <1>1. delivered[x] \in Nat /\ restarts \in Nat /\ failures \in Nat
    BY BoundsAssumption DEF TypeOK, Cap
  <1>2. RefusedBefore(x) => RefusedBefore(x)'
    BY DEF RefusedBefore, Before
  <1>3. CASE RefusedBefore(x)
    BY <1>1, <1>2, <1>3 DEF Spare, Fresh, Once, Total, Earlier
  <1>4. CASE ~RefusedBefore(x) /\ RefusedBefore(x)'
    BY <1>1, <1>4 DEF Spare, Fresh, Once, Total, Earlier
  <1>5. CASE ~RefusedBefore(x) /\ ~RefusedBefore(x)'
    BY <1>1, <1>5 DEF Spare, Fresh, Once, Total, Earlier
  <1> QED
    BY <1>2, <1>3, <1>4, <1>5

LEMMA ResentInit == Init => ResentInv
  <1> SUFFICES ASSUME Init PROVE ResentInv
    OBVIOUS
  <1>1. TypeOK
    BY TypeInit
  <1>2. \A x \in Token : Fresh(x)
    BY <1>1, BoundsAssumption DEF Init, Fresh, Earlier, RefusedBefore
  <1>3. \A x \in Token : Total(x)
    BY <1>1, <1>2, BoundsOrdered
  <1>4. pc = "start"
    BY DEF Init
  <1> QED
    BY <1>2, <1>3, <1>4 DEF ResentInv, Working

LEMMA ResentDeliver == ShapeInv /\ ResentInv /\ Deliver => ResentInv'
  <1> SUFFICES ASSUME ShapeInv, ResentInv, Deliver PROVE ResentInv'
    OBVIOUS
  <1>0. TypeOK /\ PlaceInv /\ FileInv
    BY DEF ShapeInv
  <1>1. /\ part \in Parts \ todo /\ Lines \in Seq(Token) /\ Len(Lines) \in Nat
        /\ \A k \in 1 .. Len(Lines) : Lines[k] \in TokensOf(part) /\ Lines[k] \in Token
        /\ \A j, k \in 1 .. Len(Lines) : Lines[j] = Lines[k] => j = k
        /\ next \in 1 .. Len(Lines) /\ pc = "pusher" /\ pc' = "pusher"
    BY <1>0, LinesFacts DEF Deliver, PlaceInv, Working
  <1>2. PICK x \in Token : x = Lines[next]
    BY <1>1
  <1>3. /\ kind[x] = "good" /\ next' = next + 1
        /\ delivered' = [delivered EXCEPT ![x] = IF @ < Cap THEN @ + 1 ELSE @]
        /\ UNCHANGED <<kind, file, part, todo, bad, refused, restarts, failures>> /\ Lines' = Lines
    BY <1>2 DEF Deliver, database, disk, crashes, Lines
  <1>4. delivered[x] \in Nat /\ restarts \in Nat /\ failures \in Nat /\ delivered'[x] <= delivered[x] + 1
        /\ delivered'[x] \in Nat
    BY <1>0, <1>3, BoundsAssumption DEF TypeOK, Cap
  <1>5. ASSUME NEW y \in Token, y # x
        PROVE  /\ Spare(y)' <=> Spare(y)
               /\ Fresh(y)' <=> Fresh(y)
               /\ Once(y)' <=> Once(y)
               /\ Total(y)' <=> Total(y)
    <2>1. delivered'[y] = delivered[y]
      BY <1>0, <1>3, <1>5 DEF TypeOK
    <2> QED
      BY <1>3, <2>1 DEF Spare, Fresh, Once, Total, Earlier, RefusedBefore, Before
  <1>6. \A y : RefusedBefore(y)' <=> RefusedBefore(y)
    BY <1>3 DEF RefusedBefore, Before
  <1>7. PICK n \in 1 .. Len(Lines) : n = next
    BY <1>1
  <1>8. Total(x)' /\ Passed(Lines, n)' /\ (Spare(x) => Fresh(x)')
    <2>0. Spare(x) => Fresh(x)'
      BY <1>3, <1>4, <1>6 DEF Spare, Fresh, Earlier
    <2>1. CASE Fresh(x)
      <3>1. Once(x)'
        BY <1>3, <1>4, <1>6, <2>1 DEF Fresh, Once, Earlier
      <3>2. Total(x)'
        BY <1>3, <1>4, <3>1 DEF Once, Total, Earlier
      <3> QED
        BY <1>2, <1>3, <1>7, <2>0, <3>1, <3>2 DEF Passed
    <2>2. CASE Once(x) /\ RefusedBefore(x) /\ GoodBetween(Lines, 1, n)
      <3>1. Total(x)'
        BY <1>3, <1>4, <1>6, <2>2 DEF Once, Total, Earlier
      <3>2. GoodBetween(Lines, 1, n)'
        BY <1>3, <2>2 DEF GoodBetween
      <3> QED
        BY <2>0, <3>1, <3>2 DEF Passed
    <2>3. Ready(Lines, n)
      BY <1>1, <1>7 DEF ResentInv, ScanReady
    <2> QED
      BY <1>2, <1>7, <2>0, <2>1, <2>2, <2>3 DEF Ready
  <1>9. ASSUME NEW k \in 1 .. Len(Lines), k # n
        PROVE  (Ready(Lines, k) => Ready(Lines, k)') /\ (Passed(Lines, k) => Passed(Lines, k)')
    <2>1. Lines[k] \in Token /\ Lines[k] # x
      BY <1>1, <1>2, <1>7, <1>9
    <2>2. GoodBetween(Lines, 1, k)' <=> GoodBetween(Lines, 1, k)
      BY <1>3 DEF GoodBetween
    <2>3. PICK y \in Token : y = Lines[k] /\ y # x
      BY <2>1
    <2> QED
      BY <1>3, <1>5, <1>6, <2>2, <2>3 DEF Ready, Passed
  <1>10. \A y \in Token : Total(y)'
    BY <1>5, <1>8 DEF ResentInv
  <1>11. ASSUME NEW p \in todo, NEW y \in TokensOf(p) PROVE Fresh(y)'
    <2>1. p \in Parts /\ p # part /\ y \in Token
      BY <1>0, <1>1, RowFacts DEF TypeOK
    <2>2. y # x
      BY <1>1, <1>2, <2>1, RowsAssumption
    <2> QED
      BY <1>1, <1>5, <2>1, <2>2 DEF ResentInv, Working
  <1>12. ASSUME NEW k \in next' .. Len(Lines) PROVE Ready(Lines, k)'
    <2>1. k \in next .. Len(Lines) /\ k \in 1 .. Len(Lines) /\ k # n
      BY <1>1, <1>3, <1>7
    <2> QED
      BY <1>1, <1>9, <2>1 DEF ResentInv, ScanReady
  <1>13. ASSUME NEW k \in 1 .. next' - 1 PROVE Passed(Lines, k)'
    <2>1. CASE k = n
      BY <1>8, <2>1
    <2>2. CASE k # n
      <3>1. k \in 1 .. next - 1 /\ k \in 1 .. Len(Lines)
        BY <1>1, <1>3, <1>7, <2>2
      <3> QED
        BY <1>1, <1>9, <2>2, <3>1 DEF ResentInv, ScanReady
    <2> QED
      BY <2>1, <2>2
  <1>14. ASSUME bad' # <<>>, NEW K \in 1 .. Len(Lines), NamedAt(K)' PROVE Trail(K)'
    <2>1. bad # <<>> /\ NamedAt(K)
      BY <1>3, <1>14 DEF NamedAt
    <2>2. Trail(K)
      BY <1>1, <2>1 DEF ResentInv, ScanReady
    <2>3. \A l, m : GoodBetween(Lines, l, m)' <=> GoodBetween(Lines, l, m)
      BY <1>3 DEF GoodBetween
    <2>4. GoodBetween(Lines, K + 1, n - 1) => GoodBetween(Lines, K + 1, n)
      BY <1>2, <1>3, <1>7 DEF GoodBetween
    <2>5. ASSUME NEW k \in K + 1 .. n PROVE Fresh(Lines[k])' \/ GoodBetween(Lines, K + 1, k)
      <3>1. CASE k = n
        BY <1>1, <1>2, <1>3, <1>7, <1>8, <2>2, <2>4, <3>1 DEF Trail
      <3>2. CASE k # n
        <4>1. k \in K + 1 .. next - 1 /\ k \in 1 .. Len(Lines)
          BY <1>1, <1>7, <3>2
        <4>2. PICK y \in Token : y = Lines[k] /\ y # x
          BY <1>1, <1>2, <1>7, <3>2, <4>1
        <4> QED
          BY <1>3, <1>5, <2>2, <4>1, <4>2 DEF Trail
      <3> QED
        BY <3>1, <3>2
    <2>6. ASSUME NEW k \in n + 1 .. Len(Lines), Spare(Lines[k]) PROVE Spare(Lines[k])'
      <3>1. k \in 1 .. Len(Lines) /\ k # n
        BY <1>1
      <3>2. PICK y \in Token : y = Lines[k] /\ y # x
        BY <1>1, <1>2, <1>7, <3>1
      <3> QED
        BY <1>3, <1>5, <2>6, <3>2
    <2>7. GoodBetween(Lines, K + 1, n) \/ \A k \in n + 1 .. Len(Lines) : Spare(Lines[k])'
      <3>1. CASE GoodBetween(Lines, K + 1, next - 1)
        BY <1>7, <2>4, <3>1
      <3>2. CASE \A k \in next .. Len(Lines) : Spare(Lines[k])
        <4>1. \A k \in n + 1 .. Len(Lines) : k \in next .. Len(Lines)
          BY <1>1, <1>7
        <4> QED
          BY <2>6, <3>2, <4>1
      <3> QED
        BY <2>2, <3>1, <3>2 DEF Trail
    <2>8. next' - 1 = n /\ next' = n + 1
      BY <1>3, <1>7
    <2> QED
      BY <1>3, <2>3, <2>5, <2>7, <2>8 DEF Trail
  <1> QED
    BY <1>1, <1>3, <1>10, <1>11, <1>12, <1>13, <1>14 DEF ResentInv, ScanReady, Working

LEMMA ResentRefuse == ShapeInv /\ ResentInv /\ Refuse => ResentInv'
  <1> SUFFICES ASSUME ShapeInv, ResentInv, Refuse PROVE ResentInv'
    OBVIOUS
  <1>0. TypeOK /\ PlaceInv /\ FileInv
    BY DEF ShapeInv
  <1>1. /\ part \in Parts /\ Len(Lines) \in Nat
        /\ \A k \in 1 .. Len(Lines) : Lines[k] \in Token
        /\ \A j, k \in 1 .. Len(Lines) : Lines[j] = Lines[k] => j = k
        /\ next \in 1 .. Len(Lines) /\ pc = "pusher" /\ pc' = "pusher"
    BY <1>0, LinesFacts DEF Refuse, Working
  <1>2. /\ kind[Lines[next]] = "unknown" /\ next' = next + 1
        /\ refused \subseteq refused' /\ UNCHANGED <<delivered, restarts, failures>>
        /\ UNCHANGED <<kind, file, part, todo>> /\ Lines' = Lines
    BY DEF Refuse, database, disk, crashes, Lines
  <1>3. ASSUME NEW k \in 1 .. Len(Lines)
        PROVE  (Ready(Lines, k) => Ready(Lines, k)') /\ (Passed(Lines, k) => Passed(Lines, k)')
    <2>1. PICK y \in Token : y = Lines[k]
      BY <1>1
    <2>2. GoodBetween(Lines, 1, k)' <=> GoodBetween(Lines, 1, k)
      BY <1>2 DEF GoodBetween
    <2> QED
      BY <1>0, <1>2, <2>1, <2>2, BoundsGrow DEF Ready, Passed
  <1>4. PICK n \in 1 .. Len(Lines) : n = next
    BY <1>1
  <1>5. Passed(Lines, n)'
    <2>1. Ready(Lines, n)
      BY <1>1, <1>4 DEF ResentInv, ScanReady
    <2>2. ~GoodBetween(Lines, 1, n)
      BY <1>2, <1>4 DEF GoodBetween
    <2>3. Passed(Lines, n)
      BY <1>0, <1>1, <2>1, <2>2, BoundsOrdered DEF Ready, Passed
    <2> QED
      BY <1>3, <2>3
  <1>6. \A y \in Token : Total(y)'
    BY <1>0, <1>2, BoundsGrow DEF ResentInv
  <1>7. ASSUME NEW p \in todo, NEW y \in TokensOf(p) PROVE Fresh(y)'
    <2>1. y \in Token
      BY <1>0, RowFacts DEF TypeOK
    <2> QED
      BY <1>0, <1>1, <1>2, <2>1, BoundsGrow DEF ResentInv, Working
  <1>8. ASSUME NEW k \in next' .. Len(Lines) PROVE Ready(Lines, k)'
    <2>1. k \in next .. Len(Lines) /\ k \in 1 .. Len(Lines)
      BY <1>1, <1>2
    <2> QED
      BY <1>1, <1>3, <2>1 DEF ResentInv, ScanReady
  <1>9. ASSUME NEW k \in 1 .. next' - 1 PROVE Passed(Lines, k)'
    <2>1. CASE k = n
      BY <1>5, <2>1
    <2>2. CASE k # n
      <3>1. k \in 1 .. next - 1 /\ k \in 1 .. Len(Lines)
        BY <1>1, <1>2, <1>4, <2>2
      <3> QED
        BY <1>1, <1>3, <3>1 DEF ResentInv, ScanReady
    <2> QED
      BY <2>1, <2>2
  <1>10. ASSUME NEW K \in 1 .. Len(Lines), NamedAt(K)' PROVE Trail(K)'
    <2>1. bad' = Append(bad, Lines[n]) /\ bad \in Seq(Token)
      BY <1>0, <1>4 DEF Refuse, TypeOK
    <2>2. Last(bad') = Lines[n]
      BY <2>1 DEF Last
    <2>3. K = n
      BY <1>1, <1>2, <1>10, <2>2 DEF NamedAt
    <2>4. K + 1 .. next' - 1 = {}
      BY <1>1, <1>2, <1>4, <2>3
    <2> QED
      BY <2>4 DEF Trail, GoodBetween
  <1> QED
    BY <1>1, <1>2, <1>6, <1>7, <1>8, <1>9, <1>10 DEF ResentInv, ScanReady, Working

\* What a failure costs: every line may be sent once more in this session, and a
\* line that has not been sent twice may be sent again.
LEMMA TroubleReady ==
    ASSUME ShapeInv, ResentInv, pc = "pusher", refused \subseteq refused',
           UNCHANGED <<kind, file, part, todo, delivered, restarts>>, failures' = failures + 1
    PROVE  /\ \A x \in Token : Total(x)'
           /\ \A p \in todo : \A x \in TokensOf(p) : Fresh(x)'
           /\ \A k \in 1 .. Len(Lines) : Ready(Lines, k)' /\ Passed(Lines, k)'
           /\ \A k \in 1 .. Len(Lines) :
                  /\ Spare(Lines[k]) => Spare(Lines[k])'
                  /\ Fresh(Lines[k]) => Spare(Lines[k])' /\ Fresh(Lines[k])'
           /\ \A k \in next .. Len(Lines) : Fresh(Lines[k])'
  <1>0. TypeOK /\ PlaceInv /\ FileInv
    BY DEF ShapeInv
  <1>1. /\ Len(Lines) \in Nat /\ next \in Nat \ {0} /\ Lines' = Lines
        /\ \A k \in 1 .. Len(Lines) : Lines[k] \in Token
    BY <1>0, LinesFacts DEF Working, TypeOK, Lines
  <1>2. ASSUME NEW x \in Token
        PROVE  /\ Spare(x) => Fresh(x)
               /\ Fresh(x) => Once(x)
               /\ Fresh(x) => Spare(x)'
               /\ Once(x) => Fresh(x)'
               /\ Once(x)'
               /\ Total(x)'
               /\ Fresh(x)' \/ RefusedBefore(x)'
    <2>1. Total(x)
      BY DEF ResentInv
    <2>2. Once(x)' /\ (Fresh(x)' \/ RefusedBefore(x)')
      BY <1>0, <2>1, BoundsGain
    <2>3. Once(x)' => Total(x)'
      <3>1. delivered[x] \in Nat /\ restarts \in Nat /\ failures \in Nat
        BY <1>0, BoundsAssumption DEF TypeOK, Cap
      <3> QED
        BY <3>1 DEF Once, Total, Earlier
    <2> QED
      BY <1>0, <2>2, <2>3, BoundsGain, BoundsOrdered
  <1>3. \A l, m : GoodBetween(Lines, l, m)' <=> GoodBetween(Lines, l, m)
    BY <1>1 DEF GoodBetween
  <1>4. ASSUME NEW k \in 1 .. Len(Lines)
        PROVE  /\ Spare(Lines[k]) => Spare(Lines[k])'
               /\ Fresh(Lines[k]) => Spare(Lines[k])' /\ Fresh(Lines[k])'
               /\ Ready(Lines, k) => Fresh(Lines[k])'
               /\ Ready(Lines, k) => Ready(Lines, k)'
               /\ Passed(Lines, k) => Ready(Lines, k)'
               /\ Passed(Lines, k)'
    <2>1. PICK y \in Token : y = Lines[k]
      BY <1>1
    <2> QED
      BY <1>1, <1>2, <1>3, <2>1 DEF Ready, Passed
  <1>5. ASSUME NEW k \in 1 .. Len(Lines) PROVE Ready(Lines, k) \/ Passed(Lines, k)
    <2>1. k \in next .. Len(Lines) \/ k \in 1 .. next - 1
      BY <1>1
    <2> QED
      BY <2>1 DEF ResentInv, ScanReady
  <1>6. ASSUME NEW k \in next .. Len(Lines) PROVE Fresh(Lines[k])'
    <2>1. k \in 1 .. Len(Lines) /\ Ready(Lines, k)
      BY <1>1 DEF ResentInv, ScanReady
    <2> QED
      BY <1>4, <2>1
  <1>7. ASSUME NEW p \in todo, NEW x \in TokensOf(p) PROVE Fresh(x)'
    <2>1. x \in Token /\ Fresh(x)
      BY <1>0, RowFacts DEF TypeOK, ResentInv, Working
    <2> QED
      BY <1>2, <2>1
  <1> QED
    BY <1>2, <1>4, <1>5, <1>6, <1>7

\* ... and the lines behind a token that was lost have that in hand.
LEMMA ResentLose == ShapeInv /\ ResentInv /\ Lose => ResentInv'
  <1> SUFFICES ASSUME ShapeInv, ResentInv, Lose PROVE ResentInv'
    OBVIOUS
  <1>0. TypeOK /\ PlaceInv /\ FileInv
    BY DEF ShapeInv
  <1>1. /\ pc = "pusher" /\ pc' = "pusher" /\ refused \subseteq refused' /\ failures' = failures + 1
        /\ UNCHANGED <<kind, file, part, todo, delivered, restarts, bad>> /\ Lines' = Lines
        /\ \E last \in next .. Len(Lines) : next' = last + 1
    BY DEF Lose, Trouble, MaybeRefused, database, disk, crashes, Lines
  <1>2. Len(Lines) \in Nat /\ next \in Nat \ {0}
    BY <1>0, <1>1, LinesFacts DEF Working, TypeOK
  <1>3. PICK last \in next .. Len(Lines) : next' = last + 1
    BY <1>1
  <1>4. /\ \A x \in Token : Total(x)'
        /\ \A p \in todo : \A x \in TokensOf(p) : Fresh(x)'
        /\ \A k \in 1 .. Len(Lines) : Ready(Lines, k)' /\ Passed(Lines, k)'
        /\ \A k \in 1 .. Len(Lines) : Fresh(Lines[k]) => Spare(Lines[k])' /\ Fresh(Lines[k])'
        /\ \A k \in next .. Len(Lines) : Fresh(Lines[k])'
    BY <1>1, TroubleReady
  <1>5. ASSUME bad' # <<>>, NEW K \in 1 .. Len(Lines), NamedAt(K)' PROVE Trail(K)'
    <2>1. Trail(K)
      <3>1. bad # <<>> /\ NamedAt(K)
        BY <1>1, <1>5 DEF NamedAt
      <3> QED
        BY <1>1, <3>1 DEF ResentInv, ScanReady
    <2>2. \A l, m : GoodBetween(Lines, l, m)' <=> GoodBetween(Lines, l, m)
      BY <1>1 DEF GoodBetween
    <2>3. ASSUME NEW k \in K + 1 .. last PROVE Fresh(Lines[k])' \/ GoodBetween(Lines, K + 1, k)
      <3>1. k \in 1 .. Len(Lines)
        BY <1>2, <1>3
      <3>2. CASE k < next
        <4>1. k \in K + 1 .. next - 1
          BY <1>2, <1>3, <3>2
        <4> QED
          BY <1>4, <2>1, <3>1, <4>1 DEF Trail
      <3>3. CASE k >= next
        <4>1. k \in next .. Len(Lines)
          BY <1>2, <1>3, <3>3
        <4> QED
          BY <1>4, <4>1
      <3> QED
        BY <1>2, <3>2, <3>3
    <2>4. ASSUME NEW u \in K + 1 .. last, kind[Lines[u]] # "good",
                 NEW k \in last + 1 .. Len(Lines)
          PROVE  Spare(Lines[k])'
      <3>1. k \in 1 .. Len(Lines) /\ k \in next .. Len(Lines) /\ u \in 1 .. k
        BY <1>2, <1>3
      <3>2. Ready(Lines, k) /\ ~GoodBetween(Lines, 1, k)
        BY <1>1, <2>4, <3>1 DEF ResentInv, ScanReady, GoodBetween
      <3> QED
        BY <1>4, <3>1, <3>2 DEF Ready
    <2>5. GoodBetween(Lines, K + 1, last) \/ \A k \in last + 1 .. Len(Lines) : Spare(Lines[k])'
      BY <2>4 DEF GoodBetween
    <2>6. next' - 1 = last
      BY <1>2, <1>3
    <2> QED
      BY <1>1, <1>3, <2>2, <2>3, <2>5, <2>6 DEF Trail
  <1>6. ASSUME NEW k \in next' .. Len(Lines) PROVE Ready(Lines, k)'
    <2>1. k \in 1 .. Len(Lines)
      BY <1>2, <1>3
    <2> QED
      BY <1>4, <2>1
  <1>7. ASSUME NEW k \in 1 .. next' - 1 PROVE Passed(Lines, k)'
    <2>1. k \in 1 .. Len(Lines)
      BY <1>2, <1>3
    <2> QED
      BY <1>4, <2>1
  <1> QED
    BY <1>1, <1>4, <1>5, <1>6, <1>7 DEF ResentInv, ScanReady, Working

LEMMA ResentRewind == ShapeInv /\ ResentInv /\ Rewind => ResentInv'
  <1> SUFFICES ASSUME ShapeInv, ResentInv, Rewind PROVE ResentInv'
    OBVIOUS
  <1>1. /\ pc = "pusher" /\ pc' = "pusher" /\ refused \subseteq refused' /\ failures' = failures + 1
        /\ UNCHANGED <<kind, file, part, todo, delivered, restarts, bad>> /\ Lines' = Lines
        /\ next' = 1
    BY DEF Rewind, Trouble, MaybeRefused, database, disk, crashes, Lines
  <1>2. Len(Lines) \in Nat
    BY <1>1, LinesFacts DEF Working, ShapeInv
  <1>3. /\ \A x \in Token : Total(x)'
        /\ \A p \in todo : \A x \in TokensOf(p) : Fresh(x)'
        /\ \A k \in 1 .. Len(Lines) : Ready(Lines, k)'
    BY <1>1, TroubleReady
  <1>4. ASSUME NEW K \in 1 .. Len(Lines) PROVE Trail(K)'
    <2>1. K + 1 .. next' - 1 = {}
      BY <1>1, <1>2
    <2> QED
      BY <2>1 DEF Trail, GoodBetween
  <1>5. 1 .. next' - 1 = {}
    BY <1>1
  <1> QED
    BY <1>1, <1>3, <1>4, <1>5 DEF ResentInv, ScanReady, Working

LEMMA ResentGivesUp == ShapeInv /\ ResentInv /\ (PusherFails \/ PusherKilled) => ResentInv'
  <1> SUFFICES ASSUME ShapeInv, ResentInv, PusherFails \/ PusherKilled PROVE ResentInv'
    OBVIOUS
  <1>0. TypeOK /\ PlaceInv /\ FileInv /\ ScanInv
    BY DEF ShapeInv
  <1>1. /\ pc = "pusher" /\ pc' = "parse" /\ refused \subseteq refused' /\ failures' = failures + 1
        /\ UNCHANGED <<kind, file, part, todo, delivered, restarts, next>> /\ Lines' = Lines
        /\ bad' # <<>> => bad' = bad
    BY DEF PusherFails, PusherKilled, Trouble, database, disk, crashes, Lines
  <1>2. Len(Lines) \in Nat /\ next \in Nat \ {0} /\ next <= Len(Lines) + 1
    BY <1>0, <1>1, LinesFacts DEF Working, TypeOK, ScanInv
  <1>3. /\ \A x \in Token : Total(x)'
        /\ \A p \in todo : \A x \in TokensOf(p) : Fresh(x)'
        /\ \A k \in 1 .. Len(Lines) : Ready(Lines, k)' /\ Passed(Lines, k)'
        /\ \A k \in 1 .. Len(Lines) :
               /\ Spare(Lines[k]) => Spare(Lines[k])'
               /\ Fresh(Lines[k]) => Fresh(Lines[k])'
    BY <1>1, TroubleReady
  <1>4. /\ \A k \in next .. Len(Lines) : k \in 1 .. Len(Lines)
        /\ \A k \in 1 .. next - 1 : k \in 1 .. Len(Lines)
    BY <1>2
  <1>5. ASSUME bad' # <<>>, NEW K \in 1 .. Len(Lines), NamedAt(K)' PROVE Trail(K)'
    <2>1. Trail(K)
      <3>1. bad # <<>> /\ NamedAt(K)
        BY <1>1, <1>5 DEF NamedAt
      <3> QED
        BY <1>1, <3>1 DEF ResentInv, ScanReady
    <2>2. \A l, m : GoodBetween(Lines, l, m)' <=> GoodBetween(Lines, l, m)
      BY <1>1 DEF GoodBetween
    <2>3. \A k \in K + 1 .. next - 1 : k \in 1 .. Len(Lines)
      BY <1>2
    <2> QED
      BY <1>1, <1>3, <1>4, <2>1, <2>2, <2>3 DEF Trail
  <1> QED
    BY <1>1, <1>3, <1>4, <1>5 DEF ResentInv, ScanReady, Working

\* What is left behind the last token named: lines that have not been sent in
\* this session, or have been sent once and are sent once more.
LEMMA TrimReady ==
    ASSUME ShapeInv, ResentInv, pc = "parse", bad # <<>>,
           NEW rest \in Seq(Token), NEW K \in 1 .. Len(Lines), NamedAt(K),
           Len(rest) = Len(Lines) - K,
           \A k \in 1 .. Len(Lines) - K : rest[k] = Lines[K + k]
    PROVE  \A k \in 1 .. Len(rest) : Ready(rest, k)
  <1>0. TypeOK /\ PlaceInv /\ FileInv
    BY DEF ShapeInv
  <1>1. /\ part \in Parts /\ Lines \in Seq(Token) /\ Len(Lines) \in Nat
        /\ \A k \in 1 .. Len(Lines) : Lines[k] \in Token
        /\ \A j, k \in 1 .. Len(Lines) : j < k => Lines[j] \in Before(Lines[k])
        /\ next \in Nat
    BY <1>0, LinesFacts DEF Working, TypeOK
  <1>2. kind[Lines[K]] = "unknown" /\ Lines[K] \in refused /\ Trail(K)
    <2>1. Lines[K] = Last(bad) /\ Len(bad) \in DOMAIN bad
      BY <1>0 DEF NamedAt, TypeOK
    <2>2. Last(bad) \in Range(bad)
      BY <2>1, Zenon DEF Last, Range
    <2> QED
      BY <2>1, <2>2 DEF NamedAt, ShapeInv, MarkInv, ResentInv, ScanReady
  <1> SUFFICES ASSUME NEW k \in 1 .. Len(rest) PROVE Ready(rest, k)
    OBVIOUS
  <1>3. PICK m \in 1 .. Len(Lines) : m = K + k /\ rest[k] = Lines[m] /\ K < m
    <2>1. k \in 1 .. Len(Lines) - K /\ k \in Nat /\ K \in Nat
      BY <1>1
    <2>2. K + k \in 1 .. Len(Lines) /\ K < K + k
      BY <1>1, <2>1
    <2> QED
      BY <2>1, <2>2
  <1>4. ~GoodBetween(Lines, 1, m)
    <2>1. K \in 1 .. m
      BY <1>1, <1>3
    <2> QED
      BY <1>2, <2>1 DEF GoodBetween
  <1>5. RefusedBefore(Lines[m])
    BY <1>1, <1>2, <1>3 DEF RefusedBefore
  <1>6. CASE m >= next
    <2>1. Ready(Lines, m)
      BY <1>1, <1>6 DEF ResentInv, ScanReady
    <2> QED
      BY <1>3, <1>4, <2>1 DEF Ready
  <1>7. CASE m < next
    <2>1. m \in 1 .. next - 1 /\ m \in K + 1 .. next - 1
      BY <1>1, <1>3, <1>7
    <2>2. Once(Lines[m])
      BY <1>4, <2>1 DEF ResentInv, ScanReady, Passed
    <2>3. CASE Fresh(Lines[m])
      BY <1>3, <2>3 DEF Ready
    <2>4. CASE GoodBetween(Lines, K + 1, m)
      <3>1. ASSUME NEW j \in 1 .. k PROVE kind[rest[j]] = "good"
        <4>1. j \in 1 .. Len(Lines) - K /\ j \in Nat /\ K \in Nat /\ k \in Nat
          BY <1>1
        <4>2. K + j \in K + 1 .. m
          BY <1>3, <4>1
        <4> QED
          BY <2>4, <4>1, <4>2 DEF GoodBetween
      <3> QED
        BY <1>3, <1>5, <2>2, <3>1 DEF Ready, GoodBetween
    <2> QED
      BY <1>2, <2>1, <2>3, <2>4 DEF Trail
  <1> QED
    BY <1>1, <1>6, <1>7

LEMMA ResentStep == ShapeInv /\ ResentInv /\ [Next]_vars => ResentInv'
  <1> SUFFICES ASSUME ShapeInv, ResentInv, [Next]_vars PROVE ResentInv'
    OBVIOUS
  <1>0. TypeOK /\ PlaceInv /\ FileInv /\ ScanInv /\ \A x \in Token : Total(x)
    BY DEF ShapeInv, ResentInv
  <1>a. ASSUME UNCHANGED <<delivered, refused, restarts, failures>>
        PROVE  \A x : /\ Spare(x)' <=> Spare(x)
                      /\ Fresh(x)' <=> Fresh(x)
                      /\ Once(x)' <=> Once(x)
                      /\ Total(x)' <=> Total(x)
                      /\ RefusedBefore(x)' <=> RefusedBefore(x)
    BY <1>a DEF Spare, Fresh, Once, Total, Earlier, RefusedBefore, Before
  <1>b. ASSUME UNCHANGED <<delivered, refused, restarts, failures, kind>>
        PROVE  \A lines, k : /\ Ready(lines, k)' <=> Ready(lines, k)
                             /\ Passed(lines, k)' <=> Passed(lines, k)
    BY <1>a, <1>b DEF Ready, Passed, GoodBetween
  <1>c. ASSUME UNCHANGED <<delivered, refused, restarts, failures, kind, bad, next>>,
               Lines' = Lines, ScanReady
        PROVE  ScanReady'
    <2>1. \A K : (Trail(K)' <=> Trail(K)) /\ (NamedAt(K)' <=> NamedAt(K))
      BY <1>a, <1>c DEF Trail, GoodBetween, NamedAt
    <2> QED
      BY <1>b, <1>c, <2>1 DEF ScanReady
  <1>1. CASE Deliver \/ Refuse \/ PusherTrouble
    BY <1>1, ResentDeliver, ResentRefuse, ResentLose, ResentRewind, ResentGivesUp
       DEF PusherTrouble
  <1>2. CASE FindLastInvalid
    <2>1. /\ UNCHANGED <<delivered, refused, restarts, failures, kind, todo>> /\ pc = "parse" /\ bad # <<>>
          /\ pc' \in {"value_error", "truncate"}
          /\ pc' = "truncate" => content' = Rest(Lines, Last(bad))
      BY <1>2 DEF FindLastInvalid, database, pusher, crashes
    <2>2. \A k \in 1 .. Len(Rest(Lines, Last(bad))) : Ready(Rest(Lines, Last(bad)), k)
      BY <1>0, <2>1, TrimFacts, TrimReady
    <2>3. pc' = "truncate" => (\A k \in 1 .. Len(content) : Ready(content, k))'
      BY <1>b, <2>1, <2>2
    <2> QED
      BY <1>0, <1>a, <2>1, <2>3 DEF ResentInv, Working
  <1>3. CASE Truncate
    <2>1. /\ UNCHANGED <<delivered, refused, restarts, failures, kind, todo, content>>
          /\ pc = "truncate" /\ pc' = "write_back"
      BY <1>3 DEF Truncate, database, pusher, crashes
    <2>2. (\A k \in 1 .. Len(content) : Ready(content, k))'
      BY <1>b, <2>1 DEF ResentInv
    <2> QED
      BY <1>0, <1>a, <2>1, <2>2 DEF ResentInv, Working
  <1>4. CASE WriteBack
    <2>1. /\ UNCHANGED <<delivered, refused, restarts, failures, kind, todo, part>>
          /\ pc = "write_back" /\ pc' = "mark" /\ file' = [file EXCEPT ![part] = content]
      BY <1>4 DEF WriteBack, database, pusher, crashes
    <2>2. part \in Parts
      BY <1>0, <2>1 DEF PlaceInv, Working
    <2>3. Lines' = content
      BY <1>0, <2>1, <2>2 DEF Lines, TypeOK
    <2>4. (\A k \in 1 .. Len(Lines) : Ready(Lines, k))'
      BY <1>b, <2>1, <2>3 DEF ResentInv
    <2> QED
      BY <1>0, <1>a, <2>1, <2>4 DEF ResentInv, Working
  <1>5. CASE PickFile
    <2>1. PICK p \in todo : part' = p /\ todo' = todo \ {p}
      BY <1>5 DEF PickFile
    <2>2. /\ UNCHANGED <<delivered, refused, restarts, failures, kind, file>>
          /\ pc = "pick" /\ pc' = "push"
      BY <1>5 DEF PickFile, database, disk, pusher, crashes
    <2>3. p \in Parts /\ Lines' = file[p] /\ EndOf(p, file[p]) /\ file[p] \in Seq(Token)
      BY <1>0, <2>1, <2>2 DEF Lines, FileInv, TypeOK
    <2>4. \A k \in 1 .. Len(file[p]) : Ready(file[p], k)
      BY <2>1, <2>2, <2>3, EndFacts DEF ResentInv, Ready
    <2>5. (\A k \in 1 .. Len(Lines) : Ready(Lines, k))'
      BY <1>b, <2>2, <2>3, <2>4
    <2> QED
      BY <1>0, <1>a, <2>1, <2>2, <2>5 DEF ResentInv, Working
  <1>6. CASE RunPusher
    <2>1. /\ UNCHANGED <<delivered, refused, restarts, failures, kind, todo, file, part>>
          /\ pc = "push" /\ pc' = "pusher" /\ next' = 1 /\ Lines' = Lines
      BY <1>6 DEF RunPusher, database, disk, crashes, Lines
    <2>2. ScanReady'
      <3>1. 1 .. next' - 1 = {} /\ bad' = <<>>
        BY <1>6, <2>1 DEF RunPusher
      <3> QED
        BY <1>b, <2>1, <3>1 DEF ResentInv, ScanReady
    <2> QED
      BY <1>0, <1>a, <2>1, <2>2 DEF ResentInv, Working
  <1>7. CASE PusherEnds
    <2>1. /\ UNCHANGED <<delivered, refused, restarts, failures, kind, todo, file, part, next, bad>>
          /\ pc = "pusher" /\ pc' = "parse" /\ Lines' = Lines
      BY <1>7 DEF PusherEnds, database, disk, pusher, crashes, Lines
    <2>2. ScanReady'
      BY <1>c, <2>1 DEF ResentInv
    <2> QED
      BY <1>0, <1>a, <2>1, <2>2 DEF ResentInv, Working
  <1>8. CASE Mark
    <2>1. /\ UNCHANGED <<delivered, refused, restarts, failures, kind, todo, file, part>>
          /\ pc = "mark" /\ pc' \in {"mark", "push"} /\ Lines' = Lines
      BY <1>8 DEF Mark, disk, pusher, crashes, Lines
    <2>2. (\A k \in 1 .. Len(Lines) : Ready(Lines, k))'
      BY <1>b, <2>1 DEF ResentInv
    <2> QED
      BY <1>0, <1>a, <2>1, <2>2 DEF ResentInv, Working
  <1>9. CASE Start \/ PrepareFile \/ CreateIndex \/ WriteIndex
    <2>1. /\ UNCHANGED <<delivered, refused, restarts, failures>>
          /\ pc \in {"start", "prepare", "write_index"}
          /\ pc' \in {"prepare", "write_index", "pick", "json_error"} /\ todo' \subseteq Parts
      BY <1>0, <1>9 DEF Start, PrepareFile, CreateIndex, WriteIndex, pusher, crashes, Files, TypeOK
    <2>2. \A p \in Parts : TokensOf(p) \subseteq Token
      BY RowFacts
    <2> QED
      BY <1>0, <1>a, <2>1, <2>2 DEF ResentInv, Working
  <1>10. CASE Finish \/ NothingInvalid \/ Killed
    <2>1. /\ UNCHANGED <<delivered, refused, restarts, failures, todo>>
          /\ \/ pc' \in {"done", "killed"}
             \/ pc = "parse" /\ pc' = "pick"
      BY <1>10 DEF Finish, NothingInvalid, Killed, pusher, crashes
    <2> QED
      BY <1>0, <1>a, <2>1 DEF ResentInv, Working
  <1>11. CASE Restart
    <2>1. UNCHANGED <<delivered, refused, failures>> /\ restarts' = restarts + 1 /\ pc' = "start"
      BY <1>11 DEF Restart
    <2>2. \A x \in Token : delivered[x] \in Nat /\ restarts \in Nat /\ failures \in Nat
      BY <1>0, BoundsAssumption DEF TypeOK, Cap
    <2>3. ASSUME NEW x \in Token PROVE Fresh(x)' /\ Total(x)'
      <3>1. RefusedBefore(x)' = RefusedBefore(x)
        BY <2>1 DEF RefusedBefore, Before
      <3>2. Total(x) /\ delivered[x] \in Nat /\ restarts \in Nat /\ failures \in Nat
        BY <1>0, <2>2
      <3>3. CASE RefusedBefore(x)
        BY <2>1, <3>1, <3>2, <3>3 DEF Fresh, Total, Earlier
      <3>4. CASE ~RefusedBefore(x)
        BY <2>1, <3>1, <3>2, <3>4 DEF Fresh, Total, Earlier
      <3> QED
        BY <3>3, <3>4
    <2> QED
      BY <2>1, <2>3 DEF ResentInv, Working
  <1>12. CASE UNCHANGED vars
    <2>1. /\ UNCHANGED <<delivered, refused, restarts, failures, kind, todo, pc, next, bad, content>>
          /\ Lines' = Lines
      BY <1>12 DEF vars, database, disk, pusher, crashes, Lines
    <2>2. ScanReady => ScanReady'
      BY <1>c, <2>1
    <2> QED
      BY <1>0, <1>a, <1>b, <2>1, <2>2 DEF ResentInv, Working
  <1> QED
    BY <1>1, <1>2, <1>3, <1>4, <1>5, <1>6, <1>7, <1>8, <1>9, <1>10, <1>11, <1>12
       DEF Next, Driver, Terminated

\* What each line of the file at work, and each token of the others, may still
\* be sent in this session.
THEOREM ResentInvariant == Spec => []ResentInv
  BY ResentInit, ResentStep, ShapeInvariant, PTL DEF Spec

\* A device is notified twice at most for each start of the driver, and once
\* when no token before it in its file was refused, and once more for each failure
\* of a connection or of apn-pusher, wherever they happen and the driver is killed.
THEOREM ResentTailOnlyHolds == Spec => []ResentTailOnly
  <1>1. ShapeInv /\ ResentInv => ResentTailOnly
    <2> SUFFICES ASSUME ShapeInv, ResentInv, NEW x \in Token
                 PROVE  /\ delivered[x] <= 2 * (restarts + 1) + failures
                        /\ delivered[x] > restarts + 1 + failures => Before(x) \cap refused # {}
      BY DEF ResentTailOnly
    <2>1. delivered[x] \in Nat /\ restarts \in Nat /\ failures \in Nat
      BY BoundsAssumption DEF ShapeInv, TypeOK, Cap
    <2>2. Total(x)
      BY DEF ResentInv
    <2> QED
      BY <2>1, <2>2 DEF Total, Earlier, RefusedBefore
  <1> QED
    BY <1>1, ShapeInvariant, ResentInvariant, PTL

-----------------------------------------------------------------------------
(* Nobody is forgotten *)

LEMMA AnsweredStays ==
    ASSUME ShapeInv, [Next]_vars
    PROVE  \A x \in Token : Answered(x) => Answered(x)'
  <1> SUFFICES ASSUME NEW x \in Token, Answered(x) PROVE Answered(x)'
    OBVIOUS
  <1>0. TypeOK
    BY DEF ShapeInv
  <1>1. CASE kind' = kind /\ delivered' = delivered /\ refused \subseteq refused' /\ lost \subseteq lost'
    BY <1>1 DEF Answered, Decided
  <1>2. CASE Deliver
    <2>1. /\ UNCHANGED <<kind, refused, lost>> /\ Cap \in Nat /\ Cap > 0 /\ delivered[x] \in Nat
          /\ delivered' = [delivered EXCEPT ![Lines[next]] = IF @ < Cap THEN @ + 1 ELSE @]
      BY <1>0, <1>2, BoundsAssumption DEF Deliver, database, TypeOK, Cap
    <2>2. delivered'[x] = delivered[x] \/ delivered'[x] = delivered[x] + 1
      BY <1>0, <2>1 DEF TypeOK
    <2> QED
      BY <2>1, <2>2 DEF Answered, Decided
  <1>3. CASE Refuse
    BY <1>1, <1>3 DEF Refuse, database
  <1>4. CASE \/ Start \/ PrepareFile \/ CreateIndex \/ WriteIndex \/ PickFile \/ Finish
             \/ RunPusher \/ PusherEnds \/ PusherTrouble \/ NothingInvalid
    BY <1>1, <1>4 DEF Start, PrepareFile, CreateIndex, WriteIndex, PickFile, Finish, RunPusher,
       PusherEnds, PusherTrouble, Lose, Rewind, PusherFails, PusherKilled, MaybeRefused,
       NothingInvalid, database, pusher
  <1>5. CASE FindLastInvalid \/ Truncate \/ WriteBack \/ Mark \/ Killed \/ Restart \/ UNCHANGED vars
    BY <1>1, <1>5 DEF FindLastInvalid, Truncate, WriteBack, Mark, Killed, Restart, vars,
       database, pusher
  <1> QED
    BY <1>2, <1>3, <1>4, <1>5 DEF Next, Driver, Terminated

\* remove_file_lines leaves out nothing but what apn-pusher has passed.
LEMMA LeftOutPassed ==
    ASSUME ShapeInv, ScanDecided, FindLastInvalid, pc' = "truncate",
           NEW x \in Range(Lines) \ Range(content')
    PROVE  Answered(x)
  <1>0. TypeOK /\ PlaceInv /\ FileInv /\ ScanInv
    BY DEF ShapeInv
  <1>1. pc = "parse" /\ bad # <<>> /\ content' = Rest(Lines, Last(bad))
    BY DEF FindLastInvalid
  <1>2. Lines \in Seq(Token) /\ Len(Lines) \in Nat /\ next \in Nat
    BY <1>0, <1>1, LinesFacts DEF Working, TypeOK
  <1>3. PICK K \in 1 .. Len(Lines) :
            /\ NamedAt(K) /\ content' \in Seq(Token)
            /\ Len(content') = Len(Lines) - K
            /\ \A k \in 1 .. Len(Lines) - K : content'[k] = Lines[K + k]
    BY <1>0, <1>1, TrimFacts
  <1>4. PICK k \in 1 .. Len(Lines) : Lines[k] = x
    BY <1>2 DEF Range
  <1>5. ASSUME k > K PROVE FALSE
    <2>1. k - K \in 1 .. Len(Lines) - K /\ K + (k - K) = k
      BY <1>2, <1>3, <1>5
    <2>2. content'[k - K] = x
      BY <1>3, <1>4, <2>1
    <2>3. k - K \in DOMAIN content'
      BY <1>3, <2>1
    <2> QED
      BY <2>2, <2>3 DEF Range
  <1>6. k \in 1 .. K
    BY <1>2, <1>3, <1>5
  <1> QED
    BY <1>1, <1>3, <1>4, <1>6 DEF ScanDecided

\* A line that has been answered stays so, and so does all that stands before the
\* last token named, as long as no other is named.
LEMMA ScanStays ==
    ASSUME ShapeInv, ScanDecided, [Next]_vars, pc \in {"pusher", "parse"},
           UNCHANGED <<kind, file, part>>, bad' = bad \/ bad' = <<>>
    PROVE  /\ \A k \in 1 .. next - 1 : Answered(Lines[k])'
           /\ bad' # <<>> => \A K \in 1 .. Len(Lines) :
                  NamedAt(K)' => \A k \in 1 .. K : Answered(Lines[k])'
  <1>1. /\ \A k \in 1 .. Len(Lines) : Lines[k] \in Token
        /\ Lines' = Lines /\ Len(Lines) \in Nat /\ next \in Nat /\ next <= Len(Lines) + 1
    BY LinesFacts DEF Working, ShapeInv, TypeOK, ScanInv, Lines
  <1>2. ASSUME NEW k \in 1 .. Len(Lines), Answered(Lines[k]) PROVE Answered(Lines[k])'
    <2>1. PICK y \in Token : y = Lines[k] /\ Answered(y)
      BY <1>1, <1>2
    <2>2. Answered(y)'
      BY <2>1, AnsweredStays
    <2> QED
      BY <1>1, <2>1, <2>2
  <1>3. ASSUME NEW k \in 1 .. next - 1 PROVE Answered(Lines[k])'
    BY <1>1, <1>2 DEF ScanDecided
  <1>4. ASSUME bad' # <<>>, NEW K \in 1 .. Len(Lines), NamedAt(K)', NEW k \in 1 .. K
        PROVE  Answered(Lines[k])'
    <2>1. bad # <<>> /\ NamedAt(K) /\ k \in 1 .. Len(Lines)
      BY <1>1, <1>4 DEF NamedAt
    <2> QED
      BY <1>2, <2>1 DEF ScanDecided
  <1> QED
    BY <1>3, <1>4

LEMMA PassedLine ==
    ASSUME ShapeInv, ScanDecided, Deliver \/ Refuse, NEW n \in 1 .. Len(Lines), n = next
    PROVE  Answered(Lines[n])'
  <1>1. /\ pc = "pusher" /\ next' = next + 1 /\ Lines' = Lines
        /\ kind' = kind /\ next <= Len(Lines) /\ UNCHANGED <<lost, file, part>>
    BY DEF Deliver, Refuse, database, disk, Lines
  <1>2. PICK x \in Token : x = Lines[n] /\ x = Lines[next]
    BY <1>1, LinesFacts DEF Working, ShapeInv
  <1>3. Decided(x)'
    <2>1. CASE Deliver
      <3>1. /\ kind[x] = "good" /\ kind' = kind
            /\ delivered' = [delivered EXCEPT ![x] = IF @ < Cap THEN @ + 1 ELSE @]
        BY <1>2, <2>1 DEF Deliver, database
      <3>2. delivered \in [Token -> 0 .. Cap]
        BY DEF ShapeInv, TypeOK
      <3>3. Cap \in Nat /\ Cap > 0
        BY BoundsAssumption DEF Cap
      <3>4. delivered[x] \in Nat
        BY <3>2, <3>3
      <3>5. delivered'[x] = IF delivered[x] < Cap THEN delivered[x] + 1 ELSE delivered[x]
        BY <3>1, <3>2
      <3>6. delivered'[x] > 0
        BY <3>3, <3>4, <3>5
      <3> QED
        BY <3>1, <3>6 DEF Decided
    <2>2. CASE Refuse
      BY <1>2, <2>2 DEF Refuse, Decided, database
    <2> QED
      BY <2>1, <2>2
  <1> QED
    BY <1>1, <1>2, <1>3 DEF Answered, Decided

LEMMA PassedStep == ShapeInv /\ PassedInv /\ [Next]_vars => PassedInv'
  <1> SUFFICES ASSUME ShapeInv, ScanDecided, CutOff, [Next]_vars PROVE ScanDecided' /\ CutOff'
    BY DEF PassedInv
  <1>0. TypeOK /\ PlaceInv /\ FileInv /\ ScanInv
    BY DEF ShapeInv
  <1>a. pc \in {"pusher", "parse"} =>
            /\ Len(Lines) \in Nat /\ next \in Nat \ {0}
            /\ \A k \in 1 .. Len(Lines) : Lines[k] \in Token
            /\ \A j, k \in 1 .. Len(Lines) : Lines[j] = Lines[k] => j = k
    BY <1>0, LinesFacts DEF Working, TypeOK
  <1>1. CASE RunPusher
    BY <1>1 DEF RunPusher, ScanDecided, CutOff
  <1>2. CASE Deliver
    <2>1. /\ pc = "pusher" /\ pc' = "pusher" /\ next' = next + 1 /\ Lines' = Lines
          /\ UNCHANGED <<kind, file, part, bad>>
      BY <1>2 DEF Deliver, database, disk, Lines
    <2>2. PICK n \in 1 .. Len(Lines) : n = next
      BY <1>2, <1>a, <2>1 DEF Deliver
    <2>3. \A k \in 1 .. next' - 1 : k \in 1 .. next - 1 \/ k = n
      BY <1>a, <2>1, <2>2
    <2>4. Answered(Lines[n])'
      BY <1>2, <2>2, PassedLine
    <2>5. \A k \in 1 .. next' - 1 : Answered(Lines[k])'
      BY <2>1, <2>3, <2>4, ScanStays
    <2> QED
      BY <2>1, <2>5, ScanStays DEF ScanDecided, CutOff
  <1>3. CASE Refuse
    <2>1. /\ pc = "pusher" /\ pc' = "pusher" /\ next' = next + 1 /\ Lines' = Lines
          /\ UNCHANGED <<kind, file, part>> /\ bad' = Append(bad, Lines[next])
          /\ bad \in Seq(Token) /\ next <= Len(Lines)
      BY <1>0, <1>3 DEF Refuse, database, disk, Lines, TypeOK
    <2>2. PICK n \in 1 .. Len(Lines) : n = next
      BY <1>a, <2>1
    <2>3. Answered(Lines[n])'
      BY <1>3, <2>2, PassedLine
    <2>4. ASSUME NEW k \in 1 .. n PROVE Answered(Lines[k])'
      <3>1. CASE k = n
        BY <2>3, <3>1
      <3>2. CASE k # n
        <4>1. k \in 1 .. next - 1 /\ k \in 1 .. Len(Lines)
          BY <1>a, <2>1, <2>2, <3>2
        <4>2. PICK y \in Token : y = Lines[k] /\ Answered(y)
          BY <1>a, <2>1, <4>1 DEF ScanDecided
        <4>3. Answered(y)'
          BY <4>2, AnsweredStays
        <4> QED
          BY <2>1, <4>2, <4>3
      <3> QED
        BY <3>1, <3>2
    <2>5. ASSUME NEW K \in 1 .. Len(Lines), NamedAt(K)' PROVE K = n
      <3>1. Last(bad') = Lines[n]
        BY <2>1, <2>2 DEF Last
      <3> QED
        BY <1>a, <2>1, <2>5, <3>1 DEF NamedAt
    <2>6. next' - 1 = n
      BY <2>1, <2>2
    <2> QED
      BY <2>1, <2>4, <2>5, <2>6 DEF ScanDecided, CutOff
  <1>4. CASE Lose
    <2>1. /\ pc = "pusher" /\ pc' = "pusher" /\ Lines' = Lines
          /\ UNCHANGED <<kind, file, part, bad>>
          /\ \E last \in next .. Len(Lines) :
                 lost' = lost \union {Lines[k] : k \in next .. last} /\ next' = last + 1
      BY <1>4 DEF Lose, Trouble, database, disk, Lines
    <2>2. PICK last \in next .. Len(Lines) :
              lost' = lost \union {Lines[k] : k \in next .. last} /\ next' = last + 1
      BY <2>1
    <2>3. ASSUME NEW k \in 1 .. next' - 1 PROVE Answered(Lines[k])'
      <3>1. CASE k < next
        <4>1. k \in 1 .. next - 1
          BY <1>a, <2>1, <3>1
        <4> QED
          BY <2>1, <4>1, ScanStays
      <3>2. CASE k >= next
        <4>1. k \in next .. last
          BY <1>a, <2>1, <2>2, <3>2
        <4>2. Lines[k] \in lost'
          BY <2>2, <4>1
        <4> QED
          BY <2>1, <4>2 DEF Answered
      <3> QED
        BY <1>a, <2>1, <3>1, <3>2
    <2> QED
      BY <2>1, <2>3, ScanStays DEF ScanDecided, CutOff
  <1>5. CASE Rewind
    <2>1. /\ pc = "pusher" /\ pc' = "pusher" /\ Lines' = Lines
          /\ UNCHANGED <<kind, file, part, bad>> /\ 1 .. next' - 1 = {}
      BY <1>5 DEF Rewind, Trouble, database, disk, Lines
    <2> QED
      BY <2>1, ScanStays DEF ScanDecided, CutOff
  <1>6. CASE PusherEnds \/ PusherFails \/ PusherKilled
    <2>1. /\ pc = "pusher" /\ pc' = "parse" /\ Lines' = Lines /\ next' = next
          /\ UNCHANGED <<kind, file, part>> /\ (bad' = bad \/ bad' = <<>>)
      BY <1>6 DEF PusherEnds, PusherFails, PusherKilled, Trouble, database, disk, pusher, Lines
    <2> QED
      BY <2>1, ScanStays DEF ScanDecided, CutOff
  <1>7. CASE FindLastInvalid
    <2>1. /\ pc' \in {"truncate", "value_error"} /\ Lines' = Lines
          /\ UNCHANGED <<kind, delivered, refused, lost>>
      BY <1>7 DEF FindLastInvalid, database, disk, pusher, Lines
    <2>2. pc' = "truncate" => \A x \in Range(Lines) \ Range(content') : Answered(x)
      BY <1>7, LeftOutPassed
    <2>3. CutOff'
      <3> SUFFICES ASSUME pc' = "truncate", NEW x \in Range(Lines) \ Range(content')
                   PROVE  Answered(x)'
        BY <2>1 DEF CutOff
      <3> QED
        BY <2>1, <2>2 DEF Answered, Decided
    <2> QED
      BY <2>1, <2>3 DEF ScanDecided
  <1>8. CASE UNCHANGED vars
    BY <1>8 DEF vars, database, disk, pusher, Lines, ScanDecided, NamedAt, CutOff, Answered, Decided
  <1>9. CASE \/ Start \/ PrepareFile \/ CreateIndex \/ WriteIndex \/ PickFile \/ Finish
             \/ NothingInvalid \/ Truncate \/ WriteBack \/ Mark \/ Killed \/ Restart
    <2>1. pc' \notin {"pusher", "parse", "truncate"}
      BY <1>9 DEF Start, PrepareFile, CreateIndex, WriteIndex, PickFile, Finish, NothingInvalid,
         Truncate, WriteBack, Mark, Killed, Restart
    <2> QED
      BY <2>1 DEF ScanDecided, CutOff
  <1> QED
    BY <1>1, <1>2, <1>3, <1>4, <1>5, <1>6, <1>7, <1>8, <1>9
       DEF Next, Driver, Terminated, PusherTrouble

LEMMA CutStays ==
    ASSUME ShapeInv, [Next]_vars, NEW p \in Parts, NEW lines \in Seq(Token)
    PROVE  CutDecided(p, lines) => CutDecided(p, lines)'
  <1> SUFFICES ASSUME CutDecided(p, lines), NEW m \in 1 .. Len(Rows[p]) - Len(lines)
               PROVE  Answered(Rows[p][m])'
    BY DEF CutDecided
  <1>1. Rows[p][m] \in Token
    BY RowFacts
  <1> QED
    BY <1>1, AnsweredStays DEF CutDecided

\* The rows cut off and the lines passed make up what the rest leaves out.
LEMMA CutFurther ==
    ASSUME NEW p \in Parts, NEW lines \in Seq(Token), EndOf(p, lines), CutDecided(p, lines),
           NEW K \in 0 .. Len(lines), \A k \in 1 .. K : Answered(lines[k])
    PROVE  \A m \in 1 .. Len(Rows[p]) - (Len(lines) - K) : Answered(Rows[p][m])
  <1>1. Len(lines) \in Nat /\ Len(Rows[p]) \in Nat /\ Len(lines) <= Len(Rows[p])
    BY RowFacts DEF EndOf
  <1>2. PICK M \in Nat, L \in Nat : M = Len(Rows[p]) /\ L = Len(lines) /\ L <= M
    BY <1>1
  <1> SUFFICES ASSUME NEW m \in 1 .. M - (L - K) PROVE Answered(Rows[p][m])
    BY <1>2
  <1>3. CASE m <= M - L
    <2>1. m \in 1 .. M - L
      BY <1>2, <1>3
    <2> QED
      BY <1>2, <2>1 DEF CutDecided
  <1>4. CASE m > M - L
    <2>1. PICK k \in 1 .. K : m = M - L + k
      <3>1. m - (M - L) \in 1 .. K
        <4>1. K \in Nat /\ m \in Nat
          BY <1>1
        <4> QED
          BY <1>2, <1>4, <4>1
      <3>2. m = M - L + (m - (M - L))
        OBVIOUS
      <3> QED
        BY <3>1, <3>2
    <2>2. k \in 1 .. L
      BY <1>2
    <2>3. lines[k] = Rows[p][m]
      BY <1>2, <2>1, <2>2 DEF EndOf
    <2> QED
      BY <2>3
  <1> QED
    BY <1>2, <1>3, <1>4

LEMMA DecidedTrim ==
    ASSUME ShapeInv, FindLastInvalid, LeftDecided, ScanDecided, pc' = "truncate"
    PROVE  CutDecided(part, content')
  <1>1. /\ pc = "parse" /\ bad # <<>> /\ part \in Parts /\ index = "written"
        /\ content' = Rest(Lines, Last(bad))
    BY DEF FindLastInvalid, ShapeInv, PlaceInv, Working
  <1>2. /\ Lines \in Seq(Token) /\ Len(Lines) \in Nat /\ EndOf(part, Lines)
        /\ CutDecided(part, Lines)
    BY <1>1, LinesFacts DEF ShapeInv, Working, LeftDecided, Left, FileInv, Lines
  <1>3. PICK K \in 1 .. Len(Lines) : NamedAt(K) /\ Len(content') = Len(Lines) - K
    BY <1>1, TrimFacts DEF ShapeInv
  <1>4. K \in 0 .. Len(Lines)
    BY <1>2, <1>3
  <1>5. \A k \in 1 .. K : Answered(Lines[k])
    BY <1>1, <1>3 DEF ScanDecided
  <1> QED
    BY <1>1, <1>2, <1>3, <1>4, <1>5, CutFurther DEF CutDecided

\* A part the driver leaves without a token to mark is done.
LEMMA DecidedEnd ==
    ASSUME ShapeInv, NothingInvalid, LeftDecided, ScanDecided, EndReached
    PROVE  \A x \in TokensOf(part) : Answered(x)
  <1>1. pc = "parse" /\ bad = <<>> /\ part \in Parts /\ index = "written"
    BY DEF NothingInvalid, ShapeInv, PlaceInv, Working
  <1>2. /\ Lines \in Seq(Token) /\ Len(Lines) \in Nat /\ EndOf(part, Lines)
        /\ CutDecided(part, Lines)
    BY <1>1, LinesFacts DEF ShapeInv, Working, LeftDecided, Left, FileInv, Lines
  <1>3. \A k \in 1 .. Len(Lines) : k \in 1 .. next - 1
    BY <1>1, <1>2 DEF EndReached, ShapeInv, TypeOK
  <1>4. \A k \in 1 .. Len(Lines) : Answered(Lines[k])
    BY <1>1, <1>3 DEF ScanDecided
  <1>5. PICK K \in 0 .. Len(Lines) : K = Len(Lines)
    BY <1>2
  <1>6. \A m \in 1 .. Len(Rows[part]) - (Len(Lines) - K) : Answered(Rows[part][m])
    BY <1>1, <1>2, <1>4, <1>5, CutFurther
  <1>7. Len(Rows[part]) - (Len(Lines) - K) = Len(Rows[part])
    BY <1>1, <1>2, <1>5, RowFacts
  <1>8. \A m \in DOMAIN Rows[part] : Answered(Rows[part][m])
    <2>1. DOMAIN Rows[part] = 1 .. Len(Rows[part])
      BY <1>1, RowFacts, LenProperties
    <2> QED
      BY <1>6, <1>7, <2>1
  <1> QED
    BY <1>8 DEF TokensOf, Range

LEMMA DecidedInit == Init => PassedInv /\ DecidedInv
  BY DEF Init, PassedInv, ScanDecided, CutOff, DecidedInv, LeftDecided, TrimDecided, EndReached,
     PartsDecided, Working

LEMMA DecidedStep ==
    ShapeInv /\ ShapeInv' /\ PassedInv /\ DecidedInv /\ [Next]_vars => DecidedInv'
  <1> SUFFICES ASSUME ShapeInv, ShapeInv', ScanDecided, DecidedInv, [Next]_vars,
                      ~torn', ~abandoned'
               PROVE  (LeftDecided /\ TrimDecided /\ EndReached /\ PartsDecided)'
    BY DEF PassedInv, DecidedInv
  <1>0. TypeOK /\ PlaceInv /\ FileInv /\ ScanInv /\ TypeOK'
    BY DEF ShapeInv
  <1>1. LeftDecided /\ TrimDecided /\ EndReached /\ PartsDecided
    <2>1. ~torn /\ ~abandoned
      BY <1>0 DEF TypeOK, Next, Driver, Terminated, vars, Start, PrepareFile, CreateIndex,
         WriteIndex, PickFile, Finish, RunPusher, Deliver, Refuse, PusherEnds, PusherTrouble,
         Lose, Rewind, PusherFails, PusherKilled, NothingInvalid, FindLastInvalid, Truncate, WriteBack, Mark, Killed, Restart, pusher,
         crashes
    <2> QED
      BY <2>1 DEF DecidedInv
  <1>2. \A p \in Parts : \A lines \in Seq(Token) : CutDecided(p, lines) => CutDecided(p, lines)'
    BY CutStays
  <1>3. \A p \in Parts : Left(p) \in Seq(Token)
    BY <1>0 DEF Left, TypeOK
  \* What a step leaves as it is.
  <1>a. ASSUME index' = "written" => index = "written", \A p \in Parts : Left(p)' = Left(p)
        PROVE  LeftDecided'
    BY <1>a, <1>1, <1>2, <1>3 DEF LeftDecided
  <1>b. ASSUME pc' \in Working \union {"pick", "done"},
               pc \in Working \union {"pick", "done"}, Unfinished' = Unfinished
        PROVE  PartsDecided'
    <2>1. \A p \in Parts : TokensOf(p) \subseteq Token
      BY RowFacts
    <2> QED
      BY <1>b, <1>1, <2>1, AnsweredStays DEF PartsDecided
  <1>4. CASE Start \/ PrepareFile \/ CreateIndex
    <2>1. \/ pc' \in {"prepare", "write_index", "json_error"}
          \/ pc' = "pick" /\ todo' = Parts
      BY <1>4 DEF Start, PrepareFile, CreateIndex, Files
    <2>2. /\ index' = "written" => pc = "start" /\ UNCHANGED <<file, index>>
      BY <1>0, <1>4 DEF Start, PrepareFile, CreateIndex, PlaceInv, disk
    <2>3. LeftDecided'
      BY <1>a, <2>1, <2>2 DEF Left, LeftDecided
    <2> QED
      BY <2>1, <2>3 DEF TrimDecided, EndReached, PartsDecided, Working, Unfinished
  <1>5. CASE WriteIndex
    <2>1. pc' = "pick" /\ todo' = Parts /\ index = "empty" /\ file' = file
      BY <1>0, <1>5 DEF WriteIndex, Files, PlaceInv
    <2>2. \A p \in Parts : Left(p)' = Rows[p]
      BY <1>0, <2>1 DEF Left, FileInv
    <2>3. LeftDecided'
      BY <2>2, RowFacts DEF LeftDecided, CutDecided
    <2> QED
      BY <2>1, <2>3 DEF TrimDecided, EndReached, PartsDecided, Working, Unfinished
  <1>6. CASE PickFile \/ Finish
    <2>1. /\ pc = "pick" /\ pc' \in {"push", "done"} /\ UNCHANGED <<index, file>>
          /\ Unfinished' = Unfinished
      BY <1>6 DEF PickFile, Finish, disk, Unfinished, Working
    <2>2. LeftDecided' /\ PartsDecided'
      BY <1>a, <1>b, <2>1 DEF Left, Working
    <2> QED
      BY <2>1, <2>2 DEF TrimDecided, EndReached
  <1>7. CASE RunPusher
    <2>1. /\ pc = "push" /\ pc' = "pusher" /\ next' = 1 /\ UNCHANGED <<index, file, part, todo>>
      BY <1>7 DEF RunPusher, disk
    <2>2. LeftDecided' /\ PartsDecided'
      BY <1>a, <1>b, <2>1 DEF Left, Working, Unfinished
    <2> QED
      BY <2>1, <2>2 DEF TrimDecided, EndReached
  <1>8. CASE Deliver \/ Refuse \/ Lose \/ Rewind
    <2>1. pc = "pusher" /\ pc' = "pusher" /\ UNCHANGED <<index, file, part, todo>>
      BY <1>8 DEF Deliver, Refuse, Lose, Rewind, Trouble, disk
    <2>2. LeftDecided' /\ PartsDecided'
      BY <1>a, <1>b, <2>1 DEF Left, Working, Unfinished
    <2> QED
      BY <2>1, <2>2 DEF TrimDecided, EndReached
  <1>9. CASE PusherEnds \/ PusherFails \/ PusherKilled
    <2>1. /\ pc = "pusher" /\ pc' = "parse" /\ next' = next /\ Lines' = Lines
          /\ UNCHANGED <<index, file, part, todo>>
          /\ bad' = <<>> => next > Len(Lines)
      BY <1>9 DEF PusherEnds, PusherFails, PusherKilled, Trouble, database, disk, pusher, Lines
    <2>2. EndReached'
      BY <2>1 DEF EndReached
    <2>3. LeftDecided' /\ PartsDecided'
      BY <1>a, <1>b, <2>1 DEF Left, Working, Unfinished
    <2> QED
      BY <2>1, <2>2, <2>3 DEF TrimDecided
  <1>10. CASE NothingInvalid
    <2>1. /\ pc = "parse" /\ pc' = "pick" /\ UNCHANGED <<index, file, part, todo>>
          /\ Unfinished = todo \union {part} /\ Unfinished' = todo
      BY <1>10 DEF NothingInvalid, disk, Unfinished, Working
    <2>2. \A x \in TokensOf(part) : Answered(x)
      BY <1>1, <1>10, DecidedEnd
    <2>3. \A p \in Parts \ todo : \A x \in TokensOf(p) : Answered(x)
      BY <1>1, <2>1, <2>2 DEF PartsDecided, Working
    <2>4. PartsDecided'
      BY <2>1, <2>3, RowFacts, AnsweredStays DEF PartsDecided
    <2>5. LeftDecided'
      BY <1>a, <2>1 DEF Left
    <2> QED
      BY <2>1, <2>4, <2>5 DEF TrimDecided, EndReached
  <1>11. CASE FindLastInvalid
    <2>1. /\ pc = "parse" /\ pc' \in {"truncate", "value_error"}
          /\ UNCHANGED <<index, file, part, todo>> /\ part \in Parts
      BY <1>0, <1>11 DEF FindLastInvalid, disk, PlaceInv, Working
    <2>2. TrimDecided'
      <3>1. SUFFICES ASSUME pc' = "truncate" PROVE CutDecided(part, content)'
        BY DEF TrimDecided
      <3>2. PICK lines \in Seq(Token) : lines = content'
        BY <1>0 DEF TypeOK
      <3>3. CutDecided(part, lines)
        BY <1>1, <1>11, <3>1, <3>2, DecidedTrim
      <3>4. CutDecided(part, lines)'
        BY <1>2, <2>1, <3>3
      <3> QED
        BY <2>1, <3>2, <3>4 DEF CutDecided
    <2>3. LeftDecided'
      BY <1>a, <2>1 DEF Left
    <2>4. PartsDecided'
      BY <1>b, <2>1 DEF Unfinished, Working, PartsDecided
    <2> QED
      BY <2>1, <2>2, <2>3, <2>4 DEF EndReached
  <1>12. CASE Truncate
    <2>1. /\ pc = "truncate" /\ pc' = "write_back" /\ part \in Parts
          /\ UNCHANGED <<index, part, todo, content>> /\ file' = [file EXCEPT ![part] = <<>>]
      BY <1>0, <1>12 DEF Truncate, PlaceInv, Working
    <2>2. content \in Seq(Token) /\ CutDecided(part, content)
      BY <1>0, <1>1, <2>1 DEF TypeOK, TrimDecided
    <2>3. \A p \in Parts : Left(p)' = IF p = part THEN content ELSE Left(p)
      BY <1>0, <2>1 DEF Left, TypeOK
    <2>4. LeftDecided'
      BY <1>1, <1>2, <1>3, <2>1, <2>2, <2>3 DEF LeftDecided
    <2>5. PartsDecided'
      BY <1>b, <2>1 DEF Unfinished, Working
    <2> QED
      BY <2>1, <2>4, <2>5 DEF TrimDecided, EndReached
  <1>13. CASE WriteBack
    <2>1. /\ pc = "write_back" /\ pc' = "mark" /\ part \in Parts
          /\ UNCHANGED <<index, part, todo>> /\ file' = [file EXCEPT ![part] = content]
      BY <1>0, <1>13 DEF WriteBack, PlaceInv, Working
    <2>2. \A p \in Parts : Left(p)' = Left(p)
      BY <1>0, <2>1 DEF Left, TypeOK
    <2>3. LeftDecided' /\ PartsDecided'
      BY <1>a, <1>b, <2>1, <2>2 DEF Unfinished, Working
    <2> QED
      BY <2>1, <2>3 DEF TrimDecided, EndReached
  <1>14. CASE Mark
    <2>1. /\ pc = "mark" /\ pc' \in {"mark", "push"} /\ UNCHANGED <<index, file, part, todo>>
      BY <1>14 DEF Mark, disk
    <2>2. LeftDecided' /\ PartsDecided'
      BY <1>a, <1>b, <2>1 DEF Left, Working, Unfinished
    <2> QED
      BY <2>1, <2>2 DEF TrimDecided, EndReached
  <1>15. CASE Killed
    <2>1. /\ pc' = "killed" /\ UNCHANGED <<index, file, part, content>>
          /\ pc = "write_back" => content = <<>>
      BY <1>15 DEF Killed, disk
    <2>2. ASSUME index = "written", NEW p \in Parts PROVE CutDecided(p, file[p])
      <3>1. CutDecided(p, Left(p)) /\ file[p] \in Seq(Token)
        BY <1>0, <1>1, <2>2 DEF LeftDecided, TypeOK
      <3>2. CASE Left(p) = file[p]
        BY <3>1, <3>2
      <3>3. CASE Left(p) = <<>>
        <4>1. Len(<<>>) = 0 /\ Len(file[p]) \in Nat /\ Len(Rows[p]) \in Nat
          BY <3>1, RowFacts
        <4>2. \A m \in 1 .. Len(Rows[p]) - Len(file[p]) : m \in 1 .. Len(Rows[p]) - Len(<<>>)
          BY <4>1
        <4> QED
          BY <3>1, <3>3, <4>2 DEF CutDecided
      <3> QED
        BY <2>1, <3>2, <3>3 DEF Left
    <2>3. \A p \in Parts : file[p] \in Seq(Token) /\ Left(p)' = file[p]
      BY <1>0, <2>1 DEF TypeOK, Left
    <2>4. LeftDecided'
      BY <1>2, <2>1, <2>2, <2>3 DEF LeftDecided
    <2> QED
      BY <2>1, <2>4 DEF TrimDecided, EndReached, PartsDecided, Working
  <1>16. CASE Restart
    <2>1. pc # "write_back" /\ pc' = "start" /\ UNCHANGED <<index, file>>
      BY <1>16 DEF Restart, Stopped, disk
    <2>2. LeftDecided'
      BY <1>a, <2>1 DEF Left
    <2> QED
      BY <2>1, <2>2 DEF TrimDecided, EndReached, PartsDecided, Working
  <1>17. CASE UNCHANGED vars
    BY <1>1, <1>17 DEF vars, database, disk, pusher, crashes, LeftDecided, Left, CutDecided,
       TrimDecided, EndReached, PartsDecided, Unfinished, Answered, Decided, Lines
  <1> QED
    BY <1>4, <1>5, <1>6, <1>7, <1>8, <1>9, <1>10, <1>11, <1>12, <1>13, <1>14, <1>15, <1>16, <1>17
       DEF Next, Driver, Terminated, PusherTrouble

\* Whatever has gone wrong before, what apn-pusher has passed is decided or lost with
\* a connection, and so is what remove_file_lines leaves out.
THEOREM PassedInvariant == Spec => []PassedInv
  <1>1. Spec => [](ShapeInv /\ PassedInv)
    <2>1. ShapeInv /\ [Next]_vars => ShapeInv'
      BY TypeStep, PlaceStep, MarkStep, FileStep, ScanStep DEF ShapeInv
    <2> QED
      BY <2>1, ShapeInit, DecidedInit, PassedStep, PTL DEF Spec
  <1> QED
    BY <1>1, PTL

\* A campaign prepared again writes no line less than there was.
LEMMA PreparedAgain ==
    ASSUME ShapeInv, PrepareFile, NEW p \in Parts
    PROVE  Range(file[p]) \subseteq Range(file'[p])
  <1>1. /\ part \in 0 .. Len(Rows) /\ part < Len(Rows) /\ marked = {}
        /\ file' = [file EXCEPT ![part + 1] = Unmarked(Rows[part + 1])]
        /\ file \in [Parts -> Seq(Token)]
    BY DEF PrepareFile, ShapeInv, TypeOK, PlaceInv, MarkInv
  <1>2. part + 1 \in Parts
    BY <1>1, RowFacts
  <1>3. Unmarked(Rows[part + 1]) = Rows[part + 1]
    BY <1>1 DEF Unmarked
  <1>4. CASE p = part + 1
    <2>1. file'[p] = Rows[p]
      BY <1>1, <1>2, <1>3, <1>4
    <2>2. \A k \in 1 .. Len(file[p]) : file[p][k] \in TokensOf(p)
      <3>1. file[p] \in Seq(Token) /\ EndOf(p, file[p])
        BY <1>1 DEF ShapeInv, FileInv
      <3> QED
        BY <3>1, EndFacts
    <2>3. \A k \in DOMAIN file[p] : file[p][k] \in TokensOf(p)
      <3>1. DOMAIN file[p] = 1 .. Len(file[p])
        BY <1>1
      <3> QED
        BY <2>2, <3>1
    <2> QED
      BY <2>1, <2>3 DEF Range, TokensOf
  <1>5. CASE p # part + 1
    <2>1. file'[p] = file[p]
      BY <1>1, <1>5
    <2> QED
      BY <2>1
  <1> QED
    BY <1>4, <1>5

\* Whatever goes wrong, a token leaves its file undecided only when apn_send has lost
\* it with a connection or the driver is killed while it rewrites the file.
THEOREM OnlyAnsweredLeaveHolds == Spec => OnlyAnsweredLeave
  <1> DEFINE Torn == pc = "write_back" /\ pc' = "killed"
  <1>1. ASSUME ShapeInv, PassedInv, [Next]_vars, NEW p \in Parts,
               NEW x \in Range(Left(p)) \ Range(Left(p)')
        PROVE  Answered(x) \/ Torn
    <2>0. TypeOK /\ PlaceInv
      BY <1>1 DEF ShapeInv
    <2>1. CASE PrepareFile
      <3>1. Left(p) = file[p] /\ Left(p)' = file'[p]
        BY <2>1 DEF PrepareFile, Left
      <3> QED
        BY <1>1, <2>1, <3>1, PreparedAgain
    <2>2. CASE Truncate
      <3>1. /\ pc = "truncate" /\ pc' = "write_back" /\ part' = part /\ content' = content
            /\ file' = [file EXCEPT ![part] = <<>>] /\ part \in Parts
        BY <2>0, <2>2 DEF Truncate, PlaceInv, Working
      <3>2. CASE p = part
        <4>1. Left(p) = Lines /\ Left(p)' = content
          BY <3>1, <3>2 DEF Left, Lines
        <4> QED
          BY <1>1, <3>1, <4>1 DEF PassedInv, CutOff
      <3>3. CASE p # part
        <4>1. Left(p) = file[p] /\ Left(p)' = file[p]
          BY <2>0, <3>1, <3>3 DEF Left, TypeOK
        <4> QED
          BY <1>1, <4>1
      <3> QED
        BY <3>2, <3>3
    <2>3. CASE WriteBack
      <3>1. Left(p)' = Left(p)
        BY <2>0, <2>3 DEF WriteBack, PlaceInv, Working, TypeOK, Left
      <3> QED
        BY <1>1, <3>1
    <2>4. CASE Killed
      <3>1. pc' = "killed" /\ file' = file
        BY <2>4 DEF Killed, disk
      <3>2. CASE pc # "write_back"
        BY <1>1, <3>1, <3>2 DEF Left
      <3> QED
        BY <3>1, <3>2
    <2>5. CASE UNCHANGED vars
      <3>1. Left(p)' = Left(p)
        BY <2>5 DEF vars, disk, Left
      <3> QED
        BY <1>1, <3>1
    <2>6. CASE \/ Start \/ CreateIndex \/ WriteIndex \/ PickFile \/ Finish \/ RunPusher
               \/ Deliver \/ Refuse \/ PusherEnds \/ PusherTrouble \/ NothingInvalid
               \/ FindLastInvalid \/ Mark \/ Restart
      <3>1. pc # "write_back" /\ pc' # "write_back" /\ file' = file
        BY <2>6 DEF Start, CreateIndex, WriteIndex, PickFile, Finish, RunPusher, Deliver, Refuse,
           PusherEnds, PusherTrouble, Lose, Rewind, PusherFails, PusherKilled, Trouble,
           NothingInvalid, FindLastInvalid, Mark, Restart, disk, Stopped
      <3> QED
        BY <1>1, <3>1 DEF Left
    <2> QED
      BY <1>1, <2>1, <2>2, <2>3, <2>4, <2>5, <2>6 DEF Next, Driver, Terminated
  <1>2. ShapeInv /\ PassedInv /\ [Next]_vars
            => [\A p \in Parts : \A x \in Range(Left(p)) \ Range(Left(p)') :
                    Answered(x) \/ (pc = "write_back" /\ pc' = "killed")]_vars
    BY <1>1
  <1> QED
    BY <1>2, ShapeInvariant, PassedInvariant, PTL DEF Spec, OnlyAnsweredLeave

\* What the driver has cut off or passed is decided or lost, unless a kill has torn a
\* file or apn-pusher has failed without naming a token.
THEOREM DecidedInvariant == Spec => []DecidedInv
  <1>1. Spec => [](ShapeInv /\ DecidedInv)
    BY DecidedInit, DecidedStep, ShapeInvariant, PassedInvariant, PTL DEF Spec
  <1> QED
    BY <1>1, PTL

\* When the driver says it is done, every token of every table has been delivered
\* or refused, or lost by apn_send with a connection that broke, however often the
\* driver was killed and started again and apn-pusher went back in between.
THEOREM NobodyForgottenHolds == Spec => []NobodyForgotten
  <1>1. ShapeInv /\ DecidedInv => NobodyForgotten
    <2> SUFFICES ASSUME ShapeInv, DecidedInv, pc = "done", ~torn, ~abandoned, NEW x \in Token
                 PROVE  Answered(x)
      BY DEF NobodyForgotten, Answered, Decided
    <2>1. PICK p \in Parts : x \in TokensOf(p)
      BY DEF Token
    <2>2. Unfinished = {}
      BY DEF ShapeInv, PlaceInv, Unfinished, Working
    <2> QED
      BY <2>1, <2>2 DEF DecidedInv, PartsDecided
  <1> QED
    BY <1>1, ShapeInvariant, DecidedInvariant, PTL
=============================================================================
