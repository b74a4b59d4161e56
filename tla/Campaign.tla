------------------------------ MODULE Campaign ------------------------------
(***************************************************************************)
(* pypusher: one campaign over the token table.  The tokens are written to *)
(* part files, an index file is written last, and for every part           *)
(* apn-pusher is run on its file again and again: as long as it names      *)
(* invalid tokens, the lines up to the last of them are removed and the    *)
(* tokens are marked in the table.  The driver may be killed anywhere and  *)
(* started again.  A run of apn-pusher is what ApnSend makes of it, over   *)
(* connections that may break: it loses lines, goes back to the first one, *)
(* misses a verdict, fails, or is killed by a signal.  Left out: a false   *)
(* report after status 5, a token that is not hexadecimal, and a run that  *)
(* never ends (ApnSendTokenSize, IndicesInRange and EndsUnlessReset).      *)
(***************************************************************************)
EXTENDS Integers, Sequences, FiniteSetsExt, SequencesExt

CONSTANTS
    Rows,           \* Rows[p]: the tokens of the p-th table, one part file each
    Buffer,         \* lines the iterator over a file reads ahead
    MaxRestarts,    \* bound: how often the driver is started again
    MaxFailures     \* bound: how often a connection or a run of apn-pusher fails

Parts == DOMAIN Rows
TokensOf(p) == Range(Rows[p])
Token == UNION {TokensOf(p) : p \in Parts}

ASSUME RowsAssumption ==
    /\ Rows \in Seq(Seq(Nat))
    /\ \A p \in Parts : IsInjective(Rows[p])
    /\ \A p, q \in Parts : p # q => TokensOf(p) \cap TokensOf(q) = {}
ASSUME BoundsAssumption == Buffer \in Nat \ {0} /\ {MaxRestarts, MaxFailures} \subseteq Nat

VARIABLES
    kind,       \* kind[x]: "good", or "unknown" to the gateway
    marked,     \* tokens with is_invalid = 1
    file,       \* file[p]: the lines of the p-th part file
    index,      \* the index file: "absent", "empty" or "written"
    pc,         \* where the driver is
    part,       \* part file at work
    todo,       \* part files not yet begun
    bad,        \* invalid_tokens
    content,    \* what remove_file_lines has read and not yet written back
    next,       \* line of its file apn-pusher is at
    delivered,  \* history: how often the device got the notification
    refused,    \* history: tokens the gateway has refused
    unheard,    \* history: refused ones whose last verdict has not reached the driver
    lost,       \* history: tokens on a connection that broke, and passed over
    restarts, failures,  \* history: numbers of both
    torn,       \* history: the driver was killed between truncating a file and writing it
    abandoned   \* history: apn-pusher gave up before its last line, naming no token

database == <<kind, marked>>
disk     == <<file, index>>
pusher   == <<next, delivered, refused, unheard, lost, failures, abandoned>>
crashes  == <<restarts, torn>>
vars     == <<database, disk, pc, part, todo, bad, content, pusher, crashes>>

\* Where the count of notifications stops: one more than ResentTailOnly allows.
Cap == 2 * (MaxRestarts + 1) + MaxFailures + 1

Stopped == {"done", "killed", "value_error", "json_error"}

TypeOK ==
    /\ kind \in [Token -> {"good", "unknown"}]
    /\ {marked, refused, unheard, lost} \subseteq SUBSET Token
    /\ file \in [Parts -> Seq(Token)]
    /\ index \in {"absent", "empty", "written"}
    /\ pc \in Stopped \union {"start", "prepare", "write_index", "pick", "push", "pusher",
                              "parse", "truncate", "write_back", "mark"}
    /\ part \in 0 .. Len(Rows) /\ todo \in SUBSET Parts
    /\ bad \in Seq(Token) /\ content \in Seq(Token)
    /\ next \in Nat \ {0}
    /\ delivered \in [Token -> 0 .. Cap]
    /\ restarts \in 0 .. MaxRestarts /\ failures \in 0 .. MaxFailures
    /\ torn \in BOOLEAN /\ abandoned \in BOOLEAN

\* No campaign of this name has been started, and no token is known invalid.
Init ==
    /\ kind \in [Token -> {"good", "unknown"}] /\ marked = {}
    /\ file = [p \in Parts |-> <<>>] /\ index = "absent"
    /\ pc = "start" /\ part = 0 /\ todo = {} /\ bad = <<>> /\ content = <<>> /\ next = 1
    /\ delivered = [x \in Token |-> 0] /\ refused = {} /\ unheard = {} /\ lost = {}
    /\ restarts = 0 /\ failures = 0 /\ torn = FALSE /\ abandoned = FALSE

-----------------------------------------------------------------------------
(* The part files and the index *)

\* Mutant: one file too many.
FilesOffByOne == 0 .. Len(Rows)

\* The part files the index names.
Files == Parts

\* The index file decides between a new campaign and the rest of an old one.
Start ==
    /\ pc = "start"
    /\ \/ index = "absent"  /\ pc' = "prepare" /\ todo' = {}
       \/ index = "empty"   /\ pc' = "json_error" /\ todo' = {}
       \/ index = "written" /\ pc' = "pick" /\ todo' = Files
    /\ part' = 0
    /\ UNCHANGED <<database, disk, bad, content, pusher, crashes>>

\* The rows that are not marked, in their order; all of them when none is.
Unmarked(rows) ==
    IF Range(rows) \cap marked = {} THEN rows
    ELSE SelectSeq(rows, LAMBDA x : x \notin marked)

PrepareFile ==
    /\ pc = "prepare" /\ part < Len(Rows)
    /\ part' = part + 1
    /\ file' = [file EXCEPT ![part'] = Unmarked(Rows[part'])]
    /\ UNCHANGED <<database, index, pc, todo, bad, content, pusher, crashes>>

CreateIndex ==
    /\ pc = "prepare" /\ part = Len(Rows)
    /\ index' = "empty" /\ pc' = "write_index"
    /\ UNCHANGED <<database, file, part, todo, bad, content, pusher, crashes>>

WriteIndex ==
    /\ pc = "write_index"
    /\ index' = "written" /\ pc' = "pick" /\ todo' = Files
    /\ UNCHANGED <<database, file, part, bad, content, pusher, crashes>>

\* files.items() has no order.
PickFile ==
    /\ pc = "pick"
    /\ \E p \in todo : part' = p /\ todo' = todo \ {p} /\ pc' = "push"
    /\ UNCHANGED <<database, disk, bad, content, pusher, crashes>>

Finish ==
    /\ pc = "pick" /\ todo = {}
    /\ pc' = "done"
    /\ UNCHANGED <<database, disk, part, todo, bad, content, pusher, crashes>>

-----------------------------------------------------------------------------
(* apn-pusher: an empty file leaves it nothing to do *)

RunPusher ==
    /\ pc = "push"
    /\ pc' = "pusher" /\ next' = 1 /\ bad' = <<>>
    /\ UNCHANGED <<database, disk, part, todo, content, delivered, refused, unheard, lost,
                   failures, abandoned, crashes>>

Lines == file[part]

\* The gateway accepts the line at hand, ...
Deliver ==
    /\ pc = "pusher" /\ next <= Len(Lines) /\ kind[Lines[next]] = "good"
    /\ delivered' = [delivered EXCEPT ![Lines[next]] = IF @ < Cap THEN @ + 1 ELSE @]
    /\ next' = next + 1
    /\ UNCHANGED <<database, disk, pc, part, todo, bad, content, refused, unheard, lost,
                   failures, abandoned, crashes>>

\* ... or refuses it, and apn_send reads the verdict and goes on behind it.
Refuse ==
    /\ pc = "pusher" /\ next <= Len(Lines) /\ kind[Lines[next]] = "unknown"
    /\ refused' = refused \union {Lines[next]}
    /\ unheard' = unheard \ {Lines[next]}
    /\ bad' = Append(bad, Lines[next])
    /\ next' = next + 1
    /\ UNCHANGED <<database, disk, pc, part, todo, content, delivered, lost, failures,
                   abandoned, crashes>>

PusherEnds ==
    /\ pc = "pusher" /\ next > Len(Lines)
    /\ pc' = "parse"
    /\ UNCHANGED <<database, disk, part, todo, bad, content, pusher, crashes>>

Trouble ==
    /\ pc = "pusher" /\ next <= Len(Lines) /\ failures < MaxFailures
    /\ failures' = failures + 1

\* The gateway may have refused the line at hand; then nothing behind it counts,
\* and its packet is not read any more.
MaybeRefused ==
    \/ UNCHANGED <<refused, unheard>>
    \/ /\ kind[Lines[next]] = "unknown"
       /\ refused' = refused \union {Lines[next]}
       /\ unheard' = unheard \union {Lines[next]}

\* The connection is closed, or the packet comes after the last select(), with
\* some lines written and not handled: apn_send goes on behind them.
Lose ==
    /\ Trouble /\ MaybeRefused
    /\ \E last \in next .. Len(Lines) :
           lost' = lost \union {Lines[k] : k \in next .. last} /\ next' = last + 1
    /\ UNCHANGED <<database, disk, pc, part, todo, bad, content, delivered, abandoned, crashes>>

\* A write fails, or the gateway answers with another status: apn_send goes back
\* to the first token of its list, and may name tokens again.
Rewind ==
    /\ Trouble /\ MaybeRefused
    /\ next' = 1
    /\ UNCHANGED <<database, disk, pc, part, todo, bad, content, delivered, lost, abandoned,
                   crashes>>

\* No connection, at first or again; the invalid tokens met so far are printed
\* all the same, and the exit status is 1.
PusherFails ==
    /\ Trouble
    /\ abandoned' = (abandoned \/ bad = <<>>)
    /\ pc' = "parse"
    /\ UNCHANGED <<database, disk, part, todo, bad, content, next, delivered, refused, unheard,
                   lost, crashes>>

\* A write on a connection that was reset kills the process, and nothing is printed.
PusherKilled ==
    /\ Trouble
    /\ unheard' = unheard \union Range(bad)
    /\ bad' = <<>>
    /\ abandoned' = TRUE
    /\ pc' = "parse"
    /\ UNCHANGED <<database, disk, part, todo, content, next, delivered, refused, lost, crashes>>

-----------------------------------------------------------------------------
(* apn_push after apn-pusher, and apn_main *)

\* The line that holds x, the last one when none does.
LineOf(lines, x) == Min({k \in 1 .. Len(lines) : lines[k] = x} \union {Len(lines)})

\* Mutants: the line found stays in the file, the lines before it do, or the
\* line after it goes as well.
RestFrom(lines, x) == SubSeq(lines, LineOf(lines, x), Len(lines))
RestWithout(lines, x) == SelectSeq(lines, LAMBDA y : y # x)
RestSkip(lines, x) == SubSeq(lines, LineOf(lines, x) + 2, Len(lines))

\* What is left behind it.
Rest(lines, x) == SubSeq(lines, LineOf(lines, x) + 1, Len(lines))

\* The iterator has lines in its buffer behind the one that holds x, so that
\* read() refuses to work (Python 2).  In CPython a buffer of 8192 bytes never ends
\* with a line of 65: only the last line goes, as if the buffer held every file.
ReadAhead(lines, x) ==
    \E k \in 1 .. Len(lines) : lines[k] = x /\ k < Len(lines) /\ k % Buffer # 0

\* The exit status is not looked at: no invalid token means the part is done.
NothingInvalid ==
    /\ pc = "parse" /\ bad = <<>>
    /\ pc' = "pick"
    /\ UNCHANGED <<database, disk, part, todo, bad, content, pusher, crashes>>

FindLastInvalid ==
    /\ pc = "parse" /\ bad # <<>>
    /\ \/ ReadAhead(Lines, Last(bad)) /\ pc' = "value_error" /\ content' = content
       \/ /\ ~ReadAhead(Lines, Last(bad))
          /\ content' = Rest(Lines, Last(bad))
          /\ pc' = "truncate"
    /\ UNCHANGED <<database, disk, part, todo, bad, pusher, crashes>>

Truncate ==
    /\ pc = "truncate"
    /\ file' = [file EXCEPT ![part] = <<>>]
    /\ pc' = "write_back"
    /\ UNCHANGED <<database, index, part, todo, bad, content, pusher, crashes>>

WriteBack ==
    /\ pc = "write_back"
    /\ file' = [file EXCEPT ![part] = content]
    /\ pc' = "mark"
    /\ UNCHANGED <<database, index, part, todo, bad, content, pusher, crashes>>

\* Mutant: only the last of the invalid tokens is marked.
MarkLast ==
    /\ pc = "mark"
    /\ marked' = marked \union {Last(bad)}
    /\ bad' = <<>>
    /\ pc' = "push"
    /\ UNCHANGED <<kind, disk, part, todo, content, pusher, crashes>>

\* set_invalid_tokens, one row after the other; then apn_main sleeps and goes round.
Mark ==
    /\ pc = "mark"
    /\ marked' = marked \union {Head(bad)}
    /\ bad' = Tail(bad)
    /\ pc' = IF bad' = <<>> THEN "push" ELSE "mark"
    /\ UNCHANGED <<kind, disk, part, todo, content, pusher, crashes>>

-----------------------------------------------------------------------------
\* The driver and the apn-pusher it has started are killed.
Killed ==
    /\ pc \notin Stopped /\ restarts < MaxRestarts
    /\ torn' = (torn \/ (pc = "write_back" /\ content # <<>>))
    /\ pc' = "killed"
    /\ UNCHANGED <<database, disk, part, todo, bad, content, pusher, restarts>>

\* The operator runs the same command again: only disk and table are left.
Restart ==
    /\ pc \in Stopped \ {"done"} /\ restarts < MaxRestarts
    /\ restarts' = restarts + 1
    /\ pc' = "start" /\ part' = 0 /\ todo' = {} /\ bad' = <<>> /\ content' = <<>> /\ next' = 1
    /\ UNCHANGED <<database, disk, delivered, refused, unheard, lost, failures, abandoned, torn>>

Driver ==
    \/ Start \/ PrepareFile \/ CreateIndex \/ WriteIndex \/ PickFile \/ Finish
    \/ RunPusher \/ Deliver \/ Refuse \/ PusherEnds
    \/ NothingInvalid \/ FindLastInvalid \/ Truncate \/ WriteBack \/ Mark

Terminated == pc \in Stopped /\ UNCHANGED vars

PusherTrouble == Lose \/ Rewind \/ PusherFails \/ PusherKilled

Next == Driver \/ PusherTrouble \/ Killed \/ Restart \/ Terminated

Spec     == Init /\ [][Next]_vars
FairSpec == Spec /\ WF_vars(Driver)

-----------------------------------------------------------------------------
(* Properties *)

Before(x) == UNION {{Rows[p][j] : j \in {j \in 1 .. Len(Rows[p]) :
                        \E k \in 1 .. Len(Rows[p]) : j < k /\ Rows[p][k] = x}} : p \in Parts}

Decided(x) == IF kind[x] = "good" THEN delivered[x] > 0 ELSE x \in refused

\* Without a verdict, but passed to apn_send, which has gone on behind it.
Answered(x) == Decided(x) \/ x \in lost

\* What is left of the p-th part file, for the time being in memory.
Left(p) == IF pc = "write_back" /\ p = part THEN content ELSE file[p]

\* When the campaign says it is done every token has been delivered or refused,
\* or was in flight on a connection that broke, wherever the driver was killed and
\* started again and wherever apn-pusher went back, unless a kill has torn a file
\* or apn-pusher has given up and named no token (pusher.py:36-50, file.py:15-28,
\* token.py:29-43, apn.c:747-768).
NobodyForgotten ==
    pc = "done" /\ ~torn /\ ~abandoned => \A x \in Token : Answered(x)

\* Wherever connections break, apn-pusher fails or is killed and files were torn
\* before: a token that has been neither delivered nor refused leaves its part
\* file, or the memory that holds the file while it is rewritten, only when
\* apn_send has lost it or the driver is killed in between (pusher.py:36-38,
\* file.py:15-28, token.py:29-43).
OnlyAnsweredLeave ==
    [][\A p \in Parts : \A x \in Range(Left(p)) \ Range(Left(p)') :
           Answered(x) \/ (pc = "write_back" /\ pc' = "killed")]_vars

\* Only refused tokens are marked, though a run may name a token twice or an
\* earlier one after a later one; and a campaign that was never interrupted leaves
\* every refused token marked, but those whose last verdict apn-pusher did not
\* read or did not live to print (pusher.py:36-46, token.py:47-54, pusher.c:337-346).
MarkedAreRefused ==
    /\ marked \subseteq refused
    /\ pc = "done" /\ restarts = 0 => refused \ unheard \subseteq marked

\* A device is notified twice at most each time the driver is started, and only
\* once unless a token before it in its file was refused: apn-pusher has gone on
\* behind the refused token, and the next round sends the tail again.  Each
\* failure of a connection or a run adds one notification at most: a list sent
\* again from its start, or a refused token that was missed and found a round
\* later (pusher.py:36-50, apn.c:359-370).
ResentTailOnly ==
    \A x \in Token :
        /\ delivered[x] <= 2 * (restarts + 1) + failures
        /\ delivered[x] > restarts + 1 + failures => Before(x) \cap refused # {}

\* The loop of apn_main ends, given that each run of apn-pusher does: every round
\* that asks for another one makes the file shorter, also after a run that has
\* gone back to its first line or missed a verdict (pusher.py:42-50).
Ends == <>[](pc \in Stopped)

\* file.py:14-19: remove_file_lines removes the lines of the file up to and
\* including the first one that holds linestr; it does not fail.
FrontLinesRemoved == pc # "value_error"
=============================================================================
