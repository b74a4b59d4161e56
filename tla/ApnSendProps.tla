---------------------------- MODULE ApnSendProps ----------------------------
(***************************************************************************)
(* What is claimed about apn_send (ApnSend), from the per-device promises  *)
(* of one call up to the implementation of Broadcast, and the inductive    *)
(* invariant the proofs rest on.                                           *)
(***************************************************************************)
EXTENDS ApnSend, FiniteSets

Decided(x) == delivered[x] > 0 \/ x \in bounced

Reported == {reported[k] : k \in 1 .. Len(reported)}

\* No device gets the notification twice in one call, however often apn_send
\* goes round its loop and wherever it resumes (apn.c:313-380).
AtMostOnce == \A x \in Index : delivered[x] <= 1

\* apn_send never resumes behind a token that the gateway has neither accepted
\* nor named: start_index is computed from the packet's id, or from the loop
\* index of a connection that may have had refused frames on it (apn.c:359).
NothingSkipped == \A x \in Index : x < start_index => Decided(x)

\* APN_SUCCESS means: every registered device was notified, every other token
\* was refused, and the caller is handed exactly the refused ones, whether the
\* last packet came in the streaming loop, in the final wait, or for the last
\* token of the list (apn.c:331, 372-375, 383-387).
SuccessMeansDecided ==
    pc = "done" /\ ret = "SUCCESS" =>
        /\ \A x \in Index : IF kind[x] = "good" THEN delivered[x] > 0 ELSE x \in bounced
        /\ Collect => Reported = bounced

\* No registered device's token is handed to the caller as invalid, though the
\* index recorded is a leftover of an earlier assignment for every code but 8
\* (apn.c:335-353, 659-663).
NoFalseAccusation == \A x \in Reported : kind[x] # "good"

\* The invalid tokens are handed over in the order of the list and once each;
\* pusher.py:36-38 takes the last one for the furthest.
ReportedInOrder ==
    \A j, k \in 1 .. Len(reported) : j < k => reported[j] < reported[k]

\* Whatever fails, a device is notified twice only if a failed write or select(),
\* or a packet whose id is not looked at, has sent the call back over tokens
\* already written, or a malformed token has left another one in the message
\* (apn.c:327, 359, 719, 735-743): a failed read and a packet with code 8 never do.
DuplicatesExplained ==
    (\E x \in Index : delivered[x] > 1) => rewound \/ \E y \in Index : kind[y] = "malformed"

\* The registered or refused tokens before a place that the gateway has neither
\* accepted nor named.
Missed(upto) == {x \in Index : x < upto /\ kind[x] # "malformed" /\ ~Decided(x)}

\* A broken connection costs no more notifications than the TCP buffers hold, and
\* a packet that comes too late for the last select() no more than that again:
\* nothing apn_send does to find its place, however often it fails and starts
\* again, adds to what was in flight.  It is for calls that reconnect, and for
\* refusals that are followed by a new connection (apn.c:318-380, 659-663, 747).
LossBounded ==
    /\ Cardinality(Missed(start_index)) <= WireCap * faults
    /\ pc = "done" /\ ret = "SUCCESS" => Cardinality(Missed(N)) <= WireCap * (faults + 1)

\* The assertion on apn.c:707 and the array access on apn.c:336.
IndicesInRange ==
    /\ pc = "loop" => start_index < N
    /\ pc = "failed" /\ Errcode = "TOKEN_INVALID" => invalid_index < N

\* With APN_OPTION_RECONNECT the call comes to an end, if the trouble does: when
\* from some point on no connection breaks, no call fails and no packet comes
\* with a code other than 8.  A gateway that answers code 7, 1 or 10 on every
\* connection sends the call back to token 0 for ever (apn.c:327, 359), and so
\* does a connection that breaks each time.  What then still keeps the call going
\* round is a connection reset while it is used, for no reconnection follows
\* SSL_READ_FAILED and SSL_WRITE_FAILED (apn.c:362-380).
EndsUnlessReset ==
    Reconnect /\ <>[][faults' = faults]_vars => <>(Finished \/ link = "reset")

-----------------------------------------------------------------------------
(* Statements of the repository that the code does not keep *)

\* The call returns, or the process is killed.
Termination == <>Finished

\* The invalid tokens handed to the caller are tokens that the gateway has called
\* invalid, whichever of the two codes it has done it with (apn.c:335-353, 659).
OnlyRefusedReported == Reported \subseteq bounced

-----------------------------------------------------------------------------
(* The invariants of the proofs in ApnSendProofs *)

\* What the indices are at each place, for any environment: the attempt's
\* locals are fresh until it fails, and errno alone never says TOKEN_INVALID.
IndexInv ==
    /\ pc \in {"loop", "read", "write"} => invalid_index = 0 /\ code = 0
    /\ pc = "write" => i < N
    /\ pc \in {"top", "connect", "loop", "read", "write", "failed"} => start_index < N
    /\ pc = "failed" /\ code > 0 => invalid_index < N
    /\ errno # "TOKEN_INVALID"

\* Frames written now can still be accepted.
Alive == link = "up" /\ gw = "open"

Undecided(from) == \A x \in Index : x >= from => ~Decided(x)

\* The stream: while the gateway listens, the frames in flight are the last
\* Len(wire) tokens before i, each addressed to its own device, and nothing
\* from the first of them on is decided.
StreamInv ==
    Alive =>
        /\ start_index + Len(wire) <= i
        /\ \A k \in 1 .. Len(wire) :
               wire[k] = [id |-> (i - Len(wire)) + (k - 1), dev |-> (i - Len(wire)) + (k - 1)]
        /\ Undecided(i - Len(wire))
        /\ reply = NoReply
        /\ pc \in {"top", "loop", "write", "done", "killed"}
        /\ pc = "top" => wire = <<>> /\ i = start_index /\ auto_reconnect = 0

\* The resumption: once the gateway has stopped listening, nothing is decided
\* from the place on where the code will resume, be it start_index before an
\* attempt, ...
TopInv ==
    /\ pc \in {"top", "connect"} => Undecided(start_index)
    /\ pc = "connect" => wire = <<>> /\ gw = "open" /\ reply = NoReply /\ link = "closed"
    /\ pc # "connect" /\ link \in Leftovers => pc = "done"
    /\ link \in {"up", "fin"} \union Leftovers

\* ... the loop index of a connection that can only be found closed, ...
AttemptInv ==
    /\ pc = "write" => device = i
    /\ pc \in {"loop", "read", "write"} =>
           start_index <= i /\ (~Alive /\ reply = NoReply => Undecided(i))

\* ... the successor of the token named by a packet not yet read, ...
ReplyInv ==
    reply # NoReply =>
        /\ reply.code = InvalidToken /\ reply.id \in bounced
        /\ start_index <= reply.id
        /\ Undecided(reply.id + 1)
        /\ pc \in {"loop", "read", "write", "done", "killed"}

\* ... or what a failed attempt makes of one of the two.
FailedInv ==
    pc = "failed" =>
        /\ Undecided(NextStart(Errcode, invalid_index))
        /\ start_index <= NextStart(Errcode, invalid_index)
        /\ code \in {0, InvalidToken}
        /\ code > 0 => invalid_index \in bounced /\ start_index <= invalid_index

ResumeInv == TopInv /\ AttemptInv /\ ReplyInv /\ FailedInv

\* The invalid tokens handed over so far were refused, and lie before start_index.
ReportInv ==
    \A k \in 1 .. Len(reported) : reported[k] \in bounced /\ reported[k] < start_index

\* The stream invariant of calls whose only trouble is the gateway closing the
\* connection, whatever Reconnect, Collect and Prompt are.
CloseInv ==
    /\ IndexInv /\ StreamInv /\ ResumeInv /\ ReportInv
    /\ AtMostOnce /\ ReportedInOrder
    /\ \A x \in Index : kind[x] # "malformed"

\* Who is blamed, for any environment that never answers INVALID_TOKEN_SIZE: a
\* frame with the id of a proper token carries that token, so that whatever the
\* gateway names in a packet with code 8 is not a registered device.
BlameInv ==
    /\ \A k \in 1 .. Len(wire) : kind[wire[k].id] # "malformed" => wire[k].dev = wire[k].id
    /\ pc = "write" /\ kind[i] # "malformed" => device = i
    /\ reply.code # InvalidTokenSize
    /\ reply.code = InvalidToken => kind[reply.id] # "good"
    /\ code # InvalidTokenSize
    /\ pc = "failed" /\ code = InvalidToken => kind[invalid_index] # "good"
    /\ \A k \in 1 .. Len(reported) : kind[reported[k]] # "good"

\* The exactness of a calm environment, beside CloseInv: everything before the
\* place a variable stands for is decided, where CloseInv says that nothing
\* behind it is, ...
DecidedBelow(from) == \A x \in Index : x < from => Decided(x)

ProgressInv ==
    /\ NothingSkipped
    /\ Alive => DecidedBelow(i - Len(wire))
    /\ reply # NoReply => DecidedBelow(reply.id)
    /\ pc = "failed" => code = InvalidToken /\ DecidedBelow(invalid_index)
    /\ pc = "done" /\ ret = "SUCCESS" => DecidedBelow(N)

\* ... no connection is used or left with a packet on it that nobody reads, ...
PacketInv ==
    /\ pc \in {"loop", "read", "write"} /\ ~Alive => reply # NoReply
    /\ pc = "read" => reply # NoReply
    /\ pc = "top" /\ ~Alive => auto_reconnect = 1
    /\ pc = "done" => reply = NoReply /\ (Alive => wire = <<>>)

\* ... devices are told apart by what they are, ...
JudgedInv ==
    /\ \A x \in Index : delivered[x] > 0 => kind[x] = "good"
    /\ \A x \in bounced : kind[x] # "good"

\* ... and a refused token is handed over, or on its way to be.
OnTheWay ==
    CASE reply # NoReply -> {reply.id}
      [] pc = "failed"   -> {invalid_index}
      [] OTHER           -> {}

NamedInv == Collect => bounced = Reported \union OnTheWay

ExactInv == ProgressInv /\ PacketInv /\ JudgedInv /\ NamedInv

\* A second notification, for any environment.  As long as no attempt has gone
\* back over tokens already written, and every frame carries its own token, ...
Regular == ~rewound /\ \A x \in Index : kind[x] # "malformed"

\* ... the frames in flight are the tokens just before i, as in StreamInv, ...
InFlight ==
    Alive =>
        /\ Len(wire) <= i
        /\ \A k \in 1 .. Len(wire) :
               wire[k] = [id |-> (i - Len(wire)) + (k - 1), dev |-> (i - Len(wire)) + (k - 1)]
        /\ Undecided(i - Len(wire))
        /\ reply = NoReply /\ pc # "read"
        /\ pc = "top" => wire = <<>> /\ i = start_index

\* ... nothing is decided from the loop index on, whatever broke, ...
AheadInv ==
    /\ pc \in {"loop", "read", "write", "failed"} => Undecided(i)
    /\ pc \in {"top", "connect"} => Undecided(start_index) /\ reply = NoReply
    /\ pc = "connect" => wire = <<>> /\ gw = "open" /\ link = "closed"
    /\ pc = "write" => device = i

\* ... and an attempt that fails on anything but a packet with code 8 or a read
\* resumes at the start of the list, which goes back unless nothing was written.
FailureInv ==
    /\ reply # NoReply => i > 0 /\ (reply.code = InvalidToken => Undecided(reply.id + 1))
    /\ pc = "failed" /\ code > 0 => ~Alive /\ reply = NoReply
    /\ pc = "failed" /\ code = InvalidToken => Undecided(invalid_index + 1)
    /\ pc = "failed" /\ code = 0 => invalid_index = 0 \/ (~Alive /\ reply = NoReply)

OrderlyInv == Regular => AtMostOnce /\ InFlight /\ AheadInv /\ FailureInv

\* What is lost, where every packet that is read is followed by a new connection.
\* A frame carries its own token, unless that is not hexadecimal, and there was
\* room for it, ...
WireInv ==
    /\ \A k \in 1 .. Len(wire) : kind[wire[k].id] # "malformed" => wire[k].dev = wire[k].id
    /\ pc = "write" /\ kind[i] # "malformed" => device = i
    /\ Len(wire) <= WireCap
    /\ pc = "write" => Len(wire) < WireCap

Few(lost) == Cardinality(lost) <= WireCap * faults

\* ... while the gateway listens, the tokens before that of a frame, or before the
\* one to be sent, are decided or in a frame further in front, but for a few, ...
Place(k)   == IF k <= Len(wire) THEN wire[k].id ELSE i
InFront(k) == {wire[j].id : j \in 1 .. k - 1}

ListenInv ==
    Alive =>
        /\ \A k \in 1 .. Len(wire) + 1 : Few(Missed(Place(k)) \ InFront(k))
        /\ reply = NoReply /\ pc # "read"
        /\ pc = "top" => start_index = 0
        /\ pc = "failed" => NextStart(Errcode, invalid_index) = 0

\* ... afterwards a few are missed before the place where the code will resume, ...
LossInv ==
    /\ Few(Missed(start_index))
    /\ ~Alive /\ reply = NoReply =>
           /\ pc \in {"loop", "read"} => Few(Missed(i))
           /\ pc = "write" => Few(Missed(i + 1))
    /\ \/ reply = NoReply
       \/ reply.code = InvalidToken /\ Few(Missed(reply.id + 1))
       \/ reply.code \in Codes /\ faults > 0
    /\ pc = "failed" => Few(Missed(NextStart(Errcode, invalid_index)))
    /\ pc = "done" /\ ret = "SUCCESS" => Cardinality(Missed(N)) <= WireCap * (faults + 1)

\* ... and nothing is written any more once the gateway has been heard to refuse a
\* frame.
DeafInv ==
    /\ pc = "connect" => link = "closed" /\ wire = <<>> /\ gw = "open" /\ reply = NoReply
    /\ link = "up" /\ gw = "rejecting" /\ reply = NoReply =>
        /\ pc \in {"failed", "top", "done"}
        /\ pc = "failed" => Reconnectable(Errcode)
        /\ pc = "top" => auto_reconnect = 1

LostInv == WireInv /\ ListenInv /\ LossInv /\ DeafInv

-----------------------------------------------------------------------------
(* apn_send implements Broadcast *)

answer == IF pc = "done" THEN ret ELSE "none"

Exact == INSTANCE Broadcast WITH Lossy <- FALSE, blamed <- Reported

\* With no fault but a failed reconnection, every token is decided in order and
\* once, and success is only answered when all are.
ImplementsExact == Exact!Spec

AtBest == INSTANCE Broadcast WITH Lossy <- TRUE, blamed <- Reported

\* When the gateway also closes the connection whenever it likes, or answers
\* late, tokens may be lost, but none is notified twice or out of order.
ImplementsAtBest == AtBest!Spec

-----------------------------------------------------------------------------
(* apn_send in the life of the connection *)

\* The call as ApnConnection sees it: entered on a connection nothing has
\* happened to, with the certificate of its mode.
Conn == INSTANCE ApnConnection WITH
    Certs <- {"cert"}, CertModes <- [c \in {"cert"} |-> {"production"}], NoCert <- "NoCert",
    pc       <- CASE pc = "connect" -> "reconnecting"
                  [] pc = "done"    -> "idle"
                  [] OTHER          -> "sending",
    mode     <- "production",
    options  <- IF Reconnect THEN {"RECONNECT"} ELSE {},
    feedback <- 0,
    pem      <- [cert |-> "cert", key |-> TRUE],
    pkcs12   <- "NoCert",
    conn     <- [sock |-> IF link = "closed" THEN [service |-> "none", mode |-> "none"]
                          ELSE [service |-> "push", mode |-> "production"],
                 ssl  |-> CASE link \in {"closed", "bare"} -> "null"
                            [] link = "halfway"            -> "new"
                            [] OTHER                       -> "up",
                 cert |-> IF link \in {"closed", "bare"} THEN "NoCert" ELSE "cert"],
    sockets  <- IF link = "closed" THEN 0 ELSE 1,
    objects  <- IF link \in {"closed", "bare"} THEN 0 ELSE 1,
    soiled   <- link \in {"bare", "halfway"},
    last     <- [call |-> "send",
                 ret   |-> IF pc = "done" THEN ret ELSE "SUCCESS",
                 errno |-> IF pc = "done" /\ ret = "ERROR"
                           THEN CASE errno = "UNABLE_TO_ESTABLISH_CONNECTION" -> errno
                                  [] link \in {"bare", "halfway"}            -> "SSL"
                                  [] OTHER                                   -> "OTHER"
                           ELSE "none"]

\* Whatever fails, all the call does to the connection is what ApnConnection
\* says of apn_send: it closes it, and opens it again, only between attempts
\* and with APN_OPTION_RECONNECT.  It returns with the connection it was given or
\* the last one it has opened, or else with exactly what a failed apn_connect
\* leaves: nothing, a socket without SSL, or a socket and an SSL object without
\* a session (apn.c:315-325, 387; apn_ssl.c:88-304).
KeepsToConnection == [][Conn!Next]_(Conn!vars)
=============================================================================
