------------------------------- MODULE ApnSend -------------------------------
(***************************************************************************)
(* apn_send: one call that sends one notification to the tokens 0 .. N-1   *)
(* over an established connection, with the streaming loop of              *)
(* __apn_send_binary_message and the reconnection of apn_close and         *)
(* apn_connect.  select(), SSL_read() and SSL_write() are separate steps,  *)
(* so that the gateway and the network act between them.                   *)
(***************************************************************************)
EXTENDS Gateway

CONSTANTS
    WireCap,    \* frames the TCP buffers hold before the socket is not writable
    Reconnect,  \* APN_OPTION_RECONNECT is set in the context
    Collect,    \* the caller passes a pointer for the invalid tokens
    Prompt      \* the gateway's verdicts arrive before the last select() gives up

ASSUME WireCapAssumption == WireCap \in Nat \ {0}
ASSUME FlagsAssumption   == {Reconnect, Collect, Prompt} \subseteq BOOLEAN

VARIABLES
    pc,             \* where the call is
    start_index,    \* apn_send: first token of the attempt
    auto_reconnect, \* apn_send: the next attempt opens a new connection
    invalid_index,  \* invalid_token_index, reset by every attempt
    code,           \* apple_error_code, reset by every attempt
    i,              \* __apn_send_binary_message: token being sent
    device,         \* token bytes in the message that all attempts share
    errno,
    ret,
    reported,       \* _invalid_tokens: the indices of its items
    sigpipe,        \* disposition of SIGPIPE: "ign" or "dfl"
    rewound         \* history: an attempt has started before the token being sent,
                    \* though no packet had named that place

callVars == <<start_index, auto_reconnect, invalid_index, code, i, device,
              errno, ret, reported, sigpipe, rewound>>
vars == <<gatewayVars, pc, callVars>>

TypeOK ==
    /\ GatewayTypeOK
    /\ pc \in {"top", "connect", "loop", "read", "write", "failed", "done", "killed"}
    /\ start_index \in 0 .. N
    /\ auto_reconnect \in {0, 1}
    /\ invalid_index \in 0 .. N
    /\ code \in AppleCodes \union {0}
    /\ i \in 0 .. N
    /\ device \in Index \union {NoDevice}
    /\ errno \in LibErrors \union {"none"}
    /\ ret \in {"SUCCESS", "ERROR"}
    /\ reported \in Seq(Index)
    /\ sigpipe \in {"ign", "dfl"}
    /\ rewound \in BOOLEAN

Init ==
    /\ GatewayInit
    /\ pc = "top" /\ start_index = 0 /\ auto_reconnect = 0
    /\ invalid_index = 0 /\ code = 0 /\ i = 0 /\ device = NoDevice
    /\ errno = "none" /\ ret = "SUCCESS" /\ reported = <<>>
    /\ sigpipe \in {"ign", "dfl"}
    /\ rewound = FALSE

-----------------------------------------------------------------------------
(* Helpers of the two functions *)

Readable == reply # NoReply \/ link # "up"
Writable == Len(wire) < WireCap \/ link # "up"

\* Mutant: the message keeps its first token.
SetTokenOnce(x, old) == IF old # NoDevice THEN old ELSE x

\* The token bytes after apn_binary_message_set_token_hex: a token that is not
\* hexadecimal leaves them alone, and the result is not looked at.
SetToken(x, old) == IF kind[x] = "malformed" THEN old ELSE x

\* Mutant: the id of the packet is dropped.
ParsedIndexMissed(packet, old) == old

\* The index that an error packet leaves in the caller's variable: the id of a
\* packet with another code is not looked at.
ParsedIndex(packet, old) == IF packet.code = InvalidToken THEN packet.id ELSE old

\* Mutants: a failed read restarts the list, or takes the token at hand for sent.
ReadFailRestart(current) == 0
ReadFailSkip(current) == current + 1

\* The index to go on from when the connection could not be read.
ReadFailIndex(current) == current

\* The index to go on from when the connection could not be written, or
\* select() failed: invalid_token_index is never assigned.
WriteFailIndex(old) == old

\* Mutants: the refused token is sent again, its successor is skipped, every
\* failed attempt is taken for a refused token.
NextStartSame(errcode, index) == index
NextStartSkip(errcode, index) == IF errcode = "TOKEN_INVALID" THEN index + 2 ELSE index
NextStartBehind(errcode, index) == index + 1

\* First token of the next attempt.
NextStart(errcode, index) == IF errcode = "TOKEN_INVALID" THEN index + 1 ELSE index

Errcode == IF code > 0 THEN ConvertAppleError(code) ELSE errno

-----------------------------------------------------------------------------
(* apn_send: the head of an attempt *)

StartAttempt ==
    /\ pc = "top" /\ auto_reconnect = 0
    /\ pc' = "loop"
    /\ invalid_index' = 0 /\ code' = 0 /\ i' = start_index
    /\ UNCHANGED <<gatewayVars, start_index, auto_reconnect, device, errno, ret,
                   reported, sigpipe, rewound>>

\* Mutant: the next attempt connects without closing first.
LinkKept == link

\* What apn_close leaves of the connection.
LinkClosed == "closed"

\* apn_close: the connection and all that was in flight on it are gone, and
\* SIGPIPE has its default disposition.
Close ==
    /\ pc = "top" /\ auto_reconnect = 1
    /\ pc' = "connect"
    /\ link' = LinkClosed /\ wire' = <<>> /\ gw' = "open" /\ reply' = NoReply
    /\ sigpipe' = "dfl"
    /\ UNCHANGED <<kind, delivered, bounced, faults, start_index, auto_reconnect,
                   invalid_index, code, i, device, errno, ret, reported, rewound>>

\* apn_connect, after the sleep.
ReconnectOk ==
    /\ pc = "connect"
    /\ pc' = "loop"
    /\ link' = "up"
    /\ invalid_index' = 0 /\ code' = 0 /\ i' = start_index
    /\ UNCHANGED <<kind, wire, gw, reply, delivered, bounced, faults, start_index,
                   auto_reconnect, device, errno, ret, reported, sigpipe, rewound>>

\* No address answers, the certificate is no longer accepted (its files have
\* changed, or it has expired since), or the handshake fails: the call returns
\* with what apn_connect has left.
ReconnectFails ==
    /\ pc = "connect"
    /\ "connect" \in Faults /\ faults < MaxFaults
    /\ faults' = faults + 1
    /\ link' \in Leftovers
    /\ errno' \in ConnectErrnos(link')
    /\ pc' = "done" /\ ret' = "ERROR"
    /\ UNCHANGED <<kind, wire, gw, reply, delivered, bounced, start_index,
                   auto_reconnect, invalid_index, code, i, device, reported,
                   sigpipe, rewound>>

-----------------------------------------------------------------------------
(* __apn_send_binary_message *)

\* The message is prepared and select() waits until the socket is readable or
\* writable; a packet or a closed connection is looked at before writing.
Select ==
    /\ pc = "loop" /\ i < N
    /\ device' = SetToken(i, device)
    /\ \/ Readable /\ pc' = "read"
       \/ ~Readable /\ Writable /\ pc' = "write"
    /\ UNCHANGED <<gatewayVars, start_index, auto_reconnect, invalid_index, code, i,
                   errno, ret, reported, sigpipe, rewound>>

\* The last select(): the whole list is written, the gateway has one second.
\* With Prompt the second is longer than the gateway takes to give its verdict.
FinalSelect ==
    /\ pc = "loop" /\ i = N
    /\ \/ Readable /\ pc' = "read" /\ ret' = ret
       \/ /\ ~Readable
          /\ Prompt => wire = <<>> /\ gw = "open"
          /\ pc' = "done" /\ ret' = "SUCCESS"
    /\ UNCHANGED <<gatewayVars, start_index, auto_reconnect, invalid_index, code, i,
                   device, errno, reported, sigpipe, rewound>>

SelectFails ==
    /\ pc = "loop"
    /\ "select" \in Faults /\ faults < MaxFaults
    /\ faults' = faults + 1
    /\ errno' = "SYSTEM" /\ pc' = "failed"
    /\ device' = IF i < N THEN SetToken(i, device) ELSE device
    /\ invalid_index' = WriteFailIndex(invalid_index)
    /\ UNCHANGED <<kind, link, wire, gw, reply, delivered, bounced, start_index,
                   auto_reconnect, code, i, ret, reported, sigpipe, rewound>>

\* apn_ssl_read and, when it returns a packet, __apn_parse_apns_error.
Read ==
    /\ pc = "read"
    /\ pc' = "failed"
    /\ \/ /\ reply # NoReply
          /\ code' = reply.code
          /\ invalid_index' = ParsedIndex(reply, invalid_index)
          /\ reply' = NoReply
          /\ errno' = errno
       \/ /\ reply = NoReply
          /\ errno' = ReadErrno(link)
          /\ invalid_index' = ReadFailIndex(i)
          /\ UNCHANGED <<code, reply>>
    /\ UNCHANGED <<kind, link, wire, gw, delivered, bounced, faults, start_index,
                   auto_reconnect, i, device, ret, reported, sigpipe, rewound>>

\* apn_ssl_write: a connection the peer has only closed still takes data.
Write ==
    /\ pc = "write" /\ link \in {"up", "fin"}
    /\ wire' = Append(wire, [id |-> i, dev |-> device])
    /\ i' = i + 1
    /\ pc' = "loop"
    /\ UNCHANGED <<kind, link, gw, reply, delivered, bounced, faults, start_index,
                   auto_reconnect, invalid_index, code, device, errno, ret,
                   reported, sigpipe, rewound>>

WriteFails ==
    /\ pc = "write" /\ link \in {"reset", "timedout", "pipe"}
    /\ ~(link = "pipe" /\ sigpipe = "dfl")
    /\ errno' = WriteErrno(link)
    /\ invalid_index' = WriteFailIndex(invalid_index)
    /\ pc' = "failed"
    /\ UNCHANGED <<gatewayVars, start_index, auto_reconnect, code, i, device, ret,
                   reported, sigpipe, rewound>>

\* A write on a connection reset by the peer after it had closed raises SIGPIPE.
Killed ==
    /\ pc = "write" /\ link = "pipe" /\ sigpipe = "dfl"
    /\ pc' = "killed"
    /\ UNCHANGED <<gatewayVars, callVars>>

-----------------------------------------------------------------------------
(* apn_send: what it does after a failed attempt *)

\* Mutant: the end of the list is not looked at.
GoOnUnchecked(start) ==
    /\ auto_reconnect' = IF Reconnect /\ Reconnectable(Errcode) THEN 1 ELSE auto_reconnect
    /\ pc' = "top"
    /\ UNCHANGED <<errno, ret, rewound>>

\* Another attempt, over a new connection when the error is worth one.
GoOn(start) ==
    /\ start < N
    /\ rewound' = (rewound \/ (start < i /\ code # InvalidToken))
    /\ auto_reconnect' = IF Reconnect /\ Reconnectable(Errcode) THEN 1 ELSE auto_reconnect
    /\ pc' = "top"
    /\ UNCHANGED <<errno, ret>>

\* Nothing is left to send.
GiveUp(start) ==
    /\ start >= N
    /\ pc' = "done"
    /\ \/ Errcode = "TOKEN_INVALID" /\ ret' = "SUCCESS" /\ errno' = "none"
       \/ Errcode # "TOKEN_INVALID" /\ ret' = "ERROR" /\ errno' = Errcode
    /\ UNCHANGED <<auto_reconnect, rewound>>

HandleFailure ==
    /\ pc = "failed"
    /\ reported' = IF Errcode = "TOKEN_INVALID" /\ Collect
                   THEN Append(reported, invalid_index) ELSE reported
    /\ start_index' = NextStart(Errcode, invalid_index)
    /\ GoOn(start_index') \/ GiveUp(start_index')
    /\ UNCHANGED <<gatewayVars, invalid_index, code, i, device, sigpipe>>

-----------------------------------------------------------------------------
Client ==
    \/ StartAttempt \/ Close \/ ReconnectOk \/ Select \/ FinalSelect
    \/ Read \/ Write \/ WriteFails \/ Killed \/ HandleFailure

ClientFault == ReconnectFails \/ SelectFails

Finished == pc \in {"done", "killed"}

\* The call has returned, or the process is gone.
Terminated == Finished /\ UNCHANGED vars

\* The gateway may still be busy with the last frames when the call returns.
Environment == (GatewayStep \/ FaultStep) /\ UNCHANGED <<pc, callVars>>

Next == Client \/ ClientFault \/ Environment \/ Terminated

\* The calling thread is scheduled, and the gateway goes on handling frames;
\* no fault has to happen.
Fairness ==
    /\ WF_vars(Client)
    /\ WF_vars(GatewayStep /\ UNCHANGED <<pc, callVars>>)

Spec     == Init /\ [][Next]_vars
FairSpec == Spec /\ Fairness
=============================================================================
