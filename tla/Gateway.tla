------------------------------- MODULE Gateway -------------------------------
(***************************************************************************)
(* The other end of the push connection, external to the library: the TCP  *)
(* stream of notification frames, the gateway that accepts or refuses them *)
(* in order, its one error packet and the end of the connection.  It is    *)
(* modelled from what apn.c relies on: frames are handled in the order     *)
(* they were written; the first frame refused is answered with one packet  *)
(* carrying a status code and the frame's id; nothing written after it is  *)
(* processed; then the connection is closed.                               *)
(***************************************************************************)
EXTENDS ApnErrors, Sequences

CONSTANTS
    N,          \* number of tokens in the call
    Kinds,      \* kinds of tokens the caller may pass
    Codes,      \* status codes, other than 8, the gateway may answer out of turn
    Faults,     \* faults of the environment that may happen
    MaxFaults   \* bound on the number of faults in one call

FaultKinds == {"fin", "reset", "pipe", "timedout", "select", "connect"}

ASSUME NAssumption      == N \in Nat \ {0}
ASSUME KindsAssumption  == Kinds \subseteq {"good", "unknown", "malformed"}
ASSUME CodesAssumption  == Codes \subseteq AppleCodes \ {InvalidToken}
ASSUME FaultsAssumption == Faults \subseteq FaultKinds /\ MaxFaults \in Nat

Index == 0 .. N - 1

\* What the token field of a frame holds before any token was stored in it.
NoDevice == N

VARIABLES
    kind,       \* kind[x]: registered, unknown to the gateway, or not hexadecimal
    link,       \* state of the connection
    wire,       \* frames written and not yet handled, oldest first
    gw,         \* "open", or "rejecting" once a frame has been refused
    reply,      \* the error packet waiting in the client's receive buffer
    delivered,  \* history: how often device x got the notification (2: twice or more)
    bounced,    \* history: the ids the gateway has named in a packet that calls
                \* the token invalid, with code 8 or code 5
    faults      \* history: number of faults so far

gatewayVars == <<kind, link, wire, gw, reply, delivered, bounced, faults>>

Frame   == [id : Index, dev : Index \union {NoDevice}]
NoReply == [code |-> 0, id |-> 0]

GatewayTypeOK ==
    /\ kind \in [Index -> {"good", "unknown", "malformed"}]
    /\ link \in LinkStates
    /\ wire \in Seq(Frame)
    /\ gw \in {"open", "rejecting"}
    /\ reply \in [code : AppleCodes \union {0}, id : Index]
    /\ delivered \in [Index -> 0 .. 2]
    /\ bounced \in SUBSET Index
    /\ faults \in Nat

GatewayInit ==
    /\ kind \in [Index -> Kinds]
    /\ link = "up" /\ wire = <<>> /\ gw = "open" /\ reply = NoReply
    /\ delivered = [x \in Index |-> 0] /\ bounced = {} /\ faults = 0

Handling == link = "up" /\ gw = "open" /\ wire # <<>>

Bump(d, x) == IF x \in Index /\ d[x] < 2 THEN [d EXCEPT ![x] = d[x] + 1] ELSE d

\* A frame for a registered device.  A frame whose token bytes were never
\* written may happen to name some device, or none.
GwAccept ==
    /\ Handling
    /\ \/ Head(wire).dev = NoDevice
       \/ Head(wire).dev # NoDevice /\ kind[Head(wire).dev] = "good"
    /\ wire' = Tail(wire)
    /\ delivered' = Bump(delivered, Head(wire).dev)
    /\ UNCHANGED <<kind, link, gw, reply, bounced, faults>>

\* A frame for an unknown device.
GwReject ==
    /\ Handling
    /\ \/ Head(wire).dev = NoDevice
       \/ Head(wire).dev # NoDevice /\ kind[Head(wire).dev] # "good"
    /\ wire' = Tail(wire)
    /\ gw' = "rejecting"
    /\ reply' = [code |-> InvalidToken, id |-> Head(wire).id]
    /\ bounced' = bounced \union {Head(wire).id}
    /\ UNCHANGED <<kind, link, delivered, faults>>

\* What is written after a refused frame is thrown away.
GwDiscard ==
    /\ link = "up" /\ gw = "rejecting" /\ wire # <<>>
    /\ wire' = Tail(wire)
    /\ UNCHANGED <<kind, link, gw, reply, delivered, bounced, faults>>

GwHangUp ==
    /\ link = "up" /\ gw = "rejecting"
    /\ link' = "fin"
    /\ UNCHANGED <<kind, wire, gw, reply, delivered, bounced, faults>>

\* The gateway refuses the oldest frame, or shuts down, with another code.
GwRefuse(code) ==
    /\ faults < MaxFaults
    /\ Handling
    /\ wire' = Tail(wire)
    /\ gw' = "rejecting"
    /\ reply' = [code |-> code, id |-> Head(wire).id]
    /\ bounced' = IF code = InvalidTokenSize THEN bounced \union {Head(wire).id} ELSE bounced
    /\ faults' = faults + 1
    /\ UNCHANGED <<kind, link, delivered>>

\* The connection breaks; what is in flight is lost.
LinkBreaks(how) ==
    /\ faults < MaxFaults
    /\ how \in Faults \cap {"fin", "reset", "pipe", "timedout"}
    /\ link = "up" \/ (link = "fin" /\ how = "pipe")
    /\ link' = how
    /\ faults' = faults + 1
    /\ UNCHANGED <<kind, wire, gw, reply, delivered, bounced>>

GatewayStep == GwAccept \/ GwReject \/ GwDiscard \/ GwHangUp

FaultStep ==
    \/ \E code \in Codes : GwRefuse(code)
    \/ \E how \in Faults : LinkBreaks(how)
=============================================================================
