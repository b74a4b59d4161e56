------------------------------ MODULE MCApnSend ------------------------------
(***************************************************************************)
(* Instances of ApnSend for TLC.                                           *)
(***************************************************************************)
EXTENDS ApnSendProps

\* Tokens a database of once valid tokens holds.
Valid == {"good", "unknown"}
\* The same, and lines that are not a token.
Any == {"good", "unknown", "malformed"}

NoCodes == {}
Shutdown == {ServiceShutdown}
TokenSize == {InvalidTokenSize}
SomeCodes == {ProcessingError, InvalidPayloadSize, ServiceShutdown}

NoFaults == {}
ConnectFault == {"connect"}
CloseFaults == {"fin", "connect"}
RetriedFaults == {"fin", "pipe", "timedout", "connect"}
AllFaults == FaultKinds
=============================================================================
