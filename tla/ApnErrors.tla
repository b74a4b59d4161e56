------------------------------ MODULE ApnErrors ------------------------------
(***************************************************************************)
(* The error values apn_send works with: the status byte of the gateway's  *)
(* error packet, the library's errno values (named, not numbered) and the  *)
(* functions that turn one into another or choose what to do about one.    *)
(***************************************************************************)
EXTENDS Naturals

\* Status codes of the error packet; 0 stands for "no packet".
ProcessingError    == 1
InvalidTokenSize   == 5
InvalidPayloadSize == 7
InvalidToken       == 8
ServiceShutdown    == 10
AppleCodes == 1 .. 8 \union {ServiceShutdown}

\* Values apn_send can find in errno, or convert a status code to.
LibErrors ==
    {"CONNECTION_CLOSED", "NETWORK_TIMEDOUT", "NETWORK_UNREACHABLE",
     "TOKEN_INVALID", "SSL_WRITE_FAILED", "SSL_READ_FAILED",
     "INVALID_PAYLOAD_SIZE", "PROCESSING_ERROR", "SERVICE_SHUTDOWN",
     "UNKNOWN", "UNABLE_TO_ESTABLISH_CONNECTION", "CERTIFICATE_UNUSABLE",
     "UNABLE_TO_ESTABLISH_SSL_CONNECTION", "SYSTEM"}

\* Mutant: the token-size status is not treated as an invalid token, and a
\* shutdown is taken for one.
ConvertShutdownToInvalid(code) ==
    IF code \in {InvalidToken, ServiceShutdown} THEN "TOKEN_INVALID" ELSE "UNKNOWN"

ConvertAppleError(code) ==
    CASE code = ProcessingError                    -> "PROCESSING_ERROR"
      [] code = InvalidPayloadSize                 -> "INVALID_PAYLOAD_SIZE"
      [] code = ServiceShutdown                    -> "SERVICE_SHUTDOWN"
      [] code \in {InvalidToken, InvalidTokenSize} -> "TOKEN_INVALID"
      [] OTHER                                     -> "UNKNOWN"

\* What happened to the TCP connection, as the next system call on it sees it:
\* closed by the peer with close_notify, reset, reset after a close ("pipe"),
\* timed out.  "closed": the client itself has closed it.  "bare" and "halfway":
\* the client has a new socket, but no SSL object for it, or one whose handshake
\* has failed.
LinkStates == {"up", "fin", "reset", "pipe", "timedout", "closed", "bare", "halfway"}

\* What a failed apn_connect may leave of the connection it was to open: nothing
\* when no address answers, the socket when the certificate or its key is not
\* accepted, socket and SSL object when the handshake fails.
Leftovers == {"closed", "bare", "halfway"}

\* errno after it.  CERTIFICATE_UNUSABLE stands for the four values of a
\* certificate, key or PKCS12 file that cannot be used or does not fit the mode;
\* "SYSTEM" for what a call of the system or of OpenSSL has left there.
ConnectErrnos(left) ==
    CASE left = "closed"  -> {"UNABLE_TO_ESTABLISH_CONNECTION", "SYSTEM"}
      [] left = "bare"    -> {"CERTIFICATE_UNUSABLE", "UNABLE_TO_ESTABLISH_SSL_CONNECTION", "SYSTEM"}
      [] left = "halfway" -> {"UNABLE_TO_ESTABLISH_SSL_CONNECTION", "SYSTEM"}

\* errno after apn_ssl_read on a connection in state link.
ReadErrno(link) ==
    CASE link \in {"fin", "pipe"} -> "CONNECTION_CLOSED"
      [] link = "timedout"        -> "NETWORK_TIMEDOUT"
      [] OTHER                    -> "SSL_READ_FAILED"

\* errno after apn_ssl_write on a broken connection (SIGPIPE ignored).
WriteErrno(link) ==
    CASE link = "pipe"     -> "NETWORK_UNREACHABLE"
      [] link = "timedout" -> "NETWORK_TIMEDOUT"
      [] OTHER             -> "SSL_WRITE_FAILED"

\* Mutant: a connection closed by the peer is not worth a new one.
ReconnectableUnlessClosed(errcode) ==
    errcode \in {"SERVICE_SHUTDOWN", "NETWORK_TIMEDOUT", "NETWORK_UNREACHABLE",
                 "TOKEN_INVALID"}

\* The errors after which apn_send opens a new connection and goes on.
Reconnectable(errcode) ==
    errcode \in {"CONNECTION_CLOSED", "SERVICE_SHUTDOWN", "NETWORK_TIMEDOUT",
                 "NETWORK_UNREACHABLE", "TOKEN_INVALID"}
=============================================================================
