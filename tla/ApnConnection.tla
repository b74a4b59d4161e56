---------------------------- MODULE ApnConnection ----------------------------
(***************************************************************************)
(* The life of an apn_ctx_t: the setters, apn_connect, apn_feedback_connect,*)
(* apn_close, apn_send, apn_feedback and apn_free, called in any order by  *)
(* one thread.  The stream of frames inside apn_send is ApnSend's; here a  *)
(* call of it is what it does to the connection, reconnections included.   *)
(***************************************************************************)
EXTENDS Naturals

CONSTANTS
    Certs,      \* certificates the caller has
    CertModes,  \* CertModes[c]: the modes c was created for; {} when it is
                \* expired or was created for another purpose
    NoCert

Modes == {"production", "sandbox"}

ASSUME CertsAssumption == NoCert \notin Certs /\ CertModes \in [Certs -> SUBSET Modes]

VARIABLES
    pc,         \* "idle" between calls, "sending" and "reconnecting" in apn_send,
                \* "freed" after apn_free, "crashed" after a failed assertion
    mode, options, feedback,
    pem,        \* certificate_file and whether private_key_file is set
    pkcs12,     \* pkcs12_file
    conn,       \* sock, as the server it is connected to; ssl; the certificate in it
    sockets,    \* history: sockets opened and not closed
    objects,    \* history: SSL objects allocated and not freed
    soiled,     \* history: since the socket was opened an apn_connect has failed,
                \* or the mode has changed, or it is a feedback connection
    last        \* history: the last call that returned, its result and errno

settings == <<mode, options, feedback, pem, pkcs12>>
link     == <<conn, sockets, objects, soiled>>
vars     == <<pc, settings, link, last>>

Services == {"push", "feedback"}
Servers  == [service : Services, mode : Modes]
NoServer == [service |-> "none", mode |-> "none"]
NoConn   == [sock |-> NoServer, ssl |-> "null", cert |-> NoCert]

Calls  == {"init", "set", "connect", "feedback_connect", "close", "send", "feedback"}
Errors == {"none", "NOT_CONNECTED", "CERTIFICATE_IS_NOT_SET", "PRIVATE_KEY_IS_NOT_SET",
           "UNABLE_TO_ESTABLISH_CONNECTION", "SSL", "OTHER"}

TypeOK ==
    /\ pc \in {"idle", "sending", "reconnecting", "freed", "crashed"}
    /\ mode \in Modes
    /\ options \in SUBSET {"RECONNECT"}
    /\ feedback \in {0, 1}
    /\ pem \in [cert : Certs \union {NoCert}, key : BOOLEAN]
    /\ pkcs12 \in Certs \union {NoCert}
    /\ conn \in [sock : Servers \union {NoServer}, ssl : {"null", "new", "up"},
                 cert : Certs \union {NoCert}]
    /\ sockets \in 0 .. 1 /\ objects \in 0 .. 1
    /\ soiled \in BOOLEAN
    /\ last \in [call : Calls, ret : {"SUCCESS", "ERROR"}, errno : Errors]

\* apn_init does not assign options.
Init ==
    /\ pc = "idle"
    /\ mode = "production" /\ feedback = 0
    /\ options \in SUBSET {"RECONNECT"}
    /\ pem = [cert |-> NoCert, key |-> FALSE] /\ pkcs12 = NoCert
    /\ conn = NoConn /\ sockets = 0 /\ objects = 0 /\ soiled = FALSE
    /\ last = [call |-> "init", ret |-> "SUCCESS", errno |-> "none"]

Succeeds(call) == last' = [call |-> call, ret |-> "SUCCESS", errno |-> "none"]
Fails(call, errno) == last' = [call |-> call, ret |-> "ERROR", errno |-> errno]

IsOpen == conn.sock # NoServer

-----------------------------------------------------------------------------
(* The setters *)

\* An empty or absent name clears all three; a key counts only with a certificate.
SetCertificate(cert, key) ==
    /\ pc = "idle"
    /\ pem' = [cert |-> cert, key |-> cert # NoCert /\ key]
    /\ Succeeds("set")
    /\ UNCHANGED <<pc, mode, options, feedback, pkcs12, link>>

\* The passphrase is asserted to be there.
SetPkcs12File(cert, pass) ==
    /\ pc = "idle"
    /\ pkcs12' = cert
    /\ \/ (cert = NoCert \/ pass) /\ pc' = "idle" /\ Succeeds("set")
       \/ cert # NoCert /\ ~pass /\ pc' = "crashed" /\ last' = last
    /\ UNCHANGED <<mode, options, feedback, pem, link>>

SetMode(m) ==
    /\ pc = "idle"
    /\ mode' = m
    /\ soiled' = (soiled \/ (IsOpen /\ m # mode))
    /\ Succeeds("set")
    /\ UNCHANGED <<pc, options, feedback, pem, pkcs12, conn, sockets, objects>>

SetBehavior(opts) ==
    /\ pc = "idle"
    /\ options' = opts
    /\ Succeeds("set")
    /\ UNCHANGED <<pc, mode, feedback, pem, pkcs12, link>>

-----------------------------------------------------------------------------
(* __apn_connect and apn_ssl_connect *)

\* The entry of __apn_apple_servers apn_connect and apn_feedback_connect choose.
Server(service) == [service |-> service, mode |-> mode]

\* The certificate presented: the PKCS12 file's wins.
Credential == IF pkcs12 # NoCert THEN pkcs12 ELSE pem.cert

\* Mutant: the certificate is not compared with the mode.
CertAnyMode(cert) == CertModes[cert] # {}

\* Neither expired nor created for the other mode.
CertValid(cert) == mode \in CertModes[cert]

\* Mutant: a socket without SSL does not count.
NoSsl == conn.ssl = "null"

\* __apn_connect opens a socket when there is none.
NeedsSocket == ~IsOpen

\* The errors found before any socket is opened.
NotConfigured(call) ==
    /\ pkcs12 = NoCert
    /\ \/ pem.cert = NoCert /\ Fails(call, "CERTIFICATE_IS_NOT_SET")
       \/ pem.cert # NoCert /\ ~pem.key /\ Fails(call, "PRIVATE_KEY_IS_NOT_SET")
    /\ UNCHANGED link

Configured == pkcs12 # NoCert \/ (pem.cert # NoCert /\ pem.key)

\* Whatever the socket is connected to, and whether or not its SSL is usable.
AlreadyOpen(call) ==
    /\ Configured /\ ~NeedsSocket
    /\ Succeeds(call)
    /\ UNCHANGED link

\* Mutant: the socket that could not be connected stays in the context.
KeepSocket(server) == [NoConn EXCEPT !.sock = server]

\* No address can be connected: apn_close.
AfterRefusal(server) == NoConn

\* The name is not resolved, no address answers, or socket() fails and leaves
\* the system's own errno.
Unreachable(call, server) ==
    /\ Configured /\ NeedsSocket
    /\ Fails(call, "UNABLE_TO_ESTABLISH_CONNECTION") \/ Fails(call, "OTHER")
    /\ conn' = AfterRefusal(server)
    /\ sockets' = IF conn' = NoConn THEN sockets ELSE sockets + 1
    /\ UNCHANGED <<objects, soiled>>

\* An unusable file, a key that does not match, an expired certificate or one
\* for the other mode: the socket stays open without SSL.
CertRefused(call, server) ==
    /\ Configured /\ NeedsSocket
    /\ Fails(call, "SSL")
    /\ conn' = [NoConn EXCEPT !.sock = server]
    /\ sockets' = sockets + 1
    /\ soiled' = TRUE
    /\ UNCHANGED objects

\* SSL_connect fails, be it that the socket, which does not block, has to wait
\* for the gateway: the SSL object stays.
HandshakeFails(call, server) ==
    /\ Configured /\ NeedsSocket /\ CertValid(Credential)
    /\ Fails(call, "SSL")
    /\ conn' = [sock |-> server, ssl |-> "new", cert |-> Credential]
    /\ sockets' = sockets + 1 /\ objects' = objects + 1
    /\ soiled' = TRUE

Established(call, server) ==
    /\ Configured /\ NeedsSocket /\ CertValid(Credential)
    /\ Succeeds(call)
    /\ conn' = [sock |-> server, ssl |-> "up", cert |-> Credential]
    /\ sockets' = sockets + 1 /\ objects' = objects + 1
    /\ soiled' = (server.service = "feedback")

Open(call, server) ==
    \/ NotConfigured(call) \/ AlreadyOpen(call)
    \/ Unreachable(call, server) \/ CertRefused(call, server)
    \/ HandshakeFails(call, server) \/ Established(call, server)

-----------------------------------------------------------------------------
(* Opening and closing *)

Connect ==
    /\ pc = "idle"
    /\ Open("connect", Server("push"))
    /\ UNCHANGED <<pc, settings>>

FeedbackConnect ==
    /\ pc = "idle"
    /\ feedback' = 1
    /\ Open("feedback_connect", Server("feedback"))
    /\ UNCHANGED <<pc, mode, options, pem, pkcs12>>

\* Mutant: the SSL object is freed and stays in the context.
DanglingSsl(c) == [NoConn EXCEPT !.ssl = c.ssl]

\* The context after apn_close.
Closed(c) == NoConn

\* apn_close with apn_ssl_close.
DoClose ==
    /\ conn' = IF IsOpen THEN Closed(conn) ELSE conn
    /\ sockets' = IF IsOpen THEN sockets - 1 ELSE sockets
    /\ objects' = IF IsOpen /\ conn.ssl # "null" THEN objects - 1 ELSE objects
    /\ soiled' = (soiled /\ ~IsOpen)

Close ==
    /\ pc = "idle"
    /\ DoClose
    /\ Succeeds("close")
    /\ UNCHANGED <<pc, settings>>

Free ==
    /\ pc = "idle"
    /\ DoClose
    /\ pc' = "freed"
    /\ UNCHANGED <<settings, last>>

-----------------------------------------------------------------------------
(* Using the connection *)

\* Mutant: only the SSL object is looked at.
SslPresent == conn.ssl # "null"

\* __APN_CHECK_CONNECTION, which apn_feedback repeats.
CheckConnection == conn.ssl # "null" /\ feedback = 0

Send ==
    /\ pc = "idle"
    /\ \/ ~CheckConnection /\ pc' = "idle" /\ Fails("send", "NOT_CONNECTED")
       \/ CheckConnection /\ pc' = "sending" /\ last' = last
    /\ UNCHANGED <<settings, link>>

\* SSL_read and SSL_write finish a handshake that apn_connect has left.
FinishHandshake ==
    /\ pc = "sending" /\ conn.ssl = "new"
    /\ conn' = [conn EXCEPT !.ssl = "up"]
    /\ UNCHANGED <<pc, settings, sockets, objects, soiled, last>>

\* The attempt has failed with an error worth a new connection.
SendCloses ==
    /\ pc = "sending" /\ "RECONNECT" \in options
    /\ DoClose
    /\ pc' = "reconnecting"
    /\ UNCHANGED <<settings, last>>

SendReconnects ==
    /\ pc = "reconnecting"
    /\ Open("send", Server("push"))
    /\ pc' = IF last'.ret = "SUCCESS" THEN "sending" ELSE "idle"
    /\ UNCHANGED settings

SendReturns ==
    /\ pc = "sending"
    /\ pc' = "idle"
    /\ \/ conn.ssl = "up" /\ Succeeds("send")
       \/ Fails("send", "OTHER")
    /\ UNCHANGED <<settings, link>>

\* One read, which finishes a handshake if there is one to finish.
Feedback ==
    /\ pc = "idle"
    /\ \/ ~CheckConnection /\ Fails("feedback", "NOT_CONNECTED") /\ conn' = conn
       \/ /\ CheckConnection
          /\ conn' \in {conn, [conn EXCEPT !.ssl = "up"]}
          /\ Succeeds("feedback") \/ Fails("feedback", "OTHER")
    /\ UNCHANGED <<pc, settings, sockets, objects, soiled>>

-----------------------------------------------------------------------------
Terminated == pc \in {"freed", "crashed"} /\ UNCHANGED vars

Next ==
    \/ \E cert \in Certs \union {NoCert}, given \in BOOLEAN :
           SetCertificate(cert, given) \/ SetPkcs12File(cert, given)
    \/ \E m \in Modes : SetMode(m)
    \/ \E opts \in SUBSET {"RECONNECT"} : SetBehavior(opts)
    \/ Connect \/ FeedbackConnect \/ Close \/ Free
    \/ Send \/ FinishHandshake \/ SendCloses \/ SendReconnects \/ SendReturns
    \/ Feedback
    \/ Terminated

Spec == Init /\ [][Next]_vars

-----------------------------------------------------------------------------
(* Properties *)

\* Notifications never go to the feedback service, although apn_connect takes
\* any open socket for its own: the feedback flag, which only apn_init clears,
\* outlives every feedback connection (apn.c:283-288, 397, 574).
NeverSendsToFeedback == pc = "sending" => conn.sock.service = "push"

\* One socket and one SSL object at most, and none that the context has lost or
\* frees twice, whichever step of a connection attempt fails and however calls
\* and reconnections are mixed (apn.c:158-168, 627-645; apn_ssl.c:385-400).
NothingLeaks ==
    /\ sockets = IF IsOpen THEN 1 ELSE 0
    /\ objects = IF conn.ssl # "null" THEN 1 ELSE 0
    /\ conn.ssl # "null" => IsOpen

\* The certificate in use was created for the environment of the server at the
\* other end, though mode and files may be set at any time (apn_ssl.c:238-267).
CertificateFitsServer == conn.ssl # "null" => conn.sock.mode \in CertModes[conn.cert]

\* When nothing has happened to the connection since it was opened, success of
\* apn_connect, and every frame apn_send writes, are about a usable connection
\* to the push server of the context's mode (apn.c:273-281, 574, 645).
ConnectedAsAsked ==
    \/ pc = "idle" /\ last.call = "connect" /\ last.ret = "SUCCESS"
    \/ pc = "sending"
    => soiled \/ (conn.sock = Server("push") /\ conn.ssl = "up")

\* What the other properties rest on: a feedback connection is soiled and has
\* raised the flag; an open socket nothing has happened to is as apn_connect
\* left it; apn_send holds on to an SSL object, or to nothing at all.
SessionInv ==
    /\ pc \in {"sending", "reconnecting"} => feedback = 0
    /\ conn.sock.service = "feedback" => feedback = 1 /\ soiled
    /\ IsOpen /\ ~soiled => conn.sock = Server("push") /\ conn.ssl = "up"
    /\ ~IsOpen => conn = NoConn
    /\ pc = "sending" => conn.ssl # "null"
    /\ pc = "reconnecting" => ~IsOpen
=============================================================================
