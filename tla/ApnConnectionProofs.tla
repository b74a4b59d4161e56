------------------------- MODULE ApnConnectionProofs -------------------------
(***************************************************************************)
(* The safety of the connection of a context, for every set of             *)
(* certificates.  One inductive invariant carries all of it: ConnInv.      *)
(***************************************************************************)
EXTENDS ApnConnection, TLAPS

ConnInv ==
    TypeOK /\ NothingLeaks /\ CertificateFitsServer /\ SessionInv

-----------------------------------------------------------------------------
\* What apn_connect and apn_feedback_connect rely on (apn.c:558-646): whatever
\* the outcome of opening a connection, the type, the accounting, the
\* certificate and the meaning of soiled are kept.
LEMMA OpenKeeps ==
    ASSUME ConnInv, NEW call \in Calls, NEW service \in Services,
           Open(call, Server(service)),
           mode' = mode, pem' = pem, pkcs12' = pkcs12
    PROVE  /\ conn' \in [sock : Servers \union {NoServer}, ssl : {"null", "new", "up"},
                         cert : Certs \union {NoCert}]
           /\ sockets' \in 0 .. 1 /\ objects' \in 0 .. 1 /\ soiled' \in BOOLEAN
           /\ last' \in [call : Calls, ret : {"SUCCESS", "ERROR"}, errno : Errors]
           /\ NothingLeaks' /\ CertificateFitsServer'
           /\ conn'.sock.service = "feedback" =>
                  soiled' /\ (conn.sock.service = "feedback" \/ service = "feedback")
           /\ IsOpen' /\ ~soiled' => conn'.sock = Server("push")' /\ conn'.ssl = "up"
           /\ ~IsOpen' => conn' = NoConn
           /\ last'.ret = "SUCCESS" => IsOpen'
           /\ ~IsOpen /\ last'.ret = "SUCCESS" => conn'.ssl = "up"
<1> USE DEF ConnInv, TypeOK, NothingLeaks, CertificateFitsServer, SessionInv, IsOpen, NeedsSocket,
            NoConn, NoServer, Servers, Services, Server, Modes, Succeeds, Fails,
            Calls, Errors, link
<1>1. CASE NotConfigured(call) \/ AlreadyOpen(call)
  BY <1>1 DEF NotConfigured, AlreadyOpen
<1>2. CASE Unreachable(call, Server(service))
  BY <1>2 DEF Unreachable, AfterRefusal
<1>3. CASE CertRefused(call, Server(service))
  BY <1>3 DEF CertRefused
<1>4. CASE HandshakeFails(call, Server(service))
  BY <1>4, CertsAssumption DEF HandshakeFails, CertValid, Credential
<1>5. CASE Established(call, Server(service))
  <2>1. Credential \in Certs
    BY <1>5, CertsAssumption DEF Established, Configured, Credential
  <2>2. soiled' = (service = "feedback")
    BY <1>5 DEF Established
  <2>3. /\ conn' = [sock |-> [service |-> service, mode |-> mode], ssl |-> "up",
                    cert |-> Credential]
        /\ sockets' = sockets + 1 /\ objects' = objects + 1 /\ ~IsOpen
        /\ mode \in CertModes[Credential]
        /\ last' = [call |-> call, ret |-> "SUCCESS", errno |-> "none"]
    BY <1>5 DEF Established, CertValid
  <2>4. soiled' \in BOOLEAN
    BY <2>2
  <2>5. conn' \in [sock : Servers \union {NoServer}, ssl : {"null", "new", "up"},
                   cert : Certs \union {NoCert}]
    BY <2>1, <2>3
  <2>6. sockets = 0 /\ objects = 0
    BY <2>3
  <2>7. IsOpen' /\ NothingLeaks' /\ CertificateFitsServer'
    BY <2>3, <2>6
  <2>8. IsOpen' /\ ~soiled' => conn'.sock = Server("push")' /\ conn'.ssl = "up"
    <3>1. service \in {"push", "feedback"}
      OBVIOUS
    <3> QED
      BY <2>2, <2>3, <3>1
  <2>9. conn'.sock.service = "feedback" => soiled' /\ service = "feedback"
    BY <2>2, <2>3
  <2>10. last' \in [call : Calls, ret : {"SUCCESS", "ERROR"}, errno : Errors]
    BY <2>3
  <2>11. conn'.ssl = "up" /\ sockets' \in 0 .. 1 /\ objects' \in 0 .. 1
    BY <2>3, <2>6
  <2> QED
    BY <2>4, <2>5, <2>7, <2>8, <2>9, <2>10, <2>11
<1> QED
  BY <1>1, <1>2, <1>3, <1>4, <1>5 DEF Open

-----------------------------------------------------------------------------
LEMMA InitConnInv == Init => ConnInv
<1> SUFFICES ASSUME Init
             PROVE  ConnInv
  OBVIOUS
<1> USE DEF Init, NoConn, NoServer
<1>1. conn \in [sock : Servers \union {NoServer}, ssl : {"null", "new", "up"},
                cert : Certs \union {NoCert}]
  BY DEF Servers
<1>2. pem \in [cert : Certs \union {NoCert}, key : BOOLEAN]
  OBVIOUS
<1>3. /\ last \in [call : Calls, ret : {"SUCCESS", "ERROR"}, errno : Errors]
      /\ pkcs12 \in Certs \union {NoCert} /\ mode \in Modes /\ soiled \in BOOLEAN
  BY DEF Calls, Errors, Modes
<1>4. sockets \in 0 .. 1 /\ objects \in 0 .. 1 /\ feedback \in {0, 1}
  OBVIOUS
<1>5. TypeOK
  BY <1>1, <1>2, <1>3, <1>4 DEF TypeOK
<1>6. NothingLeaks /\ CertificateFitsServer /\ SessionInv
  BY DEF NothingLeaks, CertificateFitsServer, SessionInv, IsOpen
<1> QED
  BY <1>5, <1>6 DEF ConnInv

LEMMA NextConnInv == ConnInv /\ [Next]_vars => ConnInv'
<1> SUFFICES ASSUME ConnInv, [Next]_vars
             PROVE  ConnInv'
  OBVIOUS
<1> USE DEF ConnInv, TypeOK
<1>1. ASSUME NEW cert \in Certs \union {NoCert}, NEW given \in BOOLEAN,
             SetCertificate(cert, given) \/ SetPkcs12File(cert, given)
      PROVE  ConnInv'
  <2>1. UNCHANGED <<mode, options, feedback, link>> /\ pc = "idle" /\ pc' \in {"idle", "crashed"}
    BY <1>1 DEF SetCertificate, SetPkcs12File
  <2>2. pem' \in [cert : Certs \union {NoCert}, key : BOOLEAN] /\ pkcs12' \in Certs \union {NoCert}
    <3>1. CASE SetCertificate(cert, given)
      <4>1. (cert # NoCert /\ given) \in BOOLEAN
        OBVIOUS
      <4> QED
        BY <3>1, <4>1 DEF SetCertificate
    <3>2. CASE SetPkcs12File(cert, given)
      BY <3>2 DEF SetPkcs12File
    <3> QED
      BY <1>1, <3>1, <3>2
  <2>3. last' \in [call : Calls, ret : {"SUCCESS", "ERROR"}, errno : Errors]
    BY <1>1 DEF SetCertificate, SetPkcs12File, Succeeds, Calls, Errors
  <2> QED
    BY <2>1, <2>2, <2>3 DEF link, NothingLeaks, CertificateFitsServer, SessionInv, IsOpen, Server
<1>2. ASSUME NEW m \in Modes, SetMode(m)
      PROVE  ConnInv'
  BY <1>2 DEF SetMode, Succeeds, Calls, Errors,
              NothingLeaks, CertificateFitsServer, SessionInv, IsOpen, Server
<1>3. ASSUME NEW opts \in SUBSET {"RECONNECT"}, SetBehavior(opts)
      PROVE  ConnInv'
  BY <1>3 DEF SetBehavior, Succeeds, Calls, Errors, link,
              NothingLeaks, CertificateFitsServer, SessionInv, IsOpen, Server
<1>4. CASE Connect
  <2>1. mode' = mode /\ pem' = pem /\ pkcs12' = pkcs12 /\ pc' = pc /\ pc = "idle"
        /\ options' = options /\ feedback' = feedback
    BY <1>4 DEF Connect, settings
  <2>2. Open("connect", Server("push"))
    BY <1>4 DEF Connect
  <2> QED
    BY <2>1, <2>2, OpenKeeps DEF Calls, Services, SessionInv
<1>5. CASE FeedbackConnect
  <2>1. mode' = mode /\ pem' = pem /\ pkcs12' = pkcs12 /\ pc' = pc /\ pc = "idle"
        /\ options' = options /\ feedback' = 1
    BY <1>5 DEF FeedbackConnect
  <2>2. Open("feedback_connect", Server("feedback"))
    BY <1>5 DEF FeedbackConnect
  <2> QED
    BY <2>1, <2>2, OpenKeeps DEF Calls, Services, SessionInv
<1>6. CASE Close \/ Free \/ SendCloses
  <2>1. DoClose /\ UNCHANGED settings /\ pc' \in {"idle", "freed", "reconnecting"}
    BY <1>6 DEF Close, Free, SendCloses
  <2>2. conn' = NoConn /\ ~IsOpen'
    BY <2>1 DEF DoClose, Closed, SessionInv, NoConn, IsOpen
  <2>3. sockets' = 0 /\ objects' = 0
    BY <2>1 DEF DoClose, NothingLeaks
  <2>4. soiled' \in BOOLEAN
    BY <2>1 DEF DoClose
  <2>5. last' \in [call : Calls, ret : {"SUCCESS", "ERROR"}, errno : Errors]
    BY <1>6 DEF Close, Free, SendCloses, Succeeds, Calls, Errors
  <2>6. pc' = "reconnecting" => feedback = 0
    BY <1>6 DEF Close, Free, SendCloses, SessionInv
  <2>7. conn' \in [sock : Servers \union {NoServer}, ssl : {"null", "new", "up"},
                   cert : Certs \union {NoCert}]
    BY <2>2 DEF NoConn, NoServer
  <2>8. TypeOK'
    BY <2>1, <2>3, <2>4, <2>5, <2>7 DEF settings
  <2> QED
    BY <2>1, <2>2, <2>3, <2>6, <2>8 DEF settings, NothingLeaks, CertificateFitsServer,
       SessionInv, NoConn, NoServer
<1>7. CASE Send
  BY <1>7 DEF Send, CheckConnection, Fails, Calls, Errors, settings, link,
              NothingLeaks, CertificateFitsServer, SessionInv, IsOpen, Server
<1>8. CASE FinishHandshake
  BY <1>8 DEF FinishHandshake, settings,
              NothingLeaks, CertificateFitsServer, SessionInv, IsOpen, Server
<1>9. CASE SendReconnects
  <2>1. mode' = mode /\ pem' = pem /\ pkcs12' = pkcs12
        /\ options' = options /\ feedback' = feedback
    BY <1>9 DEF SendReconnects, settings
  <2>2. Open("send", Server("push")) /\ pc = "reconnecting"
    BY <1>9 DEF SendReconnects
  <2>3. pc' = IF last'.ret = "SUCCESS" THEN "sending" ELSE "idle"
    BY <1>9 DEF SendReconnects
  <2> QED
    BY <2>1, <2>2, <2>3, OpenKeeps DEF Calls, Services, SessionInv
<1>10. CASE SendReturns
  BY <1>10 DEF SendReturns, Succeeds, Fails, Calls, Errors, settings, link,
               NothingLeaks, CertificateFitsServer, SessionInv, IsOpen, Server
<1>11. CASE Feedback
  BY <1>11 DEF Feedback, CheckConnection, Succeeds, Fails, Calls, Errors, settings,
               NothingLeaks, CertificateFitsServer, SessionInv, IsOpen, Server
<1>12. CASE Terminated \/ UNCHANGED vars
  <2>1. UNCHANGED <<pc, settings, link, last>>
    BY <1>12 DEF Terminated, vars
  <2>2. TypeOK'
    BY <2>1 DEF settings, link
  <2>3. NothingLeaks' /\ CertificateFitsServer' /\ SessionInv'
    BY <2>1 DEF settings, link, NothingLeaks, CertificateFitsServer, SessionInv, IsOpen, Server
  <2> QED
    BY <2>2, <2>3
<1> QED
  BY <1>1, <1>2, <1>3, <1>4, <1>5, <1>6, <1>7, <1>8, <1>9, <1>10, <1>11, <1>12 DEF Next

\* The variables of a context stay in their types, the accounting is exact and
\* the certificate fits the server, whatever calls the application makes
\* (apn.c:121-462, apn_ssl.c:88-305).
THEOREM ConnectionInvariant == Spec => []ConnInv
  BY InitConnInv, NextConnInv, PTL DEF Spec

\* Each part of the invariant for itself: the types, and what an open socket, a
\* feedback flag and a call of apn_send tell about each other (apn.c:273-288, 397).
THEOREM ConnectionTypes == Spec => []TypeOK
<1>1. ConnInv => TypeOK
  BY DEF ConnInv
<1> QED
  BY <1>1, ConnectionInvariant, PTL

\* A feedback connection is soiled and has raised the flag, and apn_send holds on
\* to an SSL object except between apn_close and apn_connect (apn.c:283-288, 315-327).
THEOREM SessionInvHolds == Spec => []SessionInv
<1>1. ConnInv => SessionInv
  BY DEF ConnInv
<1> QED
  BY <1>1, ConnectionInvariant, PTL

\* apn_close, a failed apn_connect and the reconnection in apn_send leave
\* neither a socket nor an SSL object behind (apn.c:158-168, 631-638).
THEOREM NothingLeaksHolds == Spec => []NothingLeaks
<1>1. ConnInv => NothingLeaks
  BY DEF ConnInv
<1> QED
  BY <1>1, ConnectionInvariant, PTL

\* The certificate an SSL object holds was created for the environment of the
\* server its socket is connected to (apn_ssl.c:248-267).
THEOREM CertificateFitsServerHolds == Spec => []CertificateFitsServer
<1>1. ConnInv => CertificateFitsServer
  BY DEF ConnInv
<1> QED
  BY <1>1, ConnectionInvariant, PTL

\* No frame is written to the feedback service (apn.c:283-288, 397).
THEOREM NeverSendsToFeedbackHolds == Spec => []NeverSendsToFeedback
<1>1. ConnInv => NeverSendsToFeedback
  BY DEF ConnInv, TypeOK, SessionInv, NothingLeaks, NeverSendsToFeedback, IsOpen,
         Servers, Services, NoServer
<1> QED
  BY <1>1, ConnectionInvariant, PTL

\* A connection nothing has happened to is the one asked for (apn.c:273-281,
\* 558-646).
THEOREM ConnectedAsAskedHolds == Spec => []ConnectedAsAsked
<1> DEFINE Answered == pc = "idle" /\ last.call = "connect" /\ last.ret = "SUCCESS" => IsOpen
<1>1. Init => Answered
  BY DEF Init
<1>2. ConnInv /\ ConnInv' /\ Answered /\ [Next]_vars => Answered'
  <2> SUFFICES ASSUME ConnInv, ConnInv', Answered, [Next]_vars
               PROVE  Answered'
    OBVIOUS
  <2>1. CASE Connect
    <3>1. mode' = mode /\ pem' = pem /\ pkcs12' = pkcs12
      BY <2>1 DEF Connect, settings
    <3> QED
      BY <2>1, <3>1, OpenKeeps DEF Connect, Calls, Services
  <2>2. CASE SendReconnects
    BY <2>2 DEF SendReconnects, Open, NotConfigured, AlreadyOpen, Unreachable,
                CertRefused, HandshakeFails, Established, Succeeds, Fails
  <2>3. CASE FeedbackConnect
    BY <2>3 DEF FeedbackConnect, Open, NotConfigured, AlreadyOpen, Unreachable,
                CertRefused, HandshakeFails, Established, Succeeds, Fails
  <2>4. CASE UNCHANGED vars \/ Terminated
    BY <2>4 DEF Terminated, vars, link, IsOpen
  <2>5. ASSUME NEW cert \in Certs \union {NoCert}, NEW given \in BOOLEAN,
               SetCertificate(cert, given) \/ SetPkcs12File(cert, given)
        PROVE  Answered'
    BY <2>5 DEF SetCertificate, SetPkcs12File, Succeeds
  <2>6. ASSUME NEW m \in Modes, SetMode(m)
        PROVE  Answered'
    BY <2>6 DEF SetMode, Succeeds
  <2>8. ASSUME NEW opts \in SUBSET {"RECONNECT"}, SetBehavior(opts)
        PROVE  Answered'
    BY <2>8 DEF SetBehavior, Succeeds
  <2>7. CASE Close \/ Free \/ Send \/ FinishHandshake \/ SendCloses \/ SendReturns \/ Feedback
    BY <2>7 DEF Close, Free, Send, FinishHandshake, SendCloses, SendReturns, Feedback,
                Succeeds, Fails
  <2> QED
    BY <2>1, <2>2, <2>3, <2>4, <2>5, <2>6, <2>7, <2>8 DEF Next
<1>3. ConnInv /\ Answered => ConnectedAsAsked
  BY DEF ConnInv, TypeOK, SessionInv, NothingLeaks, ConnectedAsAsked, IsOpen
<1> QED
  BY <1>1, <1>2, <1>3, ConnectionInvariant, PTL DEF Spec
=============================================================================
