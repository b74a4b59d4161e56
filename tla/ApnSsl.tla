-------------------------------- MODULE ApnSsl --------------------------------
(***************************************************************************)
(* One connection attempt of __apn_connect and apn_ssl_connect, step by    *)
(* step, each step failing where the code looks for a failure, with the    *)
(* objects of OpenSSL, the files, strings and address lists it creates and *)
(* their reference counts.  The attempts and apn_close alternate as the    *)
(* caller likes.  ApnConnection has the whole attempt as one action.       *)
(***************************************************************************)
EXTENDS Integers

CONSTANTS
    Certs, CertModes, NoCert,  \* as in ApnConnection
    MaxAddresses,              \* addresses a host name resolves to
    MaxLost                    \* bound on the addresses never freed in all attempts

Modes == {"production", "sandbox"}

ASSUME SslAssumption ==
    /\ NoCert \notin Certs /\ CertModes \in [Certs -> SUBSET Modes]
    /\ MaxAddresses \in Nat \ {0} /\ MaxLost \in Nat

VARIABLES
    pc,         \* "idle", "freed", or the next step of an attempt
    mode, pem, pkcs12,
    sock, ssl,  \* of the context
    using,      \* the certificate of the attempt
    holds,      \* what the SSL_CTX holds a reference to
    refs,       \* history: references to each kind of object; 0: there is none
    left,       \* addresses of the list from the current one on
    soiled, last \* history: as in ApnConnection

settings == <<mode, pem, pkcs12>>
vars == <<pc, settings, sock, ssl, using, holds, refs, left, soiled, last>>

NoServer == [service |-> "none", mode |-> "none"]
Servers  == [service : {"push"}, mode : Modes]
Objects  == {"address", "ctx", "p12", "file", "cert", "key", "password", "ssl"}

SslSteps ==
    {"p12_open", "p12_parse", "p12_cert", "p12_key", "pem_open", "pem_read", "pem_cert",
     "pem_key", "pem_check", "names", "mode", "ssl_new", "handshake"}
Steps == {"resolve", "socket", "tcp", "ctx"} \union SslSteps

Errors == {"none", "CERTIFICATE_IS_NOT_SET", "PRIVATE_KEY_IS_NOT_SET",
           "UNABLE_TO_ESTABLISH_CONNECTION", "SSL", "OTHER"}

TypeOK ==
    /\ pc \in {"idle", "freed"} \union Steps
    /\ mode \in Modes
    /\ pem \in [cert : Certs \union {NoCert}, key : BOOLEAN]
    /\ pkcs12 \in Certs \union {NoCert}
    /\ sock \in Servers \union {NoServer}
    /\ ssl \in {"null", "new", "up"}
    /\ using \in Certs \union {NoCert}
    /\ holds \in SUBSET {"cert", "key"}
    /\ refs \in [Objects -> Nat]
    /\ left \in 0 .. MaxAddresses
    /\ soiled \in BOOLEAN
    /\ last \in [call : {"init", "set", "connect", "close"}, ret : {"SUCCESS", "ERROR"},
                 errno : Errors]

Init ==
    /\ pc = "idle"
    /\ mode = "production"
    /\ pem = [cert |-> NoCert, key |-> FALSE] /\ pkcs12 = NoCert
    /\ sock = NoServer /\ ssl = "null" /\ using = NoCert
    /\ holds = {} /\ refs = [o \in Objects |-> 0]
    /\ left = 0
    /\ soiled = FALSE
    /\ last = [call |-> "init", ret |-> "SUCCESS", errno |-> "none"]

Succeeds(call) == last' = [call |-> call, ret |-> "SUCCESS", errno |-> "none"]
Fails(errno) == last' = [call |-> "connect", ret |-> "ERROR", errno |-> errno]

-----------------------------------------------------------------------------
(* References *)

With(r, objects) == [o \in Objects |-> IF o \in objects THEN r[o] + 1 ELSE r[o]]
Less(r, objects) == [o \in Objects |-> IF o \in objects THEN r[o] - 1 ELSE r[o]]

\* SSL_CTX_free: the last reference takes those the SSL_CTX holds with it.
CtxFreed(r) == Less(r, IF r["ctx"] = 1 THEN holds \union {"ctx"} ELSE {"ctx"})

-----------------------------------------------------------------------------
(* Settings *)

SetCertificate(cert, key) ==
    /\ pc = "idle"
    /\ pem' = [cert |-> cert, key |-> cert # NoCert /\ key]
    /\ Succeeds("set")
    /\ UNCHANGED <<pc, mode, pkcs12, sock, ssl, using, holds, refs, left, soiled>>

SetPkcs12File(cert) ==
    /\ pc = "idle"
    /\ pkcs12' = cert
    /\ Succeeds("set")
    /\ UNCHANGED <<pc, mode, pem, sock, ssl, using, holds, refs, left, soiled>>

SetMode(m) ==
    /\ pc = "idle"
    /\ mode' = m
    /\ soiled' = (soiled \/ (sock # NoServer /\ m # mode))
    /\ Succeeds("set")
    /\ UNCHANGED <<pc, pem, pkcs12, sock, ssl, using, holds, refs, left>>

-----------------------------------------------------------------------------
(* __apn_connect *)

Credential == IF pkcs12 # NoCert THEN pkcs12 ELSE pem.cert

Connect ==
    /\ pc = "idle"
    /\ \/ /\ pkcs12 = NoCert /\ pem.cert = NoCert
          /\ Fails("CERTIFICATE_IS_NOT_SET")
          /\ UNCHANGED <<pc, using>>
       \/ /\ pkcs12 = NoCert /\ pem.cert # NoCert /\ ~pem.key
          /\ Fails("PRIVATE_KEY_IS_NOT_SET")
          /\ UNCHANGED <<pc, using>>
       \/ /\ pkcs12 # NoCert \/ (pem.cert # NoCert /\ pem.key)
          /\ \/ sock # NoServer /\ Succeeds("connect") /\ UNCHANGED <<pc, using>>
             \/ /\ sock = NoServer
                /\ pc' = "resolve" /\ using' = Credential /\ last' = last
    /\ UNCHANGED <<settings, sock, ssl, holds, refs, left, soiled>>

\* getaddrinfo: the list is an object for every address.
Resolve ==
    /\ pc = "resolve"
    /\ \/ /\ pc' = "idle" /\ Fails("UNABLE_TO_ESTABLISH_CONNECTION")
          /\ using' = NoCert /\ UNCHANGED <<refs, left>>
       \/ /\ pc' = "socket" /\ left' \in 1 .. MaxAddresses
          /\ refs' = [refs EXCEPT !["address"] = @ + left']
          /\ UNCHANGED <<last, using>>
    /\ UNCHANGED <<settings, sock, ssl, holds, soiled>>

\* socket(): when it fails the list is left behind.
Socket ==
    /\ pc = "socket"
    /\ \/ /\ refs["address"] <= MaxLost
          /\ pc' = "idle" /\ Fails("OTHER")
          /\ left' = 0 /\ using' = NoCert
          /\ sock' = sock
       \/ /\ pc' = "tcp"
          /\ sock' = [service |-> "push", mode |-> mode]
          /\ UNCHANGED <<last, left, using>>
    /\ UNCHANGED <<settings, ssl, holds, refs, soiled>>

\* freeaddrinfo gets the address the loop has come to.
AddressesFreed == left

\* The address refuses the connection.
ConnectFails ==
    /\ pc = "tcp" /\ left > 0
    /\ refs["address"] - left < MaxLost
    /\ left' = left - 1
    /\ UNCHANGED <<pc, settings, sock, ssl, using, holds, refs, soiled, last>>

\* It accepts it, or none is left; then apn_close closes the socket.
ConnectEnds ==
    /\ pc = "tcp"
    /\ refs' = [refs EXCEPT !["address"] = @ - AddressesFreed]
    /\ left' = 0
    /\ \/ left > 0 /\ pc' = "ctx" /\ UNCHANGED <<sock, using, last>>
       \/ /\ left = 0
          /\ pc' = "idle" /\ sock' = NoServer /\ using' = NoCert
          /\ Fails("UNABLE_TO_ESTABLISH_CONNECTION")
    /\ UNCHANGED <<settings, ssl, holds, soiled>>

-----------------------------------------------------------------------------
(* apn_ssl_connect *)

\* Only what the SSL layer does changes.
Attempt == UNCHANGED <<settings, sock, left>>

\* The step has gone well, and leaves these references and those in SSL_CTX.
Goes(step, r, held) ==
    /\ pc' = step /\ refs' = r /\ holds' = held
    /\ UNCHANGED <<ssl, using, soiled, last>>

\* Mutant: the SSL_CTX is forgotten.
KeepingCtx(r) == r

\* Mutant: the SSL_CTX is freed by the function that failed and by its caller.
FreedByBoth(r) == CtxFreed(CtxFreed(r))

\* Every error path frees the SSL_CTX.
Abandoned(r) == CtxFreed(r)

\* An error return that frees these objects; the socket stays open.
GivesUp(objects) ==
    /\ pc' = "idle" /\ Fails("SSL")
    /\ refs' = Abandoned(Less(refs, objects)) /\ holds' = {}
    /\ using' = NoCert /\ soiled' = TRUE
    /\ ssl' = ssl

NewCtx ==
    /\ pc = "ctx"
    /\ \/ Goes(IF pkcs12 # NoCert THEN "p12_open" ELSE "pem_open", With(refs, {"ctx"}), {})
       \/ /\ pc' = "idle" /\ Fails("SSL") /\ using' = NoCert /\ soiled' = TRUE
          /\ UNCHANGED <<refs, holds, ssl>>
    /\ Attempt

\* fopen, d2i_PKCS12_fp, fclose; no structure is made of a file that is none.
OpenPkcs12 ==
    /\ pc = "p12_open"
    /\ \/ GivesUp({})
       \/ Goes("p12_parse", With(refs, {"p12"}), holds)
       \/ Goes("p12_parse", refs, holds)
    /\ Attempt

ParsePkcs12 ==
    /\ pc = "p12_parse"
    /\ LET structure == IF refs["p12"] > 0 THEN {"p12"} ELSE {}
       IN  \/ GivesUp(structure)
           \/ structure # {} /\ Goes("p12_cert", With(Less(refs, structure), {"cert", "key"}), holds)
    /\ Attempt

\* The SSL_CTX takes references of its own.
UsePkcs12Cert ==
    /\ pc = "p12_cert"
    /\ \/ GivesUp({"cert", "key"})
       \/ Goes("p12_key", With(refs, {"cert"}), holds \union {"cert"})
    /\ Attempt

UsePkcs12Key ==
    /\ pc = "p12_key"
    /\ \/ GivesUp({"cert", "key"})
       \/ Goes("names", Less(With(refs, {"key"}), {"key"}), holds \union {"key"})
    /\ Attempt

OpenCertificate ==
    /\ pc = "pem_open"
    /\ GivesUp({}) \/ Goes("pem_read", With(refs, {"file"}), holds)
    /\ Attempt

ReadCertificate ==
    /\ pc = "pem_read"
    /\ \/ GivesUp({"file"})
       \/ Goes("pem_cert", With(Less(refs, {"file"}), {"cert"}), holds)
    /\ Attempt

\* With a copy of the passphrase, when there is one, for the callback.
UseCertificate ==
    /\ pc = "pem_cert"
    /\ \/ GivesUp({"cert"})
       \/ \E pass \in SUBSET {"password"} :
              Goes("pem_key", With(refs, {"cert"} \union pass), holds \union {"cert"})
    /\ Attempt

\* The key is read with the passphrase, which is not needed any longer.
UsePrivateKey ==
    /\ pc = "pem_key"
    /\ LET pass == IF refs["password"] > 0 THEN {"password"} ELSE {}
       IN  \/ GivesUp(pass \union {"cert"})
           \/ Goes("pem_check", With(Less(refs, pass), {"key"}), holds \union {"key"})
    /\ Attempt

CheckPrivateKey ==
    /\ pc = "pem_check"
    /\ GivesUp({"cert"}) \/ Goes("names", refs, holds)
    /\ Attempt

\* Mutant: the certificate is freed with its subject and with its issuer.
FreedTwice(r) == Less(Less(r, {"cert"}), {"cert"})

\* Subject, issuer and expiry are taken from the certificate; X509_free.
CertDone(r) == Less(r, {"cert"})

ReadNames ==
    /\ pc = "names"
    /\ Goes("mode", CertDone(refs), holds)
    /\ Attempt

\* Mutant: a certificate without a mode passes for one of both.
FitsUnlessOther(cert) == CertModes[cert] = {} \/ mode \in CertModes[cert]

\* Neither expired nor created for the other mode.
Fits(cert) == mode \in CertModes[cert]

\* The modes are read from the certificate that has just been freed: it lives
\* on in the SSL_CTX.
CheckMode ==
    /\ pc = "mode"
    /\ \/ ~Fits(using) /\ GivesUp({})
       \/ Fits(using) /\ Goes("ssl_new", refs, holds)
    /\ Attempt

\* SSL_new takes a reference to the SSL_CTX, and apn_ssl_connect drops its own.
NewSsl ==
    /\ pc = "ssl_new"
    /\ \/ GivesUp({})
       \/ /\ pc' = "handshake" /\ ssl' = "new"
          /\ refs' = Less(With(refs, {"ssl", "ctx"}), {"ctx"})
          /\ UNCHANGED <<holds, using, soiled, last>>
    /\ Attempt

\* SSL_set_fd and SSL_connect; a failure leaves the SSL object in the context.
Handshake ==
    /\ pc = "handshake"
    /\ pc' = "idle"
    /\ \/ ssl' = "up" /\ Succeeds("connect") /\ soiled' = FALSE
       \/ ssl' = ssl /\ Fails("SSL") /\ soiled' = TRUE
    /\ UNCHANGED <<holds, using, refs>>
    /\ Attempt

-----------------------------------------------------------------------------
\* apn_close with apn_ssl_close: SSL_free gives up the reference to the SSL_CTX.
DoClose ==
    /\ sock' = NoServer
    /\ ssl' = "null" /\ using' = NoCert
    /\ \/ ssl = "null" /\ UNCHANGED <<refs, holds>>
       \/ ssl # "null" /\ refs' = CtxFreed(Less(refs, {"ssl"})) /\ holds' = {}
    /\ soiled' = (soiled /\ sock = NoServer)
    /\ UNCHANGED <<settings, left>>

Close == pc = "idle" /\ DoClose /\ Succeeds("close") /\ pc' = pc

Free == pc = "idle" /\ DoClose /\ pc' = "freed" /\ last' = last

Terminated == pc = "freed" /\ UNCHANGED vars

Settings ==
    \/ \E cert \in Certs \union {NoCert} :
           SetPkcs12File(cert) \/ \E key \in BOOLEAN : SetCertificate(cert, key)
    \/ \E m \in Modes : SetMode(m)

SslConnect ==
    \/ NewCtx
    \/ OpenPkcs12 \/ ParsePkcs12 \/ UsePkcs12Cert \/ UsePkcs12Key
    \/ OpenCertificate \/ ReadCertificate \/ UseCertificate \/ UsePrivateKey \/ CheckPrivateKey
    \/ ReadNames \/ CheckMode \/ NewSsl \/ Handshake

Next ==
    \/ Settings
    \/ Connect \/ Resolve \/ Socket \/ ConnectFails \/ ConnectEnds
    \/ SslConnect
    \/ Close \/ Free \/ Terminated

Spec == Init /\ [][Next]_vars

-----------------------------------------------------------------------------
(* Properties *)

\* What a step of the attempt looks into.
Uses(step) ==
    CASE step = "p12_cert"              -> {"ctx", "cert", "key"}
      [] step = "p12_key"               -> {"ctx", "cert", "key"}
      [] step = "pem_read"              -> {"ctx", "file"}
      [] step = "pem_cert"              -> {"ctx", "cert"}
      [] step = "pem_key"               -> {"ctx", "cert"}
      [] step = "pem_check"             -> {"ctx", "cert", "key"}
      [] step \in {"names", "mode"}     -> {"ctx", "cert"}
      [] step = "ssl_new"               -> {"ctx", "key"}
      [] step = "handshake"             -> {"ssl", "ctx", "cert", "key"}
      [] OTHER                          -> {}

\* Nothing is looked into that has been freed, be it the certificate whose mode
\* is read after X509_free, or the context and key the SSL object still needs
\* when apn_ssl_connect has freed its own references (apn_ssl.c:155, 236-238, 270).
UsesAlive == \A o \in Uses(pc) : refs[o] > 0

\* Whatever step of an attempt has failed, between calls there are exactly the
\* objects of the connection in the context, and none without one
\* (apn_ssl.c:88-305, 385-400).  The addresses are left out: those tried in vain,
\* and all of them when there is no socket, are never freed (apn.c:595, 631).
ObjectsAccounted ==
    pc \in {"idle", "freed"} =>
        \A o \in Objects \ {"address"} :
            refs[o] = IF ssl # "null" /\ o \in {"ssl", "ctx", "cert", "key"} THEN 1 ELSE 0

Conn == INSTANCE ApnConnection WITH
    pc       <- IF pc = "freed" THEN "freed" ELSE "idle",
    options  <- {},
    feedback <- 0,
    conn     <- IF pc \in Steps THEN [sock |-> NoServer, ssl |-> "null", cert |-> NoCert]
                ELSE [sock |-> sock, ssl |-> ssl, cert |-> using],
    sockets  <- IF pc \notin Steps /\ sock # NoServer THEN 1 ELSE 0,
    objects  <- IF pc \notin Steps THEN refs["ssl"] ELSE 0

\* The attempt in steps is the one action of ApnConnection: the same results,
\* errors and remains, whatever fails.
ImplementsConnection == Conn!Spec
=============================================================================
