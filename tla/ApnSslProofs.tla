----------------------------- MODULE ApnSslProofs -----------------------------
(***************************************************************************)
(* The references of a connection attempt and its refinement of            *)
(* ApnConnection, for every set of certificates and number of addresses.   *)
(***************************************************************************)
EXTENDS ApnSsl, TLAPS

\* The steps that hold a certificate, and a key, of their own.
CertSteps == {"p12_cert", "p12_key", "pem_cert", "pem_key", "pem_check", "names"}
KeySteps  == {"p12_cert", "p12_key"}

\* What the SSL_CTX holds: nothing yet, the certificate, or both.
HoldsInv ==
    /\ holds = IF ssl # "null" \/ pc \in {"pem_check", "names", "mode", "ssl_new"}
               THEN {"cert", "key"}
               ELSE IF pc \in {"p12_key", "pem_key"} THEN {"cert"} ELSE {}
    /\ ssl # "null" => pc \in {"idle", "handshake"}
    /\ pc = "handshake" => ssl = "new"

\* How often everything is referred to, at every step.
RefsInv ==
    /\ refs["ssl"]  = IF ssl # "null" THEN 1 ELSE 0
    /\ refs["ctx"]  = IF ssl # "null" \/ pc \in SslSteps THEN 1 ELSE 0
    /\ refs["cert"] = (IF pc \in CertSteps THEN 1 ELSE 0) + (IF "cert" \in holds THEN 1 ELSE 0)
    /\ refs["key"]  = (IF pc \in KeySteps THEN 1 ELSE 0) + (IF "key" \in holds THEN 1 ELSE 0)
    /\ refs["file"] = IF pc = "pem_read" THEN 1 ELSE 0
    /\ refs["p12"] \in {0, 1} /\ (pc # "p12_parse" => refs["p12"] = 0)
    /\ refs["password"] \in {0, 1} /\ (pc # "pem_key" => refs["password"] = 0)
    /\ refs["address"] >= left

\* What an attempt works on does not change under it.
AttemptInv ==
    /\ pc \in Steps =>
           /\ using = Credential /\ using # NoCert
           /\ pkcs12 # NoCert \/ pem.key
    /\ pc \in {"resolve", "socket"} => sock = NoServer
    /\ pc \in Steps \ {"resolve", "socket"} => sock = [service |-> "push", mode |-> mode]
    /\ pc \in {"ssl_new", "handshake"} => Fits(using)
    /\ pc \notin Steps => (using = NoCert <=> ssl = "null")
    /\ sock = NoServer => ssl = "null"
    /\ pc \notin {"socket", "tcp"} => left = 0

SslInv == TypeOK /\ HoldsInv /\ RefsInv /\ AttemptInv

-----------------------------------------------------------------------------
LEMMA InitSslInv == Init => SslInv
<1> SUFFICES ASSUME Init
             PROVE  SslInv
  OBVIOUS
<1> USE DEF Init, NoServer
<1>1. refs \in [Objects -> Nat] /\ left \in 0 .. MaxAddresses
  BY SslAssumption
<1>2. last \in [call : {"init", "set", "connect", "close"}, ret : {"SUCCESS", "ERROR"},
                errno : Errors]
  BY DEF Errors
<1>3. TypeOK
  BY <1>1, <1>2 DEF TypeOK, Modes
<1>4. HoldsInv
  BY DEF HoldsInv
<1>5. RefsInv
  BY DEF RefsInv, Objects, CertSteps, KeySteps, SslSteps
<1>6. AttemptInv
  BY DEF AttemptInv, Steps, SslSteps
<1> QED
  BY <1>3, <1>4, <1>5, <1>6 DEF SslInv

\* With and Less count up and down, and keep the type as long as there is
\* something to give up.
LEMMA WithCounts ==
    ASSUME NEW r \in [Objects -> Nat], NEW S \in SUBSET Objects
    PROVE  /\ With(r, S) \in [Objects -> Nat]
           /\ \A o \in Objects : With(r, S)[o] = IF o \in S THEN r[o] + 1 ELSE r[o]
  BY DEF With

LEMMA LessCounts ==
    ASSUME NEW r \in [Objects -> Nat], NEW S \in SUBSET Objects,
           \A o \in S : r[o] > 0
    PROVE  /\ Less(r, S) \in [Objects -> Nat]
           /\ \A o \in Objects : Less(r, S)[o] = IF o \in S THEN r[o] - 1 ELSE r[o]
  BY DEF Less

\* Giving up what the function holds itself, and the SSL_CTX with what it holds,
\* leaves nothing behind (apn_ssl.c:88-305, every error return).
LEMMA GivesUpKeeps ==
    ASSUME SslInv, pc \in SslSteps \ {"handshake", "names"},
           NEW objects \in SUBSET (Objects \ {"address", "ssl", "ctx"}),
           GivesUp(objects), Attempt,
           "cert" \in objects <=> pc \in CertSteps,
           "key" \in objects <=> pc \in KeySteps,
           \A o \in {"file", "p12", "password"} : refs[o] = IF o \in objects THEN 1 ELSE 0
    PROVE  SslInv'
<1> DEFINE r == Less(refs, objects)
<1>1. /\ refs \in [Objects -> Nat] /\ holds \in SUBSET {"cert", "key"}
      /\ ssl = "null" /\ refs["ctx"] = 1 /\ refs["ssl"] = 0
  BY DEF SslInv, TypeOK, HoldsInv, RefsInv, SslSteps
<1>2. \A o \in objects : refs[o] > 0
  BY <1>1 DEF SslInv, RefsInv, Objects, CertSteps, KeySteps
<1>3. /\ r \in [Objects -> Nat]
      /\ \A o \in Objects : r[o] = IF o \in objects THEN refs[o] - 1 ELSE refs[o]
  BY <1>1, <1>2, LessCounts
<1>4. r["ctx"] = 1
  BY <1>1, <1>3 DEF Objects
<1>5. \A o \in holds \union {"ctx"} : r[o] > 0
  BY <1>1, <1>3, <1>4 DEF SslInv, RefsInv, Objects
<1>6. refs' = Less(r, holds \union {"ctx"})
  BY <1>4 DEF GivesUp, Abandoned, CtxFreed
<1>7. /\ refs' \in [Objects -> Nat]
      /\ \A o \in Objects : refs'[o] = IF o \in holds \union {"ctx"} THEN r[o] - 1 ELSE r[o]
  <2>1. holds \union {"ctx"} \in SUBSET Objects
    BY <1>1 DEF Objects
  <2> HIDE DEF r
  <2> QED
    BY <1>3, <1>5, <1>6, <2>1, LessCounts
<1>8. \A o \in Objects \ {"address"} : refs'[o] = 0
  BY <1>1, <1>3, <1>7 DEF SslInv, RefsInv, Objects
<1>9. refs'["address"] = refs["address"]
  BY <1>1, <1>3, <1>7 DEF Objects
<1>10. /\ pc' = "idle" /\ holds' = {} /\ using' = NoCert /\ soiled' = TRUE /\ ssl' = "null"
       /\ UNCHANGED <<mode, pem, pkcs12, sock, left>>
       /\ last' = [call |-> "connect", ret |-> "ERROR", errno |-> "SSL"]
  BY <1>1 DEF GivesUp, Attempt, Fails, settings
<1>11. TypeOK'
  BY <1>7, <1>10 DEF SslInv, TypeOK, Errors
<1>12. HoldsInv'
  BY <1>10 DEF HoldsInv
<1>13. RefsInv'
  BY <1>8, <1>9, <1>10 DEF SslInv, RefsInv, Objects, CertSteps, KeySteps, SslSteps
<1>14. AttemptInv'
  BY <1>1, <1>10 DEF SslInv, AttemptInv, Steps, SslSteps
<1> QED
  BY <1>11, <1>12, <1>13, <1>14 DEF SslInv

\* A step that goes well keeps what does not depend on the references.
LEMMA GoesKeeps ==
    ASSUME SslInv, pc \in SslSteps \union {"ctx"}, ssl = "null",
           NEW step \in SslSteps \ {"handshake"}, NEW r \in [Objects -> Nat],
           NEW held \in SUBSET {"cert", "key"},
           Goes(step, r, held), Attempt,
           step = "ssl_new" => Fits(using)
    PROVE  TypeOK' /\ AttemptInv'
<1>1. /\ pc' = step /\ refs' = r /\ holds' = held
      /\ UNCHANGED <<mode, pem, pkcs12, sock, ssl, using, left, soiled, last>>
  BY DEF Goes, Attempt, settings
<1>2. TypeOK'
  BY <1>1 DEF SslInv, TypeOK, Steps
<1>3. AttemptInv'
  BY <1>1 DEF SslInv, AttemptInv, Steps, SslSteps, Credential, Fits
<1> QED
  BY <1>2, <1>3

\* Every step of apn_ssl_connect keeps the accounts (apn_ssl.c:88-305).
LEMMA SslStep == SslInv /\ SslConnect => SslInv'
<1> SUFFICES ASSUME SslInv, SslConnect
             PROVE  SslInv'
  OBVIOUS
<1>0. /\ refs \in [Objects -> Nat] /\ holds \in SUBSET {"cert", "key"}
      /\ HoldsInv /\ RefsInv
  BY DEF SslInv, TypeOK
<1>1. CASE UsePkcs12Cert
  <2>1. pc = "p12_cert" /\ ssl = "null" /\ Attempt
    BY <1>1, <1>0 DEF UsePkcs12Cert, HoldsInv
  <2>2. CASE GivesUp({"cert", "key"})
    BY <1>0, <2>1, <2>2, GivesUpKeeps DEF SslSteps, CertSteps, KeySteps, Objects, RefsInv
  <2>3. CASE Goes("p12_key", With(refs, {"cert"}), holds \union {"cert"})
    <3> DEFINE r1 == With(refs, {"cert"})
    <3>1. /\ r1 \in [Objects -> Nat]
          /\ \A o \in Objects : r1[o] = IF o \in {"cert"} THEN refs[o] + 1 ELSE refs[o]
      BY <1>0, <2>1, <2>3, WithCounts DEF Objects, RefsInv, SslSteps, CertSteps, KeySteps
    <3>2. /\ pc' = "p12_key" /\ refs' = r1 /\ holds' = holds \union {"cert"}
          /\ ssl' = "null" /\ left' = left
      BY <2>1, <2>3 DEF Goes, Attempt
    <3>3. TypeOK' /\ AttemptInv'
      BY <1>0, <2>1, <2>3, <3>1, GoesKeeps DEF SslSteps
    <3> HIDE DEF r1
    <3>4. HoldsInv'
      BY <1>0, <2>1, <3>2 DEF HoldsInv
    <3>5. RefsInv'
      BY <1>0, <2>1, <3>1, <3>2 DEF RefsInv, HoldsInv, Objects, SslSteps, CertSteps, KeySteps
    <3> QED
      BY <3>3, <3>4, <3>5 DEF SslInv
  <2> QED
    BY <1>1, <2>1, <2>2, <2>3 DEF UsePkcs12Cert
<1>2. CASE UsePkcs12Key
  <2>1. pc = "p12_key" /\ ssl = "null" /\ Attempt
    BY <1>2, <1>0 DEF UsePkcs12Key, HoldsInv
  <2>2. CASE GivesUp({"cert", "key"})
    BY <1>0, <2>1, <2>2, GivesUpKeeps DEF SslSteps, CertSteps, KeySteps, Objects, RefsInv
  <2>3. CASE Goes("names", Less(With(refs, {"key"}), {"key"}), holds \union {"key"})
    <3> DEFINE r1 == With(refs, {"key"})
    <3> DEFINE r2 == Less(r1, {"key"})
    <3>1. /\ r1 \in [Objects -> Nat]
          /\ \A o \in Objects : r1[o] = IF o \in {"key"} THEN refs[o] + 1 ELSE refs[o]
      BY <1>0, <2>1, <2>3, WithCounts DEF Objects, RefsInv, SslSteps, CertSteps, KeySteps
    <3>2. /\ r2 \in [Objects -> Nat]
          /\ \A o \in Objects : r2[o] = IF o \in {"key"} THEN r1[o] - 1 ELSE r1[o]
      <4>1. {"key"} \in SUBSET Objects
        BY DEF Objects
      <4>2. \A o \in {"key"} : r1[o] > 0
        BY <1>0, <2>1, <2>3, <3>1 DEF Objects, RefsInv, SslSteps, CertSteps, KeySteps
      <4> HIDE DEF r1
      <4> QED
        BY <3>1, <4>1, <4>2, LessCounts
    <3>3. /\ pc' = "names" /\ refs' = r2 /\ holds' = holds \union {"key"}
          /\ ssl' = "null" /\ left' = left
      BY <2>1, <2>3 DEF Goes, Attempt
    <3>4. TypeOK' /\ AttemptInv'
      BY <1>0, <2>1, <2>3, <3>1, <3>2, GoesKeeps DEF SslSteps
    <3> HIDE DEF r1, r2
    <3>5. HoldsInv'
      BY <1>0, <2>1, <3>3 DEF HoldsInv
    <3>6. RefsInv'
      BY <1>0, <2>1, <3>1, <3>2, <3>3 DEF RefsInv, HoldsInv, Objects, SslSteps, CertSteps, KeySteps
    <3> QED
      BY <3>4, <3>5, <3>6 DEF SslInv
  <2> QED
    BY <1>2, <2>1, <2>2, <2>3 DEF UsePkcs12Key
<1>3. CASE OpenCertificate
  <2>1. pc = "pem_open" /\ ssl = "null" /\ Attempt
    BY <1>3, <1>0 DEF OpenCertificate, HoldsInv
  <2>2. CASE GivesUp({})
    BY <1>0, <2>1, <2>2, GivesUpKeeps DEF SslSteps, CertSteps, KeySteps, Objects, RefsInv
  <2>3. CASE Goes("pem_read", With(refs, {"file"}), holds)
    <3> DEFINE r1 == With(refs, {"file"})
    <3>1. /\ r1 \in [Objects -> Nat]
          /\ \A o \in Objects : r1[o] = IF o \in {"file"} THEN refs[o] + 1 ELSE refs[o]
      BY <1>0, <2>1, <2>3, WithCounts DEF Objects, RefsInv, SslSteps, CertSteps, KeySteps
    <3>2. /\ pc' = "pem_read" /\ refs' = r1 /\ holds' = holds
          /\ ssl' = "null" /\ left' = left
      BY <2>1, <2>3 DEF Goes, Attempt
    <3>3. TypeOK' /\ AttemptInv'
      BY <1>0, <2>1, <2>3, <3>1, GoesKeeps DEF SslSteps
    <3> HIDE DEF r1
    <3>4. HoldsInv'
      BY <1>0, <2>1, <3>2 DEF HoldsInv
    <3>5. RefsInv'
      BY <1>0, <2>1, <3>1, <3>2 DEF RefsInv, HoldsInv, Objects, SslSteps, CertSteps, KeySteps
    <3> QED
      BY <3>3, <3>4, <3>5 DEF SslInv
  <2> QED
    BY <1>3, <2>1, <2>2, <2>3 DEF OpenCertificate
<1>4. CASE ReadCertificate
  <2>1. pc = "pem_read" /\ ssl = "null" /\ Attempt
    BY <1>4, <1>0 DEF ReadCertificate, HoldsInv
  <2>2. CASE GivesUp({"file"})
    BY <1>0, <2>1, <2>2, GivesUpKeeps DEF SslSteps, CertSteps, KeySteps, Objects, RefsInv
  <2>3. CASE Goes("pem_cert", With(Less(refs, {"file"}), {"cert"}), holds)
    <3> DEFINE r1 == Less(refs, {"file"})
    <3> DEFINE r2 == With(r1, {"cert"})
    <3>1. /\ r1 \in [Objects -> Nat]
          /\ \A o \in Objects : r1[o] = IF o \in {"file"} THEN refs[o] - 1 ELSE refs[o]
      BY <1>0, <2>1, <2>3, LessCounts DEF Objects, RefsInv, SslSteps, CertSteps, KeySteps
    <3>2. /\ r2 \in [Objects -> Nat]
          /\ \A o \in Objects : r2[o] = IF o \in {"cert"} THEN r1[o] + 1 ELSE r1[o]
      <4>1. {"cert"} \in SUBSET Objects
        BY DEF Objects
      <4> HIDE DEF r1
      <4> QED
        BY <3>1, <4>1, WithCounts
    <3>3. /\ pc' = "pem_cert" /\ refs' = r2 /\ holds' = holds
          /\ ssl' = "null" /\ left' = left
      BY <2>1, <2>3 DEF Goes, Attempt
    <3>4. TypeOK' /\ AttemptInv'
      BY <1>0, <2>1, <2>3, <3>1, <3>2, GoesKeeps DEF SslSteps
    <3> HIDE DEF r1, r2
    <3>5. HoldsInv'
      BY <1>0, <2>1, <3>3 DEF HoldsInv
    <3>6. RefsInv'
      BY <1>0, <2>1, <3>1, <3>2, <3>3 DEF RefsInv, HoldsInv, Objects, SslSteps, CertSteps, KeySteps
    <3> QED
      BY <3>4, <3>5, <3>6 DEF SslInv
  <2> QED
    BY <1>4, <2>1, <2>2, <2>3 DEF ReadCertificate
<1>5. CASE CheckPrivateKey
  <2>1. pc = "pem_check" /\ ssl = "null" /\ Attempt
    BY <1>5, <1>0 DEF CheckPrivateKey, HoldsInv
  <2>2. CASE GivesUp({"cert"})
    BY <1>0, <2>1, <2>2, GivesUpKeeps DEF SslSteps, CertSteps, KeySteps, Objects, RefsInv
  <2>3. CASE Goes("names", refs, holds)
    <3>1. /\ pc' = "names" /\ refs' = refs /\ holds' = holds
          /\ ssl' = "null" /\ left' = left
      BY <2>1, <2>3 DEF Goes, Attempt
    <3>2. TypeOK' /\ AttemptInv'
      BY <1>0, <2>1, <2>3, GoesKeeps DEF SslSteps
    <3>3. HoldsInv'
      BY <1>0, <2>1, <3>1 DEF HoldsInv
    <3>4. RefsInv'
      BY <1>0, <2>1, <3>1 DEF RefsInv, HoldsInv, Objects, SslSteps, CertSteps, KeySteps
    <3> QED
      BY <3>2, <3>3, <3>4 DEF SslInv
  <2> QED
    BY <1>5, <2>1, <2>2, <2>3 DEF CheckPrivateKey
<1>6. CASE CheckMode
  <2>1. pc = "mode" /\ ssl = "null" /\ Attempt
    BY <1>6, <1>0 DEF CheckMode, HoldsInv
  <2>2. CASE GivesUp({})
    BY <1>0, <2>1, <2>2, GivesUpKeeps DEF SslSteps, CertSteps, KeySteps, Objects, RefsInv
  <2>3. CASE Fits(using) /\ Goes("ssl_new", refs, holds)
    <3>1. /\ pc' = "ssl_new" /\ refs' = refs /\ holds' = holds
          /\ ssl' = "null" /\ left' = left
      BY <2>1, <2>3 DEF Goes, Attempt
    <3>2. TypeOK' /\ AttemptInv'
      BY <1>0, <2>1, <2>3, GoesKeeps DEF SslSteps, Fits
    <3>3. HoldsInv'
      BY <1>0, <2>1, <3>1 DEF HoldsInv
    <3>4. RefsInv'
      BY <1>0, <2>1, <3>1 DEF RefsInv, HoldsInv, Objects, SslSteps, CertSteps, KeySteps
    <3> QED
      BY <3>2, <3>3, <3>4 DEF SslInv
  <2> QED
    BY <1>6, <2>1, <2>2, <2>3 DEF CheckMode
<1>7. CASE NewCtx
  <2>1. pc = "ctx" /\ ssl = "null" /\ Attempt
    BY <1>7, <1>0 DEF NewCtx, HoldsInv
  <2>2. CASE pc' = "idle"
    <3>1. /\ Fails("SSL") /\ using' = NoCert /\ soiled' = TRUE
          /\ UNCHANGED <<mode, pem, pkcs12, sock, left, refs, holds, ssl>>
      BY <1>7, <2>1, <2>2 DEF NewCtx, Goes, Attempt, settings
    <3>2. TypeOK'
      BY <2>2, <3>1 DEF SslInv, TypeOK, Fails, Errors
    <3>3. HoldsInv' /\ RefsInv'
      BY <1>0, <2>1, <2>2, <3>1 DEF HoldsInv, RefsInv, Objects, SslSteps, CertSteps, KeySteps
    <3>4. AttemptInv'
      BY <2>1, <2>2, <3>1 DEF SslInv, AttemptInv, Steps, SslSteps
    <3> QED
      BY <3>2, <3>3, <3>4 DEF SslInv
  <2>3. ASSUME NEW step \in {"p12_open", "pem_open"}, Goes(step, With(refs, {"ctx"}), {})
        PROVE  SslInv'
    <3> DEFINE r == With(refs, {"ctx"})
    <3>1. /\ r \in [Objects -> Nat]
          /\ \A o \in Objects : r[o] = IF o \in {"ctx"} THEN refs[o] + 1 ELSE refs[o]
      BY <1>0, WithCounts DEF Objects
    <3>2. /\ pc' = step /\ refs' = r /\ holds' = {}
          /\ ssl' = "null" /\ left' = left
      BY <2>1, <2>3 DEF Goes, Attempt
    <3>3. TypeOK' /\ AttemptInv'
      BY <1>0, <2>1, <2>3, <3>1, GoesKeeps DEF SslSteps
    <3> HIDE DEF r
    <3>4. HoldsInv'
      BY <3>2 DEF HoldsInv
    <3>5. RefsInv'
      BY <1>0, <2>1, <3>1, <3>2 DEF RefsInv, HoldsInv, Objects, SslSteps, CertSteps, KeySteps
    <3> QED
      BY <3>3, <3>4, <3>5 DEF SslInv
  <2> QED
    BY <1>7, <2>1, <2>2, <2>3 DEF NewCtx
<1>8. CASE OpenPkcs12
  <2>1. pc = "p12_open" /\ ssl = "null" /\ Attempt
    BY <1>8, <1>0 DEF OpenPkcs12, HoldsInv
  <2>2. CASE GivesUp({})
    BY <1>0, <2>1, <2>2, GivesUpKeeps DEF SslSteps, CertSteps, KeySteps, Objects, RefsInv
  <2>3. CASE Goes("p12_parse", With(refs, {"p12"}), holds) \/ Goes("p12_parse", refs, holds)
    <3>1. /\ refs' \in [Objects -> Nat]
          /\ \A o \in Objects \ {"p12"} : refs'[o] = refs[o]
          /\ refs'["p12"] \in {0, 1}
      <4>1. CASE Goes("p12_parse", refs, holds)
        BY <1>0, <2>1, <4>1 DEF Goes, RefsInv
      <4>2. CASE Goes("p12_parse", With(refs, {"p12"}), holds)
        <5>1. refs["p12"] = 0
          BY <1>0, <2>1 DEF RefsInv
        <5>2. refs' = With(refs, {"p12"})
          BY <4>2 DEF Goes
        <5> QED
          BY <1>0, <5>1, <5>2, WithCounts DEF Objects
      <4> QED
        BY <2>3, <4>1, <4>2
    <3>2. /\ pc' = "p12_parse" /\ holds' = holds
          /\ ssl' = "null" /\ left' = left
      BY <2>1, <2>3 DEF Goes, Attempt
    <3>3. Goes("p12_parse", refs', holds)
      BY <2>3 DEF Goes
    <3>4. TypeOK' /\ AttemptInv'
      BY <1>0, <2>1, <3>1, <3>3, GoesKeeps DEF SslSteps
    <3>5. HoldsInv'
      BY <1>0, <2>1, <3>2 DEF HoldsInv
    <3>6. RefsInv'
      BY <1>0, <2>1, <3>1, <3>2 DEF RefsInv, HoldsInv, Objects, SslSteps, CertSteps, KeySteps
    <3> QED
      BY <3>4, <3>5, <3>6 DEF SslInv
  <2> QED
    BY <1>8, <2>2, <2>3 DEF OpenPkcs12
<1>9. CASE ParsePkcs12
  <2> DEFINE structure == IF refs["p12"] > 0 THEN {"p12"} ELSE {}
  <2>1. pc = "p12_parse" /\ ssl = "null" /\ Attempt
    BY <1>9, <1>0 DEF ParsePkcs12, HoldsInv
  <2>2. CASE GivesUp(structure)
    BY <1>0, <2>1, <2>2, GivesUpKeeps DEF SslSteps, CertSteps, KeySteps, Objects, RefsInv
  <2>3. CASE structure # {} /\ Goes("p12_cert", With(Less(refs, structure), {"cert", "key"}), holds)
    <3> DEFINE r1 == Less(refs, {"p12"})
    <3> DEFINE r2 == With(r1, {"cert", "key"})
    <3>1. /\ r1 \in [Objects -> Nat]
          /\ \A o \in Objects : r1[o] = IF o \in {"p12"} THEN refs[o] - 1 ELSE refs[o]
      BY <1>0, <2>1, <2>3, LessCounts DEF Objects, RefsInv
    <3>2. /\ r2 \in [Objects -> Nat]
          /\ \A o \in Objects : r2[o] = IF o \in {"cert", "key"} THEN r1[o] + 1 ELSE r1[o]
      <4>1. {"cert", "key"} \in SUBSET Objects
        BY DEF Objects
      <4> HIDE DEF r1
      <4> QED
        BY <3>1, <4>1, WithCounts
    <3>3. Goes("p12_cert", r2, holds)
      BY <2>3
    <3>4. /\ pc' = "p12_cert" /\ refs' = r2 /\ holds' = holds
          /\ ssl' = "null" /\ left' = left
      BY <2>1, <3>3 DEF Goes, Attempt
    <3> HIDE DEF r1, r2
    <3>5. TypeOK' /\ AttemptInv'
      BY <1>0, <2>1, <3>2, <3>3, GoesKeeps DEF SslSteps
    <3>6. HoldsInv'
      BY <1>0, <2>1, <3>4 DEF HoldsInv
    <3>7. refs["p12"] = 1
      BY <1>0, <2>3 DEF RefsInv
    <3>8. RefsInv'
      BY <1>0, <2>1, <3>1, <3>2, <3>4, <3>7 DEF RefsInv, HoldsInv, Objects, SslSteps, CertSteps, KeySteps
    <3> QED
      BY <3>5, <3>6, <3>8 DEF SslInv
  <2> QED
    BY <1>9, <2>2, <2>3 DEF ParsePkcs12
<1>10. CASE UseCertificate
  <2>1. pc = "pem_cert" /\ ssl = "null" /\ Attempt
    BY <1>10, <1>0 DEF UseCertificate, HoldsInv
  <2>2. CASE GivesUp({"cert"})
    BY <1>0, <2>1, <2>2, GivesUpKeeps DEF SslSteps, CertSteps, KeySteps, Objects, RefsInv
  <2>3. ASSUME NEW pass \in SUBSET {"password"},
               Goes("pem_key", With(refs, {"cert"} \union pass), holds \union {"cert"})
        PROVE  SslInv'
    <3> DEFINE r == With(refs, {"cert"} \union pass)
    <3>1. /\ r \in [Objects -> Nat]
          /\ \A o \in Objects :
                 r[o] = IF o \in {"cert"} \union pass THEN refs[o] + 1 ELSE refs[o]
      BY <1>0, WithCounts DEF Objects
    <3>2. /\ pc' = "pem_key" /\ refs' = r /\ holds' = holds \union {"cert"}
          /\ ssl' = "null" /\ left' = left
      BY <2>1, <2>3 DEF Goes, Attempt
    <3>3. TypeOK' /\ AttemptInv'
      BY <1>0, <2>1, <2>3, <3>1, GoesKeeps DEF SslSteps
    <3> HIDE DEF r
    <3>4. HoldsInv'
      BY <1>0, <2>1, <3>2 DEF HoldsInv
    <3>5. RefsInv'
      BY <1>0, <2>1, <3>1, <3>2 DEF RefsInv, HoldsInv, Objects, SslSteps, CertSteps, KeySteps
    <3> QED
      BY <3>3, <3>4, <3>5 DEF SslInv
  <2> QED
    BY <1>10, <2>2, <2>3 DEF UseCertificate
<1>11. CASE UsePrivateKey
  <2> DEFINE pass == IF refs["password"] > 0 THEN {"password"} ELSE {}
  <2>1. pc = "pem_key" /\ ssl = "null" /\ Attempt
    BY <1>11, <1>0 DEF UsePrivateKey, HoldsInv
  <2>2. CASE GivesUp(pass \union {"cert"})
    BY <1>0, <2>1, <2>2, GivesUpKeeps DEF SslSteps, CertSteps, KeySteps, Objects, RefsInv
  <2>3. CASE Goes("pem_check", With(Less(refs, pass), {"key"}), holds \union {"key"})
    <3> DEFINE r1 == Less(refs, pass)
    <3> DEFINE r2 == With(r1, {"key"})
    <3>1. /\ r1 \in [Objects -> Nat]
          /\ \A o \in Objects : r1[o] = IF o \in pass THEN refs[o] - 1 ELSE refs[o]
      BY <1>0, LessCounts DEF Objects
    <3>2. /\ r2 \in [Objects -> Nat]
          /\ \A o \in Objects : r2[o] = IF o \in {"key"} THEN r1[o] + 1 ELSE r1[o]
      <4>1. {"key"} \in SUBSET Objects
        BY DEF Objects
      <4> HIDE DEF r1
      <4> QED
        BY <3>1, <4>1, WithCounts
    <3>3. Goes("pem_check", r2, holds \union {"key"})
      BY <2>3
    <3>4. /\ pc' = "pem_check" /\ refs' = r2 /\ holds' = holds \union {"key"}
          /\ ssl' = "null" /\ left' = left
      BY <2>1, <3>3 DEF Goes, Attempt
    <3> HIDE DEF r1, r2
    <3>5. TypeOK' /\ AttemptInv'
      BY <1>0, <2>1, <3>2, <3>3, GoesKeeps DEF SslSteps
    <3>6. HoldsInv'
      BY <1>0, <2>1, <3>4 DEF HoldsInv
    <3>7. RefsInv'
      BY <1>0, <2>1, <3>1, <3>2, <3>4 DEF RefsInv, HoldsInv, Objects, SslSteps, CertSteps, KeySteps
    <3> QED
      BY <3>5, <3>6, <3>7 DEF SslInv
  <2> QED
    BY <1>11, <2>2, <2>3 DEF UsePrivateKey
<1>12. CASE ReadNames
  <2>1. pc = "names" /\ ssl = "null" /\ Attempt
    BY <1>12, <1>0 DEF ReadNames, HoldsInv
  <2>2. Goes("mode", Less(refs, {"cert"}), holds)
    BY <1>12 DEF ReadNames, CertDone
  <2> DEFINE r == Less(refs, {"cert"})
  <2>3. /\ r \in [Objects -> Nat]
        /\ \A o \in Objects : r[o] = IF o \in {"cert"} THEN refs[o] - 1 ELSE refs[o]
    BY <1>0, <2>1, LessCounts DEF Objects, RefsInv, CertSteps
  <2>4. /\ pc' = "mode" /\ refs' = r /\ holds' = holds
        /\ ssl' = "null" /\ left' = left
    BY <2>1, <2>2 DEF Goes, Attempt
  <2>5. TypeOK' /\ AttemptInv'
    BY <1>0, <2>1, <2>2, <2>3, GoesKeeps DEF SslSteps
  <2> HIDE DEF r
  <2>6. HoldsInv' /\ RefsInv'
    BY <1>0, <2>1, <2>3, <2>4 DEF RefsInv, HoldsInv, Objects, SslSteps, CertSteps, KeySteps
  <2> QED
    BY <2>5, <2>6 DEF SslInv
<1>13. CASE NewSsl
  <2>1. pc = "ssl_new" /\ ssl = "null" /\ Attempt
    BY <1>13, <1>0 DEF NewSsl, HoldsInv
  <2>2. CASE GivesUp({})
    BY <1>0, <2>1, <2>2, GivesUpKeeps DEF SslSteps, CertSteps, KeySteps, Objects, RefsInv
  <2>3. CASE pc' = "handshake"
    <3> DEFINE r1 == With(refs, {"ssl", "ctx"})
    <3> DEFINE r2 == Less(r1, {"ctx"})
    <3>1. /\ r1 \in [Objects -> Nat]
          /\ \A o \in Objects : r1[o] = IF o \in {"ssl", "ctx"} THEN refs[o] + 1 ELSE refs[o]
      BY <1>0, WithCounts DEF Objects
    <3>2. /\ r2 \in [Objects -> Nat]
          /\ \A o \in Objects : r2[o] = IF o \in {"ctx"} THEN r1[o] - 1 ELSE r1[o]
      <4>1. {"ctx"} \in SUBSET Objects
        BY DEF Objects
      <4>2. r1["ctx"] > 0
        BY <1>0, <3>1 DEF Objects
      <4> HIDE DEF r1
      <4> QED
        BY <3>1, <4>1, <4>2, LessCounts
    <3>3. /\ ssl' = "new" /\ refs' = r2
          /\ UNCHANGED <<holds, using, soiled, last, mode, pem, pkcs12, sock, left>>
      BY <1>13, <2>1, <2>3 DEF NewSsl, GivesUp, Attempt, settings
    <3> HIDE DEF r1, r2
    <3>4. TypeOK'
      BY <2>3, <3>2, <3>3 DEF SslInv, TypeOK, Steps, SslSteps
    <3>5. HoldsInv' /\ RefsInv'
      BY <1>0, <2>1, <2>3, <3>1, <3>2, <3>3 DEF RefsInv, HoldsInv, Objects, SslSteps, CertSteps, KeySteps
    <3>6. AttemptInv'
      BY <2>1, <2>3, <3>3 DEF SslInv, AttemptInv, Steps, SslSteps, Credential, Fits, NoServer
    <3> QED
      BY <3>4, <3>5, <3>6 DEF SslInv
  <2> QED
    BY <1>13, <2>2, <2>3 DEF NewSsl
<1>14. CASE Handshake
  <2>1. /\ pc = "handshake" /\ pc' = "idle" /\ ssl = "new" /\ ssl' \in {"new", "up"}
        /\ UNCHANGED <<holds, using, refs, mode, pem, pkcs12, sock, left>>
    BY <1>14, <1>0 DEF Handshake, Attempt, HoldsInv, settings
  <2>2. /\ soiled' \in BOOLEAN
        /\ \/ last' = [call |-> "connect", ret |-> "SUCCESS", errno |-> "none"]
           \/ last' = [call |-> "connect", ret |-> "ERROR", errno |-> "SSL"]
    BY <1>14 DEF Handshake, Succeeds, Fails
  <2>3. TypeOK'
    BY <2>1, <2>2 DEF SslInv, TypeOK, Errors
  <2>4. HoldsInv' /\ RefsInv'
    BY <1>0, <2>1 DEF RefsInv, HoldsInv, Objects, SslSteps, CertSteps, KeySteps
  <2>5. AttemptInv'
    BY <2>1 DEF SslInv, AttemptInv, Steps, SslSteps, NoServer
  <2> QED
    BY <2>3, <2>4, <2>5 DEF SslInv
<1> QED
  BY <1>1, <1>2, <1>3, <1>4, <1>5, <1>6, <1>7, <1>8, <1>9, <1>10, <1>11, <1>12, <1>13, <1>14
     DEF SslConnect

\* The setters, the resolution of the name and the TCP connection change no
\* reference but the addresses' (apn.c:558-643).
LEMMA OutsideStep ==
    SslInv /\ (Settings \/ Connect \/ Resolve \/ Socket \/ ConnectFails \/ ConnectEnds) => SslInv'
<1> SUFFICES ASSUME SslInv,
                    Settings \/ Connect \/ Resolve \/ Socket \/ ConnectFails \/ ConnectEnds
             PROVE  SslInv'
  OBVIOUS
<1>0. HoldsInv /\ RefsInv /\ TypeOK /\ AttemptInv
  BY DEF SslInv
<1>1. CASE Settings
  <2>1. /\ pc = "idle" /\ pc' = "idle" /\ UNCHANGED <<sock, ssl, using, holds, refs, left>>
        /\ last' = [call |-> "set", ret |-> "SUCCESS", errno |-> "none"]
    BY <1>1 DEF Settings, SetCertificate, SetPkcs12File, SetMode, Succeeds
  <2>2. /\ pem' \in [cert : Certs \union {NoCert}, key : BOOLEAN]
        /\ pkcs12' \in Certs \union {NoCert} /\ mode' \in Modes /\ soiled' \in BOOLEAN
    <3>1. ASSUME NEW cert \in Certs \union {NoCert}, NEW key \in BOOLEAN, SetCertificate(cert, key)
          PROVE  /\ pem' \in [cert : Certs \union {NoCert}, key : BOOLEAN]
                 /\ UNCHANGED <<pkcs12, mode, soiled>>
      <4>1. (cert # NoCert /\ key) \in BOOLEAN
        OBVIOUS
      <4> QED
        BY <3>1, <4>1 DEF SetCertificate
    <3>2. ASSUME NEW cert \in Certs \union {NoCert}, SetPkcs12File(cert)
          PROVE  pkcs12' \in Certs \union {NoCert} /\ UNCHANGED <<pem, mode, soiled>>
      BY <3>2 DEF SetPkcs12File
    <3>3. ASSUME NEW m \in Modes, SetMode(m)
          PROVE  mode' \in Modes /\ soiled' \in BOOLEAN /\ UNCHANGED <<pem, pkcs12>>
      <4>1. (soiled \/ (sock # NoServer /\ m # mode)) \in BOOLEAN
        OBVIOUS
      <4> QED
        BY <3>3, <4>1 DEF SetMode
    <3> QED
      BY <1>0, <1>1, <3>1, <3>2, <3>3 DEF Settings, TypeOK
  <2>3. TypeOK'
    BY <1>0, <2>1, <2>2 DEF TypeOK, Errors
  <2>4. HoldsInv' /\ RefsInv'
    BY <1>0, <2>1 DEF HoldsInv, RefsInv
  <2>5. AttemptInv'
    BY <1>0, <2>1 DEF AttemptInv, Steps, SslSteps
  <2> QED
    BY <2>3, <2>4, <2>5 DEF SslInv
<1>2. CASE Connect
  <2>1. /\ pc = "idle" /\ UNCHANGED <<mode, pem, pkcs12, sock, ssl, holds, refs, left, soiled>>
        /\ \/ pc' = "idle" /\ using' = using
           \/ /\ pc' = "resolve" /\ using' = Credential /\ sock = NoServer
              /\ pkcs12 # NoCert \/ (pem.cert # NoCert /\ pem.key)
    BY <1>2 DEF Connect, settings
  <2>2. last' \in [call : {"init", "set", "connect", "close"}, ret : {"SUCCESS", "ERROR"},
                   errno : Errors]
    BY <1>0, <1>2 DEF Connect, Succeeds, Fails, TypeOK, Errors
  <2>3. TypeOK'
    BY <1>0, <2>1, <2>2 DEF TypeOK, Credential, Steps
  <2>4. HoldsInv' /\ RefsInv'
    BY <1>0, <2>1 DEF HoldsInv, RefsInv, AttemptInv, SslSteps, CertSteps, KeySteps
  <2>5. AttemptInv'
    BY <1>0, <2>1 DEF AttemptInv, Steps, SslSteps, Credential, NoServer
  <2> QED
    BY <2>3, <2>4, <2>5 DEF SslInv
<1>3. CASE Resolve
  <2>1. /\ pc = "resolve" /\ UNCHANGED <<mode, pem, pkcs12, sock, ssl, holds, soiled>>
        /\ ssl = "null" /\ left = 0
    BY <1>0, <1>3 DEF Resolve, settings, HoldsInv, AttemptInv
  <2>2. last' \in [call : {"init", "set", "connect", "close"}, ret : {"SUCCESS", "ERROR"},
                   errno : Errors]
    BY <1>0, <1>3 DEF Resolve, Fails, TypeOK, Errors
  <2>3. CASE pc' = "idle"
    <3>1. using' = NoCert /\ UNCHANGED <<refs, left>>
      BY <1>3, <2>3 DEF Resolve
    <3>2. TypeOK'
      BY <1>0, <2>1, <2>2, <2>3, <3>1 DEF TypeOK
    <3> QED
      BY <1>0, <2>1, <2>3, <3>1, <3>2
         DEF SslInv, HoldsInv, RefsInv, AttemptInv, Steps, SslSteps, CertSteps, KeySteps
  <2>4. CASE pc' = "socket"
    <3>1. /\ using' = using /\ left' \in 1 .. MaxAddresses
          /\ refs' = [refs EXCEPT !["address"] = refs["address"] + left']
      BY <1>3, <2>4 DEF Resolve
    <3>2. /\ refs' \in [Objects -> Nat] /\ refs'["address"] = refs["address"] + left'
          /\ \A o \in Objects \ {"address"} : refs'[o] = refs[o]
      BY <1>0, <3>1, SslAssumption DEF TypeOK, Objects
    <3>3. TypeOK'
      BY <1>0, <2>1, <2>2, <2>4, <3>1, <3>2, SslAssumption DEF TypeOK, Steps
    <3>4. refs'["address"] >= left'
      BY <1>0, <2>1, <3>1, <3>2, SslAssumption DEF RefsInv, TypeOK, Objects
    <3>5. HoldsInv' /\ AttemptInv'
      BY <1>0, <2>1, <2>4, <3>1 DEF HoldsInv, AttemptInv, Steps, SslSteps, Credential
    <3>6. RefsInv'
      BY <1>0, <2>1, <2>4, <3>2, <3>4 DEF RefsInv, HoldsInv, Objects, SslSteps, CertSteps, KeySteps
    <3> QED
      BY <3>3, <3>5, <3>6 DEF SslInv
  <2> QED
    BY <1>3, <2>3, <2>4 DEF Resolve
<1>4. CASE Socket
  <2>1. /\ pc = "socket" /\ UNCHANGED <<mode, pem, pkcs12, ssl, holds, refs, soiled>>
        /\ ssl = "null" /\ sock = NoServer
    BY <1>0, <1>4 DEF Socket, settings, HoldsInv, AttemptInv
  <2>2. last' \in [call : {"init", "set", "connect", "close"}, ret : {"SUCCESS", "ERROR"},
                   errno : Errors]
    BY <1>0, <1>4 DEF Socket, Fails, TypeOK, Errors
  <2>3. \/ pc' = "idle" /\ left' = 0 /\ using' = NoCert /\ sock' = sock
        \/ /\ pc' = "tcp" /\ sock' = [service |-> "push", mode |-> mode]
           /\ UNCHANGED <<left, using>>
    BY <1>4 DEF Socket
  <2>4. TypeOK'
    BY <1>0, <2>1, <2>2, <2>3, SslAssumption DEF TypeOK, Steps, Servers
  <2>5. HoldsInv'
    BY <1>0, <2>1, <2>3 DEF HoldsInv
  <2>6. refs["address"] >= left'
    BY <1>0, <2>3 DEF RefsInv, TypeOK, Objects
  <2>7. RefsInv'
    BY <1>0, <2>1, <2>3, <2>6 DEF RefsInv, SslSteps, CertSteps, KeySteps
  <2>8. AttemptInv'
    BY <1>0, <2>1, <2>3 DEF AttemptInv, Steps, SslSteps, Credential, NoServer
  <2> QED
    BY <2>4, <2>5, <2>7, <2>8 DEF SslInv
<1>5. CASE ConnectFails
  <2>1. /\ pc = "tcp" /\ left > 0 /\ left' = left - 1
        /\ UNCHANGED <<pc, mode, pem, pkcs12, sock, ssl, using, holds, refs, soiled, last>>
    BY <1>5 DEF ConnectFails, settings
  <2>2. left' \in 0 .. MaxAddresses /\ refs["address"] >= left'
    BY <1>0, <2>1, SslAssumption DEF TypeOK, RefsInv, Objects
  <2>3. TypeOK'
    BY <1>0, <2>1, <2>2 DEF TypeOK
  <2>4. HoldsInv' /\ RefsInv' /\ AttemptInv'
    BY <1>0, <2>1, <2>2 DEF HoldsInv, RefsInv, AttemptInv, Credential
  <2> QED
    BY <2>3, <2>4 DEF SslInv
<1>6. CASE ConnectEnds
  <2>1. /\ pc = "tcp" /\ left' = 0 /\ ssl = "null"
        /\ refs' = [refs EXCEPT !["address"] = refs["address"] - left]
        /\ UNCHANGED <<mode, pem, pkcs12, ssl, holds, soiled>>
    BY <1>0, <1>6 DEF ConnectEnds, AddressesFreed, settings, HoldsInv
  <2>2. /\ refs' \in [Objects -> Nat] /\ refs'["address"] >= left'
        /\ \A o \in Objects \ {"address"} : refs'[o] = refs[o]
    BY <1>0, <2>1, SslAssumption DEF TypeOK, Objects, RefsInv
  <2>3. last' \in [call : {"init", "set", "connect", "close"}, ret : {"SUCCESS", "ERROR"},
                   errno : Errors]
    BY <1>0, <1>6 DEF ConnectEnds, Fails, TypeOK, Errors
  <2>4. \/ pc' = "ctx" /\ sock' = sock /\ using' = using
        \/ pc' = "idle" /\ sock' = NoServer /\ using' = NoCert
    BY <1>6 DEF ConnectEnds
  <2>5. TypeOK'
    BY <1>0, <2>1, <2>2, <2>3, <2>4, SslAssumption DEF TypeOK, Steps
  <2>6. HoldsInv'
    BY <1>0, <2>1, <2>4 DEF HoldsInv
  <2>7. RefsInv'
    BY <1>0, <2>1, <2>2, <2>4 DEF RefsInv, Objects, SslSteps, CertSteps, KeySteps
  <2>8. AttemptInv'
    BY <1>0, <2>1, <2>4 DEF AttemptInv, Steps, SslSteps, Credential
  <2> QED
    BY <2>5, <2>6, <2>7, <2>8 DEF SslInv
<1> QED
  BY <1>1, <1>2, <1>3, <1>4, <1>5, <1>6

\* apn_close frees the SSL object and, with its last reference, the SSL_CTX and
\* what that holds (apn_ssl.c:385-400).
LEMMA CloseStep == SslInv /\ (Close \/ Free) => SslInv'
<1> SUFFICES ASSUME SslInv, Close \/ Free
             PROVE  SslInv'
  OBVIOUS
<1>0. HoldsInv /\ RefsInv /\ TypeOK /\ AttemptInv
  BY DEF SslInv
<1>1. /\ pc = "idle" /\ pc' \in {"idle", "freed"} /\ DoClose
      /\ sock' = NoServer /\ ssl' = "null" /\ using' = NoCert
      /\ UNCHANGED <<mode, pem, pkcs12, left>>
  BY DEF Close, Free, DoClose, settings
<1>2. last' \in [call : {"init", "set", "connect", "close"}, ret : {"SUCCESS", "ERROR"},
                 errno : Errors]
  BY <1>0 DEF Close, Free, Succeeds, TypeOK, Errors
<1>3. soiled' \in BOOLEAN
  BY <1>0, <1>1 DEF DoClose, TypeOK
<1>4. /\ refs' \in [Objects -> Nat] /\ refs'["address"] = refs["address"] /\ holds' = {}
      /\ \A o \in Objects \ {"address"} : refs'[o] = 0
  <2>1. CASE ssl = "null"
    BY <1>0, <1>1, <2>1 DEF DoClose, HoldsInv, RefsInv, Objects, CertSteps, KeySteps, SslSteps, TypeOK
  <2>2. CASE ssl # "null"
    <3> DEFINE r == Less(refs, {"ssl"})
    <3>1. /\ r \in [Objects -> Nat]
          /\ \A o \in Objects : r[o] = IF o \in {"ssl"} THEN refs[o] - 1 ELSE refs[o]
      BY <1>0, <2>2, LessCounts DEF TypeOK, RefsInv, Objects
    <3>2. holds = {"cert", "key"} /\ r["ctx"] = 1 /\ r["cert"] = 1 /\ r["key"] = 1
      BY <1>0, <1>1, <2>2, <3>1 DEF HoldsInv, RefsInv, Objects, CertSteps, KeySteps
    <3>3. refs' = Less(r, {"cert", "key", "ctx"}) /\ holds' = {}
      <4>1. refs' = CtxFreed(r) /\ holds' = {}
        BY <1>1, <2>2 DEF DoClose
      <4>2. holds \union {"ctx"} = {"cert", "key", "ctx"}
        BY <3>2
      <4> QED
        BY <3>2, <4>1, <4>2 DEF CtxFreed
    <3>4. {"cert", "key", "ctx"} \in SUBSET Objects
      BY DEF Objects
    <3> HIDE DEF r
    <3>5. /\ refs' \in [Objects -> Nat]
          /\ \A o \in Objects : refs'[o] = IF o \in {"cert", "key", "ctx"} THEN r[o] - 1 ELSE r[o]
      BY <3>1, <3>2, <3>3, <3>4, LessCounts
    <3> QED
      BY <1>0, <1>1, <2>2, <3>1, <3>2, <3>3, <3>5 DEF RefsInv, Objects, SslSteps, CertSteps, KeySteps
  <2> QED
    BY <2>1, <2>2
<1>5. TypeOK'
  BY <1>0, <1>1, <1>2, <1>3, <1>4 DEF TypeOK
<1>6. HoldsInv' /\ AttemptInv'
  BY <1>0, <1>1, <1>4 DEF HoldsInv, AttemptInv, Steps, SslSteps
<1>7. RefsInv'
  BY <1>0, <1>1, <1>4 DEF RefsInv, Objects, SslSteps, CertSteps, KeySteps
<1> QED
  BY <1>5, <1>6, <1>7 DEF SslInv

\* At every step of every attempt, whatever fails, everything created is referred
\* to exactly as often as RefsInv says (apn.c:558-646; apn_ssl.c:88-305, 385-400).
THEOREM SslInvariant == Spec => []SslInv
<1>1. SslInv /\ [Next]_vars => SslInv'
  <2> SUFFICES ASSUME SslInv, [Next]_vars
               PROVE  SslInv'
    OBVIOUS
  <2>1. CASE UNCHANGED vars \/ Terminated
    <3>1. UNCHANGED <<pc, mode, pem, pkcs12, sock, ssl, using, holds, refs, left, soiled, last>>
      BY <2>1 DEF Terminated, vars, settings
    <3> QED
      BY <3>1 DEF SslInv, TypeOK, HoldsInv, RefsInv, AttemptInv, Credential, Fits
  <2> QED
    BY <2>1, SslStep, OutsideStep, CloseStep DEF Next
<1> QED
  BY <1>1, InitSslInv, PTL DEF Spec

\* The variables keep their types: no reference is given up that is not there.
THEOREM SslTypes == Spec => []TypeOK
<1>1. SslInv => TypeOK
  BY DEF SslInv
<1> QED
  BY <1>1, SslInvariant, PTL

\* Nothing freed is looked into, the certificate after X509_free included
\* (apn_ssl.c:155, 236-238, 270).
THEOREM UsesAliveHolds == Spec => []UsesAlive
<1>1. SslInv => UsesAlive
  BY DEF SslInv, TypeOK, HoldsInv, RefsInv, UsesAlive, Uses, Steps, SslSteps, CertSteps, KeySteps,
         Objects
<1> QED
  BY <1>1, SslInvariant, PTL

\* No attempt leaves anything of OpenSSL, a file or a string behind, and
\* apn_close leaves nothing at all (apn_ssl.c:88-305, 385-400).
THEOREM ObjectsAccountedHolds == Spec => []ObjectsAccounted
<1>1. SslInv => ObjectsAccounted
  BY DEF SslInv, TypeOK, HoldsInv, RefsInv, ObjectsAccounted, SslSteps, CertSteps, KeySteps, Objects
<1> QED
  BY <1>1, SslInvariant, PTL

-----------------------------------------------------------------------------
(* The attempt in steps is the one action of ApnConnection                  *)

LEMMA ConnInit == Init => Conn!Init
  BY DEF Init, NoServer, Conn!Init, Conn!NoConn, Conn!NoServer, Steps, SslSteps, Objects

\* Inside an attempt nothing is seen of it.
LEMMA ConnStutter ==
    ASSUME SslInv, pc \in Steps \/ (pc = "idle" /\ sock = NoServer), pc' \in Steps,
           UNCHANGED <<mode, pem, pkcs12, soiled, last>>
    PROVE  UNCHANGED Conn!vars
<1>1. pc # "freed" /\ pc' # "freed"
  BY DEF Steps, SslSteps
<1>2. CASE pc \in Steps
  BY <1>1, <1>2 DEF Conn!vars, Conn!settings, Conn!link
<1>3. CASE pc = "idle" /\ sock = NoServer
  <2>1. pc \notin Steps /\ ssl = "null" /\ using = NoCert /\ refs["ssl"] = 0
    BY <1>3 DEF SslInv, AttemptInv, RefsInv, Steps, SslSteps
  <2> QED
    BY <1>1, <1>3, <2>1 DEF Conn!vars, Conn!settings, Conn!link, NoServer
<1> QED
  BY <1>2, <1>3

\* The five ends of an attempt are outcomes of ApnConnection's apn_connect.
LEMMA ConnEnds ==
    ASSUME SslInv, SslInv', pc \in Steps, pc' = "idle", UNCHANGED <<mode, pem, pkcs12>>,
           \/ /\ Fails("UNABLE_TO_ESTABLISH_CONNECTION") \/ Fails("OTHER")
              /\ sock' = NoServer /\ using' = NoCert /\ soiled' = soiled
           \/ /\ Fails("SSL") /\ soiled' = TRUE /\ ssl' = "null" /\ using' = NoCert
              /\ sock' = [service |-> "push", mode |-> mode]
           \/ /\ Fails("SSL") /\ soiled' = TRUE /\ ssl' = "new" /\ using' = Credential
              /\ sock' = [service |-> "push", mode |-> mode] /\ Fits(Credential)
           \/ /\ Succeeds("connect") /\ soiled' = FALSE /\ ssl' = "up" /\ using' = Credential
              /\ sock' = [service |-> "push", mode |-> mode] /\ Fits(Credential)
    PROVE  Conn!Connect
<1> USE DEF Conn!Server, Conn!NoServer, Conn!NoConn, NoServer, Fails, Succeeds, Conn!Fails,
            Conn!Succeeds
<1>1. pc # "freed" /\ pc' # "freed" /\ pc' \notin Steps
  BY DEF Steps, SslSteps
<1>2. Conn!Configured
  BY SslAssumption DEF SslInv, AttemptInv, Credential, Conn!Configured
<1>3. Conn!NeedsSocket
  BY DEF Conn!NeedsSocket, Conn!IsOpen
<1>4. refs'["ssl"] = IF ssl' # "null" THEN 1 ELSE 0
  BY DEF SslInv, RefsInv
<1>5. sock' = NoServer => ssl' = "null"
  BY DEF SslInv, AttemptInv
<1>6. Conn!Unreachable("connect", Conn!Server("push"))
      \/ Conn!CertRefused("connect", Conn!Server("push"))
      \/ Conn!HandshakeFails("connect", Conn!Server("push"))
      \/ Conn!Established("connect", Conn!Server("push"))
  <2>1. CASE /\ Fails("UNABLE_TO_ESTABLISH_CONNECTION") \/ Fails("OTHER")
             /\ sock' = NoServer /\ using' = NoCert /\ soiled' = soiled
    BY <1>1, <1>2, <1>3, <1>4, <1>5, <2>1 DEF Conn!Unreachable, Conn!AfterRefusal
  <2>2. CASE /\ Fails("SSL") /\ soiled' = TRUE /\ ssl' = "null" /\ using' = NoCert
             /\ sock' = [service |-> "push", mode |-> mode]
    BY <1>1, <1>2, <1>3, <1>4, <2>2 DEF Conn!CertRefused
  <2>3. CASE /\ Fails("SSL") /\ soiled' = TRUE /\ ssl' = "new" /\ using' = Credential
             /\ sock' = [service |-> "push", mode |-> mode] /\ Fits(Credential)
    BY <1>1, <1>2, <1>3, <1>4, <2>3
       DEF Conn!HandshakeFails, Conn!CertValid, Conn!Credential, Credential, Fits
  <2>4. CASE /\ Succeeds("connect") /\ soiled' = FALSE /\ ssl' = "up" /\ using' = Credential
             /\ sock' = [service |-> "push", mode |-> mode] /\ Fits(Credential)
    <3>1. Conn!CertValid(Conn!Credential)
      BY <2>4 DEF Conn!CertValid, Conn!Credential, Credential, Fits
    <3>2. Credential = Conn!Credential
      BY DEF Conn!Credential, Credential
    <3>3. refs'["ssl"] = 1 /\ sock' # [service |-> "none", mode |-> "none"]
      BY <1>4, <2>4
    <3>4. soiled' = ("push" = "feedback")
      BY <2>4
    <3>5. /\ ssl' = "up" /\ using' = Conn!Credential
          /\ sock' = [service |-> "push", mode |-> mode]
          /\ last' = [call |-> "connect", ret |-> "SUCCESS", errno |-> "none"]
      BY <2>4, <3>2
    <3> QED
      BY <1>1, <1>2, <1>3, <3>1, <3>3, <3>4, <3>5 DEF Conn!Established
  <2> QED
    BY <2>1, <2>2, <2>3, <2>4
<1> QED
  BY <1>1, <1>6 DEF Conn!Connect, Conn!Open, Conn!settings

LEMMA ConnOutside ==
    SslInv /\ SslInv' /\ (Settings \/ Connect \/ Close \/ Free \/ Terminated)
        => Conn!Next \/ UNCHANGED Conn!vars
<1> SUFFICES ASSUME SslInv, SslInv', Settings \/ Connect \/ Close \/ Free \/ Terminated
             PROVE  Conn!Next \/ UNCHANGED Conn!vars
  OBVIOUS
<1> USE DEF Conn!vars, Conn!settings, Conn!link, Conn!Fails, Conn!Succeeds, Fails, Succeeds
<1>1. /\ "idle" \notin Steps /\ "freed" \notin Steps /\ "resolve" \in Steps
      /\ "idle" # "freed"
  BY DEF Steps, SslSteps
<1>2. ASSUME NEW cert \in Certs \union {NoCert}, NEW key \in BOOLEAN, SetCertificate(cert, key)
      PROVE  Conn!Next
  <2>1. Conn!SetCertificate(cert, key)
    BY <1>1, <1>2 DEF SetCertificate, Conn!SetCertificate
  <2> QED
    BY <2>1 DEF Conn!Next
<1>3. ASSUME NEW cert \in Certs \union {NoCert}, SetPkcs12File(cert)
      PROVE  Conn!Next
  <2>1. Conn!SetPkcs12File(cert, TRUE)
    BY <1>1, <1>3 DEF SetPkcs12File, Conn!SetPkcs12File
  <2> QED
    BY <2>1 DEF Conn!Next
<1>4. ASSUME NEW m \in Modes, SetMode(m)
      PROVE  Conn!Next
  <2>1. Conn!SetMode(m)
    BY <1>1, <1>4 DEF SetMode, Conn!SetMode, Conn!IsOpen, Conn!NoServer, NoServer
  <2> QED
    BY <2>1 DEF Conn!Next, Conn!Modes, Modes
<1>5. CASE Settings
  BY <1>2, <1>3, <1>4, <1>5 DEF Settings
<1>6. CASE Connect
  <2>1. CASE pc' = "resolve"
    <3>1. pc = "idle" /\ sock = NoServer /\ UNCHANGED <<mode, pem, pkcs12, soiled, last>>
      BY <1>1, <1>6, <2>1 DEF Connect, settings
    <3> QED
      BY <1>1, <2>1, <3>1, ConnStutter
  <2>2. CASE pc' # "resolve"
    <3>1. /\ pc = "idle" /\ pc' = pc
          /\ UNCHANGED <<mode, pem, pkcs12, sock, ssl, using, refs, soiled>>
      BY <1>6, <2>2 DEF Connect, settings
    <3>2. \/ pkcs12 = NoCert /\ pem.cert = NoCert /\ Fails("CERTIFICATE_IS_NOT_SET")
          \/ /\ pkcs12 = NoCert /\ pem.cert # NoCert /\ ~pem.key
             /\ Fails("PRIVATE_KEY_IS_NOT_SET")
          \/ /\ pkcs12 # NoCert \/ (pem.cert # NoCert /\ pem.key)
             /\ sock # NoServer /\ Succeeds("connect")
      BY <1>6, <2>2 DEF Connect
    <3>3. Conn!NotConfigured("connect") \/ Conn!AlreadyOpen("connect")
      BY <1>1, <3>1, <3>2 DEF Conn!NotConfigured, Conn!AlreadyOpen, Conn!Configured,
                              Conn!NeedsSocket, Conn!IsOpen, Conn!NoServer, NoServer
    <3>4. Conn!Connect
      BY <1>1, <3>1, <3>3 DEF Conn!Connect, Conn!Open
    <3> QED
      BY <3>4 DEF Conn!Next
  <2> QED
    BY <2>1, <2>2
<1>7. CASE Close \/ Free
  <2>1. /\ pc = "idle" /\ pc' \in {"idle", "freed"} /\ pc' \notin Steps
        /\ sock' = NoServer /\ ssl' = "null" /\ using' = NoCert
        /\ soiled' = (soiled /\ sock = NoServer)
        /\ UNCHANGED <<mode, pem, pkcs12>>
    BY <1>1, <1>7 DEF Close, Free, DoClose, settings
  <2>2. /\ refs'["ssl"] = 0 /\ refs["ssl"] = IF ssl # "null" THEN 1 ELSE 0
        /\ sock = NoServer => ssl = "null" /\ using = NoCert
    BY <1>1, <2>1 DEF SslInv, RefsInv, AttemptInv
  <2>3. Conn!DoClose
    <3>1. CASE sock = NoServer
      BY <1>1, <2>1, <2>2, <3>1 DEF Conn!DoClose, Conn!IsOpen, Conn!NoServer, NoServer
    <3>2. CASE sock # NoServer
      BY <1>1, <2>1, <2>2, <3>2
         DEF Conn!DoClose, Conn!IsOpen, Conn!Closed, Conn!NoConn, Conn!NoServer, NoServer
    <3> QED
      BY <3>1, <3>2
  <2>4. Conn!Close \/ Conn!Free
    BY <1>1, <1>7, <2>1, <2>3 DEF Close, Free, Conn!Close, Conn!Free
  <2> QED
    BY <2>4 DEF Conn!Next
<1>8. CASE Terminated
  BY <1>8 DEF Terminated, vars, settings
<1> QED
  BY <1>5, <1>6, <1>7, <1>8

LEMMA ConnAttempt ==
    SslInv /\ SslInv' /\ (Resolve \/ Socket \/ ConnectFails \/ ConnectEnds \/ SslConnect)
        => Conn!Next \/ UNCHANGED Conn!vars
<1> SUFFICES ASSUME SslInv, SslInv',
                    Resolve \/ Socket \/ ConnectFails \/ ConnectEnds \/ SslConnect
             PROVE  Conn!Connect \/ UNCHANGED Conn!vars
  BY DEF Conn!Next
<1>1. pc \in Steps /\ UNCHANGED <<mode, pem, pkcs12>>
  BY DEF Resolve, Socket, ConnectFails, ConnectEnds, SslConnect, NewCtx, OpenPkcs12, ParsePkcs12,
         UsePkcs12Cert, UsePkcs12Key, OpenCertificate, ReadCertificate, UseCertificate,
         UsePrivateKey, CheckPrivateKey, ReadNames, CheckMode, NewSsl, Handshake, Attempt,
         settings, Steps, SslSteps
<1>2. CASE pc' \in Steps
  <2>1. UNCHANGED <<soiled, last>>
    <3>1. CASE Resolve \/ Socket \/ ConnectFails \/ ConnectEnds
      BY <1>2, <3>1 DEF Resolve, Socket, ConnectFails, ConnectEnds, Steps, SslSteps
    <3>2. CASE SslConnect
      BY <1>2, <3>2 DEF SslConnect, NewCtx, OpenPkcs12, ParsePkcs12,
         UsePkcs12Cert, UsePkcs12Key, OpenCertificate, ReadCertificate, UseCertificate,
         UsePrivateKey, CheckPrivateKey, ReadNames, CheckMode, NewSsl, Handshake,
         Goes, GivesUp, Steps, SslSteps
    <3> QED
      BY <3>1, <3>2
  <2> QED
    BY <1>1, <1>2, <2>1, ConnStutter
<1>3. CASE pc' \notin Steps
  <2>1. CASE Resolve \/ Socket \/ ConnectFails \/ ConnectEnds
    <3>1. /\ pc' = "idle" /\ using' = NoCert /\ soiled' = soiled
          /\ Fails("UNABLE_TO_ESTABLISH_CONNECTION") \/ Fails("OTHER")
          /\ (sock' = NoServer \/ (sock' = sock /\ pc \in {"resolve", "socket"}))
      BY <1>3, <2>1 DEF Resolve, Socket, ConnectFails, ConnectEnds, Steps, SslSteps
    <3>2. sock' = NoServer
      BY <3>1 DEF SslInv, AttemptInv
    <3> QED
      BY <1>1, <3>1, <3>2, ConnEnds
  <2>2. CASE SslConnect /\ pc # "handshake"
    <3>1. /\ pc' = "idle" /\ using' = NoCert /\ soiled' = TRUE /\ Fails("SSL")
          /\ ssl' = ssl /\ sock' = sock /\ pc \in SslSteps \union {"ctx"}
      BY <1>3, <2>2 DEF SslConnect, NewCtx, OpenPkcs12, ParsePkcs12,
         UsePkcs12Cert, UsePkcs12Key, OpenCertificate, ReadCertificate, UseCertificate,
         UsePrivateKey, CheckPrivateKey, ReadNames, CheckMode, NewSsl, Handshake, Attempt,
         Goes, GivesUp, Steps, SslSteps
    <3>2. ssl = "null" /\ sock = [service |-> "push", mode |-> mode]
      BY <2>2, <3>1 DEF SslInv, HoldsInv, AttemptInv, Steps, SslSteps
    <3> QED
      BY <1>1, <3>1, <3>2, ConnEnds
  <2>3. CASE Handshake
    <3>1. /\ pc' = "idle" /\ using' = using /\ sock' = sock /\ pc = "handshake"
          /\ \/ ssl' = "up" /\ Succeeds("connect") /\ soiled' = FALSE
             \/ ssl' = ssl /\ Fails("SSL") /\ soiled' = TRUE
      BY <2>3 DEF Handshake, Attempt
    <3>2. /\ ssl = "new" /\ using = Credential /\ Fits(using)
          /\ sock = [service |-> "push", mode |-> mode]
      BY <3>1 DEF SslInv, HoldsInv, AttemptInv, Steps, SslSteps
    <3> QED
      BY <1>1, <3>1, <3>2, ConnEnds
  <2> QED
    BY <2>1, <2>2, <2>3 DEF SslConnect, NewCtx, OpenPkcs12, ParsePkcs12,
         UsePkcs12Cert, UsePkcs12Key, OpenCertificate, ReadCertificate, UseCertificate,
         UsePrivateKey, CheckPrivateKey, ReadNames, CheckMode, NewSsl
<1> QED
  BY <1>2, <1>3

\* Seen from the calls, the attempt with all its steps and error returns is the
\* one action ApnConnection has for it: same result, same errno, same remains
\* (apn.c:558-646, apn_ssl.c:88-305).
THEOREM ImplementsConnectionHolds == Spec => ImplementsConnection
<1>1. SslInv /\ SslInv' /\ [Next]_vars => [Conn!Next]_(Conn!vars)
  <2> SUFFICES ASSUME SslInv, SslInv', [Next]_vars
               PROVE  Conn!Next \/ UNCHANGED Conn!vars
    OBVIOUS
  <2>1. CASE UNCHANGED vars
    BY <2>1 DEF vars, settings, Conn!vars, Conn!settings, Conn!link
  <2> QED
    BY <2>1, ConnOutside, ConnAttempt DEF Next
<1> QED
  BY <1>1, ConnInit, SslInvariant, PTL DEF Spec, ImplementsConnection, Conn!Spec
=============================================================================
