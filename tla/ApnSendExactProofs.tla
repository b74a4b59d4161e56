------------------------- MODULE ApnSendExactProofs -------------------------
(***************************************************************************)
(* More theorems about apn_send: that it decides every token in an         *)
(* environment that tells it what became of each, what a second            *)
(* notification of a device comes from in any environment, and how many    *)
(* are lost.                                                               *)
(***************************************************************************)
EXTENDS ApnSendProofs, FiniteSetTheorems

-----------------------------------------------------------------------------
(* Exactness: reconnections may fail, but a connection is only closed after  *)
(* the packet that says why, and the packet comes before the last select()   *)
(* gives up; the caller lets apn_send reconnect.                             *)

Calm == /\ Faults \subseteq {"connect"}
        /\ Codes = {}
        /\ Kinds \subseteq {"good", "unknown"}
        /\ Prompt /\ Reconnect

LEMMA CalmIsGentle == Calm => Gentle
  BY DEF Calm, Gentle

LEMMA ExactInit == Calm /\ Init => ExactInv
  <1> SUFFICES ASSUME Calm, Init PROVE ExactInv
    OBVIOUS
  <1> USE NAssumption DEF Init, GatewayInit
  <1>1. ProgressInv
    BY DEF ProgressInv, NothingSkipped, DecidedBelow, Index
  <1>2. PacketInv
    BY DEF PacketInv, Alive
  <1>3. JudgedInv
    BY DEF JudgedInv
  <1>4. NamedInv
    <2>1. Reported = {}
      BY DEF Reported
    <2> QED
      BY <2>1 DEF NamedInv, OnTheWay
  <1> QED
    BY <1>1, <1>2, <1>3, <1>4 DEF ExactInv

LEMMA ExactGateway ==
    ASSUME Calm, TypeOK, CloseInv, ExactInv, Environment
    PROVE  ExactInv'
  <1> USE NAssumption
  <1>1. UNCHANGED <<pc, start_index, auto_reconnect, invalid_index, code, i, ret, reported>>
    BY DEF Environment, callVars
  <1>2. ProgressInv /\ PacketInv /\ JudgedInv /\ NamedInv
    BY DEF ExactInv
  <1>3. StreamInv /\ TopInv /\ ReplyInv
    BY DEF CloseInv, ResumeInv
  <1>4. i \in 0 .. N /\ start_index \in 0 .. N /\ delivered \in [Index -> 0 .. 2]
        /\ bounced \subseteq Index /\ wire \in Seq(Frame) /\ invalid_index \in 0 .. N
    BY DEF TypeOK, GatewayTypeOK
  <1>5. Reported' = Reported
    BY <1>1 DEF Reported
  <1>6. CASE GwAccept
    <2>1. PICK d \in Index : d = i - Len(wire) /\ d \in Nat
      BY <1>6, StreamHead DEF GwAccept, Index
    <2>2. /\ Alive /\ Alive' /\ UNCHANGED <<kind, link, gw, reply, bounced>>
          /\ delivered' = Bump(delivered, d) /\ kind[d] = "good"
          /\ Len(wire') = Len(wire) - 1 /\ Len(wire) > 0 /\ Len(wire) \in Nat /\ wire # <<>>
      BY <1>6, <2>1, StreamHead DEF GwAccept, Handling, Alive
    <2>3. delivered[d] = 0
      <3>1. ~(delivered[d] > 0)
        BY <1>3, <2>1, <2>2 DEF StreamInv, Undecided, Decided
      <3> QED
        BY <1>4, <2>1, <3>1
    <2>4. delivered' = [delivered EXCEPT ![d] = 1]
      BY <2>2, <2>3 DEF Bump
    <2>5. \A x \in Index : Decided(x) => Decided(x)'
      BY <1>4, <2>2, <2>4 DEF Decided
    <2>6. Decided(d)'
      BY <1>4, <2>1, <2>4 DEF Decided
    <2>7. reply = NoReply /\ pc \in {"loop", "write", "killed"}
      BY <1>2, <1>3, <2>2 DEF StreamInv, PacketInv
    <2>8. DecidedBelow(d + 1)'
      <3> SUFFICES ASSUME NEW x \in Index, x < d + 1 PROVE Decided(x)'
        BY DEF DecidedBelow
      <3>1. CASE x = d
        BY <2>6, <3>1
      <3>2. CASE x # d
        <4>1. x < d
          BY <2>1, <3>2 DEF Index
        <4>2. DecidedBelow(d)
          BY <1>2, <2>1, <2>2 DEF ProgressInv
        <4> QED
          BY <2>5, <4>1, <4>2 DEF DecidedBelow
      <3> QED
        BY <3>1, <3>2
    <2>9. i' - Len(wire') = d + 1
      BY <1>1, <1>4, <2>1, <2>2
    <2>10. ProgressInv'
      <3>1. NothingSkipped'
        BY <1>1, <1>2, <2>5 DEF ProgressInv, NothingSkipped
      <3> QED
        BY <1>1, <2>2, <2>7, <2>8, <2>9, <3>1 DEF ProgressInv
    <2>11. PacketInv'
      BY <1>1, <1>2, <2>2, <2>7 DEF PacketInv
    <2>12. JudgedInv'
      BY <1>2, <1>4, <2>2, <2>4 DEF JudgedInv
    <2>13. NamedInv'
      BY <1>1, <1>2, <1>5, <2>2 DEF NamedInv, OnTheWay
    <2> QED
      BY <2>10, <2>11, <2>12, <2>13 DEF ExactInv
  <1>7. CASE GwReject
    <2>1. PICK d \in Index : d = i - Len(wire) /\ d \in Nat
      BY <1>7, StreamHead DEF GwReject, Index
    <2>2. /\ Alive /\ ~Alive' /\ UNCHANGED <<kind, link, delivered>>
          /\ reply' = [code |-> InvalidToken, id |-> d] /\ bounced' = bounced \union {d}
          /\ kind[d] # "good" /\ wire # <<>>
      BY <1>7, <2>1, StreamHead DEF GwReject, Handling, Alive
    <2>3. \A x \in Index : Decided(x) => Decided(x)'
      BY <2>2 DEF Decided
    <2>4. reply = NoReply /\ pc \in {"loop", "write", "killed"}
      BY <1>2, <1>3, <2>2 DEF StreamInv, PacketInv
    <2>5. reply' # NoReply /\ reply'.id = d
      BY <2>2 DEF NoReply, InvalidToken
    <2>6. DecidedBelow(d)
      BY <1>2, <2>1, <2>2 DEF ProgressInv
    <2>7. ProgressInv'
      BY <1>1, <1>2, <2>2, <2>3, <2>4, <2>5, <2>6 DEF ProgressInv, NothingSkipped, DecidedBelow
    <2>8. PacketInv'
      BY <1>1, <2>4, <2>5 DEF PacketInv
    <2>9. JudgedInv'
      BY <1>2, <2>2 DEF JudgedInv
    <2>10. NamedInv'
      BY <1>1, <1>2, <1>5, <2>2, <2>4, <2>5 DEF NamedInv, OnTheWay
    <2> QED
      BY <2>7, <2>8, <2>9, <2>10 DEF ExactInv
  <1>8. CASE GwDiscard \/ GwHangUp
    <2>1. UNCHANGED <<kind, reply, delivered, bounced>> /\ ~Alive /\ ~Alive'
      BY <1>8 DEF GwDiscard, GwHangUp, Alive
    <2>2. ProgressInv'
      BY <1>1, <1>2, <2>1 DEF ProgressInv, NothingSkipped, DecidedBelow, Decided
    <2>3. PacketInv'
      BY <1>1, <1>2, <2>1 DEF PacketInv
    <2>4. JudgedInv' /\ NamedInv'
      BY <1>1, <1>2, <1>5, <2>1 DEF JudgedInv, NamedInv, OnTheWay
    <2> QED
      BY <2>2, <2>3, <2>4 DEF ExactInv
  <1>9. ASSUME NEW how \in Faults, LinkBreaks(how) PROVE FALSE
    BY <1>9 DEF LinkBreaks, Calm, LinkStates
  <1> QED
    BY <1>6, <1>7, <1>8, <1>9 DEF Environment, GatewayStep, FaultStep, Calm

\* Handing a token over adds it to what was reported.
LEMMA ReportedAppend ==
    ASSUME NEW x \in Index, reported \in Seq(Index), reported' = Append(reported, x)
    PROVE  Reported' = Reported \union {x}
  <1>1. Len(reported') = Len(reported) + 1 /\ Len(reported) \in Nat
        /\ reported'[Len(reported) + 1] = x
        /\ \A k \in 1 .. Len(reported) : reported'[k] = reported[k]
    OBVIOUS
  <1>2. 1 .. Len(reported') = (1 .. Len(reported)) \union {Len(reported) + 1}
    BY <1>1
  <1>3. \A y : y \in Reported' <=> \E k \in (1 .. Len(reported)) \union {Len(reported) + 1} :
                                      reported'[k] = y
    BY <1>2 DEF Reported
  <1>4. \A y : y \in Reported <=> \E k \in 1 .. Len(reported) : reported[k] = y
    BY DEF Reported
  <1> QED
    BY <1>1, <1>3, <1>4

\* In a calm environment an attempt only fails on a packet that names a token.
LEMMA CalmFailure ==
    ASSUME Calm, TypeOK, CloseInv, ExactInv, pc = "failed"
    PROVE  /\ Errcode = "TOKEN_INVALID" /\ invalid_index \in bounced
           /\ NextStart(Errcode, invalid_index) = invalid_index + 1
           /\ reply = NoReply /\ ~Alive
           /\ DecidedBelow(invalid_index + 1)
  <1>1. code = InvalidToken /\ DecidedBelow(invalid_index)
    BY DEF ExactInv, ProgressInv
  <1>2. Errcode = "TOKEN_INVALID"
    BY <1>1, ErrcodeInvalid DEF CloseInv
  <1>3. invalid_index \in bounced
    BY <1>1 DEF CloseInv, ResumeInv, FailedInv, InvalidToken
  <1>4. reply = NoReply /\ ~Alive
    BY DEF CloseInv, StreamInv, ResumeInv, ReplyInv
  <1>5. DecidedBelow(invalid_index + 1)
    <2> SUFFICES ASSUME NEW x \in Index, x < invalid_index + 1 PROVE Decided(x)
      BY DEF DecidedBelow
    <2>1. CASE x = invalid_index
      BY <1>3, <2>1 DEF Decided
    <2>2. CASE x # invalid_index
      <3>1. x < invalid_index
        BY NAssumption, <2>2 DEF Index, TypeOK
      <3> QED
        BY <1>1, <3>1 DEF DecidedBelow
    <2> QED
      BY <2>1, <2>2
  <1> QED
    BY <1>2, <1>3, <1>4, <1>5 DEF NextStart

LEMMA ExactClient ==
    ASSUME Calm, TypeOK, IndexInv, CloseInv, ExactInv, Client \/ ClientFault
    PROVE  ExactInv'
  <1> USE NAssumption
  <1>2. ProgressInv /\ PacketInv /\ JudgedInv /\ NamedInv
    BY DEF ExactInv
  <1>3. StreamInv /\ TopInv /\ AttemptInv /\ ReplyInv /\ FailedInv
    BY DEF CloseInv, ResumeInv
  <1>4. i \in 0 .. N /\ start_index \in 0 .. N /\ wire \in Seq(Frame) /\ Len(wire) \in Nat
        /\ invalid_index \in 0 .. N /\ reported \in Seq(Index) /\ bounced \subseteq Index
        /\ auto_reconnect \in {0, 1}
    BY DEF TypeOK, GatewayTypeOK
  <1>5. ASSUME UNCHANGED <<kind, delivered, bounced>>
        PROVE  JudgedInv' /\ (\A x \in Index : Decided(x)' <=> Decided(x))
    BY <1>2, <1>5 DEF JudgedInv, Decided
  <1>6. ASSUME UNCHANGED <<bounced, reported, reply, invalid_index>>,
               pc # "failed", pc' # "failed"
        PROVE  NamedInv'
    BY <1>2, <1>6 DEF NamedInv, OnTheWay, Reported
  <1>7. CASE StartAttempt
    <2>1. /\ UNCHANGED <<kind, delivered, bounced, reported, start_index, link, wire, gw, reply>>
          /\ pc = "top" /\ pc' = "loop" /\ i' = start_index /\ auto_reconnect = 0
      BY <1>7 DEF StartAttempt, gatewayVars
    <2>2. Alive /\ Alive' /\ i = start_index /\ reply = NoReply
      BY <1>2, <1>3, <2>1 DEF PacketInv, StreamInv, Alive
    <2>3. ProgressInv'
      BY <1>2, <1>5, <2>1, <2>2 DEF ProgressInv, NothingSkipped, DecidedBelow
    <2>4. PacketInv'
      BY <2>1, <2>2 DEF PacketInv
    <2>5. NamedInv'
      BY <1>2, <2>1, <2>2 DEF NamedInv, OnTheWay, Reported
    <2> QED
      BY <1>5, <2>1, <2>3, <2>4, <2>5 DEF ExactInv
  <1>8. CASE Close
    <2>1. /\ UNCHANGED <<kind, delivered, bounced, reported, start_index>>
          /\ pc = "top" /\ pc' = "connect" /\ reply' = NoReply /\ ~Alive'
      BY <1>8 DEF Close, LinkClosed, Alive
    <2>2. reply = NoReply
      BY <1>3, <2>1 DEF ReplyInv
    <2>3. ProgressInv' /\ PacketInv'
      BY <1>2, <1>5, <2>1 DEF ProgressInv, PacketInv, NothingSkipped
    <2>4. NamedInv'
      BY <1>2, <2>1, <2>2 DEF NamedInv, OnTheWay, Reported
    <2> QED
      BY <1>5, <2>1, <2>3, <2>4 DEF ExactInv
  <1>9. CASE ReconnectOk
    <2>1. /\ UNCHANGED <<kind, delivered, bounced, reported, start_index, wire, reply>>
          /\ pc = "connect" /\ pc' = "loop" /\ i' = start_index /\ wire = <<>> /\ reply = NoReply
          /\ Alive'
      BY <1>3, <1>9 DEF ReconnectOk, TopInv, Alive
    <2>2. i' - Len(wire') = start_index
      BY <1>4, <2>1
    <2>3. ProgressInv'
      BY <1>2, <1>5, <2>1, <2>2 DEF ProgressInv, NothingSkipped, DecidedBelow
    <2>4. PacketInv'
      BY <2>1 DEF PacketInv
    <2>5. NamedInv'
      BY <1>2, <2>1 DEF NamedInv, OnTheWay, Reported
    <2> QED
      BY <1>5, <2>1, <2>3, <2>4, <2>5 DEF ExactInv
  <1>10. CASE ReconnectFails
    <2>1. /\ UNCHANGED <<kind, delivered, bounced, reported, start_index, wire, reply,
                         gw, invalid_index, i>>
          /\ pc = "connect" /\ pc' = "done" /\ ret' = "ERROR" /\ wire = <<>> /\ reply = NoReply
          /\ ~Alive'
      BY <1>3, <1>10 DEF ReconnectFails, TopInv, Alive, Leftovers
    <2>2. ProgressInv' /\ PacketInv'
      BY <1>2, <1>5, <2>1 DEF ProgressInv, PacketInv, NothingSkipped, Alive
    <2> QED
      BY <1>5, <1>6, <2>1, <2>2 DEF ExactInv
  <1>11. CASE Select
    <2>1. /\ UNCHANGED <<kind, delivered, bounced, reported, start_index, wire, reply,
                         link, gw, invalid_index, i>>
          /\ pc = "loop" /\ pc' \in {"read", "write"}
          /\ (pc' = "read" => reply # NoReply \/ ~Alive)
      BY <1>11 DEF Select, gatewayVars, Readable, Alive
    <2>2. ProgressInv' /\ PacketInv'
      BY <1>2, <1>5, <2>1 DEF ProgressInv, PacketInv, NothingSkipped, Alive, DecidedBelow
    <2> QED
      BY <1>5, <1>6, <2>1, <2>2 DEF ExactInv
  <1>12. CASE FinalSelect
    <2>1. /\ UNCHANGED <<kind, delivered, bounced, reported, start_index, wire, reply,
                         link, gw, invalid_index, i>>
          /\ pc = "loop" /\ pc' \in {"read", "done"} /\ i = N
          /\ (pc' = "read" => reply # NoReply \/ ~Alive)
          /\ (pc' = "done" => reply = NoReply /\ Alive /\ wire = <<>>)
      BY <1>12 DEF FinalSelect, gatewayVars, Readable, Alive, Calm
    <2>2. PacketInv'
      BY <1>2, <2>1 DEF PacketInv, Alive
    <2>3. pc' = "done" => DecidedBelow(N)'
      <3>1. pc' = "done" => i - Len(wire) = N
        BY <1>4, <2>1
      <3> QED
        BY <1>2, <1>5, <2>1, <3>1 DEF ProgressInv, DecidedBelow
    <2>4. ProgressInv'
      BY <1>2, <1>5, <2>1, <2>3 DEF ProgressInv, NothingSkipped, Alive, DecidedBelow
    <2> QED
      BY <1>5, <1>6, <2>1, <2>2, <2>4 DEF ExactInv
  <1>13. CASE SelectFails
    BY <1>13 DEF SelectFails, Calm
  <1>14. CASE Read
    <2>1. /\ UNCHANGED <<kind, delivered, bounced, reported, start_index, wire, link, gw, i>>
          /\ pc = "read" /\ pc' = "failed" /\ reply # NoReply /\ reply' = NoReply
          /\ code' = InvalidToken /\ invalid_index' = reply.id
      BY <1>2, <1>3, <1>14 DEF Read, PacketInv, ReplyInv, ParsedIndex
    <2>2. ProgressInv'
      BY <1>2, <1>5, <2>1 DEF ProgressInv, NothingSkipped, Alive, DecidedBelow
    <2>3. PacketInv'
      BY <2>1 DEF PacketInv
    <2>4. NamedInv'
      BY <1>2, <2>1 DEF NamedInv, OnTheWay, Reported
    <2> QED
      BY <1>5, <2>1, <2>2, <2>3, <2>4 DEF ExactInv
  <1>15. CASE Write
    <2>1. /\ UNCHANGED <<kind, delivered, bounced, reported, start_index, reply, link, gw,
                         invalid_index>>
          /\ pc = "write" /\ pc' = "loop" /\ i' = i + 1 /\ Len(wire') = Len(wire) + 1
      BY <1>4, <1>15 DEF Write
    <2>2. i' - Len(wire') = i - Len(wire)
      BY <1>4, <2>1
    <2>3. ProgressInv'
      BY <1>2, <1>5, <2>1, <2>2 DEF ProgressInv, NothingSkipped, Alive, DecidedBelow
    <2>4. PacketInv'
      BY <1>2, <2>1 DEF PacketInv, Alive
    <2> QED
      BY <1>5, <1>6, <2>1, <2>3, <2>4 DEF ExactInv
  <1>16. CASE WriteFails \/ Killed
    BY <1>3, <1>16 DEF WriteFails, Killed, TopInv
  <1>17. CASE HandleFailure
    <2>1. /\ UNCHANGED <<kind, delivered, bounced, wire, reply, link, gw, code, invalid_index, i>>
          /\ pc = "failed" /\ pc' \in {"top", "done"}
          /\ start_index' = NextStart(Errcode, invalid_index)
      BY <1>17 DEF HandleFailure, GoOn, GiveUp, gatewayVars
    <2>2. /\ Errcode = "TOKEN_INVALID" /\ invalid_index \in bounced
          /\ start_index' = invalid_index + 1 /\ reply = NoReply /\ ~Alive /\ ~Alive'
      BY <2>1, CalmFailure DEF Alive
    <2>3. DecidedBelow(start_index)'
      <3>1. DecidedBelow(invalid_index + 1)
        BY <2>1, CalmFailure
      <3> QED
        BY <1>5, <2>1, <2>2, <3>1 DEF DecidedBelow
    <2>4. pc' = "done" => start_index' = N
      <3>1. pc' = "done" => start_index' >= N
        BY <1>17, <2>1 DEF HandleFailure, GoOn, GiveUp
      <3>2. invalid_index \in Index
        BY <1>4, <2>2
      <3> QED
        BY <2>2, <3>1, <3>2 DEF Index
    <2>5. pc' = "top" => auto_reconnect' = 1
      BY <1>17, <2>1, <2>2 DEF HandleFailure, GoOn, GiveUp, Calm, Reconnectable
    <2>6. ProgressInv'
      BY <2>1, <2>2, <2>3, <2>4 DEF ProgressInv, NothingSkipped, DecidedBelow
    <2>7. PacketInv'
      BY <2>1, <2>2, <2>5 DEF PacketInv
    <2>8. NamedInv'
      <3> SUFFICES ASSUME Collect PROVE NamedInv'
        BY DEF NamedInv
      <3>1. reported' = Append(reported, invalid_index)
        BY <1>17, <2>2 DEF HandleFailure
      <3>2. invalid_index \in Index
        BY <1>4, <2>2
      <3>3. Reported' = Reported \union {invalid_index}
        BY <1>4, <3>1, <3>2, ReportedAppend
      <3> QED
        BY <1>2, <2>1, <2>2, <3>3 DEF NamedInv, OnTheWay
    <2> QED
      BY <1>5, <2>1, <2>6, <2>7, <2>8 DEF ExactInv
  <1> QED
    BY <1>7, <1>8, <1>9, <1>10, <1>11, <1>12, <1>13, <1>14, <1>15, <1>16, <1>17
       DEF Client, ClientFault

\* What a calm environment adds to CloseInv: everything before the place the
\* stream, a packet or a failed attempt stands for is decided, no connection is
\* used whose packet nobody will read, and every refused token is handed over or
\* about to be (apn.c:313-388, 671-768).
THEOREM ExactInvariant ==
    ASSUME Calm
    PROVE  Spec => []ExactInv
  <1>1. Init => ExactInv
    BY ExactInit
  <1>2. TypeOK /\ IndexInv /\ CloseInv /\ ExactInv /\ [Next]_vars => ExactInv'
    <2> SUFFICES ASSUME TypeOK, IndexInv, CloseInv, ExactInv, [Next]_vars
                 PROVE  ExactInv'
      OBVIOUS
    <2>1. CASE UNCHANGED vars
      BY <2>1 DEF vars, gatewayVars, callVars, ExactInv, ProgressInv, PacketInv, JudgedInv,
         NamedInv, OnTheWay, Reported, NothingSkipped, DecidedBelow, Decided, Alive
    <2> QED
      BY <2>1, ExactGateway, ExactClient DEF Next, Terminated
  <1>3. Spec => []CloseInv
    BY CalmIsGentle, CloseInvariant
  <1> QED
    BY <1>1, <1>2, <1>3, TypeCorrect, PTL DEF Spec

\* In a calm environment apn_send never resumes behind a token that was neither
\* delivered nor refused, for any number of tokens and attempts (apn.c:359).
THEOREM NothingSkippedHolds ==
    ASSUME Calm
    PROVE  Spec => []NothingSkipped
  <1>1. ExactInv => NothingSkipped
    BY DEF ExactInv, ProgressInv
  <1> QED
    BY <1>1, ExactInvariant, PTL

\* In a calm environment APN_SUCCESS means that every registered device was
\* notified, every other token refused, and that a caller who asks for the invalid
\* tokens gets all of them (apn.c:331, 372-375, 383-387).
THEOREM SuccessMeansDecidedHolds ==
    ASSUME Calm
    PROVE  Spec => []SuccessMeansDecided
  <1>1. TypeOK /\ ExactInv => SuccessMeansDecided
    <2> SUFFICES ASSUME TypeOK, ExactInv, pc = "done", ret = "SUCCESS"
                 PROVE  /\ \A x \in Index : IF kind[x] = "good" THEN delivered[x] > 0
                                                               ELSE x \in bounced
                        /\ Collect => Reported = bounced
      BY DEF SuccessMeansDecided
    <2>1. \A x \in Index : Decided(x)
      BY NAssumption DEF ExactInv, ProgressInv, DecidedBelow, Index
    <2>2. Collect => bounced = Reported \union {}
      BY DEF ExactInv, PacketInv, NamedInv, OnTheWay
    <2> QED
      BY <2>1, <2>2 DEF ExactInv, JudgedInv, Decided
  <1> QED
    BY <1>1, ExactInvariant, TypeCorrect, PTL

-----------------------------------------------------------------------------
(* apn_send implements Broadcast without loss                               *)

LEMMA ExactBroadcastInit == Init => Exact!Init
  <1> SUFFICES ASSUME Init PROVE Exact!Init
    OBVIOUS
  <1>1. kind \in [Index -> {"good", "unknown", "malformed"}]
    BY KindsAssumption DEF Init, GatewayInit
  <1>2. Reported = {}
    BY DEF Init, Reported
  <1>3. answer = "none"
    BY DEF Init, answer
  <1> QED
    BY <1>1, <1>2, <1>3 DEF Init, GatewayInit, Exact!Init, Exact!Index, Index

\* A frame taken off a live stream is the decision whose turn it is.
LEMMA ExactBroadcastGateway ==
    ASSUME Calm, TypeOK, CloseInv, ExactInv, Environment
    PROVE  [Exact!Next]_(Exact!bvars)
  <1> USE NAssumption
  <1>1. UNCHANGED <<Reported, answer>>
    BY DEF Environment, callVars, Reported, answer
  <1>2. ASSUME NEW d \in Index, d = i - Len(wire), Alive
        PROVE  Exact!Turn(d) /\ delivered[d] = 0
    <2>1. Undecided(d) /\ DecidedBelow(d)
      BY <1>2 DEF CloseInv, StreamInv, ExactInv, ProgressInv
    <2>2. \A y \in Index : (y >= d => ~Exact!Decided(y)) /\ (y < d => Exact!Decided(y))
      BY <2>1 DEF Undecided, DecidedBelow, Decided, Exact!Decided
    <2>3. ~(delivered[d] > 0) /\ delivered[d] \in 0 .. 2
      BY <2>1 DEF Undecided, Decided, TypeOK, GatewayTypeOK, Index
    <2> QED
      BY <2>2, <2>3 DEF Exact!Turn, Exact!Index, Index
  <1>3. CASE GwAccept
    <2>1. PICK d \in Index : d = i - Len(wire)
      BY <1>3, StreamHead DEF GwAccept
    <2>2. kind[d] = "good" /\ delivered' = Bump(delivered, d) /\ UNCHANGED <<kind, bounced>> /\ Alive
      BY <1>3, <2>1, StreamHead DEF GwAccept, Handling, Alive
    <2>3. Exact!Turn(d) /\ delivered[d] = 0
      BY <1>2, <2>1, <2>2
    <2>4. delivered' = [delivered EXCEPT ![d] = 1]
      BY <2>2, <2>3 DEF Bump
    <2>5. Exact!Deliver(d)
      BY <1>1, <2>2, <2>3, <2>4 DEF Exact!Deliver
    <2> QED
      BY <2>5 DEF Exact!Next, Exact!Index, Index
  <1>4. CASE GwReject
    <2>1. PICK d \in Index : d = i - Len(wire)
      BY <1>4, StreamHead DEF GwReject
    <2>2. kind[d] # "good" /\ bounced' = bounced \union {d} /\ UNCHANGED <<kind, delivered>> /\ Alive
      BY <1>4, <2>1, StreamHead DEF GwReject, Handling, Alive
    <2>3. Exact!Bounce(d)
      BY <1>1, <1>2, <2>1, <2>2 DEF Exact!Bounce
    <2> QED
      BY <2>3 DEF Exact!Next, Exact!Index, Index
  <1>5. CASE GwDiscard \/ GwHangUp
    BY <1>1, <1>5 DEF GwDiscard, GwHangUp, Exact!bvars
  <1>6. ASSUME NEW how \in Faults, LinkBreaks(how) PROVE FALSE
    BY <1>6 DEF LinkBreaks, Calm, LinkStates
  <1> QED
    BY <1>3, <1>4, <1>5, <1>6 DEF Environment, GatewayStep, FaultStep, Calm

\* The call hands over a token that was refused, answers an error, or answers
\* success when everything is decided and handed over.
LEMMA ExactBroadcastClient ==
    ASSUME Calm, Collect, TypeOK, CloseInv, ExactInv, SuccessMeansDecided',
           Client \/ ClientFault
    PROVE  [Exact!Next]_(Exact!bvars)
  <1>1. ASSUME pc' = "done", ret' = "SUCCESS", UNCHANGED <<kind, delivered, bounced>>
        PROVE  Exact!Complete
    <2>1. Reported' = bounced /\ \A x \in Index : Decided(x)
      BY <1>1 DEF SuccessMeansDecided, Decided
    <2> QED
      BY <2>1 DEF Exact!Complete, Exact!Decided, Exact!Index, Decided, Index
  <1>2. CASE HandleFailure
    <2>1. UNCHANGED <<kind, delivered, bounced>> /\ pc = "failed" /\ answer = "none"
      BY <1>2, AnswerMeaning DEF HandleFailure, gatewayVars
    <2>2. Errcode = "TOKEN_INVALID" /\ invalid_index \in bounced
      BY <2>1, CalmFailure
    <2>3. pc' = "top" \/ (pc' = "done" /\ ret' = "SUCCESS")
      BY <1>2, <2>2 DEF HandleFailure, GoOn, GiveUp
    <2>4. answer' = "none" \/ (answer' = "SUCCESS" /\ Exact!Complete)
      BY <1>1, <2>1, <2>3 DEF answer
    <2>5. reported \in Seq(Index) /\ invalid_index \in Index
          /\ reported' = Append(reported, invalid_index)
      BY <1>2, <2>2 DEF HandleFailure, TypeOK, GatewayTypeOK
    <2>6. Reported' = Reported \union {invalid_index}
      BY <2>5, ReportedAppend
    <2>7. Exact!Report(invalid_index)
      BY <2>1, <2>2, <2>4, <2>6 DEF Exact!Report
    <2> QED
      BY <2>5, <2>7 DEF Exact!Next, Exact!Index, Index
  <1>3. CASE FinalSelect \/ ReconnectFails
    <2>1. UNCHANGED <<kind, delivered, bounced>> /\ Reported' = Reported /\ answer = "none"
      BY <1>3, AnswerMeaning DEF FinalSelect, ReconnectFails, gatewayVars, Reported
    <2>2. pc' = "read" \/ (pc' = "done" /\ ret' \in {"ERROR", "SUCCESS"})
      BY <1>3 DEF FinalSelect, ReconnectFails
    <2>3. answer' = "none" \/ answer' = "ERROR" \/ (answer' = "SUCCESS" /\ Exact!Complete)
      BY <1>1, <2>1, <2>2 DEF answer
    <2> QED
      BY <2>1, <2>3 DEF Exact!Next, Exact!Answer, Exact!bvars
  <1>4. ASSUME UNCHANGED <<kind, delivered, bounced, reported>>, pc # "done", pc' # "done"
        PROVE  UNCHANGED Exact!bvars
    BY <1>4 DEF Exact!bvars, answer, Reported
  <1>5. CASE StartAttempt \/ Close \/ ReconnectOk
    BY <1>4, <1>5 DEF StartAttempt, Close, LinkClosed, ReconnectOk, gatewayVars
  <1>6. CASE Select \/ Read \/ Write \/ SelectFails
    BY <1>4, <1>6 DEF Select, Read, Write, SelectFails, gatewayVars
  <1>7. CASE WriteFails \/ Killed
    BY <1>4, <1>7 DEF WriteFails, Killed, gatewayVars, callVars
  <1> QED
    BY <1>2, <1>3, <1>5, <1>6, <1>7 DEF Client, ClientFault

\* In a calm environment, and for a caller that asks for the invalid tokens,
\* apn_send decides every token in the order of the list, each exactly once, and
\* answers success only when all are decided and all refused ones handed over.
THEOREM ImplementsBroadcastExactly ==
    ASSUME Calm, Collect
    PROVE  Spec => ImplementsExact
  <1>1. Init => Exact!Init
    BY ExactBroadcastInit
  <1>2. TypeOK /\ CloseInv /\ ExactInv /\ SuccessMeansDecided' /\ [Next]_vars
          => [Exact!Next]_(Exact!bvars)
    <2> SUFFICES ASSUME TypeOK, CloseInv, ExactInv, SuccessMeansDecided', [Next]_vars
                 PROVE  [Exact!Next]_(Exact!bvars)
      OBVIOUS
    <2>1. CASE UNCHANGED vars
      BY <2>1 DEF vars, gatewayVars, callVars, Exact!bvars, answer, Reported
    <2>2. CASE Environment
      BY <2>2, ExactBroadcastGateway
    <2>3. CASE Client \/ ClientFault
      BY <2>3, ExactBroadcastClient
    <2> QED
      BY <2>1, <2>2, <2>3 DEF Next, Terminated
  <1>3. Spec => []CloseInv
    BY CalmIsGentle, CloseInvariant
  <1> QED
    BY <1>1, <1>2, <1>3, TypeCorrect, ExactInvariant, SuccessMeansDecidedHolds, PTL
       DEF Spec, ImplementsExact, Exact!Spec

-----------------------------------------------------------------------------
(* A second notification of a device, in every environment                  *)

LEMMA OrderlyInit == Init => OrderlyInv
  <1> SUFFICES ASSUME Init PROVE AtMostOnce /\ InFlight /\ AheadInv /\ FailureInv
    BY DEF OrderlyInv
  <1> USE NAssumption DEF Init, GatewayInit
  <1>1. Undecided(0)
    BY DEF Undecided, Decided
  <1>2. AtMostOnce
    BY DEF AtMostOnce
  <1>3. InFlight
    BY <1>1 DEF InFlight
  <1>4. AheadInv /\ FailureInv
    BY <1>1 DEF AheadInv, FailureInv
  <1> QED
    BY <1>2, <1>3, <1>4

\* The oldest frame on a live connection, and those behind it.
LEMMA FlightHead ==
    ASSUME TypeOK, InFlight, Handling
    PROVE  /\ i - Len(wire) \in Index /\ i > 0 /\ Alive
           /\ Head(wire).id = i - Len(wire) /\ Head(wire).dev = i - Len(wire)
           /\ Head(wire).dev # NoDevice
           /\ Len(Tail(wire)) = Len(wire) - 1 /\ Len(wire) > 0 /\ Len(wire) \in Nat
           /\ \A k \in 1 .. Len(Tail(wire)) :
                 Tail(wire)[k] = [id |-> (i - Len(wire)) + k, dev |-> (i - Len(wire)) + k]
  <1> USE NAssumption
  <1>1. Alive /\ wire # <<>> /\ wire \in Seq(Frame) /\ i \in 0 .. N
    BY DEF Handling, Alive, TypeOK, GatewayTypeOK
  <1>2. Len(wire) \in Nat /\ Len(wire) > 0 /\ Len(Tail(wire)) = Len(wire) - 1
    BY <1>1
  <1>3. /\ Len(wire) <= i
        /\ \A k \in 1 .. Len(wire) :
              wire[k] = [id |-> (i - Len(wire)) + (k - 1), dev |-> (i - Len(wire)) + (k - 1)]
    BY <1>1 DEF InFlight
  <1>4. i - Len(wire) \in Index /\ i > 0
    BY <1>1, <1>2, <1>3 DEF Index
  <1>5. Head(wire) = [id |-> i - Len(wire), dev |-> i - Len(wire)]
    <2>1. Head(wire) = wire[1]
      BY <1>1
    <2>2. wire[1] = [id |-> (i - Len(wire)) + (1 - 1), dev |-> (i - Len(wire)) + (1 - 1)]
      BY <1>2, <1>3
    <2> QED
      BY <1>1, <1>2, <2>1, <2>2
  <1>6. ASSUME NEW k \in 1 .. Len(Tail(wire))
        PROVE  Tail(wire)[k] = [id |-> (i - Len(wire)) + k, dev |-> (i - Len(wire)) + k]
    <2>1. Tail(wire)[k] = wire[k + 1] /\ k + 1 \in 1 .. Len(wire)
      BY <1>1, <1>2
    <2>2. wire[k + 1] = [id |-> (i - Len(wire)) + ((k + 1) - 1), dev |-> (i - Len(wire)) + ((k + 1) - 1)]
      BY <1>3, <2>1
    <2> QED
      BY <2>1, <2>2
  <1> QED
    BY <1>1, <1>2, <1>4, <1>5, <1>6 DEF Index, NoDevice

\* Once d is decided, nothing behind it is.
LEMMA UndecidedNext ==
    ASSUME NEW d \in Index, Undecided(d),
           \A x \in Index \ {d} : Decided(x)' => Decided(x)
    PROVE  Undecided(d + 1)'
  <1> SUFFICES ASSUME NEW x \in Index, x >= d + 1 PROVE ~Decided(x)'
    BY DEF Undecided
  <1>1. x # d /\ x >= d
    BY NAssumption DEF Index
  <1> QED
    BY <1>1 DEF Undecided

LEMMA OrderlyGateway ==
    ASSUME TypeOK, IndexInv, OrderlyInv, Environment
    PROVE  OrderlyInv'
  <1> SUFFICES ASSUME Regular' PROVE (AtMostOnce /\ InFlight /\ AheadInv /\ FailureInv)'
    BY DEF OrderlyInv
  <1> USE NAssumption
  <1>1. UNCHANGED <<pc, start_index, invalid_index, code, i, device, kind, rewound>>
    BY DEF Environment, callVars, GatewayStep, FaultStep, GwAccept, GwReject, GwDiscard, GwHangUp,
           GwRefuse, LinkBreaks
  <1>2. AtMostOnce /\ InFlight /\ AheadInv /\ FailureInv
    BY <1>1 DEF OrderlyInv, Regular
  <1>3. i \in 0 .. N /\ start_index \in 0 .. N /\ delivered \in [Index -> 0 .. 2]
        /\ bounced \subseteq Index /\ wire \in Seq(Frame) /\ reply.id \in Index
        /\ invalid_index \in 0 .. N /\ code \in Nat
    BY DEF TypeOK, GatewayTypeOK, AppleCodes, ServiceShutdown
  <1>4. ASSUME Alive, wire # <<>>
        PROVE  /\ pc \notin {"top", "connect", "read"} /\ reply = NoReply
               /\ pc = "failed" => code = 0 /\ invalid_index = 0
    BY <1>2, <1>3, <1>4 DEF InFlight, AheadInv, FailureInv, Alive
  <1>5. CASE GwAccept
    <2>1. PICK d \in Index : d = i - Len(wire) /\ d \in Nat
      BY <1>2, <1>5, FlightHead DEF GwAccept, Index
    <2>2. /\ Alive /\ Handling /\ Alive' /\ UNCHANGED <<kind, link, gw, reply, bounced>>
          /\ wire' = Tail(wire) /\ delivered' = Bump(delivered, d) /\ wire # <<>>
          /\ Len(wire') = Len(wire) - 1 /\ Len(wire) > 0 /\ Len(wire) \in Nat
      <3>1. /\ Handling /\ UNCHANGED <<kind, link, gw, reply, bounced>>
            /\ wire' = Tail(wire) /\ delivered' = Bump(delivered, Head(wire).dev)
        BY <1>5 DEF GwAccept
      <3>2. /\ Alive /\ Head(wire).dev = d /\ Len(Tail(wire)) = Len(wire) - 1
            /\ Len(wire) > 0 /\ Len(wire) \in Nat
        BY <1>2, <2>1, <3>1, FlightHead
      <3> QED
        BY <3>1, <3>2 DEF Alive, Handling
    <2>3. Undecided(d)
      BY <1>2, <2>1, <2>2 DEF InFlight
    <2>4. delivered[d] = 0
      <3>1. ~(delivered[d] > 0)
        BY <2>1, <2>3 DEF Undecided, Decided
      <3> QED
        BY <1>3, <2>1, <3>1
    <2>5. delivered' = [delivered EXCEPT ![d] = 1]
      BY <2>2, <2>4 DEF Bump
    <2>6. Undecided(d + 1)'
      <3>1. \A x \in Index \ {d} : Decided(x)' => Decided(x)
        BY <1>3, <2>1, <2>2, <2>5 DEF Decided
      <3> QED
        BY <2>1, <2>3, <3>1, UndecidedNext
    <2>7. i' - Len(wire') = d + 1 /\ Len(wire') <= i' /\ d + 1 <= i
      BY <1>1, <1>3, <2>1, <2>2
    <2>8. Undecided(i)'
      BY <1>1, <1>3, <2>1, <2>6, <2>7 DEF Undecided, Index
    <2>9. \A k \in 1 .. Len(wire') :
             wire'[k] = [id |-> (d + 1) + (k - 1), dev |-> (d + 1) + (k - 1)]
      <3> SUFFICES ASSUME NEW k \in 1 .. Len(Tail(wire))
                   PROVE  Tail(wire)[k] = [id |-> (d + 1) + (k - 1), dev |-> (d + 1) + (k - 1)]
        BY <2>2
      <3>1. Tail(wire)[k] = [id |-> d + k, dev |-> d + k]
        BY <1>2, <2>1, <2>2, FlightHead
      <3>2. (d + 1) + (k - 1) = d + k
        BY <2>1
      <3> QED
        BY <3>1, <3>2
    <2>10. AtMostOnce'
      BY <1>2, <1>3, <2>1, <2>5 DEF AtMostOnce
    <2>11. InFlight'
      BY <1>1, <1>4, <2>2, <2>6, <2>7, <2>9 DEF InFlight
    <2>12. AheadInv'
      BY <1>1, <1>2, <1>4, <2>2, <2>8 DEF AheadInv
    <2>13. FailureInv'
      BY <1>1, <1>4, <2>2 DEF FailureInv, InvalidToken
    <2> QED
      BY <2>10, <2>11, <2>12, <2>13
  <1>6. ASSUME Alive, ~Alive', wire # <<>>, i > 0, UNCHANGED <<link, delivered>>,
               Undecided(i)', reply' # NoReply,
               reply'.code = InvalidToken => Undecided(reply.id + 1)'
        PROVE  (AtMostOnce /\ InFlight /\ AheadInv /\ FailureInv)'
    <2>1. AtMostOnce' /\ InFlight'
      BY <1>2, <1>6 DEF AtMostOnce, InFlight
    <2>2. AheadInv'
      BY <1>1, <1>2, <1>4, <1>6 DEF AheadInv
    <2>3. FailureInv'
      BY <1>1, <1>4, <1>6 DEF FailureInv, InvalidToken
    <2> QED
      BY <2>1, <2>2, <2>3
  <1>7. CASE GwReject
    <2>1. PICK d \in Index : d = i - Len(wire) /\ d \in Nat
      BY <1>2, <1>7, FlightHead DEF GwReject, Index
    <2>2. /\ Alive /\ ~Alive' /\ UNCHANGED <<link, delivered>> /\ wire # <<>>
          /\ reply' = [code |-> InvalidToken, id |-> d] /\ bounced' = bounced \union {d}
          /\ Len(wire) > 0 /\ Len(wire) \in Nat /\ i > 0
      BY <1>2, <1>7, <2>1, FlightHead DEF GwReject, Handling, Alive
    <2>3. Undecided(d)
      BY <1>2, <2>1, <2>2 DEF InFlight
    <2>4. Undecided(d + 1)'
      <3>1. \A x \in Index \ {d} : Decided(x)' => Decided(x)
        BY <2>2 DEF Decided
      <3> QED
        BY <2>1, <2>3, <3>1, UndecidedNext
    <2>5. Undecided(i)'
      BY <1>1, <1>3, <2>1, <2>2, <2>4 DEF Undecided, Index
    <2>6. reply' # NoReply /\ reply'.id = d
      BY <2>2 DEF NoReply, InvalidToken
    <2>7. Undecided(reply.id + 1)'
      BY <2>4, <2>6 DEF Undecided
    <2> QED
      BY <1>6, <2>2, <2>5, <2>6, <2>7
  <1>8. ASSUME NEW c \in Codes, GwRefuse(c)
        PROVE  (AtMostOnce /\ InFlight /\ AheadInv /\ FailureInv)'
    <2>0. PICK d \in Index : d = i - Len(wire) /\ d \in Nat /\ d = Head(wire).id
      BY <1>2, <1>8, FlightHead DEF GwRefuse, Index
    <2>1. /\ Alive /\ ~Alive' /\ UNCHANGED <<link, delivered>> /\ wire # <<>>
          /\ reply' = [code |-> c, id |-> d] /\ i > 0 /\ bounced' \in {bounced, bounced \union {d}}
      BY <1>2, <1>8, <2>0, FlightHead DEF GwRefuse, Handling, Alive
    <2>2. c # InvalidToken /\ c # 0
      BY CodesAssumption DEF AppleCodes, InvalidToken, ServiceShutdown
    <2>3. reply' # NoReply /\ reply'.code # InvalidToken
      BY <2>1, <2>2 DEF NoReply
    <2>4. Undecided(i - Len(wire)) /\ Len(wire) \in Nat \ {0}
      BY <1>2, <1>3, <2>1 DEF InFlight
    <2>5. Undecided(i)'
      <3>1. \A x \in Index : x >= i => x >= d /\ x # d
        BY <1>3, <2>0, <2>4 DEF Index
      <3>2. \A x \in Index \ {d} : Decided(x)' => Decided(x)
        BY <2>1 DEF Decided
      <3> QED
        BY <1>1, <2>0, <2>4, <3>1, <3>2 DEF Undecided
    <2> QED
      BY <1>6, <2>1, <2>3, <2>5
  <1>9. ASSUME UNCHANGED <<reply, delivered, bounced>>, ~Alive',
               pc # "connect" \/ UNCHANGED <<wire, gw, link>>
        PROVE  (AtMostOnce /\ InFlight /\ AheadInv /\ FailureInv)'
    <2>1. \A x \in Index : Decided(x)' <=> Decided(x)
      BY <1>9 DEF Decided
    <2>2. AtMostOnce' /\ InFlight'
      BY <1>2, <1>9 DEF AtMostOnce, InFlight
    <2>3. AheadInv'
      BY <1>1, <1>2, <1>9, <2>1 DEF AheadInv, Undecided
    <2>4. FailureInv'
      BY <1>1, <1>2, <1>9, <2>1 DEF FailureInv, Undecided
    <2> QED
      BY <2>2, <2>3, <2>4
  <1>10. CASE GwDiscard \/ GwHangUp \/ \E how \in Faults : LinkBreaks(how)
    <2>1. UNCHANGED <<reply, delivered, bounced>> /\ ~Alive' /\ link # "closed"
      BY <1>10 DEF GwDiscard, GwHangUp, LinkBreaks, Alive, LinkStates
    <2>2. pc # "connect"
      BY <1>2, <2>1 DEF AheadInv
    <2> QED
      BY <1>9, <2>1, <2>2
  <1> QED
    BY <1>5, <1>7, <1>8, <1>10 DEF Environment, GatewayStep, FaultStep

\* The client's steps decide nothing.
LEMMA ClientDecides ==
    ASSUME UNCHANGED <<delivered, bounced>>
    PROVE  \A d : Undecided(d)' <=> Undecided(d)
  BY DEF Undecided, Decided

LEMMA OrderlyWrite ==
    ASSUME TypeOK, IndexInv, Regular, InFlight, AheadInv, FailureInv, Write
    PROVE  (InFlight /\ AheadInv /\ FailureInv)'
  <1> USE NAssumption
  <1>1. /\ pc = "write" /\ pc' = "loop" /\ i' = i + 1 /\ i \in Index /\ wire \in Seq(Frame)
        /\ wire' = Append(wire, [id |-> i, dev |-> i])
        /\ UNCHANGED <<link, gw, reply, delivered, bounced, invalid_index, code>>
        /\ invalid_index = 0 /\ code = 0
    BY DEF Write, TypeOK, GatewayTypeOK, IndexInv, AheadInv, Index
  <1>2. Undecided(i)'
    BY <1>1 DEF AheadInv, Undecided, Decided, Index
  <1>3. InFlight'
    <2> SUFFICES ASSUME Alive
                 PROVE  /\ Len(wire') <= i'
                        /\ \A k \in 1 .. Len(wire') :
                              wire'[k] = [id |-> (i' - Len(wire')) + (k - 1),
                                          dev |-> (i' - Len(wire')) + (k - 1)]
                        /\ Undecided(i - Len(wire)) /\ reply = NoReply
                        /\ i' - Len(wire') = i - Len(wire)
      BY <1>1 DEF InFlight, Alive, Undecided, Decided
    <2>1. /\ Len(wire) <= i /\ Undecided(i - Len(wire)) /\ reply = NoReply
          /\ \A k \in 1 .. Len(wire) :
                wire[k] = [id |-> (i - Len(wire)) + (k - 1), dev |-> (i - Len(wire)) + (k - 1)]
      BY DEF InFlight
    <2>2. Len(wire') = Len(wire) + 1 /\ Len(wire) \in Nat /\ i \in Nat
      BY <1>1 DEF Index
    <2>3. i' - Len(wire') = i - Len(wire) /\ Len(wire') <= i'
      BY <1>1, <2>1, <2>2
    <2>4. ASSUME NEW k \in 1 .. Len(wire')
          PROVE  wire'[k] = [id |-> (i - Len(wire)) + (k - 1), dev |-> (i - Len(wire)) + (k - 1)]
      <3>1. CASE k = Len(wire) + 1
        <4>1. wire'[k] = [id |-> i, dev |-> i] /\ (i - Len(wire)) + (k - 1) = i
          BY <1>1, <2>2, <3>1
        <4> QED
          BY <4>1
      <3>2. CASE k \in 1 .. Len(wire)
        <4>1. wire'[k] = wire[k]
          BY <1>1, <3>2
        <4> QED
          BY <2>1, <3>2, <4>1
      <3> QED
        BY <2>2, <2>4, <3>1, <3>2
    <2> QED
      BY <2>1, <2>3, <2>4
  <1>4. AheadInv'
    BY <1>1, <1>2 DEF AheadInv
  <1>5. FailureInv'
    BY <1>1, ClientDecides DEF FailureInv, Index
  <1> QED
    BY <1>3, <1>4, <1>5

\* The next attempt starts where nothing is decided yet, unless it goes back.
LEMMA OrderlyFailure ==
    ASSUME TypeOK, IndexInv, InFlight, AheadInv, FailureInv, HandleFailure, Regular'
    PROVE  (InFlight /\ AheadInv /\ FailureInv)'
  <1> USE NAssumption
  <1>1. /\ pc = "failed" /\ pc' \in {"top", "done"} /\ i \in 0 .. N /\ invalid_index \in 0 .. N
        /\ UNCHANGED <<link, gw, wire, reply, delivered, bounced, invalid_index, code, i>>
        /\ code \in Nat /\ wire \in Seq(Frame)
    BY DEF HandleFailure, GoOn, GiveUp, TypeOK, GatewayTypeOK, AppleCodes, ServiceShutdown,
           gatewayVars
  <1>2. FailureInv'
    BY <1>1, ClientDecides DEF FailureInv
  <1>3. CASE pc' = "done"
    BY <1>1, <1>2, <1>3, ClientDecides DEF InFlight, AheadInv, Alive
  <1>4. CASE pc' = "top"
    <2>1. /\ start_index' = NextStart(Errcode, invalid_index) /\ GoOn(start_index')
      BY <1>4 DEF HandleFailure, GiveUp
    <2>2. start_index' >= i \/ code = InvalidToken
      <3>1. rewound' = (rewound \/ (start_index' < i /\ code # InvalidToken))
        BY <2>1 DEF GoOn
      <3>2. ~(start_index' < i /\ code # InvalidToken)
        BY <3>1, Zenon DEF Regular
      <3>3. start_index' \in Nat
        BY <1>1, <2>1 DEF NextStart
      <3> QED
        BY <1>1, <3>2, <3>3
    <2>3. Undecided(i)
      BY <1>1 DEF AheadInv
    <2>4. Undecided(start_index') /\ reply = NoReply /\ (Alive => wire = <<>> /\ i = start_index')
      <3>1. CASE code = InvalidToken
        <4>1. start_index' = invalid_index + 1
          BY <2>1, <3>1, ErrcodeInvalid DEF NextStart
        <4> QED
          BY <1>1, <3>1, <4>1 DEF FailureInv, InvalidToken
      <3>2. CASE code # InvalidToken
        <4>1. start_index' \in Nat /\ start_index' >= i
          BY <1>1, <2>1, <2>2, <3>2 DEF NextStart
        <4>2. Undecided(start_index')
          BY <1>1, <2>3, <4>1 DEF Undecided, Index
        <4>3. CASE ~Alive /\ reply = NoReply
          BY <4>2, <4>3
        <4>4. CASE code = 0 /\ invalid_index = 0
          <5>1. i = 0 /\ reply = NoReply
            BY <1>1, <2>1, <2>2, <4>4, ErrcodeInvalid DEF FailureInv, NextStart, InvalidToken
          <5>2. start_index' = 0
            BY <2>1, <4>4, ErrcodeInvalid DEF NextStart, InvalidToken
          <5>3. Alive => wire = <<>>
            BY <1>1, <5>1 DEF InFlight
          <5> QED
            BY <4>2, <5>1, <5>2, <5>3
        <4> QED
          BY <1>1, <4>3, <4>4 DEF FailureInv
      <3> QED
        BY <3>1, <3>2
    <2>5. AheadInv'
      BY <1>1, <1>4, <2>4, ClientDecides DEF AheadInv, Undecided, Decided
    <2>6. InFlight'
      BY <1>1, <1>4, <2>4, ClientDecides DEF InFlight, Alive
    <2> QED
      BY <1>2, <2>5, <2>6
  <1> QED
    BY <1>1, <1>3, <1>4

LEMMA OrderlyClient ==
    ASSUME TypeOK, IndexInv, OrderlyInv, Client \/ ClientFault
    PROVE  OrderlyInv'
  <1> SUFFICES ASSUME Regular' PROVE (AtMostOnce /\ InFlight /\ AheadInv /\ FailureInv)'
    BY DEF OrderlyInv
  <1> USE NAssumption
  <1>1. UNCHANGED <<kind, delivered, bounced>> /\ (rewound => rewound')
    BY DEF Client, ClientFault, StartAttempt, Close, ReconnectOk, ReconnectFails, Select,
           FinalSelect, SelectFails, Read, Write, WriteFails, Killed, HandleFailure, GoOn, GiveUp,
           gatewayVars, callVars, TypeOK
  <1>2. Regular /\ AtMostOnce /\ InFlight /\ AheadInv /\ FailureInv
    BY <1>1 DEF OrderlyInv, Regular
  <1>3. i \in 0 .. N /\ start_index \in 0 .. N /\ invalid_index \in 0 .. N
        /\ wire \in Seq(Frame) /\ reply.id \in Index
    BY DEF TypeOK, GatewayTypeOK
  <1>4. AtMostOnce'
    BY <1>1, <1>2 DEF AtMostOnce
  <1>5. \A d : Undecided(d)' <=> Undecided(d)
    BY <1>1, ClientDecides
  <1> SUFFICES (InFlight /\ AheadInv /\ FailureInv)'
    BY <1>4
  <1>6. CASE StartAttempt
    <2>1. /\ pc = "top" /\ pc' = "loop" /\ i' = start_index
          /\ UNCHANGED <<link, gw, wire, reply, delivered, bounced, start_index>>
          /\ Undecided(start_index) /\ reply = NoReply /\ (Alive => wire = <<>> /\ i = start_index)
      BY <1>2, <1>6 DEF StartAttempt, AheadInv, InFlight, gatewayVars
    <2>2. InFlight'
      BY <1>2, <1>5, <2>1 DEF InFlight, Alive
    <2>3. AheadInv' /\ FailureInv'
      BY <1>1, <2>1 DEF AheadInv, FailureInv, Undecided, Decided
    <2> QED
      BY <2>2, <2>3
  <1>7. CASE Close
    <2>1. /\ pc = "top" /\ pc' = "connect" /\ ~Alive' /\ link' = "closed" /\ wire' = <<>>
          /\ gw' = "open" /\ reply' = NoReply /\ UNCHANGED start_index
      BY <1>7 DEF Close, LinkClosed, Alive
    <2>2. InFlight' /\ FailureInv'
      BY <2>1 DEF InFlight, FailureInv
    <2>3. AheadInv'
      BY <1>1, <1>2, <2>1 DEF AheadInv, Undecided, Decided
    <2> QED
      BY <2>2, <2>3
  <1>8. CASE ReconnectOk
    <2>1. /\ pc = "connect" /\ pc' = "loop" /\ i' = start_index
          /\ UNCHANGED <<wire, gw, reply, delivered, bounced, start_index>>
          /\ wire = <<>> /\ Undecided(start_index) /\ reply = NoReply
      BY <1>2, <1>8 DEF ReconnectOk, AheadInv
    <2>2. InFlight'
      <3>1. Len(wire') = 0 /\ i' - Len(wire') = i' /\ Undecided(i)'
        BY <1>1, <1>3, <2>1 DEF Undecided, Decided
      <3> QED
        BY <1>1, <1>3, <2>1, <3>1 DEF InFlight, Undecided, Decided
    <2>3. AheadInv' /\ FailureInv'
      BY <1>1, <2>1 DEF AheadInv, FailureInv, Undecided, Decided
    <2> QED
      BY <2>2, <2>3
  <1>9. CASE ReconnectFails
    <2>1. /\ pc = "connect" /\ pc' = "done" /\ ~Alive' /\ reply' = NoReply
      BY <1>2, <1>9 DEF ReconnectFails, AheadInv, Alive, Leftovers
    <2> QED
      BY <2>1 DEF InFlight, AheadInv, FailureInv
  <1>10. CASE Select
    <2>1. /\ pc = "loop" /\ pc' \in {"read", "write"} /\ i < N /\ device' = i
          /\ UNCHANGED <<gatewayVars, start_index, i, invalid_index, code>>
          /\ (pc' = "read" => Readable)
      BY <1>2, <1>3, <1>10 DEF Select, SetToken, Regular, Index
    <2>2. pc' = "read" => ~Alive
      BY <1>2, <2>1 DEF Readable, InFlight, Alive
    <2>3. InFlight'
      BY <1>2, <1>5, <2>1, <2>2 DEF InFlight, Alive, gatewayVars
    <2>4. AheadInv' /\ FailureInv'
      BY <1>1, <1>2, <2>1 DEF AheadInv, FailureInv, Undecided, Decided, gatewayVars
    <2> QED
      BY <2>3, <2>4
  <1>11. CASE FinalSelect
    <2>1. /\ pc = "loop" /\ pc' \in {"read", "done"}
          /\ UNCHANGED <<gatewayVars, start_index, i, invalid_index, code>>
          /\ (pc' = "read" => Readable)
      BY <1>11 DEF FinalSelect
    <2>2. pc' = "read" => ~Alive
      BY <1>2, <2>1 DEF Readable, InFlight, Alive
    <2>3. InFlight'
      BY <1>2, <1>5, <2>1, <2>2 DEF InFlight, Alive, gatewayVars
    <2>4. AheadInv' /\ FailureInv'
      BY <1>1, <1>2, <2>1 DEF AheadInv, FailureInv, Undecided, Decided, gatewayVars
    <2> QED
      BY <2>3, <2>4
  <1>12. CASE SelectFails \/ WriteFails
    <2>1. /\ pc \in {"loop", "write"} /\ pc' = "failed" /\ invalid_index' = 0 /\ code' = 0
          /\ UNCHANGED <<link, gw, wire, reply, delivered, bounced, start_index, i>>
      BY <1>12 DEF SelectFails, WriteFails, WriteFailIndex, IndexInv, gatewayVars
    <2>2. InFlight'
      BY <1>2, <1>5, <2>1 DEF InFlight, Alive
    <2>3. AheadInv' /\ FailureInv'
      BY <1>1, <1>2, <2>1 DEF AheadInv, FailureInv, Undecided, Decided, InvalidToken
    <2> QED
      BY <2>2, <2>3
  <1>13. CASE Read
    <2>1. /\ pc = "read" /\ pc' = "failed" /\ ~Alive /\ ~Alive' /\ reply' = NoReply
          /\ UNCHANGED <<delivered, bounced, i, start_index>>
      BY <1>2, <1>13 DEF Read, InFlight, Alive
    <2>2. code' = InvalidToken => Undecided(invalid_index + 1)'
      <3>1. CASE reply # NoReply /\ code' = reply.code
                 /\ invalid_index' = ParsedIndex(reply, invalid_index)
        BY <1>1, <1>2, <3>1 DEF ParsedIndex, FailureInv, Undecided, Decided
      <3>2. CASE code' = code
        BY <2>1, <3>2 DEF IndexInv, InvalidToken
      <3> QED
        BY <1>13, <3>1, <3>2 DEF Read
    <2>3. InFlight' /\ FailureInv'
      BY <2>1, <2>2 DEF InFlight, FailureInv
    <2>4. AheadInv'
      BY <1>1, <1>2, <2>1 DEF AheadInv, Undecided, Decided
    <2> QED
      BY <2>3, <2>4
  <1>14. CASE Write
    BY <1>2, <1>14, OrderlyWrite
  <1>15. CASE Killed
    BY <1>1, <1>2, <1>5, <1>15 DEF Killed, InFlight, AheadInv, FailureInv, Alive, gatewayVars,
       callVars
  <1>16. CASE HandleFailure
    BY <1>2, <1>16, OrderlyFailure
  <1> QED
    BY <1>6, <1>7, <1>8, <1>9, <1>10, <1>11, <1>12, <1>13, <1>14, <1>15, <1>16
       DEF Client, ClientFault

\* As long as no attempt has gone back over written tokens and every token is
\* hexadecimal, the frames in flight are undecided tokens in order, nothing is
\* decided from the loop's index on, and no device is notified twice.
THEOREM OrderlyInvariant == Spec => []OrderlyInv
  <1> USE DEF Spec
  <1>1. Init => OrderlyInv
    BY OrderlyInit
  <1>2. TypeOK /\ IndexInv /\ OrderlyInv /\ [Next]_vars => OrderlyInv'
    <2> SUFFICES ASSUME TypeOK, IndexInv, OrderlyInv, [Next]_vars PROVE OrderlyInv'
      OBVIOUS
    <2>1. CASE Client \/ ClientFault
      BY <2>1, OrderlyClient
    <2>2. CASE Environment
      BY <2>2, OrderlyGateway
    <2>3. CASE UNCHANGED vars
      BY <2>3 DEF OrderlyInv, Regular, AtMostOnce, InFlight, AheadInv, FailureInv, Undecided,
         Decided, Alive, vars, gatewayVars, callVars
    <2> QED
      BY <2>1, <2>2, <2>3 DEF Next, Terminated
  <1> QED
    BY <1>1, <1>2, TypeCorrect, PTL

\* A device that got the notification twice is explained: an attempt went back
\* over written tokens for lack of a packet that named a place, or a token was
\* not hexadecimal and its frame carried another device.
THEOREM DuplicatesExplainedHolds == Spec => []DuplicatesExplained
  <1>1. TypeOK /\ OrderlyInv => DuplicatesExplained
    BY DEF TypeOK, GatewayTypeOK, OrderlyInv, Regular, AtMostOnce, DuplicatesExplained
  <1> QED
    BY <1>1, TypeCorrect, OrderlyInvariant, PTL

-----------------------------------------------------------------------------
(* What is lost: any fault, and any refusal that is followed by a new        *)
(* connection; the caller lets apn_send reconnect.                           *)

Renewing == Reconnect /\ \A c \in Codes : Reconnectable(ConvertAppleError(c))

LEMMA SomeIndices ==
    ASSUME NEW T \in SUBSET Index
    PROVE  IsFiniteSet(T) /\ Cardinality(T) \in Nat
  <1>1. IsFiniteSet(Index)
    BY NAssumption, FS_Interval DEF Index
  <1> QED
    BY <1>1, FS_Subset, FS_CardinalityType

LEMMA BudgetGrows ==
    ASSUME NEW f \in Nat, NEW g \in Nat, f <= g
    PROVE  WireCap * f <= WireCap * g /\ WireCap * f \in Nat /\ WireCap * g \in Nat
  <1>1. PICK d \in Nat : g = f + d
    BY g - f \in Nat
  <1>2. WireCap * (f + d) = WireCap * f + WireCap * d /\ WireCap * f \in Nat /\ WireCap * d \in Nat
    BY WireCapAssumption
  <1> QED
    BY <1>1, <1>2

LEMMA BudgetNext ==
    ASSUME NEW f \in Nat, NEW g \in Nat, f <= g
    PROVE  /\ WireCap * (f + 1) <= WireCap * (g + 1)
           /\ WireCap * (f + 1) \in Nat /\ WireCap * (g + 1) \in Nat
  <1>1. f + 1 \in Nat /\ g + 1 \in Nat /\ f + 1 <= g + 1
    OBVIOUS
  <1> QED
    BY <1>1, BudgetGrows

\* A few stay few when some are left and a fault is added, ...
LEMMA FewKept ==
    ASSUME faults \in Nat, faults' \in Nat, faults <= faults',
           NEW T \in SUBSET Index, NEW S \in SUBSET T, Few(T)
    PROVE  Cardinality(S) <= WireCap * faults'
  <1>1. Cardinality(S) <= Cardinality(T) /\ Cardinality(S) \in Nat /\ Cardinality(T) \in Nat
    BY SomeIndices, FS_Subset
  <1>2. WireCap * faults <= WireCap * faults' /\ WireCap * faults \in Nat /\ WireCap * faults' \in Nat
    BY BudgetGrows
  <1> QED
    BY <1>1, <1>2 DEF Few

\* ... and when a fault adds as many as there is room for on the wire.
LEMMA FewMore ==
    ASSUME faults \in Nat, NEW T \in SUBSET Index, NEW U \in SUBSET Index, Few(T),
           Cardinality(U) <= WireCap, NEW S \in SUBSET (T \union U)
    PROVE  Cardinality(S) <= WireCap * (faults + 1)
  <1>1. IsFiniteSet(T) /\ IsFiniteSet(U) /\ Cardinality(T) \in Nat /\ Cardinality(U) \in Nat
        /\ Cardinality(T \cap U) \in Nat /\ Cardinality(S) \in Nat
    BY SomeIndices
  <1>2. IsFiniteSet(T \union U) /\ Cardinality(T \union U) <= Cardinality(T) + Cardinality(U)
    <2>1. IsFiniteSet(T \union U)
          /\ Cardinality(T \union U) = Cardinality(T) + Cardinality(U) - Cardinality(T \cap U)
      BY <1>1, FS_Union
    <2> QED
      BY <1>1, <2>1
  <1>3. Cardinality(S) <= Cardinality(T \union U)
    BY <1>2, FS_Subset
  <1>4. Cardinality(T \union U) \in Nat
    BY SomeIndices
  <1>5. WireCap * (faults + 1) = WireCap * faults + WireCap /\ WireCap * faults \in Nat
        /\ WireCap \in Nat
    BY WireCapAssumption
  <1>6. Cardinality(T) <= WireCap * faults
    BY DEF Few
  <1> QED
    BY <1>1, <1>2, <1>3, <1>4, <1>5, <1>6

LEMMA BudgetEmpty ==
    ASSUME NEW f \in Nat
    PROVE  Cardinality({}) <= WireCap * f
  <1>1. WireCap * f \in Nat /\ Cardinality({}) = 0
    BY WireCapAssumption, FS_EmptySet
  <1> QED
    BY <1>1

LEMMA FewNone == faults \in Nat => \A ids : Few({} \ ids) /\ Few({})
  <1>1. \A ids : {} \ ids = {}
    OBVIOUS
  <1> QED
    BY <1>1, BudgetEmpty DEF Few

LEMMA MissedIn == \A u : Missed(u) \in SUBSET Index
  BY DEF Missed

LEMMA MissedNone == Missed(0) = {}
  BY NAssumption DEF Missed, Index

\* The ids in front of a frame are at most as many as the frames.
LEMMA InFrontFew ==
    ASSUME TypeOK, NEW k \in 1 .. Len(wire) + 1
    PROVE  InFront(k) \in SUBSET Index /\ Cardinality(InFront(k)) <= k - 1
  <1>1. wire \in Seq(Frame) /\ Len(wire) \in Nat /\ k - 1 \in Nat /\ k - 1 <= Len(wire)
    BY DEF TypeOK, GatewayTypeOK
  <1>2. ASSUME NEW j \in 1 .. k - 1 PROVE wire[j].id \in Index
    <2>1. j \in 1 .. Len(wire)
      BY <1>1
    <2>2. wire[j] \in Frame
      BY <1>1, <2>1
    <2> QED
      BY <2>2 DEF Frame
  <1>3. InFront(k) \in SUBSET Index
    BY <1>2 DEF InFront
  <1> DEFINE f == [j \in 1 .. k - 1 |-> wire[j].id]
  <1>4. f \in Surjection(1 .. k - 1, InFront(k))
    BY DEF Surjection, InFront
  <1>5. IsFiniteSet(1 .. k - 1) /\ Cardinality(1 .. k - 1) = k - 1
    <2>1. 1 \in Int /\ k - 1 \in Int
      BY <1>1
    <2>2. IsFiniteSet(1 .. k - 1)
          /\ Cardinality(1 .. k - 1) = IF 1 > k - 1 THEN 0 ELSE (k - 1) - 1 + 1
      BY <2>1, FS_Interval
    <2> QED
      BY <1>1, <2>2
  <1> HIDE DEF f
  <1>6. Cardinality(InFront(k)) <= Cardinality(1 .. k - 1)
    BY <1>4, <1>5, FS_Surjection
  <1> QED
    BY <1>3, <1>5, <1>6

\* What was missed shrinks, and a few stay few.
LEMMA MissedStays ==
    ASSUME faults \in Nat, faults' \in Nat, faults <= faults', kind' = kind,
           \A x \in Index : Decided(x) => Decided(x)'
    PROVE  \A u : Missed(u)' \subseteq Missed(u) /\ (Few(Missed(u)) => Few(Missed(u))')
  <1> SUFFICES ASSUME NEW u
               PROVE  Missed(u)' \subseteq Missed(u) /\ (Few(Missed(u)) => Few(Missed(u))')
    OBVIOUS
  <1>1. Missed(u)' \subseteq Missed(u)
    BY DEF Missed
  <1>2. ASSUME Few(Missed(u)) PROVE Few(Missed(u))'
    <2>1. Cardinality(Missed(u)') <= WireCap * faults'
      BY <1>1, <1>2, FewKept, MissedIn
    <2> QED
      BY <2>1 DEF Few
  <1> QED
    BY <1>1, <1>2

\* A frame handled by the gateway leaves the places of the others, and the ids in
\* front of them but its own.
LEMMA PlacesBehind ==
    ASSUME TypeOK, wire # <<>>, wire' = Tail(wire), i' = i
    PROVE  /\ Len(wire) \in Nat \ {0} /\ Len(wire') = Len(wire) - 1
           /\ wire[1] = Head(wire) /\ wire[1] \in Frame
           /\ \A k \in 1 .. Len(wire') : wire'[k] = wire[k + 1]
           /\ \A k \in 1 .. Len(wire') + 1 :
                  /\ k + 1 \in 1 .. Len(wire) + 1
                  /\ Place(k)' = Place(k + 1)
                  /\ InFront(k + 1) \subseteq InFront(k)' \union {wire[1].id}
  <1>1. wire \in Seq(Frame) /\ Len(wire) \in Nat \ {0} /\ Len(wire') = Len(wire) - 1
        /\ wire[1] = Head(wire) /\ wire[1] \in Frame
    BY DEF TypeOK, GatewayTypeOK
  <1>2. \A k \in 1 .. Len(wire') : wire'[k] = wire[k + 1]
    BY <1>1
  <1>3. ASSUME NEW k \in 1 .. Len(wire') + 1
        PROVE  k + 1 \in 1 .. Len(wire) + 1 /\ Place(k)' = Place(k + 1)
    <2>1. k + 1 \in 1 .. Len(wire) + 1 /\ (k <= Len(wire') <=> k + 1 <= Len(wire))
      BY <1>1
    <2> QED
      BY <1>2, <2>1 DEF Place
  <1>4. ASSUME NEW k \in 1 .. Len(wire') + 1, NEW x \in InFront(k + 1)
        PROVE  x \in InFront(k)' \union {wire[1].id}
    <2>1. PICK j \in 1 .. (k + 1) - 1 : x = wire[j].id
      BY DEF InFront
    <2>2. CASE j = 1
      BY <2>1, <2>2
    <2>3. CASE j # 1
      <3>1. j - 1 \in 1 .. k - 1 /\ j - 1 \in 1 .. Len(wire') /\ (j - 1) + 1 = j
        BY <1>1, <2>3
      <3>2. wire'[j - 1] = wire[j]
        BY <1>2, <3>1
      <3> QED
        BY <2>1, <3>1, <3>2 DEF InFront
    <2> QED
      BY <2>2, <2>3
  <1> QED
    BY <1>1, <1>2, <1>3, <1>4

LEMMA WireGateway ==
    ASSUME TypeOK, WireInv, Environment
    PROVE  WireInv'
  <1> USE NAssumption DEF WireInv
  <1>1. UNCHANGED <<pc, i, device, kind>>
    BY DEF Environment, callVars, GatewayStep, FaultStep, GwAccept, GwReject, GwDiscard, GwHangUp,
           GwRefuse, LinkBreaks
  <1>2. CASE wire # <<>> /\ wire' = Tail(wire)
    <2>1. /\ Len(wire) \in Nat \ {0} /\ Len(wire') = Len(wire) - 1 /\ WireCap \in Nat
          /\ \A k \in 1 .. Len(wire') : wire'[k] = wire[k + 1] /\ k + 1 \in 1 .. Len(wire)
      BY <1>1, <1>2, PlacesBehind, WireCapAssumption
    <2>2. \A k \in 1 .. Len(wire') :
              kind'[wire'[k].id] # "malformed" => wire'[k].dev = wire'[k].id
      BY <1>1, <2>1
    <2> QED
      BY <1>1, <2>1, <2>2
  <1>3. CASE UNCHANGED wire
    BY <1>1, <1>3
  <1> QED
    BY <1>2, <1>3 DEF Environment, GatewayStep, FaultStep, GwAccept, GwReject, GwDiscard,
       GwHangUp, GwRefuse, LinkBreaks, Handling

\* The head of the wire is decided, unless it is not hexadecimal.
LEMMA HeadDecided ==
    ASSUME TypeOK, WireInv, GwAccept \/ GwReject, NEW x, x = wire[1].id, kind[x] # "malformed"
    PROVE  x \in Index /\ Decided(x)'
  <1>1. wire \in Seq(Frame) /\ wire # <<>> /\ wire[1] = Head(wire) /\ 1 \in 1 .. Len(wire)
        /\ wire[1] \in Frame
    BY DEF TypeOK, GatewayTypeOK, GwAccept, GwReject, Handling
  <1>2. x \in Index /\ wire[1].dev = x
    BY <1>1 DEF WireInv, Frame
  <1>3. CASE GwAccept
    <2>1. delivered' = Bump(delivered, x) /\ delivered \in [Index -> 0 .. 2]
      BY <1>1, <1>2, <1>3 DEF GwAccept, TypeOK, GatewayTypeOK
    <2>2. delivered'[x] > 0
      BY <1>2, <2>1 DEF Bump
    <2> QED
      BY <1>1, <1>2, <2>2 DEF Decided
  <1>4. CASE GwReject
    BY <1>1, <1>2, <1>4 DEF GwReject, Decided
  <1> QED
    BY <1>3, <1>4

\* All the tokens missed before i, on a connection that breaks now: a few that
\* were missed already, and those on the wire.
LEMMA MissedOnWire ==
    ASSUME TypeOK, WireInv, ListenInv, Alive, NEW S, NEW U \in SUBSET Index,
           S \subseteq Missed(i) \union U, Cardinality(U) + Len(wire) <= WireCap
    PROVE  Cardinality(S) <= WireCap * (faults + 1)
  <1> DEFINE k == Len(wire) + 1
             T == Missed(Place(k)) \ InFront(k)
             V == InFront(k) \union U
  <1>1. Len(wire) \in Nat /\ faults \in Nat /\ k \in 1 .. Len(wire) + 1 /\ k - 1 = Len(wire)
        /\ WireCap \in Nat
    BY WireCapAssumption DEF TypeOK, GatewayTypeOK
  <1>2. Place(k) = i /\ Few(T)
    BY <1>1 DEF Place, ListenInv
  <1>3. InFront(k) \in SUBSET Index /\ Cardinality(InFront(k)) <= Len(wire)
    BY <1>1, InFrontFew
  <1>4. V \in SUBSET Index /\ Cardinality(V) <= WireCap
    <2>1. IsFiniteSet(InFront(k)) /\ IsFiniteSet(U) /\ Cardinality(InFront(k)) \in Nat
          /\ Cardinality(U) \in Nat /\ Cardinality(InFront(k) \cap U) \in Nat
      BY <1>3, SomeIndices
    <2>2. Cardinality(V) =
              Cardinality(InFront(k)) + Cardinality(U) - Cardinality(InFront(k) \cap U)
      BY <2>1, FS_Union
    <2> QED
      BY <1>1, <1>3, <2>1, <2>2
  <1>5. T \in SUBSET Index /\ S \in SUBSET (T \union V)
    BY <1>2, MissedIn
  <1> QED
    BY <1>1, <1>2, <1>4, <1>5, FewMore

LEMMA LossGateway ==
    ASSUME TypeOK, LostInv, Environment
    PROVE  ListenInv' /\ LossInv' /\ DeafInv'
  <1> USE NAssumption DEF LostInv
  <1>1. UNCHANGED <<pc, start_index, auto_reconnect, invalid_index, code, i, errno, ret, kind>>
    BY DEF Environment, callVars, GatewayStep, FaultStep, GwAccept, GwReject, GwDiscard, GwHangUp,
           GwRefuse, LinkBreaks
  <1>2. Errcode' = Errcode
    BY <1>1 DEF Errcode
  <1>3. faults \in Nat /\ faults' \in Nat /\ faults <= faults'
    BY DEF TypeOK, GatewayTypeOK, Environment, GatewayStep, FaultStep, GwAccept, GwReject,
           GwDiscard, GwHangUp, GwRefuse, LinkBreaks
  <1>4. \A x \in Index : Decided(x) => Decided(x)'
    <2>1. delivered \in [Index -> 0 .. 2] /\ bounced \subseteq Index
      BY DEF TypeOK, GatewayTypeOK
    <2>2. CASE GwAccept
      BY <2>1, <2>2 DEF GwAccept, Bump, Decided
    <2>3. CASE GwReject
      BY <2>1, <2>3 DEF GwReject, Decided
    <2>4. ASSUME NEW c \in Codes, GwRefuse(c)
          PROVE  \A x \in Index : Decided(x) => Decided(x)'
      BY <2>1, <2>4 DEF GwRefuse, Decided
    <2>5. CASE UNCHANGED <<delivered, bounced>>
      BY <2>5 DEF Decided
    <2> QED
      BY <2>2, <2>3, <2>4, <2>5 DEF Environment, GatewayStep, FaultStep, GwDiscard, GwHangUp,
         LinkBreaks
  <1>5. \A u : Missed(u)' \subseteq Missed(u) /\ (Few(Missed(u)) => Few(Missed(u))')
    BY <1>1, <1>3, <1>4, MissedStays
  <1>6. /\ Few(Missed(start_index))'
        /\ pc' = "failed" => Few(Missed(NextStart(Errcode, invalid_index)))'
    BY <1>1, <1>2, <1>5 DEF LossInv, NextStart
  <1>7. pc' = "done" /\ ret' = "SUCCESS" => Cardinality(Missed(N)') <= WireCap * (faults' + 1)
    <2>1. SUFFICES ASSUME pc = "done", ret = "SUCCESS"
                   PROVE  Cardinality(Missed(N)') <= WireCap * (faults' + 1)
      BY <1>1
    <2>2. Cardinality(Missed(N)) <= WireCap * (faults + 1)
      BY <2>1 DEF LossInv
    <2>3. Cardinality(Missed(N)') <= Cardinality(Missed(N))
          /\ Cardinality(Missed(N)') \in Nat /\ Cardinality(Missed(N)) \in Nat
      BY <1>5, MissedIn, SomeIndices, FS_Subset
    <2>4. WireCap * (faults + 1) <= WireCap * (faults' + 1)
          /\ WireCap * (faults + 1) \in Nat /\ WireCap * (faults' + 1) \in Nat
      BY <1>3, BudgetNext
    <2> QED
      BY <2>2, <2>3, <2>4
  <1>8. CASE GwAccept
    <2>1. /\ Alive /\ Alive' /\ UNCHANGED <<link, gw, reply, faults>>
          /\ wire # <<>> /\ wire' = Tail(wire)
      BY <1>8 DEF GwAccept, Handling, Alive
    <2>2. ASSUME NEW k \in 1 .. Len(wire') + 1
          PROVE  Few(Missed(Place(k)) \ InFront(k))'
      <3>1. k + 1 \in 1 .. Len(wire) + 1 /\ Place(k)' = Place(k + 1)
            /\ InFront(k + 1) \subseteq InFront(k)' \union {wire[1].id}
        BY <1>1, <2>1, PlacesBehind
      <3>2. Missed(Place(k))' \ InFront(k)' \subseteq Missed(Place(k + 1)) \ InFront(k + 1)
        <4>1. SUFFICES ASSUME NEW x \in Missed(Place(k))', x \notin InFront(k)'
                       PROVE  x \in Missed(Place(k + 1)) /\ x \notin InFront(k + 1)
          OBVIOUS
        <4>2. x # wire[1].id
          BY <1>1, <1>8, <4>1, HeadDecided DEF Missed
        <4>3. x \in Missed(Place(k + 1))
          BY <1>1, <1>4, <3>1, <4>1 DEF Missed
        <4> QED
          BY <3>1, <4>1, <4>2, <4>3
      <3>3. Few(Missed(Place(k + 1)) \ InFront(k + 1))
        BY <2>1, <3>1 DEF ListenInv
      <3>4. Missed(Place(k + 1)) \ InFront(k + 1) \in SUBSET Index
        BY MissedIn
      <3>5. Cardinality(Missed(Place(k))' \ InFront(k)') <= WireCap * faults'
        BY <1>3, <3>2, <3>3, <3>4, FewKept
      <3> QED
        BY <3>5 DEF Few
    <2>3. ListenInv'
      BY <1>1, <1>2, <2>1, <2>2 DEF ListenInv, NextStart
    <2>4. LossInv'
      BY <1>6, <1>7, <2>1, <2>3 DEF LossInv, ListenInv
    <2>5. DeafInv'
      BY <1>1, <2>1 DEF DeafInv, Alive
    <2> QED
      BY <2>3, <2>4, <2>5
  <1>9. CASE GwReject
    <2>1. /\ Alive /\ ~Alive' /\ UNCHANGED <<link, faults>> /\ link = "up"
          /\ wire # <<>> /\ reply' = [code |-> InvalidToken, id |-> Head(wire).id]
      BY <1>9 DEF GwReject, Handling, Alive
    <2>2. wire[1] = Head(wire) /\ 1 <= Len(wire) /\ 1 \in 1 .. Len(wire) + 1 /\ wire[1].id \in Nat
      <3>1. wire \in Seq(Frame) /\ wire # <<>>
        BY <2>1 DEF TypeOK, GatewayTypeOK
      <3>2. wire[1] \in Frame /\ wire[1] = Head(wire) /\ Len(wire) \in Nat /\ 1 <= Len(wire)
        BY <3>1
      <3> QED
        BY <3>2 DEF Frame, Index
    <2>3. reply' # NoReply /\ reply'.code = InvalidToken /\ reply'.id = wire[1].id
      BY <2>1, <2>2 DEF NoReply, InvalidToken
    <2>4. Few(Missed(wire[1].id) \ InFront(1))
      BY <2>1, <2>2 DEF ListenInv, Place
    <2>5. ASSUME NEW x \in Missed(reply.id + 1)'
          PROVE  x \in Missed(wire[1].id) \ InFront(1)
      <3>1. x # wire[1].id
        BY <1>1, <1>9, HeadDecided DEF Missed
      <3>2. x \in Index /\ x < wire[1].id + 1
        BY <2>3 DEF Missed
      <3>3. x < wire[1].id
        BY <2>2, <3>1, <3>2 DEF Index
      <3>4. x \in Missed(wire[1].id)
        BY <1>1, <1>4, <3>3 DEF Missed
      <3>5. InFront(1) = {}
        BY DEF InFront
      <3> QED
        BY <3>4, <3>5
    <2>6. Few(Missed(reply.id + 1))'
      <3>1. Cardinality(Missed(reply.id + 1)') <= WireCap * faults'
        BY <1>3, <2>4, <2>5, FewKept, MissedIn
      <3> QED
        BY <3>1 DEF Few
    <2>7. ListenInv'
      BY <2>1 DEF ListenInv
    <2>8. LossInv'
      BY <1>6, <1>7, <2>3, <2>6 DEF LossInv
    <2>9. DeafInv'
      BY <1>1, <2>1, <2>3 DEF DeafInv
    <2> QED
      BY <2>7, <2>8, <2>9
  <1>10. CASE GwDiscard \/ GwHangUp
    <2>1. /\ ~Alive /\ ~Alive' /\ UNCHANGED <<reply, faults, gw>>
          /\ link = "up" /\ gw = "rejecting" /\ link' \in {"up", "fin"}
      BY <1>10 DEF GwDiscard, GwHangUp, Alive
    <2>2. ListenInv'
      BY <2>1 DEF ListenInv
    <2>3. LossInv'
      BY <1>1, <1>5, <1>6, <1>7, <2>1 DEF LossInv
    <2>4. DeafInv'
      BY <1>1, <1>2, <2>1 DEF DeafInv
    <2> QED
      BY <2>2, <2>3, <2>4
  <1>11. ASSUME NEW c \in Codes, GwRefuse(c)
         PROVE  ListenInv' /\ LossInv' /\ DeafInv'
    <2>1. /\ Alive /\ ~Alive' /\ UNCHANGED link /\ link = "up"
          /\ reply' = [code |-> c, id |-> Head(wire).id] /\ faults' = faults + 1
      BY <1>11 DEF GwRefuse, Handling, Alive
    <2>2. c # 0
      BY CodesAssumption DEF AppleCodes, ServiceShutdown
    <2>3. reply' # NoReply /\ reply'.code = c /\ faults' > 0
      BY <1>3, <2>1, <2>2 DEF NoReply
    <2>4. LossInv'
      BY <1>6, <1>7, <2>3 DEF LossInv
    <2> QED
      BY <1>1, <2>1, <2>3, <2>4 DEF ListenInv, DeafInv
  <1>12. ASSUME NEW how \in Faults, LinkBreaks(how)
         PROVE  ListenInv' /\ LossInv' /\ DeafInv'
    <2>1. /\ ~Alive' /\ link' # "up" /\ link \in {"up", "fin"} /\ UNCHANGED <<wire, gw, reply>>
          /\ faults' = faults + 1
      BY <1>12 DEF LinkBreaks, Alive
    <2>2. ListenInv' /\ DeafInv'
      BY <1>1, <2>1 DEF ListenInv, DeafInv
    <2>3. reply' = NoReply =>
              /\ pc' \in {"loop", "read"} => Few(Missed(i))'
              /\ pc' = "write" => Few(Missed(i + 1))'
      <3>1. CASE ~Alive
        BY <1>1, <1>5, <2>1, <3>1 DEF LossInv
      <3>2. CASE Alive
        <4>1. WireCap \in Nat /\ Len(wire) \in Nat /\ Len(wire) <= WireCap
          BY WireCapAssumption DEF WireInv, TypeOK, GatewayTypeOK
        <4>2. Few(Missed(i))'
          <5>1. Cardinality({}) + Len(wire) <= WireCap /\ {} \in SUBSET Index
            BY <4>1, FS_EmptySet
          <5>2. Missed(i)' \subseteq Missed(i) \union {}
            BY <1>1, <1>5
          <5>3. Cardinality(Missed(i)') <= WireCap * (faults + 1)
            BY <3>2, <5>1, <5>2, MissedOnWire
          <5> QED
            BY <2>1, <5>3 DEF Few
        <4>3. ASSUME pc = "write" PROVE Few(Missed(i + 1))'
          <5> DEFINE U == {i} \cap Index
          <5>1. Len(wire) < WireCap
            BY <4>3 DEF WireInv
          <5>2. Cardinality(U) <= 1 /\ Cardinality(U) \in Nat
            <6>1. IsFiniteSet({i}) /\ Cardinality({i}) = 1 /\ U \in SUBSET {i}
              BY FS_Singleton
            <6>2. Cardinality(U) <= Cardinality({i})
              BY <6>1, FS_Subset
            <6> QED
              BY <6>1, <6>2, SomeIndices
          <5>3. Cardinality(U) + Len(wire) <= WireCap
            BY <4>1, <5>1, <5>2
          <5>4. Missed(i + 1)' \subseteq Missed(i) \union U
            <6>1. SUFFICES ASSUME NEW x \in Missed(i + 1)' PROVE x \in Missed(i) \union U
              OBVIOUS
            <6>2. x \in Index /\ x < i + 1 /\ i \in Nat
              BY <1>1, <6>1 DEF Missed, TypeOK
            <6>3. x < i \/ x = i
              BY <6>2 DEF Index
            <6> QED
              BY <1>1, <1>4, <6>1, <6>2, <6>3 DEF Missed
          <5> HIDE DEF U
          <5>5. Cardinality(Missed(i + 1)') <= WireCap * (faults + 1)
            BY <3>2, <5>3, <5>4, MissedOnWire DEF U
          <5> QED
            BY <2>1, <5>5 DEF Few
        <4> QED
          BY <1>1, <4>2, <4>3
      <3> QED
        BY <3>1, <3>2
    <2>4. \/ reply' = NoReply
          \/ reply'.code = InvalidToken /\ Few(Missed(reply.id + 1))'
          \/ reply'.code \in Codes /\ faults' > 0
      BY <1>3, <1>5, <2>1 DEF LossInv
    <2>5. LossInv'
      BY <1>6, <1>7, <2>3, <2>4 DEF LossInv
    <2> QED
      BY <2>2, <2>5
  <1> QED
    BY <1>8, <1>9, <1>10, <1>11, <1>12 DEF Environment, GatewayStep, FaultStep

LEMMA LossInit == Init => LostInv
  <1> SUFFICES ASSUME Init PROVE LostInv
    OBVIOUS
  <1> USE NAssumption, WireCapAssumption
  <1>1. /\ pc = "top" /\ start_index = 0 /\ i = 0 /\ wire = <<>> /\ reply = NoReply
        /\ link = "up" /\ gw = "open" /\ faults \in Nat
    BY DEF Init, GatewayInit
  <1>2. WireInv
    BY <1>1 DEF WireInv
  <1>3. \A ids : Few(Missed(0) \ ids) /\ Few(Missed(0))
    BY <1>1, FewNone, MissedNone
  <1>4. ListenInv
    <2>1. \A k \in 1 .. Len(wire) + 1 : Place(k) = 0
      BY <1>1 DEF Place
    <2> QED
      BY <1>1, <1>3, <2>1 DEF ListenInv
  <1>5. LossInv
    BY <1>1, <1>3 DEF LossInv, Alive
  <1>6. DeafInv
    BY <1>1 DEF DeafInv
  <1> QED
    BY <1>2, <1>4, <1>5, <1>6 DEF LostInv

\* What the client does leaves no trace at the gateway.
LEMMA ClientMisses ==
    ASSUME UNCHANGED <<kind, delivered, bounced>>
    PROVE  \A u : Missed(u)' = Missed(u)
  BY DEF Missed, Decided

LEMMA FewStays ==
    ASSUME TypeOK, faults' \in {faults, faults + 1}, NEW S \in SUBSET Index, Few(S)
    PROVE  Cardinality(S) <= WireCap * faults'
  <1>1. faults \in Nat /\ faults' \in Nat /\ faults <= faults'
    BY DEF TypeOK, GatewayTypeOK
  <1> QED
    BY <1>1, FewKept

\* A step that leaves the wire alone and either i as well, or puts it at the start
\* of the list, leaves the frames' places.
LEMMA ListenStays ==
    ASSUME TypeOK, ListenInv, Alive, UNCHANGED <<kind, delivered, bounced, wire>>,
           faults' \in {faults, faults + 1}, i' \in {i, 0}
    PROVE  \A k \in 1 .. Len(wire') + 1 : Few(Missed(Place(k)) \ InFront(k))'
  <1> SUFFICES ASSUME NEW k \in 1 .. Len(wire) + 1
               PROVE  Few(Missed(Place(k)) \ InFront(k))'
    OBVIOUS
  <1>1. InFront(k)' = InFront(k)
    BY DEF InFront
  <1>2. \A u : Missed(u)' = Missed(u)
    BY ClientMisses
  <1>3. CASE Place(k)' = Place(k)
    <2>1. Few(Missed(Place(k)) \ InFront(k)) /\ Missed(Place(k)) \ InFront(k) \in SUBSET Index
      BY MissedIn DEF ListenInv
    <2>2. Cardinality(Missed(Place(k)) \ InFront(k)) <= WireCap * faults'
      BY <2>1, FewStays
    <2> QED
      BY <1>1, <1>2, <1>3, <2>2 DEF Few
  <1>4. CASE Place(k)' = 0
    <2>1. Missed(Place(k))' = {}
      BY <1>2, <1>4, MissedNone
    <2>2. faults \in Nat /\ faults' \in Nat
      BY DEF TypeOK, GatewayTypeOK
    <2>3. Cardinality({} \ InFront(k)) <= WireCap * faults'
      <3>1. {} \ InFront(k) = {}
        OBVIOUS
      <3> QED
        BY <2>2, <3>1, BudgetEmpty
    <2> QED
      BY <1>1, <2>1, <2>3 DEF Few
  <1> QED
    BY <1>3, <1>4 DEF Place

LEMMA LossWrite ==
    ASSUME TypeOK, IndexInv, LostInv, Write
    PROVE  LostInv'
  <1> USE NAssumption DEF LostInv
  <1>1. /\ pc = "write" /\ pc' = "loop" /\ i \in Index /\ i' = i + 1 /\ wire \in Seq(Frame)
        /\ Len(wire) \in Nat /\ WireCap \in Nat
        /\ wire' = Append(wire, [id |-> i, dev |-> device])
        /\ UNCHANGED <<kind, link, gw, reply, delivered, bounced, faults, start_index,
                       invalid_index, code, errno>>
    BY WireCapAssumption DEF Write, TypeOK, GatewayTypeOK, IndexInv, Index
  <1>2. /\ Len(wire') = Len(wire) + 1 /\ wire'[Len(wire) + 1] = [id |-> i, dev |-> device]
        /\ \A k \in 1 .. Len(wire) : wire'[k] = wire[k]
    BY <1>1
  <1>3. \A u : Missed(u)' = Missed(u)
    BY <1>1, ClientMisses
  <1>4. WireInv'
    <2>1. ASSUME NEW k \in 1 .. Len(wire'), kind[wire'[k].id] # "malformed"
          PROVE  wire'[k].dev = wire'[k].id
      <3>1. CASE k \in 1 .. Len(wire)
        BY <1>2, <2>1, <3>1 DEF WireInv
      <3>2. CASE k = Len(wire) + 1
        BY <1>1, <1>2, <2>1, <3>2 DEF WireInv
      <3> QED
        BY <1>1, <1>2, <3>1, <3>2
    <2>2. Len(wire') <= WireCap
      BY <1>1, <1>2 DEF WireInv
    <2> QED
      BY <1>1, <2>1, <2>2 DEF WireInv
  <1>5. ListenInv'
    <2> SUFFICES ASSUME Alive, NEW k \in 1 .. Len(wire') + 1
                 PROVE  Few(Missed(Place(k)) \ InFront(k))' /\ reply = NoReply
      BY <1>1 DEF ListenInv, Alive
    <2>1. reply = NoReply
      BY DEF ListenInv
    <2>2. \A j \in 1 .. Len(wire) + 1 : wire'[j].id = Place(j)
      BY <1>1, <1>2 DEF Place
    <2>3. CASE k \in 1 .. Len(wire) + 1
      <3>1. Place(k)' = Place(k)
        BY <1>1, <1>2, <2>2, <2>3 DEF Place
      <3>2. InFront(k)' = InFront(k)
        <4>1. \A j \in 1 .. k - 1 : wire'[j] = wire[j]
          BY <1>1, <1>2, <2>3
        <4> QED
          BY <4>1 DEF InFront
      <3>3. Few(Missed(Place(k)) \ InFront(k))
        BY <2>3 DEF ListenInv
      <3> QED
        BY <1>1, <1>3, <2>1, <3>1, <3>2, <3>3 DEF Few
    <2>4. CASE k = Len(wire) + 2
      <3> DEFINE last == Len(wire) + 1
      <3>1. Place(k)' = i + 1 /\ last \in 1 .. Len(wire) + 1 /\ Place(last) = i
            /\ last \in 1 .. k - 1
        BY <1>1, <1>2, <2>4 DEF Place
      <3>2. InFront(last) \subseteq InFront(k)' /\ i \in InFront(k)'
        <4>1. \A j \in 1 .. last - 1 : j \in 1 .. k - 1 /\ wire'[j] = wire[j]
          BY <1>1, <1>2, <2>4
        <4>2. InFront(last) \subseteq InFront(k)'
          BY <4>1 DEF InFront
        <4>3. wire'[last].id = i
          BY <1>2
        <4> QED
          BY <3>1, <4>2, <4>3 DEF InFront
      <3> HIDE DEF last
      <3>3. Missed(i + 1) \subseteq Missed(i) \union {i}
        BY <1>1 DEF Missed, Index
      <3>4. Missed(Place(k))' \ InFront(k)' \subseteq Missed(Place(last)) \ InFront(last)
        BY <1>3, <3>1, <3>2, <3>3
      <3>5. Few(Missed(Place(last)) \ InFront(last))
            /\ Missed(Place(last)) \ InFront(last) \in SUBSET Index
        BY <3>1, MissedIn DEF ListenInv
      <3>6. faults \in Nat /\ faults' \in Nat /\ faults <= faults'
        BY <1>1 DEF TypeOK, GatewayTypeOK
      <3>7. Cardinality(Missed(Place(k))' \ InFront(k)') <= WireCap * faults'
        BY <3>4, <3>5, <3>6, FewKept
      <3> QED
        BY <2>1, <3>7 DEF Few
    <2> QED
      BY <1>1, <1>2, <2>3, <2>4
  <1>6. LossInv'
    BY <1>1, <1>3 DEF LossInv, Few, Alive
  <1>7. DeafInv'
    BY <1>1 DEF DeafInv
  <1> QED
    BY <1>4, <1>5, <1>6, <1>7

\* What a failed attempt leaves behind, by what it has found.
LEMMA LossRead ==
    ASSUME Renewing, TypeOK, IndexInv, LostInv, Read
    PROVE  LostInv'
  <1> USE NAssumption DEF LostInv
  <1>1. /\ pc = "read" /\ pc' = "failed" /\ i \in 0 .. N /\ code = 0 /\ invalid_index = 0
        /\ UNCHANGED <<kind, link, wire, gw, delivered, bounced, faults, start_index, i>>
        /\ ~Alive /\ ~Alive' /\ reply' = NoReply
    BY DEF Read, TypeOK, IndexInv, ListenInv, Alive
  <1>2. \A u : Missed(u)' = Missed(u)
    BY <1>1, ClientMisses
  <1>3. WireInv' /\ ListenInv'
    BY <1>1 DEF WireInv, ListenInv
  <1>4. /\ Few(Missed(NextStart(Errcode, invalid_index)))'
        /\ link = "up" /\ gw = "rejecting" => Reconnectable(Errcode)'
    <2>1. CASE reply = NoReply
      <3>1. errno' = ReadErrno(link) /\ invalid_index' = i /\ code' = 0
        BY <1>1, <2>1 DEF Read, ReadFailIndex
      <3>2. Errcode' # "TOKEN_INVALID"
        BY <3>1 DEF Errcode, ReadErrno
      <3>3. NextStart(Errcode, invalid_index)' = i
        BY <3>1, <3>2 DEF NextStart
      <3>4. Few(Missed(i))
        BY <1>1, <2>1 DEF LossInv
      <3>5. ~(link = "up" /\ gw = "rejecting")
        BY <1>1, <2>1 DEF DeafInv
      <3> QED
        BY <1>1, <1>2, <3>3, <3>4, <3>5 DEF Few
    <2>2. CASE reply # NoReply /\ reply.code = InvalidToken
      <3>1. code' = InvalidToken /\ invalid_index' = reply.id
        BY <2>2 DEF Read, ParsedIndex
      <3>2. Errcode' = "TOKEN_INVALID"
        BY <3>1 DEF Errcode, ConvertAppleError, InvalidToken, ProcessingError,
           InvalidPayloadSize, ServiceShutdown
      <3>3. NextStart(Errcode, invalid_index)' = reply.id + 1
        BY <3>1, <3>2 DEF NextStart
      <3>4. Few(Missed(reply.id + 1))
        BY <2>2, CodesAssumption DEF LossInv
      <3> QED
        BY <1>1, <1>2, <3>2, <3>3, <3>4 DEF Few, Reconnectable
    <2>3. CASE reply # NoReply /\ reply.code # InvalidToken
      <3>1. code' = reply.code /\ invalid_index' = 0 /\ reply.code \in Codes /\ faults > 0
        BY <1>1, <2>3 DEF Read, ParsedIndex, LossInv
      <3>2. code' > 0
        <4>1. \A c \in Codes : c > 0
          BY CodesAssumption DEF AppleCodes, ServiceShutdown
        <4> QED
          BY <3>1, <4>1
      <3>3. Errcode' = ConvertAppleError(code') /\ Reconnectable(Errcode)'
        BY <3>1, <3>2 DEF Errcode, Renewing
      <3>4. NextStart(Errcode, invalid_index)' \in {0, 1}
        BY <3>1 DEF NextStart
      <3>5. Missed(0) \subseteq {0} /\ Missed(1) \subseteq {0}
        BY DEF Missed, Index
      <3>6. \A u \in {0, 1} : Few(Missed(u))
        <4>1. SUFFICES ASSUME NEW S \in SUBSET {0} PROVE Cardinality(S) <= WireCap * faults
          BY <3>5 DEF Few
        <4>2. IsFiniteSet({0}) /\ Cardinality({0}) = 1
          BY FS_Singleton
        <4>3. Cardinality(S) <= 1 /\ Cardinality(S) \in Nat
          BY <4>2, FS_Subset, FS_CardinalityType
        <4>4. faults \in Nat /\ 1 \in Nat /\ 1 <= faults
          BY <3>1 DEF TypeOK, GatewayTypeOK
        <4>5. WireCap * 1 <= WireCap * faults /\ WireCap * faults \in Nat
          BY <4>4, BudgetGrows
        <4>6. WireCap * 1 >= 1 /\ WireCap * 1 \in Nat
          BY WireCapAssumption
        <4> QED
          BY <4>3, <4>5, <4>6
      <3> QED
        BY <1>1, <1>2, <3>3, <3>4, <3>6 DEF Few
    <2> QED
      BY <2>1, <2>2, <2>3
  <1>5. LossInv'
    BY <1>1, <1>2, <1>4 DEF LossInv, Few
  <1>6. DeafInv'
    BY <1>1, <1>4 DEF DeafInv
  <1> QED
    BY <1>3, <1>5, <1>6

LEMMA LossFailure ==
    ASSUME Renewing, TypeOK, IndexInv, LostInv, HandleFailure
    PROVE  LostInv'
  <1> USE NAssumption DEF LostInv
  <1>1. /\ pc = "failed" /\ pc' \in {"top", "done"} /\ start_index' = NextStart(Errcode, invalid_index)
        /\ UNCHANGED <<kind, link, wire, gw, reply, delivered, bounced, faults, i, code,
                       invalid_index>>
    BY DEF HandleFailure, GoOn, GiveUp, gatewayVars
  <1>2. \A u : Missed(u)' = Missed(u)
    BY <1>1, ClientMisses
  <1>3. WireInv'
    BY <1>1 DEF WireInv
  <1>4. ListenInv'
    <2> SUFFICES ASSUME Alive
                 PROVE  /\ \A k \in 1 .. Len(wire') + 1 : Few(Missed(Place(k)) \ InFront(k))'
                        /\ reply = NoReply /\ start_index' = 0
      BY <1>1 DEF ListenInv, Alive
    <2>1. \A k \in 1 .. Len(wire') + 1 : Few(Missed(Place(k)) \ InFront(k))'
      BY <1>1, ListenStays
    <2> QED
      BY <1>1, <2>1 DEF ListenInv
  <1>5. Few(Missed(start_index))'
    BY <1>1, <1>2 DEF LossInv, Few
  <1>6. ASSUME pc' = "done", ret' = "SUCCESS"
        PROVE  Cardinality(Missed(N)') <= WireCap * (faults' + 1)
    <2>1. start_index' >= N
      BY <1>1, <1>6 DEF HandleFailure, GoOn, GiveUp
    <2>2. start_index' \in 0 .. N + 1
      BY <1>1 DEF NextStart, TypeOK
    <2>3. Missed(N) \subseteq Missed(start_index')
      BY <2>1, <2>2 DEF Missed, Index
    <2>4. Few(Missed(start_index'))
      BY <1>1 DEF LossInv
    <2>5. Cardinality({}) <= WireCap /\ {} \in SUBSET Index /\ faults \in Nat
      BY FS_EmptySet, WireCapAssumption DEF TypeOK, GatewayTypeOK
    <2>6. Cardinality(Missed(N)) <= WireCap * (faults + 1)
      <3>1. Missed(N) \in SUBSET (Missed(start_index') \union {})
        BY <2>3
      <3> QED
        BY <2>4, <2>5, <3>1, MissedIn, FewMore
    <2> QED
      BY <1>1, <1>2, <2>6
  <1>7. LossInv'
    BY <1>1, <1>2, <1>5, <1>6 DEF LossInv, Few
  <1>8. DeafInv'
    <2>1. pc' = "top" => auto_reconnect' = IF Reconnectable(Errcode) THEN 1 ELSE auto_reconnect
      BY <1>1 DEF HandleFailure, GoOn, GiveUp, Renewing
    <2> QED
      BY <1>1, <2>1 DEF DeafInv
  <1> QED
    BY <1>3, <1>4, <1>7, <1>8

\* An attempt that fails on select() or a write goes back to the start of the list.
LEMMA LossSelectWrite ==
    ASSUME Renewing, TypeOK, IndexInv, LostInv, SelectFails \/ WriteFails
    PROVE  LostInv'
  <1> USE NAssumption DEF LostInv
  <1>1. /\ pc \in {"loop", "write"} /\ pc' = "failed" /\ code' = 0 /\ invalid_index' = 0
        /\ UNCHANGED <<kind, link, wire, gw, reply, delivered, bounced, start_index, i>>
        /\ faults' \in {faults, faults + 1} /\ errno' # "TOKEN_INVALID"
    BY DEF SelectFails, WriteFails, WriteFailIndex, WriteErrno, IndexInv, gatewayVars
  <1>2. \A u : Missed(u)' = Missed(u)
    BY <1>1, ClientMisses
  <1>3. faults \in Nat /\ faults' \in Nat /\ (faults > 0 => faults' > 0)
    BY <1>1 DEF TypeOK, GatewayTypeOK
  <1>4. \A u : Few(Missed(u)) => Few(Missed(u))'
    BY <1>1, <1>2, FewStays, MissedIn DEF Few
  <1>5. NextStart(Errcode, invalid_index)' = 0
    BY <1>1 DEF NextStart, Errcode
  <1>6. Few(Missed(0))'
    BY <1>2, <1>3, BudgetEmpty, MissedNone DEF Few
  <1>7. WireInv'
    BY <1>1 DEF WireInv
  <1>8. ListenInv'
    <2> SUFFICES ASSUME Alive
                 PROVE  /\ \A k \in 1 .. Len(wire') + 1 : Few(Missed(Place(k)) \ InFront(k))'
                        /\ reply = NoReply
      BY <1>1, <1>5 DEF ListenInv, Alive
    <2>1. \A k \in 1 .. Len(wire') + 1 : Few(Missed(Place(k)) \ InFront(k))'
      BY <1>1, ListenStays
    <2> QED
      BY <2>1 DEF ListenInv
  <1>9. LossInv'
    <2>1. Few(Missed(NextStart(Errcode, invalid_index)))'
      BY <1>5, <1>6
    <2> QED
      BY <1>1, <1>3, <1>4, <2>1 DEF LossInv
  <1>10. DeafInv'
    BY <1>1 DEF DeafInv
  <1> QED
    BY <1>7, <1>8, <1>9, <1>10

\* The head of an attempt.
LEMMA LossHead ==
    ASSUME TypeOK, IndexInv, LostInv, StartAttempt \/ Close \/ ReconnectOk \/ ReconnectFails
    PROVE  LostInv'
  <1> USE NAssumption, WireCapAssumption DEF LostInv
  <1>1. /\ UNCHANGED <<kind, delivered, bounced, start_index>> /\ faults' \in {faults, faults + 1}
        /\ faults \in Nat /\ faults' \in Nat /\ (faults > 0 => faults' > 0)
    BY DEF StartAttempt, Close, ReconnectOk, ReconnectFails, gatewayVars, TypeOK, GatewayTypeOK
  <1>2. \A u : Missed(u)' = Missed(u)
    BY <1>1, ClientMisses
  <1>3. \A u : Few(Missed(u)) => Few(Missed(u))'
    BY <1>1, <1>2, FewStays, MissedIn DEF Few
  <1>4. Few(Missed(start_index)) /\ Few(Missed(start_index))'
    BY <1>1, <1>3 DEF LossInv
  <1>5. CASE StartAttempt
    <2>1. /\ pc = "top" /\ pc' = "loop" /\ i' = start_index /\ auto_reconnect = 0
          /\ UNCHANGED <<link, wire, gw, reply, faults>>
      BY <1>5 DEF StartAttempt, gatewayVars
    <2>2. WireInv'
      BY <1>1, <2>1 DEF WireInv
    <2>3. ListenInv'
      <3> SUFFICES ASSUME Alive
                   PROVE  /\ \A k \in 1 .. Len(wire') + 1 : Few(Missed(Place(k)) \ InFront(k))'
                          /\ reply = NoReply
        BY <2>1 DEF ListenInv, Alive
      <3>1. i' = 0 /\ reply = NoReply
        BY <2>1 DEF ListenInv
      <3>2. \A k \in 1 .. Len(wire') + 1 : Few(Missed(Place(k)) \ InFront(k))'
        BY <1>1, <2>1, <3>1, ListenStays
      <3> QED
        BY <3>1, <3>2
    <2>4. Few(Missed(i))'
      BY <1>1, <1>4, <2>1
    <2>5. LossInv'
      BY <1>1, <1>3, <1>4, <2>1, <2>4 DEF LossInv
    <2>6. DeafInv'
      BY <2>1 DEF DeafInv
    <2> QED
      BY <2>2, <2>3, <2>5, <2>6
  <1>6. CASE Close
    <2>1. /\ pc' = "connect" /\ ~Alive' /\ wire' = <<>> /\ gw' = "open" /\ reply' = NoReply
          /\ link' = "closed"
      BY <1>6 DEF Close, LinkClosed, Alive
    <2> QED
      BY <1>4, <2>1 DEF WireInv, ListenInv, LossInv, DeafInv
  <1>7. CASE ReconnectOk
    <2>1. /\ pc = "connect" /\ pc' = "loop" /\ i' = start_index /\ link' = "up"
          /\ wire = <<>> /\ wire' = <<>> /\ gw' = "open" /\ reply' = NoReply
      BY <1>7 DEF ReconnectOk, DeafInv
    <2>2. WireInv' /\ DeafInv'
      BY <2>1 DEF WireInv, DeafInv
    <2>3. ListenInv'
      <3>1. ASSUME NEW k \in 1 .. Len(wire') + 1 PROVE Few(Missed(Place(k)) \ InFront(k))'
        <4>1. k = 1 /\ Place(k)' = start_index
          BY <2>1 DEF Place
        <4>2. InFront(k)' = {}
          BY <4>1 DEF InFront
        <4>3. Missed(Place(k))' \ InFront(k)' = Missed(start_index)'
          BY <1>1, <4>1, <4>2
        <4> QED
          BY <1>4, <4>3 DEF Few
      <3> QED
        BY <2>1, <3>1 DEF ListenInv
    <2>4. LossInv'
      BY <1>4, <2>1 DEF LossInv, Alive
    <2> QED
      BY <2>2, <2>3, <2>4
  <1>8. CASE ReconnectFails
    <2>1. /\ pc = "connect" /\ pc' = "done" /\ ret' = "ERROR"
          /\ UNCHANGED <<wire, gw, reply>> /\ ~Alive' /\ link' # "up" /\ wire = <<>> /\ reply = NoReply
      BY <1>8 DEF ReconnectFails, DeafInv, Alive, Leftovers
    <2> QED
      BY <1>4, <2>1 DEF WireInv, ListenInv, LossInv, DeafInv, Alive
  <1> QED
    BY <1>5, <1>6, <1>7, <1>8

\* The two places where the code waits for the socket, and the process's end.
LEMMA LossSelect ==
    ASSUME TypeOK, IndexInv, LostInv, Select \/ FinalSelect \/ Killed
    PROVE  LostInv'
  <1> USE NAssumption DEF LostInv
  <1>1. /\ UNCHANGED <<gatewayVars, start_index, auto_reconnect, invalid_index, code, i, errno>>
        /\ UNCHANGED <<kind, link, wire, gw, reply, delivered, bounced, faults>>
    BY DEF Select, FinalSelect, Killed, gatewayVars, callVars
  <1>2. \A u : Missed(u)' = Missed(u)
    BY <1>1, ClientMisses
  <1>3. /\ Few(Missed(start_index))'
        /\ \A u : Few(Missed(u)) => Few(Missed(u))'
    BY <1>1, <1>2 DEF LossInv, Few
  <1>4. Alive => \A k \in 1 .. Len(wire') + 1 : Few(Missed(Place(k)) \ InFront(k))'
    BY <1>1, ListenStays
  <1>5. pc = "loop" /\ ~Readable => Alive /\ link = "up" /\ reply = NoReply
    BY DEF Readable, DeafInv, Alive, TypeOK, GatewayTypeOK
  <1>6. CASE Select
    <2>1. /\ pc = "loop" /\ pc' \in {"read", "write"} /\ device' = SetToken(i, device)
          /\ pc' = "read" => Readable
          /\ pc' = "write" => ~Readable /\ Writable
      BY <1>6 DEF Select
    <2>2. WireInv'
      <3>1. pc' = "write" => Len(wire) < WireCap
        BY <1>5, <2>1 DEF Writable
      <3>2. kind[i] # "malformed" => device' = i
        BY <2>1 DEF SetToken
      <3> QED
        BY <1>1, <3>1, <3>2 DEF WireInv
    <2>3. ListenInv'
      <3>1. Alive => reply = NoReply /\ pc' # "read"
        BY <2>1 DEF ListenInv, Readable, Alive
      <3> QED
        BY <1>1, <1>4, <2>1, <3>1 DEF ListenInv, Alive
    <2>4. LossInv'
      <3>1. ~Alive /\ reply = NoReply => pc' = "read" /\ Few(Missed(i))
        BY <1>5, <2>1 DEF LossInv
      <3> QED
        BY <1>1, <1>3, <2>1, <3>1 DEF LossInv, Alive
    <2>5. DeafInv'
      BY <1>1, <2>1 DEF DeafInv
    <2> QED
      BY <2>2, <2>3, <2>4, <2>5
  <1>7. CASE FinalSelect
    <2>1. /\ pc = "loop" /\ pc' \in {"read", "done"} /\ i = N
          /\ pc' = "read" => Readable
          /\ pc' = "done" => ~Readable
      BY <1>7 DEF FinalSelect
    <2>2. WireInv'
      BY <1>1, <2>1 DEF WireInv
    <2>3. ListenInv'
      <3>1. Alive => reply = NoReply /\ pc' # "read"
        BY <2>1 DEF ListenInv, Readable, Alive
      <3> QED
        BY <1>1, <1>4, <2>1, <3>1 DEF ListenInv, Alive
    <2>4. ASSUME pc' = "done" PROVE Cardinality(Missed(N)') <= WireCap * (faults' + 1)
      <3>1. Alive
        BY <1>5, <2>1, <2>4
      <3>2. Cardinality({}) + Len(wire) <= WireCap /\ {} \in SUBSET Index
        BY FS_EmptySet, WireCapAssumption DEF WireInv, TypeOK, GatewayTypeOK
      <3>3. Cardinality(Missed(N)) <= WireCap * (faults + 1)
        BY <2>1, <3>1, <3>2, MissedOnWire
      <3> QED
        BY <1>1, <1>2, <3>3
    <2>5. LossInv'
      <3>1. ~Alive /\ reply = NoReply => pc' = "read" /\ Few(Missed(i))
        BY <1>5, <2>1 DEF LossInv
      <3> QED
        BY <1>1, <1>3, <2>1, <2>4, <3>1 DEF LossInv, Alive
    <2>6. DeafInv'
      BY <1>1, <1>5, <2>1 DEF DeafInv, Alive
    <2> QED
      BY <2>2, <2>3, <2>5, <2>6
  <1>8. CASE Killed
    <2>1. pc' = "killed" /\ link = "pipe"
      BY <1>8 DEF Killed
    <2> QED
      BY <1>1, <1>3, <2>1 DEF WireInv, ListenInv, LossInv, DeafInv, Alive
  <1> QED
    BY <1>6, <1>7, <1>8

\* Where every refusal that is read is followed by a new connection: what the wire
\* holds, and that all that is missed before the place to resume at was on a wire
\* that broke.
THEOREM LossInvariant ==
    ASSUME Renewing
    PROVE  Spec => []LostInv
  <1> USE DEF Spec
  <1>1. Init => LostInv
    BY LossInit
  <1>2. TypeOK /\ IndexInv /\ LostInv /\ [Next]_vars => LostInv'
    <2> SUFFICES ASSUME TypeOK, IndexInv, LostInv, [Next]_vars PROVE LostInv'
      OBVIOUS
    <2>1. CASE Client \/ ClientFault
      BY <2>1, LossHead, LossSelect, LossRead, LossWrite, LossSelectWrite, LossFailure
         DEF Client, ClientFault
    <2>2. CASE Environment
      BY <2>2, WireGateway, LossGateway DEF LostInv
    <2>3. CASE UNCHANGED vars
      BY <2>3 DEF LostInv, WireInv, ListenInv, LossInv, DeafInv, Few, Missed, Decided, Place,
         InFront, Alive, Errcode, NextStart, vars, gatewayVars, callVars
    <2> QED
      BY <2>1, <2>2, <2>3 DEF Next, Terminated
  <1> QED
    BY <1>1, <1>2, TypeCorrect, PTL

\* For lists, wires and numbers of faults of any size, and tokens of any kind: a
\* broken connection costs at most what was on the wire, and so does a packet that
\* comes too late.
THEOREM LossBoundedHolds ==
    ASSUME Renewing
    PROVE  Spec => []LossBounded
  <1>1. LostInv => LossBounded
    BY DEF LostInv, LossInv, Few, LossBounded
  <1> QED
    BY <1>1, LossInvariant, PTL
=============================================================================
