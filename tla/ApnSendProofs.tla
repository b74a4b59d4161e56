---------------------------- MODULE ApnSendProofs ----------------------------
(***************************************************************************)
(* Theorems about apn_send, for every number of tokens and every setting   *)
(* of the constants.                                                       *)
(***************************************************************************)
EXTENDS ApnSendProps, TLAPS

\* The values a status code can be converted to.
LEMMA ConvertType ==
    \A c : ConvertAppleError(c) \in LibErrors
  BY DEF ConvertAppleError, LibErrors

\* The values a failed read or write leaves in errno.
LEMMA ErrnoType ==
    \A l : /\ ReadErrno(l) \in LibErrors \ {"TOKEN_INVALID"}
           /\ WriteErrno(l) \in LibErrors \ {"TOKEN_INVALID"}
  BY DEF ReadErrno, WriteErrno, LibErrors

\* The types and IndexInv hold initially.
LEMMA TypeInit == Init => TypeOK /\ IndexInv
  <1> SUFFICES ASSUME Init PROVE TypeOK /\ IndexInv
    OBVIOUS
  <1> USE NAssumption, KindsAssumption, FaultsAssumption
  <1>1. 0 \in Index /\ 0 < N /\ 0 \in 0 .. N
    BY DEF Index
  <1>2. GatewayTypeOK
    BY <1>1 DEF Init, GatewayInit, GatewayTypeOK, NoReply, LinkStates, AppleCodes, Index
  <1>3. TypeOK
    <2>1. device \in Index \union {NoDevice} /\ start_index \in 0 .. N /\ invalid_index \in 0 .. N
          /\ i \in 0 .. N
      BY <1>1 DEF Init
    <2>2. reported \in Seq(Index)
      BY DEF Init
    <2> QED
      BY <1>2, <2>1, <2>2, Zenon DEF Init, TypeOK
  <1>4. IndexInv
    BY <1>1 DEF Init, IndexInv
  <1> QED
    BY <1>3, <1>4

\* Every step of the gateway and the network preserves the types.
LEMMA GatewayType ==
    ASSUME TypeOK, GatewayStep \/ FaultStep
    PROVE  GatewayTypeOK'
  <1> USE NAssumption, CodesAssumption, FaultsAssumption DEF TypeOK, GatewayTypeOK
  <1>1. 0 \in Index
    BY DEF Index
  <1>2. ASSUME wire # <<>>
        PROVE  Head(wire) \in Frame /\ Tail(wire) \in Seq(Frame)
    BY <1>2
  <1>3. CASE GwAccept
    <2>1. Bump(delivered, Head(wire).dev) \in [Index -> 0 .. 2]
      BY DEF Bump
    <2> QED
      BY <1>2, <1>3, <2>1 DEF GwAccept, Handling
  <1>4. CASE GwReject
    <2>1. Head(wire).id \in Index /\ Tail(wire) \in Seq(Frame)
      BY <1>2, <1>4 DEF GwReject, Handling, Frame
    <2> QED
      BY <1>4, <2>1 DEF GwReject, AppleCodes, InvalidToken
  <1>5. CASE GwDiscard
    BY <1>2, <1>5 DEF GwDiscard
  <1>6. CASE GwHangUp
    BY <1>6 DEF GwHangUp, LinkStates
  <1>7. ASSUME NEW c \in Codes, GwRefuse(c)
        PROVE  GatewayTypeOK'
    <2>1. Head(wire).id \in Index /\ Tail(wire) \in Seq(Frame) /\ c \in AppleCodes
      BY <1>2, <1>7 DEF GwRefuse, Handling, Frame
    <2> QED
      BY <1>7, <2>1 DEF GwRefuse
  <1>8. ASSUME NEW how \in Faults, LinkBreaks(how)
        PROVE  GatewayTypeOK'
    BY <1>8 DEF LinkBreaks, LinkStates
  <1> QED
    BY <1>3, <1>4, <1>5, <1>6, <1>7, <1>8 DEF GatewayStep, FaultStep

\* Every step preserves the types and IndexInv.
LEMMA TypeStep ==
    ASSUME TypeOK, IndexInv, [Next]_vars
    PROVE  TypeOK' /\ IndexInv'
  <1> USE NAssumption, FaultsAssumption
  <1>0. 0 \in Index /\ 0 \in 0 .. N
    BY DEF Index
  <1>1. CASE UNCHANGED vars
    BY <1>1 DEF vars, gatewayVars, callVars, TypeOK, GatewayTypeOK, IndexInv
  <1>2. CASE Environment
    <2>1. GatewayTypeOK'
      BY <1>2, GatewayType DEF Environment
    <2> QED
      BY <1>2, <2>1 DEF Environment, callVars, TypeOK, IndexInv
  <1>3. CASE StartAttempt
    BY <1>0, <1>3 DEF StartAttempt, gatewayVars, TypeOK, GatewayTypeOK, IndexInv
  <1>4. CASE Close
    BY <1>0, <1>4 DEF Close, LinkClosed, TypeOK, GatewayTypeOK, IndexInv, NoReply, LinkStates
  <1>5. CASE ReconnectOk
    BY <1>0, <1>5 DEF ReconnectOk, TypeOK, GatewayTypeOK, IndexInv, LinkStates
  <1>6. CASE ReconnectFails
    <2>1. link' \in LinkStates /\ errno' \in LibErrors /\ errno' # "TOKEN_INVALID"
      BY <1>6 DEF ReconnectFails, Leftovers, ConnectErrnos, LinkStates, LibErrors
    <2> QED
      BY <1>6, <2>1 DEF ReconnectFails, TypeOK, GatewayTypeOK, IndexInv
  <1>7. CASE Select
    <2>1. SetToken(i, device) \in Index \union {NoDevice}
      BY <1>7 DEF Select, TypeOK, SetToken, Index
    <2> QED
      BY <1>7, <2>1 DEF Select, gatewayVars, TypeOK, GatewayTypeOK, IndexInv
  <1>8. CASE FinalSelect
    BY <1>8 DEF FinalSelect, gatewayVars, TypeOK, GatewayTypeOK, IndexInv
  <1>9. CASE SelectFails
    <2>1. device' \in Index \union {NoDevice}
      BY <1>9 DEF SelectFails, TypeOK, SetToken, Index
    <2> QED
      BY <1>9, <2>1 DEF SelectFails, WriteFailIndex, TypeOK, GatewayTypeOK, IndexInv, LibErrors
  <1>10. CASE Read
    <2>1. CASE reply # NoReply
      BY <1>0, <1>10, <2>1
         DEF Read, TypeOK, GatewayTypeOK, IndexInv, ParsedIndex, NoReply, Index
    <2>2. CASE reply = NoReply
      BY <1>10, <2>2, ErrnoType
         DEF Read, TypeOK, GatewayTypeOK, IndexInv, ReadFailIndex
    <2> QED
      BY <2>1, <2>2
  <1>11. CASE Write
    <2>1. i \in Index /\ [id |-> i, dev |-> device] \in Frame
      BY <1>11 DEF Write, TypeOK, IndexInv, Index, Frame
    <2> QED
      BY <1>11, <2>1 DEF Write, TypeOK, GatewayTypeOK, IndexInv, Index
  <1>12. CASE WriteFails
    BY <1>12, ErrnoType
       DEF WriteFails, gatewayVars, WriteFailIndex, TypeOK, GatewayTypeOK, IndexInv
  <1>13. CASE Killed
    BY <1>13 DEF Killed, gatewayVars, callVars, TypeOK, GatewayTypeOK, IndexInv
  <1>14. CASE HandleFailure
    <2>1. Errcode \in LibErrors \union {"none"}
      BY ConvertType DEF Errcode, TypeOK
    <2>2. Errcode = "TOKEN_INVALID" => invalid_index \in Index
      BY <1>14 DEF HandleFailure, Errcode, TypeOK, GatewayTypeOK, IndexInv, AppleCodes,
                   ServiceShutdown, Index
    <2>3. NextStart(Errcode, invalid_index) \in 0 .. N
      BY <2>2 DEF NextStart, TypeOK, Index
    <2>4. reported' \in Seq(Index)
      BY <1>14, <2>2 DEF HandleFailure, TypeOK
    <2>5. CASE GoOn(start_index')
      BY <1>14, <2>3, <2>4, <2>5
         DEF HandleFailure, GoOn, gatewayVars, TypeOK, GatewayTypeOK, IndexInv
    <2>6. CASE GiveUp(start_index')
      <3>1. errno' \in LibErrors \union {"none"} /\ errno' # "TOKEN_INVALID"
        BY <2>1, <2>6 DEF GiveUp
      <3> QED
        BY <1>14, <2>3, <2>4, <2>6, <3>1
           DEF HandleFailure, GiveUp, gatewayVars, TypeOK, GatewayTypeOK, IndexInv
    <2> QED
      BY <1>14, <2>5, <2>6 DEF HandleFailure
  <1>15. CASE Terminated
    BY <1>1, <1>15 DEF Terminated
  <1> QED
    BY <1>1, <1>2, <1>3, <1>4, <1>5, <1>6, <1>7, <1>8, <1>9, <1>10, <1>11, <1>12, <1>13,
       <1>14, <1>15 DEF Next, Client, ClientFault

\* Whatever the environment does, the variables of a call keep their types.
THEOREM TypeCorrect == Spec => [](TypeOK /\ IndexInv)
  <1>1. Init => TypeOK /\ IndexInv
    BY TypeInit
  <1>2. TypeOK /\ IndexInv /\ [Next]_vars => (TypeOK /\ IndexInv)'
    BY TypeStep
  <1> QED
    BY <1>1, <1>2, PTL DEF Spec

\* Whatever the environment does, the assertion on apn.c:707 holds and the array
\* access on apn.c:336 stays inside the array.
THEOREM IndicesSafe == Spec => []IndicesInRange
  <1>1. TypeOK /\ IndexInv => IndicesInRange
    BY DEF TypeOK, GatewayTypeOK, IndexInv, IndicesInRange, Errcode, AppleCodes, ServiceShutdown
  <1> QED
    BY <1>1, TypeCorrect, PTL

-----------------------------------------------------------------------------
(* No false accusation: any fault, any other status code, any kind of token *)

\* Only the two token codes make the error TOKEN_INVALID.
LEMMA ErrcodeToken ==
    ASSUME IndexInv, code # InvalidTokenSize, code \in Nat, Errcode = "TOKEN_INVALID"
    PROVE  code = InvalidToken
  BY DEF IndexInv, Errcode, ConvertAppleError, InvalidToken, InvalidTokenSize,
         InvalidPayloadSize, ProcessingError, ServiceShutdown

LEMMA BlameGateway ==
    ASSUME InvalidTokenSize \notin Codes, TypeOK, BlameInv, Environment
    PROVE  BlameInv'
  <1> USE NAssumption DEF BlameInv
  <1>1. UNCHANGED <<pc, i, device, code, invalid_index, reported, kind>>
    BY DEF Environment, callVars, GatewayStep, FaultStep, GwAccept, GwReject, GwDiscard, GwHangUp,
           GwRefuse, LinkBreaks
  <1>2. wire \in Seq(Frame)
    BY DEF TypeOK, GatewayTypeOK
  <1>3. ASSUME wire # <<>>, wire' = Tail(wire)
        PROVE  \A k \in 1 .. Len(wire') :
                   kind'[wire'[k].id] # "malformed" => wire'[k].dev = wire'[k].id
    <2> SUFFICES ASSUME NEW k \in 1 .. Len(Tail(wire)), kind[Tail(wire)[k].id] # "malformed"
                 PROVE  Tail(wire)[k].dev = Tail(wire)[k].id
      BY <1>1, <1>3
    <2>1. Tail(wire)[k] = wire[k + 1] /\ k + 1 \in 1 .. Len(wire)
      BY <1>2, <1>3
    <2> QED
      BY <2>1
  <1>4. CASE GwReject
    <2>1. wire # <<>> /\ wire' = Tail(wire) /\ reply' = [code |-> InvalidToken, id |-> Head(wire).id]
          /\ (Head(wire).dev = NoDevice \/ kind[Head(wire).dev] # "good")
      BY <1>4 DEF GwReject, Handling
    <2>2. Head(wire) = wire[1] /\ 1 \in 1 .. Len(wire) /\ Head(wire) \in Frame
      BY <1>2, <2>1
    <2>3. kind[Head(wire).id] # "good"
      <3>1. CASE kind[Head(wire).id] = "malformed"
        BY <3>1
      <3>2. CASE kind[Head(wire).id] # "malformed"
        <4>1. Head(wire).dev = Head(wire).id /\ Head(wire).id \in Index
          BY <2>2, <3>2 DEF Frame
        <4>2. Head(wire).dev # NoDevice
          BY <4>1 DEF NoDevice, Index
        <4> QED
          BY <2>1, <4>1, <4>2
      <3> QED
        BY <3>1, <3>2
    <2>4. reply'.code = InvalidToken /\ reply'.id = Head(wire).id
      BY <2>1
    <2> QED
      BY <1>1, <1>3, <2>1, <2>3, <2>4 DEF InvalidToken, InvalidTokenSize
  <1>5. CASE GwAccept \/ GwDiscard
    <2>1. wire # <<>> /\ wire' = Tail(wire) /\ reply' = reply
      BY <1>5 DEF GwAccept, GwDiscard, Handling
    <2> QED
      BY <1>1, <1>3, <2>1
  <1>6. ASSUME NEW c \in Codes, GwRefuse(c)
        PROVE  BlameInv'
    <2>1. wire # <<>> /\ wire' = Tail(wire) /\ reply' = [code |-> c, id |-> Head(wire).id]
      BY <1>6 DEF GwRefuse, Handling
    <2>2. reply'.code # InvalidTokenSize /\ reply'.code # InvalidToken
      BY <2>1, CodesAssumption
    <2> QED
      BY <1>1, <1>3, <2>1, <2>2
  <1>7. CASE GwHangUp \/ \E how \in Faults : LinkBreaks(how)
    BY <1>1, <1>7 DEF GwHangUp, LinkBreaks
  <1> QED
    BY <1>4, <1>5, <1>6, <1>7 DEF Environment, GatewayStep, FaultStep

LEMMA BlameClient ==
    ASSUME TypeOK, IndexInv, BlameInv, Client \/ ClientFault
    PROVE  BlameInv'
  <1> USE NAssumption DEF BlameInv
  <1>1. wire \in Seq(Frame) /\ i \in 0 .. N /\ reported \in Seq(Index) /\ code \in Nat
    BY DEF TypeOK, GatewayTypeOK, AppleCodes, ServiceShutdown
  <1>2. CASE StartAttempt
    BY <1>2 DEF StartAttempt, gatewayVars, InvalidTokenSize
  <1>3. CASE Close
    BY <1>3 DEF Close, LinkClosed, NoReply, InvalidToken, InvalidTokenSize
  <1>4. CASE ReconnectOk
    BY <1>4 DEF ReconnectOk, InvalidTokenSize
  <1>5. CASE ReconnectFails
    BY <1>5 DEF ReconnectFails
  <1>6. CASE Select
    <2>1. pc' = "write" /\ kind[i] # "malformed" => device' = i
      BY <1>6 DEF Select, SetToken
    <2> QED
      BY <1>6, <2>1 DEF Select, gatewayVars
  <1>7. CASE FinalSelect
    BY <1>7 DEF FinalSelect, gatewayVars
  <1>8. CASE SelectFails
    BY <1>8 DEF SelectFails, IndexInv, InvalidToken
  <1>9. CASE Read
    <2>1. CASE reply # NoReply
      <3>1. code' = reply.code /\ reply' = NoReply /\ pc' = "failed"
            /\ (reply.code = InvalidToken => invalid_index' = reply.id)
            /\ UNCHANGED <<kind, wire, i, device, reported>>
        BY <1>9, <2>1 DEF Read, ParsedIndex
      <3> QED
        BY <3>1 DEF NoReply, InvalidToken, InvalidTokenSize
    <2>2. CASE reply = NoReply
      BY <1>9, <2>2 DEF Read, IndexInv, InvalidToken
    <2> QED
      BY <2>1, <2>2
  <1>10. CASE Write
    <2>1. wire' = Append(wire, [id |-> i, dev |-> device]) /\ pc = "write" /\ pc' = "loop"
          /\ UNCHANGED <<kind, reply, code, invalid_index, reported>>
      BY <1>10 DEF Write
    <2>2. Len(wire') = Len(wire) + 1 /\ wire'[Len(wire) + 1] = [id |-> i, dev |-> device]
          /\ (\A k \in 1 .. Len(wire) : wire'[k] = wire[k]) /\ Len(wire) \in Nat
      BY <1>1, <2>1
    <2>3. ASSUME NEW k \in 1 .. Len(wire'), kind[wire'[k].id] # "malformed"
          PROVE  wire'[k].dev = wire'[k].id
      <3>1. CASE k = Len(wire) + 1
        BY <2>1, <2>2, <2>3, <3>1
      <3>2. CASE k # Len(wire) + 1
        <4>1. k \in 1 .. Len(wire)
          BY <2>2, <3>2
        <4> QED
          BY <2>2, <2>3, <4>1
      <3> QED
        BY <3>1, <3>2
    <2> QED
      BY <2>1, <2>3
  <1>11. CASE WriteFails
    BY <1>11 DEF WriteFails, gatewayVars, IndexInv, InvalidToken
  <1>12. CASE Killed
    BY <1>12 DEF Killed, gatewayVars, callVars
  <1>13. CASE HandleFailure
    <2>1. pc = "failed" /\ pc' \in {"top", "done"}
          /\ UNCHANGED <<kind, wire, reply, code, invalid_index, i, device>>
      BY <1>13 DEF HandleFailure, GoOn, GiveUp, gatewayVars
    <2>2. CASE reported' = reported
      BY <2>1, <2>2
    <2>3. CASE reported' # reported
      <3>1. Errcode = "TOKEN_INVALID" /\ reported' = Append(reported, invalid_index)
        BY <1>13, <2>3 DEF HandleFailure
      <3>2. code = InvalidToken
        BY <1>1, <3>1, ErrcodeToken
      <3>3. kind[invalid_index] # "good"
        BY <2>1, <3>2
      <3>4. invalid_index \in Index
        BY <2>1, <3>2 DEF IndexInv, TypeOK, Index, InvalidToken
      <3>5. \A k \in 1 .. Len(reported') : kind[reported'[k]] # "good"
        <4>1. Len(reported') = Len(reported) + 1 /\ Len(reported) \in Nat
              /\ reported'[Len(reported) + 1] = invalid_index
              /\ \A k \in 1 .. Len(reported) : reported'[k] = reported[k]
          BY <1>1, <3>1, <3>4
        <4>2. 1 .. Len(reported') = (1 .. Len(reported)) \union {Len(reported) + 1}
          BY <4>1
        <4> QED
          BY <3>3, <4>1, <4>2
      <3> QED
        BY <2>1, <3>5
    <2> QED
      BY <2>2, <2>3
  <1> QED
    BY <1>2, <1>3, <1>4, <1>5, <1>6, <1>7, <1>8, <1>9, <1>10, <1>11, <1>12, <1>13
       DEF Client, ClientFault

\* Who is blamed: unless the gateway answers INVALID_TOKEN_SIZE, a frame with the
\* id of a proper token carries that token, through every fault and reconnection,
\* and a packet that names one names a token the gateway has refused (apn.c:335-353,
\* 709, 719-723).
THEOREM BlameInvariant ==
    ASSUME InvalidTokenSize \notin Codes
    PROVE  Spec => []BlameInv
  <1>1. Init => BlameInv
    BY DEF Init, GatewayInit, BlameInv, NoReply, InvalidToken, InvalidTokenSize
  <1>2. TypeOK /\ IndexInv /\ BlameInv /\ [Next]_vars => BlameInv'
    <2> SUFFICES ASSUME TypeOK, IndexInv, BlameInv, [Next]_vars
                 PROVE  BlameInv'
      OBVIOUS
    <2>1. CASE UNCHANGED vars
      BY <2>1 DEF vars, gatewayVars, callVars, BlameInv
    <2> QED
      BY <2>1, BlameGateway, BlameClient DEF Next, Terminated
  <1> QED
    BY <1>1, <1>2, TypeCorrect, PTL DEF Spec

\* Whatever the network does and whatever the list holds, as long as the gateway
\* does not answer INVALID_TOKEN_SIZE the token of a registered device is never
\* handed to the caller as invalid.
THEOREM NoFalseAccusationHolds ==
    ASSUME InvalidTokenSize \notin Codes
    PROVE  Spec => []NoFalseAccusation
  <1>1. BlameInv => NoFalseAccusation
    BY DEF BlameInv, NoFalseAccusation, Reported
  <1> QED
    BY <1>1, BlameInvariant, PTL

-----------------------------------------------------------------------------
(* At most once: an environment whose only faults are connections closed by  *)
(* the gateway and reconnections that fail, and a list of tokens only.       *)

Gentle == /\ Faults \subseteq {"fin", "connect"}
          /\ Codes = {}
          /\ Kinds \subseteq {"good", "unknown"}

\* Only an invalid-token packet makes the error TOKEN_INVALID.
LEMMA ErrcodeInvalid ==
    ASSUME IndexInv, code \in {0, InvalidToken}
    PROVE  Errcode = "TOKEN_INVALID" <=> code = InvalidToken
  BY DEF IndexInv, Errcode, ConvertAppleError, InvalidToken, InvalidTokenSize,
         InvalidPayloadSize, ProcessingError, ServiceShutdown

LEMMA CloseInit == Gentle /\ Init => CloseInv
  <1> SUFFICES ASSUME Gentle, Init PROVE CloseInv
    OBVIOUS
  <1>1. TypeOK /\ IndexInv
    BY TypeInit
  <1>2. Undecided(0)
    BY DEF Init, GatewayInit, Undecided, Decided
  <1>3. StreamInv
    BY <1>2 DEF Init, GatewayInit, StreamInv
  <1>4. ResumeInv
    BY <1>2 DEF Init, GatewayInit, ResumeInv, TopInv, AttemptInv, ReplyInv, FailedInv, Leftovers
  <1>5. ReportInv /\ ReportedInOrder
    BY DEF Init, ReportInv, ReportedInOrder
  <1>6. AtMostOnce
    BY DEF Init, GatewayInit, AtMostOnce
  <1>7. \A x \in Index : kind[x] # "malformed"
    BY DEF Init, GatewayInit, Gentle
  <1> QED
    BY <1>1, <1>3, <1>4, <1>5, <1>6, <1>7 DEF CloseInv

\* What the gateway takes off a live stream is the frame of token
\* i - Len(wire), addressed to its own device.
LEMMA StreamHead ==
    ASSUME TypeOK, CloseInv, Handling
    PROVE  /\ i - Len(wire) \in Index
           /\ Head(wire).id = i - Len(wire) /\ Head(wire).dev = i - Len(wire)
           /\ Head(wire).dev # NoDevice
           /\ Len(Tail(wire)) = Len(wire) - 1 /\ Len(wire) > 0 /\ Len(wire) \in Nat
           /\ \A k \in 1 .. Len(Tail(wire)) :
                 Tail(wire)[k] = [id |-> (i - Len(wire)) + k, dev |-> (i - Len(wire)) + k]
  <1> USE NAssumption
  <1>1. Alive /\ wire # <<>> /\ wire \in Seq(Frame) /\ i \in 0 .. N /\ start_index \in 0 .. N
    BY DEF Handling, Alive, TypeOK, GatewayTypeOK
  <1>2. Len(wire) \in Nat /\ Len(wire) > 0 /\ Len(Tail(wire)) = Len(wire) - 1
    BY <1>1
  <1>3. /\ start_index + Len(wire) <= i
        /\ \A k \in 1 .. Len(wire) :
              wire[k] = [id |-> (i - Len(wire)) + (k - 1), dev |-> (i - Len(wire)) + (k - 1)]
    BY <1>1 DEF CloseInv, StreamInv
  <1>4. i - Len(wire) \in Index
    BY <1>1, <1>2, <1>3 DEF Index
  <1>5. Head(wire) = [id |-> i - Len(wire), dev |-> i - Len(wire)]
    <2>1. Head(wire) = wire[1]
      BY <1>1
    <2>2. wire[1] = [id |-> (i - Len(wire)) + (1 - 1), dev |-> (i - Len(wire)) + (1 - 1)]
      BY <1>2, <1>3
    <2> QED
      BY <1>1, <1>2, <2>1, <2>2
  <1>6. ASSUME NEW k \in 1 .. Len(Tail(wire))
        PROVE  Tail(wire)[k] = [id |-> (i - Len(wire)) + k, dev |-> (i - Len(wire)) + k]
    <2>1. Tail(wire)[k] = wire[k + 1] /\ k + 1 \in 1 .. Len(wire)
      BY <1>1, <1>2
    <2>2. wire[k + 1] = [id |-> (i - Len(wire)) + ((k + 1) - 1), dev |-> (i - Len(wire)) + ((k + 1) - 1)]
      BY <1>3, <2>1
    <2> QED
      BY <2>1, <2>2
  <1> QED
    BY <1>2, <1>4, <1>5, <1>6 DEF Index, NoDevice

\* Undecided looks at nothing but the two histories, and is monotonic.
LEMMA UndecidedMonotonic ==
    ASSUME NEW a \in Nat, NEW b \in Nat, a <= b, Undecided(a)
    PROVE  Undecided(b)
  BY NAssumption DEF Undecided, Index

LEMMA CloseGateway ==
    ASSUME Gentle, TypeOK, CloseInv, Environment
    PROVE  CloseInv'
  <1> USE NAssumption
  <1>1. UNCHANGED <<pc, start_index, auto_reconnect, invalid_index, code, i, device,
                    errno, ret, reported, sigpipe, rewound>>
    BY DEF Environment, callVars
  <1>2. IndexInv /\ StreamInv /\ ResumeInv /\ ReportInv /\ AtMostOnce /\ ReportedInOrder
        /\ \A x \in Index : kind[x] # "malformed"
    BY DEF CloseInv
  <1>3. i \in 0 .. N /\ start_index \in 0 .. N /\ delivered \in [Index -> 0 .. 2]
        /\ bounced \subseteq Index /\ wire \in Seq(Frame)
        /\ reported \in Seq(Index) /\ reply.id \in Index
    BY DEF TypeOK, GatewayTypeOK
  <1>4. IndexInv' /\ ReportedInOrder'
    BY <1>1, <1>2 DEF IndexInv, ReportedInOrder
  <1>5. CASE GwAccept
    <2>0. PICK d \in Index : d = i - Len(wire) /\ d \in Nat
      BY <1>5, StreamHead DEF GwAccept, Index
    <2>1. /\ Alive /\ Handling /\ Alive' /\ UNCHANGED <<kind, link, gw, reply, bounced>>
          /\ wire' = Tail(wire) /\ delivered' = Bump(delivered, d)
          /\ Len(wire') = Len(wire) - 1 /\ Len(wire) > 0 /\ Len(wire) \in Nat
      BY <1>5, <2>0, StreamHead DEF GwAccept, Handling, Alive
    <2>2. Undecided(d)
      BY <1>2, <2>0, <2>1 DEF StreamInv
    <2>3. delivered[d] = 0
      <3>1. ~(delivered[d] > 0)
        BY <2>0, <2>2 DEF Undecided, Decided
      <3> QED
        BY <1>3, <2>0, <3>1
    <2>4. delivered' = [delivered EXCEPT ![d] = 1]
      BY <2>1, <2>3 DEF Bump
    <2>5. Undecided(d + 1)'
      <3> SUFFICES ASSUME NEW x \in Index, x >= d + 1 PROVE ~Decided(x)'
        BY DEF Undecided
      <3>0. x # d /\ x >= d
        BY <2>0 DEF Index
      <3>1. ~Decided(x)
        BY <2>2, <3>0 DEF Undecided
      <3>2. delivered'[x] = delivered[x]
        BY <1>3, <2>0, <2>4, <3>0
      <3> QED
        BY <2>1, <3>1, <3>2 DEF Decided
    <2>6. StreamInv'
      <3>1. i' - Len(wire') = d + 1 /\ start_index' + Len(wire') <= i'
        <4>1. start_index + Len(wire) <= i
          BY <1>2, <2>1 DEF StreamInv
        <4>2. i' = i /\ start_index' = start_index /\ Len(wire') = Len(wire) - 1
              /\ Len(wire) \in Nat
          BY <1>1, <2>1
        <4>3. Len(wire') = Len(wire) - 1 => i - Len(wire') = d + 1 /\ start_index + Len(wire') <= i
          BY <1>3, <2>0, <4>1, <4>2
        <4> QED
          BY <4>2, <4>3
      <3>2. \A k \in 1 .. Len(wire') :
               wire'[k] = [id |-> (d + 1) + (k - 1), dev |-> (d + 1) + (k - 1)]
        <4> SUFFICES ASSUME NEW k \in 1 .. Len(Tail(wire))
                     PROVE  Tail(wire)[k] = [id |-> (d + 1) + (k - 1), dev |-> (d + 1) + (k - 1)]
          BY <2>1
        <4>1. Tail(wire)[k] = [id |-> d + k, dev |-> d + k]
          BY <2>0, <2>1, StreamHead
        <4>2. (d + 1) + (k - 1) = d + k
          BY <2>0
        <4> QED
          BY <4>1, <4>2
      <3>3. pc' \in {"top", "loop", "write", "done", "killed"} /\ pc' # "top" /\ reply' = NoReply
        BY <1>1, <1>2, <2>1 DEF StreamInv, Handling
      <3> QED
        BY <2>5, <3>1, <3>2, <3>3 DEF StreamInv
    <2>7. ResumeInv'
      BY <1>1, <1>2, <2>1, <2>6 DEF ResumeInv, TopInv, AttemptInv, ReplyInv, FailedInv, StreamInv
    <2>8. AtMostOnce'
      BY <1>2, <1>3, <2>0, <2>4 DEF AtMostOnce
    <2>9. ReportInv'
      BY <1>1, <1>2, <2>1 DEF ReportInv
    <2> QED
      BY <1>2, <1>4, <2>1, <2>6, <2>7, <2>8, <2>9 DEF CloseInv
  <1>6. CASE GwReject
    <2>0. PICK d \in Index : d = i - Len(wire) /\ d \in Nat
      BY <1>6, StreamHead DEF GwReject, Index
    <2>1. /\ Alive /\ ~Alive' /\ UNCHANGED <<kind, link, delivered>>
          /\ reply' = [code |-> InvalidToken, id |-> d] /\ bounced' = bounced \union {d}
          /\ Len(wire) > 0 /\ Len(wire) \in Nat /\ gw' = "rejecting"
      BY <1>6, <2>0, StreamHead DEF GwReject, Handling, Alive
    <2>2. Undecided(d) /\ start_index <= d
          /\ pc \in {"top", "loop", "write", "done", "killed"} /\ pc # "top" /\ reply = NoReply
      BY <1>2, <1>3, <1>6, <2>0, <2>1 DEF StreamInv, GwReject, Handling
    <2>3. Undecided(d + 1)'
      <3> SUFFICES ASSUME NEW x \in Index, x >= d + 1 PROVE ~Decided(x)'
        BY DEF Undecided
      <3>0. x # d /\ x >= d
        BY <2>0 DEF Index
      <3>1. ~Decided(x)
        BY <2>2, <3>0 DEF Undecided
      <3> QED
        BY <2>1, <3>0, <3>1 DEF Decided
    <2>4. reply' # NoReply /\ reply'.code = InvalidToken /\ reply'.id = d
      BY <2>1 DEF NoReply, InvalidToken
    <2>5. StreamInv'
      BY <2>1 DEF StreamInv
    <2>7. ResumeInv'
      <3>1. TopInv' /\ FailedInv'
        BY <1>1, <1>2, <2>1, <2>2 DEF ResumeInv, TopInv, FailedInv, Alive
      <3>2. AttemptInv'
        BY <1>1, <1>2, <2>4 DEF ResumeInv, AttemptInv
      <3>3. ReplyInv'
        BY <1>1, <2>1, <2>2, <2>3, <2>4 DEF ReplyInv, Undecided
      <3> QED
        BY <3>1, <3>2, <3>3 DEF ResumeInv
    <2>8. ReportInv' /\ AtMostOnce'
      BY <1>1, <1>2, <2>1 DEF ReportInv, AtMostOnce
    <2> QED
      BY <1>2, <1>4, <2>1, <2>5, <2>7, <2>8 DEF CloseInv
  <1>7. ASSUME UNCHANGED <<kind, reply, delivered, bounced>>, ~Alive',
               link' \in {link, "fin"}, pc # "connect", Alive => Undecided(i)
        PROVE  CloseInv'
    <2>1. StreamInv'
      BY <1>7 DEF StreamInv
    <2>2. ResumeInv'
      <3>1. \A x \in Index : Decided(x)' <=> Decided(x)
        BY <1>7 DEF Decided
      <3>2. Errcode' = Errcode
        BY <1>1 DEF Errcode
      <3>3. TopInv'
        BY <1>1, <1>2, <1>7, <3>1 DEF ResumeInv, TopInv, Undecided, Leftovers
      <3>4. AttemptInv'
        BY <1>1, <1>2, <1>7, <3>1 DEF ResumeInv, AttemptInv, Undecided
      <3>5. ReplyInv'
        BY <1>1, <1>2, <1>7, <3>1 DEF ResumeInv, ReplyInv, Undecided
      <3>6. FailedInv'
        BY <1>1, <1>2, <1>7, <3>1, <3>2 DEF ResumeInv, FailedInv, Undecided, NextStart
      <3> QED
        BY <3>3, <3>4, <3>5, <3>6 DEF ResumeInv
    <2>3. ReportInv' /\ AtMostOnce'
      BY <1>1, <1>2, <1>7 DEF ReportInv, AtMostOnce
    <2> QED
      BY <1>2, <1>4, <1>7, <2>1, <2>2, <2>3 DEF CloseInv
  <1>8. Alive => Undecided(i)
    BY <1>2, <1>3, UndecidedMonotonic DEF StreamInv
  <1>9. CASE GwDiscard
    BY <1>2, <1>7, <1>8, <1>9 DEF GwDiscard, Alive, ResumeInv, TopInv, AttemptInv, ReplyInv, FailedInv
  <1>10. CASE GwHangUp
    BY <1>2, <1>7, <1>8, <1>10 DEF GwHangUp, Alive, ResumeInv, TopInv, AttemptInv, ReplyInv, FailedInv
  <1>11. ASSUME NEW how \in Faults, LinkBreaks(how)
         PROVE  CloseInv'
    <2>1. how = "fin" /\ link = "up" /\ link' = "fin"
      BY <1>11 DEF LinkBreaks, Gentle, LinkStates
    <2> QED
      BY <1>2, <1>7, <1>8, <1>11, <2>1 DEF LinkBreaks, Alive, ResumeInv, TopInv, AttemptInv, ReplyInv, FailedInv
  <1> QED
    BY <1>5, <1>6, <1>9, <1>10, <1>11 DEF Environment, GatewayStep, FaultStep, Gentle

LEMMA CloseClient ==
    ASSUME Gentle, TypeOK, CloseInv, Client \/ ClientFault, IndexInv'
    PROVE  CloseInv'
  <1> USE NAssumption
  <1>2. IndexInv /\ StreamInv /\ ResumeInv /\ ReportInv /\ AtMostOnce /\ ReportedInOrder
        /\ \A x \in Index : kind[x] # "malformed"
    BY DEF CloseInv
  <1>3. i \in 0 .. N /\ start_index \in 0 .. N /\ delivered \in [Index -> 0 .. 2]
        /\ bounced \subseteq Index /\ wire \in Seq(Frame) /\ Len(wire) \in Nat
        /\ reported \in Seq(Index) /\ reply.id \in Index
    BY DEF TypeOK, GatewayTypeOK
  <1>4. ASSUME UNCHANGED <<kind, delivered, bounced>>
        PROVE  /\ AtMostOnce' /\ (\A x \in Index : kind[x] # "malformed")'
               /\ \A x \in Index : Decided(x)' <=> Decided(x)
    BY <1>2, <1>4 DEF AtMostOnce, Decided
  <1>5. ASSUME UNCHANGED <<reported, start_index, bounced>>
        PROVE  ReportInv' /\ ReportedInOrder'
    BY <1>2, <1>5 DEF ReportInv, ReportedInOrder
  <1>6. Alive => Undecided(i)
    BY <1>2, <1>3, UndecidedMonotonic DEF StreamInv
  <1>7. CASE StartAttempt
    <2>1. UNCHANGED <<kind, delivered, bounced, reported, start_index, link, wire, gw, reply,
                      auto_reconnect>>
          /\ pc = "top" /\ pc' = "loop" /\ i' = start_index
      BY <1>7 DEF StartAttempt, gatewayVars
    <2>2. StreamInv'
      BY <1>2, <1>3, <1>4, <2>1 DEF StreamInv, Alive, Undecided
    <2>3. TopInv' /\ FailedInv'
      BY <1>2, <2>1 DEF ResumeInv, TopInv, FailedInv
    <2>4. AttemptInv'
      BY <1>2, <1>3, <1>4, <2>1 DEF ResumeInv, TopInv, AttemptInv, Undecided
    <2>5. ReplyInv'
      BY <1>2, <2>1 DEF ResumeInv, ReplyInv
    <2> QED
      BY <1>4, <1>5, <2>1, <2>2, <2>3, <2>4, <2>5 DEF CloseInv, ResumeInv
  <1>8. CASE Close
    <2>1. UNCHANGED <<kind, delivered, bounced, reported, start_index>>
          /\ pc = "top" /\ pc' = "connect" /\ link' = "closed"
      BY <1>8 DEF Close, LinkClosed
    <2>2. wire' = <<>> /\ gw' = "open" /\ reply' = NoReply
      BY <1>8 DEF Close, LinkClosed
    <2>3. StreamInv' /\ AttemptInv' /\ ReplyInv' /\ FailedInv'
      BY <2>1, <2>2 DEF StreamInv, Alive, AttemptInv, ReplyInv, FailedInv
    <2>4. TopInv'
      BY <1>2, <1>4, <2>1, <2>2 DEF ResumeInv, TopInv, Undecided, Leftovers
    <2> QED
      BY <1>4, <1>5, <2>1, <2>3, <2>4 DEF CloseInv, ResumeInv
  <1>9. CASE ReconnectOk
    <2>1. UNCHANGED <<kind, delivered, bounced, reported, start_index>>
          /\ pc = "connect" /\ pc' = "loop" /\ i' = start_index /\ wire' = <<>>
          /\ reply' = NoReply /\ link' = "up" /\ gw' = "open" /\ Undecided(start_index)'
      BY <1>2, <1>3, <1>4, <1>9 DEF ReconnectOk, ResumeInv, TopInv, AttemptInv, ReplyInv, FailedInv, Undecided
    <2>2. StreamInv'
      BY <1>3, <2>1 DEF StreamInv
    <2>3. ResumeInv'
      BY <1>3, <2>1
         DEF ResumeInv, TopInv, AttemptInv, ReplyInv, FailedInv, Undecided, Alive, Leftovers
    <2> QED
      BY <1>4, <1>5, <2>1, <2>2, <2>3 DEF CloseInv
  <1>10. CASE ReconnectFails
    <2>1. UNCHANGED <<kind, delivered, bounced, reported, start_index, wire, gw, reply>>
          /\ pc = "connect" /\ pc' = "done" /\ link' \in Leftovers
      BY <1>10 DEF ReconnectFails
    <2>2. reply' = NoReply /\ ~Alive'
      BY <1>2, <2>1 DEF ResumeInv, TopInv, Leftovers, Alive
    <2>3. StreamInv' /\ ResumeInv'
      BY <2>1, <2>2 DEF StreamInv, ResumeInv, TopInv, AttemptInv, ReplyInv, FailedInv
    <2> QED
      BY <1>4, <1>5, <2>1, <2>3 DEF CloseInv
  <1>11. CASE Select
    <2>1. UNCHANGED <<kind, delivered, bounced, reported, start_index, link, wire, gw, reply,
                      auto_reconnect, i>>
          /\ pc = "loop" /\ i < N
      BY <1>11 DEF Select, gatewayVars
    <2>2. device' = i
      BY <1>2, <1>3, <1>11, <2>1 DEF Select, SetToken, Index
    <2>3. pc' = "write" \/ (pc' = "read" /\ ~Alive)
      BY <1>2, <1>11 DEF Select, Readable, StreamInv, Alive
    <2>4. StreamInv'
      BY <1>2, <1>4, <2>1, <2>3 DEF StreamInv, Alive, Undecided
    <2>5. TopInv' /\ FailedInv'
      BY <1>2, <2>1, <2>3 DEF ResumeInv, TopInv, FailedInv
    <2>6. AttemptInv'
      BY <1>2, <1>4, <2>1, <2>2, <2>3 DEF ResumeInv, AttemptInv, Alive, Undecided
    <2>7. ReplyInv'
      BY <1>2, <1>4, <2>1, <2>3 DEF ResumeInv, ReplyInv, Undecided
    <2> QED
      BY <1>4, <1>5, <2>1, <2>4, <2>5, <2>6, <2>7 DEF CloseInv, ResumeInv
  <1>12. CASE FinalSelect
    <2>1. UNCHANGED <<kind, delivered, bounced, reported, start_index, link, wire, gw, reply,
                      auto_reconnect, i, device>>
          /\ pc = "loop" /\ i = N
      BY <1>12 DEF FinalSelect, gatewayVars
    <2>2. pc' = "done" \/ (pc' = "read" /\ ~Alive)
      BY <1>2, <1>12 DEF FinalSelect, Readable, StreamInv, Alive
    <2>3. StreamInv'
      BY <1>2, <1>4, <2>1, <2>2 DEF StreamInv, Alive, Undecided
    <2>4. TopInv' /\ FailedInv'
      BY <1>2, <2>1, <2>2 DEF ResumeInv, TopInv, FailedInv
    <2>5. AttemptInv'
      BY <1>2, <1>4, <2>1, <2>2 DEF ResumeInv, AttemptInv, Alive, Undecided
    <2>6. ReplyInv'
      BY <1>2, <1>4, <2>1, <2>2 DEF ResumeInv, ReplyInv, Undecided
    <2> QED
      BY <1>4, <1>5, <2>1, <2>3, <2>4, <2>5, <2>6 DEF CloseInv, ResumeInv
  <1>13. CASE SelectFails
    BY <1>13 DEF SelectFails, Gentle
  <1>14. CASE Read
    <2>1. UNCHANGED <<kind, delivered, bounced, reported, start_index, link, wire, gw, i>>
          /\ pc = "read" /\ pc' = "failed"
      BY <1>14 DEF Read
    <2>2. ~Alive /\ ~Alive' /\ link # "closed"
      BY <1>2, <2>1 DEF StreamInv, ResumeInv, TopInv, Alive
    <2>3. reply' = NoReply
      BY <1>14 DEF Read
    <2>4. StreamInv' /\ AttemptInv' /\ ReplyInv' /\ TopInv'
      BY <1>2, <2>1, <2>2, <2>3 DEF StreamInv, ResumeInv, AttemptInv, ReplyInv, TopInv
    <2>5. CASE reply # NoReply
      <3>1. PICK r \in Index : r = reply.id
        BY <1>3
      <3>2. code' = InvalidToken /\ invalid_index' = r
        BY <1>2, <1>14, <2>5, <3>1 DEF Read, ResumeInv, ReplyInv, ParsedIndex
      <3>3. NextStart(Errcode, invalid_index)' = r + 1
        BY <3>2, ErrcodeInvalid DEF NextStart, Errcode, ConvertAppleError, InvalidToken,
              InvalidTokenSize, InvalidPayloadSize, ProcessingError, ServiceShutdown
      <3>4. Undecided(r + 1)'
        BY <1>2, <1>4, <2>1, <2>5, <3>1 DEF ResumeInv, ReplyInv, Undecided
      <3>5. r \in bounced' /\ start_index' <= r /\ start_index' <= r + 1
        BY <1>2, <1>3, <2>1, <2>5, <3>1 DEF ResumeInv, ReplyInv, Index
      <3>6. FailedInv'
        BY <3>2, <3>3, <3>4, <3>5 DEF FailedInv, Undecided
      <3> QED
        BY <1>4, <1>5, <2>1, <2>4, <3>6 DEF CloseInv, ResumeInv
    <2>6. CASE reply = NoReply
      <3>1. code' = 0 /\ invalid_index' = i /\ errno' # "TOKEN_INVALID"
        BY <1>2, <1>14, <2>1, <2>6, ErrnoType DEF Read, IndexInv, ReadFailIndex
      <3>2. NextStart(Errcode, invalid_index)' = i
        BY <3>1 DEF NextStart, Errcode
      <3>3. Undecided(i)' /\ start_index' <= i
        BY <1>2, <1>4, <2>1, <2>2, <2>6 DEF ResumeInv, AttemptInv, Undecided
      <3>4. FailedInv'
        BY <2>1, <3>1, <3>2, <3>3 DEF FailedInv, Undecided
      <3> QED
        BY <1>4, <1>5, <2>1, <2>4, <3>4 DEF CloseInv, ResumeInv
    <2> QED
      BY <2>5, <2>6
  <1>15. CASE Write
    <2>1. UNCHANGED <<kind, delivered, bounced, reported, start_index, link, gw, reply>>
          /\ pc = "write" /\ pc' = "loop" /\ i' = i + 1 /\ i < N
          /\ wire' = Append(wire, [id |-> i, dev |-> i])
      BY <1>2, <1>15 DEF Write, ResumeInv, TopInv, AttemptInv, ReplyInv, FailedInv, Undecided, IndexInv
    <2>2. Len(wire') = Len(wire) + 1 /\ wire'[Len(wire) + 1] = [id |-> i, dev |-> i]
          /\ \A k \in 1 .. Len(wire) : wire'[k] = wire[k]
      BY <1>3, <2>1
    <2>3. ASSUME Alive PROVE StreamInv'
      <3>1. i' - Len(wire') = i - Len(wire) /\ i - Len(wire) \in Nat
            /\ start_index' + Len(wire') <= i'
        <4>1. start_index + Len(wire) <= i
          BY <1>2, <2>3 DEF StreamInv
        <4> QED
          BY <1>3, <2>1, <2>2, <4>1
      <3>2. Undecided(i - Len(wire))'
        <4>1. Undecided(i - Len(wire))
          BY <1>2, <2>3 DEF StreamInv
        <4> QED
          BY <1>4, <2>1, <3>1, <4>1 DEF Undecided
      <3>3. ASSUME NEW k \in 1 .. Len(wire')
            PROVE  wire'[k] = [id |-> (i - Len(wire)) + (k - 1), dev |-> (i - Len(wire)) + (k - 1)]
        <4>1. CASE k = Len(wire) + 1
          <5>1. (i - Len(wire)) + (k - 1) = i
            BY <1>3, <4>1
          <5> QED
            BY <2>2, <4>1, <5>1
        <4>2. CASE k # Len(wire) + 1
          <5>1. k \in 1 .. Len(wire)
            BY <1>3, <2>2, <4>2
          <5> QED
            BY <1>2, <2>2, <2>3, <5>1 DEF StreamInv
        <4> QED
          BY <4>1, <4>2
      <3>4. reply = NoReply
        BY <1>2, <2>3 DEF StreamInv
      <3> QED
        BY <2>1, <3>1, <3>2, <3>3, <3>4 DEF StreamInv
    <2>4. StreamInv'
      BY <2>1, <2>3 DEF StreamInv, Alive
    <2>5. TopInv' /\ FailedInv'
      BY <1>2, <2>1 DEF ResumeInv, TopInv, FailedInv
    <2>6. AttemptInv'
      <3>1. start_index <= i /\ (~Alive /\ reply = NoReply => Undecided(i))
        BY <1>2, <2>1 DEF ResumeInv, AttemptInv
      <3>2. ~Alive /\ reply = NoReply => \A x \in Index : x >= i + 1 => ~Decided(x)'
        BY <1>3, <1>4, <2>1, <3>1 DEF Undecided, Index
      <3> QED
        BY <1>3, <2>1, <3>1, <3>2 DEF AttemptInv, Alive, Undecided
    <2>7. ReplyInv'
      BY <1>2, <1>4, <2>1 DEF ResumeInv, ReplyInv, Undecided
    <2> QED
      BY <1>4, <1>5, <2>1, <2>4, <2>5, <2>6, <2>7 DEF CloseInv, ResumeInv
  <1>16. CASE WriteFails \/ Killed
    BY <1>2, <1>16 DEF WriteFails, Killed, ResumeInv, TopInv, AttemptInv, ReplyInv, FailedInv, Undecided
  <1>17. CASE HandleFailure
    <2>1. UNCHANGED <<kind, delivered, bounced, link, wire, gw, reply, code, invalid_index>>
          /\ pc = "failed" /\ pc' \in {"top", "done"}
          /\ start_index' = NextStart(Errcode, invalid_index)
      BY <1>17 DEF HandleFailure, GoOn, GiveUp, gatewayVars
    <2>2. ~Alive /\ ~Alive' /\ reply = NoReply /\ link # "closed"
      BY <1>2, <2>1 DEF StreamInv, ResumeInv, TopInv, AttemptInv, ReplyInv, FailedInv, Undecided, Alive
    <2>3. code \in {0, InvalidToken} /\ start_index <= start_index' /\ Undecided(start_index)'
      <3>1. PICK n \in Nat : n = NextStart(Errcode, invalid_index)
        BY DEF NextStart, TypeOK
      <3>2. Undecided(n) /\ start_index <= n /\ code \in {0, InvalidToken}
        BY <1>2, <2>1, <3>1 DEF ResumeInv, FailedInv
      <3> QED
        BY <1>4, <2>1, <3>1, <3>2 DEF Undecided
    <2>4. StreamInv' /\ ResumeInv'
      BY <1>2, <2>1, <2>2, <2>3
         DEF StreamInv, ResumeInv, TopInv, AttemptInv, ReplyInv, FailedInv
    <2>5. CASE code = InvalidToken
      <3>1. Errcode = "TOKEN_INVALID"
        BY <1>2, <2>5, ErrcodeInvalid
      <3>2. invalid_index \in bounced /\ start_index <= invalid_index
            /\ start_index' = invalid_index + 1 /\ invalid_index \in Nat
        BY <1>2, <2>1, <2>5, <3>1 DEF ResumeInv, TopInv, AttemptInv, ReplyInv, FailedInv, Undecided, NextStart, InvalidToken, TypeOK
      <3>3. CASE reported' = reported
        <4>1. ReportInv' /\ ReportedInOrder'
          BY <1>2, <1>3, <2>1, <3>2, <3>3 DEF ReportInv, ReportedInOrder, Index
        <4> QED
          BY <1>4, <2>1, <2>4, <4>1 DEF CloseInv
      <3>4. CASE reported' = Append(reported, invalid_index)
        <4>1. Len(reported') = Len(reported) + 1 /\ Len(reported) \in Nat
              /\ reported'[Len(reported) + 1] = invalid_index
              /\ \A k \in 1 .. Len(reported) : reported'[k] = reported[k] /\ reported[k] \in Nat
          BY <1>3, <3>2, <3>4 DEF Index
        <4>2. \A k \in 1 .. Len(reported) : reported[k] \in bounced /\ reported[k] < invalid_index
          BY <1>2, <1>3, <3>2, <4>1 DEF ReportInv
        <4>3. ReportInv'
          <5> SUFFICES ASSUME NEW k \in 1 .. Len(reported')
                       PROVE  reported'[k] \in bounced /\ reported'[k] < invalid_index + 1
            BY <2>1, <3>2 DEF ReportInv
          <5> QED
            BY <3>2, <4>1, <4>2
        <4>4. ReportedInOrder'
          <5> SUFFICES ASSUME NEW j \in 1 .. Len(reported'), NEW k \in 1 .. Len(reported'), j < k
                       PROVE  reported'[j] < reported'[k]
            BY DEF ReportedInOrder
          <5>1. j \in 1 .. Len(reported)
            BY <4>1
          <5>2. CASE k = Len(reported) + 1
            BY <4>1, <4>2, <5>1, <5>2
          <5>3. CASE k # Len(reported) + 1
            <6>1. k \in 1 .. Len(reported)
              BY <4>1, <5>3
            <6> QED
              BY <1>2, <4>1, <5>1, <6>1 DEF ReportedInOrder
          <5> QED
            BY <5>2, <5>3
        <4> QED
          BY <1>4, <2>1, <2>4, <4>3, <4>4 DEF CloseInv
      <3> QED
        BY <1>17, <3>3, <3>4 DEF HandleFailure
    <2>6. CASE code = 0
      <3>1. Errcode # "TOKEN_INVALID"
        BY <1>2, <2>6, ErrcodeInvalid DEF InvalidToken
      <3>2. reported' = reported
        BY <1>17, <3>1 DEF HandleFailure
      <3> QED
        <4>1. \A k \in 1 .. Len(reported) : reported[k] \in Nat
          BY <1>3 DEF Index
        <4>2. start_index' \in Nat
          BY <2>1 DEF NextStart, TypeOK
        <4>3. ReportInv' /\ ReportedInOrder'
          BY <1>2, <1>3, <2>1, <2>3, <3>2, <4>1, <4>2 DEF ReportInv, ReportedInOrder
        <4> QED
          BY <1>4, <2>1, <2>4, <4>3 DEF CloseInv
    <2> QED
      BY <2>3, <2>5, <2>6
  <1> QED
    BY <1>7, <1>8, <1>9, <1>10, <1>11, <1>12, <1>13, <1>14, <1>15, <1>16, <1>17
       DEF Client, ClientFault

\* The inductive invariant of an environment whose only faults are connections
\* that the gateway closes and reconnections that fail.
THEOREM CloseInvariant ==
    ASSUME Gentle
    PROVE  Spec => []CloseInv
  <1>1. Init => CloseInv
    BY CloseInit
  <1>2. TypeOK /\ IndexInv /\ (TypeOK /\ IndexInv)' /\ CloseInv /\ [Next]_vars => CloseInv'
    <2> SUFFICES ASSUME TypeOK, IndexInv, (TypeOK /\ IndexInv)', CloseInv, [Next]_vars
                 PROVE  CloseInv'
      OBVIOUS
    <2>1. CASE UNCHANGED vars
      BY <2>1 DEF vars, gatewayVars, callVars, CloseInv, IndexInv, StreamInv, ResumeInv, TopInv,
         AttemptInv, ReplyInv, FailedInv, ReportInv, AtMostOnce, ReportedInOrder, Alive, Undecided,
         Decided, NextStart, Errcode
    <2>2. CASE Environment
      BY <2>2, CloseGateway
    <2>3. CASE Client \/ ClientFault
      BY <2>3, CloseClient
    <2> QED
      BY <2>1, <2>2, <2>3 DEF Next, Terminated
  <1> QED
    BY <1>1, <1>2, TypeCorrect, PTL DEF Spec

\* In such an environment no device is notified twice in a call, however often
\* the connection is closed under it.
THEOREM AtMostOnceHolds ==
    ASSUME Gentle
    PROVE  Spec => []AtMostOnce
  <1>1. CloseInv => AtMostOnce
    BY DEF CloseInv
  <1> QED
    BY <1>1, CloseInvariant, PTL

\* In such an environment the caller is handed the invalid tokens in the order
\* of the list, each once.
THEOREM ReportedInOrderHolds ==
    ASSUME Gentle
    PROVE  Spec => []ReportedInOrder
  <1>1. CloseInv => ReportedInOrder
    BY DEF CloseInv
  <1> QED
    BY <1>1, CloseInvariant, PTL

-----------------------------------------------------------------------------
(* apn_send implements Broadcast, with losses                               *)

\* What Broadcast sees of a state.
LEMMA AnswerMeaning ==
    /\ pc # "done" => answer = "none"
    /\ pc = "done" => answer = ret
  BY DEF answer

LEMMA AtBestInit == Init => AtBest!Init
  <1> SUFFICES ASSUME Init PROVE AtBest!Init
    OBVIOUS
  <1>1. kind \in [Index -> {"good", "unknown", "malformed"}]
    BY KindsAssumption DEF Init, GatewayInit
  <1>2. Reported = {}
    BY DEF Init, Reported
  <1>3. answer = "none"
    BY DEF Init, answer
  <1> QED
    BY <1>1, <1>2, <1>3 DEF Init, GatewayInit, AtBest!Init, AtBest!Index, Index

\* A frame taken off a live stream is the next decision of Broadcast; any other
\* step of the gateway or the network changes nothing it sees.
LEMMA AtBestGateway ==
    ASSUME Gentle, TypeOK, CloseInv, Environment
    PROVE  [AtBest!Next]_(AtBest!bvars)
  <1> USE NAssumption
  <1>1. UNCHANGED <<Reported, answer>>
    BY DEF Environment, callVars, Reported, answer
  <1>2. CASE GwAccept
    <2>1. PICK d \in Index : d = i - Len(wire)
      BY <1>2, StreamHead DEF GwAccept
    <2>2. Undecided(d) /\ kind[d] = "good" /\ delivered' = Bump(delivered, d)
          /\ UNCHANGED <<kind, bounced>>
      BY <1>2, <2>1, StreamHead DEF GwAccept, Handling, CloseInv, StreamInv, Alive
    <2>3. \A y \in Index : y >= d => ~AtBest!Decided(y)
      BY <2>2 DEF Undecided, Decided, AtBest!Decided
    <2>4. delivered[d] = 0 /\ delivered \in [Index -> 0 .. 2]
      <3>1. delivered \in [Index -> 0 .. 2] /\ ~(delivered[d] > 0)
        BY <2>1, <2>2 DEF Undecided, Decided, TypeOK, GatewayTypeOK, Index
      <3> QED
        BY <2>1, <3>1
    <2>5. delivered' = [delivered EXCEPT ![d] = 1]
      BY <2>2, <2>4 DEF Bump
    <2>6. AtBest!Deliver(d)
      BY <1>1, <2>2, <2>3, <2>5 DEF AtBest!Deliver, AtBest!Turn, AtBest!Index, Index
    <2> QED
      BY <2>6 DEF AtBest!Next, AtBest!Index, Index
  <1>3. CASE GwReject
    <2>1. PICK d \in Index : d = i - Len(wire)
      BY <1>3, StreamHead DEF GwReject
    <2>2. Undecided(d) /\ kind[d] # "good" /\ bounced' = bounced \union {d}
          /\ UNCHANGED <<kind, delivered>>
      BY <1>3, <2>1, StreamHead DEF GwReject, Handling, CloseInv, StreamInv, Alive
    <2>3. \A y \in Index : y >= d => ~AtBest!Decided(y)
      BY <2>2 DEF Undecided, Decided, AtBest!Decided
    <2>4. AtBest!Bounce(d)
      BY <1>1, <2>2, <2>3 DEF AtBest!Bounce, AtBest!Turn, AtBest!Index, Index
    <2> QED
      BY <2>4 DEF AtBest!Next, AtBest!Index, Index
  <1>4. CASE GwDiscard \/ GwHangUp \/ \E how \in Faults : LinkBreaks(how)
    BY <1>1, <1>4 DEF GwDiscard, GwHangUp, LinkBreaks, AtBest!bvars
  <1> QED
    BY <1>2, <1>3, <1>4 DEF Environment, GatewayStep, FaultStep, Gentle

\* The steps of the call that Broadcast sees are those that hand over a refused
\* token or return.
LEMMA AtBestClient ==
    ASSUME Gentle, TypeOK, CloseInv, Client \/ ClientFault
    PROVE  [AtBest!Next]_(AtBest!bvars)
  <1>1. CASE HandleFailure
    <2>1. UNCHANGED <<kind, delivered, bounced>> /\ pc = "failed" /\ answer = "none"
      BY <1>1, AnswerMeaning DEF HandleFailure, gatewayVars
    <2>2. answer' \in {"none", "ERROR", "SUCCESS"}
          /\ (answer' = "ERROR" => Errcode # "TOKEN_INVALID")
      BY <1>1 DEF HandleFailure, GoOn, GiveUp, answer
    <2>3. CASE reported' = reported
      <3>1. Reported' = Reported
        BY <2>3 DEF Reported
      <3> QED
        BY <2>1, <2>2, <3>1 DEF AtBest!Next, AtBest!Answer, AtBest!Complete, AtBest!bvars
    <2>4. CASE reported' # reported
      <3>1. Errcode = "TOKEN_INVALID" /\ reported' = Append(reported, invalid_index)
        BY <1>1, <2>4 DEF HandleFailure
      <3>2. invalid_index \in bounced
        <4>1. IndexInv /\ FailedInv
          BY DEF CloseInv, ResumeInv
        <4>2. code = InvalidToken
          BY <2>1, <3>1, <4>1, ErrcodeInvalid DEF FailedInv
        <4> QED
          BY <2>1, <4>1, <4>2 DEF FailedInv, InvalidToken
      <3>3. Reported' = Reported \union {invalid_index}
        <4>1. Len(reported') = Len(reported) + 1 /\ Len(reported) \in Nat
              /\ reported'[Len(reported) + 1] = invalid_index
              /\ \A k \in 1 .. Len(reported) : reported'[k] = reported[k]
          BY <3>1 DEF TypeOK
        <4>2. 1 .. Len(reported') = (1 .. Len(reported)) \union {Len(reported) + 1}
          BY <4>1
        <4> QED
          BY <4>1, <4>2, Zenon DEF Reported
      <3>4. AtBest!Report(invalid_index)
        BY <2>1, <2>2, <3>1, <3>2, <3>3 DEF AtBest!Report, AtBest!Complete
      <3>5. invalid_index \in AtBest!Index
        BY <3>2 DEF TypeOK, GatewayTypeOK, AtBest!Index, Index
      <3> QED
        BY <3>4, <3>5 DEF AtBest!Next
    <2> QED
      BY <2>3, <2>4
  <1>2. CASE FinalSelect \/ ReconnectFails
    <2>1. UNCHANGED <<kind, delivered, bounced>> /\ Reported' = Reported /\ answer = "none"
          /\ answer' \in {"none", "ERROR", "SUCCESS"}
      BY <1>2, AnswerMeaning DEF FinalSelect, ReconnectFails, gatewayVars, Reported, answer
    <2> QED
      BY <2>1 DEF AtBest!Next, AtBest!Answer, AtBest!Complete, AtBest!bvars
  <1>3. ASSUME UNCHANGED <<kind, delivered, bounced, reported>>, pc # "done", pc' # "done"
        PROVE  UNCHANGED AtBest!bvars
    BY <1>3 DEF AtBest!bvars, answer, Reported
  <1>4. CASE StartAttempt \/ Close \/ ReconnectOk
    BY <1>3, <1>4 DEF StartAttempt, Close, LinkClosed, ReconnectOk, gatewayVars
  <1>5. CASE Select \/ Read \/ Write \/ SelectFails
    BY <1>3, <1>5 DEF Select, Read, Write, SelectFails, gatewayVars
  <1>6. CASE WriteFails \/ Killed
    BY <1>3, <1>6 DEF WriteFails, Killed, gatewayVars, callVars
  <1> QED
    BY <1>1, <1>2, <1>4, <1>5, <1>6 DEF Client, ClientFault

\* In such an environment apn_send decides the tokens in the order of the list
\* and each at most once, hands over refused tokens only, and returns once.
THEOREM ImplementsBroadcast ==
    ASSUME Gentle
    PROVE  Spec => ImplementsAtBest
  <1>1. Init => AtBest!Init
    BY AtBestInit
  <1>2. TypeOK /\ IndexInv /\ CloseInv /\ [Next]_vars => [AtBest!Next]_(AtBest!bvars)
    <2> SUFFICES ASSUME TypeOK, IndexInv, CloseInv, [Next]_vars
                 PROVE  [AtBest!Next]_(AtBest!bvars)
      OBVIOUS
    <2>1. CASE UNCHANGED vars
      BY <2>1 DEF vars, gatewayVars, callVars, AtBest!bvars, answer, Reported
    <2>2. CASE Environment
      BY <2>2, AtBestGateway
    <2>3. CASE Client \/ ClientFault
      BY <2>3, AtBestClient
    <2> QED
      BY <2>1, <2>2, <2>3 DEF Next, Terminated
  <1> QED
    BY <1>1, <1>2, TypeCorrect, CloseInvariant, PTL DEF Spec, ImplementsAtBest, AtBest!Spec

-----------------------------------------------------------------------------
(* The call in the life of the connection, for every environment             *)

\* Where the call has a connection, and what it may say of one it has not.
LinkInv ==
    /\ pc \notin {"connect", "done"} => link \notin Leftovers
    /\ pc = "connect" => link = "closed" /\ Reconnect
    /\ auto_reconnect = 1 => Reconnect
    /\ pc = "done" /\ ret = "SUCCESS" => link \notin Leftovers
    /\ pc # "done" => errno # "UNABLE_TO_ESTABLISH_CONNECTION"

\* Closing and opening again is all that happens to the connection.
LEMMA LinkInit == Init => LinkInv
  BY DEF Init, GatewayInit, LinkInv, Leftovers

\* Every error an attempt ends with comes from the connection or a packet.
LEMMA ErrcodeReachable ==
    ASSUME TypeOK, pc = "failed", errno # "UNABLE_TO_ESTABLISH_CONNECTION"
    PROVE  Errcode # "UNABLE_TO_ESTABLISH_CONNECTION"
  BY DEF Errcode, ConvertAppleError

\* The gateway and the network leave what a failed reconnection left alone.
LEMMA EnvironmentLink ==
    ASSUME GatewayStep \/ FaultStep
    PROVE  link' = link \/ (link \notin Leftovers /\ link' \notin Leftovers)
  BY DEF GatewayStep, FaultStep, GwAccept, GwReject, GwDiscard, GwHangUp, GwRefuse, LinkBreaks,
         Leftovers

LEMMA LinkStep == TypeOK /\ LinkInv /\ [Next]_vars => LinkInv'
  <1> SUFFICES ASSUME TypeOK, LinkInv, [Next]_vars
               PROVE  LinkInv'
    OBVIOUS
  <1>1. CASE UNCHANGED vars \/ Terminated
    BY <1>1 DEF Terminated, vars, gatewayVars, callVars, LinkInv
  <1>2. CASE Environment
    <2>1. (link' = link \/ (link \notin Leftovers /\ link' \notin Leftovers))
          /\ UNCHANGED <<pc, callVars>>
      BY <1>2, EnvironmentLink DEF Environment
    <2> QED
      BY <2>1 DEF callVars, LinkInv, Leftovers
  <1>3. CASE Close \/ ReconnectOk \/ ReconnectFails
    BY <1>3 DEF Close, LinkClosed, ReconnectOk, ReconnectFails, LinkInv, Leftovers
  <1>4. CASE StartAttempt \/ Select \/ FinalSelect \/ SelectFails
    BY <1>4 DEF StartAttempt, Select, FinalSelect, SelectFails, gatewayVars, LinkInv
  <1>5. CASE Read
    BY <1>5 DEF Read, ReadErrno, LinkInv
  <1>6. CASE Write \/ WriteFails \/ Killed
    BY <1>6 DEF Write, WriteFails, WriteErrno, Killed, gatewayVars, callVars, LinkInv
  <1>7. CASE HandleFailure
    <2>1. Errcode # "UNABLE_TO_ESTABLISH_CONNECTION"
      BY <1>7, ErrcodeReachable DEF HandleFailure, LinkInv
    <2>2. link' = link /\ link \notin Leftovers /\ pc' \in {"top", "done"}
      BY <1>7 DEF HandleFailure, GoOn, GiveUp, gatewayVars, LinkInv
    <2>3. errno' = "UNABLE_TO_ESTABLISH_CONNECTION" => pc' = "done"
      BY <1>7, <2>1 DEF HandleFailure, GoOn, GiveUp, LinkInv
    <2>4. auto_reconnect' = 1 => Reconnect
      BY <1>7 DEF HandleFailure, GoOn, GiveUp, LinkInv
    <2> QED
      BY <2>2, <2>3, <2>4 DEF LinkInv
  <1> QED
    BY <1>1, <1>2, <1>3, <1>4, <1>5, <1>6, <1>7 DEF Next, Client, ClientFault

LEMMA ConnStep == TypeOK /\ LinkInv /\ LinkInv' /\ [Next]_vars => [Conn!Next]_(Conn!vars)
  <1> SUFFICES ASSUME TypeOK, LinkInv, LinkInv', [Next]_vars
               PROVE  Conn!Next \/ UNCHANGED Conn!vars
    BY DEF Conn!vars
  <1> USE DEF Conn!vars, Conn!settings, Conn!link
  <1>1. CASE UNCHANGED vars \/ Terminated
    BY <1>1 DEF Terminated, vars, gatewayVars, callVars
  <1>2. CASE Environment
    <2>1. /\ pc' = pc /\ ret' = ret /\ errno' = errno
          /\ link' = link \/ (link \notin Leftovers /\ link' \notin Leftovers)
      BY <1>2, EnvironmentLink DEF Environment, callVars
    <2>2. CASE link' = link
      BY <2>1, <2>2
    <2>3. CASE link \notin Leftovers /\ link' \notin Leftovers
      BY <2>1, <2>3 DEF Leftovers
    <2> QED
      BY <2>1, <2>2, <2>3
  <1>3. CASE Close
    <2>1. pc = "top" /\ pc' = "connect" /\ link' = "closed" /\ Reconnect
          /\ link \notin {"closed", "bare", "halfway"}
      BY <1>3 DEF Close, LinkClosed, LinkInv, Leftovers
    <2>2. Conn!SendCloses
      BY <2>1 DEF Conn!SendCloses, Conn!DoClose, Conn!IsOpen, Conn!Closed, Conn!NoConn, Conn!NoServer
    <2> QED
      BY <2>2 DEF Conn!Next
  <1>4. CASE ReconnectOk
    <2>1. pc = "connect" /\ pc' = "loop" /\ link = "closed" /\ link' = "up"
      BY <1>4 DEF ReconnectOk, LinkInv
    <2>2. Conn!Established("send", Conn!Server("push"))
      BY <2>1 DEF Conn!Established, Conn!Configured, Conn!NeedsSocket, Conn!IsOpen, Conn!CertValid,
                  Conn!Credential, Conn!Succeeds, Conn!Server, Conn!NoServer
    <2>3. Conn!SendReconnects
      BY <2>1, <2>2 DEF Conn!SendReconnects, Conn!Open
    <2> QED
      BY <2>3 DEF Conn!Next
  <1>5. CASE ReconnectFails
    <2>1. /\ pc = "connect" /\ pc' = "done" /\ link = "closed" /\ ret' = "ERROR"
          /\ link' \in {"closed", "bare", "halfway"} /\ errno' \in ConnectErrnos(link')
      BY <1>5 DEF ReconnectFails, LinkInv, Leftovers
    <2>2. ASSUME link' = "closed"
          PROVE  Conn!Open("send", Conn!Server("push"))
      BY <2>1, <2>2 DEF Conn!Open, Conn!Unreachable, Conn!Configured, Conn!NeedsSocket, Conn!IsOpen,
         Conn!Fails, Conn!AfterRefusal, Conn!NoConn, Conn!NoServer, ConnectErrnos
    <2>3. ASSUME link' = "bare"
          PROVE  Conn!Open("send", Conn!Server("push"))
      <3>1. errno' # "UNABLE_TO_ESTABLISH_CONNECTION"
        BY <2>1, <2>3 DEF ConnectErrnos
      <3>2. Conn!CertRefused("send", Conn!Server("push"))
        BY <2>1, <2>3, <3>1 DEF Conn!CertRefused, Conn!Configured, Conn!NeedsSocket, Conn!IsOpen,
           Conn!Fails, Conn!NoConn, Conn!NoServer, Conn!Server
      <3> QED
        BY <3>2 DEF Conn!Open
    <2>4. ASSUME link' = "halfway"
          PROVE  Conn!Open("send", Conn!Server("push"))
      <3>1. errno' # "UNABLE_TO_ESTABLISH_CONNECTION"
        BY <2>1, <2>4 DEF ConnectErrnos
      <3>2. Conn!HandshakeFails("send", Conn!Server("push"))
        BY <2>1, <2>4, <3>1 DEF Conn!HandshakeFails, Conn!Configured, Conn!NeedsSocket, Conn!IsOpen,
           Conn!Fails, Conn!NoServer, Conn!Server, Conn!CertValid, Conn!Credential
      <3> QED
        BY <3>2 DEF Conn!Open
    <2>5. Conn!Open("send", Conn!Server("push"))
      BY <2>1, <2>2, <2>3, <2>4
    <2>6. Conn!SendReconnects
      BY <2>1, <2>5 DEF Conn!SendReconnects
    <2> QED
      BY <2>6 DEF Conn!Next
  <1>6. ASSUME pc \notin {"connect", "done"}, link \notin Leftovers, pc' = "done", link' = link,
               \/ ret' = "SUCCESS"
               \/ ret' = "ERROR" /\ errno' # "UNABLE_TO_ESTABLISH_CONNECTION"
        PROVE  Conn!Next
    <2>1. Conn!SendReturns
      BY <1>6 DEF Conn!SendReturns, Conn!Succeeds, Conn!Fails, Leftovers
    <2> QED
      BY <2>1 DEF Conn!Next
  <1>7. CASE HandleFailure
    <2>1. link' = link /\ link \notin Leftovers /\ pc = "failed"
      BY <1>7 DEF HandleFailure, gatewayVars, LinkInv
    <2>2. CASE pc' = "top"
      BY <2>1, <2>2
    <2>3. CASE pc' = "done"
      <3>1. Errcode # "UNABLE_TO_ESTABLISH_CONNECTION"
        BY <2>1, ErrcodeReachable DEF LinkInv
      <3>2. \/ ret' = "SUCCESS"
            \/ ret' = "ERROR" /\ errno' # "UNABLE_TO_ESTABLISH_CONNECTION"
        BY <1>7, <2>3, <3>1 DEF HandleFailure, GoOn, GiveUp
      <3> QED
        BY <1>6, <2>1, <2>3, <3>2
    <2> QED
      BY <1>7, <2>2, <2>3 DEF HandleFailure, GoOn, GiveUp
  <1>8. CASE FinalSelect
    <2>1. link' = link /\ link \notin Leftovers /\ pc = "loop"
      BY <1>8 DEF FinalSelect, gatewayVars, LinkInv
    <2>2. pc' = "read" \/ (pc' = "done" /\ ret' = "SUCCESS")
      BY <1>8 DEF FinalSelect
    <2> QED
      BY <1>6, <2>1, <2>2
  <1>9. CASE StartAttempt \/ Select \/ SelectFails \/ Read \/ Write \/ WriteFails \/ Killed
    <2>1. link' = link /\ pc \notin {"connect", "done"} /\ pc' \notin {"connect", "done"}
      BY <1>9 DEF StartAttempt, Select, SelectFails, Read, Write, WriteFails, Killed, gatewayVars
    <2> QED
      BY <2>1
  <1> QED
    BY <1>1, <1>2, <1>3, <1>4, <1>5, <1>7, <1>8, <1>9 DEF Next, Client, ClientFault

\* Whatever the environment does, apn_send treats the connection as ApnConnection
\* says: it closes it and opens it again only between attempts, only with
\* APN_OPTION_RECONNECT, answers success only with one, and returns from a
\* reconnection that failed with what the failed apn_connect has left
\* (apn.c:315-327, 363-387).
THEOREM KeepsToConnectionHolds == Spec => KeepsToConnection
  <1>1. Spec => []LinkInv
    BY LinkInit, LinkStep, TypeCorrect, PTL DEF Spec
  <1>2. TypeOK /\ LinkInv /\ LinkInv' /\ [Next]_vars => [Conn!Next]_(Conn!vars)
    BY ConnStep
  <1> QED
    BY <1>1, <1>2, TypeCorrect, PTL DEF Spec, KeepsToConnection
=============================================================================
