---------------------------- MODULE GpsDriverProofs ----------------------------
(***************************************************************************)
(* Theorems about GpsDriver, for all payloads, all foreign bytes and any   *)
(* number of faults.                                                       *)
(*                                                                         *)
(* StatusInv is what update() relies on: as long as no message of this     *)
(* turn is complete, the status still is that of the last one.             *)
(***************************************************************************)
EXTENDS GpsDriver, SequenceTheorems, TLAPS

\* The bytes of a message, one kind at a time.
LEMMA MessageBytes ==
  ASSUME NEW p \in Payloads
  PROVE  /\ Messages[p] \in [1 .. 37 -> Byte]
         /\ Messages[p][1] = 208 /\ Messages[p][2] = 221 /\ Messages[p][3] = 32
         /\ \A i \in 1 .. 32 : Messages[p][i + 3] = p[i] /\ p[i] \in Byte
         /\ Messages[p][36] = CkA[p][32] /\ Messages[p][37] = CkB[p][32]
<1>1. p \in [1 .. 32 -> Byte] /\ CkA[p] \in [0 .. 32 -> Byte] /\ CkB[p] \in [0 .. 32 -> Byte]
  BY GpsAssumption DEF Length
<1>2. CkA[p][32] \in Byte /\ CkB[p][32] \in Byte
  BY <1>1
<1>3. Messages[p] = [i \in 1 .. 37 |->
        CASE i = 1 -> 208
          [] i = 2 -> 221
          [] i = 3 -> 32
          [] i \in 4 .. 35 -> p[i - 3]
          [] i = 36 -> CkA[p][32]
          [] i = 37 -> CkB[p][32]]
  BY DEF Messages, Message, FrameLen, Length, PREAMBLE1, PREAMBLE2
<1> HIDE DEF Messages
<1>4. \A i \in 1 .. 37 :
        /\ i = 1 => Messages[p][i] = 208
        /\ i = 2 => Messages[p][i] = 221
        /\ i = 3 => Messages[p][i] = 32
        /\ i \in 4 .. 35 => Messages[p][i] = p[i - 3]
        /\ i = 36 => Messages[p][i] = CkA[p][32]
        /\ i = 37 => Messages[p][i] = CkB[p][32]
  BY <1>3
<1>5. ASSUME NEW i \in 1 .. 37 PROVE Messages[p][i] \in Byte
  <2>1. i \in {1, 2, 3, 36, 37} \/ i \in 4 .. 35
    OBVIOUS
  <2>2. CASE i \in {1, 2, 3, 36, 37}
    BY <1>2, <1>4, <2>2 DEF Byte
  <2>3. CASE i \in 4 .. 35
    <3>1. i - 3 \in 1 .. 32
      BY <2>3
    <3> QED BY <1>1, <1>4, <2>3, <3>1
  <2> QED BY <2>1, <2>2, <2>3
<1>6. Messages[p] \in [1 .. 37 -> Byte]
  BY <1>3, <1>5
<1>7. ASSUME NEW i \in 1 .. 32 PROVE Messages[p][i + 3] = p[i] /\ p[i] \in Byte
  <2>1. i + 3 \in 4 .. 35 /\ i + 3 \in 1 .. 37 /\ (i + 3) - 3 = i
    OBVIOUS
  <2> QED BY <1>1, <1>4, <2>1
<1> QED BY <1>4, <1>6, <1>7

\* The byte that read() gets next.
LEMMA NextByteType ==
  ASSUME TypeOK, pos < FrameLen
  PROVE  NextByte \in Byte
<1>1. pos + 1 \in 1 .. 37 /\ payload \in Payloads
  BY DEF TypeOK, FrameLen, Length
<1> QED BY <1>1, MessageBytes DEF NextByte

LEMMA SumType ==
  ASSUME NEW a \in Byte, NEW b \in Byte
  PROVE  (a + b) % 256 \in Byte
BY DEF Byte

\* The state of the parser that TypeOK speaks of.
ParserType ==
  /\ step \in 0 .. 5
  /\ bytes \in Seq(Byte)
  /\ Len(bytes) <= 32
  /\ step = 3 => Len(bytes) < 32
  /\ step > 3 => Len(bytes) = 32
  /\ ck_a \in Byte /\ ck_b \in Byte
  /\ fix \in BOOLEAN /\ parsed \in BOOLEAN

LEMMA TypeParts ==
  TypeOK <=> /\ ParserType
             /\ payload \in Payloads /\ pos \in 0 .. FrameLen /\ faults \in 0 .. MaxFaults
             /\ status \in {"NO_GPS", "NO_FIX", "GPS_OK"}
             /\ turn \in {"read", "sleep"}
             /\ idle \in 0 .. (IdleTimeout + 1)
BY DEF TypeOK, ParserType, Length

LEMMA Below32 ==
  ASSUME NEW n \in Nat, n < 32
  PROVE  n \in 0 .. 31
OBVIOUS

LEMMA OneMore ==
  ASSUME NEW n \in 0 .. 31, NEW m, m = n + 1
  PROVE  /\ m \in Int /\ m <= 32
         /\ m = 32 <=> n = 31
         /\ n # 31 => m < 32
OBVIOUS

\* A byte more in the buffer, and in the sums.
LEMMA PayloadStep ==
  ASSUME ParserType, NEW b \in Byte, Payload(b)
  PROVE  /\ bytes' \in Seq(Byte) /\ Len(bytes') = Len(bytes) + 1
         /\ \A i \in 1 .. Len(bytes) : bytes'[i] = bytes[i]
         /\ bytes'[Len(bytes) + 1] = b
         /\ ck_a' \in Byte /\ ck_b' \in Byte
         /\ Len(bytes) \in 0 .. 31
         /\ step' = (IF Len(bytes) = 31 THEN 4 ELSE 3)
         /\ UNCHANGED <<fix, parsed>>
<1>1. step = 3 /\ bytes \in Seq(Byte) /\ Len(bytes) \in 0 .. 31
  <2>1. step = 3 /\ bytes \in Seq(Byte) /\ Len(bytes) < 32
    BY DEF ParserType, Payload
  <2>2. Len(bytes) \in Nat
    BY <2>1, LenProperties
  <2>3. Len(bytes) \in 0 .. 31
    BY <2>1, <2>2, Below32
  <2> QED BY <2>1, <2>3
<1>2. bytes' = Append(bytes, b)
  BY DEF Payload
<1>3. /\ bytes' \in Seq(Byte) /\ Len(bytes') = Len(bytes) + 1
      /\ \A i \in 1 .. Len(bytes) : bytes'[i] = bytes[i]
      /\ bytes'[Len(bytes) + 1] = b
  BY <1>1, <1>2, AppendProperties
<1>4. ck_a' \in Byte
  BY SumType DEF ParserType, Payload
<1>5. ck_b' \in Byte
  BY <1>4, SumType DEF ParserType, Payload
<1>6. step' = (IF Len(bytes') = 32 THEN 4 ELSE 3) /\ UNCHANGED <<fix, parsed>>
  BY DEF Payload, Length
<1>7. Len(bytes') = 32 <=> Len(bytes) = 31
  BY <1>1, <1>3, OneMore
<1>8. step' = (IF Len(bytes) = 31 THEN 4 ELSE 3)
  BY <1>6, <1>7
<1> QED BY <1>1, <1>3, <1>4, <1>5, <1>6, <1>8

LEMMA ParserTypeKept ==
  ASSUME ParserType, NEW b \in Byte, ParseByte(b)
  PROVE  ParserType'
<1>1. CASE Preamble(b)
  <2>1. step \in 0 .. 2 /\ UNCHANGED <<fix, parsed>>
    BY <1>1 DEF Preamble
  <2>4. step' \in {step + 1, 1, 0}
    BY <1>1 DEF Preamble
  <2>5. step' \in 0 .. 3
    BY <2>1, <2>4
  <2>2. CASE step' = 3
    <3>1. bytes' = <<>> /\ ck_a' = b /\ ck_b' = b
      BY <1>1, <2>2 DEF Preamble
    <3>2. bytes' \in Seq(Byte) /\ Len(bytes') = 0
      BY <3>1, EmptySeq
    <3> QED BY <2>1, <2>2, <3>1, <3>2 DEF ParserType
  <2>3. CASE step' # 3
    <3>1. UNCHANGED <<ck_a, ck_b, bytes>>
      BY <1>1, <2>3 DEF Preamble
    <3> QED BY <2>1, <2>3, <2>5, <3>1 DEF ParserType
  <2> QED BY <2>2, <2>3
<1>2. CASE Payload(b)
  <2>1. /\ bytes' \in Seq(Byte) /\ Len(bytes') = Len(bytes) + 1
        /\ ck_a' \in Byte /\ ck_b' \in Byte /\ Len(bytes) \in 0 .. 31
        /\ step' = (IF Len(bytes) = 31 THEN 4 ELSE 3)
        /\ UNCHANGED <<fix, parsed>>
    BY <1>2, PayloadStep
  <2>2. Len(bytes') <= 32 /\ (step' = 3 => Len(bytes') < 32)
        /\ (step' > 3 => Len(bytes') = 32) /\ step' \in 0 .. 5
    <3>1. /\ Len(bytes') <= 32
          /\ Len(bytes') = 32 <=> Len(bytes) = 31
          /\ Len(bytes) # 31 => Len(bytes') < 32
      BY <2>1, OneMore
    <3>2. CASE Len(bytes) = 31
      BY <2>1, <3>1, <3>2
    <3>3. CASE Len(bytes) # 31
      BY <2>1, <3>1, <3>3
    <3> QED BY <3>2, <3>3
  <2>3. fix' \in BOOLEAN /\ parsed' \in BOOLEAN
    BY <2>1 DEF ParserType
  <2> QED BY <2>1, <2>2, <2>3 DEF ParserType
<1>3. CASE ChecksumA(b)
  BY <1>3 DEF ChecksumA, ParserType
<1>4. CASE Accept(b)
  <2>1. fix' \in BOOLEAN /\ parsed' \in BOOLEAN
    BY <1>4 DEF Accept, HasFix
  <2> QED BY <1>4, <2>1 DEF Accept, ParserType
<1>5. CASE Reject(b)
  BY <1>5 DEF Reject, ParserType
<1> QED BY <1>1, <1>2, <1>3, <1>4, <1>5 DEF ParseByte

\* Until a message of this turn is complete the status is that of the last.
StatusInv ==
  /\ TypeOK
  /\ (turn = "sleep" \/ ~parsed) /\ status # "NO_GPS" => (status = "GPS_OK" <=> fix)

LEMMA StatusInit == Init => StatusInv
<1> SUFFICES ASSUME Init PROVE StatusInv
  OBVIOUS
<1>1. bytes \in Seq(Byte) /\ Len(bytes) = 0
  BY EmptySeq DEF Init
<1>2. 0 \in 0 .. MaxFaults /\ 0 \in 0 .. (IdleTimeout + 1) /\ 0 \in Byte
  BY GpsAssumption DEF Byte
<1>3. ParserType
  <2>1. Len(bytes) <= 32 /\ step \in 0 .. 5 /\ step = 0
    BY <1>1 DEF Init
  <2>2. ck_a \in Byte /\ ck_b \in Byte /\ fix \in BOOLEAN /\ parsed \in BOOLEAN
    BY <1>2 DEF Init
  <2> QED BY <1>1, <2>1, <2>2 DEF ParserType
<1>4. faults \in 0 .. MaxFaults /\ idle \in 0 .. (IdleTimeout + 1)
  BY <1>2 DEF Init
<1>5. TypeOK
  BY <1>3, <1>4, TypeParts DEF Init
<1> QED BY <1>5 DEF Init, StatusInv

\* The step of one byte, whether it is the receiver's or a foreign one.
LEMMA StatusParse ==
  ASSUME StatusInv, NEW b \in Byte, ParseByte(b),
         payload' = payload, pos' \in 0 .. FrameLen, faults' \in 0 .. MaxFaults
  PROVE  StatusInv'
<1>1. ParserType'
  BY ParserTypeKept, TypeParts DEF StatusInv
<1>2. turn = "read" /\ UNCHANGED <<status, turn, idle>>
  BY DEF ParseByte, turnVars
<1>3. TypeOK'
  BY <1>1, <1>2, TypeParts DEF StatusInv, TypeOK, ParserType, Length
<1>4. parsed' \/ UNCHANGED <<parsed, fix>>
  BY DEF ParseByte, Preamble, Payload, ChecksumA, Accept, Reject
<1> QED BY <1>2, <1>3, <1>4 DEF StatusInv

LEMMA StatusStep == StatusInv /\ [Next]_vars => StatusInv'
<1> SUFFICES ASSUME StatusInv, [Next]_vars PROVE StatusInv'
  OBVIOUS
<1>0. FrameLen = 37 /\ MaxFaults \in Nat /\ IdleTimeout \in Nat
  BY GpsAssumption DEF FrameLen, Length
<1>1. CASE SendMessage
  BY <1>0, <1>1 DEF SendMessage, StatusInv, TypeOK, parserVars, turnVars
<1>2. CASE Lose
  BY <1>0, <1>2 DEF Lose, StatusInv, TypeOK, parserVars, turnVars
<1>3. CASE ReadByte
  <2>1. NextByte \in Byte /\ ParseByte(NextByte)
    BY <1>3, NextByteType DEF ReadByte, StatusInv
  <2>2. payload' = payload /\ pos' \in 0 .. FrameLen /\ faults' \in 0 .. MaxFaults
    BY <1>0, <1>3 DEF ReadByte, StatusInv, TypeOK
  <2> QED BY <2>1, <2>2, StatusParse
<1>4. CASE ReadNoise
  <2>1. PICK b \in Noises : ParseByte(b)
    BY <1>4 DEF ReadNoise
  <2>2. b \in Byte
    BY GpsAssumption
  <2>3. payload' = payload /\ pos' \in 0 .. FrameLen /\ faults' \in 0 .. MaxFaults
    BY <1>0, <1>4 DEF ReadNoise, StatusInv, TypeOK
  <2> QED BY <2>1, <2>2, <2>3, StatusParse
<1>5. CASE GotMessage
  BY <1>0, <1>5 DEF GotMessage, StatusInv, TypeOK, lineVars, parserVars
<1>6. CASE NoMessageYet
  BY <1>6 DEF NoMessageYet, StatusInv, TypeOK, lineVars, parserVars
<1>7. CASE TimedOut
  BY <1>0, <1>7 DEF TimedOut, StatusInv, TypeOK, lineVars, parserVars
<1>8. CASE WakeUp \/ CatchUp
  <2>1. PICK passed \in 0 .. 2 : BeginTurn(passed)
    BY <1>8 DEF WakeUp, CatchUp
  <2>2. idle' = IF idle + passed > IdleTimeout THEN IdleTimeout + 1 ELSE idle + passed
    BY <2>1 DEF BeginTurn
  <2>3. idle' \in 0 .. (IdleTimeout + 1)
    BY <1>0, <2>2 DEF StatusInv, TypeOK
  <2> QED BY <2>1, <2>3 DEF BeginTurn, StatusInv, TypeOK, lineVars
<1>9. CASE UNCHANGED vars
  BY <1>9 DEF vars, lineVars, parserVars, turnVars, StatusInv, TypeOK
<1> QED BY <1>1, <1>2, <1>3, <1>4, <1>5, <1>6, <1>7, <1>8, <1>9 DEF Next, Update

LEMMA StatusInvariant == Spec => []StatusInv
BY StatusInit, StatusStep, PTL DEF Spec

\* Every step keeps the types; above all read() never writes behind the 32
\* bytes of a message in its buffer.
THEOREM DriverTypeCorrect == Spec => []TypeOK
<1>1. StatusInv => TypeOK
  BY DEF StatusInv
<1> QED BY <1>1, StatusInvariant, PTL

\* However many messages a turn brings, between two turns the status and the
\* fix are those of the same message.
THEOREM StatusIsOfLastMessage == Spec => []StatusMatchesFix
<1>1. StatusInv => StatusMatchesFix
  BY DEF StatusInv, StatusMatchesFix
<1> QED BY <1>1, StatusInvariant, PTL
-----------------------------------------------------------------------------
\* The next byte of the message, by the place in it.
LEMMA NextByteAt ==
  ASSUME TypeOK
  PROVE  /\ pos = 0 => NextByte = 208
         /\ pos = 1 => NextByte = 221
         /\ pos = 2 => NextByte = 32
         /\ \A n \in 0 .. 31 : pos = n + 3 => NextByte = payload[n + 1]
         /\ pos = 35 => NextByte = CkA[payload][32]
         /\ pos = 36 => NextByte = CkB[payload][32]
<1>1. payload \in Payloads
  BY DEF TypeOK
<1>2. ASSUME NEW n \in 0 .. 31, pos = n + 3
      PROVE  NextByte = payload[n + 1]
  <2>1. n + 1 \in 1 .. 32 /\ (n + 1) + 3 = pos + 1
    BY <1>2
  <2>2. Messages[payload][(n + 1) + 3] = payload[n + 1]
    BY <1>1, <2>1, MessageBytes
  <2> QED BY <2>1, <2>2 DEF NextByte
<1> QED BY <1>1, <1>2, MessageBytes DEF NextByte

LEMMA InStepCases ==
  ASSUME TypeOK
  PROVE  InStep <=> \/ pos \in {0, 37} /\ step \in 0 .. 2
                    \/ pos = 1 /\ step = 1
                    \/ pos = 2 /\ step = 2
                    \/ \E n \in 0 .. 31 : pos = n + 3 /\ step = 3 /\ Collected(n)
                    \/ pos = 35 /\ step = 4 /\ Collected(32)
                    \/ pos = 36 /\ step = 5 /\ Collected(32)
<1>1. pos \in Int
  BY DEF TypeOK
<1>2. pos \in 3 .. 34 => pos - 3 \in 0 .. 31 /\ pos = (pos - 3) + 3
  BY <1>1
<1>3. \A n \in 0 .. 31 : pos = n + 3 => pos \in 3 .. 34 /\ n = pos - 3
  BY <1>1
<1>4. (\E n \in 0 .. 31 : pos = n + 3 /\ step = 3 /\ Collected(n))
        <=> pos \in 3 .. 34 /\ step = 3 /\ Collected(pos - 3)
  BY <1>2, <1>3
<1>5. InStep <=> \/ pos \in {0, 37} /\ step \in 0 .. 2
                 \/ pos = 1 /\ step = 1
                 \/ pos = 2 /\ step = 2
                 \/ pos \in 3 .. 34 /\ step = 3 /\ Collected(pos - 3)
                 \/ pos = 35 /\ step = 4 /\ Collected(32)
                 \/ pos = 36 /\ step = 5 /\ Collected(32)
  BY DEF InStep, FrameLen, Length
<1> QED BY <1>4, <1>5

\* One more byte of the payload, in step.
LEMMA CollectedGrows ==
  ASSUME TypeOK, NEW n \in 0 .. 31, pos = n + 3, Collected(n),
         Payload(NextByte), payload' = payload
  PROVE  Collected(n + 1)' /\ step' = (IF n = 31 THEN 4 ELSE 3)
<1>1. payload \in Payloads /\ NextByte = payload[n + 1] /\ NextByte \in Byte
  <2>1. payload \in Payloads
    BY DEF TypeOK
  <2>2. NextByte = payload[n + 1]
    BY NextByteAt
  <2>3. n + 1 \in 1 .. 32
    OBVIOUS
  <2>4. payload[n + 1] \in Byte
    BY <2>1, <2>3, MessageBytes
  <2> QED BY <2>1, <2>2, <2>4
<1>2. Len(bytes) = n /\ \A i \in 1 .. n : bytes[i] = payload[i]
  BY DEF Collected
<1>3. ParserType
  BY TypeParts
<1>4. /\ Len(bytes') = n + 1
      /\ \A i \in 1 .. n : bytes'[i] = bytes[i]
      /\ bytes'[n + 1] = NextByte
      /\ step' = (IF n = 31 THEN 4 ELSE 3)
  BY <1>1, <1>2, <1>3, PayloadStep
<1>5. \A i \in 1 .. (n + 1) : bytes'[i] = payload[i]
  BY <1>1, <1>2, <1>4
<1>6. n + 1 \in 1 .. 32 /\ (n + 1) - 1 = n
  OBVIOUS
<1>7. SumsUp(payload)
  BY <1>1, GpsAssumption
<1>8. /\ CkA[payload][n + 1] = (CkA[payload][n] + payload[n + 1]) % 256
      /\ CkB[payload][n + 1] = (CkB[payload][n] + CkA[payload][n + 1]) % 256
  BY <1>6, <1>7 DEF SumsUp, Length
<1>9. /\ ck_a' = (CkA[payload][n] + payload[n + 1]) % 256
      /\ ck_b' = (CkB[payload][n] + ck_a') % 256
  BY <1>1 DEF Collected, Payload
<1>10. ck_a' = CkA[payload][n + 1] /\ ck_b' = CkB[payload][n + 1]
  BY <1>8, <1>9
<1> QED BY <1>4, <1>5, <1>10 DEF Collected

\* The bytes of a complete payload are the payload.
LEMMA CollectedAll ==
  ASSUME TypeOK, Collected(32)
  PROVE  bytes = payload
<1>1. bytes \in Seq(Byte) /\ payload \in [1 .. 32 -> Byte]
  BY GpsAssumption DEF TypeOK, Length
<1>2. bytes \in [1 .. 32 -> Byte]
  BY <1>1, LenProperties DEF Collected
<1>3. \A i \in 1 .. 32 : bytes[i] = payload[i]
  BY DEF Collected
<1>4. bytes = [i \in 1 .. 32 |-> bytes[i]] /\ payload = [i \in 1 .. 32 |-> payload[i]]
  BY <1>1, <1>2
<1> QED BY <1>3, <1>4

\* A byte that read() takes from the message.
LEMMA InStepRead ==
  ASSUME TypeOK, TypeOK', InStep, ReadByte
  PROVE  InStep'
<1>1. /\ pos \in 0 .. 36 /\ pos' = pos + 1 /\ payload' = payload /\ payload \in Payloads
      /\ ParseByte(NextByte)
  BY DEF ReadByte, TypeOK, FrameLen, Length
<1>2. SumsUp(payload)
  BY <1>1, GpsAssumption
<1>3. CASE pos = 0
  <2>1. step \in 0 .. 2 /\ NextByte = 208
    BY <1>3, InStepCases, NextByteAt
  <2>2. Preamble(208)
    BY <1>1, <2>1 DEF ParseByte, Payload, ChecksumA, Accept, Reject
  <2>3. step' = 1 /\ pos' = 1
    BY <1>1, <1>3, <2>1, <2>2 DEF Preamble, PREAMBLE1, PREAMBLE2, Length
  <2> QED BY <2>3 DEF InStep
<1>4. CASE pos = 1
  <2>1. step = 1 /\ NextByte = 221
    BY <1>4, InStepCases, NextByteAt
  <2>2. Preamble(221)
    BY <1>1, <2>1 DEF ParseByte, Payload, ChecksumA, Accept, Reject
  <2>3. step' = 2 /\ pos' = 2
    BY <1>1, <1>4, <2>1, <2>2 DEF Preamble, PREAMBLE1, PREAMBLE2, Length
  <2> QED BY <2>3 DEF InStep
<1>5. CASE pos = 2
  <2>1. step = 2 /\ NextByte = 32
    BY <1>5, InStepCases, NextByteAt
  <2>2. Preamble(32)
    BY <1>1, <2>1 DEF ParseByte, Payload, ChecksumA, Accept, Reject
  <2>3. step' = 3 /\ pos' = 3
    BY <1>1, <1>5, <2>1, <2>2 DEF Preamble, PREAMBLE1, PREAMBLE2, Length
  <2>4. bytes' = <<>> /\ ck_a' = 32 /\ ck_b' = 32
    BY <2>2, <2>3 DEF Preamble
  <2>5. Collected(0)'
    BY <1>1, <1>2, <2>4 DEF Collected, SumsUp, Length
  <2> QED BY <2>3, <2>5 DEF InStep, Collected, Length
<1>6. ASSUME NEW n \in 0 .. 31, pos = n + 3 PROVE InStep'
  <2>1. step = 3 /\ Collected(n)
    BY <1>6, InStepCases
  <2>2. Payload(NextByte)
    BY <1>1, <2>1 DEF ParseByte, Preamble, ChecksumA, Accept, Reject
  <2>3. Collected(n + 1)' /\ step' = (IF n = 31 THEN 4 ELSE 3)
    BY <1>1, <1>6, <2>1, <2>2, CollectedGrows
  <2>4. CASE n = 31
    <3>1. pos' = 35 /\ step' = 4 /\ Collected(32)'
      BY <1>1, <1>6, <2>3, <2>4
    <3> QED BY <3>1 DEF InStep, Collected, Length
  <2>5. CASE n # 31
    <3>1. n + 1 \in 0 .. 31 /\ pos' = (n + 1) + 3 /\ step' = 3
      BY <1>1, <1>6, <2>3, <2>5
    <3>2. pos' \in 3 .. 34 /\ pos' - 3 = n + 1 /\ ~(pos' > 35)
      BY <3>1
    <3> QED BY <2>3, <3>1, <3>2 DEF InStep, Collected, Length
  <2> QED BY <2>4, <2>5
<1>7. CASE pos = 35
  <2>1. step = 4 /\ Collected(32) /\ NextByte = ck_a
    BY <1>7, InStepCases, NextByteAt DEF Collected
  <2>2. ChecksumA(NextByte)
    BY <1>1, <2>1 DEF ParseByte, Preamble, Payload, Accept, Reject
  <2>3. step' = 5 /\ pos' = 36 /\ UNCHANGED <<bytes, ck_a, ck_b>>
    BY <1>1, <1>7, <2>1, <2>2 DEF ChecksumA
  <2>4. Collected(32)'
    BY <1>1, <2>1, <2>3 DEF Collected
  <2> QED BY <2>3, <2>4 DEF InStep, Collected, Length
<1>8. CASE pos = 36
  <2>1. step = 5
    BY <1>8, InStepCases
  <2>2. step' = 0 /\ pos' = 37
    BY <1>1, <1>8, <2>1 DEF ParseByte, Preamble, Payload, ChecksumA, Accept, Reject
  <2> QED BY <2>2 DEF InStep, FrameLen, Length
<1>9. pos \in {0, 1, 2, 35, 36} \/ \E n \in 0 .. 31 : pos = n + 3
  <2>1. pos \in 3 .. 34 => pos - 3 \in 0 .. 31 /\ pos = (pos - 3) + 3
    OBVIOUS
  <2> QED BY <1>1, <2>1
<1> QED BY <1>3, <1>4, <1>5, <1>6, <1>7, <1>8, <1>9

\* A message that begins while the parser hunts is followed to its end,
\* whatever the payload holds and whatever has come before it.
THEOREM DriverKeepsStep == Spec => StepIsKept
<1>0. FrameLen = 37
  BY DEF FrameLen, Length
<1>1. ASSUME TypeOK, TypeOK', [Next]_vars,
             InStep, faults' = faults \/ step' < 3, ~Lose
      PROVE  InStep'
  <2>1. CASE SendMessage
    <3>1. step \in 0 .. 2 /\ step' = step /\ pos' = 0
      BY <1>0, <1>1, <2>1, InStepCases DEF SendMessage, parserVars
    <3> QED BY <3>1 DEF InStep
  <2>2. CASE ReadByte
    BY <1>1, <2>2, InStepRead
  <2>3. CASE ReadNoise
    <3>1. pos = 37 /\ pos' = 37 /\ faults' # faults
      BY <1>0, <1>1, <2>3 DEF ReadNoise, TypeOK
    <3>2. step' \in 0 .. 2
      BY <1>1, <3>1 DEF TypeOK
    <3> QED BY <1>0, <3>1, <3>2 DEF InStep
  <2>4. CASE Update \/ WakeUp \/ CatchUp \/ UNCHANGED vars
    <3>1. UNCHANGED <<payload, pos, step, bytes, ck_a, ck_b>>
      BY <2>4 DEF Update, GotMessage, NoMessageYet, TimedOut, WakeUp, CatchUp, BeginTurn, vars, lineVars, parserVars
    <3> QED BY <1>1, <3>1 DEF InStep, Collected
  <2> QED BY <1>1, <2>1, <2>2, <2>3, <2>4 DEF Next
<1>2. TypeOK /\ TypeOK' /\ [Next]_vars
        => [InStep /\ (faults' = faults \/ step' < 3) /\ ~Lose => InStep']_vars
  BY <1>1
<1> QED BY <1>2, DriverTypeCorrect, PTL DEF Spec, StepIsKept

\* The last byte of a message in step completes it: it is accepted, with the
\* payload and the fix sent.
THEOREM DriverAcceptsWhole == Spec => WholeIsAccepted
<1>1. ASSUME TypeOK, InStep, pos = FrameLen - 1, ReadByte
      PROVE  parsed' /\ bytes' = payload /\ fix' = HasFix(payload)
  <2>1. pos = 36
    BY <1>1 DEF FrameLen, Length
  <2>2. step = 5 /\ Collected(32) /\ NextByte = ck_b
    <3>1. step = 5 /\ Collected(32)
      BY <1>1, <2>1, InStepCases
    <3>2. NextByte = CkB[payload][32]
      BY <1>1, <2>1, NextByteAt
    <3> QED BY <3>1, <3>2 DEF Collected
  <2>3. Accept(NextByte)
    BY <1>1, <2>2 DEF ReadByte, ParseByte, Preamble, Payload, ChecksumA, Reject
  <2>4. bytes = payload
    BY <1>1, <2>2, CollectedAll
  <2> QED BY <2>3, <2>4 DEF Accept
<1>2. TypeOK /\ [Next]_vars
        => [InStep /\ pos = FrameLen - 1 /\ ReadByte =>
              parsed' /\ bytes' = payload /\ fix' = HasFix(payload)]_vars
  BY <1>1
<1> QED BY <1>2, DriverTypeCorrect, PTL DEF Spec, WholeIsAccepted
=============================================================================
