--------------------------- MODULE ServoFramesProofs ---------------------------
(***************************************************************************)
(* Theorems about ServoFrames, for every set of payloads, every CRC and    *)
(* any number of lost bytes.                                               *)
(*                                                                         *)
(* FrameInv says in addition to TypeOK that what is on the line is a frame *)
(* of the firmware.  The two theorems about synchronisation are facts of a *)
(* single step from such a state: the parser's place in the frame and the  *)
(* bytes it has collected move with the firmware's.                        *)
(***************************************************************************)
EXTENDS ServoFrames, SequenceTheorems, TLAPS

FrameInv == TypeOK /\ \E p \in Payloads : frame = Frames[p]

\* High and low byte of a word.
LEMMA WordBytes ==
  ASSUME NEW w \in Word
  PROVE  /\ w \div Base \in Byte /\ w % Base \in Byte
         /\ (w \div Base) * Base + (w % Base) = w
BY DEF Word, Byte, Base

LEMMA WordOfBytes ==
  ASSUME NEW h \in Byte, NEW l \in Byte
  PROVE  h * Base + l \in Word
<1>1. h \in Int /\ l \in Int /\ 0 <= h /\ h < 256 /\ 0 <= l /\ l < 256
  BY DEF Byte, Base
<1>2. PICK x \in Int : x = h * 256 + l
  BY <1>1
<1>3. 0 <= x /\ x < 256 * 256
  BY <1>1, <1>2
<1>4. PICK n \in Int : n = Base * Base /\ n = 256 * 256
  BY DEF Base
<1>5. x \in 0 .. (n - 1)
  BY <1>3, <1>4
<1>6. Word = 0 .. (n - 1)
  BY <1>4 DEF Word
<1> QED BY <1>2, <1>5, <1>6 DEF Base

LEMMA Lengths ==
  /\ PayloadLen \in Nat /\ FrameLen \in Nat /\ FrameLen = PayloadLen + 4
  /\ PayloadLen = 12 /\ FrameLen = 16
BY DEF FrameLen, PayloadLen

\* The bytes of a frame, one kind at a time.
LEMMA FrameBytes ==
  ASSUME NEW p \in Payloads
  PROVE  /\ Frames[p] \in [1 .. FrameLen -> Byte]
         /\ Frames[p][1] = 255
         /\ Frames[p][2] = 254
         /\ \A i \in 1 .. PayloadLen : Frames[p][i + 2] = p[i]
         /\ Frames[p][PayloadLen + 3] * Base + Frames[p][PayloadLen + 4] = Crc(p)
<1>1. p \in [1 .. PayloadLen -> Byte]
  BY FramesAssumption
<1>2. Crc(p) \in Word
  BY FramesAssumption
<1>3. PICK w \in Word : w = Crc(p)
  BY <1>2
<1>4. Frames[p] = Frame(p)
  BY DEF Frames
<1>5. Frame(p) = [i \in 1 .. FrameLen |->
         CASE i = 1 -> 255
           [] i = 2 -> 254
           [] i \in 3 .. (PayloadLen + 2) -> p[i - 2]
           [] i = PayloadLen + 3 -> w \div Base
           [] i = PayloadLen + 4 -> w % Base]
  BY <1>3 DEF Frame
<1> HIDE DEF Frame, Frames
<1>6. \A i \in 1 .. FrameLen :
        /\ i = 1 => Frame(p)[i] = 255
        /\ i = 2 => Frame(p)[i] = 254
        /\ i \in 3 .. (PayloadLen + 2) => Frame(p)[i] = p[i - 2]
        /\ i = PayloadLen + 3 => Frame(p)[i] = w \div Base
        /\ i = PayloadLen + 4 => Frame(p)[i] = w % Base
  BY <1>5, Lengths
<1>7. ASSUME NEW i \in 1 .. FrameLen PROVE Frame(p)[i] \in Byte
  <2>1. \/ i = 1 \/ i = 2 \/ i \in 3 .. (PayloadLen + 2)
        \/ i = PayloadLen + 3 \/ i = PayloadLen + 4
    BY Lengths
  <2>2. CASE i = 1
    BY <1>6, <2>2 DEF Byte, Base
  <2>3. CASE i = 2
    BY <1>6, <2>3 DEF Byte, Base
  <2>4. CASE i \in 3 .. (PayloadLen + 2)
    <3>1. i - 2 \in 1 .. PayloadLen
      BY <2>4, Lengths
    <3>2. p[i - 2] \in Byte
      BY <1>1, <3>1
    <3> QED BY <1>6, <2>4, <3>2
  <2>5. CASE i = PayloadLen + 3
    BY <1>6, <2>5, WordBytes
  <2>6. CASE i = PayloadLen + 4
    BY <1>6, <2>6, WordBytes
  <2> QED BY <2>1, <2>2, <2>3, <2>4, <2>5, <2>6
<1>8. Frame(p) \in [1 .. FrameLen -> Byte]
  BY <1>5, <1>7
<1>9. \A i \in 1 .. PayloadLen : Frame(p)[i + 2] = p[i]
  <2> SUFFICES ASSUME NEW i \in 1 .. PayloadLen PROVE Frame(p)[i + 2] = p[i]
    OBVIOUS
  <2>1. i + 2 \in 3 .. (PayloadLen + 2) /\ i + 2 \in 1 .. FrameLen /\ (i + 2) - 2 = i
    BY Lengths
  <2> QED BY <1>6, <2>1
<1>10. Frame(p)[1] = 255 /\ Frame(p)[2] = 254
  BY <1>6, Lengths
<1>11. Frame(p)[PayloadLen + 3] = w \div Base /\ Frame(p)[PayloadLen + 4] = w % Base
  BY <1>6, Lengths
<1> QED BY <1>3, <1>4, <1>8, <1>9, <1>10, <1>11, WordBytes

LEMMA FrameInit == Init => FrameInv
<1> SUFFICES ASSUME Init PROVE FrameInv
  OBVIOUS
<1>1. PICK p \in Payloads : frame = Frames[p]
  BY DEF Init
<1>2. frame \in [1 .. FrameLen -> Byte]
  BY <1>1, FrameBytes
<1>3. MaxLost \in Nat /\ MaxErrors \in Nat
  BY FramesAssumption
<1>4. rx_message \in Seq(Byte) /\ Len(rx_message) = 0
  BY EmptySeq DEF Init
<1>5. channels \in [0 .. 3 -> Word] /\ in_channel \in [0 .. 5 -> Word]
  <2>1. \A k \in 0 .. 5 : k \in Word /\ 0 \in Word
    BY DEF Word, Base
  <2>2. \A k \in 0 .. 3 : k \in Word
    BY DEF Word, Base
  <2> QED BY <2>1, <2>2 DEF Init
<1>6. /\ pos \in 0 .. FrameLen /\ lost \in 0 .. MaxLost /\ step \in 0 .. 2
      /\ parse_errors \in 0 .. MaxErrors /\ b_new \in BOOLEAN /\ step # 2
  <2>1. 0 \in 0 .. MaxLost /\ 0 \in 0 .. MaxErrors
    BY <1>3
  <2>2. /\ pos \in 0 .. FrameLen /\ lost = 0 /\ step = 0
        /\ parse_errors = 0 /\ b_new = FALSE
    BY DEF Init
  <2>3. /\ lost \in 0 .. MaxLost /\ step \in 0 .. 2 /\ step # 2
        /\ parse_errors \in 0 .. MaxErrors
    BY <2>1, <2>2
  <2>4. b_new \in BOOLEAN
    BY <2>2
  <2> QED BY <2>2, <2>3, <2>4
<1>7. payload_counter = 0 /\ payload_counter < Collected
  BY <1>4 DEF payload_counter, Collected
<1>8. in_channel \in [0 .. 3 -> Word] \cup [0 .. 5 -> Word]
  BY <1>5
<1> QED BY <1>1, <1>2, <1>4, <1>5, <1>6, <1>7, <1>8 DEF FrameInv, TypeOK

\* A byte that arrives is one of the frame's.
LEMMA ByteArrives ==
  ASSUME FrameInv, Arrives
  PROVE  /\ NextByte \in Byte /\ pos \in 0 .. (FrameLen - 1)
         /\ pos' = pos + 1 /\ pos' \in 0 .. FrameLen
         /\ frame' = frame /\ lost' = lost /\ in_channel' = in_channel
         /\ \E p \in Payloads : frame' = Frames[p]
<1>1. pos \in 0 .. FrameLen /\ pos < FrameLen
  BY DEF FrameInv, TypeOK, Arrives
<1>2. pos + 1 \in 1 .. FrameLen
  BY <1>1, Lengths
<1>3. NextByte \in Byte
  BY <1>2 DEF FrameInv, TypeOK, NextByte
<1>4. pos' = pos + 1 /\ frame' = frame /\ lost' = lost /\ in_channel' = in_channel
  BY DEF Arrives
<1>5. \E p \in Payloads : frame' = Frames[p]
  BY <1>4 DEF FrameInv
<1> QED BY <1>1, <1>2, <1>3, <1>4, <1>5, Lengths

\* The message that a last byte completes has fourteen bytes, and six words.
LEMMA MessageComplete ==
  ASSUME FrameInv, LastByte
  PROVE  /\ Stored \in Seq(Byte) /\ Len(Stored) = 14
         /\ [k \in 0 .. 3 |-> Channel(Stored, k)] \in [0 .. 3 -> Word]
<1>0. rx_message \in Seq(Byte) /\ Len(rx_message) = 13 /\ NextByte \in Byte
  BY ByteArrives DEF LastByte, FrameInv, TypeOK, payload_counter, Collected
<1>1. Stored \in Seq(Byte) /\ Len(Stored) = 14
  <2>1. Stored \in Seq(Byte) /\ Len(Stored) = Len(rx_message) + 1
    <3> DEFINE message == rx_message
    <3>1. message \in Seq(Byte)
      BY <1>0
    <3> HIDE DEF message
    <3>2. Append(message, NextByte) \in Seq(Byte)
          /\ Len(Append(message, NextByte)) = Len(message) + 1
      BY <1>0, <3>1, AppendProperties
    <3> QED BY <3>2 DEF Stored, message
  <2> QED BY <1>0, <2>1
<1>2. \A i \in 1 .. 14 : Stored[i] \in Byte
  BY <1>1, ElementOfSeq
<1>3. ASSUME NEW k \in 0 .. 3 PROVE Channel(Stored, k) \in Word
  <2>1. 2 * k + 1 \in 1 .. 14 /\ 2 * k + 2 \in 1 .. 14
    OBVIOUS
  <2>2. Stored[2 * k + 1] \in Byte /\ Stored[2 * k + 2] \in Byte
    BY <1>2, <2>1
  <2> QED BY <2>2, WordOfBytes DEF Channel
<1> QED BY <1>1, <1>3

LEMMA FrameStep == FrameInv /\ [Next]_vars => FrameInv'
<1> SUFFICES ASSUME FrameInv, [Next]_vars PROVE FrameInv'
  OBVIOUS
<1>0. FrameLen \in Nat /\ MaxErrors \in Nat /\ MaxLost \in Nat
  BY Lengths, FramesAssumption
<1>1. CASE SendMessage
  <2>1. PICK p \in Payloads : frame' = Frames[p]
    BY <1>1 DEF SendMessage
  <2>2. frame' \in [1 .. FrameLen -> Byte]
    BY <2>1, FrameBytes
  <2> QED BY <1>0, <1>1, <2>1, <2>2
          DEF SendMessage, FrameInv, TypeOK, parserVars, payload_counter
<1>2. CASE Lose
  BY <1>0, <1>2 DEF Lose, FrameInv, TypeOK, parserVars, payload_counter
<1>3. CASE Hunt
  BY <1>3, ByteArrives DEF Hunt, FrameInv, TypeOK, payload_counter
<1>4. CASE Sync
  BY <1>4, ByteArrives DEF Sync, FrameInv, TypeOK, payload_counter
<1>5. CASE Collect
  <2>1. rx_message' \in Seq(Byte) /\ Len(rx_message') = Len(rx_message) + 1
    BY <1>5, ByteArrives DEF Collect, Stored, FrameInv, TypeOK
  <2> QED BY <1>5, <2>1, ByteArrives DEF Collect, FrameInv, TypeOK, payload_counter, Collected
<1>6. CASE Accept
  <2>1. channels' \in [0 .. 3 -> Word]
    BY <1>6, MessageComplete DEF Accept
  <2>2. Arrives /\ rx_message' = <<>>
    BY <1>6 DEF Accept, LastByte
  <2> QED BY <1>6, <2>1, <2>2, ByteArrives
          DEF Accept, FrameInv, TypeOK, payload_counter, Collected
<1>7. CASE Reject
  <2>1. Arrives /\ rx_message' = <<>> /\ step' = 0
    BY <1>7 DEF Reject, LastByte
  <2>2. rx_message' \in Seq(Byte) /\ payload_counter' = 0 /\ payload_counter' < Collected
    BY <2>1, EmptySeq DEF payload_counter, Collected
  <2>3. parse_errors \in 0 .. MaxErrors
    BY DEF FrameInv, TypeOK
  <2>4. parse_errors' \in 0 .. MaxErrors
    <3>1. CASE parse_errors < MaxErrors
      BY <1>0, <1>7, <2>3, <3>1 DEF Reject
    <3>2. CASE ~(parse_errors < MaxErrors)
      BY <1>7, <2>3, <3>2 DEF Reject
    <3> QED BY <3>1, <3>2
  <2>5. step' \in 0 .. 2 /\ b_new' = b_new /\ channels' = channels
    BY <1>7 DEF Reject
  <2> QED BY <2>1, <2>2, <2>4, <2>5, ByteArrives DEF FrameInv, TypeOK
<1>8. CASE TakeChannels
  <2>1. in_channel' \in [0 .. 3 -> Word] \cup [0 .. 5 -> Word] /\ b_new' \in BOOLEAN
    BY <1>8 DEF TakeChannels, FrameInv, TypeOK
  <2>2. parse_errors' \in 0 .. MaxErrors
    BY <1>0, <1>8 DEF TakeChannels
  <2>3. UNCHANGED <<frame, pos, lost, step, rx_message, channels, payload_counter>>
    BY <1>8 DEF TakeChannels, lineVars, payload_counter
  <2> QED BY <2>1, <2>2, <2>3 DEF FrameInv, TypeOK
<1>9. CASE UNCHANGED vars
  BY <1>9 DEF vars, lineVars, parserVars, FrameInv, TypeOK, payload_counter
<1> QED BY <1>1, <1>2, <1>3, <1>4, <1>5, <1>6, <1>7, <1>8, <1>9 DEF Next, ProcessByte

LEMMA FrameInvariant == Spec => []FrameInv
BY FrameInit, FrameStep, PTL DEF Spec

\* Every step keeps the types; above all rx_message never holds fourteen bytes
\* when another one arrives, so that process_byte() stays inside of its array.
THEOREM ParserTypeCorrect == Spec => []TypeOK
<1>1. FrameInv => TypeOK
  BY DEF FrameInv
<1> QED BY <1>1, FrameInvariant, PTL

\* The message that completes a frame in step with the parser is the payload
\* with its CRC.
LEMMA SyncedMessageIsGood ==
  ASSUME FrameInv, InSync, LastByte
  PROVE  /\ CrcOk(Stored) /\ pos' = FrameLen
         /\ \E p \in Payloads : frame = Frames[p] /\ \A i \in 1 .. 12 : Stored[i] = p[i]
<1>0. FrameLen = 16 /\ FrameLen \in Nat
  BY Lengths
<1>1. PICK p \in Payloads : frame = Frames[p]
  BY DEF FrameInv
<1>2. step = 2 /\ Len(rx_message) = 13 /\ pos = 15 /\ pos' = 16
      /\ \A i \in 1 .. 13 : rx_message[i] = frame[i + 2]
  BY <1>0 DEF LastByte, InSync, payload_counter, Collected, Arrives
<1>3. rx_message \in Seq(Byte) /\ Stored = Append(rx_message, frame[16])
  BY <1>2 DEF FrameInv, TypeOK, Stored, NextByte
<1>4. (\A i \in 1 .. 13 : Stored[i] = frame[i + 2]) /\ Stored[14] = frame[16]
  <2>1. frame[16] \in Byte
    BY <1>0 DEF FrameInv, TypeOK
  <2>2. /\ \A i \in 1 .. Len(rx_message) : Stored[i] = rx_message[i]
        /\ Stored[Len(rx_message) + 1] = frame[16]
    BY <1>3, <2>1, AppendProperties
  <2> QED BY <1>2, <2>2
<1>5. \A i \in 1 .. 12 : frame[i + 2] = p[i]
  BY <1>1, FrameBytes, Lengths
<1>6. frame[15] * Base + frame[16] = Crc(p)
  <2>1. PayloadLen + 3 = 15 /\ PayloadLen + 4 = 16
    BY Lengths
  <2> QED BY <1>1, <2>1, FrameBytes
<1>7. p \in [1 .. 12 -> Byte]
  BY FramesAssumption, Lengths
<1>a. \A i \in 1 .. 12 : Stored[i] = p[i]
  BY <1>4, <1>5
<1>8. [i \in 1 .. 12 |-> Stored[i]] = p
  BY <1>7, <1>a
<1>9. Stored[13] = frame[15] /\ Stored[14] = frame[16]
  BY <1>4
<1>10. Stored[13] * Base + Stored[14] = Crc([i \in 1 .. 12 |-> Stored[i]])
  BY <1>6, <1>8, <1>9
<1> QED BY <1>0, <1>1, <1>2, <1>10, <1>a DEF CrcOk

\* process_byte(): as long as no byte is lost the parser stays in sync, whatever
\* the payloads hold.
THEOREM SyncKept == Spec => SyncIsKept
<1>0. FrameLen = 16 /\ FrameLen \in Nat
  BY Lengths
<1>1. ASSUME FrameInv, [Next]_vars, InSync, lost' = lost PROVE InSync'
  <2>0. PICK p \in Payloads : frame = Frames[p]
    BY <1>1 DEF FrameInv
  <2>1. CASE SendMessage
    BY <1>0, <1>1, <2>1 DEF SendMessage, InSync, parserVars
  <2>2. CASE Lose
    BY <1>1, <2>2 DEF Lose, FrameInv, TypeOK
  <2>3. CASE Hunt
    <3>1. pos = 0
      BY <1>0, <1>1, <2>3 DEF Hunt, Arrives, InSync
    <3>2. NextByte = 255
      BY <2>0, <3>1, FrameBytes DEF NextByte
    <3> QED BY <1>0, <2>3, <3>1, <3>2 DEF Hunt, Arrives, InSync
  <2>4. CASE Sync
    <3>1. pos = 1
      BY <1>0, <1>1, <2>4 DEF Sync, InSync
    <3>2. NextByte = 254
      BY <2>0, <3>1, FrameBytes DEF NextByte
    <3>3. Len(rx_message) = 0 /\ rx_message' = rx_message
      BY <1>1, <2>4 DEF Sync, FrameInv, TypeOK, payload_counter
    <3> QED BY <1>0, <2>4, <3>1, <3>2, <3>3 DEF Sync, Arrives, InSync, payload_counter
  <2>5. CASE Collect
    <3>1. /\ pos \in 2 .. 15 /\ Len(rx_message) = pos - 2 /\ pos < 15
          /\ \A i \in 1 .. Len(rx_message) : rx_message[i] = frame[i + 2]
      BY <1>0, <1>1, <2>5 DEF Collect, InSync, payload_counter, Collected
    <3>2. rx_message \in Seq(Byte) /\ NextByte \in Byte
          /\ rx_message' = Append(rx_message, frame[pos + 1])
      BY <1>1, <2>5, ByteArrives DEF Collect, Stored, NextByte, FrameInv, TypeOK
    <3>3. Len(rx_message') = pos - 1
          /\ \A i \in 1 .. Len(rx_message') : rx_message'[i] = frame[i + 2]
      BY <3>1, <3>2
    <3>4. pos' = pos + 1 /\ frame' = frame /\ step' = 2
      BY <2>5 DEF Collect, Arrives
    <3> QED BY <1>0, <3>1, <3>3, <3>4 DEF InSync, payload_counter
  <2>6. CASE Accept
    BY <1>0, <1>1, <2>6, SyncedMessageIsGood DEF Accept, InSync
  <2>7. CASE Reject
    BY <1>1, <2>7, SyncedMessageIsGood DEF Reject
  <2>8. CASE TakeChannels
    BY <1>1, <2>8 DEF TakeChannels, lineVars, InSync, payload_counter
  <2>9. CASE UNCHANGED vars
    BY <1>1, <2>9 DEF vars, lineVars, parserVars, InSync, payload_counter
  <2> QED BY <1>1, <2>1, <2>2, <2>3, <2>4, <2>5, <2>6, <2>7, <2>8, <2>9 DEF Next, ProcessByte
<1>2. FrameInv /\ [Next]_vars => [InSync /\ lost' = lost => InSync']_vars
  BY <1>1
<1> QED BY <1>2, FrameInvariant, PTL DEF Spec, SyncIsKept

\* The channels of a message depend on its first eight bytes only.
LEMMA SameChannels ==
  ASSUME NEW m, NEW p, \A i \in 1 .. 12 : m[i] = p[i]
  PROVE  [k \in 0 .. 3 |-> Channel(m, k)] = ChannelsOf(p)
<1>1. ASSUME NEW k \in 0 .. 3 PROVE Channel(m, k) = p[2 * k + 1] * Base + p[2 * k + 2]
  <2>1. 2 * k + 1 \in 1 .. 12 /\ 2 * k + 2 \in 1 .. 12
    OBVIOUS
  <2>2. m[2 * k + 1] = p[2 * k + 1] /\ m[2 * k + 2] = p[2 * k + 2]
    BY <2>1
  <2> QED BY <2>2, Zenon DEF Channel
<1> QED BY <1>1, Zenon DEF ChannelsOf

\* The byte that completes the frame completes the message of a parser in sync.
LEMMA SyncedLastByte ==
  ASSUME FrameInv, InSync, ProcessByte, pos' = FrameLen PROVE LastByte
<1>1. pos = 15 /\ Arrives
  <2>1. pos' = pos + 1 /\ Arrives
    BY DEF ProcessByte, Hunt, Sync, Collect, Accept, Reject, LastByte, Arrives
  <2>2. pos \in 0 .. (FrameLen - 1)
    BY <2>1, ByteArrives
  <2>3. pos' = 16
    BY Lengths
  <2> QED BY <2>1, <2>2, <2>3, Lengths
<1>2. step = 2 /\ payload_counter = 13
  BY <1>1, Lengths DEF InSync
<1> QED BY <1>1, <1>2 DEF LastByte, Collected

\* process_byte(): a frame of which the parser has seen every byte is accepted
\* with its channels, so that a CRC error means a lost byte.
THEOREM WholeFramesAccepted == Spec => WholeIsAccepted
<1>1. ASSUME FrameInv, InSync, ProcessByte, pos' = FrameLen
      PROVE  Accept /\ \E p \in Payloads : frame = Frames[p] /\ channels' = ChannelsOf(p)
  <2>1. LastByte
    BY <1>1, SyncedLastByte
  <2>2. CrcOk(Stored)
    BY <1>1, <2>1, SyncedMessageIsGood
  <2>3. Accept
    BY <1>1, <2>1, <2>2
      DEF ProcessByte, LastByte, Hunt, Sync, Collect, Reject
  <2>4. PICK p \in Payloads : frame = Frames[p] /\ \A i \in 1 .. 12 : Stored[i] = p[i]
    BY <1>1, <2>1, SyncedMessageIsGood
  <2>5. channels' = ChannelsOf(p)
    BY <2>3, <2>4, SameChannels DEF Accept
  <2> QED BY <2>3, <2>4, <2>5
<1>2. FrameInv /\ [Next]_vars =>
        [InSync /\ ProcessByte /\ pos' = FrameLen =>
           Accept /\ \E p \in Payloads : frame = Frames[p] /\ channels' = ChannelsOf(p)]_vars
  BY <1>1
<1> QED BY <1>2, FrameInvariant, PTL DEF Spec, WholeIsAccepted
=============================================================================
