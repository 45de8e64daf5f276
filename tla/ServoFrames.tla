------------------------------ MODULE ServoFrames ------------------------------
(***************************************************************************)
(* The messages with the pilot's servo channels: the FCCI firmware sends   *)
(* one frame per cycle (c_dropbox.cpp), the line may lose bytes, and       *)
(* cParser (src/linux/cServochannels) finds the frames in what arrives.    *)
(*                                                                         *)
(*   frame    FF FE, the payload (two bytes per channel), CRC high, low    *)
(*   loss     HardwareSerial drops a byte when its ring is full, which     *)
(*            SerialRing models, and the UART on an overrun                *)
(*   parser   process_byte(), called for each byte by fcci_module::loop    *)
(*   taking   the end of a turn of that loop, after any number of bytes    *)
(***************************************************************************)
EXTENDS Integers, Sequences

CONSTANTS
  Payloads,     \* the payloads sent
  Crc(_),       \* crcFast()
  MaxLost,      \* bound: bytes lost
  MaxErrors     \* bound: parse_errors is counted up to here

Base == 256
Byte == 0 .. (Base - 1)
Word == 0 .. (Base * Base - 1)

PayloadLen == 12     \* two bytes for each of six channels

ASSUME FramesAssumption ==
  /\ Payloads \subseteq [1 .. PayloadLen -> Byte]
  /\ Payloads # {}
  /\ \A p \in Payloads : Crc(p) \in Word
  /\ MaxLost \in Nat
  /\ MaxErrors \in Nat

VARIABLES
  frame,            \* the frame on the line
  pos,              \* how many of its bytes are gone
  lost,             \* bytes lost so far
  step,             \* of cParser, as the four that follow
  rx_message,       \* the bytes collected: the first payload_counter ones
  parse_errors,
  b_new,
  channels,         \* the array of *pchannels
  in_channel        \* the array of *fcci_in_channel

lineVars   == <<frame, pos, lost>>
parserVars == <<step, rx_message, parse_errors, b_new, channels>>
vars == <<lineVars, parserVars, in_channel>>

FrameLen == PayloadLen + 4
payload_counter == Len(rx_message)

\* What send_message() puts on the line.
Frame(p) ==
  [i \in 1 .. FrameLen |->
     CASE i = 1 -> 255
       [] i = 2 -> 254
       [] i \in 3 .. (PayloadLen + 2) -> p[i - 2]
       [] i = PayloadLen + 3 -> Crc(p) \div Base
       [] i = PayloadLen + 4 -> Crc(p) % Base]
Frames == [p \in Payloads |-> Frame(p)]

Collected == 14      \* the bytes of rx_message
-----------------------------------------------------------------------------
(* The line. *)

\* set_channels() and send_message(): the payload is a new one or the last.
SendMessage ==
  /\ pos = FrameLen
  /\ \E p \in Payloads : frame' = Frames[p]
  /\ pos' = 0
  /\ UNCHANGED <<lost, parserVars, in_channel>>

Lose ==
  /\ pos < FrameLen
  /\ lost < MaxLost
  /\ pos' = pos + 1
  /\ lost' = lost + 1
  /\ UNCHANGED <<frame, parserVars, in_channel>>

\* The next byte reaches process_byte().
NextByte == frame[pos + 1]
Arrives ==
  /\ pos < FrameLen
  /\ pos' = pos + 1
  /\ UNCHANGED <<frame, lost, in_channel>>
-----------------------------------------------------------------------------
(* process_byte(). *)

Hunt ==
  /\ step = 0
  /\ Arrives
  /\ step' = IF NextByte = 255 THEN 1 ELSE 0
  /\ UNCHANGED <<rx_message, parse_errors, b_new, channels>>

Sync ==
  /\ step = 1
  /\ Arrives
  /\ step' = IF NextByte = 254 THEN 2 ELSE 0
  /\ UNCHANGED <<rx_message, parse_errors, b_new, channels>>

\* rx_message with the byte that has arrived.
Stored == Append(rx_message, NextByte)

\* Mutant of Collect: one byte too many is collected.
CollectOneMore ==
  /\ step = 2
  /\ payload_counter < Collected
  /\ Arrives
  /\ rx_message' = Stored
  /\ UNCHANGED <<step, parse_errors, b_new, channels>>

Collect ==
  /\ step = 2
  /\ payload_counter < Collected - 1
  /\ Arrives
  /\ rx_message' = Stored
  /\ UNCHANGED <<step, parse_errors, b_new, channels>>

\* The byte that completes a message.
LastByte ==
  /\ step = 2
  /\ payload_counter = Collected - 1
  /\ Arrives

\* Mutants of CrcOk: no check; the two bytes swapped.
CrcIgnored(m) == TRUE
CrcSwapped(m) == m[14] * Base + m[13] = Crc([i \in 1 .. 12 |-> m[i]])

\* The last two bytes are the CRC of the first twelve.
CrcOk(m) == m[13] * Base + m[14] = Crc([i \in 1 .. 12 |-> m[i]])

Channel(m, k) == m[2 * k + 1] * Base + m[2 * k + 2]

\* Mutant of Accept: the parser does not go back to hunting.
AcceptStays ==
  /\ LastByte
  /\ CrcOk(Stored)
  /\ channels' = [k \in 0 .. 3 |-> Channel(Stored, k)]
  /\ b_new' = TRUE
  /\ rx_message' = <<>>
  /\ UNCHANGED <<step, parse_errors>>

\* setChannel() is called for six channels, but the array has four: the last
\* two are written behind it, into what malloc() adds to eight bytes.
Accept ==
  /\ LastByte
  /\ CrcOk(Stored)
  /\ channels' = [k \in 0 .. 3 |-> Channel(Stored, k)]
  /\ b_new' = TRUE
  /\ step' = 0
  /\ rx_message' = <<>>
  /\ UNCHANGED parse_errors

\* Mutant of Reject: the parser does not go back to hunting.
RejectStays ==
  /\ LastByte
  /\ ~CrcOk(Stored)
  /\ parse_errors' = IF parse_errors < MaxErrors THEN parse_errors + 1 ELSE parse_errors
  /\ rx_message' = <<>>
  /\ UNCHANGED <<step, b_new, channels>>

Reject ==
  /\ LastByte
  /\ ~CrcOk(Stored)
  /\ parse_errors' = IF parse_errors < MaxErrors THEN parse_errors + 1 ELSE parse_errors
  /\ step' = 0
  /\ rx_message' = <<>>
  /\ UNCHANGED <<b_new, channels>>

\* The assignment gives *fcci_in_channel the size of *pchannels: four.  The
\* signal that follows logs the error count and resets it.
TakeChannels ==
  /\ b_new
  /\ in_channel' = channels
  /\ b_new' = FALSE
  /\ parse_errors' = 0
  /\ UNCHANGED <<lineVars, step, rx_message, channels>>
-----------------------------------------------------------------------------
\* The port is opened at any moment of a frame.
Init ==
  /\ \E p \in Payloads : frame = Frames[p]
  /\ pos \in 0 .. FrameLen
  /\ lost = 0
  /\ step = 0
  /\ rx_message = <<>>
  /\ parse_errors = 0
  /\ b_new = FALSE
  /\ channels = [k \in 0 .. 3 |-> k]
  /\ in_channel = [k \in 0 .. 5 |-> 0]

ProcessByte == Hunt \/ Sync \/ Collect \/ Accept \/ Reject

Next == SendMessage \/ Lose \/ ProcessByte \/ TakeChannels

Spec == Init /\ [][Next]_vars

\* The firmware sends and the polling loop of fcci_module reads and takes again
\* and again.  A byte need not be lost.
FairSpec ==
  Spec /\ WF_vars(SendMessage) /\ WF_vars(ProcessByte) /\ WF_vars(TakeChannels)
-----------------------------------------------------------------------------
TypeOK ==
  /\ frame \in [1 .. FrameLen -> Byte]
  /\ pos \in 0 .. FrameLen
  /\ lost \in 0 .. MaxLost
  /\ step \in 0 .. 2
  /\ rx_message \in Seq(Byte)
  /\ payload_counter < Collected
  /\ step # 2 => payload_counter = 0
  /\ parse_errors \in 0 .. MaxErrors
  /\ b_new \in BOOLEAN
  /\ channels \in [0 .. 3 -> Word]
  /\ in_channel \in [0 .. 3 -> Word] \cup [0 .. 5 -> Word]

\* The parser stands where the firmware stands in its frame.
InSync ==
  \/ pos \in {0, FrameLen} /\ step = 0
  \/ pos = 1 /\ step = 1
  \/ /\ pos \in 2 .. (FrameLen - 1)
     /\ step = 2
     /\ payload_counter = pos - 2
     /\ \A i \in 1 .. payload_counter : rx_message[i] = frame[i + 2]

\* Once the parser is in sync only a lost byte takes it out of sync: FF FE in
\* a payload or in a CRC does not.
SyncIsKept ==
  [][InSync /\ lost' = lost => InSync']_vars

\* A frame that arrives whole at a parser in sync is accepted, with the channels
\* of its payload, and never counted as a CRC error: err_count in the log stands
\* for real losses, and without them the raspi knows what the pilot does.
ChannelsOf(p) == [k \in 0 .. 3 |-> p[2 * k + 1] * Base + p[2 * k + 2]]
WholeIsAccepted ==
  [][InSync /\ ProcessByte /\ pos' = FrameLen =>
       Accept /\ \E p \in Payloads : frame = Frames[p] /\ channels' = ChannelsOf(p)]_vars

\* Whatever has been lost, and wherever the parser found an FF FE, what it
\* accepts are the channels of one frame sent, never bytes of two: of the frame
\* that ends with this byte, or of the one before, when it lost its last byte,
\* an FF, and the FF of the next frame stands in for it.
OnlyWholeFrames ==
  [][Accept => \E p \in Payloads :
                 /\ channels' = ChannelsOf(p)
                 /\ \/ pos' = FrameLen /\ frame = Frames[p]
                    \/ pos' = 1 /\ Crc(p) % Base = 255]_vars

\* When no more bytes are lost the channels are taken again and again: the
\* parser finds its way back, whatever it was doing when the bytes got lost.
\* This needs frames that do not hold FF FE but at the start, and do not end in
\* FF, from some moment on: see README.
Imitates ==
  \/ \E i \in 3 .. (FrameLen - 1) : frame[i] = 255 /\ frame[i + 1] = 254
  \/ frame[FrameLen] = 255
KeepsTaking ==
  <>[]~Imitates => []<><<TakeChannels>>_vars
=============================================================================
