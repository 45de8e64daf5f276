------------------------------- MODULE GpsDriver -------------------------------
(***************************************************************************)
(* The GPS driver: a receiver that sends framed messages, a line that may  *)
(* lose bytes or carry bytes of other messages, AP_GPS_MTK16::read() that  *)
(* finds the messages, GPS::update() that derives the status, and the      *)
(* 10 Hz loop of gps_module.                                               *)
(*                                                                         *)
(*   message  D0 DD 20, 32 bytes of payload, two sums of Fletcher's kind   *)
(*   turn     one round of gps_module::loop: read() processes whatever     *)
(*            waits in the port, update() draws its conclusions, the loop  *)
(*            sleeps; a clock of turns stands for millis()                 *)
(***************************************************************************)
EXTENDS Integers, Sequences

CONSTANTS
  Payloads,       \* the payloads sent
  CkA, CkB,       \* the sums of each prefix of a payload
  Noises,         \* bytes of other messages
  IdleTimeout,    \* idleTimeout, in turns: 12
  MaxFaults       \* bound: bytes lost, and bytes of other messages

Byte == 0 .. 255
PREAMBLE1 == 208
PREAMBLE2 == 221
Length == 32
FrameLen == Length + 5

\* The sums start with the length and take in one byte after the other.
SumsUp(p) ==
  /\ CkA[p][0] = Length /\ CkB[p][0] = Length
  /\ \A n \in 1 .. Length :
       /\ CkA[p][n] = (CkA[p][n - 1] + p[n]) % 256
       /\ CkB[p][n] = (CkB[p][n - 1] + CkA[p][n]) % 256

ASSUME GpsAssumption ==
  /\ Payloads # {} /\ Payloads \subseteq [1 .. Length -> Byte]
  /\ CkA \in [Payloads -> [0 .. Length -> Byte]]
  /\ CkB \in [Payloads -> [0 .. Length -> Byte]]
  /\ \A p \in Payloads : SumsUp(p)
  /\ Noises \subseteq Byte
  /\ IdleTimeout \in Nat
  /\ MaxFaults \in Nat

VARIABLES
  payload,        \* the payload on the line
  pos,            \* how many bytes of its message are gone
  faults,         \* bytes lost or foreign so far
  step,           \* _step
  bytes,          \* the first _payload_counter bytes of _buffer
  ck_a, ck_b,     \* _ck_a, _ck_b
  fix,
  status,         \* _status
  parsed,         \* of read(), TRUE once a message is complete
  turn,           \* what the loop is doing
  idle            \* turns since _idleTimer was set

lineVars   == <<payload, pos, faults>>
parserVars == <<step, bytes, ck_a, ck_b, fix, parsed>>
turnVars   == <<status, turn, idle>>
vars == <<lineVars, parserVars, turnVars>>

\* What the receiver puts on the line for a payload.
Message(p) ==
  [i \in 1 .. FrameLen |->
     CASE i = 1 -> PREAMBLE1
       [] i = 2 -> PREAMBLE2
       [] i = 3 -> Length
       [] i \in 4 .. (Length + 3) -> p[i - 3]
       [] i = Length + 4 -> CkA[p][Length]
       [] i = Length + 5 -> CkB[p][Length]]
Messages == [p \in Payloads |-> Message(p)]

\* FIX_3D and FIX_3D_SBAS, in the byte of fix_type.
HasFix(p) == p[22] \in {3, 7}
-----------------------------------------------------------------------------
(* The line. *)

SendMessage ==
  /\ pos = FrameLen
  /\ payload' \in Payloads
  /\ pos' = 0
  /\ UNCHANGED <<faults, parserVars, turnVars>>

Lose ==
  /\ pos < FrameLen
  /\ faults < MaxFaults
  /\ pos' = pos + 1
  /\ faults' = faults + 1
  /\ UNCHANGED <<payload, parserVars, turnVars>>
-----------------------------------------------------------------------------
(* read(): what one byte does. *)

\* Mutant of Preamble: a byte that does not fit is not considered again.
PreambleOnce(b) ==
  /\ step \in 0 .. 2
  /\ step' = IF \/ step = 0 /\ b = PREAMBLE1
                \/ step = 1 /\ b = PREAMBLE2
                \/ step = 2 /\ b = Length
             THEN step + 1 ELSE 0
  /\ IF step' = 3 THEN ck_a' = b /\ ck_b' = b /\ bytes' = <<>>
                  ELSE UNCHANGED <<ck_a, ck_b, bytes>>
  /\ UNCHANGED <<fix, parsed>>

\* Steps 0, 1 and 2.  A byte that does not fit is considered once more, as
\* the first byte of the preamble.
Preamble(b) ==
  /\ step \in 0 .. 2
  /\ step' = IF \/ step = 0 /\ b = PREAMBLE1
                \/ step = 1 /\ b = PREAMBLE2
                \/ step = 2 /\ b = Length
             THEN step + 1
             ELSE IF b = PREAMBLE1 THEN 1 ELSE 0
  /\ IF step' = 3 THEN ck_a' = b /\ ck_b' = b /\ bytes' = <<>>
                  ELSE UNCHANGED <<ck_a, ck_b, bytes>>
  /\ UNCHANGED <<fix, parsed>>

\* Mutant of Payload: one byte more than the buffer of the message.
PayloadLong(b) ==
  /\ step = 3
  /\ bytes' = Append(bytes, b)
  /\ ck_a' = (ck_a + b) % 256
  /\ ck_b' = (ck_b + ck_a') % 256
  /\ step' = IF Len(bytes') > Length THEN 4 ELSE 3
  /\ UNCHANGED <<fix, parsed>>

Payload(b) ==
  /\ step = 3
  /\ bytes' = Append(bytes, b)
  /\ ck_a' = (ck_a + b) % 256
  /\ ck_b' = (ck_b + ck_a') % 256
  /\ step' = IF Len(bytes') = Length THEN 4 ELSE 3
  /\ UNCHANGED <<fix, parsed>>

\* Mutant of ChecksumA: after a mismatch the parser waits for the sum.
ChecksumAStays(b) ==
  /\ step = 4
  /\ step' = IF b = ck_a THEN 5 ELSE 4
  /\ UNCHANGED <<bytes, ck_a, ck_b, fix, parsed>>

ChecksumA(b) ==
  /\ step = 4
  /\ step' = IF b = ck_a THEN 5 ELSE 0
  /\ UNCHANGED <<bytes, ck_a, ck_b, fix, parsed>>

\* Mutants of Accept: the second sum is not compared; a fix is never lost.
AcceptAny(b) ==
  /\ step = 5
  /\ step' = 0
  /\ fix' = HasFix(bytes)
  /\ parsed' = TRUE
  /\ UNCHANGED <<bytes, ck_a, ck_b>>

AcceptKeepsFix(b) ==
  /\ step = 5
  /\ b = ck_b
  /\ step' = 0
  /\ fix' = (fix \/ HasFix(bytes))
  /\ parsed' = TRUE
  /\ UNCHANGED <<bytes, ck_a, ck_b>>

\* The message is complete.  Its numbers are copied one by one into members
\* that only this thread writes; of them the model keeps fix.
Accept(b) ==
  /\ step = 5
  /\ b = ck_b
  /\ step' = 0
  /\ fix' = HasFix(bytes)
  /\ parsed' = TRUE
  /\ UNCHANGED <<bytes, ck_a, ck_b>>

Reject(b) ==
  /\ step = 5
  /\ b # ck_b
  /\ step' = 0
  /\ UNCHANGED <<bytes, ck_a, ck_b, fix, parsed>>

ParseByte(b) ==
  /\ turn = "read"
  /\ \/ Preamble(b) \/ Payload(b) \/ ChecksumA(b) \/ Accept(b) \/ Reject(b)
  /\ UNCHANGED turnVars

\* The next byte of the message on the line.
NextByte == Messages[payload][pos + 1]
ReadByte ==
  /\ pos < FrameLen
  /\ ParseByte(NextByte)
  /\ pos' = pos + 1
  /\ UNCHANGED <<payload, faults>>

\* Between two messages: a byte of another one.
ReadNoise ==
  /\ pos = FrameLen
  /\ faults < MaxFaults
  /\ \E b \in Noises : ParseByte(b)
  /\ faults' = faults + 1
  /\ UNCHANGED <<payload, pos>>
-----------------------------------------------------------------------------
(* update() and the loop. *)

\* Mutant of GotMessage: the status is only ever improved.
GotMessageKeepsFix ==
  /\ turn = "read"
  /\ parsed
  /\ status' = IF fix THEN "GPS_OK" ELSE IF status = "NO_GPS" THEN "NO_FIX" ELSE status
  /\ idle' = 0
  /\ turn' = "sleep"
  /\ UNCHANGED <<lineVars, parserVars>>

\* read() has returned TRUE.  The listeners of signal_newdata are called and
\* new_data is FALSE again before the loop sleeps.
GotMessage ==
  /\ turn = "read"
  /\ parsed
  /\ status' = IF fix THEN "GPS_OK" ELSE "NO_FIX"
  /\ idle' = 0
  /\ turn' = "sleep"
  /\ UNCHANGED <<lineVars, parserVars>>

NoMessageYet ==
  /\ turn = "read"
  /\ ~parsed
  /\ idle <= IdleTimeout
  /\ turn' = "sleep"
  /\ UNCHANGED <<status, idle, lineVars, parserVars>>

\* Mutant of TimedOut: the timer is not looked at.
TimedOutNever ==
  /\ turn = "read"
  /\ ~parsed
  /\ idle > IdleTimeout
  /\ idle' = 0
  /\ turn' = "sleep"
  /\ UNCHANGED <<status, lineVars, parserVars>>

\* The receiver is configured again; the state of the parser stays.
TimedOut ==
  /\ turn = "read"
  /\ ~parsed
  /\ idle > IdleTimeout
  /\ status' = "NO_GPS"
  /\ idle' = 0
  /\ turn' = "sleep"
  /\ UNCHANGED <<lineVars, parserVars>>

\* read() begins.  More than IdleTimeout turns need not be told apart.
BeginTurn(passed) ==
  /\ turn = "sleep"
  /\ turn' = "read"
  /\ idle' = IF idle + passed > IdleTimeout THEN IdleTimeout + 1 ELSE idle + passed
  /\ parsed' = FALSE
  /\ UNCHANGED <<status, step, bytes, ck_a, ck_b, fix, lineVars>>

\* The sleep is over, in time or late.
WakeUp == \E passed \in {1, 2} : BeginTurn(passed)

\* The loop is behind its timer, which makes the sleep none at all.
CatchUp == BeginTurn(0)
-----------------------------------------------------------------------------
\* m_gps is a global object: what the constructors leave out is zero.  So is
\* millis() when update() first calls it.
Init ==
  /\ payload \in Payloads
  /\ pos \in 0 .. FrameLen
  /\ faults = 0
  /\ step = 0 /\ bytes = <<>> /\ ck_a = 0 /\ ck_b = 0
  /\ fix = FALSE /\ parsed = FALSE
  /\ status = "NO_GPS"
  /\ turn = "read"
  /\ idle = 0

Update == GotMessage \/ NoMessageYet \/ TimedOut

Next == SendMessage \/ Lose \/ ReadByte \/ ReadNoise \/ Update \/ WakeUp \/ CatchUp

Spec == Init /\ [][Next]_vars

\* The loop goes on, is not behind its timer for ever, and again and again it
\* reads what waits.  A receiver may fall silent for ever, and no fault need
\* happen.
FairSpec == Spec /\ WF_vars(Update) /\ SF_vars(WakeUp) /\ SF_vars(ReadByte)
-----------------------------------------------------------------------------
TypeOK ==
  /\ payload \in Payloads
  /\ pos \in 0 .. FrameLen
  /\ faults \in 0 .. MaxFaults
  /\ step \in 0 .. 5
  /\ bytes \in Seq(Byte)
  /\ Len(bytes) <= Length
  /\ step = 3 => Len(bytes) < Length
  /\ step > 3 => Len(bytes) = Length
  /\ ck_a \in Byte /\ ck_b \in Byte
  /\ fix \in BOOLEAN /\ parsed \in BOOLEAN
  /\ status \in {"NO_GPS", "NO_FIX", "GPS_OK"}
  /\ turn \in {"read", "sleep"}
  /\ idle \in 0 .. (IdleTimeout + 1)

\* The parser has collected the first n bytes of the payload on the line.
Collected(n) ==
  /\ Len(bytes) = n
  /\ \A i \in 1 .. n : bytes[i] = payload[i]
  /\ ck_a = CkA[payload][n]
  /\ ck_b = CkB[payload][n]

\* The parser stands where the receiver stands in its message, and its sums
\* are those of the bytes so far.
InStep ==
  \/ pos \in {0, FrameLen} /\ step \in 0 .. 2
  \/ pos = 1 /\ step = 1
  \/ pos = 2 /\ step = 2
  \/ pos \in 3 .. (Length + 2) /\ step = 3 /\ Collected(pos - 3)
  \/ pos = Length + 3 /\ step = 4 /\ Collected(Length)
  \/ pos = Length + 4 /\ step = 5 /\ Collected(Length)

\* "We reset the state machine and re-consider the failed byte as the first
\* byte of the preamble": whatever the parser has seen before a message, if it
\* is not inside of a payload by then it takes part in the message from its
\* first byte, and only a lost byte or a foreign D0 DD 20 takes it out of
\* step; neither a timeout in the middle nor the content of the payload does.
StepIsKept ==
  [][InStep /\ (faults' = faults \/ step' < 3) /\ ~Lose => InStep']_vars

\* A message that arrives in step is accepted with the payload sent.
WholeIsAccepted ==
  [][InStep /\ pos = FrameLen - 1 /\ ReadByte =>
       parsed' /\ bytes' = payload /\ fix' = HasFix(payload)]_vars

\* What is accepted out of step - from a D0 DD 20 within a payload, after
\* losses, or after foreign bytes - is a payload sent nevertheless.
AcceptsMessage ==
  \/ pos < FrameLen /\ ReadByte /\ Accept(NextByte)
  \/ ReadNoise /\ \E b \in Noises : Accept(b)
OnlyPayloads ==
  [][AcceptsMessage => bytes \in Payloads]_vars

\* Between two turns the status is that of the last message, or NO_GPS: of
\* several messages in one turn it is the last one that counts.
StatusMatchesFix ==
  turn = "sleep" /\ status # "NO_GPS" => (status = "GPS_OK" <=> fix)

\* When no more messages come the status does not go on promising a position.
SilenceIsNoticed ==
  <>[][~AcceptsMessage]_vars => <>[](status = "NO_GPS")

\* When the receiver goes on sending, the faults end, and the payloads do not
\* contain the preamble of a message, messages are accepted again and again.
Imitates(p) ==
  \E i \in 1 .. (Length - 2) : p[i] = PREAMBLE1 /\ p[i + 1] = PREAMBLE2 /\ p[i + 2] = Length
Recovers ==
  /\ []<><<SendMessage>>_vars
  /\ <>[][~(SendMessage /\ Imitates(payload'))]_vars
  => []<><<AcceptsMessage>>_vars
=============================================================================
