-------------------------- MODULE LogBufferProofs --------------------------
(***************************************************************************)
(* Theorems about LogBuffer, for every prescale, every threshold and any   *)
(* number of calls: its types, whatever the schedule, and, with the        *)
(* priorities in force, that nothing is lost, that the two buffers and     *)
(* their loop implement RecordLog, and that end() notifies no loop that is *)
(* about to wait.                                                          *)
(*                                                                         *)
(* While a record is appended nothing else moves then, so that the append  *)
(* finds the buffer it began with (WriterInv).  LoopInv says which buffer  *)
(* is active and which is empty at each place of the loop, CounterInv how  *)
(* the prescale counter follows the calls.                                 *)
(***************************************************************************)
EXTENDS LogBuffer, TLAPS, SequenceTheorems

LEMMA NoTorn == Torn \notin Record
BY LogAssumption DEF Record

LEMMA AppendType ==
  ASSUME NEW S, NEW s \in Seq(S), NEW e \in S PROVE Append(s, e) \in Seq(S)
OBVIOUS

LEMMA TextsToFile == ASSUME NEW s \in Texts PROVE s \in Seq(Record \cup {Torn})
BY SeqMonotonic DEF Texts

LEMMA LogInitType == Init => TypeOK
<1> SUFFICES ASSUME Init PROVE TypeOK
  OBVIOUS
<1>1. <<>> \in Texts /\ <<>> \in Seq(Record \cup {Torn})
  BY EmptySeq DEF Texts
<1>2. text \in [Buffers -> Texts] /\ active \in Buffers /\ target \in Buffers
  BY <1>1 DEF Init, Buffers
<1>3. writer \in WriterPlaces /\ loop \in LoopPlaces /\ main \in MainPlaces
  BY DEF Init, WriterPlaces, LoopPlaces, MainPlaces
<1>4. calls \in Record /\ counter \in 1 .. Prescale /\ buffer_no \in 0 .. 2
  BY LogAssumption DEF Init, Record
<1>5. thread_running \in BOOLEAN
  BY DEF Init
<1> QED BY <1>1, <1>2, <1>3, <1>4, <1>5 DEF Init, TypeOK

PlacesOK == writer \in WriterPlaces /\ loop \in LoopPlaces /\ main \in MainPlaces

LEMMA PlacesStep == PlacesOK /\ [Next]_vars => PlacesOK'
<1> SUFFICES ASSUME PlacesOK, [Next]_vars PROVE PlacesOK'
  OBVIOUS
<1> USE DEF PlacesOK, bufVars, writerVars, loopVars, mainVars
<1>1. CASE DataCounts \/ WriteBuffer
  <2>1. UNCHANGED main /\ loop' \in {loop, "swap"}
    BY <1>1 DEF DataCounts, WriteBuffer, Deref, Copy, Extend, Trigger, NotifyAll
  <2>2. writer' \in {"idle", "deref", "copy", "append", "trigger"}
    BY <1>1 DEF DataCounts, WriteBuffer, Deref, Copy, Extend, Trigger
  <2> QED BY <2>1, <2>2 DEF WriterPlaces, LoopPlaces
<1>2. CASE Loop \/ LoopSpurious
  <2>1. UNCHANGED <<writer, main>>
    BY <1>2 DEF Loop, LoopSpurious, LoopTest, LoopWait, LoopWakesAlone, LoopSwap, LoopFlush,
         LoopWritten, LoopClear
  <2>2. loop' \in {"wait", "exit", "waiting", "swap", "flush", "writing", "clear", "test"}
    BY <1>2 DEF Loop, LoopSpurious, LoopTest, LoopWait, LoopWakesAlone, LoopSwap, LoopFlush,
         LoopWritten, LoopClear
  <2> QED BY <2>1, <2>2 DEF LoopPlaces
<1>3. CASE Main
  <2>1. UNCHANGED writer /\ loop' \in {loop, "swap", "test"}
    BY <1>3 DEF Main, Begin, BeginFails, EndFlag, EndSteps, EndNotify, EndJoin, NotifyAll
  <2>2. main' \in {"begun", "flagged", "joining", "ended"}
    BY <1>3 DEF Main, Begin, BeginFails, EndFlag, EndSteps, EndNotify, EndJoin
  <2> QED BY <2>1, <2>2 DEF LoopPlaces, MainPlaces
<1>4. CASE UNCHANGED vars
  BY <1>4 DEF vars
<1> QED BY <1>1, <1>2, <1>3, <1>4 DEF Next

LEMMA WriterKeepsType == TypeOK /\ PlacesOK' /\ (DataCounts \/ WriteBuffer) => TypeOK'
<1> SUFFICES ASSUME TypeOK, PlacesOK', DataCounts \/ WriteBuffer PROVE TypeOK'
  OBVIOUS
<1> USE LogAssumption DEF TypeOK, PlacesOK, bufVars, writerVars, loopVars, mainVars
<1>1. CASE DataCounts
  BY <1>1 DEF DataCounts, Record
<1>2. CASE Deref
  BY <1>2 DEF Deref
<1>3. CASE Copy
  BY <1>3 DEF Copy
<1>4. CASE Extend
  <2>1. Append(before, calls) \in Texts
    BY AppendType DEF Texts
  <2> QED BY <1>4, <2>1 DEF Extend
<1>5. CASE Trigger
  BY <1>5 DEF Trigger, NotifyAll
<1> QED BY <1>1, <1>2, <1>3, <1>4, <1>5 DEF WriteBuffer

LEMMA WrittenType ==
  ASSUME file \in Seq(Record \cup {Torn}), out \in Texts, LoopWritten
  PROVE  file' \in Seq(Record \cup {Torn})
<1>1. PICK data \in {out} \cup (IF text[Flushed] # out THEN {<<Torn>>} ELSE {}) :
        file' = file \o data
  BY DEF LoopWritten
<1>2. data = out \/ data = <<Torn>>
  BY <1>1
<1>3. out \in Seq(Record \cup {Torn}) /\ <<Torn>> \in Seq(Record \cup {Torn})
  BY TextsToFile
<1>4. data \in Seq(Record \cup {Torn})
  BY <1>2, <1>3, Zenon
<1> QED BY <1>1, <1>4, ConcatProperties

LEMMA LoopKeepsType == TypeOK /\ PlacesOK' /\ (Loop \/ LoopSpurious) => TypeOK'
<1> SUFFICES ASSUME TypeOK, PlacesOK', Loop \/ LoopSpurious PROVE TypeOK'
  OBVIOUS
<1>0. Flushed \in Buffers /\ Other \in Buffers
  BY DEF Flushed, Other, Buffers
<1> USE LogAssumption DEF TypeOK, PlacesOK, bufVars, writerVars, loopVars, mainVars
<1>1. CASE LoopTest \/ LoopWait \/ LoopWakesAlone
  BY <1>1 DEF LoopTest, LoopWait, LoopWakesAlone
<1>2. CASE LoopSwap
  BY <1>0, <1>2 DEF LoopSwap
<1>3. CASE LoopFlush
  BY <1>0, <1>3 DEF LoopFlush
<1>4. CASE LoopWritten
  <2>3. file' \in Seq(Record \cup {Torn})
    BY <1>4, WrittenType DEF TypeOK
  <2> QED BY <1>4, <2>3 DEF LoopWritten
<1>5. CASE LoopClear
  <2>1. <<>> \in Texts
    BY EmptySeq DEF Texts
  <2>2. Other \in 0 .. 2
    BY <1>0 DEF Buffers
  <2> QED BY <1>0, <1>5, <2>1, <2>2 DEF LoopClear
<1> QED BY <1>1, <1>2, <1>3, <1>4, <1>5 DEF Loop, LoopSpurious

LEMMA MainKeepsType == TypeOK /\ PlacesOK' /\ Main => TypeOK'
<1> SUFFICES ASSUME TypeOK, PlacesOK', Main PROVE TypeOK'
  OBVIOUS
<1>0. [text EXCEPT ![active] = Append(@, Headline)] \in [Buffers -> Texts]
  <2>1. Headline \in Record /\ text[active] \in Texts
    BY LogAssumption DEF Headline, Record, TypeOK
  <2>2. Append(text[active], Headline) \in Texts
    BY <2>1, AppendType DEF Texts
  <2> QED BY <2>2 DEF TypeOK
<1>a. BeginFails => text' \in [Buffers -> Texts]
  <2>1. BeginFails => text' = text \/ text' = [text EXCEPT ![active] = Append(@, Headline)]
    BY DEF BeginFails
  <2>2. text \in [Buffers -> Texts]
    BY DEF TypeOK
  <2> QED BY <1>0, <2>1, <2>2, Zenon
<1>b. BeginFails \/ EndFlag => thread_running' \in BOOLEAN
  <2>1. thread_running \in BOOLEAN
    BY DEF TypeOK
  <2>2. BeginFails => thread_running' \in BOOLEAN
    BY <2>1, Zenon DEF BeginFails
  <2>3. EndFlag => thread_running' \in BOOLEAN
    BY Zenon DEF EndFlag
  <2> QED BY <2>2, <2>3, Zenon
<1> USE LogAssumption DEF TypeOK, PlacesOK, bufVars, writerVars, loopVars, mainVars
<1>1. CASE Begin
  BY <1>0, <1>1 DEF Begin
<1>2. CASE BeginFails
  <2>1. UNCHANGED <<active, loopVars, writerVars>>
    BY <1>2 DEF BeginFails
  <2> QED BY <1>a, <1>b, <1>2, <2>1
<1>3. CASE EndFlag
  <2>1. UNCHANGED <<bufVars, loopVars, writerVars>>
    BY <1>3 DEF EndFlag
  <2> QED BY <1>b, <1>3, <2>1
<1>4. CASE EndNotify
  BY <1>4 DEF EndNotify, NotifyAll
<1>5. CASE EndJoin
  BY <1>5 DEF EndJoin
<1> QED BY <1>1, <1>2, <1>3, <1>4, <1>5 DEF Main, EndSteps

LEMMA TypeStep == TypeOK /\ [Next]_vars => TypeOK'
<1>1. TypeOK /\ UNCHANGED vars => TypeOK'
  BY DEF TypeOK, vars, bufVars, writerVars, loopVars, mainVars
<1>2. TypeOK /\ [Next]_vars => PlacesOK'
  BY PlacesStep DEF TypeOK, PlacesOK
<1> QED BY <1>1, <1>2, WriterKeepsType, LoopKeepsType, MainKeepsType DEF Next

\* Logging.cpp:24-207: every variable keeps to its set; the counter never
\* passes zero and the loop is at a place of its own.
THEOREM LogTypeCorrect == Spec => []TypeOK
BY LogInitType, TypeStep, PTL DEF Spec
-----------------------------------------------------------------------------
(* Arithmetic of the prescale counter, and sequences. *)

LEMMA DivOf ==
  ASSUME NEW c, NEW q \in Nat, NEW r \in Nat, r < Prescale, c = q * Prescale + r
  PROVE  c \div Prescale = q
BY LogAssumption, SMTT(30)

LEMMA DivNat == ASSUME NEW c \in Nat PROVE c \div Prescale \in Nat
BY LogAssumption, SMTT(30)

\* The records of the first n calls that produce one.
Multiples(n) == [i \in 1 .. n |-> i * Prescale]

LEMMA OneMore ==
  ASSUME NEW n \in Nat
  PROVE  Multiples(n + 1) = Append(Multiples(n), (n + 1) * Prescale)
BY LogAssumption DEF Multiples

LEMMA MultiplesType == ASSUME NEW n \in Nat PROVE Multiples(n) \in Seq(Nat)
BY LogAssumption DEF Multiples

LEMMA AppendAtEnd ==
  ASSUME NEW S, NEW s \in Seq(S), NEW t \in Seq(S), NEW e \in S
  PROVE  s \o Append(t, e) = Append(s \o t, e)
<1>1. Append(t, e) = t \o <<e>> /\ Append(s \o t, e) = (s \o t) \o <<e>>
  BY AppendIsConcat, ConcatProperties
<1>2. <<e>> \in Seq(S)
  OBVIOUS
<1> QED BY <1>1, <1>2, ConcatAssociative
-----------------------------------------------------------------------------
(* The invariant, with the priorities in force. *)

LEMMA AppendedIs == Appended = Multiples(Done)
BY DEF Appended, Multiples

CounterInv ==
  /\ calls = (calls \div Prescale) * Prescale + (Prescale - counter)
  /\ writer # "idle" => counter = Prescale /\ calls > 0

WriterInv ==
  /\ writer \in {"copy", "append"} => target = active
  /\ writer = "append" => before = text[target]

LoopInv ==
  /\ loop \in {"flush", "writing", "clear"} => active = Other
  /\ loop \notin {"flush", "writing", "clear"} => active = Flushed /\ text[Other] = <<>>
  /\ loop = "writing" => out = text[Flushed]

NewInv ==
  main = "new" =>
    /\ writer = "idle" /\ calls = 0 /\ loop = "none"
    /\ file = <<>> /\ text[1] = <<>> /\ text[2] = <<>>

LogInv == TypeOK /\ CounterInv /\ WriterInv /\ LoopInv /\ NewInv /\ NothingLost

LEMMA FlushedOther ==
  ASSUME TypeOK
  PROVE  /\ Flushed \in Buffers /\ Other \in Buffers /\ Flushed # Other
         /\ \A b \in Buffers : b = Flushed \/ b = Other
BY DEF TypeOK, Flushed, Other, Buffers

LEMMA DoneNat == ASSUME TypeOK, CounterInv PROVE Done \in Nat
<1> DEFINE n == calls \div Prescale
<1>1. calls \in Nat /\ n \in Nat
  BY LogAssumption, DivNat DEF TypeOK, Record
<1>2. writer # "idle" => n # 0
  <2> SUFFICES ASSUME writer # "idle", n = 0 PROVE FALSE
    OBVIOUS
  <2>1. calls = n * Prescale /\ calls > 0
    BY <1>1, LogAssumption DEF CounterInv
  <2> QED BY <2>1, LogAssumption
<1> HIDE DEF n
<1> QED BY <1>1, <1>2 DEF Done, n

LEMMA LogInitInv == Init => LogInv
<1> SUFFICES ASSUME Init PROVE LogInv
  OBVIOUS
<1>1. TypeOK
  BY LogInitType
<1>2. 0 \div Prescale = 0
  BY DivOf, LogAssumption
<1>3. CounterInv /\ WriterInv
  BY <1>2, LogAssumption DEF Init, CounterInv, WriterInv
<1>4. LoopInv /\ NewInv
  BY DEF Init, LoopInv, NewInv, Flushed, Other, Buffers
<1>5. Appended = <<>>
  <2>1. Done = 0
    BY <1>2 DEF Done, Init
  <2> QED BY <2>1, AppendedIs DEF Multiples
<1>6. OnRecord = <<>>
  BY DEF OnRecord, Init, Flushed, Other, Buffers
<1> QED BY <1>1, <1>3, <1>4, <1>5, <1>6 DEF LogInv, NothingLost, Init
-----------------------------------------------------------------------------
(* The calls of data(). *)

LEMMA CounterStep == TypeOK /\ CounterInv /\ [Next]_vars => CounterInv'
<1> SUFFICES ASSUME TypeOK, CounterInv, [Next]_vars PROVE CounterInv'
  OBVIOUS
<1>1. CASE DataCounts
  <2> DEFINE n == calls \div Prescale
  <2>1. calls \in Nat /\ n \in Nat /\ counter \in 1 .. Prescale
    BY LogAssumption, DivNat DEF TypeOK, Record
  <2>2. calls = n * Prescale + (Prescale - counter) /\ calls' = calls + 1
    BY <1>1 DEF CounterInv, DataCounts
  <2> HIDE DEF n
  <2>3. CASE counter = 1
    <3>1. calls' = (n + 1) * Prescale + 0
      BY <2>1, <2>2, <2>3, LogAssumption
    <3>2. calls' \div Prescale = n + 1
      BY <2>1, <3>1, DivOf, LogAssumption
    <3>3. counter' = Prescale
      BY <1>1, <2>3 DEF DataCounts
    <3> QED BY <2>1, <2>2, <3>1, <3>2, <3>3, LogAssumption DEF CounterInv
  <2>4. CASE counter # 1
    <3>1. calls' = n * Prescale + (Prescale - (counter - 1))
      BY <2>1, <2>2, <2>4, LogAssumption
    <3>2. calls' \div Prescale = n
      BY <2>1, <2>4, <3>1, DivOf, LogAssumption
    <3>3. counter' = counter - 1 /\ writer' = "idle"
      BY <1>1, <2>4 DEF DataCounts
    <3> QED BY <3>1, <3>2, <3>3 DEF CounterInv
  <2> QED BY <2>3, <2>4
<1>2. CASE WriteBuffer
  <2>1. UNCHANGED <<calls, counter>> /\ writer # "idle"
    BY <1>2 DEF WriteBuffer, Deref, Copy, Extend, Trigger
  <2> QED BY <2>1 DEF CounterInv
<1>3. CASE Loop \/ LoopSpurious \/ Main \/ UNCHANGED vars
  <2>1. UNCHANGED <<calls, counter, writer>>
    BY <1>3 DEF Loop, LoopSpurious, LoopTest, LoopWait, LoopWakesAlone, LoopSwap, LoopFlush,
         LoopWritten, LoopClear, Main, Begin, BeginFails, EndFlag, EndSteps, EndNotify, EndJoin,
         vars, writerVars
  <2> QED BY <2>1 DEF CounterInv
<1> QED BY <1>1, <1>2, <1>3 DEF Next
-----------------------------------------------------------------------------
(* Which buffer is whose. *)

LEMMA Priorities ==
  ASSUME RealTime, Loop \/ LoopSpurious \/ Main
  PROVE  writer = "idle" /\ UNCHANGED <<writer, calls>>
BY DEF Loop, LoopSpurious, LoopMayRun, LoopTest, LoopWait, LoopWakesAlone, LoopSwap, LoopFlush,
  LoopWritten, LoopClear, Main, MainMayRun, Begin, BeginFails, EndFlag, EndSteps, EndNotify,
  EndJoin, writerVars

\* Flushed and Other are those of buffer_no, which only LoopClear sets.
LEMMA SameFlushed == UNCHANGED buffer_no => Flushed' = Flushed /\ Other' = Other
BY DEF Flushed, Other

LEMMA WriterStep == TypeOK /\ WriterInv /\ RealTime /\ [Next]_vars => WriterInv'
<1> SUFFICES ASSUME TypeOK, WriterInv, RealTime, [Next]_vars PROVE WriterInv'
  OBVIOUS
<1>1. CASE DataCounts \/ Deref \/ Copy
  BY <1>1 DEF DataCounts, Deref, Copy, bufVars, WriterInv
<1>2. CASE Extend \/ Trigger
  BY <1>2 DEF Extend, Trigger, WriterInv
<1>3. CASE Loop \/ LoopSpurious \/ Main
  BY <1>3, Priorities DEF WriterInv
<1>4. CASE UNCHANGED vars
  BY <1>4 DEF vars, writerVars, bufVars, WriterInv
<1> QED BY <1>1, <1>2, <1>3, <1>4 DEF Next, WriteBuffer

LEMMA LoopStep ==
  TypeOK /\ WriterInv /\ LoopInv /\ NewInv /\ RealTime /\ [Next]_vars => LoopInv'
<1> SUFFICES ASSUME TypeOK, WriterInv, LoopInv, NewInv, RealTime, [Next]_vars PROVE LoopInv'
  OBVIOUS
<1>0. /\ Flushed \in Buffers /\ Other \in Buffers /\ Flushed # Other
      /\ text \in [Buffers -> Texts]
  BY FlushedOther DEF TypeOK
<1>1. CASE DataCounts \/ Deref \/ Copy \/ UNCHANGED vars
  <2>1. UNCHANGED <<bufVars, loopVars>>
    BY <1>1 DEF DataCounts, Deref, Copy, vars
  <2> QED BY <2>1, SameFlushed DEF bufVars, loopVars, LoopInv
<1>2. CASE Extend
  <2>1. target = active /\ text' = [text EXCEPT ![target] = Append(before, calls)]
        /\ UNCHANGED <<active, loop, out, buffer_no>>
    BY <1>2 DEF Extend, WriterInv, loopVars
  <2>2. \A b \in Buffers : b # active => text'[b] = text[b]
    BY <1>0, <2>1
  <2> QED BY <1>0, <2>1, <2>2, SameFlushed DEF LoopInv
<1>3. CASE Trigger \/ LoopTest \/ LoopWait \/ LoopWakesAlone \/ EndFlag \/ EndSteps
  <2>1. UNCHANGED <<text, active, out, buffer_no>>
    BY <1>3 DEF Trigger, LoopTest, LoopWait, LoopWakesAlone, EndFlag, EndSteps, EndNotify, EndJoin,
         bufVars, loopVars
  <2>2. \/ loop' = loop
        \/ /\ loop \notin {"flush", "writing", "clear"}
           /\ loop' \notin {"flush", "writing", "clear"}
    BY <1>3 DEF Trigger, NotifyAll, LoopTest, LoopWait, LoopWakesAlone, EndFlag, EndSteps,
         EndNotify, EndJoin, loopVars
  <2> QED BY <2>1, <2>2, SameFlushed DEF LoopInv
<1>4. CASE LoopSwap \/ LoopFlush \/ LoopWritten
  <2>1. UNCHANGED <<text, buffer_no>>
    BY <1>4 DEF LoopSwap, LoopFlush, LoopWritten, bufVars
  <2>2. active' = Other /\ loop' \in {"flush", "writing", "clear"}
    BY <1>4 DEF LoopSwap, LoopFlush, LoopWritten, bufVars, LoopInv
  <2>3. loop' = "writing" => out' = text[Flushed]
    BY <1>4 DEF LoopSwap, LoopFlush, LoopWritten
  <2> QED BY <2>1, <2>2, <2>3, SameFlushed DEF LoopInv
<1>5. CASE LoopClear
  <2>1. active' = Other /\ text'[Flushed] = <<>> /\ buffer_no' = Other /\ loop' = "test"
    BY <1>0, <1>5 DEF LoopClear, LoopInv
  <2>2. Flushed' = Other /\ Other' = Flushed
    BY <1>0, <2>1 DEF Flushed, Other, Buffers
  <2> QED BY <2>1, <2>2 DEF LoopInv
<1>6. CASE Begin \/ BeginFails
  <2>1. loop = "none" /\ active = Flushed /\ text[Other] = <<>>
    BY <1>6 DEF Begin, BeginFails, NewInv, LoopInv
  <2>2. text'[Other] = text[Other]
    BY <1>0, <1>6, <2>1 DEF Begin, BeginFails
  <2>3. UNCHANGED <<active, buffer_no>> /\ loop' \in {"none", "test"}
    BY <1>6, <2>1 DEF Begin, BeginFails, loopVars
  <2> QED BY <2>1, <2>2, <2>3, SameFlushed DEF LoopInv
<1> QED BY <1>1, <1>2, <1>3, <1>4, <1>5, <1>6 DEF Next, WriteBuffer, Loop, LoopSpurious, Main

LEMMA NewStep == TypeOK /\ NewInv /\ [Next]_vars => NewInv'
<1> SUFFICES ASSUME TypeOK, NewInv, [Next]_vars PROVE NewInv'
  OBVIOUS
<1>1. CASE DataCounts
  <2>1. main' # "new"
    BY <1>1 DEF DataCounts, mainVars
  <2> QED BY <2>1 DEF NewInv
<1>2. CASE WriteBuffer
  <2>1. main' = main /\ writer # "idle"
    BY <1>2 DEF WriteBuffer, Deref, Copy, Extend, Trigger, mainVars
  <2> QED BY <2>1 DEF NewInv
<1>3. CASE Loop \/ LoopSpurious
  <2>1. main' = main /\ loop # "none"
    BY <1>3 DEF Loop, LoopSpurious, LoopTest, LoopWait, LoopWakesAlone, LoopSwap, LoopFlush,
         LoopWritten, LoopClear, mainVars
  <2> QED BY <2>1 DEF NewInv
<1>4. CASE Main
  <2>1. main' # "new"
    BY <1>4 DEF Main, Begin, BeginFails, EndFlag, EndSteps, EndNotify, EndJoin
  <2> QED BY <2>1 DEF NewInv
<1>5. CASE UNCHANGED vars
  BY <1>5 DEF vars, bufVars, writerVars, loopVars, mainVars, NewInv
<1> QED BY <1>1, <1>2, <1>3, <1>4, <1>5 DEF Next
-----------------------------------------------------------------------------
(* The records, in their order. *)

Waiting == IF loop = "clear" THEN <<>> ELSE text[Flushed]

LEMMA OnRecordIs == OnRecord = (file \o Waiting) \o text[Other]
BY DEF OnRecord, Waiting

RecordsType == Seq(Record \cup {Torn})

LEMMA PartsType ==
  ASSUME TypeOK
  PROVE  /\ file \in RecordsType /\ Waiting \in RecordsType
         /\ text[Flushed] \in RecordsType /\ text[Other] \in RecordsType
         /\ file \o Waiting \in RecordsType
<1>1. Flushed \in Buffers /\ Other \in Buffers
  BY FlushedOther
<1>2. text[Flushed] \in RecordsType /\ text[Other] \in RecordsType
  BY <1>1, TextsToFile DEF TypeOK, RecordsType
<1>3. file \in RecordsType /\ Waiting \in RecordsType
  BY <1>2, EmptySeq DEF TypeOK, RecordsType, Waiting
<1> QED BY <1>2, <1>3, ConcatProperties DEF RecordsType

\* Nothing is appended, and nothing is lost.
LEMMA SameRecords ==
  ASSUME NothingLost, OnRecord' = OnRecord, Done' = Done, loop = "none" => loop' = "none"
  PROVE  NothingLost'
<1>1. Appended' = Appended
  BY AppendedIs DEF Multiples, Appended
<1> QED BY <1>1 DEF NothingLost

LEMMA SameDone ==
  UNCHANGED calls /\ (writer' \in {"deref", "copy", "append"} <=> writer \in {"deref", "copy", "append"})
    => Done' = Done
BY DEF Done

LEMMA ExtendAppends ==
  ASSUME TypeOK, WriterInv, LoopInv, Extend PROVE OnRecord' = Append(OnRecord, calls)
<1>0. /\ Flushed \in Buffers /\ Other \in Buffers /\ Flushed # Other
      /\ text \in [Buffers -> Texts]
  BY FlushedOther DEF TypeOK
<1>1. calls \in Record \cup {Torn}
  BY DEF TypeOK
<1>2. target = active /\ before = text[target] /\ text' = [text EXCEPT ![target] = Append(before, calls)]
  BY DEF Extend, WriterInv
<1>3. UNCHANGED <<active, loop, file, buffer_no>> /\ Flushed' = Flushed /\ Other' = Other
  BY SameFlushed DEF Extend, loopVars
<1>4. CASE loop \in {"flush", "writing", "clear"}
  <2>1. active = Other
    BY <1>4 DEF LoopInv
  <2>2. text'[Other] = Append(text[Other], calls) /\ text'[Flushed] = text[Flushed]
    BY <1>0, <1>2, <2>1
  <2>3. Waiting' = Waiting
    BY <1>3, <2>2 DEF Waiting
  <2>4. OnRecord' = (file \o Waiting) \o Append(text[Other], calls)
    BY <1>3, <2>2, <2>3 DEF OnRecord, Waiting
  <2>5. (file \o Waiting) \o Append(text[Other], calls)
          = Append((file \o Waiting) \o text[Other], calls)
    <3>1. file \o Waiting \in RecordsType /\ text[Other] \in RecordsType
      BY PartsType
    <3> DEFINE S == Record \cup {Torn}
               earlier == file \o Waiting
    <3>2. earlier \in Seq(S) /\ text[Other] \in Seq(S) /\ calls \in S
      BY <1>1, <3>1 DEF RecordsType
    <3> HIDE DEF S, earlier
    <3>3. earlier \o Append(text[Other], calls) = Append(earlier \o text[Other], calls)
      BY <3>2, AppendAtEnd
    <3> QED BY <3>3 DEF earlier
  <2> QED BY <2>4, <2>5, OnRecordIs
<1>5. CASE loop \notin {"flush", "writing", "clear"}
  <2>1. active = Flushed /\ text[Other] = <<>>
    BY <1>5 DEF LoopInv
  <2>2. text'[Flushed] = Append(text[Flushed], calls) /\ text'[Other] = <<>>
    BY <1>0, <1>2, <2>1
  <2>3. OnRecord = (file \o text[Flushed]) \o <<>>
    BY <1>5, <2>1 DEF OnRecord
  <2>4. OnRecord' = (file \o Append(text[Flushed], calls)) \o <<>>
    BY <1>3, <1>5, <2>2 DEF OnRecord
  <2>5. file \o Append(text[Flushed], calls) = Append(file \o text[Flushed], calls)
    BY <1>1, PartsType, AppendAtEnd DEF RecordsType
  <2>6. file \o text[Flushed] \in RecordsType
    BY PartsType, ConcatProperties DEF RecordsType
  <2>7. Append(file \o text[Flushed], calls) \in RecordsType
    BY <1>1, <2>6, AppendProperties DEF RecordsType
  <2> QED BY <2>3, <2>4, <2>5, <2>6, <2>7, ConcatEmptySeq DEF RecordsType
<1> QED BY <1>4, <1>5

LEMMA ExtendKeeps ==
  ASSUME TypeOK, CounterInv, WriterInv, LoopInv, NothingLost, Extend PROVE NothingLost'
<1> DEFINE n == calls \div Prescale
<1>1. calls \in Nat /\ n \in Nat
  BY LogAssumption, DivNat DEF TypeOK, Record
<1>2. Done = n - 1 /\ Done \in Nat
  BY DoneNat DEF Done, Extend
<1>3. calls = n * Prescale
  BY <1>1, LogAssumption DEF CounterInv, Extend
<1>4. Done' = n
  BY DEF Done, Extend
<1> HIDE DEF n
<1>5. Appended' = Append(Appended, calls)
  <2>1. Multiples(n) = Append(Multiples(Done), calls)
    <3>1. n = Done + 1
      BY <1>1, <1>2
    <3> QED BY <1>2, <1>3, <3>1, OneMore
  <2>2. Appended' = Multiples(Done')
    BY DEF Appended, Multiples
  <2> QED BY <1>4, <2>1, <2>2, AppendedIs
<1>6. <<Headline>> \o Appended' = Append(<<Headline>> \o Appended, calls)
  <2>1. <<Headline>> \in Seq(Nat) /\ Appended \in Seq(Nat)
    BY <1>2, AppendedIs, MultiplesType DEF Headline
  <2> QED BY <1>1, <1>5, <2>1, AppendAtEnd
<1>7. loop' = loop
  BY DEF Extend, loopVars
<1> QED BY <1>5, <1>6, <1>7, ExtendAppends DEF NothingLost

LEMMA LoopKeeps ==
  ASSUME TypeOK, LoopInv, NothingLost, RealTime, Loop \/ LoopSpurious PROVE NothingLost'
<1>0. /\ Flushed \in Buffers /\ Other \in Buffers /\ Flushed # Other
      /\ text \in [Buffers -> Texts]
  BY FlushedOther DEF TypeOK
<1>1. Done' = Done
  BY Priorities, SameDone
<1>2. loop # "none"
  BY DEF Loop, LoopSpurious, LoopTest, LoopWait, LoopWakesAlone, LoopSwap, LoopFlush, LoopWritten,
    LoopClear
<1>3. CASE LoopTest \/ LoopWait \/ LoopWakesAlone \/ LoopSwap \/ LoopFlush
  <2>1. UNCHANGED <<text, file, buffer_no>>
    BY <1>3 DEF LoopTest, LoopWait, LoopWakesAlone, LoopSwap, LoopFlush, bufVars
  <2>2. loop # "clear" /\ loop' # "clear"
    BY <1>3 DEF LoopTest, LoopWait, LoopWakesAlone, LoopSwap, LoopFlush
  <2>3. OnRecord' = OnRecord
    BY <2>1, <2>2, SameFlushed DEF OnRecord
  <2> QED BY <1>1, <1>2, <2>3, SameRecords
<1>4. CASE LoopWritten
  <2>1. /\ UNCHANGED <<text, buffer_no>> /\ loop = "writing" /\ loop' = "clear"
        /\ \E data \in {out} \cup (IF text[Flushed] # out THEN {<<Torn>>} ELSE {}) :
             file' = file \o data
    BY <1>4 DEF LoopWritten, bufVars
  <2>2. out = text[Flushed]
    BY <2>1 DEF LoopInv
  <2>3. file' = file \o text[Flushed]
    BY <2>1, <2>2
  <2>4. OnRecord' = ((file \o text[Flushed]) \o <<>>) \o text[Other]
    BY <2>1, <2>3, SameFlushed DEF OnRecord
  <2>5. (file \o text[Flushed]) \o <<>> = file \o text[Flushed]
    BY PartsType, ConcatProperties, ConcatEmptySeq DEF RecordsType
  <2>6. OnRecord = (file \o text[Flushed]) \o text[Other]
    BY <2>1 DEF OnRecord
  <2> QED BY <1>1, <1>2, <2>4, <2>5, <2>6, SameRecords
<1>5. CASE LoopClear
  <2>1. /\ text'[Flushed] = <<>> /\ text'[Other] = text[Other]
        /\ loop = "clear" /\ loop' = "test" /\ file' = file /\ buffer_no' = Other
    BY <1>0, <1>5 DEF LoopClear
  <2>2. Flushed' = Other /\ Other' = Flushed
    BY <1>0, <2>1 DEF Flushed, Other, Buffers
  <2>3. OnRecord' = (file \o text[Other]) \o <<>>
    BY <2>1, <2>2 DEF OnRecord
  <2>4. OnRecord = (file \o <<>>) \o text[Other]
    BY <2>1 DEF OnRecord
  <2>5. file \o text[Other] \in RecordsType
    BY PartsType, ConcatProperties DEF RecordsType
  <2>6. file \o <<>> = file /\ (file \o text[Other]) \o <<>> = file \o text[Other]
    BY <2>5, PartsType, ConcatEmptySeq DEF RecordsType
  <2> QED BY <1>1, <1>2, <2>3, <2>4, <2>6, SameRecords
<1> QED BY <1>3, <1>4, <1>5 DEF Loop, LoopSpurious

LEMMA MainKeeps ==
  ASSUME TypeOK, LoopInv, NewInv, NothingLost, RealTime, Main PROVE NothingLost'
<1>1. Done' = Done /\ writer = "idle"
  BY Priorities, SameDone
<1>2. CASE EndFlag \/ EndSteps
  <2>1. UNCHANGED <<text, file, buffer_no>>
    BY <1>2 DEF EndFlag, EndSteps, EndNotify, EndJoin, bufVars, loopVars
  <2>2. loop' = loop \/ (loop = "waiting" /\ loop' = "swap")
    <3>1. loop' = loop \/ NotifyAll
      BY <1>2 DEF EndFlag, EndSteps, EndNotify, EndJoin, loopVars
    <3> QED BY <3>1 DEF NotifyAll
  <2>3. OnRecord' = OnRecord
    BY <2>1, <2>2, SameFlushed DEF OnRecord
  <2> QED BY <1>1, <2>2, <2>3, SameRecords
<1>3. CASE Begin \/ BeginFails
  <2>0. main = "new" /\ text \in [Buffers -> Texts] /\ active \in Buffers
    BY <1>3 DEF Begin, BeginFails, TypeOK
  <2>1. /\ file = <<>> /\ text[1] = <<>> /\ text[2] = <<>> /\ calls = 0
    BY <2>0 DEF NewInv
  <2>2. Appended' = <<>>
    <3>1. 0 \div Prescale = 0
      BY DivOf, LogAssumption
    <3>2. Done' = 0
      BY <1>1, <2>1, <3>1 DEF Done
    <3> QED BY <3>2 DEF Appended, Multiples
  <2>3. active = Flushed /\ loop = "none" /\ Flushed \in Buffers /\ Other \in Buffers
        /\ Flushed # Other
    BY <2>0, FlushedOther DEF LoopInv, NewInv
  <2>4. text[Flushed] = <<>> /\ text[Other] = <<>>
    BY <2>1, <2>3 DEF Buffers
  <2>5. UNCHANGED <<file, buffer_no>> /\ Flushed' = Flushed /\ Other' = Other
    BY <1>3, SameFlushed DEF Begin, BeginFails, loopVars
  <2>6. text'[Other] = <<>> /\ text'[Flushed] \in {<<>>, <<Headline>>}
    BY <1>3, <2>0, <2>3, <2>4 DEF Begin, BeginFails
  <2>7. loop' \in {"none", "test"} /\ (loop' # "none" => text'[Flushed] = <<Headline>>)
    <3>1. CASE Begin
      BY <3>1, <2>0, <2>3, <2>4 DEF Begin
    <3>2. CASE BeginFails
      BY <3>2, <2>3 DEF BeginFails, loopVars
    <3> QED BY <1>3, <3>1, <3>2
  <2>8. OnRecord' = text'[Flushed]
    BY <2>1, <2>5, <2>6, <2>7 DEF OnRecord
  <2> QED BY <2>2, <2>6, <2>7, <2>8 DEF NothingLost
<1> QED BY <1>2, <1>3 DEF Main

\* A call of data() appends nothing yet.
LEMMA CallKeepsDone ==
  ASSUME TypeOK, CounterInv, DataCounts PROVE Done' = Done
<1> DEFINE n == calls \div Prescale
<1>1. calls \in Nat /\ n \in Nat /\ counter \in 1 .. Prescale
  BY LogAssumption, DivNat DEF TypeOK, Record
<1>2. /\ calls = n * Prescale + (Prescale - counter) /\ calls' = calls + 1
      /\ writer = "idle"
  BY DEF CounterInv, DataCounts
<1>3. Done = n
  BY <1>2 DEF Done
<1> HIDE DEF n
<1>4. CASE counter = 1
  <2>1. calls' = (n + 1) * Prescale + 0
    BY <1>1, <1>2, <1>4, LogAssumption
  <2>2. calls' \div Prescale = n + 1
    BY <1>1, <2>1, DivOf, LogAssumption
  <2>3. writer' = "deref"
    BY <1>4 DEF DataCounts
  <2> QED BY <1>1, <1>3, <2>2, <2>3 DEF Done
<1>5. CASE counter # 1
  <2>1. calls' = n * Prescale + (Prescale - (counter - 1))
    BY <1>1, <1>2, <1>5, LogAssumption
  <2>2. calls' \div Prescale = n
    BY <1>1, <1>5, <2>1, DivOf, LogAssumption
  <2>3. writer' = "idle"
    BY <1>5 DEF DataCounts
  <2> QED BY <1>3, <2>2, <2>3 DEF Done
<1> QED BY <1>4, <1>5

LEMMA LostStep ==
  ASSUME TypeOK, CounterInv, WriterInv, LoopInv, NewInv, NothingLost, RealTime, [Next]_vars
  PROVE  NothingLost'
<1>1. CASE DataCounts
  <2>1. OnRecord' = OnRecord /\ loop' = loop
    BY <1>1, SameFlushed DEF DataCounts, bufVars, loopVars, OnRecord
  <2>2. Done' = Done
    BY <1>1, CallKeepsDone
  <2> QED BY <2>1, <2>2, SameRecords
<1>2. CASE Deref \/ Copy \/ Trigger
  <2>1. UNCHANGED <<text, file, buffer_no, calls>>
    BY <1>2 DEF Deref, Copy, Trigger, bufVars, loopVars
  <2>2. loop' = loop \/ (loop = "waiting" /\ loop' = "swap")
    <3>1. loop' = loop \/ NotifyAll
      BY <1>2 DEF Deref, Copy, Trigger, loopVars
    <3> QED BY <3>1 DEF NotifyAll
  <2>3. OnRecord' = OnRecord
    BY <2>1, <2>2, SameFlushed DEF OnRecord
  <2>4. Done' = Done
    BY <1>2, <2>1, SameDone DEF Deref, Copy, Trigger
  <2> QED BY <2>2, <2>3, <2>4, SameRecords
<1>3. CASE UNCHANGED vars
  <2>1. OnRecord' = OnRecord /\ loop' = loop
    BY <1>3, SameFlushed DEF vars, bufVars, loopVars, OnRecord
  <2>2. Done' = Done
    BY <1>3 DEF vars, writerVars, Done
  <2> QED BY <2>1, <2>2, SameRecords
<1> QED BY <1>1, <1>2, <1>3, ExtendKeeps, LoopKeeps, MainKeeps DEF Next, WriteBuffer

LEMMA LogStep == RealTime /\ LogInv /\ [Next]_vars => LogInv'
BY TypeStep, CounterStep, WriterStep, LoopStep, NewStep, LostStep DEF LogInv

LEMMA LogInvariant == ASSUME RealTime PROVE Spec => []LogInv
BY LogInitInv, LogStep, PTL DEF Spec

\* Logging.cpp:134-207: with the priorities in force no record is lost,
\* doubled, torn or moved, whatever the prescale and the length of the buffers.
THEOREM RecordsAreKept == ASSUME RealTime PROVE Spec => []NothingLost
<1>1. LogInv => NothingLost
  BY DEF LogInv
<1> QED BY LogInvariant, <1>1, PTL
-----------------------------------------------------------------------------
(* The two buffers implement the queue and the file of RecordLog. *)

\* end() has joined the loop before it closes the file.
JoinInv == main = "ended" => loop \in {"none", "exit"}

LEMMA JoinStep == JoinInv /\ [Next]_vars => JoinInv'
<1> SUFFICES ASSUME JoinInv, [Next]_vars PROVE JoinInv'
  OBVIOUS
<1>1. CASE DataCounts \/ WriteBuffer \/ UNCHANGED vars
  BY <1>1 DEF DataCounts, WriteBuffer, Deref, Copy, Extend, Trigger, NotifyAll, vars, loopVars,
    mainVars, JoinInv
<1>2. CASE Loop \/ LoopSpurious
  BY <1>2 DEF Loop, LoopSpurious, LoopTest, LoopWait, LoopWakesAlone, LoopSwap, LoopFlush,
    LoopWritten, LoopClear, mainVars, JoinInv
<1>3. CASE Main
  BY <1>3 DEF Main, Begin, BeginFails, EndFlag, EndSteps, EndNotify, EndJoin, loopVars, JoinInv
<1> QED BY <1>1, <1>2, <1>3 DEF Next

LEMMA PendingIs == Pending = Waiting \o text[Other]
BY DEF Pending, Waiting

\* Each part of the queue can be split off it again.
LEMMA SplitConcat ==
  ASSUME NEW S, NEW s \in Seq(S), NEW t \in Seq(S)
  PROVE  /\ Len(s) \in Nat /\ Len(s) <= Len(s \o t)
         /\ SubSeq(s \o t, 1, Len(s)) = s
         /\ SubSeq(s \o t, Len(s) + 1, Len(s \o t)) = t
OBVIOUS

LEMMA LogRefinesInit == Init => Log!Init
<1> SUFFICES ASSUME Init PROVE Log!Init
  OBVIOUS
<1>1. Pending = <<>>
  BY DEF Pending, Init, Flushed, Other, Buffers
<1>2. Done * Prescale = 0
  <2>1. 0 \div Prescale = 0
    BY DivOf, LogAssumption
  <2>2. Done = 0
    BY <2>1 DEF Done, Init
  <2> QED BY <2>2, LogAssumption
<1> QED BY <1>1, <1>2 DEF Init, Log!Init, FileState

\* What RecordLog sees of a step that neither appends nor writes.
LEMMA LogStutters ==
  ASSUME Pending' = Pending, Done' = Done, UNCHANGED file, FileState' = FileState
  PROVE  UNCHANGED Log!logVars
BY DEF Log!logVars

LEMMA SamePlaces ==
  ASSUME UNCHANGED main, loop' = loop \/ (loop # "none" /\ loop' # "none")
  PROVE  FileState' = FileState
BY DEF FileState

\* A record goes to the end of the queue, whichever buffer is active.
LEMMA ExtendQueues ==
  ASSUME TypeOK, WriterInv, LoopInv, Extend PROVE Pending' = Append(Pending, calls)
<1>0. /\ Flushed \in Buffers /\ Other \in Buffers /\ Flushed # Other
      /\ text \in [Buffers -> Texts]
  BY FlushedOther DEF TypeOK
<1>1. calls \in Record \cup {Torn}
  BY DEF TypeOK
<1>2. target = active /\ before = text[target]
      /\ text' = [text EXCEPT ![target] = Append(before, calls)]
  BY DEF Extend, WriterInv
<1>3. UNCHANGED <<active, loop, buffer_no>> /\ Flushed' = Flushed /\ Other' = Other
  BY SameFlushed DEF Extend, loopVars
<1>4. CASE loop \in {"flush", "writing", "clear"}
  <2>1. active = Other
    BY <1>4 DEF LoopInv
  <2>2. text'[Other] = Append(text[Other], calls) /\ text'[Flushed] = text[Flushed]
    BY <1>0, <1>2, <2>1
  <2>3. Pending' = Waiting \o Append(text[Other], calls)
    BY <1>3, <2>2 DEF Pending, Waiting
  <2>4. Waiting \o Append(text[Other], calls) = Append(Waiting \o text[Other], calls)
    BY <1>1, PartsType, AppendAtEnd DEF RecordsType
  <2> QED BY <2>3, <2>4, PendingIs
<1>5. CASE loop \notin {"flush", "writing", "clear"}
  <2>1. active = Flushed /\ text[Other] = <<>>
    BY <1>5 DEF LoopInv
  <2>2. text'[Flushed] = Append(text[Flushed], calls) /\ text'[Other] = <<>>
    BY <1>0, <1>2, <2>1
  <2>3. Pending = text[Flushed] \o <<>> /\ Pending' = Append(text[Flushed], calls) \o <<>>
    BY <1>3, <1>5, <2>1, <2>2 DEF Pending
  <2>4. Append(text[Flushed], calls) \in RecordsType
    BY <1>1, PartsType, AppendProperties DEF RecordsType
  <2> QED BY <2>3, <2>4, PartsType, ConcatEmptySeq DEF RecordsType
<1> QED BY <1>4, <1>5

LEMMA ExtendIsKeep == ASSUME LogInv, Extend PROVE Log!Keep
<1> USE DEF LogInv
<1>1. Pending' = Append(Pending, calls)
  BY ExtendQueues
<1> DEFINE n == calls \div Prescale
<1>2. calls \in Nat /\ n \in Nat
  BY LogAssumption, DivNat DEF TypeOK, Record
<1>3. Done = n - 1 /\ Done' = n
  BY DEF Done, Extend
<1>4. calls = n * Prescale
  BY <1>2, LogAssumption DEF CounterInv, Extend
<1> HIDE DEF n
<1>5. calls = Done' * Prescale /\ Done' * Prescale = Done * Prescale + Prescale
  <2>1. \A m \in Nat : m * Prescale = (m - 1) * Prescale + Prescale
    BY LogAssumption
  <2> QED BY <1>2, <1>3, <1>4, <2>1
<1>6. FileState # "new" /\ FileState' = FileState
  <2>1. main # "new" /\ UNCHANGED <<main, loop>>
    BY DEF Extend, NewInv, mainVars, loopVars
  <2> QED BY <2>1 DEF FileState
<1>7. UNCHANGED file
  BY DEF Extend, loopVars
<1> QED BY <1>1, <1>5, <1>6, <1>7 DEF Log!Keep

\* The queue is taken from the front; the loop may find it empty.
LEMMA WrittenIsWrite ==
  ASSUME LogInv, JoinInv, LoopWritten PROVE [Log!Next]_(Log!logVars)
<1> USE DEF LogInv
<1>1. /\ UNCHANGED <<text, buffer_no, calls, writer, main>>
      /\ loop = "writing" /\ loop' = "clear"
      /\ \E data \in {out} \cup (IF text[Flushed] # out THEN {<<Torn>>} ELSE {}) :
           file' = file \o data
  BY DEF LoopWritten, bufVars, writerVars, mainVars
<1>2. out = text[Flushed]
  BY <1>1 DEF LoopInv
<1>3. file' = file \o text[Flushed]
  BY <1>1, <1>2
<1>4. Pending = text[Flushed] \o text[Other] /\ Pending' = <<>> \o text[Other]
  BY <1>1, SameFlushed DEF Pending
<1>5. <<>> \o text[Other] = text[Other]
  BY PartsType, ConcatEmptySeq DEF RecordsType
<1>6. Done' = Done /\ FileState = "open" /\ FileState' = "open"
  BY <1>1, SameDone DEF FileState, JoinInv, NewInv
<1> DEFINE n == Len(text[Flushed])
<1>7. /\ n \in Nat /\ n <= Len(Pending)
      /\ SubSeq(Pending, 1, n) = text[Flushed]
      /\ SubSeq(Pending, n + 1, Len(Pending)) = text[Other]
  <2> DEFINE S == Record \cup {Torn}
  <2>1. text[Flushed] \in Seq(S) /\ text[Other] \in Seq(S)
    BY PartsType DEF RecordsType
  <2> HIDE DEF S
  <2>2. LET both == text[Flushed] \o text[Other]
        IN  /\ Len(text[Flushed]) \in Nat /\ Len(text[Flushed]) <= Len(both)
            /\ SubSeq(both, 1, Len(text[Flushed])) = text[Flushed]
            /\ SubSeq(both, Len(text[Flushed]) + 1, Len(both)) = text[Other]
    BY <2>1, SplitConcat, Zenon
  <2> QED BY <1>4, <2>2, Zenon
<1>8. CASE n = 0
  <2>1. text[Flushed] = <<>>
    BY <1>8, PartsType DEF RecordsType
  <2>2. file' = file
    BY <1>3, <2>1, PartsType, ConcatEmptySeq DEF RecordsType
  <2> QED BY <1>4, <1>6, <2>1, <2>2, LogStutters
<1>9. CASE n # 0
  <2>1. n \in 1 .. Len(Pending)
    <3>1. Len(Pending) \in Nat
      <4>1. Pending \in RecordsType
        BY <1>4, PartsType, ConcatProperties DEF RecordsType
      <4> QED BY <4>1 DEF RecordsType
    <3> QED BY <1>7, <1>9, <3>1
  <2> HIDE DEF n
  <2>2. Log!Write
    BY <1>3, <1>4, <1>5, <1>6, <1>7, <2>1 DEF Log!Write
  <2> QED BY <2>2 DEF Log!Next
<1> QED BY <1>8, <1>9

LEMMA LogStepRefines ==
  ASSUME RealTime, LogInv, JoinInv, LogInv', [Next]_vars
  PROVE  [Log!Next]_(Log!logVars)
<1> USE DEF LogInv
<1>1. CASE DataCounts
  <2>1. UNCHANGED <<text, buffer_no, loop, file, main>>
    BY <1>1 DEF DataCounts, bufVars, loopVars, mainVars
  <2> QED BY <1>1, <2>1, CallKeepsDone, SameFlushed, SamePlaces, LogStutters DEF Pending
<1>2. CASE Extend
  BY <1>2, ExtendIsKeep DEF Log!Next
<1>3. CASE Deref \/ Copy \/ Trigger
  <2>1. UNCHANGED <<text, buffer_no, file, calls, main>>
    BY <1>3 DEF Deref, Copy, Trigger, bufVars, loopVars, mainVars
  <2>2. loop' = loop \/ (loop = "waiting" /\ loop' = "swap")
    BY <1>3 DEF Deref, Copy, Trigger, NotifyAll, loopVars
  <2>3. Done' = Done
    BY <1>3, <2>1, SameDone DEF Deref, Copy, Trigger
  <2> QED BY <2>1, <2>2, <2>3, SameFlushed, SamePlaces, LogStutters DEF Pending
<1>4. CASE LoopTest \/ LoopWait \/ LoopWakesAlone \/ LoopSwap \/ LoopFlush
  <2>1. /\ UNCHANGED <<text, file, buffer_no, calls, writer, main>>
        /\ loop \notin {"none", "clear"} /\ loop' \notin {"none", "clear"}
    BY <1>4 DEF LoopTest, LoopWait, LoopWakesAlone, LoopSwap, LoopFlush, bufVars, writerVars,
      mainVars
  <2> QED BY <2>1, SameDone, SameFlushed, SamePlaces, LogStutters DEF Pending
<1>5. CASE LoopWritten
  BY <1>5, WrittenIsWrite
<1>6. CASE LoopClear
  <2>0. /\ Flushed \in Buffers /\ Other \in Buffers /\ Flushed # Other
        /\ text \in [Buffers -> Texts]
    BY FlushedOther DEF TypeOK
  <2>1. /\ text'[Flushed] = <<>> /\ text'[Other] = text[Other]
        /\ loop = "clear" /\ loop' = "test" /\ buffer_no' = Other
        /\ UNCHANGED <<file, calls, writer, main>>
    BY <1>6, <2>0 DEF LoopClear, writerVars, mainVars
  <2>2. Flushed' = Other /\ Other' = Flushed
    BY <2>0, <2>1 DEF Flushed, Other, Buffers
  <2>3. Pending = <<>> \o text[Other] /\ Pending' = text[Other] \o <<>>
    BY <2>1, <2>2 DEF Pending
  <2>4. Pending' = Pending
    BY <2>3, PartsType, ConcatEmptySeq DEF RecordsType
  <2> QED BY <2>1, <2>4, SameDone, SamePlaces, LogStutters
<1>7. CASE Begin \/ BeginFails
  <2>0. main = "new" /\ text \in [Buffers -> Texts] /\ active \in Buffers
    BY <1>7 DEF Begin, BeginFails, TypeOK
  <2>1. /\ loop = "none" /\ active = Flushed
        /\ Flushed \in Buffers /\ Other \in Buffers /\ Flushed # Other
    BY <2>0, FlushedOther DEF NewInv, LoopInv
  <2>a. text[Flushed] = <<>> /\ text[Other] = <<>>
    BY <2>0, <2>1 DEF NewInv, Buffers
  <2>2. UNCHANGED <<file, buffer_no, calls, writer>>
    BY <1>7 DEF Begin, BeginFails, loopVars, writerVars
  <2>3. text'[Other] = <<>> /\ text'[Flushed] \in {<<>>, <<Headline>>}
    BY <1>7, <2>0, <2>1, <2>a DEF Begin, BeginFails
  <2>4. Begin => text'[Flushed] = <<Headline>>
    BY <2>0, <2>1, <2>a DEF Begin
  <2>5. loop' \in {"none", "test"} /\ Pending' = text'[Flushed] \o <<>>
    <3>1. loop' \in {"none", "test"}
      BY <1>7, <2>1 DEF Begin, BeginFails, loopVars
    <3> QED BY <2>2, <2>3, <3>1, SameFlushed DEF Pending
  <2>6. Pending' = text'[Flushed]
    BY <2>3, <2>5 DEF Headline
  <2>7. Done' = Done
    BY <2>2, SameDone
  <2>8. CASE Begin
    <3>1. FileState = "new" /\ FileState' = "open"
      BY <2>8 DEF Begin, FileState
    <3>2. Log!Open
      BY <2>2, <2>4, <2>6, <2>7, <2>8, <3>1 DEF Log!Open
    <3> QED BY <3>2 DEF Log!Next
  <2>9. CASE BeginFails
    <3>1. FileState = "new" /\ FileState' = "closed"
      BY <2>1, <2>9 DEF BeginFails, FileState, loopVars
    <3>2. Log!OpenFails
      BY <2>2, <2>3, <2>6, <2>7, <3>1 DEF Log!OpenFails
    <3> QED BY <3>2 DEF Log!Next
  <2> QED BY <1>7, <2>8, <2>9
<1>8. CASE EndFlag \/ EndSteps
  <2>1. UNCHANGED <<text, file, buffer_no, calls, writer>>
    BY <1>8 DEF EndFlag, EndSteps, EndNotify, EndJoin, bufVars, loopVars, writerVars
  <2>2. loop' = loop \/ (loop = "waiting" /\ loop' = "swap")
    BY <1>8 DEF EndFlag, EndSteps, EndNotify, EndJoin, NotifyAll, loopVars
  <2>3. Pending' = Pending /\ Done' = Done
    BY <2>1, <2>2, SameFlushed, SameDone DEF Pending
  <2>4. CASE EndFlag \/ EndNotify
    <3>1. main \notin {"new", "ended"} /\ main' \notin {"new", "ended"}
      BY <2>4 DEF EndFlag, EndNotify
    <3>2. FileState' = FileState
      BY <2>2, <3>1 DEF FileState
    <3> QED BY <2>1, <2>3, <3>2, LogStutters
  <2>5. CASE EndJoin
    <3>1. /\ main = "joining" /\ main' = "ended" /\ loop' = loop
          /\ FileState' = "closed" /\ FileState \in {"open", "closed"}
      BY <2>5 DEF EndJoin, FileState, loopVars
    <3>2. CASE FileState = "closed"
      BY <2>1, <2>3, <3>1, <3>2, LogStutters
    <3>3. CASE FileState = "open"
      <4>1. Log!Close
        BY <2>1, <2>3, <3>1, <3>3 DEF Log!Close
      <4> QED BY <4>1 DEF Log!Next
    <3> QED BY <3>1, <3>2, <3>3
  <2> QED BY <1>8, <2>4, <2>5 DEF EndSteps
<1>9. CASE UNCHANGED vars
  <2>1. UNCHANGED <<text, buffer_no, loop, file, main, calls, writer>>
    BY <1>9 DEF vars, bufVars, writerVars, loopVars, mainVars
  <2> QED BY <2>1, SameDone, SameFlushed, SamePlaces, LogStutters DEF Pending
<1> QED BY <1>1, <1>2, <1>3, <1>4, <1>5, <1>6, <1>7, <1>8, <1>9
      DEF Next, WriteBuffer, Loop, LoopSpurious, Main

\* Logging.cpp:68-207: with the priorities in force the buffers, their swap and
\* the loop are one queue in front of a file that only grows at its end, is
\* written with the oldest records first, and never before begin() or after
\* end().
THEOREM LogIsAQueue == ASSUME RealTime PROVE Spec => ImplementsLog
<1>1. Init => JoinInv
  BY DEF Init, JoinInv
<1>2. JoinInv /\ LogInv /\ LogInv' /\ [Next]_vars => [Log!Next]_(Log!logVars)
  BY LogStepRefines
<1>3. Spec => []JoinInv
  BY <1>1, JoinStep, PTL DEF Spec
<1> QED BY <1>2, <1>3, LogRefinesInit, LogInvariant, PTL DEF Spec, ImplementsLog, Log!Spec
-----------------------------------------------------------------------------
(* end() and the loop. *)

\* The loop does not run between its test and its wait when end() does.
EndInv ==
  /\ main \in {"flagged", "joining", "ended"} => ~thread_running /\ loop # "wait"
  /\ main \in {"joining", "ended"} => loop # "waiting"

LEMMA EndStep == EndInv /\ RealTime /\ [Next]_vars => EndInv'
<1> SUFFICES ASSUME EndInv, RealTime, [Next]_vars PROVE EndInv'
  OBVIOUS
<1> USE DEF EndInv, bufVars, writerVars, loopVars, mainVars
<1>1. CASE DataCounts \/ WriteBuffer
  <2>1. UNCHANGED mainVars /\ (loop' = loop \/ (loop = "waiting" /\ loop' = "swap"))
    BY <1>1 DEF DataCounts, WriteBuffer, Deref, Copy, Extend, Trigger, NotifyAll
  <2> QED BY <2>1
<1>2. CASE LoopTest \/ LoopWait \/ LoopWakesAlone
  BY <1>2 DEF LoopTest, LoopWait, LoopWakesAlone
<1>3. CASE LoopSwap \/ LoopFlush \/ LoopWritten \/ LoopClear
  <2>1. UNCHANGED mainVars /\ loop' \in {"flush", "writing", "clear", "test"}
    BY <1>3 DEF LoopSwap, LoopFlush, LoopWritten, LoopClear
  <2> QED BY <2>1
<1>4. CASE Main
  <2>1. LoopBlocked
    BY <1>4 DEF Main, MainMayRun
  <2>2. CASE Begin \/ BeginFails
    BY <2>2 DEF Begin, BeginFails
  <2>3. CASE EndFlag
    BY <2>1, <2>3 DEF EndFlag, LoopBlocked
  <2>4. CASE EndNotify
    BY <2>4 DEF EndNotify, NotifyAll
  <2>5. CASE EndJoin
    BY <2>5 DEF EndJoin
  <2> QED BY <1>4, <2>2, <2>3, <2>4, <2>5 DEF Main, EndSteps
<1>5. CASE UNCHANGED vars
  BY <1>5 DEF vars
<1> QED BY <1>1, <1>2, <1>3, <1>4, <1>5 DEF Next, Loop, LoopSpurious

\* Logging.cpp:160-194: with the priorities in force the notification of end()
\* cannot fall between the loop's test and its wait; end() never joins a thread
\* that waits for a notification that has been.
THEOREM EndIsNotMissed == ASSUME RealTime PROVE Spec => []NoWakeupIsLost
<1>1. Init => EndInv
  BY DEF Init, EndInv
<1>2. EndInv => NoWakeupIsLost
  BY DEF EndInv, NoWakeupIsLost
<1> QED BY <1>1, <1>2, EndStep, PTL DEF Spec
=============================================================================
