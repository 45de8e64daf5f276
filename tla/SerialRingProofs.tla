--------------------------- MODULE SerialRingProofs ---------------------------
(***************************************************************************)
(* Proofs about SerialRing for every ring size, byte set and chunk size.   *)
(*                                                                         *)
(* The argument: the receiver owns head and the reader owns tail, so what  *)
(* one of them has tested can only become more true through the other:     *)
(* a slot found free stays free until head moves, a byte found waiting     *)
(* stays waiting until tail moves.  RingInv says so for every control      *)
(* point between a test and its use.                                       *)
(***************************************************************************)
EXTENDS SerialRing, SequenceTheorems, TLAPS
-----------------------------------------------------------------------------
(* Arithmetic on the ring: the % of the code is a test and a subtraction. *)

\* The index after x, as store_char() and read() compute it.
LEMMA NextIndex ==
  ASSUME NEW x \in Slots
  PROVE  /\ (x + 1) % N \in Slots
         /\ (x + 1) % N = IF x = N - 1 THEN 0 ELSE x + 1
  BY RingAssumption, SMTT(30) DEF Slots

\* The slot k places after x.
LEMMA IndexAfter ==
  ASSUME NEW x \in Slots, NEW k \in Slots
  PROVE  /\ (x + k) % N \in Slots
         /\ (x + k) % N = IF x + k < N THEN x + k ELSE x + k - N
  BY RingAssumption, SMTT(30) DEF Slots

\* available() counts the slots from tail up to head.
LEMMA Distance ==
  ASSUME NEW h \in Slots, NEW t \in Slots
  PROVE  /\ (N + h - t) % N \in Slots
         /\ (N + h - t) % N = IF t <= h THEN h - t ELSE N + h - t
  BY RingAssumption, SMTT(30) DEF Slots
-----------------------------------------------------------------------------
\* Every chunk of ::read() is a non-empty sequence of bytes.
LEMMA ChunkType ==
  ASSUME NEW s \in Chunks
  PROVE  s \in Seq(Byte) /\ s # <<>>
  <1>1. PICK n \in 1 .. MaxChunk : s \in [1 .. n -> Byte]
    BY DEF Chunks
  <1>2. n \in Nat /\ n > 0
    BY <1>1, RingAssumption
  <1>3. s \in Seq(Byte) /\ Len(s) = n
    BY <1>1, <1>2
  <1>4. QED
    BY <1>2, <1>3

\* Taking a byte off the chunk leaves a sequence of bytes, empty after the last.
LEMMA ChunkTail ==
  ASSUME NEW s \in Seq(Byte), s # <<>>
  PROVE  /\ Head(s) \in Byte
         /\ Tail(s) \in Seq(Byte)
         /\ Len(s) > 1 <=> Tail(s) # <<>>
  <1>1. /\ Head(s) \in Byte
        /\ Tail(s) \in Seq(Byte)
        /\ Len(Tail(s)) = Len(s) - 1
    BY HeadTailProperties
  <1>2. Len(s) \in Nat /\ Len(<<>>) = 0
    BY EmptySeq, LenProperties
  <1>3. Len(s) > 1 => Len(Tail(s)) # 0
    BY <1>1, <1>2
  <1>4. Len(s) > 1 => Tail(s) # <<>>
    BY <1>2, <1>3, Zenon
  <1>5. Len(s) \in Nat /\ Len(s) # 0
    BY EmptySeq
  <1>6. ~(Len(s) > 1) => Len(Tail(s)) = 0
    BY <1>1, <1>5
  <1>7. ~(Len(s) > 1) => Tail(s) = <<>>
    BY <1>1, <1>6, EmptySeq
  <1>8. QED
    BY <1>1, <1>4, <1>7

\* The initial state satisfies the invariant.
LEMMA InitRingInv == Init => RingInv
  BY RingAssumption, Distance DEF Init, RingInv, TypeOK, Slots, Intact

\* Every step keeps the types.
LEMMA TypeStep == TypeOK /\ [Next]_vars => TypeOK'
  <1> SUFFICES ASSUME TypeOK, [Next]_vars PROVE TypeOK'
    OBVIOUS
  <1> USE DEF TypeOK
  <1>1. CASE RxCheck BY <1>1 DEF RxCheck, ringVars, rdVars, mainVars
  <1>2. CASE RxValid BY <1>2 DEF RxValid, ringVars, rdVars, mainVars
  <1>3. CASE RxRead
    BY <1>3, ChunkType DEF RxRead, ringVars, rdVars, mainVars
  <1>4. CASE RxReadFails BY <1>4 DEF RxReadFails, ringVars, rdVars, mainVars
  <1>5. CASE StoreIndex
    BY <1>5, NextIndex DEF StoreIndex, ringVars, rdVars, mainVars
  <1>6. CASE StoreRoom BY <1>6 DEF StoreRoom, ringVars, rdVars, mainVars
  <1>7. CASE StoreDrop
    BY <1>7, ChunkTail DEF StoreDrop, NextByte, ringVars, rdVars, mainVars
  <1>8. CASE StoreWrite
    BY <1>8, ChunkTail DEF StoreWrite, rdVars, mainVars
  <1>9. CASE StorePublish
    BY <1>9, ChunkTail DEF StorePublish, NextByte, rdVars, mainVars
  <1>10. CASE Available
    BY <1>10, Distance, RingAssumption DEF Available, Count, Slots, ringVars, rxVars, mainVars
  <1>11. CASE ReaderStop BY <1>11 DEF ReaderStop, ringVars, rxVars, mainVars
  <1>12. CASE ReadEmpty
    BY <1>12, RingAssumption DEF ReadEmpty, NextRead, Slots, ringVars, rxVars, mainVars
  <1>13. CASE ReadTest BY <1>13 DEF ReadTest, ringVars, rxVars, mainVars
  <1>14. CASE ReadLoad BY <1>14 DEF ReadLoad, ringVars, rxVars, mainVars
  <1>15. CASE ReadAdvance
    <2>1. tail' \in Slots
      BY <1>15, NextIndex DEF ReadAdvance
    <2>2. numc' \in Slots /\ (rd' \in {"test", "load", "advance"} => numc' > 0)
      BY <1>15, RingAssumption DEF ReadAdvance, NextRead, Slots
    <2>3. QED
      BY <1>15, <2>1, <2>2 DEF ReadAdvance, NextRead, rxVars, mainVars
  <1>16. CASE Begin BY <1>16 DEF Begin, ringVars, rdVars
  <1>17. CASE BeginFails BY <1>17 DEF BeginFails, ringVars, rxVars, rdVars
  <1>18. CASE StopReader BY <1>18 DEF StopReader, ringVars, rxVars, rdVars
  <1>19. CASE EndFlag BY <1>19 DEF EndFlag, ringVars, rxVars, rdVars
  <1>20. CASE EndLoad BY <1>20 DEF EndLoad, ringVars, rxVars, rdVars
  <1>21. CASE EndClear BY <1>21 DEF EndClear, rxVars, rdVars
  <1>22. CASE EndClose BY <1>22 DEF EndClose, ringVars, rxVars, rdVars
  <1>23. CASE UNCHANGED vars
    BY <1>23 DEF vars, ringVars, rxVars, rdVars, mainVars
  <1>24. QED
    BY <1>1, <1>2, <1>3, <1>4, <1>5, <1>6, <1>7, <1>8, <1>9, <1>10, <1>11, <1>12,
       <1>13, <1>14, <1>15, <1>16, <1>17, <1>18, <1>19, <1>20, <1>21, <1>22, <1>23
    DEF Next, Receiver, Reader, Main

\* The variables keep their types in every reachable state.
THEOREM TypeCorrect == Spec => []TypeOK
  <1>1. Init => TypeOK
    BY InitRingInv DEF RingInv
  <1>2. QED
    BY <1>1, TypeStep, PTL DEF Spec
-----------------------------------------------------------------------------
\* A batch is as long as the bytes waiting, so its next byte is there.
LEMMA BatchHasByte ==
  ASSUME RingInv, Intact, rd \in {"test", "load", "advance"}
  PROVE  head # tail /\ Count > 0
  BY Distance, RingAssumption DEF RingInv, RingFacts, TypeOK, Count, Slots

\* Storing a byte makes one more wait; the index after head was not tail.
LEMMA CountAfterPublish ==
  ASSUME TypeOK, next = (head + 1) % N, next # tail
  PROVE  (N + next - tail) % N = Count + 1
  <1>1. (N + next - tail) % N = IF tail <= next THEN next - tail ELSE N + next - tail
    BY Distance DEF TypeOK
  <1>2. Count = IF tail <= head THEN head - tail ELSE N + head - tail
    BY Distance DEF TypeOK, Count
  <1>3. next = IF head = N - 1 THEN 0 ELSE head + 1
    BY NextIndex DEF TypeOK
  <1>4. head \in 0 .. (N - 1) /\ tail \in 0 .. (N - 1) /\ next # tail
    BY DEF TypeOK, Slots
  <1>5. QED
    BY <1>1, <1>2, <1>3, <1>4, RingAssumption, SMTT(30)

\* Reading a byte makes one less wait.
LEMMA CountAfterRead ==
  ASSUME TypeOK, head # tail
  PROVE  (N + head - ((tail + 1) % N)) % N = Count - 1
  <1> DEFINE t == (tail + 1) % N
  <1>1. t \in Slots /\ t = IF tail = N - 1 THEN 0 ELSE tail + 1
    BY NextIndex DEF TypeOK
  <1> HIDE DEF t
  <1>2. (N + head - t) % N = IF t <= head THEN head - t ELSE N + head - t
    BY <1>1, Distance DEF TypeOK
  <1>3. Count = IF tail <= head THEN head - tail ELSE N + head - tail
    BY Distance DEF TypeOK, Count
  <1>4. (N + head - t) % N = Count - 1
    BY <1>1, <1>2, <1>3, RingAssumption DEF TypeOK, Slots
  <1>5. QED
    BY <1>4 DEF t

\* Every step keeps the invariant.
LEMMA RingStep == RingInv /\ [Next]_vars => RingInv'
  <1> SUFFICES ASSUME RingInv, [Next]_vars, Intact' PROVE RingFacts'
    BY TypeStep DEF RingInv
  <1>0. TypeOK /\ TypeOK'
    BY TypeStep DEF RingInv
  <1>00. Intact /\ RingFacts
    BY DEF RingInv, Intact, Next, Receiver, Reader, Main, vars, ringVars,
       rxVars, rdVars, mainVars, RxCheck, RxValid, RxRead, RxReadFails, StoreIndex,
       StoreRoom, StoreDrop, StoreWrite, StorePublish, Available, ReaderStop, ReadEmpty,
       ReadTest, ReadLoad, ReadAdvance, Begin, BeginFails, StopReader, EndFlag, EndLoad,
       EndClear, EndClose
  <1> USE <1>0, <1>00
  <1>1. CASE RxCheck \/ RxValid \/ RxRead \/ RxReadFails \/ StoreIndex
    BY <1>1 DEF RxCheck, RxValid, RxRead, RxReadFails, StoreIndex, RingFacts, Count,
       ringVars, rdVars, mainVars
  <1>2. CASE StoreRoom \/ StoreDrop
    BY <1>2 DEF StoreRoom, StoreDrop, NextByte, RingFacts, Count, ringVars, rdVars, mainVars
  <1>3. CASE StoreWrite
    <2>1. head \in Slots /\ buf' = [buf EXCEPT ![head] = Head(chunk)]
      BY <1>3 DEF StoreWrite, TypeOK
    <2>2. rd = "advance" => head # tail
      BY BatchHasByte DEF RingInv
    <2>3. rd' = "advance" => c' = buf'[tail']
      BY <1>3, <2>1, <2>2 DEF StoreWrite, rdVars, RingFacts, TypeOK
    <2>4. QED
      BY <1>3, <2>1, <2>3 DEF StoreWrite, rdVars, RingFacts, Count, TypeOK
  <1>4. CASE StorePublish
    <2>1. Count' = Count + 1
      BY <1>4, CountAfterPublish DEF StorePublish, Count, RingFacts
    <2>2. Count \in Nat /\ numc \in Nat
      BY Distance, RingAssumption DEF TypeOK, Count, Slots
    <2>3. rd' \in {"test", "load", "advance"} => numc' <= Count'
      BY <1>4, <2>1, <2>2 DEF StorePublish, RingFacts, rdVars
    <2>4. QED
      BY <1>4, <2>3 DEF StorePublish, NextByte, RingFacts, rdVars
  <1>5. CASE Available \/ ReaderStop \/ ReadTest
    <2>1. Count \in Slots
      BY Distance DEF TypeOK, Count
    <2>2. QED
      BY <1>5, <2>1 DEF Available, ReaderStop, ReadTest, RingFacts, Count, Slots,
         ringVars, rxVars, mainVars
  <1>6. CASE ReadEmpty
    BY <1>6, BatchHasByte DEF ReadEmpty
  <1>7. CASE ReadLoad
    BY <1>7 DEF ReadLoad, RingFacts, Count, ringVars, rxVars, mainVars
  <1>8. CASE ReadAdvance
    <2>1. head # tail
      BY <1>8, BatchHasByte DEF ReadAdvance
    <2>2. Count' = Count - 1
      BY <1>8, <2>1, CountAfterRead DEF ReadAdvance, Count
    <2>3. Count \in Nat /\ numc \in Nat
      BY Distance, RingAssumption DEF TypeOK, Count, Slots
    <2>4. rd' \in {"test", "load", "advance"} => numc' <= Count'
      BY <1>8, <2>2, <2>3 DEF ReadAdvance, NextRead, RingFacts
    <2>5. rx \in {"write", "publish"} => next # tail'
      <3>1. tail' = IF tail = N - 1 THEN 0 ELSE tail + 1
        BY <1>8, NextIndex DEF ReadAdvance, TypeOK
      <3>2. rx \in {"write", "publish"} => next = IF head = N - 1 THEN 0 ELSE head + 1
        BY NextIndex DEF RingFacts, TypeOK
      <3>3. QED
        BY <2>1, <3>1, <3>2, RingAssumption DEF TypeOK, Slots
    <2>6. QED
      BY <1>8, <2>4, <2>5 DEF ReadAdvance, NextRead, RingFacts, rxVars, mainVars
  <1>9. CASE Begin \/ BeginFails \/ StopReader \/ EndFlag \/ EndLoad \/ EndClose
    BY <1>9 DEF Begin, BeginFails, StopReader, EndFlag, EndLoad, EndClose, RingFacts,
       Count, ringVars, rxVars, rdVars, Intact
  <1>10. CASE EndClear
    BY <1>10 DEF EndClear, Intact
  <1>11. CASE UNCHANGED vars
    BY <1>11 DEF vars, ringVars, rxVars, rdVars, mainVars, RingFacts, Count
  <1>12. QED
    BY <1>1, <1>2, <1>3, <1>4, <1>5, <1>6, <1>7, <1>8, <1>9, <1>10, <1>11
    DEF Next, Receiver, Reader, Main

\* The ring invariant holds in every reachable state.
THEOREM RingInvariant == Spec => []RingInv
  BY InitRingInv, RingStep, PTL DEF Spec

\* A batch sized by available() never meets an empty ring.
THEOREM NeverDry == Spec => []BatchNeverRunsDry
  <1>1. RingInv => BatchNeverRunsDry
    BY BatchHasByte DEF BatchNeverRunsDry
  <1>2. QED
    BY <1>1, RingInvariant, PTL

\* The receiver's slot is free: head is none of the slots that wait.
LEMMA HeadIsFree ==
  ASSUME TypeOK, NEW k \in 0 .. (Count - 1)
  PROVE  (tail + k) % N \in Slots /\ (tail + k) % N # head
  <1>1. Count = IF tail <= head THEN head - tail ELSE N + head - tail
    BY Distance DEF TypeOK, Count
  <1>2. head \in 0 .. (N - 1) /\ tail \in 0 .. (N - 1)
    BY DEF TypeOK, Slots
  <1>3. k \in Slots
    BY <1>1, <1>2, RingAssumption DEF Slots
  <1>4. (tail + k) % N = IF tail + k < N THEN tail + k ELSE tail + k - N
    BY <1>3, IndexAfter DEF TypeOK
  <1>5. (tail + k) % N # head
    BY <1>1, <1>2, <1>3, <1>4, RingAssumption DEF Slots
  <1>6. QED
    BY <1>3, <1>5, IndexAfter DEF TypeOK

\* If the index after head is tail, every slot but one waits.
LEMMA FullRing ==
  ASSUME TypeOK, next = (head + 1) % N, next = tail
  PROVE  Count = N - 1
  <1>1. Count = IF tail <= head THEN head - tail ELSE N + head - tail
    BY Distance DEF TypeOK, Count
  <1>2. tail = IF head = N - 1 THEN 0 ELSE head + 1
    BY NextIndex DEF TypeOK
  <1>3. head \in 0 .. (N - 1)
    BY DEF TypeOK, Slots
  <1>4. QED
    BY <1>1, <1>2, <1>3, RingAssumption, SMTT(30)

\* A byte is dropped only when N - 1 bytes wait at that very moment.
LossOnlyWhenFull ==
  [][Intact /\ StoreDrop => Count = N - 1]_vars

\* No stale tail and no wrap makes store_char() drop a byte for which there is
\* room (HardwareSerial.cpp:37-50).
THEOREM LossNeedsFullRing == Spec => LossOnlyWhenFull
  <1>1. RingInv /\ [Next]_vars => [Intact /\ StoreDrop => Count = N - 1]_vars
    BY FullRing DEF RingInv, RingFacts, StoreDrop
  <1>2. QED
    BY <1>1, RingInvariant, PTL DEF Spec, LossOnlyWhenFull
-----------------------------------------------------------------------------
(* The ring implements the FIFO queue. *)

ContentsFacts ==
  /\ Count \in Nat
  /\ Contents \in Seq(Byte)
  /\ Len(Contents) = Count
  /\ \A k \in 1 .. Count : Contents[k] = buf[(tail + k - 1) % N]

\* The waiting bytes form a sequence of bytes, Count of them.
LEMMA ContentsType == TypeOK => ContentsFacts
  <1> SUFFICES ASSUME TypeOK PROVE ContentsFacts
    OBVIOUS
  <1>1. Count \in Nat
    BY Distance, RingAssumption DEF TypeOK, Count, Slots
  <1>2. ASSUME NEW k \in 1 .. Count
        PROVE  buf[(tail + k - 1) % N] \in Byte
    <2>1. k - 1 \in 0 .. (Count - 1) /\ tail + (k - 1) = tail + k - 1
      BY <1>1 DEF TypeOK, Slots
    <2>2. (tail + k - 1) % N \in Slots
      BY <2>1, HeadIsFree
    <2>3. QED
      BY <2>2 DEF TypeOK
  <1>3. Contents \in [1 .. Count -> Byte]
    BY <1>2 DEF Contents
  <1>4. QED
    BY <1>1, <1>3 DEF Contents, ContentsFacts

\* The same of the next state.
LEMMA ContentsTypeNext == TypeOK' => ContentsFacts'
  BY ContentsType, PTL

\* A written but unpublished byte changes nothing that waits.
LEMMA ContentsAfterWrite ==
  ASSUME RingInv, TypeOK', StoreWrite
  PROVE  Contents' = Contents
  <1>1. TypeOK /\ Count' = Count /\ tail' = tail
    BY DEF RingInv, StoreWrite, Count
  <1>2. ASSUME NEW k \in 1 .. Count
        PROVE  buf'[(tail + k - 1) % N] = buf[(tail + k - 1) % N]
    <2>1. k - 1 \in 0 .. (Count - 1) /\ tail + (k - 1) = tail + k - 1
      BY <1>1, ContentsType DEF ContentsFacts, TypeOK, Slots
    <2>2. (tail + k - 1) % N \in Slots /\ (tail + k - 1) % N # head
      BY <1>1, <2>1, HeadIsFree
    <2>3. QED
      BY <1>1, <2>2 DEF StoreWrite, TypeOK
  <1>3. QED
    BY <1>1, <1>2 DEF Contents

\* Publishing appends the byte that was written at head.
LEMMA ContentsAfterPublish ==
  ASSUME RingInv, TypeOK', Intact, StorePublish
  PROVE  /\ Contents' = Append(Contents, Head(chunk))
         /\ Len(Contents) < N - 1
         /\ Head(chunk) \in Byte
  <1>1. TypeOK /\ next = (head + 1) % N /\ next # tail /\ buf[head] = Head(chunk)
    BY DEF RingInv, RingFacts, StorePublish
  <1>2. Head(chunk) \in Byte
    BY <1>1, ChunkTail DEF TypeOK, StorePublish
  <1>3. Count' = Count + 1 /\ tail' = tail /\ buf' = buf
    BY <1>1, CountAfterPublish DEF StorePublish, Count
  <1>4. Count' \in Slots /\ Count \in Nat
    BY Distance, ContentsType, <1>1 DEF ContentsFacts, TypeOK, Count
  <1>5. /\ Contents \in Seq(Byte) /\ Len(Contents) = Count
        /\ Contents' \in Seq(Byte) /\ Len(Contents') = Count + 1
        /\ \A k \in 1 .. Count : Contents[k] = buf[(tail + k - 1) % N]
        /\ \A k \in 1 .. (Count + 1) : Contents'[k] = buf[(tail + k - 1) % N]
    <2>1. /\ Contents' \in Seq(Byte) /\ Len(Contents') = Count'
          /\ \A k \in 1 .. Count' : Contents'[k] = buf'[(tail' + k - 1) % N]
      BY ContentsTypeNext DEF ContentsFacts
    <2>2. /\ Contents \in Seq(Byte) /\ Len(Contents) = Count
          /\ \A k \in 1 .. Count : Contents[k] = buf[(tail + k - 1) % N]
      <3>1. ContentsFacts
        BY <1>1, ContentsType
      <3>2. QED
        BY <3>1 DEF ContentsFacts
    <2>3. /\ Contents' \in Seq(Byte) /\ Len(Contents') = Count + 1
          /\ \A k \in 1 .. (Count + 1) : Contents'[k] = buf[(tail + k - 1) % N]
      BY <1>3, <2>1, ZenonT(30)
    <2>4. QED
      BY <2>2, <2>3
  <1>6. buf[(tail + (Count + 1) - 1) % N] = Head(chunk)
    <2>1. Count = IF tail <= head THEN head - tail ELSE N + head - tail
      BY <1>1, Distance DEF TypeOK, Count
    <2>2. (tail + Count) % N = IF tail + Count < N THEN tail + Count ELSE tail + Count - N
      <3>1. tail \in Slots /\ Count \in Slots
        BY <1>1, Distance DEF TypeOK, Count
      <3>2. QED
        BY <3>1, IndexAfter
    <2>3. (tail + Count) % N = head
      <3>1. head \in 0 .. (N - 1) /\ tail \in 0 .. (N - 1)
        BY <1>1 DEF TypeOK, Slots
      <3>2. CASE tail <= head
        BY <2>1, <2>2, <3>1, <3>2, RingAssumption
      <3>3. CASE head < tail
        BY <2>1, <2>2, <3>1, <3>3, RingAssumption
      <3>4. QED
        BY <3>1, <3>2, <3>3, RingAssumption
    <2>4. tail + (Count + 1) - 1 = tail + Count
      BY <1>1, <1>4 DEF TypeOK, Slots
    <2>5. QED
      BY <1>1, <2>3, <2>4
  <1> DEFINE longer == Append(Contents, Head(chunk))
  <1>7. /\ longer \in Seq(Byte)
        /\ Len(longer) = Count + 1
        /\ \A k \in 1 .. Count : longer[k] = Contents[k]
        /\ longer[Count + 1] = Head(chunk)
    BY <1>2, <1>5, AppendProperties
  <1>8. \A k \in 1 .. (Count + 1) : Contents'[k] = longer[k]
    <2> HIDE DEF longer
    <2>1. Contents'[Count + 1] = longer[Count + 1]
      BY <1>4, <1>5, <1>6, <1>7
    <2>2. \A k \in 1 .. Count : Contents'[k] = longer[k]
      BY <1>4, <1>5, <1>7
    <2>3. QED
      BY <1>4, <2>1, <2>2
  <1>9. Contents' = longer
    <2> HIDE DEF longer
    <2>1. QED
      BY <1>5, <1>7, <1>8, SeqEqual
  <1>10. QED
    BY <1>2, <1>3, <1>4, <1>5, <1>9, RingAssumption DEF Slots

\* Advancing tail takes the first byte off, the one that read() has loaded.
LEMMA ContentsAfterRead ==
  ASSUME RingInv, TypeOK', Intact, ReadAdvance
  PROVE  Contents # <<>> /\ got' = Head(Contents) /\ Contents' = Tail(Contents)
  <1>1. TypeOK /\ c = buf[tail] /\ head # tail /\ Count > 0
    BY BatchHasByte DEF RingInv, RingFacts, ReadAdvance
  <1>2. /\ Count' = Count - 1 /\ tail' = (tail + 1) % N /\ buf' = buf /\ got' = c
    BY <1>1, CountAfterRead DEF ReadAdvance, Count
  <1>3. /\ Count \in Nat
        /\ Contents \in Seq(Byte) /\ Len(Contents) = Count
        /\ \A k \in 1 .. Count : Contents[k] = buf[(tail + k - 1) % N]
    BY <1>1, ContentsType DEF ContentsFacts
  <1>4. /\ Contents' \in Seq(Byte) /\ Len(Contents') = Count - 1
        /\ \A k \in 1 .. (Count - 1) : Contents'[k] = buf[(tail' + k - 1) % N]
    <2>1. /\ Contents' \in Seq(Byte) /\ Len(Contents') = Count'
          /\ \A k \in 1 .. Count' : Contents'[k] = buf'[(tail' + k - 1) % N]
      BY ContentsTypeNext DEF ContentsFacts
    <2>2. QED
      BY <1>2, <2>1
  <1>5. Contents # <<>> /\ Head(Contents) = buf[tail]
    <2>1. Contents # <<>>
      BY <1>1, <1>3, EmptySeq
    <2>2. Head(Contents) = Contents[1]
      BY <1>3, <2>1
    <2>3. (tail + 1 - 1) % N = tail
      <3>1. tail + 1 - 1 = tail + 0 /\ 0 \in Slots /\ tail + 0 < N /\ tail + 0 = tail
        BY <1>1, RingAssumption DEF TypeOK, Slots
      <3>2. QED
        BY <1>1, <3>1, IndexAfter DEF TypeOK
    <2>4. QED
      BY <1>1, <1>3, <2>1, <2>2, <2>3
  <1>6. /\ Tail(Contents) \in Seq(Byte)
        /\ Len(Tail(Contents)) = Count - 1
        /\ \A k \in 1 .. (Count - 1) : Tail(Contents)[k] = Contents[k + 1]
    BY <1>3, <1>5, HeadTailProperties
  <1>7. ASSUME NEW k \in 1 .. (Count - 1)
        PROVE  Contents'[k] = Tail(Contents)[k]
    <2>1. tail' = IF tail = N - 1 THEN 0 ELSE tail + 1
      BY <1>1, <1>2, NextIndex DEF TypeOK
    <2>2. Count \in Slots
      BY <1>1, Distance DEF TypeOK, Count
    <2>3. k - 1 \in Slots /\ k \in Slots /\ tail \in Slots /\ tail' \in Slots
      BY <1>1, <1>3, <2>1, <2>2, RingAssumption DEF TypeOK, Slots
    <2>4. (tail' + (k - 1)) % N = (tail + k) % N
      <3>1. (tail' + (k - 1)) % N
              = IF tail' + (k - 1) < N THEN tail' + (k - 1) ELSE tail' + (k - 1) - N
        BY <2>3, IndexAfter
      <3>2. (tail + k) % N = IF tail + k < N THEN tail + k ELSE tail + k - N
        BY <2>3, IndexAfter
      <3>3. QED
        BY <2>1, <2>3, <3>1, <3>2, RingAssumption DEF Slots
    <2>5. tail' + k - 1 = tail' + (k - 1) /\ tail + (k + 1) - 1 = tail + k
      BY <2>3, RingAssumption DEF Slots
    <2>6. Contents'[k] = buf[(tail + k) % N]
      BY <1>4, <2>4, <2>5
    <2>7. Contents[k + 1] = buf[(tail + (k + 1) - 1) % N]
      BY <1>3
    <2>8. QED
      BY <1>6, <2>5, <2>6, <2>7
  <1>8. Contents' = Tail(Contents)
    BY <1>4, <1>6, <1>7, SeqEqual
  <1>9. QED
    BY <1>1, <1>2, <1>5, <1>8

\* The initial ring is the empty, open queue.
LEMMA FifoInit == Init => Fifo!Init
  <1> SUFFICES ASSUME Init PROVE Fifo!Init
    OBVIOUS
  <1>1. TypeOK /\ Intact /\ Count = 0
    BY InitRingInv, Distance, RingAssumption DEF RingInv, Init, Intact, Count, Slots
  <1>2. Contents \in Seq(Byte) /\ Len(Contents) = 0
    BY <1>1, ContentsType DEF ContentsFacts
  <1>3. Contents = <<>>
    BY <1>2, EmptySeq
  <1>4. QED
    BY <1>1, <1>3 DEF Init, Fifo!Init

\* Every step of the ring is a step of the queue or leaves it unchanged.
LEMMA FifoStep ==
  RingInv /\ RingInv' /\ [Next]_vars => [Fifo!Next]_(Fifo!fifoVars)
  <1> SUFFICES ASSUME RingInv, RingInv', [Next]_vars
               PROVE  Fifo!Next \/ UNCHANGED Fifo!fifoVars
    OBVIOUS
  <1>0. TypeOK /\ TypeOK'
    BY DEF RingInv
  <1> DEFINE Same == UNCHANGED <<chunk, Contents, got, Intact>>
  <1>same. Same => UNCHANGED Fifo!fifoVars
    BY DEF Fifo!fifoVars
  <1>1. CASE RxCheck \/ RxValid \/ RxReadFails \/ StoreIndex \/ StoreRoom
    BY <1>1, <1>same DEF RxCheck, RxValid, RxReadFails, StoreIndex, StoreRoom,
       ringVars, rdVars, mainVars, Contents, Count, Intact
  <1>10. CASE RxRead
    <2>1. Contents' = Contents /\ got' = got /\ Intact' = Intact
      BY <1>10 DEF RxRead, ringVars, rdVars, mainVars, Contents, Count, Intact
    <2>2. CASE Intact
      <3>1. chunk = <<>> /\ chunk' \in Seq(Byte)
        BY <1>0, <1>10 DEF RxRead, TypeOK
      <3>2. Fifo!Arrive
        BY <2>1, <2>2, <3>1 DEF Fifo!Arrive
      <3>3. QED
        BY <3>2 DEF Fifo!Next
    <2>3. CASE ~Intact
      BY <2>1, <2>3 DEF Fifo!fifoVars
    <2>4. QED
      BY <2>2, <2>3
  <1>2. CASE StoreDrop
    <2>1. Contents' = Contents /\ got' = got /\ Intact' = Intact
      BY <1>2 DEF StoreDrop, ringVars, rdVars, mainVars, Contents, Count, Intact
    <2>2. CASE Intact
      <3>1. Len(Contents) = N - 1
        BY <1>0, <1>2, <2>2, FullRing, ContentsType
           DEF ContentsFacts, RingInv, RingFacts, StoreDrop
      <3>2. chunk # <<>> /\ chunk' = Tail(chunk)
        BY <1>0, <1>2 DEF StoreDrop, NextByte, TypeOK
      <3>3. Fifo!Refuse
        BY <2>1, <2>2, <3>1, <3>2 DEF Fifo!Refuse
      <3>4. QED
        BY <3>3 DEF Fifo!Next
    <2>3. CASE ~Intact
      BY <2>1, <2>3 DEF Fifo!fifoVars
    <2>4. QED
      BY <2>2, <2>3
  <1>3. CASE StoreWrite
    <2>1. Contents' = Contents
      BY <1>0, <1>3, ContentsAfterWrite
    <2>2. QED
      BY <1>3, <1>same, <2>1 DEF StoreWrite, rdVars, mainVars, Intact
  <1>4. CASE StorePublish
    <2>1. got' = got /\ Intact' = Intact
      BY <1>4 DEF StorePublish, rdVars, mainVars, Intact
    <2>2. CASE Intact
      <3>1. /\ Contents' = Append(Contents, Head(chunk))
            /\ Len(Contents) < N - 1
            /\ Head(chunk) \in Byte
        BY <1>0, <1>4, <2>2, ContentsAfterPublish
      <3>2. chunk # <<>> /\ chunk' = Tail(chunk)
        BY <1>0, <1>4 DEF StorePublish, NextByte, TypeOK
      <3>3. Fifo!Put
        BY <2>1, <2>2, <3>1, <3>2 DEF Fifo!Put
      <3>4. QED
        BY <3>3 DEF Fifo!Next
    <2>3. CASE ~Intact
      BY <2>1, <2>3 DEF Fifo!fifoVars
    <2>4. QED
      BY <2>2, <2>3
  <1>5. CASE Available \/ ReaderStop \/ ReadTest \/ ReadLoad
    BY <1>5, <1>same DEF Available, ReaderStop, ReadTest, ReadLoad, ringVars, rxVars, mainVars,
       Contents, Count, Intact
  <1>6. CASE ReadEmpty \/ ReadAdvance
    <2>1. Intact' = Intact /\ got' \in Byte \cup {NoByte}
      BY <1>0, <1>6 DEF ReadEmpty, ReadAdvance, mainVars, Intact, TypeOK
    <2>2. CASE Intact
      <3>1. ReadAdvance
        BY <1>6, <2>2, BatchHasByte DEF ReadEmpty
      <3>2. Contents # <<>> /\ got' = Head(Contents) /\ Contents' = Tail(Contents)
        BY <1>0, <2>2, <3>1, ContentsAfterRead
      <3>3. chunk' = chunk
        BY <3>1 DEF ReadAdvance, rxVars
      <3>4. Fifo!Get
        BY <2>1, <2>2, <3>2, <3>3 DEF Fifo!Get
      <3>5. QED
        BY <3>4 DEF Fifo!Next
    <2>3. CASE ~Intact
      <3>1. Fifo!GetAfterClose
        BY <2>1, <2>3 DEF Fifo!GetAfterClose
      <3>2. QED
        BY <3>1 DEF Fifo!Next
    <2>4. QED
      BY <2>2, <2>3
  <1>7. CASE Begin \/ BeginFails \/ StopReader \/ EndFlag \/ EndLoad \/ EndClose
    BY <1>7, <1>same DEF Begin, BeginFails, StopReader, EndFlag, EndLoad, EndClose,
       ringVars, rxVars, rdVars, Contents, Count, Intact
  <1>8. CASE EndClear
    <2>1. Intact /\ ~Intact' /\ got' = got
      BY <1>8 DEF EndClear, rdVars, Intact
    <2>2. Fifo!Close
      BY <2>1 DEF Fifo!Close
    <2>3. QED
      BY <2>2 DEF Fifo!Next
  <1>9. CASE UNCHANGED vars
    BY <1>9, <1>same DEF vars, ringVars, rxVars, rdVars, mainVars, Contents, Count, Intact
  <1>11. QED
    BY <1>1, <1>2, <1>3, <1>4, <1>5, <1>6, <1>7, <1>8, <1>9, <1>10
    DEF Next, Receiver, Reader, Main

\* HardwareSerial implements the FIFO promise of ByteFifo.
THEOREM RingImplementsFifo == Spec => ImplementsFifo
  <1>1. RingInv /\ RingInv' /\ [Next]_vars => [Fifo!Next]_(Fifo!fifoVars)
    BY FifoStep
  <1>2. QED
    BY <1>1, FifoInit, RingInvariant, PTL DEF Spec, ImplementsFifo, Fifo!Spec
=============================================================================
