------------------------------ MODULE SerialRing ------------------------------
(***************************************************************************)
(* The receive side of HardwareSerial (src/linux/HardwareSerial): a ring   *)
(* of N bytes between two threads without a lock.                          *)
(*                                                                         *)
(*   receiver  receive_loop(): blocks in ::read(), then stores each byte   *)
(*             with store_char(), which owns "head";                       *)
(*   reader    the loop of fcci_module or of the GPS driver: asks          *)
(*             available() and then calls read() that many times, which    *)
(*             owns "tail";                                                *)
(*   main      begin(), and end() from a destructor while the other two    *)
(*             still run.                                                  *)
(*                                                                         *)
(* One action is one access to a variable the threads share (head, tail, a *)
(* slot, thread_running, fd); the threads interleave between any two.      *)
(* The stores and loads of one thread take effect in program order: head   *)
(* and tail are volatile and the target is a single-core processor.        *)
(***************************************************************************)
EXTENDS Integers, Sequences

CONSTANTS
  N,          \* SERIAL_BUFFER_SIZE
  Byte,       \* the values a byte can have
  Zero,       \* the byte the constructor fills the ring with
  NoByte,     \* the -1 of read() on an empty ring
  MaxChunk    \* the most bytes one ::read() returns

ASSUME RingAssumption ==
  /\ N \in Nat \ {0}
  /\ Zero \in Byte
  /\ NoByte \notin Byte
  /\ MaxChunk \in Nat \ {0}

VARIABLES
  head, tail,       \* of rx_buffer
  buf,              \* rx_buffer.buffer
  thread_running,
  fd,               \* TRUE while the file descriptor is valid
  rx,               \* where the receiver is
  chunk,            \* the bytes of the last ::read() not stored yet
  next,             \* the "i" of store_char()
  rd,               \* where the reader is
  numc,             \* reads left of the batch
  c,                \* the byte read() has loaded
  got,              \* the last answer of read()
  main,             \* where begin() or end() is
  old_tail          \* the tail that end() has loaded

ringVars  == <<head, tail, buf>>
rxVars    == <<rx, chunk, next>>
rdVars    == <<rd, numc, c, got>>
mainVars  == <<main, old_tail, thread_running, fd>>
vars == <<ringVars, rxVars, rdVars, mainVars>>

Slots == 0 .. (N - 1)
Chunks == UNION {[1 .. n -> Byte] : n \in 1 .. MaxChunk}

\* available(): the number of bytes between tail and head.
Count == (N + head - tail) % N

\* end() has not yet overwritten head.
Intact == main \in {"new", "open", "stopping", "flagged", "loaded"}
-----------------------------------------------------------------------------
(* The receiver: receive_loop() and store_char(). *)

RxCheck ==
  /\ rx = "check"
  /\ rx' = IF thread_running THEN "valid" ELSE "exit"
  /\ UNCHANGED <<chunk, next, ringVars, rdVars, mainVars>>

RxValid ==
  /\ rx = "valid"
  /\ rx' = IF fd THEN "read" ELSE "check"
  /\ UNCHANGED <<chunk, next, ringVars, rdVars, mainVars>>

\* ::read() returns bytes.  A read that was blocked when end() closed the
\* descriptor may still do so.
RxRead ==
  /\ rx = "read"
  /\ chunk' \in Chunks
  /\ rx' = "index"
  /\ UNCHANGED <<next, ringVars, rdVars, mainVars>>

\* ::read() returns 0 or -1 and the for loop has nothing to do.
RxReadFails ==
  /\ rx = "read"
  /\ rx' = "check"
  /\ UNCHANGED <<chunk, next, ringVars, rdVars, mainVars>>

\* Mutant of StoreIndex: no wrap at the end of the ring.
StoreIndexNoWrap ==
  /\ rx = "index"
  /\ next' = head + 1
  /\ rx' = "test"
  /\ UNCHANGED <<chunk, ringVars, rdVars, mainVars>>

StoreIndex ==
  /\ rx = "index"
  /\ next' = (head + 1) % N
  /\ rx' = "test"
  /\ UNCHANGED <<chunk, ringVars, rdVars, mainVars>>

NextByte ==
  /\ chunk' = Tail(chunk)
  /\ rx' = IF Len(chunk) > 1 THEN "index" ELSE "check"

\* if (i != buffer->tail)
StoreRoom ==
  /\ rx = "test"
  /\ next # tail
  /\ rx' = "write"
  /\ UNCHANGED <<chunk, next, ringVars, rdVars, mainVars>>

\* The ring is full: the byte is dropped.
StoreDrop ==
  /\ rx = "test"
  /\ next = tail
  /\ NextByte
  /\ UNCHANGED <<next, ringVars, rdVars, mainVars>>

\* Mutant of StoreWrite: the byte goes to the slot after head.
StoreWriteAhead ==
  /\ rx = "write"
  /\ buf' = [buf EXCEPT ![next] = Head(chunk)]
  /\ rx' = "publish"
  /\ UNCHANGED <<chunk, next, head, tail, rdVars, mainVars>>

StoreWrite ==
  /\ rx = "write"
  /\ buf' = [buf EXCEPT ![head] = Head(chunk)]
  /\ rx' = "publish"
  /\ UNCHANGED <<chunk, next, head, tail, rdVars, mainVars>>

StorePublish ==
  /\ rx = "publish"
  /\ head' = next
  /\ NextByte
  /\ UNCHANGED <<next, tail, buf, rdVars, mainVars>>
-----------------------------------------------------------------------------
(* The reader: available(), then read() once per byte of the batch. *)

\* Mutants of Available: the free slots are counted; the last byte is left.
AvailableCountsFree ==
  /\ rd = "idle"
  /\ numc' = (N + tail - head) % N
  /\ rd' = IF numc' > 0 THEN "test" ELSE "idle"
  /\ UNCHANGED <<c, got, ringVars, rxVars, mainVars>>

AvailableLeavesOne ==
  /\ rd = "idle"
  /\ Count > 0
  /\ numc' = Count - 1
  /\ rd' = IF Count > 1 THEN "test" ELSE "idle"
  /\ UNCHANGED <<c, got, ringVars, rxVars, mainVars>>

Available ==
  /\ rd = "idle"
  /\ numc' = Count
  /\ rd' = IF Count > 0 THEN "test" ELSE "idle"
  /\ UNCHANGED <<c, got, ringVars, rxVars, mainVars>>

\* The loop ends when it sees that its module is being destroyed.
ReaderStop ==
  /\ rd = "idle"
  /\ main \notin {"new", "open"}
  /\ rd' = "stopped"
  /\ UNCHANGED <<numc, c, got, ringVars, rxVars, mainVars>>

NextRead ==
  /\ numc' = numc - 1
  /\ rd' = IF numc > 1 THEN "test" ELSE "idle"

ReadEmpty ==
  /\ rd = "test"
  /\ head = tail
  /\ got' = NoByte
  /\ NextRead
  /\ UNCHANGED <<c, ringVars, rxVars, mainVars>>

ReadTest ==
  /\ rd = "test"
  /\ head # tail
  /\ rd' = "load"
  /\ UNCHANGED <<numc, c, got, ringVars, rxVars, mainVars>>

ReadLoad ==
  /\ rd = "load"
  /\ c' = buf[tail]
  /\ rd' = "advance"
  /\ UNCHANGED <<numc, got, ringVars, rxVars, mainVars>>

ReadAdvance ==
  /\ rd = "advance"
  /\ tail' = (tail + 1) % N
  /\ got' = c
  /\ NextRead
  /\ UNCHANGED <<c, head, buf, rxVars, mainVars>>
-----------------------------------------------------------------------------
(* The main thread: begin() and end(). *)

\* begin() configures the port and starts the receiver.
Begin ==
  /\ main = "new"
  /\ fd
  /\ main' = "open"
  /\ thread_running' = TRUE
  /\ rx' = "check"
  /\ UNCHANGED <<fd, old_tail, chunk, next, ringVars, rdVars>>

\* The descriptor is not valid or refuses the configuration: no receiver.
BeginFails ==
  /\ main = "new"
  /\ main' = "open"
  /\ UNCHANGED <<thread_running, fd, old_tail, ringVars, rxVars, rdVars>>

\* The destructor of the reading module clears the flag of its loop, which it
\* does not join either, before it calls end().
StopReader ==
  /\ main = "open"
  /\ main' = "stopping"
  /\ UNCHANGED <<thread_running, fd, old_tail, ringVars, rxVars, rdVars>>

\* The loop over tx_buffer that follows never waits: nothing fills it.
EndFlag ==
  /\ main = "stopping"
  /\ thread_running' = FALSE
  /\ main' = "flagged"
  /\ UNCHANGED <<fd, old_tail, ringVars, rxVars, rdVars>>

\* _rx_buffer->head = _rx_buffer->tail is a load and a store.
EndLoad ==
  /\ main = "flagged"
  /\ old_tail' = tail
  /\ main' = "loaded"
  /\ UNCHANGED <<thread_running, fd, ringVars, rxVars, rdVars>>

EndClear ==
  /\ main = "loaded"
  /\ head' = old_tail
  /\ main' = "cleared"
  /\ UNCHANGED <<thread_running, fd, old_tail, tail, buf, rxVars, rdVars>>

\* The receiver is not joined.
EndClose ==
  /\ main = "cleared"
  /\ fd' = FALSE
  /\ main' = "closed"
  /\ UNCHANGED <<thread_running, old_tail, ringVars, rxVars, rdVars>>
-----------------------------------------------------------------------------
Init ==
  /\ head = 0
  /\ tail = 0
  /\ buf = [k \in Slots |-> Zero]
  /\ thread_running = FALSE
  /\ fd \in BOOLEAN
  /\ rx = "none"
  /\ chunk = <<>>
  /\ next = 0
  /\ rd = "idle"
  /\ numc = 0
  /\ c = Zero
  /\ got = NoByte
  /\ main = "new"
  /\ old_tail = 0

Receiver ==
  \/ RxCheck \/ RxValid \/ RxRead \/ RxReadFails
  \/ StoreIndex \/ StoreRoom \/ StoreDrop \/ StoreWrite \/ StorePublish

Reader ==
  \/ Available \/ ReaderStop \/ ReadEmpty \/ ReadTest \/ ReadLoad \/ ReadAdvance

Main ==
  \/ Begin \/ BeginFails
  \/ StopReader \/ EndFlag \/ EndLoad \/ EndClear \/ EndClose

Next == Receiver \/ Reader \/ Main

Spec == Init /\ [][Next]_vars

\* The scheduler runs the polling reader again and again.  Nothing is assumed
\* of the line: it may stay silent forever.  Nor does main have to call end().
FairSpec == Spec /\ WF_vars(Reader)
-----------------------------------------------------------------------------
TypeOK ==
  /\ head \in Slots /\ tail \in Slots /\ old_tail \in Slots /\ next \in Slots
  /\ buf \in [Slots -> Byte]
  /\ thread_running \in BOOLEAN /\ fd \in BOOLEAN
  /\ rx \in {"none", "check", "valid", "read", "index", "test", "write",
             "publish", "exit"}
  /\ chunk \in Seq(Byte)
  /\ rx \in {"index", "test", "write", "publish"} <=> chunk # <<>>
  /\ rd \in {"idle", "test", "load", "advance", "stopped"}
  /\ numc \in Slots
  /\ rd \in {"test", "load", "advance"} => numc > 0
  /\ c \in Byte
  /\ got \in Byte \cup {NoByte}
  /\ main \in {"new", "open", "stopping", "flagged", "loaded", "cleared", "closed"}
  /\ main = "new" => rx = "none"

\* The bytes that wait in the ring, oldest first.
Contents == [k \in 1 .. Count |-> buf[(tail + k - 1) % N]]

\* What each thread has tested stays true until it uses it, whatever the
\* other does in between: a free slot stays free until head moves (receiver),
\* a waiting byte and its value stay until tail moves (reader).
RingFacts ==
  /\ rx \in {"test", "write", "publish"} => next = (head + 1) % N
  /\ rx \in {"write", "publish"} => next # tail
  /\ rx = "publish" => buf[head] = Head(chunk)
  /\ rd \in {"test", "load", "advance"} => numc <= Count
  /\ rd = "advance" => c = buf[tail]

\* The inductive invariant of store_char() and read(): types always, and the
\* facts above until end() writes head from a third thread.
RingInv == TypeOK /\ (Intact => RingFacts)

\* A batch sized by available() never runs dry: until end() touches the ring,
\* read() finds a byte every time the reader calls it, so that the parser is
\* never fed the -1 of an empty ring as if it were a byte (fcci_module.cpp:72).
BatchNeverRunsDry ==
  Intact /\ rd = "test" => head # tail

\* While the port is open the ring is a FIFO queue of at most N - 1 bytes:
\* what read() answers is what the line delivered, in order and once.
Fifo == INSTANCE ByteFifo WITH
  Capacity <- N - 1,
  arriving <- IF Intact THEN chunk ELSE <<>>,
  queue <- IF Intact THEN Contents ELSE <<>>,
  open <- Intact
ImplementsFifo == Fifo!Spec

\* No stored byte waits forever: a slot between tail and head is read in the
\* end, unless the port is being closed.
Waiting(k) == \E j \in 0 .. (Count - 1) : (tail + j) % N = k
EveryByteIsRead ==
  \A k \in Slots : Waiting(k) ~> (~Waiting(k) \/ main \notin {"new", "open"})
=============================================================================
