------------------------------ MODULE LogBuffer ------------------------------
(***************************************************************************)
(* Logging (src/linux/Logging): records go into one of two string buffers  *)
(* without a lock; a background thread is woken when the buffer is long,   *)
(* makes the other buffer the active one and writes the first to the file. *)
(*                                                                         *)
(*   writer  the thread whose data is logged (sensor, GPS or servo thread) *)
(*   loop    Logging::loop, the background thread                          *)
(*   main    begin(), and end() from a destructor                          *)
(*                                                                         *)
(* RealTime is TRUE when the priorities the code asks for are granted on   *)
(* the single core: the writer (SCHED_FIFO, 5 to 50) is never interrupted  *)
(* by the loop (SCHED_FIFO, lowest), nor either of them by main, which     *)
(* then runs only while the loop is blocked.  The code goes on when        *)
(* pthread_setschedparam() fails, which is RealTime = FALSE.               *)
(*                                                                         *)
(* A record is the number of the call of data() that produced it; 0 is the *)
(* headline.  Threshold is the 4096 bytes, counted in records.             *)
(***************************************************************************)
EXTENDS Naturals, Sequences, SequencesExt

CONSTANTS
  Prescale,    \* m_prescale
  Threshold,   \* a longer active buffer wakes the loop
  MaxCalls,    \* bound: calls of data() explored
  RealTime,    \* the priorities are in force
  Torn         \* what fwrite() gets of a string that grows under it

ASSUME LogAssumption ==
  /\ Prescale \in Nat /\ 0 < Prescale /\ Prescale < 65536    \* an unsigned short; 0 would wrap
  /\ Threshold \in Nat
  /\ MaxCalls \in Nat
  /\ RealTime \in BOOLEAN
  /\ Torn \notin Nat

VARIABLES
  text,            \* string_buffer_1 and string_buffer_2
  active,          \* the buffer active_buffer points to
  thread_running,
  file,            \* the records in the log file
  calls,           \* calls of data() so far
  counter,         \* m_prescale_counter
  writer,          \* where write_buffer() is
  target,          \* the buffer that += appends to
  before,          \* its text when += began
  loop,            \* where the background thread is
  buffer_no,       \* its local variable
  out,             \* the text fwrite() was called with
  main             \* where begin() or end() is

bufVars    == <<text, active>>
writerVars == <<calls, counter, writer, target, before>>
loopVars   == <<loop, buffer_no, out, file>>
mainVars   == <<main, thread_running>>
vars == <<bufVars, writerVars, loopVars, mainVars>>

Buffers == {1, 2}
Headline == 0

\* The buffer the loop writes next, and the other one.
Flushed == IF buffer_no < 2 THEN 1 ELSE 2
Other == 3 - Flushed

\* The loop waits for the condition variable or for the disk.
LoopBlocked == loop \in {"none", "waiting", "writing", "exit"}

\* Who may run, when the priorities are in force.
LoopMayRun == RealTime => writer = "idle"
MainMayRun == RealTime => writer = "idle" /\ LoopBlocked

\* notify_all() wakes the loop if it waits, and is lost otherwise.
NotifyAll == loop' = IF loop = "waiting" THEN "swap" ELSE loop
-----------------------------------------------------------------------------
(* The writer: data() and write_buffer(). *)

\* Mutant of DataCounts: the counter is not reset.
DataNeverResets ==
  /\ writer = "idle"
  /\ main # "new"
  /\ calls < MaxCalls
  /\ calls' = calls + 1
  /\ writer' = IF counter = 1 THEN "deref" ELSE "idle"
  /\ counter' = counter - 1
  /\ UNCHANGED <<target, before, bufVars, loopVars, mainVars>>

\* 0 == --m_prescale_counter
DataCounts ==
  /\ writer = "idle"
  /\ main # "new"
  /\ calls < MaxCalls
  /\ calls' = calls + 1
  /\ IF counter = 1
       THEN writer' = "deref" /\ counter' = Prescale
       ELSE writer' = "idle" /\ counter' = counter - 1
  /\ UNCHANGED <<target, before, bufVars, loopVars, mainVars>>

\* *active_buffer: the pointer is read,
Deref ==
  /\ writer = "deref"
  /\ target' = active
  /\ writer' = "copy"
  /\ UNCHANGED <<calls, counter, before, bufVars, loopVars, mainVars>>

\* += copies the record behind the text it finds,
Copy ==
  /\ writer = "copy"
  /\ before' = text[target]
  /\ writer' = "append"
  /\ UNCHANGED <<calls, counter, target, bufVars, loopVars, mainVars>>

\* and then sets the new length, whatever clear() has done in between.
Extend ==
  /\ writer = "append"
  /\ text' = [text EXCEPT ![target] = Append(before, calls)]
  /\ writer' = "trigger"
  /\ UNCHANGED <<active, calls, counter, target, before, loopVars, mainVars>>

\* The length tested is that of the buffer that is active by now.
Trigger ==
  /\ writer = "trigger"
  /\ IF Len(text[active]) > Threshold THEN NotifyAll ELSE UNCHANGED loop
  /\ writer' = "idle"
  /\ UNCHANGED <<calls, counter, target, before, bufVars, buffer_no, out, file, mainVars>>
-----------------------------------------------------------------------------
(* The background thread: loop(). *)

LoopTest ==
  /\ loop = "test"
  /\ loop' = IF thread_running THEN "wait" ELSE "exit"
  /\ UNCHANGED <<buffer_no, out, file, bufVars, writerVars, mainVars>>

\* From here on notify_all() reaches the loop.
LoopWait ==
  /\ loop = "wait"
  /\ loop' = "waiting"
  /\ UNCHANGED <<buffer_no, out, file, bufVars, writerVars, mainVars>>

\* A condition variable may wake its waiter with no notification.
LoopWakesAlone ==
  /\ loop = "waiting"
  /\ loop' = "swap"
  /\ UNCHANGED <<buffer_no, out, file, bufVars, writerVars, mainVars>>

\* Mutant of LoopSwap: the writer stays on the buffer that is flushed.
LoopKeepsBuffer ==
  /\ loop = "swap"
  /\ active' = Flushed
  /\ loop' = "flush"
  /\ UNCHANGED <<text, buffer_no, out, file, writerVars, mainVars>>

LoopSwap ==
  /\ loop = "swap"
  /\ active' = Other
  /\ loop' = "flush"
  /\ UNCHANGED <<text, buffer_no, out, file, writerVars, mainVars>>

\* fwrite(c_str(), length()): the text is what the buffer holds now.
LoopFlush ==
  /\ loop = "flush"
  /\ out' = text[Flushed]
  /\ loop' = "writing"
  /\ UNCHANGED <<buffer_no, file, bufVars, writerVars, mainVars>>

\* A record appended meanwhile may have moved the string fwrite() reads.
LoopWritten ==
  /\ loop = "writing"
  /\ \E data \in {out} \cup (IF text[Flushed] # out THEN {<<Torn>>} ELSE {}) :
       file' = file \o data
  /\ loop' = "clear"
  /\ UNCHANGED <<buffer_no, out, bufVars, writerVars, mainVars>>

LoopClear ==
  /\ loop = "clear"
  /\ text' = [text EXCEPT ![Flushed] = <<>>]
  /\ buffer_no' = Other
  /\ loop' = "test"
  /\ UNCHANGED <<active, out, file, writerVars, mainVars>>
-----------------------------------------------------------------------------
(* The main thread: begin() and end(). *)

\* The file is open: the headline goes into the buffer, the loop is started.
Begin ==
  /\ main = "new"
  /\ text' = [text EXCEPT ![active] = Append(@, Headline)]
  /\ thread_running' = TRUE
  /\ loop' = "test"
  /\ main' = "begun"
  /\ UNCHANGED <<active, buffer_no, out, file, writerVars>>

\* No file, and no loop.  The headline is buffered when the disk has space
\* and only fopen() fails; data() goes on filling the buffer in either case.
BeginFails ==
  /\ main = "new"
  /\ text' \in {text, [text EXCEPT ![active] = Append(@, Headline)]}
  /\ main' = "begun"
  /\ UNCHANGED <<active, thread_running, loopVars, writerVars>>

EndFlag ==
  /\ main = "begun"
  /\ thread_running' = FALSE
  /\ main' = "flagged"
  /\ UNCHANGED <<bufVars, loopVars, writerVars>>

\* Mutant of EndNotify: nobody is notified.
EndSilent ==
  /\ main = "flagged"
  /\ main' = "joining"
  /\ UNCHANGED <<thread_running, bufVars, loopVars, writerVars>>

\* The mutex of the loop is not taken.
EndNotify ==
  /\ main = "flagged"
  /\ NotifyAll
  /\ main' = "joining"
  /\ UNCHANGED <<thread_running, bufVars, buffer_no, out, file, writerVars>>

\* Mutant of EndJoin: the thread is not joined.
EndDetached ==
  /\ main = "joining"
  /\ main' = "ended"
  /\ UNCHANGED <<thread_running, bufVars, loopVars, writerVars>>

\* join() returns and the file is closed.
EndJoin ==
  /\ main = "joining"
  /\ loop \in {"none", "exit"}
  /\ main' = "ended"
  /\ UNCHANGED <<thread_running, bufVars, loopVars, writerVars>>
-----------------------------------------------------------------------------
Init ==
  /\ text = [b \in Buffers |-> <<>>]
  /\ active = 1
  /\ thread_running = FALSE
  /\ file = <<>>
  /\ calls = 0
  /\ counter = Prescale
  /\ writer = "idle"
  /\ target = 1
  /\ before = <<>>
  /\ loop = "none"
  /\ buffer_no = 0
  /\ out = <<>>
  /\ main = "new"

WriteBuffer == Deref \/ Copy \/ Extend \/ Trigger

Loop ==
  /\ LoopMayRun
  /\ \/ LoopTest \/ LoopWait \/ LoopSwap \/ LoopFlush \/ LoopWritten \/ LoopClear

LoopSpurious == LoopMayRun /\ LoopWakesAlone

EndSteps == EndNotify \/ EndJoin

Main == MainMayRun /\ (Begin \/ BeginFails \/ EndFlag \/ EndSteps)

Next == DataCounts \/ WriteBuffer \/ Loop \/ LoopSpurious \/ Main

Spec == Init /\ [][Next]_vars

\* Threads that can run do run, and the disk answers.  No call of data() and no
\* call of end() has to come, and no spurious wakeup.
FairSpec ==
  /\ Spec
  /\ WF_vars(WriteBuffer)
  /\ WF_vars(Loop)
  /\ WF_vars(MainMayRun /\ EndSteps)
-----------------------------------------------------------------------------
Record == 0 .. MaxCalls
Texts == Seq(Record)

WriterPlaces == {"idle", "deref", "copy", "append", "trigger"}
LoopPlaces == {"none", "test", "wait", "waiting", "swap", "flush", "writing", "clear", "exit"}
MainPlaces == {"new", "begun", "flagged", "joining", "ended"}

TypeOK ==
  /\ text \in [Buffers -> Texts] /\ active \in Buffers
  /\ thread_running \in BOOLEAN
  /\ file \in Seq(Record \cup {Torn})
  /\ calls \in Record /\ counter \in 1 .. Prescale
  /\ writer \in WriterPlaces
  /\ target \in Buffers /\ before \in Texts
  /\ loop \in LoopPlaces
  /\ buffer_no \in 0 .. 2 /\ out \in Texts
  /\ main \in MainPlaces

\* How many records write_buffer() has appended: one for Prescale calls of
\* data(), but for the one it is busy with.
Done ==
  LET n == calls \div Prescale
  IN  IF writer \in {"deref", "copy", "append"} THEN n - 1 ELSE n

\* These records, in order.
Appended == [i \in 1 .. Done |-> i * Prescale]

\* What the file and the buffers hold, oldest first.  Between the write and
\* the clear the flushed buffer repeats what is in the file already.
OnRecord ==
  file \o (IF loop = "clear" THEN <<>> ELSE text[Flushed]) \o text[Other]

\* The part of it that is not in the file.
Pending == (IF loop = "clear" THEN <<>> ELSE text[Flushed]) \o text[Other]

\* No record is lost, doubled, torn or moved: the file, then the buffer that
\* is written next, then the other one are the headline (which only a log
\* without a file may lack) and every record, in the order of the calls.
\* "mutex_buffer.lock(); // not required because of buffer switching"
\* (Logging.cpp:151) promises this.
NothingLost ==
  \/ OnRecord = <<Headline>> \o Appended
  \/ loop = "none" /\ OnRecord = Appended

\* Whether there is a file that the loop may write to.
FileState ==
  CASE main = "new" -> "new"
    [] main # "new" /\ (loop = "none" \/ main = "ended") -> "closed"
    [] OTHER -> "open"

\* The two buffers and their loop are one queue in front of a file that only
\* grows: records go in one by one, a write moves the oldest of them behind
\* what the file holds, whatever the writer appends meanwhile, and the file
\* is not written before begin() or after end() (Logging.cpp:68-94, 149-207).
Log == INSTANCE RecordLog WITH
  state <- FileState,
  pending <- Pending,
  last <- Done * Prescale
ImplementsLog == Log!Spec

\* No wakeup of end() is lost: once it has notified, the loop neither waits nor
\* is about to, although its test of thread_running and its wait are two steps
\* and end() takes no lock (Logging.cpp:165-167, 192-193).
NoWakeupIsLost ==
  main = "joining" => loop \notin {"wait", "waiting"}

\* end() returns: the loop sees thread_running = FALSE and join() comes back
\* (a test goes on after testlog.end(), logging_tests.cpp:95).
EndReturns ==
  main = "flagged" ~> main = "ended"

\* If end() finds the loop waiting, what was logged before end() is in the
\* file before end() returns.  (If it finds the loop writing, the records of
\* the other buffer stay in memory and are never written.)
Backlog(n) == main = "joining" /\ loop = "swap" /\ Len(OnRecord) = n
EndWritesBacklog ==
  \A n \in 0 .. (MaxCalls + 1) :
    Backlog(n) ~> (main = "joining" /\ Len(file) >= n)
=============================================================================
