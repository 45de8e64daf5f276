------------------------------ MODULE RecordLog -------------------------------
(***************************************************************************)
(* What a log promises the threads that use it, with no buffers, no loop   *)
(* and no locks: every Prescale-th call is kept, in order; a write takes   *)
(* the oldest of the records kept and puts them behind what the file       *)
(* holds, which is never changed otherwise; and nothing is written before  *)
(* begin() or after end() has returned.                                    *)
(*                                                                         *)
(* LogBuffer is shown to implement this module when the priorities the     *)
(* code asks for are in force.                                             *)
(***************************************************************************)
EXTENDS Naturals, Sequences

CONSTANTS
  Prescale,  \* one call in Prescale is logged
  Headline   \* the record that begins a log file

VARIABLES
  state,     \* "new", "open" while there is a file to write to, or "closed"
  file,      \* the records in the file
  pending,   \* the records kept and not yet written, oldest first
  last       \* the call whose record was kept last

logVars == <<state, file, pending, last>>

Init ==
  /\ state = "new"
  /\ file = <<>>
  /\ pending = <<>>
  /\ last = 0

Open ==
  /\ state = "new"
  /\ state' = "open"
  /\ pending' = <<Headline>>
  /\ UNCHANGED <<file, last>>

\* Records are kept, with or without a headline, and there is no file.
OpenFails ==
  /\ state = "new"
  /\ state' = "closed"
  /\ pending' \in {<<>>, <<Headline>>}
  /\ UNCHANGED <<file, last>>

Keep ==
  /\ state # "new"
  /\ last' = last + Prescale
  /\ pending' = Append(pending, last')
  /\ UNCHANGED <<state, file>>

Write ==
  /\ state = "open"
  /\ \E n \in 1 .. Len(pending) :
       /\ file' = file \o SubSeq(pending, 1, n)
       /\ pending' = SubSeq(pending, n + 1, Len(pending))
  /\ UNCHANGED <<state, last>>

\* What is pending then stays in memory and is lost with it.
Close ==
  /\ state = "open"
  /\ state' = "closed"
  /\ UNCHANGED <<file, pending, last>>

Next == Open \/ OpenFails \/ Keep \/ Write \/ Close

Spec == Init /\ [][Next]_logVars

=============================================================================
