------------------------------- MODULE ByteFifo -------------------------------
(***************************************************************************)
(* What a serial port promises its reader, with no ring, no indices and no *)
(* threads: while the port is open, the bytes of the line come out in the  *)
(* order in which they arrived, each one once; a byte is refused only when *)
(* Capacity bytes are waiting.  After Close nothing is promised any more.  *)
(*                                                                         *)
(* SerialRing is shown to implement this module.                           *)
(***************************************************************************)
EXTENDS Naturals, Sequences

CONSTANTS
  Byte,      \* the values a byte can have
  NoByte,    \* what read() answers when nothing is waiting (-1 in the code)
  Capacity   \* how many bytes can wait

VARIABLES
  arriving,  \* bytes from the line that are not in the queue yet
  queue,     \* the bytes waiting, oldest first
  got,       \* the answer of the last read()
  open       \* FALSE once end() has cleared the port

fifoVars == <<arriving, queue, got, open>>

Init ==
  /\ arriving = <<>>
  /\ queue = <<>>
  /\ got = NoByte
  /\ open = TRUE

Arrive ==
  /\ open
  /\ arriving = <<>>
  /\ arriving' \in Seq(Byte)
  /\ UNCHANGED <<queue, got, open>>

Put ==
  /\ open
  /\ arriving # <<>>
  /\ Len(queue) < Capacity
  /\ queue' = Append(queue, Head(arriving))
  /\ arriving' = Tail(arriving)
  /\ UNCHANGED <<got, open>>

Refuse ==
  /\ open
  /\ arriving # <<>>
  /\ Len(queue) = Capacity
  /\ arriving' = Tail(arriving)
  /\ UNCHANGED <<queue, got, open>>

Get ==
  /\ open
  /\ queue # <<>>
  /\ got' = Head(queue)
  /\ queue' = Tail(queue)
  /\ UNCHANGED <<arriving, open>>

GetNothing ==
  /\ open
  /\ queue = <<>>
  /\ got' = NoByte
  /\ UNCHANGED <<arriving, queue, open>>

Close ==
  /\ open
  /\ open' = FALSE
  /\ arriving' = <<>>
  /\ queue' = <<>>
  /\ UNCHANGED got

GetAfterClose ==
  /\ ~open
  /\ got' \in Byte \cup {NoByte}
  /\ UNCHANGED <<arriving, queue, open>>

Next == Arrive \/ Put \/ Refuse \/ Get \/ GetNothing \/ Close \/ GetAfterClose

Spec == Init /\ [][Next]_fifoVars

=============================================================================
