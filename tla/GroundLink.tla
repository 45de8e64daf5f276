------------------------------ MODULE GroundLink ------------------------------
(***************************************************************************)
(* The messages to the ground station, cDataLink and datalink_module.      *)
(*                                                                         *)
(*   heartbeats  heartbeat_loop(), one thread of each connect()            *)
(*   receivers   receive_loop() with handleMessage(), likewise             *)
(*   loop        datalink_module::loop(), which sends the sensors' values  *)
(*   main        calls connect() again: the constructor has connected      *)
(*                                                                         *)
(* Heartbeats and loop pack into one m_msg, all send from one m_buf, and   *)
(* nothing is locked.  Threads of the first connect() that sleep while     *)
(* their flag is cleared go on beside those of the second.  The station    *)
(* drops a datagram without a message whose length and checksum are right. *)
(* A copy or a checksum that another thread interrupts only makes more     *)
(* datagrams the station drops: each is one step.                          *)
(*                                                                         *)
(* The model starts when start() has set the loop's priority.              *)
(***************************************************************************)
EXTENDS Integers

CONSTANTS
  Heartbeats, Receivers, \* threads
  Second,                \* those of them that main's connect() starts
  LoopMessages,          \* what send_messages() sends,
  FirstMessage,          \* in turn
  Following,
  Length,                \* of each kind of message
  Count,                 \* parameters in the registry
  RealTime               \* the loop has got its priority, on the one core

Threads == Heartbeats \union Receivers \union {"loop"}
Ids == LoopMessages \union {"HEARTBEAT", "PARAM_VALUE"}

ASSUME LinkAssumption ==
  /\ Heartbeats \intersect Receivers = {}
  /\ "loop" \notin Heartbeats \union Receivers
  /\ Second \subseteq Heartbeats \union Receivers
  /\ LoopMessages \intersect {"HEARTBEAT", "PARAM_VALUE", "none"} = {}
  /\ FirstMessage \in LoopMessages
  /\ Following \in [LoopMessages -> LoopMessages]
  /\ Length \in [Ids -> Nat \ {0}]
  /\ Count \in Nat \ {0}
  /\ RealTime \in BOOLEAN

VARIABLES
  main,          \* where main() is
  place,         \* where each thread is
  executing,     \* execute_heartbeat_thread, execute_receive_thread
  next,          \* the message the loop sends next
  left,          \* of each receiver: answers it has still to send
  len,           \* of each thread: what sendto() will send
  m_msg,         \* id; payload: whose bytes are in it; len; sum: the kind the
                 \* checksum is right for, or "none"
  m_buf          \* likewise

vars == <<main, place, executing, next, left, len, m_msg, m_buf>>

\* The text of each message a thread packs; heartbeats are all alike.
Packed(t) == IF t = "loop" THEN next ELSE "HEARTBEAT"
Whole(i) == [id |-> i, payload |-> i, len |-> Length[i], sum |-> i]

Goto(t, p) == place' = [place EXCEPT ![t] = p]

\* Mutant of MayRun: the loop has no priority after all.
MayRunAnyTime(t) == TRUE

\* While the loop runs nobody else does.  Between two messages it may wait for
\* the sensors' locks, and after the last it sleeps.
MayRun(t) == RealTime => t = "loop" \/ place["loop"] = "top"

Executing(t) ==
  \/ t = "loop"
  \/ t \in Heartbeats /\ executing.heartbeat
  \/ t \in Receivers /\ executing.receive
-----------------------------------------------------------------------------
(* main: connect(), which calls disconnect(). *)

Disconnect ==
  /\ MayRun("main")
  /\ main = "disconnect"
  /\ main' = "heartbeat"
  /\ executing' = [heartbeat |-> FALSE, receive |-> FALSE]
  /\ UNCHANGED <<place, next, left, len, m_msg, m_buf>>

StartThreads(S) ==
  place' = [t \in Threads |-> IF t \in S \intersect Second THEN "top" ELSE place[t]]

\* Mutant of ConnectHeartbeat: the flag is set after the thread has started.
ConnectHeartbeatThenFlag ==
  /\ MayRun("main")
  /\ main = "heartbeat"
  /\ IF \E h \in Heartbeats : place[h] = "off"
       THEN StartThreads(Heartbeats) /\ UNCHANGED <<main, executing>>
       ELSE /\ executing' = [executing EXCEPT !.heartbeat = TRUE]
            /\ main' = "receive"
            /\ UNCHANGED place
  /\ UNCHANGED <<next, left, len, m_msg, m_buf>>

ConnectHeartbeat ==
  /\ MayRun("main")
  /\ main = "heartbeat"
  /\ main' = "receive"
  /\ executing' = [executing EXCEPT !.heartbeat = TRUE]
  /\ StartThreads(Heartbeats)
  /\ UNCHANGED <<next, left, len, m_msg, m_buf>>

ConnectReceive ==
  /\ MayRun("main")
  /\ main = "receive"
  /\ main' = "wait"
  /\ executing' = [executing EXCEPT !.receive = TRUE]
  /\ StartThreads(Receivers)
  /\ UNCHANGED <<next, left, len, m_msg, m_buf>>
-----------------------------------------------------------------------------
(* Heartbeats and loop: mavlink_msg_..._pack() copies the payload, sets the *)
(* message's id and calls mavlink_finalize_message().                       *)

PutPayload(t) ==
  /\ MayRun(t)
  /\ place[t] = "top" /\ Executing(t)
  /\ m_msg' = [m_msg EXCEPT
       !.payload = Packed(t),
       !.sum = IF t # "loop" /\ m_msg.payload = "HEARTBEAT" THEN m_msg.sum ELSE "none"]
  /\ Goto(t, "id")
  /\ UNCHANGED <<main, executing, next, left, len, m_buf>>

PutId(t) ==
  /\ MayRun(t)
  /\ place[t] = "id"
  /\ m_msg' = [m_msg EXCEPT
       !.id = Packed(t),
       !.sum = IF m_msg.id = Packed(t) THEN m_msg.sum ELSE "none"]
  /\ Goto(t, "finalize")
  /\ UNCHANGED <<main, executing, next, left, len, m_buf>>

\* The checksum is over what is there by now, and has a part of its own for
\* each kind of message.
Finalize(t) ==
  /\ MayRun(t)
  /\ place[t] = "finalize"
  /\ m_msg' = [m_msg EXCEPT
       !.len = Length[Packed(t)],
       !.sum = IF m_msg.id = Packed(t) THEN Packed(t) ELSE "none"]
  /\ Goto(t, "buffer")
  /\ UNCHANGED <<main, executing, next, left, len, m_buf>>

\* mavlink_msg_to_send_buffer() returns the length of what is in m_msg.
ToSendBuffer(t) ==
  /\ MayRun(t)
  /\ place[t] = "buffer"
  /\ m_buf' = m_msg
  /\ len' = [len EXCEPT ![t] = m_msg.len]
  /\ Goto(t, "send")
  /\ UNCHANGED <<main, executing, next, left, m_msg>>
-----------------------------------------------------------------------------
(* Receivers.  A request for one parameter or the setting of one is        *)
(* answered once, a request for the list once for each parameter; what     *)
(* cannot be parsed, or names no parameter, not at all.                    *)

Receive(t) ==
  /\ MayRun(t)
  /\ place[t] = "top" /\ Executing(t)
  /\ \E n \in {1, Count} : left' = [left EXCEPT ![t] = n]
  /\ Goto(t, "answer")
  /\ UNCHANGED <<main, executing, next, len, m_msg, m_buf>>

\* The answer is packed into the receiver's own message.
Answer(t) ==
  /\ MayRun(t)
  /\ place[t] = "answer"
  /\ m_buf' = Whole("PARAM_VALUE")
  /\ len' = [len EXCEPT ![t] = Length["PARAM_VALUE"]]
  /\ Goto(t, "send")
  /\ UNCHANGED <<main, executing, next, left, m_msg>>
-----------------------------------------------------------------------------
(* All of them. *)

Sent(t) ==
  /\ MayRun(t)
  /\ place[t] = "send"
  /\ len' = [len EXCEPT ![t] = 0]
  /\ UNCHANGED <<main, executing, m_msg, m_buf>>

SendMessage(t) ==
  /\ Sent(t)
  /\ next' = IF t = "loop" THEN Following[next] ELSE next
  /\ Goto(t, "top")
  /\ UNCHANGED left

\* Mutant of SendAnswer: the loop over the parameters runs past the last.
SendAnswerPastLast(t) ==
  /\ Sent(t)
  /\ left' = [left EXCEPT ![t] = @ - 1]
  /\ Goto(t, IF left[t] >= 1 THEN "answer" ELSE "top")
  /\ UNCHANGED next

SendAnswer(t) ==
  /\ Sent(t)
  /\ left' = [left EXCEPT ![t] = @ - 1]
  /\ Goto(t, IF left[t] > 1 THEN "answer" ELSE "top")
  /\ UNCHANGED next

\* The thread finds its flag cleared.
End(t) ==
  /\ MayRun(t)
  /\ place[t] = "top" /\ ~Executing(t)
  /\ Goto(t, "ended")
  /\ UNCHANGED <<main, executing, next, left, len, m_msg, m_buf>>
-----------------------------------------------------------------------------
Zeroed == [id |-> "HEARTBEAT", payload |-> "none", len |-> 0, sum |-> "none"]

Init ==
  /\ main = "disconnect"
  /\ place = [t \in Threads |-> IF t \in Second THEN "off" ELSE "top"]
  /\ executing = [heartbeat |-> TRUE, receive |-> TRUE]
  /\ next = FirstMessage
  /\ left = [r \in Receivers |-> 0]
  /\ len = [t \in Threads |-> 0]
  /\ m_msg = Zeroed
  /\ m_buf = Zeroed

Main == Disconnect \/ ConnectHeartbeat \/ ConnectReceive

Sender(t) ==
  PutPayload(t) \/ PutId(t) \/ Finalize(t) \/ ToSendBuffer(t) \/ SendMessage(t) \/ End(t)

Receiver(t) == Receive(t) \/ Answer(t) \/ SendAnswer(t) \/ End(t)

Next ==
  \/ Main
  \/ \E t \in Heartbeats \union {"loop"} : Sender(t)
  \/ \E t \in Receivers : Receiver(t)

Spec == Init /\ [][Next]_vars

\* The loop's thread has the highest priority of these and sleeps between its
\* turns; meanwhile the scheduler gives the others their turns.
Fairness ==
  /\ WF_vars(Sender("loop"))
  /\ SF_vars(Main)
  /\ \A t \in Heartbeats : SF_vars(Sender(t))

FairSpec == Spec /\ Fairness
-----------------------------------------------------------------------------
Bytes == [id : Ids, payload : Ids \union {"none"},
          len : {Length[i] : i \in Ids} \union {0}, sum : Ids \union {"none"}]

TypeOK ==
  /\ main \in {"disconnect", "heartbeat", "receive", "wait"}
  /\ place \in [Threads -> {"off", "top", "id", "finalize", "buffer",
                            "answer", "send", "ended"}]
  /\ executing \in [heartbeat : BOOLEAN, receive : BOOLEAN]
  /\ next \in LoopMessages
  /\ left \in [Receivers -> 0 .. Count]
  /\ len \in [Threads -> {Length[i] : i \in Ids} \union {0}]
  /\ m_msg \in Bytes
  /\ m_buf \in Bytes

\* What the loop sends is its own message, whole, whatever the heartbeats and
\* receivers it has interrupted were doing with m_msg and m_buf
\* (cDataLink.cpp:280-292 between any two lines of 94-101).
LoopSendsWhole ==
  place["loop"] = "send" => m_buf = Whole(next) /\ len["loop"] = Length[next]

\* A datagram that the station accepts, other than as a heartbeat, holds the
\* message it says it holds, whoever sends it: a thread that goes on after the
\* loop sends the loop's message once more, or something the station drops.
\* Of a heartbeat this is not true: the loop may come between the payload and
\* the id.
AcceptedIsTrue ==
  \A t \in Threads :
    /\ place[t] = "send"
    /\ m_buf.sum = m_buf.id
    /\ m_buf.len <= len[t]
    /\ m_buf.id # "HEARTBEAT"
    => m_buf.payload = m_buf.id

\* One heartbeat thread goes on forever, although main() clears the flag and
\* sets it again while threads of the first connect() are running: the second
\* starts its thread when the flag is set (cDataLink.cpp:78-79).
HeartbeatsGoOn == \E h \in Heartbeats : []<><<SendMessage(h)>>_vars
=============================================================================
