--------------------------- MODULE GroundLinkProofs ---------------------------
(***************************************************************************)
(* Theorems about GroundLink for any number of threads of each kind, any   *)
(* messages and any order of them.                                         *)
(*                                                                         *)
(* Types, receivers and the second connect() need no priorities; that the  *)
(* loop is not torn and what is accepted is true do (LoopInv, True).       *)
(***************************************************************************)
EXTENDS GroundLink, TLAPS

\* The bytes are those of the message that the checksum is right for.
True(m) ==
  m.sum \in Ids \ {"HEARTBEAT"} => m.id = m.sum /\ m.payload = m.sum

\* How far the loop's message has come.
LoopInv ==
  /\ place["loop"] \in {"top", "id", "finalize", "buffer", "send"}
  /\ place["loop"] \in {"id", "finalize"} => m_msg.payload = next
  /\ place["loop"] = "finalize" => m_msg.id = next
  /\ place["loop"] = "buffer" => m_msg = Whole(next)
  /\ place["loop"] = "send" => m_buf = Whole(next) /\ len["loop"] = Length[next]

\* A receiver that answers has an answer to send.
AnswersInv ==
  \A r \in Receivers :
    /\ place[r] \in {"off", "top", "answer", "send", "ended"}
    /\ place[r] \in {"answer", "send"} => left[r] # 0

LinkInv == TypeOK /\ AnswersInv /\ True(m_msg) /\ True(m_buf) /\ LoopInv
-----------------------------------------------------------------------------
LEMMA LoopIsAThread ==
  /\ "loop" \in Threads
  /\ Heartbeats \subseteq Threads /\ Receivers \subseteq Threads
  /\ "loop" \notin Heartbeats /\ "loop" \notin Receivers
BY LinkAssumption DEF Threads

LEMMA WholeIsBytes == \A i \in Ids : Whole(i) \in Bytes
BY LinkAssumption DEF Whole, Bytes

LEMMA PackedIsId ==
  ASSUME TypeOK, NEW t
  PROVE  Packed(t) \in Ids /\ Length[Packed(t)] \in {Length[i] : i \in Ids}
BY DEF TypeOK, Packed, Ids

\* Every step keeps the types: who may run does not matter.
LEMMA TypesStay == TypeOK /\ AnswersInv /\ [Next]_vars => TypeOK'
<1> SUFFICES ASSUME TypeOK, AnswersInv, [Next]_vars PROVE TypeOK'
  OBVIOUS
<1> /\ "loop" \in Threads /\ "loop" \notin Heartbeats /\ "loop" \notin Receivers
    /\ Heartbeats \subseteq Threads /\ Receivers \subseteq Threads
  BY LoopIsAThread
<1>1. CASE Main
  <2>1. main' \in {"disconnect", "heartbeat", "receive", "wait"}
    BY <1>1 DEF Main, Disconnect, ConnectHeartbeat, ConnectReceive
  <2>2. executing' \in [heartbeat : BOOLEAN, receive : BOOLEAN]
    <3>1. executing \in [heartbeat : BOOLEAN, receive : BOOLEAN]
      BY DEF TypeOK
    <3>2. CASE Disconnect
      BY <3>2 DEF Disconnect
    <3>3. CASE ConnectHeartbeat
      BY <3>1, <3>3 DEF ConnectHeartbeat
    <3>4. CASE ConnectReceive
      BY <3>1, <3>4 DEF ConnectReceive
    <3> QED
      BY <1>1, <3>2, <3>3, <3>4 DEF Main
  <2>3. place' \in [Threads -> {"off", "top", "id", "finalize", "buffer",
                                "answer", "send", "ended"}]
    BY <1>1 DEF Main, Disconnect, ConnectHeartbeat, ConnectReceive, StartThreads, TypeOK
  <2>4. UNCHANGED <<next, left, len, m_msg, m_buf>>
    BY <1>1 DEF Main, Disconnect, ConnectHeartbeat, ConnectReceive
  <2> QED
    BY <2>1, <2>2, <2>3, <2>4 DEF TypeOK
<1>2. ASSUME NEW t \in Threads, PutPayload(t) PROVE TypeOK'
  <2>1. m_msg' \in Bytes
    BY <1>2, PackedIsId DEF PutPayload, TypeOK, Bytes
  <2> QED
    BY <1>2, <2>1 DEF PutPayload, Goto, TypeOK
<1>3. ASSUME NEW t \in Threads, PutId(t) PROVE TypeOK'
  <2>1. m_msg' \in Bytes
    BY <1>3, PackedIsId DEF PutId, TypeOK, Bytes
  <2> QED
    BY <1>3, <2>1 DEF PutId, Goto, TypeOK
<1>4. ASSUME NEW t \in Threads, Finalize(t) PROVE TypeOK'
  <2>1. m_msg' \in Bytes
    BY <1>4, PackedIsId DEF Finalize, TypeOK, Bytes
  <2> QED
    BY <1>4, <2>1 DEF Finalize, Goto, TypeOK
<1>5. ASSUME NEW t \in Threads, ToSendBuffer(t) PROVE TypeOK'
  <2>1. m_msg.len \in {Length[i] : i \in Ids} \union {0}
    BY DEF TypeOK, Bytes
  <2> QED
    BY <1>5, <2>1 DEF ToSendBuffer, Goto, TypeOK
<1>6. ASSUME NEW t \in Threads, SendMessage(t) PROVE TypeOK'
  <2>1. next' \in LoopMessages
    BY <1>6, LinkAssumption DEF SendMessage, TypeOK
  <2> QED
    BY <1>6, <2>1 DEF SendMessage, Sent, Goto, TypeOK
<1>7. ASSUME NEW t \in Threads, End(t) PROVE TypeOK'
  BY <1>7 DEF End, Goto, TypeOK
<1>8. ASSUME NEW t \in Receivers, Receive(t) PROVE TypeOK'
  <2>1. left' \in [Receivers -> 0 .. Count]
    BY <1>8, LinkAssumption DEF Receive, TypeOK
  <2> QED
    BY <1>8, <2>1 DEF Receive, Goto, TypeOK
<1>9. ASSUME NEW t \in Receivers, Answer(t) PROVE TypeOK'
  BY <1>9, WholeIsBytes DEF Answer, Goto, TypeOK, Ids
<1>10. ASSUME NEW t \in Receivers, SendAnswer(t) PROVE TypeOK'
  <2>1. left' \in [Receivers -> 0 .. Count]
    BY <1>10, LinkAssumption DEF SendAnswer, Sent, AnswersInv, TypeOK
  <2> QED
    BY <1>10, <2>1 DEF SendAnswer, Sent, Goto, TypeOK
<1>11. CASE UNCHANGED vars
  BY <1>11 DEF vars, TypeOK
<1> QED
  BY <1>1, <1>2, <1>3, <1>4, <1>5, <1>6, <1>7, <1>8, <1>9, <1>10, <1>11
  DEF Next, Sender, Receiver

LEMMA AnswersStay == TypeOK /\ AnswersInv /\ [Next]_vars => AnswersInv'
<1> SUFFICES ASSUME TypeOK, AnswersInv, [Next]_vars, NEW r \in Receivers
             PROVE  /\ place'[r] \in {"off", "top", "answer", "send", "ended"}
                    /\ place'[r] \in {"answer", "send"} => left'[r] # 0
  BY DEF AnswersInv
<1> /\ "loop" \in Threads /\ "loop" \notin Heartbeats /\ "loop" \notin Receivers
    /\ Heartbeats \subseteq Threads /\ Receivers \subseteq Threads
  BY LoopIsAThread
<1>1. CASE Main
  BY <1>1 DEF Main, Disconnect, ConnectHeartbeat, ConnectReceive, StartThreads,
              TypeOK, AnswersInv
<1>2. ASSUME NEW t \in Heartbeats \union {"loop"}, Sender(t)
      PROVE  left' = left /\ place'[r] = place[r]
  <2>1. t # r
    BY LinkAssumption
  <2> QED
    BY <1>2, <2>1 DEF Sender, PutPayload, PutId, Finalize, ToSendBuffer, SendMessage,
                      Sent, End, Goto, TypeOK
<1>3. ASSUME NEW t \in Receivers, Receiver(t), t # r
      PROVE  left'[r] = left[r] /\ place'[r] = place[r]
  BY <1>3 DEF Receiver, Receive, Answer, SendAnswer, Sent, End, Goto, TypeOK
<1>4. CASE Receive(r)
  BY <1>4, LinkAssumption DEF Receive, Goto, TypeOK
<1>5. CASE Answer(r)
  BY <1>5 DEF Answer, Goto, TypeOK, AnswersInv
<1>6. CASE SendAnswer(r)
  BY <1>6, LinkAssumption DEF SendAnswer, Sent, Goto, TypeOK, AnswersInv
<1>7. CASE End(r)
  BY <1>7 DEF End, Goto, TypeOK
<1>8. CASE UNCHANGED vars
  BY <1>8 DEF vars, AnswersInv
<1> QED
  BY <1>1, <1>2, <1>3, <1>4, <1>5, <1>6, <1>7, <1>8 DEF Next, Receiver, AnswersInv
-----------------------------------------------------------------------------
(* Under the loop's priority. *)

\* While the loop packs, the others wait.
LEMMA OthersWait ==
  ASSUME RealTime, NEW t \in Threads, t # "loop", MayRun(t)
  PROVE  place["loop"] = "top"
BY DEF MayRun

LEMMA LoopStays ==
  ASSUME RealTime, TypeOK, LoopInv, Sender("loop") PROVE LoopInv'
<1> "loop" \in Threads
  BY LoopIsAThread
<1>1. CASE PutPayload("loop")
  BY <1>1 DEF PutPayload, Packed, Goto, TypeOK, Bytes, LoopInv
<1>2. CASE PutId("loop")
  BY <1>2 DEF PutId, Packed, Goto, TypeOK, Bytes, LoopInv
<1>3. CASE Finalize("loop")
  <2>1. m_msg' = Whole(next)
    BY <1>3 DEF Finalize, Packed, TypeOK, Bytes, LoopInv, Whole
  <2> QED
    BY <1>3, <2>1 DEF Finalize, Goto, TypeOK, LoopInv
<1>4. CASE ToSendBuffer("loop")
  BY <1>4 DEF ToSendBuffer, Goto, TypeOK, LoopInv, Whole
<1>5. CASE SendMessage("loop")
  <2>1. place'["loop"] = "top"
    BY <1>5 DEF SendMessage, Goto, TypeOK
  <2> QED
    BY <2>1 DEF LoopInv
<1>6. CASE End("loop")
  BY <1>6 DEF End, Executing
<1> QED
  BY <1>1, <1>2, <1>3, <1>4, <1>5, <1>6 DEF Sender

LEMMA LoopIsLeftAlone ==
  ASSUME RealTime, TypeOK, LoopInv, [Next]_vars, ~Sender("loop") PROVE LoopInv'
<1> /\ "loop" \in Threads /\ "loop" \notin Heartbeats /\ "loop" \notin Receivers
    /\ Heartbeats \subseteq Threads /\ Receivers \subseteq Threads
    /\ Second \subseteq Heartbeats \union Receivers
  BY LoopIsAThread, LinkAssumption
<1>1. CASE Main
  BY <1>1 DEF Main, Disconnect, ConnectHeartbeat, ConnectReceive, StartThreads,
              TypeOK, LoopInv
<1>2. ASSUME NEW t \in Heartbeats, Sender(t) PROVE LoopInv'
  <2>1. MayRun(t)
    BY <1>2 DEF Sender, PutPayload, PutId, Finalize, ToSendBuffer, SendMessage, Sent, End
  <2>2. place'["loop"] = "top"
    BY <1>2, <2>1, OthersWait
    DEF Sender, PutPayload, PutId, Finalize, ToSendBuffer, SendMessage, End, Goto, TypeOK
  <2> QED
    BY <2>2 DEF LoopInv
<1>3. ASSUME NEW t \in Receivers, Receiver(t) PROVE LoopInv'
  <2>1. MayRun(t)
    BY <1>3 DEF Receiver, Receive, Answer, SendAnswer, Sent, End
  <2>2. place'["loop"] = "top"
    BY <1>3, <2>1, OthersWait DEF Receiver, Receive, Answer, SendAnswer, End, Goto, TypeOK
  <2> QED
    BY <2>2 DEF LoopInv
<1>4. CASE UNCHANGED vars
  BY <1>4 DEF vars, LoopInv
<1> QED
  BY <1>1, <1>2, <1>3, <1>4 DEF Next

LEMMA MessagesStayTrue ==
  ASSUME TypeOK, LoopInv, True(m_msg), True(m_buf), [Next]_vars
  PROVE  True(m_msg)' /\ True(m_buf)'
<1> Ids \ {"HEARTBEAT"} = LoopMessages \union {"PARAM_VALUE"} /\ "none" \notin Ids
  BY LinkAssumption DEF Ids
<1>1. ASSUME NEW t \in Heartbeats \union {"loop"}, PutPayload(t)
      PROVE  True(m_msg)' /\ True(m_buf)'
  BY <1>1 DEF PutPayload, Packed, TypeOK, Bytes, True
<1>2. ASSUME NEW t \in Heartbeats \union {"loop"}, PutId(t)
      PROVE  True(m_msg)' /\ True(m_buf)'
  BY <1>2 DEF PutId, Packed, TypeOK, Bytes, True
<1>3. ASSUME NEW t \in Heartbeats \union {"loop"}, Finalize(t)
      PROVE  True(m_msg)' /\ True(m_buf)'
  BY <1>3 DEF Finalize, Packed, TypeOK, Bytes, True, LoopInv
<1>4. ASSUME NEW t \in Heartbeats \union {"loop"},
             ToSendBuffer(t) \/ SendMessage(t) \/ End(t)
      PROVE  True(m_msg)' /\ True(m_buf)'
  BY <1>4 DEF ToSendBuffer, SendMessage, Sent, End, True
<1>5. ASSUME NEW t \in Receivers, Receiver(t)
      PROVE  True(m_msg)' /\ True(m_buf)'
  BY <1>5 DEF Receiver, Receive, Answer, SendAnswer, Sent, End, Whole, True
<1>6. CASE Main \/ UNCHANGED vars
  BY <1>6 DEF Main, Disconnect, ConnectHeartbeat, ConnectReceive, vars, True
<1> QED
  BY <1>1, <1>2, <1>3, <1>4, <1>5, <1>6 DEF Next, Sender
-----------------------------------------------------------------------------
LEMMA LinkStarts == Init => LinkInv
<1> SUFFICES ASSUME Init PROVE LinkInv
  OBVIOUS
<1>1. TypeOK
  BY LinkAssumption DEF Init, Zeroed, TypeOK, Bytes, Ids, Threads
<1>2. True(m_msg) /\ True(m_buf)
  BY LinkAssumption DEF Init, Zeroed, True, Ids
<1>3. AnswersInv /\ LoopInv
  BY LoopIsAThread, LinkAssumption DEF Init, AnswersInv, LoopInv
<1> QED
  BY <1>1, <1>2, <1>3 DEF LinkInv

\* Every message and counter keeps its type, and no receiver answers more than
\* the registry holds, whether or not the loop has its priority.
THEOREM LinkTypeCorrect == Spec => []TypeOK
<1>1. Init => TypeOK /\ AnswersInv
  BY LinkStarts DEF LinkInv
<1>2. TypeOK /\ AnswersInv /\ [Next]_vars => (TypeOK /\ AnswersInv)'
  BY TypesStay, AnswersStay
<1> QED
  BY <1>1, <1>2, PTL DEF Spec

LEMMA LinkInvariant == ASSUME RealTime PROVE Spec => []LinkInv
<1>1. LinkInv /\ [Next]_vars => LinkInv'
  <2> SUFFICES ASSUME LinkInv, [Next]_vars PROVE LinkInv'
    OBVIOUS
  <2> TypeOK /\ AnswersInv /\ True(m_msg) /\ True(m_buf) /\ LoopInv
    BY DEF LinkInv
  <2>1. TypeOK' /\ AnswersInv'
    BY TypesStay, AnswersStay
  <2>2. LoopInv'
    BY LoopStays, LoopIsLeftAlone
  <2> QED
    BY <2>1, <2>2, MessagesStayTrue DEF LinkInv
<1> QED
  BY <1>1, LinkStarts, PTL DEF Spec

\* With its priority the loop sends its own messages, whole, however many
\* heartbeats and receivers share m_msg and m_buf with it.
THEOREM LoopIsNotTorn == ASSUME RealTime PROVE Spec => []LoopSendsWhole
<1>1. LinkInv => LoopSendsWhole
  BY DEF LinkInv, LoopInv, LoopSendsWhole
<1> QED
  BY <1>1, LinkInvariant, PTL

\* With that priority what the station accepts, but for heartbeats, is what it
\* says it is.
THEOREM AcceptedMessagesAreTrue == ASSUME RealTime PROVE Spec => []AcceptedIsTrue
<1>1. LinkInv => AcceptedIsTrue
  BY LinkAssumption DEF LinkInv, TypeOK, Bytes, True, AcceptedIsTrue
<1> QED
  BY <1>1, LinkInvariant, PTL
-----------------------------------------------------------------------------
(* The second connect(). *)

\* What connect() has started goes on: its flag is set before its thread is
\* started and is not cleared again, whatever threads of the first connect()
\* are still running.
SecondGoesOn ==
  /\ main \in {"receive", "wait"} =>
       /\ executing.heartbeat = TRUE
       /\ \A h \in Heartbeats \intersect Second : place[h] \notin {"off", "ended"}
  /\ main = "wait" =>
       /\ executing.receive = TRUE
       /\ \A r \in Receivers \intersect Second : place[r] \notin {"off", "ended"}

LEMMA SecondStarts ==
  ASSUME TypeOK, SecondGoesOn, Main PROVE SecondGoesOn'
<1>1. CASE Disconnect
  BY <1>1 DEF Disconnect, SecondGoesOn
<1>2. CASE ConnectHeartbeat
  <2>1. main' = "receive" /\ executing'.heartbeat = TRUE
    BY <1>2 DEF ConnectHeartbeat, TypeOK
  <2>2. \A h \in Heartbeats \intersect Second : place'[h] = "top"
    BY <1>2, LoopIsAThread DEF ConnectHeartbeat, StartThreads
  <2> QED BY <2>1, <2>2 DEF SecondGoesOn
<1>3. CASE ConnectReceive
  <2>1. executing'.heartbeat = TRUE /\ executing'.receive = TRUE
    BY <1>3 DEF ConnectReceive, SecondGoesOn, TypeOK
  <2>2. \A r \in Receivers \intersect Second : place'[r] = "top"
    BY <1>3, LoopIsAThread DEF ConnectReceive, StartThreads
  <2>3. \A h \in Heartbeats \intersect Second : place'[h] = place[h]
    BY <1>3, LoopIsAThread, LinkAssumption DEF ConnectReceive, StartThreads
  <2> QED BY <1>3, <2>1, <2>2, <2>3 DEF SecondGoesOn, ConnectReceive
<1> QED BY <1>1, <1>2, <1>3 DEF Main

\* A thread that moves was running, and ends only when its flag is cleared.
LEMMA RunningMoves ==
  ASSUME TypeOK, NEW t \in Threads, Sender(t) \/ Receiver(t)
  PROVE  /\ UNCHANGED <<main, executing>>
         /\ \A s \in Threads : s # t => place'[s] = place[s]
         /\ place'[t] \notin {"off", "ended"} \/ End(t)
<1>1. CASE PutPayload(t) \/ PutId(t) \/ Finalize(t) \/ ToSendBuffer(t) \/ SendMessage(t)
  BY <1>1 DEF PutPayload, PutId, Finalize, ToSendBuffer, SendMessage, Sent, Goto, TypeOK
<1>2. CASE Receive(t) \/ Answer(t) \/ SendAnswer(t)
  BY <1>2 DEF Receive, Answer, SendAnswer, Sent, Goto, TypeOK
<1>3. CASE End(t)
  BY <1>3 DEF End, Goto, TypeOK
<1> QED BY <1>1, <1>2, <1>3 DEF Sender, Receiver

LEMMA SecondStays == TypeOK /\ SecondGoesOn /\ [Next]_vars => SecondGoesOn'
<1> SUFFICES ASSUME TypeOK, SecondGoesOn, [Next]_vars PROVE SecondGoesOn'
  OBVIOUS
<1>1. ASSUME NEW t \in Threads, Sender(t) \/ Receiver(t) PROVE SecondGoesOn'
  <2>1. /\ UNCHANGED <<main, executing>>
        /\ \A s \in Threads : s # t => place'[s] = place[s]
        /\ place'[t] \notin {"off", "ended"} \/ End(t)
    BY <1>1, RunningMoves
  <2>2. ASSUME t \in Heartbeats, End(t) PROVE executing.heartbeat # TRUE
    BY <2>2, LinkAssumption DEF End, Executing
  <2>3. ASSUME t \in Receivers, End(t) PROVE executing.receive # TRUE
    BY <2>3, LinkAssumption DEF End, Executing
  <2> QED BY <2>1, <2>2, <2>3, LoopIsAThread DEF SecondGoesOn
<1>2. CASE Main
  BY <1>2, SecondStarts
<1>3. CASE UNCHANGED vars
  BY <1>3 DEF vars, SecondGoesOn
<1> QED BY <1>1, <1>2, <1>3, LoopIsAThread DEF Next

\* No thread that the second connect() starts is lost: none of them ends,
\* although main() cleared the flags while threads of the first were anywhere
\* in their loops (cDataLink.cpp:41-82, 428-436).  That one of them also sends
\* again and again is HeartbeatsGoOn.
THEOREM SecondConnectHolds == Spec => []SecondGoesOn
<1>1. Init => TypeOK /\ AnswersInv /\ SecondGoesOn
  BY LinkStarts DEF LinkInv, Init, SecondGoesOn
<1>2. TypeOK /\ AnswersInv /\ SecondGoesOn /\ [Next]_vars
      => (TypeOK /\ AnswersInv /\ SecondGoesOn)'
  BY TypesStay, AnswersStay, SecondStays
<1> QED
  BY <1>1, <1>2, PTL DEF Spec
=============================================================================
