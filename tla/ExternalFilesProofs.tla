------------------------ MODULE ExternalFilesProofs ------------------------
(***************************************************************************)
(* What holds of reading files through the client for any threads, answers *)
(* and numbers of requests.                                                *)
(*                                                                         *)
(* A thread, the main thread and the client share one request by its id    *)
(* only. The invariant follows that id: one thread at most asks for it     *)
(* (OneAsker), nobody knows it before it is drawn (NotDrawn), it goes out  *)
(* once and only after its entry is in the map (Written), and wherever its *)
(* answer is - in the stream, with the main thread, in the response, with  *)
(* the thread - it is what the client said (Told).                         *)
(***************************************************************************)
EXTENDS ExternalFiles, TLAPS

(* Threads are registered from their first loop until they leave.          *)
Running == \A t \in Thread : t \in registered <=> pc[t] \notin {"start", "ended"}

(* A thread asks for what it polls, what it has an entry for and what the  *)
(* main thread is about to give it.                                        *)
Asks(t, i) == wait[t] = i \/ <<i, t>> \in pending \/ (main.id = i /\ main.tid = t)

OneAsker == \A i \in Id, t, u \in Thread : Asks(t, i) /\ Asks(u, i) => t = u

NotDrawn ==
  \A i \in Id : i >= nextId =>
    i \notin requests /\ said[i] = None /\ \A t \in Thread : ~Asks(t, i)

(* What a thread is about to write has its entry and is not yet answered.  *)
Written ==
  /\ \A t \in Thread : pc[t] = "start" => wait[t] = None
  /\ \A t \in Thread : pc[t] = "write" =>
       /\ wait[t] \in Id /\ <<wait[t], t>> \in pending
       /\ wait[t] \notin requests /\ said[wait[t]] = None
  /\ \A i \in requests : said[i] = None

(* Wherever an answer is, it is the client's.                              *)
Told ==
  /\ \A j \in 1..Len(stream) :
       IF IsAnswer(stream[j])
         THEN /\ stream[j].id \in Id /\ stream[j].answer \in Answer
              /\ said[stream[j].id] = stream[j].answer
         ELSE stream[j].to \in Thread
  /\ main.id # None => said[main.id] = main.answer
  /\ \A i \in Id : response[i].resolved => response[i].data = said[i] /\ said[i] \in Answer
  /\ RightAnswer

IInv == TypeOK /\ Running /\ OneAsker /\ NotDrawn /\ Written /\ Told /\ NoAnswerIsLost

LEMMA NoneIsNoId == None \notin Id /\ Id \subseteq Nat
  BY ReaderAssumption DEF ReaderAssumption, Id

(* The first message of the stream and the rest.                           *)
LEMMA StreamFacts ==
  ASSUME TypeOK
  PROVE  /\ stream # <<>> =>
              /\ Len(stream) \in Nat \ {0} /\ Head(stream) = stream[1] /\ stream[1] \in Message
              /\ Tail(stream) \in Seq(Message) /\ Len(Tail(stream)) = Len(stream) - 1
              /\ \A j \in 1..(Len(stream) - 1) : Tail(stream)[j] = stream[j + 1]
         /\ \A m \in Message :
              /\ Append(stream, m) \in Seq(Message) /\ Len(Append(stream, m)) = Len(stream) + 1
              /\ Len(stream) \in Nat /\ Append(stream, m)[Len(stream) + 1] = m
              /\ \A j \in 1..Len(stream) : Append(stream, m)[j] = stream[j]
<1>1. stream \in Seq(Message)
  BY DEF TypeOK
<1> HIDE DEF Message
<1>2. ASSUME stream # <<>>
      PROVE  /\ Len(stream) \in Nat \ {0} /\ Head(stream) = stream[1] /\ stream[1] \in Message
             /\ Tail(stream) \in Seq(Message) /\ Len(Tail(stream)) = Len(stream) - 1
             /\ \A j \in 1..(Len(stream) - 1) : Tail(stream)[j] = stream[j + 1]
  BY <1>1, <1>2
<1>3. ASSUME NEW m \in Message
      PROVE  /\ Append(stream, m) \in Seq(Message) /\ Len(Append(stream, m)) = Len(stream) + 1
             /\ Len(stream) \in Nat /\ Append(stream, m)[Len(stream) + 1] = m
             /\ \A j \in 1..Len(stream) : Append(stream, m)[j] = stream[j]
  BY <1>1
<1> QED  BY <1>2, <1>3

(* While the main thread has an answer, it knows whose it is.              *)
LEMMA MainHas ==
  ASSUME TypeOK, main.step \notin {"read", "joining"}
  PROVE  /\ main.step \in {"data", "resolve", "wake"} /\ main.id \in Id
         /\ main.tid \in Thread /\ main.answer \in Answer
         /\ \A s : [main EXCEPT !.step = s] =
              [step |-> s, id |-> main.id, tid |-> main.tid, answer |-> main.answer]
<1>1. main \in [step : {"data", "resolve", "wake"}, id : Id, tid : Thread, answer : Answer]
  BY DEF TypeOK
<1>2. ASSUME NEW s
      PROVE  [main EXCEPT !.step = s] =
               [step |-> s, id |-> main.id, tid |-> main.tid, answer |-> main.answer]
  BY <1>1
<1> QED  BY <1>1, <1>2

-----------------------------------------------------------------------------
(* The threads' steps, but the request.                                    *)
LEMMA ThreadKeeps ==
  ASSUME IInv, NEW t \in Thread,
         Register(t) \/ Loop(t) \/ DropTask(t) \/ WriteRequest(t) \/ Continue(t) \/ Suspend(t)
           \/ Yield(t) \/ Read(t) \/ ReadNothing(t) \/ Leave(t)
  PROVE  IInv'
<1> USE ReaderAssumption, NoneIsNoId DEF reader, threads, client, IInv
<1>1. ASSUME Register(t) PROVE IInv'
  <2>1. TypeOK'
    BY <1>1 DEF Register, Goto, TypeOK
  <2>2. Running' /\ OneAsker' /\ NotDrawn' /\ Written'
    BY <1>1 DEF Register, Goto, TypeOK, Running, OneAsker, NotDrawn, Asks, Written
  <2>3. Told'
    BY <1>1 DEF Register, Goto, TypeOK, Told, RightAnswer, Written, IsAnswer
  <2>4. NoAnswerIsLost'
    BY <1>1 DEF Register, Goto, TypeOK, Running, OneAsker, NotDrawn, Written, Told, IsAnswer, NoAnswerIsLost, AnswerCanArrive, AnswerWakes, Asks, InStream, Providing, WillBlock
  <2> QED  BY <2>1, <2>2, <2>3, <2>4
<1>2. ASSUME Loop(t) PROVE IInv'
  <2>1. TypeOK'
    BY <1>2 DEF Loop, Goto, WillBlock, TypeOK
  <2>2. Running' /\ OneAsker' /\ NotDrawn' /\ Written'
    BY <1>2 DEF Loop, Goto, WillBlock, TypeOK, Running, OneAsker, NotDrawn, Asks, Written
  <2>3. Told'
    BY <1>2 DEF Loop, Goto, WillBlock, TypeOK, Told, RightAnswer, Written, IsAnswer
  <2>4. NoAnswerIsLost'
    BY <1>2 DEF Loop, Goto, WillBlock, TypeOK, Running, OneAsker, NotDrawn, Written, Told, IsAnswer, NoAnswerIsLost, AnswerCanArrive, AnswerWakes, Asks, InStream, Providing
  <2> QED  BY <2>1, <2>2, <2>3, <2>4
<1>3. ASSUME DropTask(t) PROVE IInv'
  <2>1. TypeOK'
    BY <1>3 DEF DropTask, TypeOK
  <2>2. Running' /\ OneAsker' /\ NotDrawn' /\ Written'
    BY <1>3 DEF DropTask, TypeOK, Running, OneAsker, NotDrawn, Asks, Written
  <2>3. Told'
    BY <1>3 DEF DropTask, TypeOK, Told, RightAnswer, Written, IsAnswer
  <2>4. NoAnswerIsLost'
    BY <1>3 DEF DropTask, TypeOK, Running, OneAsker, NotDrawn, Written, Told, IsAnswer, NoAnswerIsLost, AnswerCanArrive, AnswerWakes, Asks, InStream, Providing, WillBlock
  <2> QED  BY <2>1, <2>2, <2>3, <2>4
<1>4. ASSUME WriteRequest(t) PROVE IInv'
  <2>1. TypeOK'
    BY <1>4 DEF WriteRequest, Goto, TypeOK, Written
  <2>2. Running'
    BY <1>4 DEF WriteRequest, Goto, TypeOK, Running, Written
  <2>3. OneAsker' /\ NotDrawn'
    BY <1>4 DEF WriteRequest, Goto, TypeOK, OneAsker, NotDrawn, Asks, Written
  <2>4. Written'
    BY <1>4 DEF WriteRequest, Goto, TypeOK, Written, OneAsker, Asks
  <2>5. Told'
    BY <1>4 DEF WriteRequest, Goto, TypeOK, Told, RightAnswer, Written, IsAnswer
  <2>6. NoAnswerIsLost'
    BY <1>4 DEF WriteRequest, Goto, TypeOK, Running, OneAsker, NotDrawn, Written, Told, IsAnswer, NoAnswerIsLost, AnswerCanArrive, AnswerWakes, Asks, InStream, Providing, WillBlock
  <2> QED  BY <2>1, <2>2, <2>3, <2>4, <2>5, <2>6
<1>5. ASSUME Continue(t) PROVE IInv'
  <2>1. TypeOK'
    BY <1>5 DEF Continue, TypeOK, Told
  <2>2. Running'
    BY <1>5 DEF Continue, TypeOK, Running, Written
  <2>3. OneAsker' /\ NotDrawn'
    BY <1>5 DEF Continue, TypeOK, OneAsker, NotDrawn, Asks, Written
  <2>4. Written'
    BY <1>5 DEF Continue, TypeOK, Written, OneAsker, Asks
  <2>5. Told'
    BY <1>5 DEF Continue, TypeOK, Told, RightAnswer, IsAnswer
  <2>6. NoAnswerIsLost'
    BY <1>5 DEF Continue, TypeOK, Running, OneAsker, NotDrawn, Written, Told, IsAnswer, NoAnswerIsLost, AnswerCanArrive, AnswerWakes, Asks, InStream, Providing, WillBlock
  <2> QED  BY <2>1, <2>2, <2>3, <2>4, <2>5, <2>6
<1>6. ASSUME Suspend(t) PROVE IInv'
  <2>1. TypeOK'
    BY <1>6 DEF Suspend, Goto, TypeOK
  <2>2. Running'
    BY <1>6 DEF Suspend, Goto, TypeOK, Running, Written
  <2>3. OneAsker' /\ NotDrawn'
    BY <1>6 DEF Suspend, Goto, TypeOK, OneAsker, NotDrawn, Asks, Written
  <2>4. Written'
    BY <1>6 DEF Suspend, Goto, TypeOK, Written, OneAsker, Asks
  <2>5. Told'
    BY <1>6 DEF Suspend, Goto, TypeOK, Told, RightAnswer, Written, IsAnswer
  <2>6. NoAnswerIsLost'
    BY <1>6 DEF Suspend, Goto, TypeOK, Running, OneAsker, NotDrawn, Written, Told, IsAnswer, NoAnswerIsLost, AnswerCanArrive, AnswerWakes, Asks, InStream, Providing, WillBlock
  <2> QED  BY <2>1, <2>2, <2>3, <2>4, <2>5, <2>6
<1>7. ASSUME Yield(t) PROVE IInv'
  <2>1. TypeOK'
    BY <1>7 DEF Yield, Goto, WillBlock, TypeOK
  <2>2. Running' /\ OneAsker' /\ NotDrawn' /\ Written'
    BY <1>7 DEF Yield, Goto, WillBlock, TypeOK, Running, OneAsker, NotDrawn, Asks, Written
  <2>3. Told'
    BY <1>7 DEF Yield, Goto, WillBlock, TypeOK, Told, RightAnswer, Written, IsAnswer
  <2>4. NoAnswerIsLost'
    BY <1>7 DEF Yield, Goto, WillBlock, TypeOK, Running, OneAsker, NotDrawn, Written, Told, IsAnswer, NoAnswerIsLost, AnswerCanArrive, AnswerWakes, Asks, InStream, Providing
  <2> QED  BY <2>1, <2>2, <2>3, <2>4
<1>8. ASSUME Read(t) PROVE IInv'
  <2>1. TypeOK'
    BY <1>8 DEF Read, Goto, TypeOK
  <2>2. Running' /\ OneAsker' /\ NotDrawn' /\ Written'
    BY <1>8 DEF Read, Goto, TypeOK, Running, OneAsker, NotDrawn, Asks, Written
  <2>3. Told'
    BY <1>8 DEF Read, Goto, TypeOK, Told, RightAnswer, Written, IsAnswer
  <2>4. NoAnswerIsLost'
    BY <1>8 DEF Read, Goto, TypeOK, Running, OneAsker, NotDrawn, Written, Told, IsAnswer, NoAnswerIsLost, AnswerCanArrive, AnswerWakes, Asks, InStream, Providing, WillBlock
  <2> QED  BY <2>1, <2>2, <2>3, <2>4
<1>9. ASSUME ReadNothing(t) PROVE IInv'
  <2>1. TypeOK'
    BY <1>9 DEF ReadNothing, Goto, TypeOK
  <2>2. Running' /\ OneAsker' /\ NotDrawn' /\ Written'
    BY <1>9 DEF ReadNothing, Goto, TypeOK, Running, OneAsker, NotDrawn, Asks, Written
  <2>3. Told'
    BY <1>9 DEF ReadNothing, Goto, TypeOK, Told, RightAnswer, Written, IsAnswer
  <2>4. NoAnswerIsLost'
    BY <1>9 DEF ReadNothing, Goto, TypeOK, Running, OneAsker, NotDrawn, Written, Told, IsAnswer, NoAnswerIsLost, AnswerCanArrive, AnswerWakes, Asks, InStream, Providing, WillBlock
  <2> QED  BY <2>1, <2>2, <2>3, <2>4
<1>10. ASSUME Leave(t) PROVE IInv'
  <2>1. TypeOK'
    BY <1>10 DEF Leave, Goto, TypeOK
  <2>2. Running' /\ OneAsker' /\ NotDrawn' /\ Written'
    BY <1>10 DEF Leave, Goto, TypeOK, Running, OneAsker, NotDrawn, Asks, Written
  <2>3. Told'
    BY <1>10 DEF Leave, Goto, TypeOK, Told, RightAnswer, Written, IsAnswer
  <2>4. NoAnswerIsLost'
    BY <1>10 DEF Leave, Goto, TypeOK, Running, OneAsker, NotDrawn, Written, Told, IsAnswer, NoAnswerIsLost, AnswerCanArrive, AnswerWakes, Asks, InStream, Providing, WillBlock
  <2> QED  BY <2>1, <2>2, <2>3, <2>4
<1> QED  BY <1>1, <1>2, <1>3, <1>4, <1>5, <1>6, <1>7, <1>8, <1>9, <1>10

(* A request is a new one: its id has not been drawn.                      *)
LEMMA RequestKeeps ==
  ASSUME IInv, NEW t \in Thread, Request(t)
  PROVE  IInv'
<1> USE ReaderAssumption, NoneIsNoId DEF IInv
<1>1. /\ pc[t] = "idle" /\ t \notin dropped /\ wait[t] = None
      /\ nextId \in Id /\ nextId' = nextId + 1 /\ wait' = [wait EXCEPT ![t] = nextId]
      /\ pending' = pending \cup {<<nextId, t>>} /\ pc' = [pc EXCEPT ![t] = "write"]
      /\ UNCHANGED <<registered, response, got, dropped, queue, terminated, main, requests,
                     stream, said, messages>>
  BY DEF Request, Running, Goto, client
<1>2. TypeOK'
  <2>1. nextId + 1 \in 1..(MaxRequests + 1)
    BY <1>1 DEF Id, ReaderAssumption
  <2> QED  BY <1>1, <2>1 DEF TypeOK
<1>3. Running'
  BY <1>1 DEF Running, TypeOK
<1>4. \A u \in Thread : ~Asks(u, nextId) /\ nextId \notin requests /\ said[nextId] = None
  BY <1>1 DEF NotDrawn
<1>5. \A u \in Thread, i \in Id : Asks(u, i)' => Asks(u, i) \/ (u = t /\ i = nextId)
  BY <1>1 DEF Asks, TypeOK
<1>6. OneAsker'
  BY <1>4, <1>5 DEF OneAsker
<1>7. NotDrawn'
  BY <1>1, <1>5 DEF NotDrawn, Id
<1>8. Written'
  BY <1>1, <1>4 DEF Written, TypeOK
<1>9. Told'
  BY <1>1 DEF Told, RightAnswer, IsAnswer
<1>10. NoAnswerIsLost'
  BY <1>1 DEF NoAnswerIsLost, AnswerCanArrive, AnswerWakes, TypeOK, InStream, Providing, WillBlock, IsAnswer
<1> QED  BY <1>2, <1>3, <1>6, <1>7, <1>8, <1>9, <1>10

(* The main thread takes an answer to who asked for it, or a message.      *)
LEMMA ReceiveKeeps ==
  ASSUME IInv, Receive
  PROVE  IInv'
<1> USE ReaderAssumption, NoneIsNoId DEF IInv
<1> DEFINE msg == Head(stream)
           found == {r \in pending : IsAnswer(msg) /\ r[1] = msg.id}
<1>1. /\ main.step = "read" /\ stream # <<>> /\ stream' = Tail(stream)
      /\ pending' = pending \ found
      /\ UNCHANGED <<registered, nextId, response, pc, wait, got, dropped, requests, said, messages>>
  BY DEF Receive, threads
<1>2. /\ main.id = None /\ main.tid = None
  BY <1>1 DEF TypeOK
<1>3. /\ Len(stream) \in Nat \ {0} /\ msg = stream[1] /\ stream[1] \in Message
      /\ Tail(stream) \in Seq(Message) /\ Len(Tail(stream)) = Len(stream) - 1
      /\ \A j \in 1..(Len(stream) - 1) : Tail(stream)[j] = stream[j + 1]
  BY <1>1, StreamFacts
<1>4. /\ IF IsAnswer(msg)
           THEN msg.id \in Id /\ msg.answer \in Answer /\ said[msg.id] = msg.answer
           ELSE msg.to \in Thread
      /\ \A j \in 1..Len(stream') :
           IF IsAnswer(stream'[j])
             THEN /\ stream'[j].id \in Id /\ stream'[j].answer \in Answer
                  /\ said[stream'[j].id] = stream'[j].answer
             ELSE stream'[j].to \in Thread
  BY <1>1, <1>3 DEF Told
<1>5. /\ main' = IF IsAnswer(msg) /\ found # {}
                   THEN [step |-> "data", id |-> msg.id, answer |-> msg.answer,
                         tid |-> (CHOOSE r \in found : TRUE)[2]]
                   ELSE [Reading EXCEPT !.step =
                           IF ~IsAnswer(msg) /\ msg.kind = "eof" THEN "joining" ELSE "read"]
      /\ terminated' \in {terminated, Thread}
      /\ queue' = IF IsAnswer(msg) \/ msg.kind = "eof" THEN queue
                  ELSE [queue EXCEPT ![msg.to] = Append(@, msg.kind)]
  BY <1>2 DEF Receive, Reading, TypeOK
<1>6. ASSUME found # {}
      PROVE  /\ IsAnswer(msg) /\ main'.id = msg.id /\ main'.tid \in Thread
             /\ <<msg.id, main'.tid>> \in pending
  <2>1. PICK r \in found : r = (CHOOSE q \in found : TRUE)
    BY <1>6
  <2>2. r \in Id \X Thread /\ r[1] = msg.id /\ IsAnswer(msg)
    BY <2>1 DEF TypeOK
  <2> QED  BY <1>5, <2>1, <2>2
<1>7. \/ main' \in [step : {"read", "joining"}, id : {None}, tid : {None}, answer : {None}]
      \/ found # {} /\ main' = [step |-> "data", id |-> msg.id, answer |-> msg.answer, tid |-> main'.tid]
  BY <1>5, <1>6 DEF Reading
<1> HIDE DEF msg, found
<1>8. TypeOK'
  <2>1. queue' \in [Thread -> Seq({"discarded", Changed, Exit})]
    <3>1. CASE IsAnswer(msg) \/ msg.kind = "eof"
      BY <1>5, <3>1 DEF TypeOK
    <3>2. CASE ~(IsAnswer(msg) \/ msg.kind = "eof")
      <4>1. msg.kind \in {"discarded", Changed, Exit} /\ msg.to \in Thread
        BY <1>3, <1>4, <3>2 DEF Message, IsAnswer, msg
      <4>2. queue[msg.to] \in Seq({"discarded", Changed, Exit})
        BY <4>1 DEF TypeOK
      <4>3. Append(queue[msg.to], msg.kind) \in Seq({"discarded", Changed, Exit})
        BY <4>1, <4>2
      <4> QED  BY <1>5, <3>2, <4>1, <4>3 DEF TypeOK
    <3> QED  BY <3>1, <3>2
  <2>2. main' \in [step : {"read", "joining"}, id : {None}, tid : {None}, answer : {None}]
             \cup [step : {"data", "resolve", "wake"}, id : Id, tid : Thread, answer : Answer]
    BY <1>4, <1>6, <1>7
  <2>3. terminated' \subseteq Thread
    BY <1>5 DEF TypeOK
  <2>4. stream' \in Seq(Message) /\ pending' \subseteq Id \X Thread
    BY <1>1, <1>3 DEF TypeOK
  <2> QED  BY <1>1, <2>1, <2>2, <2>3, <2>4 DEF TypeOK
<1>9. \A u \in Thread, i \in Id : Asks(u, i)' => Asks(u, i)
  BY <1>1, <1>6, <1>7 DEF Asks
<1>10. Running' /\ OneAsker' /\ NotDrawn'
  BY <1>1, <1>9 DEF Running, OneAsker, NotDrawn
<1>11. \A i \in Id, u \in Thread :
         <<i, u>> \in pending /\ <<i, u>> \notin pending' => IsAnswer(msg) /\ i = msg.id /\ found # {}
  BY <1>1 DEF found
<1>12. Written'
  <2>1. ASSUME NEW u \in Thread, pc[u] = "write" PROVE <<wait[u], u>> \in pending'
    <3>1. wait[u] \in Id /\ <<wait[u], u>> \in pending /\ said[wait[u]] = None
      BY <2>1 DEF Written
    <3> QED  BY <1>4, <1>11, <3>1 DEF ReaderAssumption
  <2> QED  BY <1>1, <2>1 DEF Written
<1>13. Told'
  <2>1. main'.id # None => said'[main'.id] = main'.answer
    BY <1>1, <1>4, <1>6, <1>7
  <2> QED  BY <1>1, <1>4, <2>1 DEF Told, RightAnswer, IsAnswer
<1>14. AnswerCanArrive'
  <2> SUFFICES ASSUME NEW t \in registered, wait[t] # None, pc[t] # "write", ~response[wait[t]].resolved
               PROVE  \/ Providing(wait[t])' /\ main'.tid = t
                      \/ <<wait[t], t>> \in pending' /\ (wait[t] \in requests' \/ InStream(wait[t])')
    BY <1>1 DEF AnswerCanArrive
  <2>1. t \in Thread /\ wait[t] \in Id
    BY DEF TypeOK
  <2>2. <<wait[t], t>> \in pending /\ (wait[t] \in requests \/ InStream(wait[t]))
    BY <1>1 DEF NoAnswerIsLost, AnswerCanArrive, Providing
  <2>3. CASE IsAnswer(msg) /\ msg.id = wait[t]
    <3>1. found # {}
      BY <2>2, <2>3 DEF found
    <3>2. /\ main'.id = wait[t] /\ main'.step = "data" /\ main'.tid \in Thread
          /\ <<wait[t], main'.tid>> \in pending
      BY <1>6, <1>7, <2>3, <3>1
    <3>3. main'.tid = t
      BY <2>1, <2>2, <3>2 DEF OneAsker, Asks
    <3> QED  BY <1>1, <3>2, <3>3 DEF Providing
  <2>4. CASE ~(IsAnswer(msg) /\ msg.id = wait[t])
    <3>1. <<wait[t], t>> \in pending'
      BY <1>11, <2>1, <2>2, <2>4
    <3>2. ASSUME InStream(wait[t]) PROVE InStream(wait[t])'
      <4>1. PICK j \in 1..Len(stream) : IsAnswer(stream[j]) /\ stream[j].id = wait[t]
        BY <3>2 DEF InStream
      <4>2. j # 1
        BY <1>3, <2>4, <4>1
      <4>3. j - 1 \in 1..Len(stream') /\ stream'[j - 1] = stream[j]
        BY <1>1, <1>3, <4>1, <4>2
      <4> QED  BY <1>1, <4>1, <4>3 DEF InStream
    <3> QED  BY <1>1, <2>2, <3>1, <3>2
  <2> QED  BY <2>3, <2>4
<1>15. AnswerWakes'
  <2>1. ASSUME NEW t \in registered, WillBlock(t)' PROVE WillBlock(t)
    <3>1. t \in Thread /\ (terminated' = terminated \/ t \in terminated')
      BY <1>5 DEF TypeOK
    <3>2. CASE queue' = queue
      BY <2>1, <3>1, <3>2 DEF WillBlock
    <3>3. CASE queue' # queue
      <4>1. /\ queue' = [queue EXCEPT ![msg.to] = Append(@, msg.kind)]
            /\ queue[t] \in Seq({"discarded", Changed, Exit})
        BY <1>5, <3>1, <3>3 DEF TypeOK
      <4>2. msg.to = t => Len(queue'[t]) = Len(queue[t]) + 1 /\ Len(queue[t]) \in Nat
        BY <3>1, <4>1 DEF TypeOK
      <4>3. queue'[t] = <<>> => queue[t] = <<>>
        <5>1. CASE msg.to = t
          BY <4>2, <5>1
        <5>2. CASE msg.to # t
          BY <3>1, <4>1, <5>2 DEF TypeOK
        <5> QED  BY <5>1, <5>2
      <4> QED  BY <2>1, <3>1, <4>3 DEF WillBlock
    <3> QED  BY <3>2, <3>3
  <2> QED  BY <1>1, <2>1 DEF AnswerWakes, NoAnswerIsLost
<1> QED  BY <1>8, <1>10, <1>12, <1>13, <1>14, <1>15 DEF NoAnswerIsLost

(* The data, the resolution and the wakeup.                                *)
LEMMA ProvideKeeps ==
  ASSUME IInv, StoreData \/ Resolve \/ Wake
  PROVE  IInv'
<1> USE ReaderAssumption, NoneIsNoId DEF IInv, client, threads
<1>1. ASSUME StoreData PROVE IInv'
  <2>1. TypeOK'
    <3>1. /\ main.id \in Id /\ main.answer \in Answer /\ main.tid \in Thread
          /\ main' = [step |-> "resolve", id |-> main.id, tid |-> main.tid, answer |-> main.answer]
          /\ response' = [response EXCEPT ![main.id].data = main.answer]
      BY <1>1, MainHas DEF StoreData
    <3>2. response' \in [Id -> [data : Answer \cup {None}, resolved : BOOLEAN]]
      <4>1. response[main.id] \in [data : Answer \cup {None}, resolved : BOOLEAN]
        BY <3>1 DEF TypeOK
      <4>2. [response[main.id] EXCEPT !.data = main.answer] \in [data : Answer \cup {None}, resolved : BOOLEAN]
        BY <3>1, <4>1
      <4>3. response' = [response EXCEPT ![main.id] = [response[main.id] EXCEPT !.data = main.answer]]
        BY <3>1
      <4> QED  BY <3>1, <4>2, <4>3 DEF TypeOK
    <3> QED  BY <1>1, <3>1, <3>2 DEF StoreData, TypeOK
  <2>2. Running' /\ OneAsker' /\ NotDrawn' /\ Written'
    BY <1>1, MainHas DEF StoreData, TypeOK, Running, OneAsker, NotDrawn, Asks, Written
  <2>3. Told'
    BY <1>1, MainHas DEF StoreData, TypeOK, Told, RightAnswer, IsAnswer
  <2>4. NoAnswerIsLost'
    BY <1>1, MainHas DEF StoreData, TypeOK, NoAnswerIsLost, AnswerCanArrive, AnswerWakes, InStream, Providing, WillBlock, IsAnswer
  <2> QED  BY <2>1, <2>2, <2>3, <2>4
<1>2. ASSUME Resolve PROVE IInv'
  <2>1. TypeOK'
    BY <1>2, MainHas DEF Resolve, TypeOK
  <2>2. Running' /\ OneAsker' /\ NotDrawn' /\ Written'
    BY <1>2, MainHas DEF Resolve, TypeOK, Running, OneAsker, NotDrawn, Asks, Written
  <2>3. Told'
    BY <1>2, MainHas DEF Resolve, TypeOK, Told, RightAnswer, IsAnswer
  <2>4. /\ main.step = "resolve" /\ main.id \in Id /\ main.tid \in Thread
        /\ main'.step = "wake" /\ main'.tid = main.tid
        /\ response' = [response EXCEPT ![main.id] = [data |-> main.answer, resolved |-> TRUE]]
        /\ UNCHANGED <<registered, pending, pc, wait, queue, terminated, requests, stream>>
    BY <1>2, MainHas DEF Resolve
  <2>5. \A i \in Id : i # main.id => response'[i] = response[i]
    BY <2>4 DEF TypeOK
  <2>6. response'[main.id].resolved
    BY <2>4 DEF TypeOK
  <2>7. \A t \in Thread : wait[t] = main.id => t = main.tid
    BY <2>4 DEF OneAsker, Asks
  <2>8. AnswerCanArrive'
    <3> SUFFICES ASSUME NEW t \in registered, wait[t] # None, pc[t] # "write", ~response'[wait[t]].resolved
                 PROVE  <<wait[t], t>> \in pending' /\ (wait[t] \in requests' \/ InStream(wait[t])')
      BY <2>4 DEF AnswerCanArrive
    <3>1. wait[t] \in Id /\ wait[t] # main.id
      BY <2>6 DEF TypeOK
    <3>2. ~response[wait[t]].resolved
      BY <2>5, <3>1
    <3> QED  BY <2>4, <3>1, <3>2 DEF NoAnswerIsLost, AnswerCanArrive, Providing, InStream, IsAnswer
  <2>9. AnswerWakes'
    <3> SUFFICES ASSUME NEW t \in registered, pc[t] = "read", WillBlock(t),
                        wait[t] # None, response'[wait[t]].resolved
                 PROVE  t = main.tid
      BY <2>4 DEF AnswerWakes, WillBlock
    <3>1. t \in Thread /\ wait[t] \in Id
      BY DEF TypeOK
    <3> QED  BY <2>4, <2>5, <2>7, <3>1 DEF NoAnswerIsLost, AnswerWakes
  <2> QED  BY <2>1, <2>2, <2>3, <2>8, <2>9 DEF NoAnswerIsLost
<1>3. ASSUME Wake PROVE IInv'
  <2>1. /\ main.step = "wake" /\ main.id \in Id /\ main.tid \in Thread
        /\ main' = Reading /\ Reading.step = "read" /\ Reading.id = None /\ Reading.tid = None
        /\ queue' = IF main.tid \in registered \ terminated
                      THEN [queue EXCEPT ![main.tid] = Append(@, "discarded")] ELSE queue
        /\ UNCHANGED <<registered, pending, nextId, response, pc, wait, got, dropped, terminated,
                       requests, stream, said, messages>>
    BY <1>3, MainHas DEF Wake, Reading, reader
  <2>2. /\ queue[main.tid] \in Seq({"discarded", Changed, Exit})
        /\ Append(queue[main.tid], "discarded") \in Seq({"discarded", Changed, Exit})
        /\ Append(queue[main.tid], "discarded") # <<>>
    <3>1. queue[main.tid] \in Seq({"discarded", Changed, Exit})
      BY <2>1 DEF TypeOK
    <3>2. /\ Append(queue[main.tid], "discarded") \in Seq({"discarded", Changed, Exit})
          /\ Len(Append(queue[main.tid], "discarded")) = Len(queue[main.tid]) + 1
          /\ Len(queue[main.tid]) \in Nat
      BY <3>1
    <3> QED  BY <3>1, <3>2
  <2>3. TypeOK'
    BY <2>1, <2>2 DEF TypeOK, Reading
  <2>4. Running' /\ OneAsker' /\ NotDrawn' /\ Written'
    BY <2>1 DEF Running, OneAsker, NotDrawn, Asks, Written
  <2>5. Told'
    BY <2>1 DEF Told, RightAnswer, IsAnswer
  <2>6. AnswerCanArrive'
    BY <2>1 DEF NoAnswerIsLost, AnswerCanArrive, Providing, InStream, IsAnswer
  <2>7. AnswerWakes'
    <3> SUFFICES ASSUME NEW t \in registered, pc[t] = "read", WillBlock(t)',
                        wait[t] # None, response[wait[t]].resolved
                 PROVE  FALSE
      BY <2>1 DEF AnswerWakes
    <3>1. t \in Thread /\ t \notin terminated
      BY <2>1 DEF TypeOK, WillBlock
    <3>2. queue'[t] = <<>>
      BY DEF WillBlock
    <3>3. CASE t = main.tid
      BY <2>1, <2>2, <3>1, <3>2, <3>3 DEF TypeOK
    <3>4. CASE t # main.tid
      <4>1. queue'[t] = queue[t]
        BY <2>1, <3>1, <3>4 DEF TypeOK
      <4> QED  BY <2>1, <3>1, <3>2, <3>4, <4>1 DEF NoAnswerIsLost, AnswerWakes, WillBlock
    <3> QED  BY <3>3, <3>4
  <2> QED  BY <2>3, <2>4, <2>5, <2>6, <2>7 DEF NoAnswerIsLost
<1> QED  BY <1>1, <1>2, <1>3

(* The client says something about a request once, and writes it.          *)
LEMMA ClientKeeps ==
  ASSUME IInv, ClientWrites \/ \E i \in Id : ClientAnswers(i)
  PROVE  IInv'
<1> USE ReaderAssumption, NoneIsNoId DEF IInv, reader, threads
<1>1. ASSUME NEW i \in Id, ClientAnswers(i) PROVE IInv'
  <2>1. PICK a \in Answer :
          /\ i \in requests /\ requests' = requests \ {i}
          /\ said' = [said EXCEPT ![i] = a]
          /\ stream' = Append(stream, [kind |-> "answer", id |-> i, answer |-> a, to |-> None])
          /\ UNCHANGED <<registered, pending, nextId, response, pc, wait, got, dropped, queue,
                         terminated, main, messages>>
    BY <1>1 DEF ClientAnswers
  <2>2. [kind |-> "answer", id |-> i, answer |-> a, to |-> None] \in Message
    BY DEF Message
  <2>3. /\ stream' \in Seq(Message) /\ Len(stream') = Len(stream) + 1 /\ Len(stream) \in Nat
        /\ stream'[Len(stream) + 1] = [kind |-> "answer", id |-> i, answer |-> a, to |-> None]
        /\ \A j \in 1..Len(stream) : stream'[j] = stream[j]
    BY <2>1, <2>2, StreamFacts
  <2>4. said[i] = None
    BY <2>1 DEF Written
  <2>5. TypeOK'
    BY <2>1, <2>3 DEF TypeOK
  <2>6. Running' /\ OneAsker' /\ NotDrawn' /\ Written'
    <3>1. /\ Running' /\ OneAsker'
      BY <2>1 DEF Running, OneAsker, Asks
    <3>2. i < nextId
      BY <2>1 DEF NotDrawn, TypeOK
    <3>3. NotDrawn'
      BY <2>1, <3>2 DEF TypeOK, NotDrawn, Asks
    <3>4. Written'
      BY <2>1 DEF TypeOK, Written
    <3> QED  BY <3>1, <3>3, <3>4
  <2>7. Told'
    BY <2>1, <2>3, <2>4 DEF TypeOK, Told, RightAnswer, IsAnswer, ReaderAssumption
  <2>8. InStream(i)' /\ \A k \in Id : InStream(k) => InStream(k)'
    BY <2>3 DEF InStream, IsAnswer
  <2>9. NoAnswerIsLost'
    BY <2>1, <2>8 DEF TypeOK, NoAnswerIsLost, AnswerCanArrive, AnswerWakes, Providing, WillBlock
  <2> QED  BY <2>5, <2>6, <2>7, <2>9
<1>2. ASSUME ClientWrites PROVE IInv'
  <2>1. PICK k \in {Changed, Exit, "eof"}, t \in Thread :
          stream' = Append(stream, [kind |-> k, id |-> None, answer |-> None, to |-> t])
    BY <1>2 DEF ClientWrites
  <2>2. /\ messages < MaxMessages /\ messages' = messages + 1
        /\ UNCHANGED <<registered, pending, nextId, response, pc, wait, got, dropped, queue,
                       terminated, main, requests, said>>
    BY <1>2 DEF ClientWrites
  <2>3. [kind |-> k, id |-> None, answer |-> None, to |-> t] \in Message
    BY DEF Message
  <2>4. /\ stream' \in Seq(Message) /\ Len(stream') = Len(stream) + 1 /\ Len(stream) \in Nat
        /\ stream'[Len(stream) + 1] = [kind |-> k, id |-> None, answer |-> None, to |-> t]
        /\ \A j \in 1..Len(stream) : stream'[j] = stream[j]
    BY <2>1, <2>3, StreamFacts
  <2>5. messages' \in 0..MaxMessages
    BY <2>2 DEF TypeOK, ReaderAssumption
  <2>6. TypeOK'
    BY <2>2, <2>4, <2>5 DEF TypeOK
  <2>7. Running' /\ OneAsker' /\ NotDrawn' /\ Written'
    BY <2>2 DEF Running, OneAsker, NotDrawn, Asks, Written
  <2>8. Told'
    BY <2>2, <2>4 DEF Told, RightAnswer, IsAnswer, Changed, Exit
  <2>9. \A i \in Id : InStream(i) => InStream(i)'
    BY <2>4 DEF InStream, IsAnswer
  <2>10. NoAnswerIsLost'
    BY <2>2, <2>9 DEF TypeOK, NoAnswerIsLost, AnswerCanArrive, AnswerWakes, Providing, WillBlock
  <2> QED  BY <2>6, <2>7, <2>8, <2>10
<1> QED  BY <1>1, <1>2

-----------------------------------------------------------------------------
(* The invariant.                                                          *)
THEOREM Invariant == Spec => []IInv
<1>1. Init => IInv
  <2> SUFFICES ASSUME Init PROVE IInv
    OBVIOUS
  <2> USE ReaderAssumption, NoneIsNoId DEF Init, Reading, NotResolved
  <2>1. TypeOK
    BY DEF TypeOK, ReaderAssumption
  <2>2. Running /\ OneAsker /\ NotDrawn /\ Written
    BY DEF Running, OneAsker, NotDrawn, Asks, Written
  <2>3. Told /\ NoAnswerIsLost
    BY DEF Told, RightAnswer, NoAnswerIsLost, AnswerCanArrive, AnswerWakes
  <2> QED  BY <2>1, <2>2, <2>3 DEF IInv
<1>2. IInv /\ [Next]_vars => IInv'
  <2> SUFFICES ASSUME IInv, [Next]_vars PROVE IInv'
    OBVIOUS
  <2>1. ASSUME NEW t \in Thread, ThreadStep(t) PROVE IInv'
    BY <2>1, ThreadKeeps, RequestKeeps DEF ThreadStep
  <2>2. ASSUME MainStep PROVE IInv'
    BY <2>2, ReceiveKeeps, ProvideKeeps DEF MainStep
  <2>3. ASSUME ClientWrites \/ \E i \in Id : ClientAnswers(i) PROVE IInv'
    BY <2>3, ClientKeeps
  <2>4. CASE UNCHANGED vars
    BY <2>4 DEF vars, reader, threads, client, IInv, TypeOK, Running, OneAsker, Asks, NotDrawn, Written,
      Told, RightAnswer, NoAnswerIsLost, AnswerCanArrive, AnswerWakes, InStream, Providing, WillBlock
  <2> QED  BY <2>1, <2>2, <2>3, <2>4 DEF Next
<1> QED  BY <1>1, <1>2, PTL DEF Spec

(* A polling thread's answer can still arrive, and the one that arrived    *)
(* while it slept wakes it up: read_external_file registers the entry      *)
(* before it writes the request, provide stores before it wakes.           *)
THEOREM AnswersArrive == Spec => []NoAnswerIsLost
<1>1. IInv => NoAnswerIsLost
  BY DEF IInv
<1> QED  BY Invariant, <1>1, PTL

(* A task goes on with what the client said to its own request, also when  *)
(* tasks before it were dropped with their requests outstanding.           *)
THEOREM AnswersAreRight == Spec => []RightAnswer
<1>1. IInv => RightAnswer
  BY DEF IInv, Told
<1> QED  BY Invariant, <1>1, PTL
=============================================================================
