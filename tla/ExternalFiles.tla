---------------------------- MODULE ExternalFiles ----------------------------
(***************************************************************************)
(* Reading files through the client                                        *)
(* (language_server/src/external_file_reader.cpp).                         *)
(*                                                                         *)
(* A thread that registers asks the client for a file, polls the response  *)
(* in its idle handler (utils::async_busy_wait) and sleeps on its message  *)
(* queue in between. The main thread takes the answer off the client's     *)
(* stream, fills in the response and wakes the thread up with a discarded  *)
(* message. Nothing but this wakeup makes the thread poll again.           *)
(*                                                                         *)
(* Queues are those of MessageQueue with the policy drop_elements, which   *)
(* BlockingQueue implements.                                               *)
(***************************************************************************)
EXTENDS Naturals, Sequences

CONSTANTS
  Thread,        \* threads that register: the LSP thread, debug sessions
  Answer,        \* what the client may answer; a text or an error
  None,
  MaxRequests,   \* bound: requests made
  MaxMessages    \* bound: messages of the client that are not answers

ASSUME ReaderAssumption ==
  MaxRequests \in Nat /\ MaxMessages \in Nat /\ None \notin Nat /\ None \notin Answer

Id == 1..MaxRequests
Changed == "change"   \* a message whose handling drops the task that waits
Exit == "exit"        \* a message that ends the thread

VARIABLES
  registered,    \* m_registrations: threads that can be woken up
  pending,       \* m_pending_requests: id -> thread, as a set of pairs
  nextId,        \* m_next_id
  response,      \* response[id]: the shared data of a workspace_manager_response
  pc, wait, got, \* of each thread: where it is, the request it polls, the last answer
  dropped,       \* the thread has been told to drop its task
  queue,         \* messages a thread has still to read
  terminated,    \* queues that are terminated
  main,          \* the main thread: what it does with which answer
  requests,      \* external: requests the client has received and not answered
  stream,        \* external: what the client has written and main not read
  said,          \* external: the client's answers
  messages       \* external: messages the client has written

reader == <<registered, pending, nextId, response>>
threads == <<pc, wait, got, dropped>>
client == <<requests, stream, said, messages>>
vars == <<reader, threads, queue, terminated, main, client>>

NotResolved == [data |-> None, resolved |-> FALSE]
Reading == [step |-> "read", id |-> None, tid |-> None, answer |-> None]

Init ==
  /\ registered = {} /\ pending = {} /\ nextId = 1
  /\ response = [i \in Id |-> NotResolved]
  /\ pc = [t \in Thread |-> "start"]
  /\ wait = [t \in Thread |-> None] /\ got = [t \in Thread |-> None]
  /\ dropped = {} /\ terminated = {}
  /\ queue = [t \in Thread |-> <<>>]
  /\ main = Reading
  /\ requests = {} /\ stream = <<>> /\ messages = 0
  /\ said = [i \in Id |-> None]

-----------------------------------------------------------------------------
(* The threads.                                                            *)
Goto(t, step) == pc' = [pc EXCEPT ![t] = step]

(* register_thread                                                         *)
Register(t) ==
  /\ pc[t] = "start" /\ Goto(t, "loop")
  /\ registered' = registered \cup {t}
  /\ UNCHANGED <<pending, nextId, response, wait, got, dropped, queue, terminated, main, client>>

(* The loop: work only while reading would block.                          *)
WillBlock(t) == queue[t] = <<>> /\ t \notin terminated

Loop(t) ==
  /\ pc[t] = "loop" /\ Goto(t, IF WillBlock(t) THEN "idle" ELSE "read")
  /\ UNCHANGED <<reader, wait, got, dropped, queue, terminated, main, client>>

(* An item of the work queue resets the active task: its response is       *)
(* abandoned, not its entry among the pending requests.                    *)
DropTask(t) ==
  /\ pc[t] = "idle" /\ t \in dropped
  /\ dropped' = dropped \ {t}
  /\ wait' = [wait EXCEPT ![t] = None]
  /\ UNCHANGED <<reader, pc, got, queue, terminated, main, client>>

(* Defect: a thread has one pending request at a time.                     *)
RequestOnce(t) ==
  /\ pc[t] = "idle" /\ t \notin dropped /\ wait[t] = None
  /\ nextId \in Id /\ nextId' = nextId + 1
  /\ wait' = [wait EXCEPT ![t] = nextId]
  /\ Goto(t, "write")
  /\ pending' = IF \E r \in pending : r[2] = t THEN pending ELSE pending \cup {<<nextId, t>>}
  /\ UNCHANGED <<registered, response, got, dropped, queue, terminated, main, client>>

(* read_external_file: enqueue_message under the mutex, or an error at     *)
(* once for a thread that is not registered.                               *)
Request(t) ==
  /\ pc[t] = "idle" /\ t \notin dropped /\ wait[t] = None
  /\ nextId \in Id /\ nextId' = nextId + 1
  /\ wait' = [wait EXCEPT ![t] = nextId]
  /\ IF t \in registered
       THEN /\ pending' = pending \cup {<<nextId, t>>}
            /\ Goto(t, "write")
            /\ UNCHANGED response
       ELSE /\ \E e \in Answer : response' = [response EXCEPT ![nextId] = [data |-> e, resolved |-> TRUE]]
            /\ UNCHANGED <<pending, pc>>
  /\ UNCHANGED <<registered, got, dropped, queue, terminated, main, client>>

(* m_output.write, without the mutex.                                      *)
WriteRequest(t) ==
  /\ pc[t] = "write" /\ Goto(t, "idle")
  /\ requests' = requests \cup {wait[t]}
  /\ UNCHANGED <<reader, wait, got, dropped, queue, terminated, main, stream, said, messages>>

(* async_busy_wait: the task goes on with the answer, or is suspended.     *)
Continue(t) ==
  /\ pc[t] = "idle" /\ t \notin dropped /\ wait[t] # None
  /\ response[wait[t]].resolved
  /\ got' = [got EXCEPT ![t] = [id |-> wait[t], answer |-> response[wait[t]].data]]
  /\ wait' = [wait EXCEPT ![t] = None]
  /\ UNCHANGED <<reader, pc, dropped, queue, terminated, main, client>>

Suspend(t) ==
  /\ pc[t] = "idle" /\ t \notin dropped
  /\ wait[t] # None => ~response[wait[t]].resolved
  /\ Goto(t, "read")
  /\ UNCHANGED <<reader, wait, got, dropped, queue, terminated, main, client>>

(* The yield indicator is set: the idle handler returns early.             *)
Yield(t) ==
  /\ pc[t] = "idle" /\ ~WillBlock(t) /\ Goto(t, "read")
  /\ UNCHANGED <<reader, wait, got, dropped, queue, terminated, main, client>>

(* queue.read, and what the thread does with the message.                  *)
Read(t) ==
  /\ pc[t] = "read" /\ queue[t] # <<>> /\ t \notin terminated
  /\ queue' = [queue EXCEPT ![t] = Tail(@)]
  /\ dropped' = IF Head(queue[t]) = Changed THEN dropped \cup {t} ELSE dropped
  /\ Goto(t, IF Head(queue[t]) = Exit THEN "leave" ELSE "loop")
  /\ UNCHANGED <<reader, wait, got, terminated, main, client>>

(* No message: the queue is terminated.                                    *)
ReadNothing(t) ==
  /\ pc[t] = "read" /\ t \in terminated /\ Goto(t, "leave")
  /\ UNCHANGED <<reader, wait, got, dropped, queue, terminated, main, client>>

(* ~thread_registration: forgets the thread and all it asked for.          *)
Leave(t) ==
  /\ pc[t] = "leave" /\ Goto(t, "ended")
  /\ registered' = registered \ {t}
  /\ pending' = {r \in pending : r[2] # t}
  /\ UNCHANGED <<nextId, response, wait, got, dropped, queue, terminated, main, client>>

ThreadStep(t) ==
  \/ Register(t) \/ Loop(t) \/ DropTask(t) \/ Request(t) \/ WriteRequest(t)
  \/ Continue(t) \/ Suspend(t) \/ Yield(t) \/ Read(t) \/ ReadNothing(t) \/ Leave(t)

-----------------------------------------------------------------------------
(* The main thread.                                                        *)
IsAnswer(msg) == msg.kind = "answer"

(* write: the entry is extracted under the mutex; an answer nobody waits   *)
(* for is dropped. Other messages go to the queue of their thread.         *)
Receive ==
  /\ main.step = "read" /\ stream # <<>>
  /\ stream' = Tail(stream)
  /\ LET msg == Head(stream)
         found == {r \in pending : IsAnswer(msg) /\ r[1] = msg.id}
     IN  /\ pending' = pending \ found
         /\ IF IsAnswer(msg)
              THEN /\ main' = IF found = {} THEN Reading
                              ELSE [step |-> "data", id |-> msg.id, answer |-> msg.answer,
                                    tid |-> (CHOOSE r \in found : TRUE)[2]]
                   /\ UNCHANGED <<queue, terminated>>
              ELSE IF msg.kind = "eof"
                THEN /\ main' = [Reading EXCEPT !.step = "joining"]
                     /\ terminated' = Thread
                     /\ UNCHANGED queue
                ELSE /\ queue' = [queue EXCEPT ![msg.to] = Append(@, msg.kind)]
                     /\ UNCHANGED <<main, terminated>>
  /\ UNCHANGED <<registered, nextId, response, threads, requests, said, messages>>

(* provide or error: the data are stored, then the response is resolved.   *)
StoreData ==
  /\ main.step = "data"
  /\ response' = [response EXCEPT ![main.id].data = main.answer]
  /\ main' = [main EXCEPT !.step = "resolve"]
  /\ UNCHANGED <<registered, pending, nextId, threads, queue, terminated, client>>

(* Defect: the answer goes to the request its thread polls now.            *)
ResolveCurrent ==
  /\ main.step = "resolve"
  /\ LET i == IF wait[main.tid] = None THEN main.id ELSE wait[main.tid]
     IN  response' = [response EXCEPT ![i] = [data |-> main.answer, resolved |-> TRUE]]
  /\ main' = [main EXCEPT !.step = "wake"]
  /\ UNCHANGED <<registered, pending, nextId, threads, queue, terminated, client>>

Resolve ==
  /\ main.step = "resolve"
  /\ response' = [response EXCEPT ![main.id] = [data |-> main.answer, resolved |-> TRUE]]
  /\ main' = [main EXCEPT !.step = "wake"]
  /\ UNCHANGED <<registered, pending, nextId, threads, queue, terminated, client>>

(* wakeup_thread: only a thread that is still registered has a queue. A    *)
(* terminated queue takes nothing.                                         *)
Wake ==
  /\ main.step = "wake" /\ main' = Reading
  /\ queue' = IF main.tid \in registered \ terminated
                THEN [queue EXCEPT ![main.tid] = Append(@, "discarded")] ELSE queue
  /\ UNCHANGED <<reader, threads, terminated, client>>

MainStep == Receive \/ StoreData \/ Resolve \/ Wake

-----------------------------------------------------------------------------
(* The client answers what it has been asked, once, at any time, or never. *)
Open == main.step # "joining" /\ ~\E j \in 1..Len(stream) : stream[j].kind = "eof"

ClientAnswers(i) ==
  /\ Open
  /\ i \in requests /\ requests' = requests \ {i}
  /\ \E a \in Answer :
       /\ said' = [said EXCEPT ![i] = a]
       /\ stream' = Append(stream, [kind |-> "answer", id |-> i, answer |-> a, to |-> None])
  /\ UNCHANGED <<reader, threads, queue, terminated, main, messages>>

ClientWrites ==
  /\ Open
  /\ messages < MaxMessages /\ messages' = messages + 1
  /\ \E k \in {Changed, Exit, "eof"}, t \in Thread :
       stream' = Append(stream, [kind |-> k, id |-> None, answer |-> None, to |-> t])
  /\ UNCHANGED <<reader, threads, queue, terminated, main, requests, said>>

Next ==
  \/ \E t \in Thread : ThreadStep(t)
  \/ MainStep
  \/ \E i \in Id : ClientAnswers(i)
  \/ ClientWrites

(* Both threads are scheduled; the client need not do anything.            *)
Spec == Init /\ [][Next]_vars
FairSpec == Spec /\ WF_vars(MainStep) /\ \A t \in Thread : WF_vars(ThreadStep(t))

-----------------------------------------------------------------------------
(* Properties.                                                             *)

(* The variables hold values of these sets.                                *)
Message == [kind : {"answer", Changed, Exit, "eof"}, id : Id \cup {None},
            answer : Answer \cup {None}, to : Thread \cup {None}]
TypeOK ==
  /\ registered \subseteq Thread /\ dropped \subseteq Thread /\ terminated \subseteq Thread
  /\ pending \subseteq Id \X Thread
  /\ nextId \in 1..(MaxRequests + 1)
  /\ response \in [Id -> [data : Answer \cup {None}, resolved : BOOLEAN]]
  /\ pc \in [Thread -> {"start", "loop", "idle", "write", "read", "leave", "ended"}]
  /\ wait \in [Thread -> Id \cup {None}]
  /\ got \in [Thread -> [id : Id, answer : Answer] \cup {None}]
  /\ queue \in [Thread -> Seq({"discarded", Changed, Exit})]
  /\ main \in [step : {"read", "joining"}, id : {None}, tid : {None}, answer : {None}]
            \cup [step : {"data", "resolve", "wake"}, id : Id, tid : Thread, answer : Answer]
  /\ requests \subseteq Id /\ messages \in 0..MaxMessages
  /\ stream \in Seq(Message)
  /\ said \in [Id -> Answer \cup {None}]

InStream(i) == \E j \in 1..Len(stream) : IsAnswer(stream[j]) /\ stream[j].id = i
Providing(i) == main.step \in {"data", "resolve"} /\ main.id = i

(* A thread that polls a request is not forgotten: either the client has   *)
(* still to answer and the answer will be recognized as this thread's, or  *)
(* the main thread is about to resolve the response. The entry goes in     *)
(* before the request goes out, and an answer can overtake every other     *)
(* step of the thread that asked.                                          *)
AnswerCanArrive ==
  \A t \in registered :
    wait[t] # None /\ pc[t] # "write" /\ ~response[wait[t]].resolved =>
      \/ Providing(wait[t]) /\ main.tid = t
      \/ <<wait[t], t>> \in pending /\ (wait[t] \in requests \/ InStream(wait[t]))

(* No answer is slept over: a thread with an answered request that blocks  *)
(* on its queue is about to be woken up.                                   *)
AnswerWakes ==
  \A t \in registered :
    (/\ pc[t] = "read" /\ WillBlock(t)
     /\ wait[t] # None /\ response[wait[t]].resolved) => main.step = "wake" /\ main.tid = t

(* What a thread asked for gets to it, and finds it awake.                 *)
NoAnswerIsLost == AnswerCanArrive /\ AnswerWakes

(* A task goes on with what the client said to its own request: not with   *)
(* response data that are not there yet, nor with the late answer to a     *)
(* request of the task that was dropped.                                   *)
RightAnswer == \A t \in Thread : got[t] # None => got[t].answer = said[got[t].id]

=============================================================================
