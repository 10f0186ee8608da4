---------------------------- MODULE BlockingQueue ----------------------------
(***************************************************************************)
(* language_server/src/blocking_queue.h: a mutex, a condition variable, a  *)
(* deque and an atomic state of two flags, which is also read without the  *)
(* mutex (empty, terminated, will_block and the yield indicator of the     *)
(* analysis).                                                              *)
(*                                                                         *)
(* The deque is touched only with the mutex held and every operation sets  *)
(* the state once while it holds it, so a critical section is one step.    *)
(* Calls of notify_one come after the mutex is released and are steps of   *)
(* their own; a reader that wakes up takes the mutex again and looks again.*)
(* The reader is the thread loop that owns the queue: it pops for ever.    *)
(***************************************************************************)
EXTENDS Naturals, Sequences, FiniteSets, TLAPS

CONSTANTS
  Producer,     \* threads that push (and, at the end, terminate)
  Message,
  Nothing,      \* std::nullopt
  MaxPushes     \* bound: messages pushed

ASSUME QueueAssumption == Nothing \notin Message /\ MaxPushes \in Nat

VARIABLES
  policy,       \* the template argument termination_policy
  queue,        \* the deque
  state,        \* the flags that are set
  pc,           \* pc[p]: "ready", or "notify": p has still to call notify_one
  reader,       \* "ready", "waiting" on cond_var, "woken", or "ended"
  got,          \* result of the last pop
  pushes        \* messages accepted

vars == <<policy, queue, state, pc, reader, got, pushes>>

Policies == {"drop_elements", "process_elements"}

terminated == "terminated" \in state
empty == "has_elements" \notin state

Init == /\ policy \in Policies
        /\ queue = <<>> /\ state = {}
        /\ pc = [p \in Producer |-> "ready"]
        /\ reader = "ready" /\ got = Nothing /\ pushes = 0

-----------------------------------------------------------------------------

(* Defect: the emptiness is looked at after the message has been stored.   *)
PushLooksLate(p, m) ==
  /\ pc[p] = "ready" /\ ~terminated
  /\ pushes < MaxPushes /\ pushes' = pushes + 1
  /\ queue' = Append(queue, m)
  /\ state' = state \cup {"has_elements"}
  /\ pc' = [pc EXCEPT ![p] = IF queue' = <<>> THEN "notify" ELSE "ready"]
  /\ UNCHANGED <<policy, reader, got>>

(* push: only the thread that finds the deque empty notifies. A terminated *)
(* queue takes nothing.                                                    *)
Push(p, m) ==
  /\ pc[p] = "ready" /\ ~terminated
  /\ pushes < MaxPushes /\ pushes' = pushes + 1
  /\ queue' = Append(queue, m)
  /\ state' = state \cup {"has_elements"}
  /\ pc' = [pc EXCEPT ![p] = IF queue = <<>> THEN "notify" ELSE "ready"]
  /\ UNCHANGED <<policy, reader, got>>

(* terminate: sets the flag and notifies.                                  *)
Terminate(p) ==
  /\ pc[p] = "ready"
  /\ state' = state \cup {"terminated"}
  /\ pc' = [pc EXCEPT ![p] = "notify"]
  /\ UNCHANGED <<policy, queue, reader, got, pushes>>

(* cond_var.notify_one                                                     *)
Notify(p) ==
  /\ pc[p] = "notify"
  /\ pc' = [pc EXCEPT ![p] = "ready"]
  /\ reader' = IF reader = "waiting" THEN "woken" ELSE reader
  /\ UNCHANGED <<policy, queue, state, got, pushes>>

(* wait() may also return for no reason.                                   *)
SpuriousWakeup ==
  /\ reader = "waiting" /\ reader' = "woken"
  /\ UNCHANGED <<policy, queue, state, pc, got, pushes>>

-----------------------------------------------------------------------------
(* pop: the mutex is taken and the predicate of wait() evaluated.          *)
Looks == reader \in {"ready", "woken"}

Wait ==
  /\ Looks /\ queue = <<>> /\ ~terminated
  /\ reader' = "waiting"
  /\ UNCHANGED <<policy, queue, state, pc, got, pushes>>

(* Defect: the policy is not looked at.                                    *)
EndsTerminated == terminated

(* std::nullopt: the thread loop ends.                                     *)
Ends == IF policy = "drop_elements" THEN terminated ELSE queue = <<>>

PopNothing ==
  /\ Looks /\ (queue # <<>> \/ terminated) /\ Ends
  /\ got' = Nothing /\ reader' = "ended"
  /\ UNCHANGED <<policy, queue, state, pc, pushes>>

Pop ==
  /\ Looks /\ (queue # <<>> \/ terminated) /\ ~Ends
  /\ got' = Head(queue) /\ queue' = Tail(queue)
  /\ state' = IF queue' = <<>> THEN state \ {"has_elements"} ELSE state
  /\ reader' = "ready"
  /\ UNCHANGED <<policy, pc, pushes>>

ReaderStep == Wait \/ PopNothing \/ Pop

Next == \/ \E p \in Producer, m \in Message : Push(p, m)
        \/ \E p \in Producer : Terminate(p) \/ Notify(p)
        \/ SpuriousWakeup
        \/ ReaderStep

(* The scheduler runs every thread; nothing has to be pushed, and nobody   *)
(* has to terminate the queue.                                             *)
Fairness == WF_vars(ReaderStep) /\ \A p \in Producer : WF_vars(Notify(p))

Spec == Init /\ [][Next]_vars
FairSpec == Spec /\ Fairness

-----------------------------------------------------------------------------
(* Properties.                                                             *)

(* The variables hold values of these sets.                                *)
TypeOK ==
  /\ policy \in Policies
  /\ queue \in Seq(Message)
  /\ state \subseteq {"terminated", "has_elements"}
  /\ pc \in [Producer -> {"ready", "notify"}]
  /\ reader \in {"ready", "waiting", "woken", "ended"}
  /\ got \in Message \cup {Nothing}
  /\ pushes \in Nat

(* No wakeup is lost: while the reader waits although it could go on, a    *)
(* thread is about to notify it. push notifies only when it has found the  *)
(* deque empty, and after it has released the mutex.                       *)
WakeupPending ==
  reader = "waiting" /\ (queue # <<>> \/ terminated) => \E p \in Producer : pc[p] = "notify"

(* The state read without the mutex tells what is in the deque: will_block *)
(* and the yield indicator are right about the messages that wait.         *)
StateTellsContent == empty <=> queue = <<>>

(* The queue is the message queue the threads of the server rely on.       *)
Abstract == INSTANCE MessageQueue WITH content <- queue, closed <- terminated
ImplementsMessageQueue == Abstract!Spec

-----------------------------------------------------------------------------
(* What holds for any number of threads and messages.                      *)

(* Adding at the end and taking from the front of a sequence.              *)
LEMMA SeqFacts ==
  ASSUME NEW q \in Seq(Message)
  PROVE  /\ \A m \in Message : Append(q, m) \in Seq(Message) /\ Append(q, m) # <<>>
         /\ q # <<>> => Head(q) \in Message /\ Tail(q) \in Seq(Message)
<1>1. ASSUME NEW m \in Message PROVE Append(q, m) \in Seq(Message) /\ Append(q, m) # <<>>
  <2>1. Len(Append(q, m)) = Len(q) + 1 /\ Len(q) \in Nat /\ Len(<<>>) = 0
    OBVIOUS
  <2>2. Append(q, m) # <<>>
    BY <2>1
  <2> QED
    BY <2>2
<1>2. q # <<>> => Head(q) \in Message /\ Tail(q) \in Seq(Message)
  OBVIOUS
<1> QED
  BY <1>1, <1>2

-----------------------------------------------------------------------------
(* Type correctness: the deque holds messages, the flags are the two known.*)
THEOREM TypeCorrect == Spec => []TypeOK
<1>1. Init => TypeOK
  BY DEF Init, TypeOK, Policies
<1>2. TypeOK /\ [Next]_vars => TypeOK'
  <2> SUFFICES ASSUME TypeOK, [Next]_vars PROVE TypeOK'
    OBVIOUS
  <2>1. ASSUME NEW p \in Producer, NEW m \in Message, Push(p, m) PROVE TypeOK'
    <3>1. queue' \in Seq(Message)
      BY <2>1, SeqFacts DEF TypeOK, Push
    <3>2. pc' \in [Producer -> {"ready", "notify"}]
      BY <2>1 DEF TypeOK, Push
    <3> QED
      BY <2>1, <3>1, <3>2 DEF TypeOK, Push
  <2>2. ASSUME NEW p \in Producer, Terminate(p) \/ Notify(p) PROVE TypeOK'
    BY <2>2 DEF TypeOK, Terminate, Notify
  <2>3. CASE SpuriousWakeup
    BY <2>3 DEF TypeOK, SpuriousWakeup
  <2>4. CASE Wait \/ PopNothing
    BY <2>4 DEF TypeOK, Wait, PopNothing
  <2>5. CASE Pop
    <3>1. queue # <<>>
      BY <2>5 DEF Pop, Ends, TypeOK, Policies
    <3>2. queue' \in Seq(Message) /\ got' \in Message
      BY <2>5, <3>1, SeqFacts DEF TypeOK, Pop
    <3> QED
      BY <2>5, <3>2 DEF TypeOK, Pop
  <2>6. CASE UNCHANGED vars
    BY <2>6 DEF TypeOK, vars
  <2> QED
    BY <2>1, <2>2, <2>3, <2>4, <2>5, <2>6 DEF Next, ReaderStep
<1> QED
  BY <1>1, <1>2, PTL DEF Spec

(* The flag read without the mutex is set exactly while messages wait.     *)
THEOREM FlagIsRight == Spec => []StateTellsContent
<1>1. Init => StateTellsContent
  BY DEF Init, StateTellsContent, empty
<1>2. TypeOK /\ StateTellsContent /\ [Next]_vars => StateTellsContent'
  <2> SUFFICES ASSUME TypeOK, StateTellsContent, [Next]_vars PROVE StateTellsContent'
    OBVIOUS
  <2> USE DEF StateTellsContent, empty
  <2>1. ASSUME NEW p \in Producer, NEW m \in Message, Push(p, m) PROVE StateTellsContent'
    BY <2>1, SeqFacts DEF TypeOK, Push
  <2>2. ASSUME NEW p \in Producer, Terminate(p) \/ Notify(p) PROVE StateTellsContent'
    BY <2>2 DEF Terminate, Notify
  <2>3. CASE SpuriousWakeup \/ Wait \/ PopNothing
    BY <2>3 DEF SpuriousWakeup, Wait, PopNothing
  <2>4. CASE Pop
    <3>1. queue # <<>>
      BY <2>4 DEF Pop, Ends, TypeOK, Policies
    <3> QED
      BY <2>4, <3>1 DEF Pop
  <2>5. CASE UNCHANGED vars
    BY <2>5 DEF vars
  <2> QED
    BY <2>1, <2>2, <2>3, <2>4, <2>5 DEF Next, ReaderStep
<1> QED
  BY <1>1, <1>2, TypeCorrect, PTL DEF Spec

(* No wakeup is lost, although notify_one is called without the mutex and  *)
(* only by the thread that has found the deque empty.                      *)
THEOREM NoLostWakeup == Spec => []WakeupPending
<1>1. Init => WakeupPending
  BY DEF Init, WakeupPending
<1>2. TypeOK /\ WakeupPending /\ [Next]_vars => WakeupPending'
  <2> SUFFICES ASSUME TypeOK, WakeupPending, [Next]_vars,
                      reader' = "waiting", queue' # <<>> \/ terminated'
               PROVE  \E p \in Producer : pc'[p] = "notify"
    BY DEF WakeupPending
  <2>1. ASSUME NEW p \in Producer, NEW m \in Message, Push(p, m)
        PROVE  \E r \in Producer : pc'[r] = "notify"
    <3>1. CASE queue = <<>>
      BY <2>1, <3>1 DEF Push, TypeOK
    <3>2. CASE queue # <<>>
      <4>1. PICK r \in Producer : pc[r] = "notify"
        BY <2>1, <3>2 DEF Push, WakeupPending
      <4>2. r # p
        BY <2>1, <4>1 DEF Push
      <4> QED
        BY <2>1, <4>1, <4>2 DEF Push, TypeOK
    <3> QED
      BY <3>1, <3>2
  <2>2. ASSUME NEW p \in Producer, Terminate(p)
        PROVE  \E r \in Producer : pc'[r] = "notify"
    BY <2>2 DEF Terminate, TypeOK
  <2>3. ASSUME NEW p \in Producer, Notify(p) PROVE FALSE
    BY <2>3 DEF Notify
  <2>4. CASE SpuriousWakeup \/ PopNothing \/ Pop
    BY <2>4 DEF SpuriousWakeup, PopNothing, Pop
  <2>5. CASE Wait
    BY <2>5 DEF Wait, terminated
  <2>6. CASE UNCHANGED vars
    BY <2>6 DEF vars, WakeupPending, terminated
  <2> QED
    BY <2>1, <2>2, <2>3, <2>4, <2>5, <2>6 DEF Next, ReaderStep
<1> QED
  BY <1>1, <1>2, TypeCorrect, PTL DEF Spec

-----------------------------------------------------------------------------
(* blocking_queue implements the message queue: waiting, notifying and the *)
(* flag of the content are invisible to those who push and pop.            *)
THEOREM Implements == Spec => ImplementsMessageQueue
<1>1. Init => Abstract!Init
  BY DEF Init, Abstract!Init, Policies, Abstract!Policies, terminated
<1>2. TypeOK /\ [Next]_vars => [Abstract!Next]_<<policy, queue, terminated, got>>
  <2> SUFFICES ASSUME TypeOK, [Next]_vars
               PROVE  Abstract!Next \/ UNCHANGED <<policy, queue, terminated, got>>
    OBVIOUS
  <2>1. ASSUME NEW p \in Producer, NEW m \in Message, Push(p, m) PROVE Abstract!Push(m)
    BY <2>1 DEF Push, Abstract!Push, terminated
  <2>2. ASSUME NEW p \in Producer, Terminate(p) PROVE Abstract!Terminate
    BY <2>2 DEF Terminate, Abstract!Terminate, terminated
  <2>3. ASSUME NEW p \in Producer, Notify(p)
        PROVE  UNCHANGED <<policy, queue, terminated, got>>
    BY <2>3 DEF Notify, terminated
  <2>4. CASE SpuriousWakeup \/ Wait
    BY <2>4 DEF SpuriousWakeup, Wait, terminated
  <2>5. CASE PopNothing
    <3>1. terminated /\ (policy = "drop_elements" \/ queue = <<>>)
      BY <2>5 DEF PopNothing, Ends, TypeOK, Policies
    <3> QED
      BY <2>5, <3>1 DEF PopNothing, Abstract!End, Abstract!Next, terminated
  <2>6. CASE Pop
    <3>1. queue # <<>> /\ (terminated => policy = "process_elements")
      BY <2>6 DEF Pop, Ends, TypeOK, Policies
    <3>2. terminated' <=> terminated
      BY <2>6 DEF Pop, terminated
    <3> QED
      BY <2>6, <3>1, <3>2 DEF Pop, Abstract!Pop, Abstract!Next
  <2>7. CASE UNCHANGED vars
    BY <2>7 DEF vars, terminated
  <2> QED
    BY <2>1, <2>2, <2>3, <2>4, <2>5, <2>6, <2>7 DEF Next, ReaderStep, Abstract!Next
<1> QED
  BY <1>1, <1>2, TypeCorrect, PTL DEF Spec, ImplementsMessageQueue, Abstract!Spec
=============================================================================
