---------------------------- MODULE MainProgram ----------------------------
(***************************************************************************)
(* main.cpp with the debug sessions of dap/dap_session_manager.cpp and     *)
(* dap/dap_session.cpp: the main thread routes the messages of the client, *)
(* the LSP thread and one thread per session handle them, and a session    *)
(* asks the LSP thread for the configuration of its program.               *)
(*                                                                         *)
(* The queues are those of MessageQueue, with the policy drop_elements:    *)
(* nothing is read from a closed one. Their content is all that matters to *)
(* the threads: a launch request, an end of the session (disconnect, or    *)
(* the message without parameters of an adapter that is disposed), the     *)
(* discarded message that only wakes the reader, shutdown and exit.        *)
(***************************************************************************)
EXTENDS Naturals, Sequences, SequencesExt, FiniteSets

CONSTANTS
  Session,    \* ids of debug sessions; the editor uses each for one session
  Nobody,
  MaxMessages \* bound: messages of the client

SessionAssumption ==
  IsFiniteSet(Session) /\ Nobody \notin Session /\ MaxMessages \in Nat

VARIABLES
  main,       \* where the main thread is, with the session it joins or creates
  sessions,   \* session_manager::sessions
  toClean,    \* sessions cleanup_sessions has still to look at
  lsp,        \* where the LSP thread is
  lspQueue, lspClosed,
  proxies,    \* closures with the requests of the sessions
  work,       \* requests for a configuration in the work queue
  waking,     \* session whose response proxy is about to write, or Nobody
  ret,        \* the local of main that the LSP thread writes
  code,       \* what main returns; copied from ret at the end of the stream
  shutdown,   \* is_shutdown_request_received
  thread,     \* where the thread of each session is
  queue, closed,
  launch,     \* "none", "asked" for its configuration, "launched"
  conf,       \* the response with the configuration is resolved
  sent,       \* messages the client has sent
  stray       \* history: an answer was written to the queue of an erased session

mainVars == <<main, sessions, toClean, code>>
lspVars == <<lsp, work, waking, ret, shutdown, stray>>
lspIn == <<lspQueue, lspClosed>>
sessionVars == <<thread, launch>>
sessionIn == <<queue, closed>>
vars == <<mainVars, lspVars, lspIn, proxies, sessionVars, sessionIn, conf, sent>>

(* A thread decides whether its queue is empty (loop), works while it is   *)
(* (idle), reads, and ends; a session may be about to wake the LSP thread  *)
(* (asking). While a session is ending, running is still set.              *)
ThreadStates == {"none", "loop", "read", "asking", "ending", "stopped", "finished"}
LspStates == {"loop", "idle", "read", "ended"}
MainStates == {"reading", "cleaning", "terminating", "closing", "joiningLast", "done"}

Running(s) == thread[s] \in {"loop", "read", "asking", "ending"}

Requests == {<<kind, s>> : kind \in {"register", "launch", "disconnect", "dispose"}, s \in Session}

Init == /\ main = <<"reading", Nobody>> /\ sessions = {} /\ toClean = {} /\ code = 0
        /\ lsp = "loop" /\ lspQueue = <<>> /\ lspClosed = FALSE
        /\ proxies = <<>> /\ work = {} /\ waking = Nobody
        /\ ret = 0 /\ shutdown = FALSE /\ stray = FALSE
        /\ thread = [s \in Session |-> "none"]
        /\ launch = [s \in Session |-> "none"]
        /\ queue = [s \in Session |-> <<>>]
        /\ closed = [s \in Session |-> FALSE]
        /\ conf = [s \in Session |-> FALSE]
        /\ sent = {}

-----------------------------------------------------------------------------
(* The main thread. The stream of the client is read one message at a      *)
(* time, so what the client sends is handled when the thread reads again.  *)
Reads(message) ==
  /\ main[1] = "reading" /\ message \notin sent /\ Cardinality(sent) < MaxMessages
  /\ sent' = sent \cup {message}

(* A registration first removes the sessions that have ended.              *)
Register(s) ==
  /\ Reads(<<"register", s>>)
  /\ main' = <<"cleaning", s>> /\ toClean' = sessions
  /\ UNCHANGED <<sessions, code, lspVars, lspIn, proxies, sessionVars, sessionIn, conf>>

(* ~session, up to the end of the join.                                    *)
Erase(s) ==
  /\ thread[s] = "finished"
  /\ sessions' = sessions \ {s}
  /\ closed' = [closed EXCEPT ![s] = TRUE]

(* A session that no longer runs is erased: its queue is terminated, its   *)
(* thread is joined. The order is that of the keys.                        *)
CleanupErase(s) ==
  /\ main[1] = "cleaning" /\ s \in toClean /\ ~Running(s)
  /\ toClean' = toClean \ {s} /\ Erase(s)
  /\ UNCHANGED <<main, code, queue, lspVars, lspIn, proxies, sessionVars, conf, sent>>

CleanupSkip(s) ==
  /\ main[1] = "cleaning" /\ s \in toClean /\ Running(s)
  /\ toClean' = toClean \ {s}
  /\ UNCHANGED <<main, sessions, code, lspVars, lspIn, proxies, sessionVars, sessionIn, conf, sent>>

Cleanup(s) == CleanupSkip(s) \/ CleanupErase(s)

Create ==
  /\ main[1] = "cleaning" /\ toClean = {}
  /\ sessions' = sessions \cup {main[2]}
  /\ thread' = [thread EXCEPT ![main[2]] = "loop"]
  /\ main' = <<"reading", Nobody>>
  /\ UNCHANGED <<toClean, code, lspVars, lspIn, proxies, launch, sessionIn, conf, sent>>

(* A message for a session goes to its queue while it is in the map, and   *)
(* nowhere when it is not. The adapter sends none before its registration. *)
ForSession(kind, s) ==
  /\ kind # "register" /\ <<"register", s>> \in sent
  /\ Reads(<<kind, s>>)
  /\ IF s \in sessions
     THEN queue' = [queue EXCEPT ![s] = Append(@, IF kind = "launch" THEN "launch" ELSE "end")]
     ELSE queue' = queue
  /\ UNCHANGED <<mainVars, lspVars, lspIn, proxies, sessionVars, closed, conf>>

ForServer(kind) ==
  /\ Reads(<<kind, Nobody>>)
  /\ lspQueue' = Append(lspQueue, kind)
  /\ UNCHANGED <<mainVars, lspVars, lspClosed, proxies, sessionVars, sessionIn, conf>>

(* The stream has ended: the value returned by main is copied before the   *)
(* destructor of main_program runs.                                        *)
EndOfStream ==
  /\ main[1] = "reading"
  /\ code' = ret /\ main' = <<"terminating", Nobody>>
  /\ UNCHANGED <<sessions, toClean, lspVars, lspIn, proxies, sessionVars, sessionIn, conf, sent>>

Terminate ==
  /\ main[1] = "terminating"
  /\ lspClosed' = TRUE /\ main' = <<"closing", Nobody>>
  /\ UNCHANGED <<sessions, toClean, code, lspVars, lspQueue, proxies, sessionVars, sessionIn, conf, sent>>

(* The LSP thread is joined, then the sessions are destroyed one by one.   *)
CloseSession(s) ==
  /\ main[1] = "closing" /\ lsp = "ended" /\ s \in sessions
  /\ closed' = [closed EXCEPT ![s] = TRUE] /\ main' = <<"joiningLast", s>>
  /\ UNCHANGED <<sessions, toClean, code, queue, lspVars, lspIn, proxies, sessionVars, conf, sent>>

JoinLast ==
  /\ main[1] = "joiningLast" /\ thread[main[2]] = "finished"
  /\ sessions' = sessions \ {main[2]} /\ main' = <<"closing", Nobody>>
  /\ UNCHANGED <<toClean, code, lspVars, lspIn, proxies, sessionVars, sessionIn, conf, sent>>

Return ==
  /\ main[1] = "closing" /\ lsp = "ended" /\ sessions = {}
  /\ main' = <<"done", Nobody>>
  /\ UNCHANGED <<sessions, toClean, code, lspVars, lspIn, proxies, sessionVars, sessionIn, conf, sent>>

-----------------------------------------------------------------------------
(* The LSP thread.                                                         *)

LspLoop ==
  /\ lsp = "loop"
  /\ lsp' = IF lspQueue = <<>> THEN "idle" ELSE "read"
  /\ UNCHANGED <<mainVars, work, waking, ret, shutdown, stray, lspIn, proxies, sessionVars, sessionIn, conf, sent>>

(* The work item of a session has been executed, however long it has       *)
(* waited (WorkQueue): the session's response is resolved, ...             *)
Provide(s) ==
  /\ lsp = "idle" /\ waking = Nobody /\ s \in work
  /\ work' = work \ {s}
  /\ conf' = [conf EXCEPT ![s] = TRUE] /\ waking' = s
  /\ UNCHANGED <<mainVars, lsp, ret, shutdown, stray, lspIn, proxies, sessionVars, sessionIn, sent>>

(* Defect: the response is resolved, and nothing is written.               *)
WakeNobody(s) ==
  /\ waking = s /\ waking' = Nobody
  /\ stray' = (stray \/ s \notin sessions)
  /\ UNCHANGED <<mainVars, lsp, work, ret, shutdown, lspIn, proxies, sessionVars, sessionIn, conf, sent>>

(* ... and a message is written to its queue, which the proxy refers to.   *)
WakeSession(s) ==
  /\ waking = s /\ waking' = Nobody
  /\ queue' = IF closed[s] THEN queue ELSE [queue EXCEPT ![s] = Append(@, "wake")]
  /\ stray' = (stray \/ s \notin sessions)
  /\ UNCHANGED <<mainVars, lsp, work, ret, shutdown, lspIn, proxies, sessionVars, closed, conf, sent>>

(* idle_handler returns when it has nothing more to do, or a message.      *)
IdleReturn ==
  /\ lsp = "idle" /\ waking = Nobody
  /\ work = {} \/ lspQueue # <<>> \/ lspClosed
  /\ lsp' = "read"
  /\ UNCHANGED <<mainVars, work, waking, ret, shutdown, stray, lspIn, proxies, sessionVars, sessionIn, conf, sent>>

ReadNothing ==
  /\ lsp = "read" /\ lspClosed
  /\ ret' = 1 /\ lsp' = "ended"
  /\ UNCHANGED <<mainVars, work, waking, shutdown, stray, lspIn, proxies, sessionVars, sessionIn, conf, sent>>

Pop(message) ==
  /\ lsp = "read" /\ ~lspClosed
  /\ lspQueue # <<>> /\ Head(lspQueue) = message
  /\ lspQueue' = Tail(lspQueue)

(* Defect: one request is taken for each message.                          *)
DrainOne ==
  /\ Pop("wake") /\ lsp' = "loop"
  /\ IF proxies = <<>> THEN UNCHANGED <<proxies, work>>
     ELSE proxies' = <<>> /\ work' = work \cup {Head(proxies)}
  /\ UNCHANGED <<mainVars, waking, ret, shutdown, stray, lspClosed, sessionVars, sessionIn, conf, sent>>

(* A discarded message: all closures are called, with proxies_mutex held.  *)
Drain ==
  /\ Pop("wake") /\ lsp' = "loop"
  /\ proxies' = <<>> /\ work' = work \cup ToSet(proxies)
  /\ UNCHANGED <<mainVars, waking, ret, shutdown, stray, lspClosed, sessionVars, sessionIn, conf, sent>>

Shutdown ==
  /\ Pop("shutdown") /\ shutdown' = TRUE /\ lsp' = "loop"
  /\ UNCHANGED <<mainVars, work, waking, ret, stray, lspClosed, proxies, sessionVars, sessionIn, conf, sent>>

Exit ==
  /\ Pop("exit") /\ lsp' = "ended"
  /\ ret' = IF shutdown THEN ret ELSE 1
  /\ UNCHANGED <<mainVars, work, waking, shutdown, stray, lspClosed, proxies, sessionVars, sessionIn, conf, sent>>

-----------------------------------------------------------------------------
(* The thread of a session.                                                *)

(* The queue is empty: idle_handler, where the debugger looks whether its  *)
(* configuration has come and launches.                                    *)
SessionIdle(s) ==
  /\ thread[s] = "loop" /\ queue[s] = <<>>
  /\ launch' = IF launch[s] = "asked" /\ conf[s]
               THEN [launch EXCEPT ![s] = "launched"] ELSE launch
  /\ thread' = [thread EXCEPT ![s] = "read"]
  /\ UNCHANGED <<mainVars, lspVars, lspIn, proxies, sessionIn, conf, sent>>

SessionLoop(s) ==
  /\ thread[s] = "loop" /\ queue[s] # <<>>
  /\ thread' = [thread EXCEPT ![s] = "read"]
  /\ UNCHANGED <<mainVars, lspVars, lspIn, proxies, launch, sessionIn, conf, sent>>

SessionPop(s, message) ==
  /\ thread[s] = "read" /\ ~closed[s]
  /\ queue[s] # <<>> /\ Head(queue[s]) = message
  /\ queue' = [queue EXCEPT ![s] = Tail(@)]

SessionWake(s) ==
  /\ SessionPop(s, "wake")
  /\ thread' = [thread EXCEPT ![s] = "loop"]
  /\ UNCHANGED <<mainVars, lspVars, lspIn, proxies, launch, closed, conf, sent>>

(* launch: a closure with the request is left in proxies, ...              *)
Launch(s) ==
  /\ SessionPop(s, "launch")
  /\ proxies' = Append(proxies, s)
  /\ launch' = [launch EXCEPT ![s] = "asked"]
  /\ thread' = [thread EXCEPT ![s] = "asking"]
  /\ UNCHANGED <<mainVars, lspVars, lspIn, closed, conf, sent>>

(* ... and a discarded message wakes the LSP thread.                       *)
Ask(s) ==
  /\ thread[s] = "asking"
  /\ lspQueue' = IF lspClosed THEN lspQueue ELSE Append(lspQueue, "wake")
  /\ thread' = [thread EXCEPT ![s] = "loop"]
  /\ UNCHANGED <<mainVars, lspVars, lspClosed, proxies, launch, sessionIn, conf, sent>>

(* disconnect, the message without parameters, or the end of the queue.    *)
SessionEnd(s) ==
  /\ \/ SessionPop(s, "end")
     \/ thread[s] = "read" /\ closed[s] /\ queue' = queue
  /\ thread' = [thread EXCEPT ![s] = "ending"]
  /\ UNCHANGED <<mainVars, lspVars, lspIn, proxies, launch, closed, conf, sent>>

(* The server is destroyed, running is reset, and the thread ends.         *)
SessionStopped(s) ==
  /\ thread[s] \in {"ending", "stopped"}
  /\ thread' = [thread EXCEPT ![s] = IF @ = "ending" THEN "stopped" ELSE "finished"]
  /\ UNCHANGED <<mainVars, lspVars, lspIn, proxies, launch, sessionIn, conf, sent>>

-----------------------------------------------------------------------------
MainStep == \/ Create \/ Terminate \/ JoinLast \/ Return
            \/ \E s \in Session : Cleanup(s) \/ CloseSession(s)

LspStep == \/ LspLoop \/ IdleReturn \/ ReadNothing \/ Drain \/ Shutdown \/ Exit
           \/ \E s \in Session : Provide(s) \/ WakeSession(s)

SessionStep(s) == \/ SessionIdle(s) \/ SessionLoop(s) \/ SessionWake(s) \/ Launch(s)
                  \/ Ask(s) \/ SessionEnd(s) \/ SessionStopped(s)

Client == \/ \E s \in Session : \/ Register(s)
                                \/ \E kind \in {"launch", "disconnect", "dispose"} : ForSession(kind, s)
          \/ \E kind \in {"shutdown", "exit"} : ForServer(kind)
          \/ EndOfStream

Next == Client \/ MainStep \/ LspStep \/ \E s \in Session : SessionStep(s)

(* Threads run, and the work queue serves its requests. The client need    *)
(* not send anything, nor close its stream.                                *)
Fairness == /\ WF_vars(MainStep) /\ WF_vars(LspStep)
            /\ \A s \in Session : WF_vars(SessionStep(s)) /\ WF_vars(Provide(s))

Spec == Init /\ [][Next]_vars
FairSpec == Spec /\ Fairness

-----------------------------------------------------------------------------
(* Properties.                                                             *)

(* The variables hold values of these sets.                                *)
TypeOK ==
  /\ main \in MainStates \X (Session \cup {Nobody})
  /\ sessions \subseteq Session /\ toClean \subseteq sessions
  /\ code \in {0, 1} /\ ret \in {0, 1} /\ shutdown \in BOOLEAN
  /\ lsp \in LspStates /\ lspClosed \in BOOLEAN
  /\ lspQueue \in Seq({"wake", "shutdown", "exit"})
  /\ proxies \in Seq(Session) /\ work \subseteq Session /\ waking \in Session \cup {Nobody}
  /\ thread \in [Session -> ThreadStates] /\ closed \in [Session -> BOOLEAN]
  /\ queue \in [Session -> Seq({"launch", "end", "wake"})]
  /\ launch \in [Session -> {"none", "asked", "launched"}] /\ conf \in [Session -> BOOLEAN]
  /\ sent \subseteq Requests \cup {<<"shutdown", Nobody>>, <<"exit", Nobody>>} /\ stray \in BOOLEAN

(* While the client's stream is open, only sessions whose thread has ended *)
(* are removed: a session that runs keeps getting its messages.            *)
RunningIsReachable == main[1] \in {"reading", "cleaning"} =>
  \A s \in Session : Running(s) => s \in sessions

(* A request left in proxies is not forgotten: a message that makes the    *)
(* LSP thread look is in its queue, or the session is about to write it.   *)
RequestNoticed == proxies # <<>> =>
  \/ lsp = "ended" \/ lspClosed
  \/ \E i \in DOMAIN lspQueue : lspQueue[i] = "wake"
  \/ \E s \in Session : thread[s] = "asking"

(* A session that blocks in read while its configuration is there, and it  *)
(* has not seen it, is about to be woken.                                  *)
AnswerNoticed == \A s \in Session :
  thread[s] = "read" /\ launch[s] = "asked" /\ conf[s] =>
    \/ closed[s] \/ waking = s
    \/ \E i \in DOMAIN queue[s] : queue[s][i] \in {"wake", "end"}

(* A request is in one place: with the closures, in the work queue, or     *)
(* answered, and never answered twice.                                     *)
RequestsAreKept == \A s \in Session :
  launch[s] = "asked" /\ thread[s] # "asking" =>
    Cardinality({p \in {"proxies", "work", "conf"} :
                   \/ p = "proxies" /\ s \in ToSet(proxies)
                   \/ p = "work" /\ s \in work
                   \/ p = "conf" /\ conf[s]}) = 1

(* What a session asks for is in exactly one place, and somebody is about  *)
(* to look there.                                                          *)
NothingForgotten == RequestNoticed /\ AnswerNoticed /\ RequestsAreKept

(* After shutdown and exit the program returns 0, though it terminates the *)
(* queue of the LSP thread, which then ends with 1.                        *)
CleanExit ==
  main[1] = "done" /\ <<"shutdown", Nobody>> \in sent /\ shutdown => code = 0

(* A session that has asked for its configuration gets it and launches, or *)
(* it ends, or the LSP thread does.                                        *)
LaunchServed == \A s \in Session :
  launch[s] = "asked" ~> launch[s] = "launched" \/ ~Running(s) \/ lsp = "ended"

(* The end of the stream ends the program: every join returns, whatever    *)
(* the threads were doing, and main gets back to its stream after every    *)
(* registration.                                                           *)
Ends == /\ main[1] = "terminating" ~> main[1] = "done"
        /\ main[1] = "cleaning" ~> main[1] = "reading"

=============================================================================
