------------------------------ MODULE Debugger ------------------------------
(***************************************************************************)
(* The macro tracer: parser_library/src/debugging/debugger.cpp driven by   *)
(* one thread of language_server/src/dap (dap_session.cpp, dap_feature.cpp)*)
(* and, through messages that cross in both directions, by an editor.      *)
(*                                                                         *)
(* The thread runs the analysis while it has no message to read. Before a  *)
(* statement is processed, analyze decides whether to stop; the analysis   *)
(* then waits, suspended, until a request sets continue_ again.            *)
(*                                                                         *)
(* The traced program is any sequence of ordinary statements: a statement  *)
(* is its call stack (m_stack_tree shares equal stacks, so that nodes are  *)
(* equal just when the stacks are). Statements of other kinds of           *)
(* processing, and empty ones, pass analyze unseen and are left out.       *)
(***************************************************************************)
EXTENDS Naturals, Sequences, SequencesExt

CONSTANTS
  Line,         \* lines of the program
  Unit,         \* Unit[l]: open code, the macro or the copy member l is in
  Source,       \* Source[l]: the file l is in
  OpenCode,     \* the unit of the open code
  Breakable,    \* lines the editor sets breakpoints on
  None,
  MaxDepth,     \* bound: depth of the call stack
  MaxRequests   \* bound: requests of the editor

DebuggerAssumption ==
  /\ OpenCode \in {Unit[l] : l \in Line} /\ DOMAIN Source = Line
  /\ Breakable \subseteq Line
  /\ MaxDepth \in Nat \ {0} /\ MaxRequests \in Nat

VARIABLES
  thread,       \* the session's thread: "loop", "idle", "read" or "ended"
  inbox,        \* the session's queue
  terminated,   \* ... is terminated
  task,         \* analyzer_task: "none", "config", "run" or "done"
  config,       \* the response of the configuration provider
  stack,        \* the stack of the statement analyze has seen last
  limited,      \* ... whose scope has reached the ACTR limit
  continue,     \* continue_
  stopNext,     \* stop_on_next_stmt_
  stopStack,    \* stop_on_stack_changes_
  condition,    \* stop_on_stack_condition_
  shown,        \* proc_stack_: what stackTrace answers
  breakpoints,  \* breakpoints_ and function_breakpoints_
  outbox,       \* what the editor has not received yet
  editor,       \* external: what the editor believes
  sent,         \* external: requests it has made
  wish          \* history: what the user has asked for last

flags == <<continue, stopNext, stopStack, condition, breakpoints>>
analysis == <<task, config, stack, limited, shown>>
client == <<editor, sent>>
vars == <<thread, inbox, terminated, analysis, flags, outbox, client, wish>>

NoCondition == [node |-> None, source |-> None]

(* mode: the last request that resumed the analysis; pause: a pause asked  *)
(* for since the last stop, and whether it came before that request.       *)
NoWish == [mode |-> "run", pause |-> "no"]

Init ==
  /\ thread = "loop" /\ inbox = <<>> /\ terminated = FALSE
  /\ task = "none" /\ config = "none" /\ stack = <<>> /\ limited = FALSE /\ shown = <<>>
  /\ continue = FALSE /\ stopNext = FALSE /\ stopStack = FALSE
  /\ condition = NoCondition /\ breakpoints = {}
  /\ outbox = <<>> /\ editor = "new" /\ sent = 0
  /\ wish = NoWish

-----------------------------------------------------------------------------
(* The program. The next statement is the first of a macro or copy member  *)
(* that the last one calls, or one of the same unit (branches go anywhere  *)
(* in it), or one of a caller, after the units called by it have ended.    *)
Successors ==
  IF stack = <<>> THEN {<<l>> : l \in {m \in Line : Unit[m] = OpenCode}}
  ELSE {Append(stack, l) : l \in {m \in Line : Len(stack) < MaxDepth /\ Unit[m] # OpenCode}}
       \cup UNION {{Append(SubSeq(stack, 1, i - 1), l) :
                      l \in {m \in Line : Unit[m] = Unit[stack[i]]}} : i \in 1..Len(stack)}

(* node is a caller of the statement, at any distance.                     *)
Inside(node, s) == Len(node) < Len(s) /\ SubSeq(s, 1, Len(node)) = node

-----------------------------------------------------------------------------
(* analyze                                                                 *)

(* Defect: a branch to the statement itself counts as being called by it.  *)
ViolatedFromParent(s) ==
  ~(/\ condition.node # None
    /\ Inside(condition.node, s) \/ condition.node = s)

(* stack_condition_violated                                                *)
ConditionViolated(s) ==
  ~(/\ condition.node # None /\ Inside(condition.node, s)
    /\ condition.source \in {None, Source[s[Len(condition.node) + 1]]})

Stops(s, limit) ==
  \/ stopNext
  \/ Last(s) \in breakpoints
  \/ limit
  \/ stopStack /\ ConditionViolated(s)

StopAt(s) ==
  /\ shown' = s
  /\ stopNext' = FALSE /\ stopStack' = FALSE
  /\ condition' = [node |-> s, source |-> None]
  /\ continue' = FALSE
  /\ outbox' = Append(outbox, "stopped")
  /\ wish' = NoWish

-----------------------------------------------------------------------------
(* The thread: thread_routine of the session and debugger::step.           *)

WillBlock == inbox = <<>> /\ ~terminated

Loop ==
  /\ thread = "loop" /\ thread' = IF WillBlock THEN "idle" ELSE "read"
  /\ UNCHANGED <<inbox, terminated, analysis, flags, outbox, client, wish>>

MayStep == thread = "idle" /\ task \in {"config", "run"} /\ continue

(* step returns: nothing to do, or the analysis is stopped.                *)
NothingToStep ==
  /\ thread = "idle" /\ ~MayStep
  /\ thread' = "read"
  /\ UNCHANGED <<inbox, terminated, analysis, flags, outbox, client, wish>>

(* async_busy_wait                                                         *)
Resolved == config \in {"resolved", "told"}

AwaitConfig ==
  /\ MayStep /\ task = "config" /\ ~Resolved
  /\ thread' = "read"
  /\ UNCHANGED <<inbox, terminated, analysis, flags, outbox, client, wish>>

(* start_main_analyzer: answers the launch, unless there is no text.       *)
StartAnalysis ==
  /\ MayStep /\ task = "config" /\ Resolved
  /\ \/ task' = "run" /\ outbox' = Append(outbox, "launched")
     \/ task' = "done" /\ outbox' = outbox \o <<"refused", "exited">>
  /\ thread' = IF task' = "done" THEN "read" ELSE "idle"
  /\ UNCHANGED <<inbox, terminated, config, stack, limited, shown, flags, client, wish>>

(* One statement of co_step: analyze and, unless it stops, the statement.  *)
(* The task yields when a message has come.                                *)
Statement ==
  /\ MayStep /\ task = "run"
  /\ stack' \in Successors /\ limited' \in BOOLEAN
  /\ IF Stops(stack', limited')
       THEN StopAt(stack') /\ thread' = "read"
       ELSE /\ thread' = IF WillBlock THEN "idle" ELSE "read"
            /\ UNCHANGED <<shown, stopNext, stopStack, condition, continue, outbox, wish>>
  /\ UNCHANGED <<inbox, terminated, task, config, breakpoints, client>>

(* The program ends.                                                       *)
Finish ==
  /\ MayStep /\ task = "run"
  /\ task' = "done" /\ outbox' = Append(outbox, "exited")
  /\ thread' = "read"
  /\ UNCHANGED <<inbox, terminated, config, stack, limited, shown, flags, client, wish>>

(* queue.read finds the queue terminated.                                  *)
ReadNothing ==
  /\ thread = "read" /\ terminated
  /\ thread' = "ended" /\ task' = "none"
  /\ UNCHANGED <<inbox, terminated, config, stack, limited, shown, flags, outbox, client, wish>>

-----------------------------------------------------------------------------
(* The requests.                                                           *)

Read(k) ==
  /\ thread = "read" /\ ~terminated /\ inbox # <<>> /\ Head(inbox).kind = k
  /\ inbox' = Tail(inbox)
  /\ thread' = IF k = "disconnect" THEN "ended" ELSE "loop"
  /\ UNCHANGED <<terminated, stack, limited, shown, client>>

ReadDiscarded ==
  /\ Read("discarded")
  /\ UNCHANGED <<task, config, flags, outbox, wish>>

(* on_launch: the configuration is asked for, the rest waits for it.       *)
Launch ==
  /\ Read("launch")
  /\ task' = "config" /\ config' = "asked"
  /\ continue' = TRUE /\ stopNext' = Head(inbox).entry /\ stopStack' = FALSE
  /\ wish' = [mode |-> "run", pause |-> IF Head(inbox).entry THEN "yes" ELSE "no"]
  /\ UNCHANGED <<condition, breakpoints, outbox>>

SetBreakpoints ==
  /\ Read("breakpoints")
  /\ breakpoints' = Head(inbox).lines
  /\ UNCHANGED <<task, config, continue, stopNext, stopStack, condition, outbox, wish>>

Resume(mode) ==
  /\ continue' = TRUE
  /\ wish' = [mode |-> mode, pause |-> IF wish.pause = "no" THEN "no" ELSE "before"]
  /\ UNCHANGED <<task, config, breakpoints, outbox>>

(* next                                                                    *)
StepOver ==
  /\ Read("next") /\ Resume("over")
  /\ stopStack' = TRUE
  /\ UNCHANGED <<stopNext, condition>>

StepIn ==
  /\ Read("stepIn") /\ Resume("in")
  /\ stopNext' = TRUE
  /\ UNCHANGED <<stopStack, condition>>

(* step_out: condition.node is the stack at the last stop.                 *)
StepOut ==
  /\ Read("stepOut") /\ Resume("out")
  /\ IF condition.node \notin {None, <<>>}
       THEN /\ stopStack' = TRUE
            /\ condition' = [node |-> Front(condition.node),
                             source |-> Source[Last(condition.node)]]
            /\ UNCHANGED stopNext
       ELSE stopNext' = FALSE /\ UNCHANGED <<stopStack, condition>>

ContinueDebug ==
  /\ Read("continue") /\ continue' = TRUE
  /\ stopNext' = FALSE
  /\ wish' = NoWish
  /\ UNCHANGED <<task, config, stopStack, condition, breakpoints, outbox>>

(* pause                                                                   *)
Pause ==
  /\ Read("pause")
  /\ stopNext' = TRUE
  /\ wish' = [wish EXCEPT !.pause = "yes"]
  /\ UNCHANGED <<task, config, continue, stopStack, condition, breakpoints, outbox>>

(* on_disconnect: the debugger is destroyed, and the thread ends.          *)
Disconnect ==
  /\ Read("disconnect")
  /\ task' = "none" /\ outbox' = Append(outbox, "disconnected")
  /\ UNCHANGED <<config, flags, wish>>

ThreadStep ==
  \/ Loop \/ NothingToStep \/ AwaitConfig \/ StartAnalysis \/ Statement \/ Finish
  \/ ReadNothing \/ ReadDiscarded \/ Launch \/ SetBreakpoints \/ StepOver \/ StepIn \/ StepOut
  \/ ContinueDebug \/ Pause \/ Disconnect

-----------------------------------------------------------------------------
(* The rest of the server.                                                 *)

(* The LSP thread provides the configuration, or an error: the response is *)
(* resolved, then the thread is woken up.                                  *)
Provide ==
  /\ config \in {"asked", "resolved"}
  /\ config' = IF config = "asked" THEN "resolved" ELSE "told"
  /\ inbox' = IF config = "resolved" THEN Append(inbox, [kind |-> "discarded"]) ELSE inbox
  /\ UNCHANGED <<thread, terminated, task, stack, limited, shown, flags, outbox, client, wish>>

(* The end of the client's stream.                                         *)
Terminate ==
  /\ ~terminated /\ terminated' = TRUE
  /\ editor' = "gone"
  /\ UNCHANGED <<thread, inbox, analysis, flags, outbox, sent, wish>>

-----------------------------------------------------------------------------
(* The editor. It resumes what it believes to be stopped and pauses what   *)
(* it believes to run.                                                     *)

Send(request) ==
  /\ sent < MaxRequests /\ sent' = sent + 1
  /\ inbox' = Append(inbox, request)
  /\ UNCHANGED <<thread, terminated, analysis, flags, outbox, wish>>

Request ==
  \/ /\ editor = "new" /\ editor' = "launching"
     /\ \E e \in BOOLEAN : Send([kind |-> "launch", entry |-> e])
  \/ /\ editor # "gone" /\ UNCHANGED editor
     /\ \E b \in SUBSET Breakable : Send([kind |-> "breakpoints", lines |-> b])
  \/ /\ editor = "stopped" /\ editor' = "running"
     /\ \E k \in {"next", "stepIn", "stepOut", "continue"} : Send([kind |-> k])
  \/ /\ editor = "running" /\ UNCHANGED editor
     /\ Send([kind |-> "pause"])
  \/ /\ editor # "gone" /\ editor' = "gone"
     /\ Send([kind |-> "disconnect"])

Receive ==
  /\ outbox # <<>> /\ outbox' = Tail(outbox)
  /\ editor' = (CASE editor = "gone" -> "gone"
                  [] Head(outbox) = "launched" -> "running"
                  [] Head(outbox) = "stopped" -> "stopped"
                  [] OTHER -> "over")
  /\ UNCHANGED <<thread, inbox, terminated, analysis, flags, sent, wish>>

Next == ThreadStep \/ Provide \/ Terminate \/ Request \/ Receive

Spec == Init /\ [][Next]_vars

(* The thread runs, and so does the LSP thread, which provides what it has *)
(* been asked for; the editor need do nothing.                             *)
FairSpec == Spec /\ WF_vars(ThreadStep) /\ WF_vars(Provide)

-----------------------------------------------------------------------------
(* Properties.                                                             *)

(* The variables hold values of these sets.                                *)
Message == [kind : {"discarded", "next", "stepIn", "stepOut", "continue", "pause", "disconnect"}]
           \cup [kind : {"launch"}, entry : BOOLEAN]
           \cup [kind : {"breakpoints"}, lines : SUBSET Breakable]
TypeOK ==
  /\ thread \in {"loop", "idle", "read", "ended"}
  /\ inbox \in Seq(Message) /\ terminated \in BOOLEAN
  /\ task \in {"none", "config", "run", "done"}
  /\ config \in {"none", "asked", "resolved", "told"}
  /\ stack \in Seq(Line) /\ Len(stack) <= MaxDepth /\ limited \in BOOLEAN
  /\ shown \in Seq(Line) /\ Len(shown) <= MaxDepth
  /\ {continue, stopNext, stopStack} \subseteq BOOLEAN
  /\ condition.node = None \/ condition.node \in Seq(Line)
  /\ condition.source \in {Source[l] : l \in Line} \cup {None}
  /\ breakpoints \subseteq Breakable
  /\ outbox \in Seq({"launched", "refused", "stopped", "exited", "disconnected"})
  /\ editor \in {"new", "launching", "running", "stopped", "over", "gone"}
  /\ sent \in 0..MaxRequests
  /\ wish \in [mode : {"run", "in", "over", "out"}, pause : {"no", "before", "yes"}]

(* A statement the user wants to see, by what he has asked for.            *)
Left(s) == CASE wish.mode = "in" -> TRUE
             [] wish.mode = "over" -> ~Inside(shown, s)
             [] wish.mode = "out" -> ~Inside(Front(shown), s)
             [] wish.mode = "run" -> FALSE

(* Every stop is asked for, by the request that resumed the analysis, by a *)
(* breakpoint, by the ACTR limit or by a pause since the last stop; a step *)
(* that is over, or was interrupted by a stop, causes no other.            *)
StopsWhereAsked ==
  [][continue /\ ~continue' =>
       \/ Last(stack') \in breakpoints \/ limited'
       \/ Left(stack') \/ wish.pause # "no"]_vars

(* No statement that the user has asked for is passed: neither one with a  *)
(* breakpoint, nor the end of a step, nor the first after a pause, whatever*)
(* requests and messages the thread handles between two statements.        *)
NeverRunsPast ==
  [][Statement /\ continue' =>
       /\ Last(stack') \notin breakpoints /\ ~limited'
       /\ ~Left(stack') /\ wish.pause # "yes"]_vars

(* While the editor believes the program to be stopped, it is, where       *)
(* stackTrace says: scopes and variables are those of frames that exist    *)
(* (proc_stack_ refers to them). And a program that is stopped is always   *)
(* one the editor can resume: it knows, will know, or has resumed it.      *)
ResumePending == \E i \in 1..Len(inbox) :
  inbox[i].kind \in {"next", "stepIn", "stepOut", "continue"}
StopIsShared ==
  /\ editor = "stopped" => task = "run" /\ ~continue /\ shown = stack
  /\ task = "run" /\ ~continue =>
       (\E i \in 1..Len(outbox) : outbox[i] = "stopped") \/ editor \in {"stopped", "gone"} \/ ResumePending

(* A launch is answered, unless the session is over before.                *)
Answered == \E i \in 1..Len(outbox) : outbox[i] \in {"launched", "refused"}
=============================================================================
