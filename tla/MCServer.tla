------------------------------ MODULE MCServer ------------------------------
(***************************************************************************)
(* The threads of the language server for TLC: a blocking queue between    *)
(* them (BlockingQueue, with its theorems), the program with its LSP thread*)
(* and debug sessions (MainProgram), and the LSP server with queries (Lsp) *)
(* and with watchers (Watch).                                              *)
(*                                                                         *)
(* The components share no state in this model. All of them start in their *)
(* initial state; `part` chooses the one that runs.                        *)
(***************************************************************************)
EXTENDS BlockingQueue, TLC

CONSTANTS Session, Nobody, MaxMessages,
          hover, suggestion, Holder, Uri, DiagFile, MaxRequests, MaxParses, MaxPublish

VARIABLES
  part,
  \* MainProgram
  main, sessions, toClean, lsp, lspQueue, lspClosed, proxies, work, waking, ret, code,
  isShutdown, thread, sessionQueue, closed, launch, conf, sent, stray,
  \* LspServer
  shutdown, handlers, nextRequest, watchers, nextWatcher, held, token, tokenState,
  pendingUri, cancellable, asked, left, valid, failed, last, parses, publishes,
  toClient, answers, registered, refused, progress, results, errors, diags, shown

Main == INSTANCE MainProgram WITH queue <- sessionQueue, shutdown <- isShutdown

(* A request for one hover, and for suggestions for two opcodes.           *)
Lsp == INSTANCE LspServer WITH
         Query <- {hover, suggestion}, Parts <- (hover :> 1 @@ suggestion :> 2),
         Holder <- {}, Uri <- {}, MaxRequests <- 3

Watch == INSTANCE LspServer WITH
           Query <- {}, Parts <- <<>>, DiagFile <- {}, MaxParses <- 1, MaxPublish <- 0

ASSUME Main!SessionAssumption /\ Lsp!ServerAssumption /\ Watch!ServerAssumption

mainVars == <<main, sessions, toClean, lsp, lspQueue, lspClosed, proxies, work, waking, ret,
              code, isShutdown, thread, sessionQueue, closed, launch, conf, sent, stray>>
lspVars == <<shutdown, handlers, nextRequest, watchers, nextWatcher, held, token, tokenState,
             pendingUri, cancellable, asked, left, valid, failed, last, parses, publishes,
             toClient, answers, registered, refused, progress, results, errors, diags, shown>>
allVars == <<part, vars, mainVars, lspVars>>

ServerInit ==
  /\ part \in {"queue", "main", "queries", "watchers"}
  /\ Init /\ (part # "queue" => policy = "drop_elements")
  /\ Main!Init
  /\ IF part = "watchers" THEN Watch!Init ELSE Lsp!Init

ServerNext ==
  \/ part = "queue" /\ Next /\ UNCHANGED <<part, mainVars, lspVars>>
  \/ part = "main" /\ Main!Next /\ UNCHANGED <<part, vars, lspVars>>
  \/ part = "queries" /\ Lsp!Next /\ UNCHANGED <<part, vars, mainVars>>
  \/ part = "watchers" /\ Watch!Next /\ UNCHANGED <<part, vars, mainVars>>

(* The threads of the program run; the client answers, and the work queue  *)
(* is served.                                                              *)
ServerFairness ==
  /\ WF_mainVars(part = "main" /\ Main!MainStep)
  /\ WF_mainVars(part = "main" /\ Main!LspStep)
  /\ \A s \in Session : /\ WF_mainVars(part = "main" /\ Main!SessionStep(s))
                        /\ WF_mainVars(part = "main" /\ Main!Provide(s))
  /\ WF_lspVars(part = "queries" /\ \E ok \in BOOLEAN : Lsp!ClientHandles(ok))
  /\ WF_lspVars(part = "queries" /\ Lsp!Receive)
  /\ \A q \in {hover, suggestion} : WF_lspVars(part = "queries" /\ Lsp!Serve(q))

ServerSpec == ServerInit /\ [][ServerNext]_allVars /\ ServerFairness

-----------------------------------------------------------------------------
(* A session that runs keeps getting its messages; what it asks for is in  *)
(* one place, and somebody is about to look there; and the program returns *)
(* 0 after shutdown and exit.                                              *)
SessionsReachable ==
  Main!RunningIsReachable /\ Main!NothingForgotten /\ Main!CleanExit

(* A query that can be cancelled is not answered yet, and one that was     *)
(* cancelled in time gets an error and no result. Each request to the      *)
(* client has its handler, a progress ends with the parsing, and the       *)
(* diagnostics shown are those of the server. The file watchers registered *)
(* with the client are those the holders count on: CountsHolders,          *)
(* HeldIsWatched and WatchersAgree.                                        *)
ClientIsAnswered ==
  /\ part = "queries" =>
       /\ Lsp!CancelledGetsError /\ Lsp!CancellableIsPending
       /\ Lsp!HandlersMatch /\ Lsp!ProgressEnds /\ Lsp!DiagnosticsShown
  /\ part = "watchers" => Watch!WatchersAreCounted

(* A session gets its configuration, every query is answered, and the end  *)
(* of the client's stream ends every thread.                               *)
RequestsAreServed ==
  /\ Main!LaunchServed /\ Main!Ends
  /\ \A q \in {hover, suggestion} :
       part = "queries" /\ q \in asked ~> part # "queries" \/ results[q] + errors[q] > 0
=============================================================================
