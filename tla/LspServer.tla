----------------------------- MODULE LspServer -----------------------------
(***************************************************************************)
(* lsp/lsp_server.cpp and server.cpp with lsp/progress_notification.cpp    *)
(* and the responses of lsp/feature_language_features.cpp: requests in     *)
(* both directions, cancellation, file watchers counted for their holders, *)
(* the progress token, and the diagnostics the client shows.               *)
(*                                                                         *)
(* Requests reach the client in order. It answers when it likes, in any    *)
(* order, and may refuse. Notifications are received as they are sent.     *)
(***************************************************************************)
EXTENDS Naturals, Sequences, SequencesExt, FiniteSets

CONSTANTS
  Holder,      \* libraries and directories that may want a watcher
  Uri,
  Query,       \* requests of the client that are answered from the work queue
  Parts,       \* Parts[q]: opcodes of an opcode_suggestion, 1 for other requests
  DiagFile,
  MaxRequests, \* bound: requests of the server for watchers and tokens
  MaxParses,   \* bound: calls of parsing_started
  MaxPublish   \* bound: calls of consume_diagnostics

ServerAssumption ==
  /\ Parts \in [Query -> Nat]
  /\ MaxRequests \in Nat /\ MaxParses \in Nat /\ MaxPublish \in Nat

VARIABLES
  shutdown,    \* shutdown_request_received_
  handlers,    \* request_handlers_, <<id, kind, argument>>
  nextRequest, \* request_id_counter
  watchers,    \* m_watcher_registrations
  nextWatcher, \* m_next_watcher_id
  held,        \* the id each holder was given
  token, tokenState, pendingUri,
  cancellable, \* cancellable_requests_
  asked,       \* queries the client has sent
  left,        \* subrequests of each query in the work queue
  valid,       \* the responses of a query have not been invalidated
  failed,      \* m_failed of a composite response
  last,        \* last_diagnostics_files_
  parses, publishes,
  \* the client
  toClient,    \* requests on their way to the client, in order
  answers,     \* answers on their way to the server
  registered,  \* watchers of the client
  refused,     \* watchers the client has refused
  progress,    \* what has become of each token
  results, errors, \* responses to each query
  diags, shown     \* what was published last, and what the client shows

requestVars == <<handlers, nextRequest, toClient>>
watcherVars == <<watchers, nextWatcher, held>>
tokenVars == <<token, tokenState, pendingUri, parses, progress>>
queryVars == <<cancellable, asked, left, valid, failed, results, errors>>
diagVars == <<last, publishes, diags, shown>>
clientVars == <<registered, refused>>
vars == <<shutdown, requestVars, watcherVars, tokenVars, queryVars, diagVars, clientVars, answers>>

(* INVALID of watcher_registration_id.                                     *)
Invalid == 0

Init == /\ shutdown = FALSE /\ handlers = {} /\ nextRequest = 0
        /\ watchers = {} /\ nextWatcher = 0 /\ held = [h \in Holder |-> Invalid]
        /\ token = 0 /\ tokenState = "invalid" /\ pendingUri = FALSE
        /\ cancellable = {} /\ asked = {}
        /\ left = [q \in Query |-> 0] /\ valid = [q \in Query |-> TRUE]
        /\ failed = [q \in Query |-> FALSE]
        /\ last = {} /\ parses = 0 /\ publishes = 0
        /\ toClient = <<>> /\ answers = {} /\ registered = {} /\ refused = {}
        /\ progress = [t \in 0..MaxParses |-> "none"]
        /\ results = [q \in Query |-> 0] /\ errors = [q \in Query |-> 0]
        /\ diags = {} /\ shown = {}

-----------------------------------------------------------------------------
(* A request of the server: its handler is stored before it is sent.       *)
Request(kind, argument) ==
  /\ nextRequest < MaxRequests
  /\ handlers' = handlers \cup {<<nextRequest, kind, argument>>}
  /\ toClient' = Append(toClient, <<nextRequest, kind, argument>>)
  /\ nextRequest' = nextRequest + 1

Shared(w) == [w EXCEPT !.count = @ + 1]

(* Others still want a registration when one holder has given it up.       *)
Wanted(w) == w.count > 1

(* add_watcher for a base that is watched: the registration is shared.     *)
ShareWatcher(h, u) ==
  /\ held[h] = Invalid /\ ~shutdown
  /\ \E w \in watchers :
       /\ w.uri = u
       /\ watchers' = (watchers \ {w}) \cup {Shared(w)}
       /\ held' = [held EXCEPT ![h] = w.id]
  /\ UNCHANGED <<shutdown, requestVars, nextWatcher, tokenVars, queryVars, diagVars, clientVars, answers>>

AddWatcher(h, u) ==
  /\ held[h] = Invalid /\ ~shutdown /\ \A w \in watchers : w.uri # u
  /\ nextWatcher' = nextWatcher + 1
  /\ watchers' = watchers \cup {[id |-> nextWatcher', uri |-> u, count |-> 1]}
  /\ held' = [held EXCEPT ![h] = nextWatcher']
  /\ Request("register", nextWatcher')
  /\ UNCHANGED <<shutdown, tokenVars, queryVars, diagVars, clientVars, answers>>

(* remove_watcher of an id that is not there, or that others still want.   *)
ReleaseWatcher(h) ==
  /\ held[h] # Invalid /\ held' = [held EXCEPT ![h] = Invalid]
  /\ \/ /\ \A w \in watchers : w.id # held[h]
        /\ watchers' = watchers
     \/ \E w \in watchers :
          /\ w.id = held[h] /\ Wanted(w)
          /\ watchers' = (watchers \ {w}) \cup {[w EXCEPT !.count = @ - 1]}
  /\ UNCHANGED <<shutdown, requestVars, nextWatcher, tokenVars, queryVars, diagVars, clientVars, answers>>

RemoveWatcher(h) ==
  /\ held[h] # Invalid /\ held' = [held EXCEPT ![h] = Invalid]
  /\ \E w \in watchers :
       /\ w.id = held[h] /\ ~Wanted(w)
       /\ watchers' = watchers \ {w}
       /\ IF shutdown THEN UNCHANGED requestVars ELSE Request("unregister", w.id)
  /\ UNCHANGED <<shutdown, nextWatcher, tokenVars, queryVars, diagVars, clientVars, answers>>

(* Defect: a registration the client has refused is kept.                  *)
RefusedStays(id) == watchers

(* The registrations that remain when the client has refused one.          *)
Refused(id) == {w \in watchers : w.id # id}

-----------------------------------------------------------------------------
(* progress_notification.                                                  *)

NotifyEnd ==
  /\ progress' = [progress EXCEPT ![token] = "ended"]
  /\ tokenState' = "invalid" /\ token' = token + 1

(* parsing_started; without a uri when there is nothing to parse.          *)
ParsingStarted(uri) ==
  /\ parses < MaxParses /\ parses' = parses + 1 /\ pendingUri' = uri
  /\ \/ /\ tokenState = "requested" \/ (~uri /\ tokenState = "invalid")
        /\ UNCHANGED <<token, tokenState, progress, requestVars>>
     \/ /\ ~uri /\ tokenState = "valid"
        /\ NotifyEnd /\ UNCHANGED requestVars
     \/ /\ uri /\ tokenState = "valid"
        /\ UNCHANGED <<token, tokenState, progress, requestVars>>
     \/ /\ uri /\ tokenState = "invalid"
        /\ Request("token", token) /\ tokenState' = "requested"
        /\ UNCHANGED <<token, progress>>
  /\ UNCHANGED <<shutdown, watcherVars, queryVars, diagVars, clientVars, answers>>

(* The token has been created: if parsing has ended meanwhile, so has the  *)
(* progress, which then ends without having begun.                         *)
Granted ==
  \/ pendingUri /\ tokenState' = "valid" /\ token' = token
     /\ progress' = [progress EXCEPT ![token] = "begun"]
  \/ ~pendingUri /\ NotifyEnd

-----------------------------------------------------------------------------

Handled(h) == handlers \ {h}

(* An answer of the client: its handler is taken out and called.           *)
Answered(r, kind, argument, ok) ==
  /\ <<r, kind, argument>> \in handlers
  /\ handlers' = Handled(<<r, kind, argument>>)
  /\ \/ /\ kind \in {"register", "unregister"}
        /\ watchers' = IF kind = "register" /\ ~ok THEN Refused(argument) ELSE watchers
        /\ UNCHANGED tokenVars
     \/ /\ kind = "token"
        /\ IF ok THEN Granted
                 ELSE tokenState' = "invalid" /\ UNCHANGED <<token, progress>>
        /\ UNCHANGED <<watchers, pendingUri, parses>>
  /\ UNCHANGED <<nextWatcher, held>>

Receive ==
  /\ \E a \in answers : /\ answers' = answers \ {a}
                        /\ Answered(a[1], a[2], a[3], a[4])
  /\ UNCHANGED <<shutdown, nextRequest, toClient, queryVars, diagVars, clientVars>>

(* The client handles a request, and agrees or does not.                   *)
ClientHandles(ok) ==
  /\ toClient # <<>> /\ toClient' = Tail(toClient)
  /\ LET m == Head(toClient) IN
       /\ answers' = answers \cup {<<m[1], m[2], m[3], ok>>}
       /\ registered' = IF m[2] = "register" /\ ok THEN registered \cup {m[3]}
                        ELSE IF m[2] = "unregister" THEN registered \ {m[3]}
                        ELSE registered
       /\ refused' = IF m[2] = "register" /\ ~ok THEN refused \cup {m[3]} ELSE refused
  /\ UNCHANGED <<shutdown, handlers, nextRequest, watcherVars, tokenVars, queryVars, diagVars>>

-----------------------------------------------------------------------------
(* Requests of the client. The feature submits one response, or one for    *)
(* each opcode, to the work queue, and registers what invalidates them.    *)
Ask(q) ==
  /\ q \notin asked /\ asked' = asked \cup {q}
  /\ left' = [left EXCEPT ![q] = Parts[q]]
  /\ IF Parts[q] = 0
     THEN results' = [results EXCEPT ![q] = 1] /\ UNCHANGED cancellable
     ELSE cancellable' = cancellable \cup {q} /\ UNCHANGED results
  /\ UNCHANGED <<shutdown, requestVars, watcherVars, tokenVars, valid, failed, errors, diagVars, clientVars, answers>>

Cancel(q) ==
  /\ q \in cancellable /\ cancellable' = cancellable \ {q}
  /\ valid' = [valid EXCEPT ![q] = FALSE]
  /\ UNCHANGED <<shutdown, requestVars, watcherVars, tokenVars, asked, left, failed, results, errors, diagVars, clientVars, answers>>

(* The last of several responses, none of which has failed.                *)
Sends(q) == ~failed[q] /\ left[q] = 1

(* respond and respond_error remove the entry of the query.                *)
Forget(q) == cancellable \ {q}

(* The work queue executes an item of a query: an invalidated response is  *)
(* answered with an error, and the last of several sends the result.       *)
Serve(q) ==
  /\ left[q] > 0 /\ left' = [left EXCEPT ![q] = @ - 1]
  /\ \/ /\ ~valid[q]
        /\ failed' = [failed EXCEPT ![q] = TRUE]
        /\ errors' = [errors EXCEPT ![q] = @ + 1]
        /\ cancellable' = Forget(q) /\ UNCHANGED results
     \/ /\ valid[q] /\ ~Sends(q)
        /\ UNCHANGED <<failed, results, errors, cancellable>>
     \/ /\ valid[q] /\ Sends(q)
        /\ results' = [results EXCEPT ![q] = @ + 1]
        /\ cancellable' = Forget(q) /\ UNCHANGED <<failed, errors>>
  /\ UNCHANGED <<shutdown, requestVars, watcherVars, tokenVars, asked, valid, diagVars, clientVars, answers>>

-----------------------------------------------------------------------------

(* The files whose diagnostics are replaced by none.                       *)
Clear(new) == last \ new

(* consume_diagnostics: the files with diagnostics are sent with them, and *)
(* those that had some the last time without any.                          *)
ConsumeDiagnostics(new) ==
  /\ publishes < MaxPublish /\ publishes' = publishes + 1
  /\ diags' = new /\ last' = new
  /\ shown' = (shown \cup new) \ Clear(new)
  /\ UNCHANGED <<shutdown, requestVars, watcherVars, tokenVars, queryVars, clientVars, answers>>

Shutdown ==
  /\ ~shutdown /\ shutdown' = TRUE
  /\ UNCHANGED <<requestVars, watcherVars, tokenVars, queryVars, diagVars, clientVars, answers>>

Watching == \E h \in Holder : ReleaseWatcher(h) \/ RemoveWatcher(h)
              \/ \E u \in Uri : ShareWatcher(h, u) \/ AddWatcher(h, u)

Next == \/ Watching \/ Receive \/ Shutdown
        \/ \E uri \in BOOLEAN : ParsingStarted(uri)
        \/ \E ok \in BOOLEAN : ClientHandles(ok)
        \/ \E q \in Query : Ask(q) \/ Cancel(q) \/ Serve(q)
        \/ \E new \in SUBSET DiagFile : ConsumeDiagnostics(new)

(* The client answers, its answers arrive, and the work queue is served.   *)
Fairness == /\ WF_vars(\E ok \in BOOLEAN : ClientHandles(ok)) /\ WF_vars(Receive)
            /\ \A q \in Query : WF_vars(Serve(q))

Spec == Init /\ [][Next]_vars
FairSpec == Spec /\ Fairness

-----------------------------------------------------------------------------
(* Properties.                                                             *)

(* The variables hold values of these sets.                                *)
TypeOK ==
  /\ handlers \subseteq (0..MaxRequests) \X {"register", "unregister", "token"} \X Nat
  /\ watchers \subseteq [id : 1..MaxRequests, uri : Uri, count : 1..Cardinality(Holder)]
  /\ held \in [Holder -> 0..MaxRequests] /\ nextWatcher \in 0..MaxRequests
  /\ token \in 0..MaxParses /\ tokenState \in {"invalid", "requested", "valid"}
  /\ cancellable \subseteq asked /\ asked \subseteq Query
  /\ left \in [Query -> Nat] /\ valid \in [Query -> BOOLEAN] /\ failed \in [Query -> BOOLEAN]
  /\ results \in [Query -> 0..1]
  /\ progress \in [0..MaxParses -> {"none", "begun", "ended"}]

(* A registration counts the holders that were given its id, and there is  *)
(* one for each base, though a refusal may come when the base has been     *)
(* given up and is watched again.                                          *)
CountsHolders == \A w \in watchers :
  /\ w.count = Cardinality({h \in Holder : held[h] = w.id})
  /\ \A v \in watchers : v.uri = w.uri => v = w

(* What a holder was given is registered, unless the client has refused.   *)
HeldIsWatched == \A h \in Holder :
  held[h] # Invalid => (\E w \in watchers : w.id = held[h]) \/ held[h] \in refused

(* When the client has handled everything, it watches what the server      *)
(* believes it does, no more and no less.                                  *)
WatchersAgree ==
  toClient = <<>> /\ answers = {} /\ ~shutdown =>
    registered = {w.id : w \in watchers}

(* The registrations, their counts, their holders and the client agree.    *)
WatchersAreCounted == CountsHolders /\ HeldIsWatched /\ WatchersAgree

(* A query that can be cancelled has not been answered and is still in the *)
(* work queue.                                                             *)
CancellableIsPending == \A q \in cancellable :
  left[q] > 0 /\ results[q] = 0 /\ errors[q] = 0

(* A query that was cancelled in time gets an error and no result, even if *)
(* parts of it were served before.                                         *)
CancelledGetsError == \A q \in asked :
  left[q] = 0 => IF valid[q] THEN results[q] = 1 /\ errors[q] = 0
                             ELSE results[q] = 0 /\ errors[q] >= 1

(* Each request of the server is in one place: on its way, answered, or    *)
(* done. A handler is never called twice, and none is left behind.         *)
HandlersMatch ==
  handlers = ToSet(toClient) \cup {<<a[1], a[2], a[3]>> : a \in answers}

(* The client shows a progress only while there is something to parse:     *)
(* one that has begun before or after parsing ended is ended.              *)
ProgressEnds == \A t \in DOMAIN progress :
  progress[t] = "begun" => pendingUri /\ token = t /\ tokenState = "valid"

(* Files that lost their diagnostics are cleared, and no others.           *)
DiagnosticsShown == shown = diags
=============================================================================
