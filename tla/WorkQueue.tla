------------------------------ MODULE WorkQueue ------------------------------
(***************************************************************************)
(* The work queue of the workspace manager                                 *)
(* (parser_library/src/workspace_manager.cpp): the LSP thread turns every  *)
(* client message into work items, and idle_handler, called by the thread  *)
(* loop of language_server/src/main.cpp when its message queue is empty,   *)
(* executes the items and parses the open files that are marked for it.    *)
(*                                                                         *)
(* Abstracted data:                                                        *)
(*  - the text of a document is the version of the edit that produced it   *)
(*    (0 is the text on the disk), its diagnostics and tables are the text *)
(*    and the configuration it was parsed with;                            *)
(*  - the settings of a workspace are a version number too (0 is "none");  *)
(*  - File holds documents other than configuration files;                 *)
(*  - a task either completes or is suspended until the client answers a   *)
(*    request for an external resource.                                    *)
(*                                                                         *)
(* One LSP thread runs everything here; it alternates between handling     *)
(* messages and idle_handler, so messages interleave with items and with   *)
(* parsing only where idle_handler returns.                                *)
(***************************************************************************)
EXTENDS Integers, Sequences, FiniteSets

CONSTANTS
  File,         \* documents
  Folder,       \* uris of workspace folders
  Query,        \* requests answered from parse results (hover, definition...)
  Session,      \* debug sessions asking for an analyzer configuration
  Implicit,     \* m_implicit_workspace
  Home,         \* Home[f]: the folder f lies in, Implicit if in none
  MayUse,       \* MayUse[f]: members a parse of f may depend on
  Parses,       \* settings whose configuration documents parse
  MaxMessages,  \* bound: messages of the client that enqueue work
  MaxSettings   \* bound: versions of the client's settings

ASSUME ConstantsAssumption ==
  /\ IsFiniteSet(Folder) /\ Implicit \notin Folder
  /\ Home \in [File -> Folder \cup {Implicit}]
  /\ MayUse \in [File -> SUBSET File]
  /\ Parses \subseteq Nat
  /\ MaxMessages \in Nat
  /\ MaxSettings \in Nat \ {0}

VARIABLES
  (* The client. *)
  clock,        \* number of messages received so far: numbers items and texts
  docs,         \* documents open in the editor
  sent,         \* sent[f]: text of f in the editor
  folders,      \* workspace folders open in the editor
  settings,     \* version of the client's settings
  asked,        \* asked[q]: sent at the time q was asked
  (* The workspace manager. *)
  queue,        \* m_work_queue
  requests,     \* configuration requests sent and not answered
  entry,        \* m_workspaces: the object each uri is mapped to
  used,         \* opened_workspace::settings of each workspace
  loaded,       \* settings each configuration was last loaded from
  response,     \* state of the response of each query
  valid,        \* workspace_manager_response::valid of each query
  dcAnswered,   \* sessions whose configuration was provided
  text,         \* the file manager's texts
  (* The workspace m_ws. *)
  opened,       \* files with m_opened set
  pending,      \* m_parsing_pending
  results,      \* last results of each file
  active,       \* m_active_task
  (* The thread. *)
  loop,         \* where the LSP thread is
  parsingDone,  \* the local parsing_done of idle_handler
  misused       \* history: kinds of steps that used a destroyed workspace

client  == <<clock, docs, sent, folders, settings, asked>>
manager == <<queue, requests, entry, used, loaded, response, valid, dcAnswered, text>>
parser  == <<opened, pending, results, active>>
thread  == <<loop, parsingDone, misused>>
vars    == <<client, manager, parser, thread>>

-----------------------------------------------------------------------------
Workspace == Folder \cup {Implicit}

(* A workspace object: gen tells two objects of one uri apart (0: none).   *)
Absent == [gen |-> 0, deleted |-> FALSE]

NotLoaded == -1

(* Work items. id is the number of the message that enqueued the item; the *)
(* two halves of a document change share it. gen is the workspace object   *)
(* captured by reference, asks tells that a configuration request of the   *)
(* item is not answered, begun that its task has been started, took the    *)
(* settings captured by a started load, changed the file_content_state     *)
(* the first half of a document change leaves to the second.               *)
Kinds == {"open", "close", "settings", "apply", "mark", "query", "dc"}
Edits == {"open", "change", "close", "none"}

(* What the items of a kind are about.                                     *)
Subject == [open |-> Workspace, close |-> Folder, settings |-> Workspace,
            apply |-> File, mark |-> File, query |-> Query, dc |-> Session]

Item == {it \in [id: Nat, kind: Kinds, of: UNION {Subject[k] : k \in Kinds}, gen: Nat,
                 edit: Edits, val: Nat, asks: BOOLEAN, begun: BOOLEAN, changed: BOOLEAN] :
           it.of \in Subject[it.kind]}

NewItem(k, x) == [id |-> clock + 1, kind |-> k, of |-> x, gen |-> 0,
                  edit |-> "none", val |-> 0, asks |-> FALSE, begun |-> FALSE,
                  changed |-> FALSE]

NoTask == [file |-> Implicit, stage |-> "none", ws |-> Implicit, gen |-> 0,
           cfg |-> NotLoaded, read |-> [f \in File |-> 0]]

NoResult == [text |-> [f \in File |-> -1], ws |-> Implicit, cfg |-> NotLoaded,
             deps |-> {}]

(* is_task(): kinds whose action is a coroutine.                           *)
IsTask(it) == it.kind \in {"open", "settings", "mark", "dc"}
IsFileChange(it) == it.kind \in {"apply", "mark"}
IsValid(it) == it.kind = "query" => valid[it.of]

(* ws_path_match: the live workspace that holds f.                         *)
Match(f) == IF Home[f] # Implicit /\ entry[Home[f]].gen # 0 /\ ~entry[Home[f]].deleted
            THEN Home[f] ELSE Implicit

GenOf(w) == IF w = Implicit THEN 0 ELSE entry[w].gen
Live(w, g) == GenOf(w) = g

Init ==
  /\ clock = 0 /\ docs = {} /\ folders = {} /\ settings = 1
  /\ sent = [f \in File |-> 0]
  /\ asked = [q \in Query |-> [f \in File |-> 0]]
  /\ queue = <<[NewItem("open", Implicit) EXCEPT !.id = 0]>>
  /\ requests = {}
  /\ entry = [w \in Folder |-> Absent]
  /\ used = [w \in Workspace |-> 0]
  /\ loaded = [w \in Workspace |-> NotLoaded]
  /\ response = [q \in Query |-> "new"]
  /\ valid = [q \in Query |-> TRUE]
  /\ dcAnswered = {}
  /\ text = [f \in File |-> 0]
  /\ opened = {} /\ pending = {}
  /\ results = [f \in File |-> NoResult]
  /\ active = NoTask
  /\ loop = "drain" /\ parsingDone = FALSE /\ misused = {}

-----------------------------------------------------------------------------
(* Messages. The thread handles one whenever it is not inside idle_handler. *)

Receive ==
  /\ loop # "idle"
  /\ clock < MaxMessages
  /\ loop' = "drain"
  /\ clock' = clock + 1

(* did_open_file, did_change_file, did_close_file: two file_change items,  *)
(* one for the file manager and one for the workspace.                     *)
DocumentItems(e, f, v) ==
  <<[NewItem("apply", f) EXCEPT !.edit = e, !.val = v],
    [NewItem("mark", f) EXCEPT !.edit = e, !.changed = (e = "change")]>>

ReceiveDocument(e, f, v) ==
  /\ Receive
  /\ queue' = queue \o DocumentItems(e, f, v)
  /\ sent' = [sent EXCEPT ![f] = v]
  /\ UNCHANGED <<folders, settings, asked, requests, entry, used, loaded, response,
                 valid, dcAnswered, text, parser, parsingDone, misused>>

DidOpenFile(f) ==
  /\ f \notin docs
  /\ docs' = docs \cup {f}
  /\ \E v \in {0, clock + 1} : ReceiveDocument("open", f, v)

DidChangeFile(f) ==
  /\ f \in docs
  /\ ReceiveDocument("change", f, clock + 1)
  /\ UNCHANGED docs

DidCloseFile(f) ==
  /\ f \in docs
  /\ docs' = docs \ {f}
  /\ ReceiveDocument("close", f, 0)

(* Defect: the query goes ahead of the items already queued.               *)
HandleRequestFirst(q, f) ==
  /\ Receive
  /\ f \in docs
  /\ response[q] = "new"
  /\ response' = [response EXCEPT ![q] = "pending"]
  /\ asked' = [asked EXCEPT ![q] = sent]
  /\ queue' = <<NewItem("query", q)>> \o queue
  /\ UNCHANGED <<docs, sent, folders, settings, requests, entry, used, loaded, valid,
                 dcAnswered, text, parser, parsingDone, misused>>

(* handle_request                                                          *)
HandleRequest(q, f) ==
  /\ Receive
  /\ f \in docs
  /\ response[q] = "new"
  /\ response' = [response EXCEPT ![q] = "pending"]
  /\ asked' = [asked EXCEPT ![q] = sent]
  /\ queue' = Append(queue, NewItem("query", q))
  /\ UNCHANGED <<docs, sent, folders, settings, requests, entry, used, loaded, valid,
                 dcAnswered, text, parser, parsingDone, misused>>

(* cancel_request_handler: a response still pending is invalidated, its    *)
(* item stays in the queue.                                                *)
CancelRequest(q) ==
  /\ loop # "idle"
  /\ response[q] = "pending" /\ valid[q]
  /\ valid' = [valid EXCEPT ![q] = FALSE]
  /\ loop' = "drain"
  /\ UNCHANGED <<client, queue, requests, entry, used, loaded, response, dcAnswered,
                 text, parser, parsingDone, misused>>

(* add_workspace: try_emplace keeps an object that is only waiting for its *)
(* workspace_close item.                                                   *)
AddWorkspace(w) ==
  /\ Receive
  /\ w \notin folders
  /\ folders' = folders \cup {w}
  /\ LET new == entry[w].gen = 0
         gen == IF new THEN clock + 1 ELSE entry[w].gen
     IN /\ entry' = IF new THEN [entry EXCEPT ![w] = [gen |-> gen, deleted |-> FALSE]]
                           ELSE entry
        /\ used' = IF new THEN [used EXCEPT ![w] = 0] ELSE used
        /\ loaded' = IF new THEN [loaded EXCEPT ![w] = NotLoaded] ELSE loaded
        /\ queue' = Append(queue, [NewItem("open", w) EXCEPT !.gen = gen, !.asks = TRUE])
        /\ requests' = requests \cup
                         {[id |-> clock + 1, ws |-> w, gen |-> gen, since |-> settings]}
  /\ UNCHANGED <<docs, sent, settings, asked, response, valid, dcAnswered, text,
                 parser, parsingDone, misused>>

(* remove_workspace: the object is marked now and erased by an item.       *)
RemoveWorkspace(w) ==
  /\ Receive
  /\ w \in folders
  /\ folders' = folders \ {w}
  /\ IF entry[w].gen = 0
     THEN UNCHANGED <<entry, queue>>
     ELSE /\ entry' = [entry EXCEPT ![w].deleted = TRUE]
          /\ queue' = Append(queue, [NewItem("close", w) EXCEPT !.gen = entry[w].gen])
  /\ UNCHANGED <<docs, sent, settings, asked, requests, used, loaded, response, valid,
                 dcAnswered, text, parser, parsingDone, misused>>

(* configuration_changed: the settings of the implicit workspace arrive    *)
(* with the message; those of every other object, the logically deleted    *)
(* ones included, are requested from the client.                           *)
Present == {w \in Folder : entry[w].gen # 0}

SettingsItem(w) == [NewItem("settings", w) EXCEPT !.gen = entry[w].gen, !.asks = TRUE]

ConfigurationChanged ==
  /\ Receive
  /\ \E v \in {settings, settings + 1}, order \in [1..Cardinality(Present) -> Present] :
       /\ v <= MaxSettings
       /\ \A w \in Present : \E i \in DOMAIN order : order[i] = w
       /\ settings' = v
       /\ queue' = Append(queue, [NewItem("settings", Implicit) EXCEPT !.val = v])
                     \o [i \in DOMAIN order |-> SettingsItem(order[i])]
       /\ requests' = requests \cup
            {[id |-> clock + 1, ws |-> w, gen |-> entry[w].gen, since |-> v] : w \in Present}
  /\ UNCHANGED <<docs, sent, folders, asked, entry, used, loaded, response, valid,
                 dcAnswered, text, parser, parsingDone, misused>>

(* Defect: the answer does not unblock the item that waits for it.         *)
ResolveNothing(r) == queue

(* open_workspace_t::provide and ::error: resolve_wi unblocks the item if  *)
(* it still exists, the settings are written through the captured pointer. *)
ResolveWorkItem(r) ==
  [i \in DOMAIN queue |->
     IF queue[i].asks /\ queue[i].id = r.id /\ queue[i].of = r.ws
     THEN [queue[i] EXCEPT !.asks = FALSE] ELSE queue[i]]

ConfigurationAnswer(r) ==
  /\ loop # "idle"
  /\ requests' = requests \ {r}
  /\ queue' = ResolveWorkItem(r)
  /\ \E v \in {0} \cup r.since..settings :
       IF Live(r.ws, r.gen)
       THEN used' = [used EXCEPT ![r.ws] = v] /\ UNCHANGED misused
       ELSE UNCHANGED used /\ misused' = misused \cup {"answer"}
  /\ loop' = "drain"
  /\ UNCHANGED <<client, entry, loaded, response, valid, dcAnswered, text, parser,
                 parsingDone>>

(* Defect: n is the first workspace_open item of the queue, not the last.  *)
FirstOpen(s, n) == /\ \A j \in 1..Len(s) : s[j].kind = "open" => 1 <= n /\ n <= j
                   /\ n # 0 => s[n].kind = "open"

(* provide_debugger_configuration: a priority item, right after the last   *)
(* workspace_open item of the queue.                                       *)
LastOpen(s, n) == /\ \A j \in 1..Len(s) : s[j].kind = "open" => j <= n
                  /\ n # 0 => s[n].kind = "open"

InsertAfter(s, n, it) ==
  [i \in 1..Len(s) + 1 |-> IF i <= n THEN s[i] ELSE IF i = n + 1 THEN it ELSE s[i - 1]]

ProvideDebuggerConfiguration(d) ==
  /\ Receive
  /\ d \notin dcAnswered
  /\ \A i \in DOMAIN queue : queue[i].of # d
  /\ \E n \in 0..Len(queue) :
       LastOpen(queue, n) /\ queue' = InsertAfter(queue, n, NewItem("dc", d))
  /\ UNCHANGED <<docs, sent, folders, settings, asked, requests, entry, used, loaded,
                 response, valid, dcAnswered, text, parser, parsingDone, misused>>

(* invalidate_external_configuration: acts at once, not through the queue. *)
InvalidateExternalConfiguration ==
  /\ Receive
  /\ \/ pending' = opened
     \/ \E f \in opened : pending' = pending \cup {f}
  /\ UNCHANGED <<docs, sent, folders, settings, asked, manager, opened, results,
                 active, parsingDone, misused>>

(* A "discarded" message: an external resource has arrived.                *)
Suspended == (queue # <<>> /\ Head(queue).begun) \/ active.stage # "none"

Wakeup ==
  /\ loop = "blocked" /\ Suspended
  /\ loop' = "drain"
  /\ UNCHANGED <<client, manager, parser, parsingDone, misused>>

-----------------------------------------------------------------------------
(* idle_handler: one action per way through an iteration of its loop.      *)

(* will_read_block(): the thread has handled every message.                *)
StartIdle ==
  /\ loop = "drain"
  /\ loop' = "idle" /\ parsingDone' = FALSE
  /\ UNCHANGED <<client, manager, parser, misused>>

HeadBlocked == queue # <<>> /\ Head(queue).asks /\ IsValid(Head(queue))

(* The head is executed now: it is a task, invalid, or needs no parsing.   *)
HeadReady == /\ queue # <<>> /\ ~HeadBlocked
             /\ Head(queue).kind = "query" => parsingDone \/ ~IsValid(Head(queue))

(* A configuration request at the head stops everything behind it.         *)
WaitForAnswer ==
  /\ loop = "idle" /\ HeadBlocked
  /\ loop' = "blocked" /\ parsingDone' = FALSE
  /\ UNCHANGED <<client, manager, parser, misused>>

(* A file_change item abandons the parse in progress.                      *)
Execute(k) ==
  /\ loop = "idle" /\ HeadReady
  /\ Head(queue).kind = k
  /\ UNCHANGED client

Finished ==
  /\ queue' = Tail(queue)
  /\ UNCHANGED loop

(* Defects: the parse in progress survives a change; so does parsing_done. *)
FileChangeKeepsTask == UNCHANGED active /\ parsingDone' = FALSE

FileChange ==
  /\ active' = NoTask
  /\ parsingDone' = FALSE

NoFileChange == UNCHANGED <<active, parsingDone>>

(* The settings a load of the configuration uses: those it started with.   *)
Took(it) == IF it.begun \/ (it.kind = "settings" /\ it.of = Implicit)
            THEN it.val ELSE used[it.of]

(* settings_updated(), for a configuration that has been loaded.           *)
SettingsUpdated(it) == loaded[it.of] # NotLoaded /\ Took(it) # loaded[it.of]

(* The first statement of the implicit workspace's settings_change item.   *)
TakeSettings(it) ==
  used' = IF it.kind = "settings" /\ it.of = Implicit
          THEN [used EXCEPT ![Implicit] = it.val] ELSE used

(* A task waits for the client: idle_handler returns, the item stays. A    *)
(* load has emptied the configuration by then (load_and_process_config),   *)
(* did_close_file has taken the mark from the file.                        *)
Loads(it) == it.kind \in {"open", "settings"}
Closes(it) == it.kind = "mark" /\ it.edit = "close"

SuspendHead ==
  /\ loop = "idle" /\ HeadReady
  /\ LET it == Head(queue) IN
       /\ IsTask(it)
       /\ Loads(it) => Live(it.of, it.gen)
       /\ it.kind = "settings" => it.begun \/ SettingsUpdated(it)
       /\ queue' = <<[it EXCEPT !.begun = TRUE,
                        !.val = IF Loads(it) THEN Took(it) ELSE @]>> \o Tail(queue)
       /\ loaded' = IF Loads(it) THEN [loaded EXCEPT ![it.of] = NotLoaded] ELSE loaded
       /\ opened' = opened \ {f \in File : Closes(it) /\ f = it.of}
       /\ pending' = pending \ {f \in File : Closes(it) /\ f = it.of}
       /\ active' = IF IsFileChange(it) THEN NoTask ELSE active
       /\ TakeSettings(it)
  /\ loop' = "blocked" /\ parsingDone' = FALSE
  /\ UNCHANGED <<client, requests, entry, response, valid, dcAnswered, text, results,
                 misused>>

(* workspace_open: load the configuration; for a folder, every opened file *)
(* is then parsed again (invalidate_external_configuration and             *)
(* mark_all_opened_files).                                                 *)
FinishOpen ==
  /\ Execute("open") /\ Finished /\ NoFileChange
  /\ LET it == Head(queue) IN
       IF Live(it.of, it.gen)
       THEN /\ loaded' = [loaded EXCEPT ![it.of] = Took(it)]
            /\ pending' = IF it.of = Implicit THEN pending ELSE opened
            /\ UNCHANGED misused
       ELSE misused' = misused \cup {"open"} /\ UNCHANGED <<loaded, pending>>
  /\ UNCHANGED <<requests, entry, used, response, valid, dcAnswered, text, opened, results>>

(* settings_change: handle_config_update, which has every opened file      *)
(* parsed again when the configuration documents parse.                    *)
FinishSettings ==
  /\ Execute("settings") /\ Finished /\ NoFileChange
  /\ LET it == Head(queue) IN
       IF Live(it.of, it.gen)
       THEN /\ TakeSettings(it)
            /\ IF it.begun \/ SettingsUpdated(it)
               THEN /\ loaded' = [loaded EXCEPT ![it.of] = Took(it)]
                    /\ pending' = IF Took(it) \in Parses THEN opened ELSE pending
               ELSE UNCHANGED <<loaded, pending>>
            /\ UNCHANGED misused
       ELSE misused' = misused \cup {"settings"} /\ UNCHANGED <<used, loaded, pending>>
  /\ UNCHANGED <<requests, entry, response, valid, dcAnswered, text, opened, results>>

(* workspace_close: erase through the iterator remove_workspace captured.  *)
FinishClose ==
  /\ Execute("close") /\ Finished /\ NoFileChange
  /\ LET it == Head(queue) IN
       IF Live(it.of, it.gen)
       THEN /\ entry' = [entry EXCEPT ![it.of] = Absent]
            /\ used' = [used EXCEPT ![it.of] = 0]
            /\ loaded' = [loaded EXCEPT ![it.of] = NotLoaded]
            /\ pending' = opened
            /\ UNCHANGED misused
       ELSE misused' = misused \cup {"close"} /\ UNCHANGED <<entry, used, loaded, pending>>
  /\ UNCHANGED <<requests, response, valid, dcAnswered, text, opened, results>>

(* file_change, first half: the file manager's did_open_file (whose result *)
(* is shared with the second half), did_change_file or did_close_file. A   *)
(* document nobody holds counts as changed whatever its text is.           *)
FinishApply ==
  /\ Execute("apply") /\ FileChange /\ UNCHANGED loop
  /\ LET it == Head(queue) IN
       /\ text' = [text EXCEPT ![it.of] = it.val]
       /\ \E held \in BOOLEAN :
            queue' = IF it.edit = "open"
                     THEN [Tail(queue) EXCEPT ![1].changed = (~held \/ it.val # text[it.of])]
                     ELSE Tail(queue)
  /\ UNCHANGED <<requests, entry, used, loaded, response, valid, dcAnswered, opened,
                 pending, results, misused>>

(* file_change, second half.                                               *)
Dependents(f) == {g \in opened : f \in results[g].deps}

(* Defect: a change of a member does not reach its dependents.             *)
MarkOnlyItself(it) ==
  /\ opened' = IF it.edit = "open" THEN opened \cup {it.of} ELSE opened
  /\ pending' = pending \cup ({it.of} \cap opened')
  /\ UNCHANGED results

(* workspace::did_open_file and mark_file_for_parsing.                     *)
MarkForParsing(it) ==
  /\ opened' = IF it.edit = "open" THEN opened \cup {it.of} ELSE opened
  /\ pending' = pending \cup ({it.of} \cap opened')
                        \cup (IF it.changed THEN Dependents(it.of) ELSE {})
  /\ UNCHANGED results

(* Defect: a closed file stays marked.                                     *)
CloseKeepsMark(f) ==
  /\ opened' = opened \ {f}
  /\ UNCHANGED <<pending, results>>

(* workspace::did_close_file: the components of a file that is nobody's    *)
(* dependency are dropped; the dependents that have read another text than *)
(* the one on the disk are parsed again.                                   *)
CloseFile(f) ==
  /\ opened' = opened \ {f}
  /\ IF \E g \in File : f \in results[g].deps
     THEN /\ pending' = (pending \ {f}) \cup
               (IF \E g \in File : f \in results[g].deps /\ results[g].text[f] # text[f]
                THEN Dependents(f) \ {f} ELSE {})
          /\ UNCHANGED results
     ELSE /\ pending' = pending \ {f}
          /\ results' = [results EXCEPT ![f] = NoResult]

FinishMark ==
  /\ Execute("mark") /\ Finished /\ FileChange
  /\ LET it == Head(queue) IN
       \/ it.edit # "close" /\ MarkForParsing(it)
       \/ it.edit = "close" /\ CloseFile(it.of)
  /\ UNCHANGED <<requests, entry, used, loaded, response, valid, dcAnswered, text, misused>>

(* Defect: an invalidated query is dropped without a response.             *)
DropInvalidQuery ==
  /\ Execute("query") /\ Finished /\ NoFileChange
  /\ response' = IF valid[Head(queue).of]
                 THEN [response EXCEPT ![Head(queue).of] = "answered"] ELSE response
  /\ UNCHANGED <<requests, entry, used, loaded, valid, dcAnswered, text, opened, pending,
                 results, misused>>

(* query: response_handle.                                                 *)
FinishQuery ==
  /\ Execute("query") /\ Finished /\ NoFileChange
  /\ response' = [response EXCEPT ![Head(queue).of] =
                    IF valid[Head(queue).of] THEN "answered" ELSE "canceled"]
  /\ UNCHANGED <<requests, entry, used, loaded, valid, dcAnswered, text, opened, pending,
                 results, misused>>

(* dc_request: get_analyzer_configuration, then provide.                   *)
FinishDc ==
  /\ Execute("dc") /\ Finished /\ NoFileChange
  /\ dcAnswered' = dcAnswered \cup {Head(queue).of}
  /\ UNCHANGED <<requests, entry, used, loaded, response, valid, text, opened, pending,
                 results, misused>>

FinishHead == \/ FinishOpen  \/ FinishSettings \/ FinishClose \/ FinishApply
              \/ FinishMark  \/ FinishQuery    \/ FinishDc

-----------------------------------------------------------------------------
(* Parsing: run_active_task and run_parse_loop, reached when the head is a *)
(* query that needs parse results, or when the queue is empty.             *)

MayParse == /\ loop = "idle" /\ ~HeadBlocked /\ ~HeadReady
            /\ queue = <<>> => ~parsingDone

(* workspace::parse_file picks a marked file; its coroutine first asks the *)
(* configuration of the file's workspace, which it refers to meanwhile.    *)
ParseBegin(f) ==
  /\ MayParse
  /\ active.stage = "none"
  /\ f \in pending
  /\ active' = [NoTask EXCEPT !.file = f, !.stage = "config", !.ws = Match(f),
                              !.gen = GenOf(Match(f))]
  /\ UNCHANGED <<client, manager, opened, pending, results, thread>>

(* get_analyzer_configuration completes; the analysis reads the texts.     *)
ParseConfigure ==
  /\ MayParse
  /\ active.stage = "config"
  /\ IF Live(active.ws, active.gen)
     THEN /\ active' = [active EXCEPT !.stage = "parse", !.cfg = loaded[active.ws],
                                      !.read = text]
          /\ UNCHANGED misused
     ELSE /\ active' = [active EXCEPT !.stage = "parse", !.read = text]
          /\ misused' = misused \cup {"parse"}
  /\ UNCHANGED <<client, manager, opened, pending, results, loop, parsingDone>>

(* The analysis ends: parse_successful stores the results and dependencies.*)
ParseDone ==
  /\ MayParse
  /\ active.stage = "parse"
  /\ \E d \in SUBSET MayUse[active.file] :
       results' = [results EXCEPT ![active.file] =
                     [text |-> active.read, ws |-> active.ws, cfg |-> active.cfg, deps |-> d]]
  /\ pending' = pending \ {active.file}
  /\ active' = NoTask
  /\ UNCHANGED <<client, manager, opened, thread>>

(* The task yields to a message, or waits for an external resource.        *)
ParsePause ==
  /\ MayParse
  /\ active.stage # "none"
  /\ loop' \in {"drain", "blocked"} /\ parsingDone' = FALSE
  /\ UNCHANGED <<client, manager, parser, misused>>

(* parse_file has nothing to pick.                                         *)
ParsingDone ==
  /\ MayParse
  /\ active.stage = "none" /\ pending = {} /\ ~parsingDone
  /\ parsingDone' = TRUE
  /\ UNCHANGED <<client, manager, parser, loop, misused>>

(* Nothing in the queue and parsing_done: the thread blocks in read().     *)
IdleReturn ==
  /\ loop = "idle" /\ queue = <<>> /\ parsingDone
  /\ loop' = "blocked" /\ parsingDone' = FALSE
  /\ UNCHANGED <<client, manager, parser, misused>>

-----------------------------------------------------------------------------
ClientStep ==
  \/ \E f \in File : DidOpenFile(f) \/ DidChangeFile(f) \/ DidCloseFile(f)
  \/ \E q \in Query, f \in File : HandleRequest(q, f)
  \/ \E q \in Query : CancelRequest(q)
  \/ \E w \in Folder : AddWorkspace(w) \/ RemoveWorkspace(w)
  \/ ConfigurationChanged
  \/ \E r \in requests : ConfigurationAnswer(r)
  \/ \E d \in Session : ProvideDebuggerConfiguration(d)
  \/ InvalidateExternalConfiguration
  \/ Wakeup

ParseStep == \/ \E f \in File : ParseBegin(f)
             \/ ParseConfigure
             \/ ParseDone

IdleStep == \/ StartIdle \/ WaitForAnswer \/ SuspendHead \/ FinishHead
            \/ ParseStep \/ ParsePause \/ ParsingDone \/ IdleReturn

Next == ClientStep \/ IdleStep

(* Fairness. The thread loop never stops; the client answers configuration *)
(* requests and requests for external resources (the protocol obliges it   *)
(* to); a task or a parse that is resumed again and again completes, as    *)
(* each resumption advances it.                                            *)
Fairness ==
  /\ WF_vars(StartIdle) /\ WF_vars(WaitForAnswer) /\ WF_vars(ParsingDone)
  /\ WF_vars(IdleReturn) /\ WF_vars(Wakeup)
  /\ SF_vars(\E r \in requests : ConfigurationAnswer(r))
  /\ SF_vars(FinishHead)
  /\ SF_vars(ParseStep)

Spec == Init /\ [][Next]_vars
FairSpec == Spec /\ Fairness

-----------------------------------------------------------------------------
(* Properties.                                                             *)

(* The variables hold values of these sets.                                *)
ClientTypeOK ==
  /\ clock \in Nat /\ settings \in Nat
  /\ docs \subseteq File /\ folders \subseteq Folder
  /\ sent \in [File -> Nat] /\ asked \in [Query -> [File -> Nat]]

ManagerTypeOK ==
  /\ queue \in Seq(Item)
  /\ requests \subseteq [id : Nat, ws : Folder, gen : Nat, since : Nat]
  /\ entry \in [Folder -> [gen : Nat, deleted : BOOLEAN]]
  /\ used \in [Workspace -> Nat]
  /\ loaded \in [Workspace -> Int]
  /\ response \in [Query -> {"new", "pending", "answered", "canceled"}]
  /\ valid \in [Query -> BOOLEAN]
  /\ dcAnswered \subseteq Session
  /\ text \in [File -> Nat]

Result == [text : [File -> Int], ws : Workspace, cfg : Int, deps : SUBSET File]
Task == [file : File \cup {Implicit}, stage : {"none", "config", "parse"},
         ws : Workspace, gen : Nat, cfg : Int, read : [File -> Nat]]

ParserTypeOK ==
  /\ opened \subseteq File /\ pending \subseteq File
  /\ results \in [File -> Result]
  /\ active \in Task

ThreadTypeOK ==
  /\ loop \in {"drain", "idle", "blocked"}
  /\ parsingDone \in BOOLEAN
  /\ misused \subseteq {"answer", "open", "settings", "close", "parse"}

TypeOK == ClientTypeOK /\ ManagerTypeOK /\ ParserTypeOK /\ ThreadTypeOK

(* The results of f were computed from the current texts.                  *)
FreshText(f) == \A g \in {f} \cup results[f].deps : results[f].text[g] = text[g]

(* The first half of a change of g is done, the second is due.             *)
MarkDue(g) == \E i \in DOMAIN queue :
                /\ queue[i].kind = "mark" /\ queue[i].of = g
                /\ \A j \in 1..i - 1 : queue[j].kind = "dc"

(* No reparse is forgotten: when the results of an opened file were        *)
(* computed from a text that has changed since, in the file itself or in a *)
(* member it depends on, the file is marked in m_parsing_pending or the    *)
(* item that marks it is due. A file_change item abandons the parse in     *)
(* progress and parse_successful alone unmarks a file, at the end.         *)
StaleIsMarked ==
  \A f \in opened \ pending :
    \A g \in {f} \cup results[f].deps : results[f].text[g] = text[g] \/ MarkDue(g)

(* What workspace::parse_file relies on (its at() and assert): only opened *)
(* files are marked, and the file being parsed is one of them, whatever is *)
(* closed or executed while the coroutine is suspended.                    *)
ParsesOpenedFiles ==
  /\ pending \subseteq opened
  /\ active.stage # "none" => active.file \in pending

(* A query is answered from results of the texts that were in the editor   *)
(* when it was asked: every change before it is applied and parsed, no     *)
(* change after it is (m_work_queue with parsing_must_be_done).            *)
AnswerIsFresh ==
  [][\A q \in Query : response[q] = "pending" /\ response'[q] = "answered" =>
       /\ opened \cap docs' = opened \cap docs
       /\ \A f \in opened : /\ FreshText(f)
                            /\ \A g \in {f} \cup results[f].deps : text[g] = asked[q][g]]_vars

(* Every query gets exactly one response: it has one item as long as it is *)
(* pending, none otherwise, and a response is final.                       *)
QueryItems(q) == {i \in DOMAIN queue : queue[i].kind = "query" /\ queue[i].of = q}
OneResponse ==
  \A q \in Query : Cardinality(QueryItems(q)) = (IF response[q] = "pending" THEN 1 ELSE 0)

(* Items are executed in the order of their messages; only requests of     *)
(* debug sessions overtake.                                                *)
ArrivalOrder ==
  \A i, j \in DOMAIN queue :
    i < j /\ queue[i].kind # "dc" /\ queue[j].kind # "dc" => queue[i].id <= queue[j].id

(* "insert as a priority request, but after workspace_open requests if     *)
(* present": a debug session gets a configuration only when every folder   *)
(* added before its request has been opened.                               *)
DcAfterOpen ==
  \A i, j \in DOMAIN queue :
    i < j /\ queue[i].kind = "dc" /\ queue[j].kind = "open" => queue[i].id < queue[j].id

(* What that order is for: a debug session is given the configuration of   *)
(* no folder that was added before it and is not loaded yet. (One whose    *)
(* reload a change of the settings has begun is empty again: the session   *)
(* overtakes that item.)                                                   *)
ReloadBegun(w) == \E i \in DOMAIN queue :
                    queue[i].kind = "settings" /\ queue[i].begun /\ queue[i].of = w
ServedConfigured ==
  [][\A d \in dcAnswered' \ dcAnswered : \A w \in Workspace :
       w = Implicit \/ (entry[w].gen # 0 /\ entry[w].gen < Head(queue).id)
         => loaded[w] # NotLoaded \/ ReloadBegun(w)]_vars

(* A query sees the texts it was asked about, a debug session the          *)
(* configuration of the folders it was started in (work_queue.cpp and      *)
(* workspace_manager.cpp, next_work_item and debug_session requests).      *)
AnsweredInTurn == AnswerIsFresh /\ ServedConfigured

(* When the thread blocks with nothing left to do, the editor's texts have *)
(* arrived and every open document shows results of them.                  *)
Drained == loop = "blocked" /\ queue = <<>> /\ active.stage = "none"
DrainedIsFresh ==
  Drained => opened = docs /\ \A f \in docs : FreshText(f) /\ text[f] = sent[f]

(* A configuration request of a waiting item is outstanding, so an answer  *)
(* of the client can always unblock the queue.                             *)
AskedIsOutstanding ==
  \A i \in DOMAIN queue : queue[i].asks =>
    \E r \in requests : r.id = queue[i].id /\ r.ws = queue[i].of

(* Every query is eventually answered or canceled.                         *)
QueryAnswered == \A q \in Query : response[q] = "pending" ~> response[q] \in {"answered", "canceled"}

(* Every debug session eventually gets its configuration.                  *)
Waiting(d) == \E i \in DOMAIN queue : queue[i].kind = "dc" /\ queue[i].of = d
SessionServed == \A d \in Session : Waiting(d) ~> d \in dcAnswered

(* After the last message every open document has results of its text.     *)
TextSettles == \A f \in File : <>[](f \in docs => f \in opened /\ FreshText(f) /\ text[f] = sent[f])

(* Nothing waits for ever.                                                 *)
EverythingIsServed == QueryAnswered /\ SessionServed /\ TextSettles

(* "the workspace reloads the configuration values and reparses all        *)
(* dependants": when the thread blocks with nothing left to do, no file is *)
(* left marked for parsing.                                                *)
NothingLeftMarked == Drained => pending = {}

(* Fixed according to the change log: "The language server may             *)
(* occasionally work with obsolete configuration". When the thread blocks  *)
(* with nothing left to do or marked, the results come from the current    *)
(* configuration, except that one that does not parse replaces nothing.    *)
CurrentConfiguration ==
  Drained /\ pending = {} =>
    \A f \in docs : loaded[Match(f)] \in Parses =>
      results[f].ws = Match(f) /\ results[f].cfg = loaded[Match(f)]
=============================================================================
