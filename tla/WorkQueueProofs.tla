--------------------------- MODULE WorkQueueProofs ---------------------------
(***************************************************************************)
(* Safety of the work queue of the workspace manager, for any documents,   *)
(* folders, queries and sessions and any number of messages: the types of  *)
(* the state, the order of the items, the answers they wait for, the file  *)
(* being parsed, and that no reparse is forgotten.                         *)
(***************************************************************************)
EXTENDS WorkQueue, FiniteSetTheorems, SequenceTheorems, TLAPS

-----------------------------------------------------------------------------
(* Items and sequences of items.                                           *)

(* What is needed of an item to be one.                                    *)
LEMMA ItemFields ==
  ASSUME NEW it \in Item
  PROVE  /\ it.id \in Nat /\ it.kind \in Kinds /\ it.gen \in Nat /\ it.edit \in Edits
         /\ it.val \in Nat /\ it.asks \in BOOLEAN /\ it.begun \in BOOLEAN
         /\ it.changed \in BOOLEAN /\ it.of \in Subject[it.kind]
  BY DEF Item

(* The fields an item is changed in after NewItem.                         *)
LEMMA ChangedItemIsItem ==
  ASSUME NEW it \in Item, NEW n \in Nat, NEW e \in Edits, NEW b \in BOOLEAN
  PROVE  /\ [it EXCEPT !.asks = FALSE] \in Item
         /\ [it EXCEPT !.begun = TRUE, !.val = n] \in Item
         /\ [it EXCEPT !.changed = b] \in Item
         /\ [it EXCEPT !.edit = e, !.val = n] \in Item
         /\ [it EXCEPT !.edit = e, !.changed = b] \in Item
         /\ [it EXCEPT !.gen = n, !.asks = TRUE] \in Item
         /\ [it EXCEPT !.gen = n] \in Item
         /\ [it EXCEPT !.val = n] \in Item
  BY DEF Item

(* Taking, replacing and inserting items yields a queue.                   *)
LEMMA QueueOperations ==
  ASSUME NEW s \in Seq(Item), NEW it \in Item, NEW n \in 0..Len(s)
  PROVE  /\ s # <<>> => Head(s) \in Item /\ Tail(s) \in Seq(Item)
         /\ Append(s, it) \in Seq(Item)
         /\ <<it>> \o s \in Seq(Item)
         /\ InsertAfter(s, n, it) \in Seq(Item)
<1>1. InsertAfter(s, n, it) \in [1..Len(s) + 1 -> Item]
  BY DEF InsertAfter
<1>2. InsertAfter(s, n, it) \in Seq(Item)
  <2>1. Len(s) + 1 \in Nat
    OBVIOUS
  <2> QED  BY <1>1, <2>1, SeqDef
<1> QED  BY <1>2

(* The items of the messages.                                              *)
LEMMA NewItems ==
  ASSUME TypeOK
  PROVE  /\ \A e \in Edits, f \in File, v \in Nat : DocumentItems(e, f, v) \in Seq(Item)
         /\ \A q \in Query : NewItem("query", q) \in Item
         /\ \A d \in Session : NewItem("dc", d) \in Item
         /\ \A w \in Folder, g \in Nat :
              /\ [NewItem("open", w) EXCEPT !.gen = g, !.asks = TRUE] \in Item
              /\ [NewItem("close", w) EXCEPT !.gen = g] \in Item
         /\ \A w \in Folder : SettingsItem(w) \in Item
         /\ \A v \in Nat : [NewItem("settings", Implicit) EXCEPT !.val = v] \in Item
<1>1. clock \in Nat /\ \A w \in Folder : entry[w].gen \in Nat
  BY DEF TypeOK, ClientTypeOK, ManagerTypeOK
<1>2. \A k \in Kinds : \A x \in Subject[k] : NewItem(k, x) \in Item
  BY <1>1 DEF NewItem, Item, Subject, Edits
<1>3. /\ \A f \in File : NewItem("apply", f) \in Item /\ NewItem("mark", f) \in Item
      /\ \A w \in Folder : NewItem("open", w) \in Item /\ NewItem("close", w) \in Item
      /\ \A w \in Workspace : NewItem("settings", w) \in Item
      /\ \A q \in Query : NewItem("query", q) \in Item
      /\ \A d \in Session : NewItem("dc", d) \in Item
      /\ Folder \subseteq Workspace /\ Implicit \in Workspace
  <2>1. /\ {"open", "close", "settings", "apply", "mark", "query", "dc"} = Kinds
        /\ Subject["open"] = Workspace /\ Subject["close"] = Folder
        /\ Subject["settings"] = Workspace /\ Subject["apply"] = File
        /\ Subject["mark"] = File /\ Subject["query"] = Query /\ Subject["dc"] = Session
        /\ Folder \subseteq Workspace /\ Implicit \in Workspace
    BY DEF Kinds, Subject, Workspace
  <2> HIDE DEF NewItem
  <2> QED  BY <1>2, <2>1
<1>4. ASSUME NEW e \in Edits, NEW f \in File, NEW v \in Nat
      PROVE  DocumentItems(e, f, v) \in Seq(Item)
  <2> DEFINE a == [NewItem("apply", f) EXCEPT !.edit = e, !.val = v]
             m == [NewItem("mark", f) EXCEPT !.edit = e, !.changed = (e = "change")]
  <2>1. a \in Item /\ m \in Item
    BY <1>3, ChangedItemIsItem
  <2>2. DocumentItems(e, f, v) = <<a, m>>
    BY DEF DocumentItems
  <2> HIDE DEF a, m
  <2> QED  BY <2>1, <2>2
<1>5. /\ \A w \in Folder, g \in Nat :
           /\ [NewItem("open", w) EXCEPT !.gen = g, !.asks = TRUE] \in Item
           /\ [NewItem("close", w) EXCEPT !.gen = g] \in Item
      /\ \A w \in Folder : SettingsItem(w) \in Item
      /\ \A v \in Nat : [NewItem("settings", Implicit) EXCEPT !.val = v] \in Item
  <2>1. ASSUME NEW w \in Folder, NEW g \in Nat
        PROVE  /\ [NewItem("open", w) EXCEPT !.gen = g, !.asks = TRUE] \in Item
               /\ [NewItem("close", w) EXCEPT !.gen = g] \in Item
               /\ [NewItem("settings", w) EXCEPT !.gen = g, !.asks = TRUE] \in Item
    BY <1>3, ChangedItemIsItem, "none" \in Edits DEF Edits, Workspace
  <2>2. ASSUME NEW v \in Nat
        PROVE  [NewItem("settings", Implicit) EXCEPT !.val = v] \in Item
    BY <1>3, ChangedItemIsItem DEF Edits
  <2> QED  BY <1>1, <2>1, <2>2 DEF SettingsItem
<1> QED  BY <1>3, <1>4, <1>5

-----------------------------------------------------------------------------
(* Types.                                                                  *)

LEMMA InitTypeOK == Init => TypeOK
<1> SUFFICES ASSUME Init PROVE TypeOK
  OBVIOUS
<1>1. queue \in Seq(Item)
  <2> DEFINE it == NewItem("open", Implicit)
  <2>1. it \in Item
    BY DEF Init, NewItem, Item, Subject, Kinds, Edits, Workspace
  <2>2. [it EXCEPT !.id = 0] \in Item
    BY <2>1 DEF Item
  <2> HIDE DEF it
  <2>3. <<[it EXCEPT !.id = 0]>> \in Seq(Item)
    BY <2>2
  <2> QED  BY <2>3 DEF Init, it
<1>2. ClientTypeOK
  BY DEF Init, ClientTypeOK
<1>3. ManagerTypeOK
  BY <1>1 DEF Init, ManagerTypeOK, Absent, NotLoaded
<1>4. ParserTypeOK
  <2>1. results \in [File -> Result]
    <3>1. NoResult \in Result
      BY DEF NoResult, NotLoaded, Result, Workspace
    <3> QED  BY <3>1 DEF Init
  <2>2. active \in Task
    BY DEF Init, NoTask, NotLoaded, Task, Workspace
  <2> QED  BY <2>1, <2>2 DEF Init, ParserTypeOK
<1>5. ThreadTypeOK
  BY DEF Init, ThreadTypeOK
<1> QED  BY <1>2, <1>3, <1>4, <1>5 DEF TypeOK

(* A group of variables that does not change keeps its type.               *)
LEMMA UnchangedTypes ==
  /\ ClientTypeOK /\ UNCHANGED client => ClientTypeOK'
  /\ ManagerTypeOK /\ UNCHANGED manager => ManagerTypeOK'
  /\ ParserTypeOK /\ UNCHANGED parser => ParserTypeOK'
  /\ ThreadTypeOK /\ UNCHANGED thread => ThreadTypeOK'
<1>1. ClientTypeOK /\ UNCHANGED client => ClientTypeOK'
  BY DEF ClientTypeOK, client
<1>2. ManagerTypeOK /\ UNCHANGED manager => ManagerTypeOK'
  BY DEF ManagerTypeOK, manager
<1>3. ParserTypeOK /\ UNCHANGED parser => ParserTypeOK'
  BY DEF ParserTypeOK, parser
<1>4. ThreadTypeOK /\ UNCHANGED thread => ThreadTypeOK'
  BY DEF ThreadTypeOK, thread
<1> QED  BY <1>1, <1>2, <1>3, <1>4

(* A message that enqueues items and changes nothing else of the manager.  *)
LEMMA EnqueueTypes ==
  ASSUME TypeOK, Receive, queue' \in Seq(Item),
         UNCHANGED <<requests, entry, used, loaded, valid, dcAnswered, text, parser,
                     parsingDone, misused>>,
         response' \in [Query -> {"new", "pending", "answered", "canceled"}]
  PROVE  ManagerTypeOK' /\ ParserTypeOK' /\ ThreadTypeOK'
<1>1. ManagerTypeOK'
  BY DEF TypeOK, ManagerTypeOK
<1>2. ParserTypeOK' /\ ThreadTypeOK'
  BY UnchangedTypes DEF TypeOK, ThreadTypeOK, Receive
<1> QED  BY <1>1, <1>2

(* What a message enqueues.                                                *)
LEMMA MessageTypeOK ==
  ASSUME TypeOK, ClientStep
  PROVE  TypeOK'
<1> USE ConstantsAssumption
<1>0. /\ clock \in Nat /\ settings \in Nat /\ queue \in Seq(Item) /\ Len(queue) \in Nat
      /\ \A w \in Folder : entry[w].gen \in Nat
      /\ ClientTypeOK /\ ManagerTypeOK /\ ParserTypeOK /\ ThreadTypeOK
  BY DEF TypeOK, ClientTypeOK, ManagerTypeOK
<1>1. ASSUME NEW e \in Edits, NEW f \in File, NEW v \in Nat, ReceiveDocument(e, f, v),
             docs' \subseteq File
      PROVE  TypeOK'
  <2>1. queue' \in Seq(Item)
    <3>1. DocumentItems(e, f, v) \in Seq(Item)
      BY NewItems
    <3> QED  BY <1>0, <1>1, <3>1 DEF ReceiveDocument
  <2>2. ClientTypeOK'
    BY <1>0, <1>1 DEF ReceiveDocument, Receive, ClientTypeOK
  <2>3. ManagerTypeOK' /\ ParserTypeOK' /\ ThreadTypeOK'
    BY <1>0, <1>1, <2>1, EnqueueTypes DEF ReceiveDocument, ManagerTypeOK
  <2> QED  BY <2>2, <2>3 DEF TypeOK
<1>2. ASSUME NEW f \in File, DidOpenFile(f) \/ DidChangeFile(f) \/ DidCloseFile(f)
      PROVE  TypeOK'
  <2>1. docs' \subseteq File
    BY <1>0, <1>2 DEF ClientTypeOK, DidOpenFile, DidChangeFile, DidCloseFile
  <2>2. \E e \in Edits, v \in Nat : ReceiveDocument(e, f, v)
    BY <1>0, <1>2 DEF DidOpenFile, DidChangeFile, DidCloseFile, Edits
  <2> QED  BY <1>1, <2>1, <2>2
<1>3. ASSUME NEW q \in Query, NEW f \in File, HandleRequest(q, f)
      PROVE  TypeOK'
  <2>1. NewItem("query", q) \in Item
    BY NewItems
  <2>2. queue' \in Seq(Item)
    BY <1>0, <1>3, <2>1 DEF HandleRequest
  <2>3. response' \in [Query -> {"new", "pending", "answered", "canceled"}]
    BY <1>0, <1>3 DEF HandleRequest, ManagerTypeOK
  <2>4. ClientTypeOK'
    BY <1>0, <1>3 DEF HandleRequest, Receive, ClientTypeOK
  <2>5. Receive /\ UNCHANGED <<requests, entry, used, loaded, valid, dcAnswered, text, parser,
                               parsingDone, misused>>
    BY <1>3 DEF HandleRequest
  <2> QED  BY <2>2, <2>3, <2>4, <2>5, EnqueueTypes DEF TypeOK
<1>4. ASSUME NEW q \in Query, CancelRequest(q)
      PROVE  TypeOK'
  <2>1. ManagerTypeOK' /\ ThreadTypeOK'
    BY <1>0, <1>4 DEF CancelRequest, ManagerTypeOK, ThreadTypeOK
  <2> QED  BY <1>0, <1>4, <2>1, UnchangedTypes DEF CancelRequest, TypeOK
<1>5. ASSUME NEW w \in Folder, AddWorkspace(w)
      PROVE  TypeOK'
  <2> DEFINE g == IF entry[w].gen = 0 THEN clock + 1 ELSE entry[w].gen
             it == [NewItem("open", w) EXCEPT !.gen = g, !.asks = TRUE]
  <2>1. g \in Nat
    BY <1>0
  <2>2. it \in Item
    BY <2>1, NewItems
  <2>3. queue' \in Seq(Item)
    <3>1. queue' = Append(queue, it)
      BY <1>5 DEF AddWorkspace
    <3> HIDE DEF it
    <3> QED  BY <1>0, <2>2, <3>1
  <2>4. requests' \subseteq [id : Nat, ws : Folder, gen : Nat, since : Nat]
    <3>1. requests' = requests \cup {[id |-> clock + 1, ws |-> w, gen |-> g, since |-> settings]}
      BY <1>5 DEF AddWorkspace
    <3> HIDE DEF g
    <3> QED  BY <1>0, <2>1, <3>1 DEF ManagerTypeOK
  <2>5. entry' \in [Folder -> [gen : Nat, deleted : BOOLEAN]]
    <3>1. entry' = entry \/ entry' = [entry EXCEPT ![w] = [gen |-> clock + 1, deleted |-> FALSE]]
      BY <1>5 DEF AddWorkspace
    <3>2. [gen |-> clock + 1, deleted |-> FALSE] \in [gen : Nat, deleted : BOOLEAN]
      BY <1>0
    <3> QED  BY <1>0, <3>1, <3>2 DEF ManagerTypeOK
  <2>6. used' \in [Workspace -> Nat] /\ loaded' \in [Workspace -> Int]
    <3>1. used' = used \/ used' = [used EXCEPT ![w] = 0]
      BY <1>5 DEF AddWorkspace
    <3>2. loaded' = loaded \/ loaded' = [loaded EXCEPT ![w] = NotLoaded]
      BY <1>5 DEF AddWorkspace
    <3> QED  BY <1>0, <3>1, <3>2 DEF ManagerTypeOK, NotLoaded
  <2>7. ClientTypeOK' /\ ThreadTypeOK'
    BY <1>0, <1>5 DEF AddWorkspace, Receive, ClientTypeOK, ThreadTypeOK
  <2>8. UNCHANGED <<response, valid, dcAnswered, text, parser>>
    BY <1>5 DEF AddWorkspace
  <2> HIDE DEF g, it
  <2>9. ManagerTypeOK'
    BY <1>0, <2>3, <2>4, <2>5, <2>6, <2>8 DEF ManagerTypeOK
  <2> QED  BY <1>0, <2>7, <2>8, <2>9, UnchangedTypes DEF TypeOK
<1>6. ASSUME NEW w \in Folder, RemoveWorkspace(w)
      PROVE  TypeOK'
  <2>1. entry' \in [Folder -> [gen : Nat, deleted : BOOLEAN]]
    <3>1. entry' = entry \/ entry' = [entry EXCEPT ![w].deleted = TRUE]
      BY <1>6 DEF RemoveWorkspace
    <3> QED  BY <1>0, <3>1 DEF ManagerTypeOK
  <2>2. queue' \in Seq(Item)
    <3> DEFINE it == [NewItem("close", w) EXCEPT !.gen = entry[w].gen]
    <3>1. it \in Item
      BY <1>0, NewItems
    <3>2. queue' = queue \/ queue' = Append(queue, it)
      BY <1>6 DEF RemoveWorkspace
    <3> HIDE DEF it
    <3> QED  BY <1>0, <3>1, <3>2
  <2>3. ClientTypeOK' /\ ThreadTypeOK'
    BY <1>0, <1>6 DEF RemoveWorkspace, Receive, ClientTypeOK, ThreadTypeOK
  <2>4. UNCHANGED <<requests, used, loaded, response, valid, dcAnswered, text, parser>>
    BY <1>6 DEF RemoveWorkspace
  <2>5. ManagerTypeOK'
    BY <1>0, <2>1, <2>2, <2>4 DEF ManagerTypeOK
  <2> QED  BY <1>0, <2>3, <2>4, <2>5, UnchangedTypes DEF TypeOK
<1>7. ASSUME ConfigurationChanged
      PROVE  TypeOK'
  <2>1. PICK v \in {settings, settings + 1}, order \in [1..Cardinality(Present) -> Present] :
          /\ settings' = v
          /\ queue' = Append(queue, [NewItem("settings", Implicit) EXCEPT !.val = v])
                        \o [i \in DOMAIN order |-> SettingsItem(order[i])]
          /\ requests' = requests \cup
               {[id |-> clock + 1, ws |-> w, gen |-> entry[w].gen, since |-> v] : w \in Present}
    BY <1>7 DEF ConfigurationChanged
  <2>2. v \in Nat
    BY <1>0
  <2>3. Present \subseteq Folder /\ Cardinality(Present) \in Nat
    BY FS_Subset, FS_CardinalityType DEF Present
  <2>4. queue' \in Seq(Item)
    <3> DEFINE it == [NewItem("settings", Implicit) EXCEPT !.val = v]
               more == [i \in DOMAIN order |-> SettingsItem(order[i])]
    <3>1. it \in Item
      BY <2>2, NewItems
    <3>2. \A w \in Present : SettingsItem(w) \in Item
      BY <2>3, NewItems
    <3>3. more \in [1..Cardinality(Present) -> Item]
      BY <3>2
    <3>4. more \in Seq(Item)
      BY <2>3, <3>3, SeqDef
    <3>5. queue' = Append(queue, it) \o more
      BY <2>1
    <3> HIDE DEF it, more
    <3>6. Append(queue, it) \in Seq(Item)
      BY <1>0, <3>1
    <3> QED  BY <3>4, <3>5, <3>6
  <2>5. requests' \subseteq [id : Nat, ws : Folder, gen : Nat, since : Nat]
    BY <1>0, <2>1, <2>2, <2>3 DEF ManagerTypeOK
  <2>6. ClientTypeOK' /\ ThreadTypeOK'
    BY <1>0, <1>7, <2>1, <2>2 DEF ConfigurationChanged, Receive, ClientTypeOK, ThreadTypeOK
  <2>7. UNCHANGED <<entry, used, loaded, response, valid, dcAnswered, text, parser>>
    BY <1>7 DEF ConfigurationChanged
  <2>8. ManagerTypeOK'
    BY <1>0, <2>4, <2>5, <2>7 DEF ManagerTypeOK
  <2> QED  BY <1>0, <2>6, <2>7, <2>8, UnchangedTypes DEF TypeOK
<1>8. ASSUME NEW r \in requests, ConfigurationAnswer(r)
      PROVE  TypeOK'
  <2>1. queue' \in Seq(Item)
    <3>1. \A i \in 1..Len(queue) : queue[i] \in Item /\ [queue[i] EXCEPT !.asks = FALSE] \in Item
      <4>1. \A it \in Item : [it EXCEPT !.asks = FALSE] \in Item
        BY ChangedItemIsItem, "open" \in Edits DEF Edits
      <4> QED  BY <1>0, <4>1
    <3>2. queue' \in [1..Len(queue) -> Item]
      BY <1>0, <1>8, <3>1 DEF ConfigurationAnswer, ResolveWorkItem
    <3> QED  BY <1>0, <3>2, SeqDef
  <2>2. r.ws \in Folder /\ r.since \in Nat
    BY <1>0 DEF ManagerTypeOK
  <2>3. used' \in [Workspace -> Nat] /\ misused' \subseteq {"answer", "open", "settings", "close", "parse"}
    <3>1. PICK v \in {0} \cup r.since..settings :
            IF Live(r.ws, r.gen)
            THEN used' = [used EXCEPT ![r.ws] = v] /\ UNCHANGED misused
            ELSE UNCHANGED used /\ misused' = misused \cup {"answer"}
      BY <1>8 DEF ConfigurationAnswer
    <3>2. v \in Nat
      BY <1>0, <2>2
    <3>3. /\ used' = used \/ used' = [used EXCEPT ![r.ws] = v]
          /\ misused' = misused \/ misused' = misused \cup {"answer"}
      BY <3>1
    <3>4. used' \in [Workspace -> Nat]
      BY <1>0, <3>2, <3>3 DEF ManagerTypeOK
    <3> QED  BY <1>0, <3>3, <3>4 DEF ThreadTypeOK
  <2>4. /\ requests' \subseteq requests
        /\ loop' = "drain"
        /\ UNCHANGED <<client, entry, loaded, response, valid, dcAnswered, text, parser, parsingDone>>
    BY <1>8 DEF ConfigurationAnswer
  <2>5. ManagerTypeOK' /\ ThreadTypeOK'
    BY <1>0, <2>1, <2>3, <2>4 DEF ManagerTypeOK, ThreadTypeOK
  <2> QED  BY <1>0, <2>4, <2>5, UnchangedTypes DEF TypeOK
<1>9. ASSUME NEW d \in Session, ProvideDebuggerConfiguration(d)
      PROVE  TypeOK'
  <2>1. NewItem("dc", d) \in Item
    BY NewItems
  <2>2. queue' \in Seq(Item)
    BY <1>0, <1>9, <2>1, QueueOperations DEF ProvideDebuggerConfiguration
  <2>3. ClientTypeOK'
    BY <1>0, <1>9 DEF ProvideDebuggerConfiguration, Receive, ClientTypeOK
  <2>4. /\ Receive
        /\ UNCHANGED <<requests, entry, used, loaded, response, valid, dcAnswered, text, parser,
                       parsingDone, misused>>
    BY <1>9 DEF ProvideDebuggerConfiguration
  <2>5. response' \in [Query -> {"new", "pending", "answered", "canceled"}]
    BY <1>0, <2>4 DEF ManagerTypeOK
  <2> QED  BY <2>2, <2>3, <2>4, <2>5, EnqueueTypes DEF TypeOK
<1>10. ASSUME InvalidateExternalConfiguration
       PROVE  TypeOK'
  <2>1. ClientTypeOK' /\ ThreadTypeOK' /\ ParserTypeOK' /\ UNCHANGED manager
    BY <1>0, <1>10
    DEF InvalidateExternalConfiguration, Receive, ClientTypeOK, ThreadTypeOK, ParserTypeOK
  <2> QED  BY <1>0, <2>1, UnchangedTypes DEF TypeOK
<1>11. ASSUME Wakeup
       PROVE  TypeOK'
  <2>1. ThreadTypeOK' /\ UNCHANGED <<client, manager, parser>>
    BY <1>0, <1>11 DEF Wakeup, ThreadTypeOK
  <2> QED  BY <1>0, <2>1, UnchangedTypes DEF TypeOK
<1> QED  BY <1>2, <1>3, <1>4, <1>5, <1>6, <1>7, <1>8, <1>9, <1>10, <1>11 DEF ClientStep

(* The settings a load uses, and the first statement of settings_change.   *)
LEMMA TookType ==
  ASSUME ManagerTypeOK, NEW it \in Item, Loads(it)
  PROVE  /\ it.of \in Workspace
         /\ Took(it) \in Nat
         /\ TakeSettings(it) => used' \in [Workspace -> Nat]
<1>1. it.val \in Nat /\ it.kind \in {"open", "settings"} /\ it.of \in Workspace
  BY ItemFields DEF Loads, Subject
<1>2. used \in [Workspace -> Nat]
  BY DEF ManagerTypeOK
<1>3. Took(it) \in Nat
  BY <1>1, <1>2 DEF Took
<1>4. TakeSettings(it) => used' = used \/ used' = [used EXCEPT ![Implicit] = it.val]
  BY DEF TakeSettings
<1> QED  BY <1>1, <1>2, <1>3, <1>4

(* What idle_handler does.                                                 *)
LEMMA IdleTypeOK ==
  ASSUME TypeOK, IdleStep
  PROVE  TypeOK'
<1> USE ConstantsAssumption
<1> DEFINE it == Head(queue)
<1>0. /\ queue \in Seq(Item) /\ Len(queue) \in Nat
      /\ ClientTypeOK /\ ManagerTypeOK /\ ParserTypeOK /\ ThreadTypeOK
  BY DEF TypeOK, ManagerTypeOK
<1>1. ASSUME NEW k, Execute(k)
      PROVE  /\ it \in Item /\ Tail(queue) \in Seq(Item)
             /\ it.kind = k /\ it.of \in Subject[k] /\ it.val \in Nat
             /\ UNCHANGED client
  <2>1. queue # <<>> /\ it.kind = k /\ UNCHANGED client
    BY <1>1 DEF Execute, HeadReady
  <2>2. it \in Item /\ Tail(queue) \in Seq(Item)
    BY <1>0, <2>1
  <2> HIDE DEF it
  <2> QED  BY <2>1, <2>2, ItemFields
<1>2. NoTask \in Task
  BY DEF NoTask, Task, NotLoaded, Workspace
<1>3. ASSUME FinishOpen
      PROVE  TypeOK'
  <2>1. Execute("open")
    BY <1>3 DEF FinishOpen
  <2>2. it \in Item /\ it.kind = "open" /\ Tail(queue) \in Seq(Item) /\ UNCHANGED client
    BY <2>1, <1>1
  <2>3. /\ loaded' = loaded \/ loaded' = [loaded EXCEPT ![it.of] = Took(it)]
        /\ pending' = pending \/ pending' = opened
        /\ misused' = misused \/ misused' = misused \cup {"open"}
        /\ queue' = Tail(queue)
        /\ UNCHANGED <<requests, entry, used, response, valid, dcAnswered, text, opened, results,
                       active, loop, parsingDone>>
    BY <1>3 DEF FinishOpen, Finished, NoFileChange
  <2> HIDE DEF it
  <2>4. Took(it) \in Nat
    BY <1>0, <2>2, TookType DEF Loads
  <2>5. loaded' \in [Workspace -> Int]
    BY <1>0, <2>3, <2>4 DEF ManagerTypeOK
  <2>6. ManagerTypeOK'
    BY <1>0, <2>2, <2>3, <2>5 DEF ManagerTypeOK
  <2>7. ParserTypeOK' /\ ThreadTypeOK'
    BY <1>0, <2>3 DEF ParserTypeOK, ThreadTypeOK
  <2> QED  BY <1>0, <2>2, <2>6, <2>7, UnchangedTypes DEF TypeOK
<1>4. ASSUME FinishSettings
      PROVE  TypeOK'
  <2>1. Execute("settings")
    BY <1>4 DEF FinishSettings
  <2>2. it \in Item /\ it.kind = "settings" /\ Tail(queue) \in Seq(Item) /\ UNCHANGED client
    BY <2>1, <1>1
  <2>3. /\ used' = used \/ TakeSettings(it)
        /\ loaded' = loaded \/ loaded' = [loaded EXCEPT ![it.of] = Took(it)]
        /\ pending' = pending \/ pending' = opened
        /\ misused' = misused \/ misused' = misused \cup {"settings"}
        /\ queue' = Tail(queue)
        /\ UNCHANGED <<requests, entry, response, valid, dcAnswered, text, opened, results,
                       active, loop, parsingDone>>
    BY <1>4 DEF FinishSettings, Finished, NoFileChange
  <2> HIDE DEF it
  <2>4. Took(it) \in Nat /\ used' \in [Workspace -> Nat]
    BY <1>0, <2>2, <2>3, TookType DEF Loads, ManagerTypeOK
  <2>5. loaded' \in [Workspace -> Int]
    BY <1>0, <2>3, <2>4 DEF ManagerTypeOK
  <2>6. ManagerTypeOK'
    BY <1>0, <2>2, <2>3, <2>4, <2>5 DEF ManagerTypeOK
  <2>7. ParserTypeOK' /\ ThreadTypeOK'
    BY <1>0, <2>3 DEF ParserTypeOK, ThreadTypeOK
  <2> QED  BY <1>0, <2>2, <2>6, <2>7, UnchangedTypes DEF TypeOK
<1>5. ASSUME FinishClose
      PROVE  TypeOK'
  <2>1. Execute("close")
    BY <1>5 DEF FinishClose
  <2>2. it \in Item /\ Tail(queue) \in Seq(Item) /\ UNCHANGED client
    BY <2>1, <1>1
  <2>3. /\ entry' = entry \/ entry' = [entry EXCEPT ![it.of] = Absent]
        /\ used' = used \/ used' = [used EXCEPT ![it.of] = 0]
        /\ loaded' = loaded \/ loaded' = [loaded EXCEPT ![it.of] = NotLoaded]
        /\ pending' = pending \/ pending' = opened
        /\ misused' = misused \/ misused' = misused \cup {"close"}
        /\ queue' = Tail(queue)
        /\ UNCHANGED <<requests, response, valid, dcAnswered, text, opened, results,
                       active, loop, parsingDone>>
    BY <1>5 DEF FinishClose, Finished, NoFileChange
  <2> HIDE DEF it
  <2>4. Absent \in [gen : Nat, deleted : BOOLEAN]
    BY DEF Absent
  <2>5. entry' \in [Folder -> [gen : Nat, deleted : BOOLEAN]]
    BY <1>0, <2>3, <2>4 DEF ManagerTypeOK
  <2>6. used' \in [Workspace -> Nat] /\ loaded' \in [Workspace -> Int]
    BY <1>0, <2>3 DEF ManagerTypeOK, NotLoaded
  <2>7. ManagerTypeOK'
    BY <1>0, <2>2, <2>3, <2>5, <2>6 DEF ManagerTypeOK
  <2>8. ParserTypeOK' /\ ThreadTypeOK'
    BY <1>0, <2>3 DEF ParserTypeOK, ThreadTypeOK
  <2> QED  BY <1>0, <2>2, <2>7, <2>8, UnchangedTypes DEF TypeOK
<1>6. ASSUME FinishApply
      PROVE  TypeOK'
  <2>1. Execute("apply")
    BY <1>6 DEF FinishApply
  <2>2. it \in Item /\ it.val \in Nat /\ Tail(queue) \in Seq(Item) /\ UNCHANGED client
    BY <2>1, <1>1
  <2>3. /\ text' = [text EXCEPT ![it.of] = it.val]
        /\ active' = NoTask /\ parsingDone' = FALSE
        /\ UNCHANGED <<requests, entry, used, loaded, response, valid, dcAnswered, opened,
                       pending, results, misused, loop>>
    BY <1>6 DEF FinishApply, FileChange
  <2>4. queue' \in Seq(Item)
    <3>1. PICK held \in BOOLEAN :
            queue' = IF it.edit = "open"
                     THEN [Tail(queue) EXCEPT ![1].changed = (~held \/ it.val # text[it.of])]
                     ELSE Tail(queue)
      BY <1>6 DEF FinishApply
    <3> DEFINE c == ~held \/ it.val # text[it.of]
               t == Tail(queue)
    <3>2. queue' = t \/ queue' = [t EXCEPT ![1] = [t[1] EXCEPT !.changed = c]]
      BY <3>1
    <3>3. t \in Seq(Item) /\ c \in BOOLEAN
      BY <2>2
    <3> HIDE DEF c, t
    <3>4. CASE 1 \in 1..Len(t)
      <4>1. t[1] \in Item
        BY <3>3, <3>4
      <4>2. [t[1] EXCEPT !.changed = c] \in Item
        BY <3>3, <4>1, ChangedItemIsItem, "open" \in Edits DEF Edits
      <4> DEFINE e == [t[1] EXCEPT !.changed = c]
      <4> HIDE DEF e
      <4>3. [t EXCEPT ![1] = e] \in Seq(Item)
        BY <3>3, <3>4, <4>2, ExceptSeq DEF e
      <4> QED  BY <3>2, <3>3, <4>3 DEF e
    <3>5. CASE 1 \notin 1..Len(t)
      <4>1. [t EXCEPT ![1] = [t[1] EXCEPT !.changed = c]] = t
        BY <3>3, <3>5
      <4> QED  BY <3>2, <3>3, <4>1
    <3> QED  BY <3>4, <3>5
  <2> HIDE DEF it
  <2>5. text' \in [File -> Nat]
    BY <1>0, <2>2, <2>3 DEF ManagerTypeOK
  <2>6. ManagerTypeOK'
    BY <1>0, <2>3, <2>4, <2>5 DEF ManagerTypeOK
  <2>7. ParserTypeOK' /\ ThreadTypeOK'
    BY <1>0, <1>2, <2>3 DEF ParserTypeOK, ThreadTypeOK
  <2> QED  BY <1>0, <2>2, <2>6, <2>7, UnchangedTypes DEF TypeOK
<1>7. ASSUME FinishMark
      PROVE  TypeOK'
  <2>1. Execute("mark")
    BY <1>7 DEF FinishMark
  <2>2. it.of \in File /\ Tail(queue) \in Seq(Item) /\ UNCHANGED client
    BY <2>1, <1>1 DEF Subject
  <2>3. /\ MarkForParsing(it) \/ CloseFile(it.of)
        /\ active' = NoTask /\ parsingDone' = FALSE
        /\ queue' = Tail(queue)
        /\ UNCHANGED <<requests, entry, used, loaded, response, valid, dcAnswered, text, misused,
                       loop>>
    BY <1>7 DEF FinishMark, FileChange, Finished
  <2> HIDE DEF it
  <2>4. opened' \subseteq File /\ pending' \subseteq File /\ results' \in [File -> Result]
    <3>1. CASE MarkForParsing(it)
      BY <1>0, <2>2, <3>1 DEF MarkForParsing, Dependents, ParserTypeOK
    <3>2. CASE CloseFile(it.of)
      <4>1. NoResult \in Result
        BY DEF NoResult, NotLoaded, Result, Workspace
      <4>2. opened' \subseteq File /\ pending' \subseteq File
        BY <1>0, <2>2, <3>2 DEF CloseFile, Dependents, ParserTypeOK
      <4>3. results' = results \/ results' = [results EXCEPT ![it.of] = NoResult]
        BY <3>2 DEF CloseFile
      <4> QED  BY <1>0, <4>1, <4>2, <4>3 DEF ParserTypeOK
    <3> QED  BY <2>3, <3>1, <3>2
  <2>5. ParserTypeOK' /\ ThreadTypeOK'
    BY <1>0, <1>2, <2>3, <2>4 DEF ParserTypeOK, ThreadTypeOK
  <2>6. ManagerTypeOK'
    BY <1>0, <2>2, <2>3 DEF ManagerTypeOK
  <2> QED  BY <1>0, <2>2, <2>5, <2>6, UnchangedTypes DEF TypeOK
<1>8. ASSUME FinishQuery
      PROVE  TypeOK'
  <2>1. Tail(queue) \in Seq(Item) /\ UNCHANGED client
    BY <1>1, <1>8 DEF FinishQuery
  <2>2. /\ \E v \in {"answered", "canceled"} : response' = [response EXCEPT ![it.of] = v]
        /\ queue' = Tail(queue)
        /\ UNCHANGED <<requests, entry, used, loaded, valid, dcAnswered, text, parser, thread>>
    BY <1>8 DEF FinishQuery, Finished, NoFileChange, parser, thread
  <2> HIDE DEF it
  <2>3. ManagerTypeOK'
    BY <1>0, <2>1, <2>2 DEF ManagerTypeOK
  <2> QED  BY <1>0, <2>1, <2>2, <2>3, UnchangedTypes DEF TypeOK
<1>9. ASSUME FinishDc
      PROVE  TypeOK'
  <2>1. it.of \in Session /\ Tail(queue) \in Seq(Item) /\ UNCHANGED client
    BY <1>1, <1>9 DEF FinishDc, Subject
  <2>2. /\ dcAnswered' = dcAnswered \cup {it.of}
        /\ queue' = Tail(queue)
        /\ UNCHANGED <<requests, entry, used, loaded, response, valid, text, parser, thread>>
    BY <1>9 DEF FinishDc, Finished, NoFileChange, parser, thread
  <2> HIDE DEF it
  <2>3. ManagerTypeOK'
    BY <1>0, <2>1, <2>2 DEF ManagerTypeOK
  <2> QED  BY <1>0, <2>1, <2>2, <2>3, UnchangedTypes DEF TypeOK
<1>10. ASSUME SuspendHead
       PROVE  TypeOK'
  <2> DEFINE v == IF Loads(it) THEN Took(it) ELSE it.val
             i == [it EXCEPT !.begun = TRUE, !.val = v]
  <2>1. it \in Item /\ Tail(queue) \in Seq(Item)
    <3>1. queue # <<>>
      BY <1>10 DEF SuspendHead, HeadReady
    <3> QED  BY <1>0, <3>1
  <2>2. /\ queue' = <<i>> \o Tail(queue)
        /\ active' = NoTask \/ active' = active
        /\ TakeSettings(it)
        /\ loaded' = IF Loads(it) THEN [loaded EXCEPT ![it.of] = NotLoaded] ELSE loaded
        /\ opened' \subseteq opened /\ pending' \subseteq pending
        /\ loop' = "blocked" /\ parsingDone' = FALSE
        /\ UNCHANGED <<client, requests, entry, response, valid, dcAnswered, text, results, misused>>
    BY <1>10 DEF SuspendHead
  <2> HIDE DEF it
  <2>3. v \in Nat
    BY <1>0, <2>1, TookType, ItemFields
  <2> HIDE DEF v
  <2>4. i \in Item
    BY <2>1, <2>3, ChangedItemIsItem, "open" \in Edits DEF Edits
  <2> HIDE DEF i
  <2>5. queue' \in Seq(Item)
    BY <2>1, <2>2, <2>4
  <2>6. used' \in [Workspace -> Nat]
    <3>1. used' = used \/ used' = [used EXCEPT ![Implicit] = it.val]
      BY <2>2 DEF TakeSettings
    <3>2. it.val \in Nat
      BY <2>1, ItemFields
    <3> QED  BY <1>0, <3>1, <3>2 DEF ManagerTypeOK
  <2>7. loaded' \in [Workspace -> Int]
    <3>1. loaded' = loaded \/ loaded' = [loaded EXCEPT ![it.of] = NotLoaded]
      BY <2>2
    <3> QED  BY <1>0, <3>1 DEF ManagerTypeOK, NotLoaded
  <2>8. ManagerTypeOK'
    BY <1>0, <2>2, <2>5, <2>6, <2>7 DEF ManagerTypeOK
  <2>9. ParserTypeOK' /\ ThreadTypeOK'
    BY <1>0, <1>2, <2>2 DEF ParserTypeOK, ThreadTypeOK
  <2> QED  BY <1>0, <2>2, <2>8, <2>9, UnchangedTypes DEF TypeOK
<1>11. ASSUME NEW f \in File, ParseBegin(f)
       PROVE  TypeOK'
  <2>1. Match(f) \in Workspace /\ GenOf(Match(f)) \in Nat
    BY <1>0 DEF Match, GenOf, Workspace, ManagerTypeOK
  <2>2. active' \in Task
    <3>1. \A t \in Task, w \in Workspace, g \in Nat :
            [t EXCEPT !.file = f, !.stage = "config", !.ws = w, !.gen = g] \in Task
      BY DEF Task
    <3> QED  BY <1>2, <1>11, <2>1, <3>1 DEF ParseBegin
  <2>3. ParserTypeOK' /\ UNCHANGED <<client, manager, thread>>
    BY <1>0, <1>11, <2>2 DEF ParseBegin, ParserTypeOK
  <2> QED  BY <1>0, <2>3, UnchangedTypes DEF TypeOK
<1>12. ASSUME ParseConfigure
       PROVE  TypeOK'
  <2>1. active.ws \in Workspace /\ loaded[active.ws] \in Int /\ text \in [File -> Nat]
    BY <1>0 DEF ParserTypeOK, ManagerTypeOK, Task
  <2>2. /\ \/ active' = [active EXCEPT !.stage = "parse", !.cfg = loaded[active.ws], !.read = text]
           \/ active' = [active EXCEPT !.stage = "parse", !.read = text]
        /\ misused' = misused \/ misused' = misused \cup {"parse"}
        /\ UNCHANGED <<client, manager, opened, pending, results, loop, parsingDone>>
    BY <1>12 DEF ParseConfigure
  <2>3. active' \in Task
    BY <1>0, <2>1, <2>2 DEF ParserTypeOK, Task
  <2>4. ParserTypeOK' /\ ThreadTypeOK'
    BY <1>0, <2>2, <2>3 DEF ParserTypeOK, ThreadTypeOK
  <2> QED  BY <1>0, <2>2, <2>4, UnchangedTypes DEF TypeOK
<1>13. ASSUME ParseDone
       PROVE  TypeOK'
  <2>1. PICK d \in SUBSET MayUse[active.file] :
          results' = [results EXCEPT ![active.file] =
                        [text |-> active.read, ws |-> active.ws, cfg |-> active.cfg, deps |-> d]]
    BY <1>13 DEF ParseDone
  <2>2. results' \in [File -> Result]
    <3>1. CASE active.file \in File
      <4>1. d \subseteq File
        BY <3>1
      <4>2. [text |-> active.read, ws |-> active.ws, cfg |-> active.cfg, deps |-> d] \in Result
        BY <1>0, <4>1 DEF ParserTypeOK, Task, Result
      <4> QED  BY <1>0, <2>1, <4>2 DEF ParserTypeOK
    <3>2. CASE active.file \notin File
      BY <1>0, <2>1, <3>2 DEF ParserTypeOK
    <3> QED  BY <3>1, <3>2
  <2>3. ParserTypeOK' /\ UNCHANGED <<client, manager, thread>>
    BY <1>0, <1>2, <1>13, <2>2 DEF ParseDone, ParserTypeOK
  <2> QED  BY <1>0, <2>3, UnchangedTypes DEF TypeOK
<1>14. ASSUME StartIdle \/ WaitForAnswer \/ ParsePause \/ ParsingDone \/ IdleReturn
       PROVE  TypeOK'
  <2>1. ThreadTypeOK' /\ UNCHANGED <<client, manager, parser>>
    BY <1>0, <1>14
    DEF StartIdle, WaitForAnswer, ParsePause, ParsingDone, IdleReturn, ThreadTypeOK
  <2> QED  BY <1>0, <2>1, UnchangedTypes DEF TypeOK
<1> QED  BY <1>3, <1>4, <1>5, <1>6, <1>7, <1>8, <1>9, <1>10, <1>11, <1>12, <1>13, <1>14
         DEF IdleStep, FinishHead, ParseStep

(* Type correctness of the work queue.                                     *)
THEOREM TypeCorrect == Spec => []TypeOK
<1>1. TypeOK /\ [Next]_vars => TypeOK'
  <2>1. TypeOK /\ UNCHANGED vars => TypeOK'
    BY UnchangedTypes DEF TypeOK, vars
  <2> QED  BY <2>1, MessageTypeOK, IdleTypeOK DEF Next
<1> QED  BY <1>1, InitTypeOK, PTL DEF Spec


-----------------------------------------------------------------------------
(* The inductive invariants.                                               *)

(* Items carry the number of a message already received.                   *)
Numbered == \A i \in DOMAIN queue : queue[i].id <= clock

QueueOrder == Numbered /\ ArrivalOrder /\ DcAfterOpen

(* The second half of a document change directly follows the first and     *)
(* knows what to do once the first is executed.                            *)
Halves(s) ==
  \A i \in DOMAIN s : s[i].kind = "apply" =>
    /\ i + 1 \in DOMAIN s
    /\ s[i + 1].kind = "mark" /\ s[i + 1].of = s[i].of
    /\ s[i + 1].edit = s[i].edit /\ s[i].edit # "none"
    /\ s[i].edit = "change" => s[i + 1].changed
HalvesAdjacent == Halves(queue)

(* The analysis in progress has read the current texts.                    *)
ReadIsCurrent == active.stage = "parse" => active.read = text

(* The second half of a change of g is due and will reach the dependents.  *)
ReachesDependents(it) == it.changed \/ it.edit = "close"
Due(f, g) == \E i \in DOMAIN queue :
               /\ queue[i].kind = "mark" /\ queue[i].of = g
               /\ g = f \/ ReachesDependents(queue[i])
               /\ \A j \in 1..i - 1 : queue[j].kind = "dc"

StaleIsDue ==
  \A f \in opened \ pending :
    \A g \in {f} \cup results[f].deps : results[f].text[g] = text[g] \/ Due(f, g)

MarkedInv == HalvesAdjacent /\ ReadIsCurrent /\ StaleIsDue

-----------------------------------------------------------------------------
(* ParsesOpenedFiles.                                                      *)

LEMMA ParsesOpenedStep ==
  ASSUME TypeOK, ParsesOpenedFiles, [Next]_vars
  PROVE  ParsesOpenedFiles'
<1> USE DEF ParsesOpenedFiles
<1>1. CASE UNCHANGED parser
  BY <1>1 DEF parser
<1>2. CASE InvalidateExternalConfiguration
  BY <1>2 DEF InvalidateExternalConfiguration
<1>3. CASE SuspendHead
  <2>1. /\ opened' = opened \ {f \in File : Closes(Head(queue)) /\ f = Head(queue).of}
        /\ pending' = pending \ {f \in File : Closes(Head(queue)) /\ f = Head(queue).of}
        /\ active' = IF IsFileChange(Head(queue)) THEN NoTask ELSE active
    BY <1>3 DEF SuspendHead
  <2>2. CASE IsFileChange(Head(queue))
    BY <2>1, <2>2 DEF NoTask
  <2>3. CASE ~IsFileChange(Head(queue))
    <3>1. ~Closes(Head(queue))
      BY <2>3 DEF IsFileChange, Closes
    <3> QED  BY <2>1, <2>3, <3>1
  <2> QED  BY <2>2, <2>3
<1>4. CASE FinishOpen \/ FinishSettings \/ FinishClose
  <2>1. /\ pending' = pending \/ pending' = opened
        /\ UNCHANGED <<opened, active>>
    BY <1>4 DEF FinishOpen, FinishSettings, FinishClose, NoFileChange
  <2> QED  BY <2>1
<1>5. CASE FinishApply
  BY <1>5 DEF FinishApply, FileChange, NoTask
<1>6. CASE FinishMark
  <2> DEFINE it == Head(queue)
  <2>1. active'.stage = "none" /\ (MarkForParsing(it) \/ CloseFile(it.of))
    BY <1>6 DEF FinishMark, FileChange, NoTask
  <2> HIDE DEF it
  <2>2. CASE MarkForParsing(it)
    BY <2>1, <2>2 DEF MarkForParsing, Dependents
  <2>3. CASE CloseFile(it.of)
    BY <2>1, <2>3 DEF CloseFile, Dependents
  <2> QED  BY <2>1, <2>2, <2>3
<1>7. CASE FinishQuery \/ FinishDc
  BY <1>7 DEF FinishQuery, FinishDc, NoFileChange
<1>8. CASE ParseStep
  <2>1. ASSUME NEW f \in File, ParseBegin(f)
        PROVE  ParsesOpenedFiles'
    BY <2>1 DEF ParseBegin, NoTask
  <2>2. CASE ParseConfigure
    <3>1. active \in Task
      BY DEF TypeOK, ParserTypeOK
    <3>2. \A c, r : /\ [active EXCEPT !.stage = "parse", !.cfg = c, !.read = r].file = active.file
                   /\ [active EXCEPT !.stage = "parse", !.read = r].file = active.file
      BY <3>1 DEF Task
    <3>3. active'.file = active.file /\ active.stage = "config" /\ UNCHANGED <<opened, pending>>
      BY <2>2, <3>2 DEF ParseConfigure
    <3> QED  BY <3>3
  <2>3. CASE ParseDone
    BY <2>3 DEF ParseDone, NoTask
  <2> QED  BY <1>8, <2>1, <2>2, <2>3 DEF ParseStep
<1>9. CASE ClientStep
  <2>1. UNCHANGED parser \/ InvalidateExternalConfiguration
    BY <1>9 DEF ClientStep, DidOpenFile, DidChangeFile, DidCloseFile, ReceiveDocument,
                HandleRequest, CancelRequest, AddWorkspace, RemoveWorkspace,
                ConfigurationChanged, ConfigurationAnswer, ProvideDebuggerConfiguration, Wakeup
  <2> QED  BY <1>1, <1>2, <2>1
<1>10. CASE StartIdle \/ WaitForAnswer \/ ParsePause \/ ParsingDone \/ IdleReturn
  <2>1. UNCHANGED parser
    BY <1>10 DEF StartIdle, WaitForAnswer, ParsePause, ParsingDone, IdleReturn
  <2> QED  BY <1>1, <2>1
<1>11. CASE UNCHANGED vars
  BY <1>1, <1>11 DEF vars
<1> QED  BY <1>3, <1>4, <1>5, <1>6, <1>7, <1>8, <1>9, <1>10, <1>11
         DEF Next, IdleStep, FinishHead

(* workspace::parse_file picks only opened files, and the file it parses   *)
(* stays one, whatever is executed while its coroutine is suspended.       *)
THEOREM ParsesOnlyOpened == Spec => []ParsesOpenedFiles
<1>1. Init => ParsesOpenedFiles
  BY DEF Init, NoTask, ParsesOpenedFiles
<1>2. TypeOK /\ ParsesOpenedFiles /\ [Next]_vars => ParsesOpenedFiles'
  BY ParsesOpenedStep
<1> QED  BY <1>1, <1>2, TypeCorrect, PTL DEF Spec

-----------------------------------------------------------------------------
(* How a step changes the queue.                                           *)

(* The same items at the same places, except that asks may be dropped, the *)
(* first may have begun, what a load took may have been noted, and changed *)
(* may differ in the first n.                                              *)
SameItems(s, t, n) ==
  /\ Len(s) = Len(t)
  /\ \A i \in 1..Len(s) : /\ s[i].id = t[i].id /\ s[i].kind = t[i].kind
                          /\ s[i].of = t[i].of /\ s[i].gen = t[i].gen
                          /\ s[i].edit = t[i].edit
                          /\ s[i].kind = "apply" => s[i].val = t[i].val
                          /\ s[i].asks => t[i].asks
                          /\ t[i].begun => s[i].begun
                          /\ s[i].begun => t[i].begun \/ i = 1
                          /\ i > n => s[i].changed = t[i].changed

(* What the second half of a document change does to the open documents D. *)
Opens(it, D) == IF it.edit = "open" THEN D \cup {it.of}
                ELSE IF it.edit = "close" THEN D \ {it.of} ELSE D

(* What a message does besides enqueuing the items u: nothing that queries *)
(* or documents are about; a change of a document; a query.                *)
Plain(u) == /\ \A i \in 1..Len(u) : u[i].kind \notin {"apply", "mark", "query"}
            /\ UNCHANGED <<docs, sent, asked, response>>
Edited(u) == /\ Len(u) = 2 /\ u[1].kind = "apply" /\ u[2].kind = "mark"
             /\ u[2].of = u[1].of /\ u[2].edit \in {"open", "change", "close"}
             /\ sent' = [sent EXCEPT ![u[1].of] = u[1].val]
             /\ docs' = Opens(u[2], docs)
             /\ UNCHANGED <<asked, response>>
Asked(u) == /\ Len(u) = 1 /\ u[1].kind = "query" /\ response[u[1].of] = "new"
            /\ response' = [response EXCEPT ![u[1].of] = "pending"]
            /\ asked' = [asked EXCEPT ![u[1].of] = sent]
            /\ UNCHANGED <<docs, sent>>

(* Items of the message received last.                                     *)
Enqueued(u) ==
  /\ Halves(u)
  /\ \A i \in 1..Len(u) :
       /\ u[i].id = clock' /\ u[i].kind # "dc" /\ ~u[i].begun
       /\ u[i].asks => \E r \in requests' : r.id = u[i].id /\ r.ws = u[i].of
  /\ Plain(u) \/ Edited(u) \/ Asked(u)

(* What executing the item it does to texts, responses and open documents. *)
Executed(it) ==
  /\ opened' = IF it.kind = "mark" THEN Opens(it, opened) ELSE opened
  /\ text' = IF it.kind = "apply" THEN [text EXCEPT ![it.of] = it.val] ELSE text
  /\ \E x \in {"answered", "canceled"} :
       response' = IF it.kind = "query" THEN [response EXCEPT ![it.of] = x] ELSE response

QueueStep ==
  \/ /\ UNCHANGED <<client, requests, response, text>>
     /\ SameItems(queue', queue, 0)
     /\ \/ opened' = opened
        \/ /\ queue # <<>> /\ Head(queue).kind = "mark" /\ Head(queue).edit = "close"
           /\ opened' = opened \ {Head(queue).of}
  \/ /\ loop = "idle" /\ queue # <<>> /\ SameItems(queue', Tail(queue), 1)
     /\ UNCHANGED <<client, requests>> /\ Executed(Head(queue))
  \/ /\ clock' = clock + 1 /\ requests \subseteq requests' /\ UNCHANGED <<text, opened>>
     /\ \E u \in Seq(Item) : queue' = queue \o u /\ Enqueued(u)
  \/ /\ clock' = clock + 1 /\ UNCHANGED <<docs, sent, asked, requests, response, text, opened>>
     /\ \E n \in 0..Len(queue), it \in Item :
          /\ LastOpen(queue, n) /\ queue' = InsertAfter(queue, n, it)
          /\ it.id = clock' /\ it.kind = "dc" /\ ~it.asks
  \/ /\ UNCHANGED <<client, response, text, opened>>
     /\ \E r \in requests : requests' = requests \ {r} /\ queue' = ResolveWorkItem(r)

LEMMA SameItemsFields ==
  ASSUME NEW s \in Seq(Item), NEW t \in Seq(Item), NEW n \in Nat, SameItems(s, t, n),
         NEW i \in 1..Len(t)
  PROVE  /\ Len(s) = Len(t)
         /\ s[i].kind = t[i].kind /\ s[i].of = t[i].of /\ s[i].edit = t[i].edit
         /\ i > n => s[i].changed = t[i].changed
  BY DEF SameItems

LEMMA SameItemsReflexive ==
  ASSUME NEW s \in Seq(Item), NEW n
  PROVE  SameItems(s, s, n)
  BY DEF SameItems

(* Without document changes there are no halves.                           *)
LEMMA NoHalves ==
  ASSUME NEW u \in Seq(Item), \A i \in 1..Len(u) : u[i].kind # "apply"
  PROVE  Halves(u)
  BY DEF Halves

LEMMA MessageQueueStep ==
  ASSUME TypeOK, ClientStep
  PROVE  QueueStep
<1> USE ConstantsAssumption
<1>0. /\ queue \in Seq(Item) /\ Len(queue) \in Nat /\ clock \in Nat /\ settings \in Nat
      /\ \A w \in Folder : entry[w].gen \in Nat
  BY DEF TypeOK, ClientTypeOK, ManagerTypeOK
<1>1. ASSUME NEW it \in Item, it.id = clock', it.kind \notin {"dc", "apply"}, ~it.begun,
             it.asks => \E r \in requests' : r.id = it.id /\ r.ws = it.of,
             queue' = Append(queue, it), clock' = clock + 1, requests \subseteq requests',
             UNCHANGED <<text, opened>>, Plain(<<it>>) \/ Asked(<<it>>)
      PROVE  QueueStep
  <2> DEFINE u == <<it>>
  <2>1. u \in Seq(Item) /\ queue' = queue \o u
    BY <1>0, <1>1
  <2>2. Len(u) = 1 /\ u[1] = it
    OBVIOUS
  <2>3. Plain(u) \/ Asked(u)
    BY <1>1
  <2> HIDE DEF u
  <2>4. Halves(u)
    BY <1>1, <2>1, <2>2, NoHalves
  <2>5. Enqueued(u)
    BY <1>1, <2>2, <2>3, <2>4 DEF Enqueued
  <2> QED  BY <1>1, <2>1, <2>5 DEF QueueStep
<1>2. ASSUME NEW e \in Edits, e # "none", NEW f \in File, NEW v \in Nat,
             ReceiveDocument(e, f, v),
             docs' = IF e = "open" THEN docs \cup {f} ELSE IF e = "close" THEN docs \ {f} ELSE docs
      PROVE  QueueStep
  <2> DEFINE u == DocumentItems(e, f, v)
  <2>1. u \in Seq(Item)
    BY NewItems
  <2>2. /\ Len(u) = 2
        /\ \A i \in 1..2 : /\ u[i].id = clock + 1 /\ u[i].kind # "dc"
                           /\ u[i].asks = FALSE /\ u[i].begun = FALSE
        /\ u[1].kind = "apply" /\ u[1].of = f /\ u[1].val = v
        /\ u[2].kind = "mark" /\ u[2].of = f /\ u[2].edit = e
        /\ Halves(u)
    <3> DEFINE a == [NewItem("apply", f) EXCEPT !.edit = e, !.val = v]
               m == [NewItem("mark", f) EXCEPT !.edit = e, !.changed = (e = "change")]
    <3>1. /\ a.id = clock + 1 /\ a.kind = "apply" /\ a.of = f /\ a.edit = e /\ a.asks = FALSE
          /\ a.val = v /\ a.begun = FALSE
          /\ m.id = clock + 1 /\ m.kind = "mark" /\ m.of = f /\ m.edit = e /\ m.asks = FALSE
          /\ m.begun = FALSE
          /\ e = "change" => m.changed
      <4>1. m.changed = (e = "change")
        BY DEF NewItem
      <4> QED  BY <4>1 DEF NewItem
    <3>2. u = <<a, m>>
      BY DEF DocumentItems
    <3> HIDE DEF a, m, u
    <3>3. Len(u) = 2 /\ u[1] = a /\ u[2] = m /\ DOMAIN u = 1..2
      BY <3>2
    <3>4. Halves(u)
      BY <1>2, <3>1, <3>3 DEF Halves
    <3> QED  BY <3>1, <3>3, <3>4
  <2>3. /\ queue' = queue \o u /\ clock' = clock + 1 /\ requests' = requests
        /\ sent' = [sent EXCEPT ![f] = v] /\ UNCHANGED <<asked, response, text, opened>>
    BY <1>2 DEF ReceiveDocument, Receive, parser
  <2> HIDE DEF u
  <2>4. Edited(u)
    BY <1>2, <2>2, <2>3 DEF Edited, Edits, Opens
  <2>5. Enqueued(u)
    BY <2>2, <2>3, <2>4 DEF Enqueued
  <2> QED  BY <2>1, <2>3, <2>5 DEF QueueStep
<1>3. ASSUME NEW f \in File, DidOpenFile(f) \/ DidChangeFile(f) \/ DidCloseFile(f)
      PROVE  QueueStep
  <2>1. \E e \in Edits, v \in Nat :
          /\ e # "none" /\ ReceiveDocument(e, f, v)
          /\ docs' = IF e = "open" THEN docs \cup {f} ELSE IF e = "close" THEN docs \ {f} ELSE docs
    <3>1. CASE DidOpenFile(f)
      BY <1>0, <3>1 DEF DidOpenFile, Edits
    <3>2. CASE DidChangeFile(f)
      BY <1>0, <3>2 DEF DidChangeFile, Edits
    <3>3. CASE DidCloseFile(f)
      BY <1>0, <3>3 DEF DidCloseFile, Edits
    <3> QED  BY <1>3, <3>1, <3>2, <3>3
  <2> QED  BY <1>2, <2>1
<1>4. ASSUME NEW q \in Query, NEW f \in File, HandleRequest(q, f)
      PROVE  QueueStep
  <2> DEFINE it == NewItem("query", q)
  <2>1. it \in Item
    BY NewItems
  <2>2. /\ it.id = clock + 1 /\ it.kind = "query" /\ it.of = q
        /\ it.asks = FALSE /\ it.begun = FALSE
    BY DEF NewItem
  <2>3. /\ queue' = Append(queue, it) /\ clock' = clock + 1 /\ requests' = requests
        /\ response[q] = "new" /\ response' = [response EXCEPT ![q] = "pending"]
        /\ asked' = [asked EXCEPT ![q] = sent] /\ UNCHANGED <<docs, sent, text, opened>>
    BY <1>4 DEF HandleRequest, Receive, parser
  <2> HIDE DEF it
  <2>4. Asked(<<it>>)
    BY <2>2, <2>3 DEF Asked
  <2> QED  BY <1>1, <2>1, <2>2, <2>3, <2>4
<1>5. ASSUME NEW w \in Folder, AddWorkspace(w)
      PROVE  QueueStep
  <2> DEFINE g == IF entry[w].gen = 0 THEN clock + 1 ELSE entry[w].gen
             r == [id |-> clock + 1, ws |-> w, gen |-> g, since |-> settings]
             it == [NewItem("open", w) EXCEPT !.gen = g, !.asks = TRUE]
  <2>1. it \in Item
    <3>1. g \in Nat
      BY <1>0
    <3> HIDE DEF g
    <3> QED  BY <3>1, NewItems
  <2>2. it.id = clock + 1 /\ it.kind = "open" /\ it.of = w /\ it.begun = FALSE
    BY DEF NewItem
  <2>3. /\ queue' = Append(queue, it) /\ clock' = clock + 1
        /\ requests' = requests \cup {r}
        /\ UNCHANGED <<docs, sent, asked, response, text, opened>>
    BY <1>5 DEF AddWorkspace, Receive, parser
  <2>4. r.id = clock + 1 /\ r.ws = w
    OBVIOUS
  <2> HIDE DEF it, r
  <2>5. Plain(<<it>>)
    BY <2>2, <2>3 DEF Plain
  <2> QED  BY <1>1, <2>1, <2>2, <2>3, <2>4, <2>5
<1>6. ASSUME NEW w \in Folder, RemoveWorkspace(w)
      PROVE  QueueStep
  <2> DEFINE it == [NewItem("close", w) EXCEPT !.gen = entry[w].gen]
  <2>1. it \in Item
    BY <1>0, NewItems
  <2>2. it.id = clock + 1 /\ it.kind = "close" /\ it.asks = FALSE /\ it.begun = FALSE
    BY DEF NewItem
  <2>3. /\ queue' = queue \/ queue' = Append(queue, it)
        /\ clock' = clock + 1 /\ requests' = requests
        /\ UNCHANGED <<docs, sent, asked, response, text, opened>>
    BY <1>6 DEF RemoveWorkspace, Receive, parser
  <2> HIDE DEF it
  <2>4. CASE queue' = Append(queue, it)
    <3>1. Plain(<<it>>)
      BY <2>2, <2>3 DEF Plain
    <3> QED  BY <1>1, <2>1, <2>2, <2>3, <2>4, <3>1
  <2>5. CASE queue' = queue
    <3>1. <<>> \in Seq(Item) /\ queue' = queue \o <<>> /\ Enqueued(<<>>)
      BY <1>0, <2>3, <2>5 DEF Enqueued, Halves, Plain
    <3> QED  BY <2>3, <3>1 DEF QueueStep
  <2> QED  BY <2>3, <2>4, <2>5
<1>7. ASSUME ConfigurationChanged
      PROVE  QueueStep
  <2>1. PICK v \in {settings, settings + 1}, order \in [1..Cardinality(Present) -> Present] :
          /\ queue' = Append(queue, [NewItem("settings", Implicit) EXCEPT !.val = v])
                        \o [i \in DOMAIN order |-> SettingsItem(order[i])]
          /\ requests' = requests \cup
               {[id |-> clock + 1, ws |-> w, gen |-> entry[w].gen, since |-> v] : w \in Present}
    BY <1>7 DEF ConfigurationChanged
  <2> DEFINE it == [NewItem("settings", Implicit) EXCEPT !.val = v]
             more == [i \in DOMAIN order |-> SettingsItem(order[i])]
             u == <<it>> \o more
  <2>2. Present \subseteq Folder /\ Cardinality(Present) \in Nat
    BY FS_Subset, FS_CardinalityType DEF Present
  <2>3. /\ it \in Item /\ it.id = clock + 1 /\ it.kind = "settings"
        /\ it.asks = FALSE /\ it.begun = FALSE
    <3>1. it.id = clock + 1 /\ it.kind = "settings" /\ it.asks = FALSE /\ it.begun = FALSE
      BY DEF NewItem
    <3>2. v \in Nat
      BY <1>0
    <3>3. it \in Item
      BY <3>2, NewItems
    <3> HIDE DEF it
    <3> QED  BY <3>1, <3>3
  <2>4. \A w \in Present : /\ SettingsItem(w) \in Item
                           /\ SettingsItem(w).id = clock + 1
                           /\ SettingsItem(w).kind = "settings"
                           /\ SettingsItem(w).of = w /\ SettingsItem(w).begun = FALSE
    <3>1. \A w : SettingsItem(w).id = clock + 1 /\ SettingsItem(w).kind = "settings"
                 /\ SettingsItem(w).of = w /\ SettingsItem(w).begun = FALSE
      BY DEF SettingsItem, NewItem
    <3> QED  BY <2>2, <3>1, NewItems
  <2>5. \A w \in Present : \E r \in requests' : r.id = clock + 1 /\ r.ws = w
    <3>1. \A w \in Present :
            LET r == [id |-> clock + 1, ws |-> w, gen |-> entry[w].gen, since |-> v]
            IN  r \in requests' /\ r.id = clock + 1 /\ r.ws = w
      BY <2>1
    <3> QED  BY <3>1
  <2>6. more \in Seq(Item) /\ Len(more) = Cardinality(Present)
        /\ \A i \in 1..Len(more) : \E w \in Present : more[i] = SettingsItem(w)
    <3> HIDE DEF it
    <3>1. more \in [1..Cardinality(Present) -> Item]
      BY <2>4
    <3>2. more \in Seq(Item)
      BY <2>2, <3>1, SeqDef
    <3>3. Len(more) = Cardinality(Present)
      BY <2>2, <3>1, <3>2
    <3> QED  BY <3>2, <3>3
  <2>7. queue' = Append(queue, it) \o more
    BY <2>1
  <2> HIDE DEF it, more
  <2>8. u \in Seq(Item) /\ queue' = queue \o u
    BY <1>0, <2>3, <2>6, <2>7
  <2>9. /\ clock' = clock + 1 /\ requests \subseteq requests'
        /\ UNCHANGED <<docs, sent, asked, response, text, opened>>
    BY <1>7, <2>1 DEF ConfigurationChanged, Receive, parser
  <2>10. \A i \in 1..Len(u) : u[i] = it \/ \E w \in Present : u[i] = SettingsItem(w)
    BY <2>3, <2>6
  <2> HIDE DEF u
  <2>11. Enqueued(u)
    <3>1. Halves(u)
      BY <2>3, <2>4, <2>8, <2>10, NoHalves
    <3>2. Plain(u)
      BY <2>3, <2>4, <2>9, <2>10 DEF Plain
    <3> QED  BY <2>3, <2>4, <2>5, <2>9, <2>10, <3>1, <3>2 DEF Enqueued
  <2> QED  BY <2>8, <2>9, <2>11 DEF QueueStep
<1>8. ASSUME NEW r \in requests, ConfigurationAnswer(r)
      PROVE  QueueStep
  BY <1>8 DEF ConfigurationAnswer, QueueStep, client, parser
<1>9. ASSUME NEW d \in Session, ProvideDebuggerConfiguration(d)
      PROVE  QueueStep
  <2> DEFINE it == NewItem("dc", d)
  <2>1. it \in Item
    BY NewItems
  <2>2. it.id = clock + 1 /\ it.kind = "dc" /\ it.asks = FALSE
    BY DEF NewItem
  <2>3. /\ \E n \in 0..Len(queue) : LastOpen(queue, n) /\ queue' = InsertAfter(queue, n, it)
        /\ clock' = clock + 1 /\ UNCHANGED <<docs, sent, asked, requests, response, text, opened>>
    BY <1>9 DEF ProvideDebuggerConfiguration, Receive, parser
  <2> HIDE DEF it
  <2> QED  BY <2>1, <2>2, <2>3 DEF QueueStep
<1>10. ASSUME InvalidateExternalConfiguration
       PROVE  QueueStep
  <2>1. <<>> \in Seq(Item) /\ queue' = queue \o <<>> /\ Enqueued(<<>>)
    BY <1>0, <1>10 DEF InvalidateExternalConfiguration, manager, Enqueued, Halves, Plain
  <2> QED  BY <1>10, <2>1 DEF InvalidateExternalConfiguration, Receive, manager, QueueStep
<1>11. ASSUME Wakeup \/ \E q \in Query : CancelRequest(q)
       PROVE  QueueStep
  BY <1>0, <1>11, SameItemsReflexive DEF Wakeup, CancelRequest, client, manager, parser, QueueStep
<1> QED  BY <1>3, <1>4, <1>5, <1>6, <1>7, <1>8, <1>9, <1>10, <1>11 DEF ClientStep

LEMMA SuspendSameItems ==
  ASSUME TypeOK, SuspendHead
  PROVE  SameItems(queue', queue, 0)
<1> DEFINE it == Head(queue)
           v == IF Loads(it) THEN Took(it) ELSE it.val
           e == [it EXCEPT !.begun = TRUE, !.val = v]
<1>0. queue \in Seq(Item)
  BY DEF TypeOK, ManagerTypeOK
<1>1. queue # <<>> /\ queue' = <<e>> \o Tail(queue)
  BY DEF SuspendHead, HeadReady
<1>2. it \in Item /\ it = queue[1] /\ Tail(queue) \in Seq(Item)
  BY <1>0, <1>1
<1> HIDE DEF it, v
<1>3. /\ e.id = it.id /\ e.kind = it.kind /\ e.of = it.of /\ e.gen = it.gen
      /\ e.edit = it.edit /\ e.changed = it.changed /\ e.asks = it.asks
      /\ e.begun = TRUE
  BY <1>2 DEF Item
<1>4. it.kind # "apply"
  BY DEF SuspendHead, IsTask, it
<1> HIDE DEF e
<1> QED  BY <1>0, <1>1, <1>2, <1>3, <1>4 DEF SameItems

LEMMA IdleQueueStep ==
  ASSUME TypeOK, IdleStep
  PROVE  QueueStep
<1>0. queue \in Seq(Item)
  BY DEF TypeOK, ManagerTypeOK
<1>1. ASSUME loop = "idle", queue # <<>>, queue' = Tail(queue), UNCHANGED <<client, requests>>,
             Executed(Head(queue))
      PROVE  QueueStep
  <2>1. Tail(queue) \in Seq(Item)
    BY <1>0, <1>1
  <2> QED  BY <1>1, <2>1, SameItemsReflexive DEF QueueStep
<1>2. ASSUME FinishOpen \/ FinishSettings \/ FinishClose \/ FinishMark \/ FinishQuery \/ FinishDc
      PROVE  QueueStep
  <2>1. loop = "idle" /\ queue # <<>> /\ queue' = Tail(queue) /\ UNCHANGED <<client, requests>>
    BY <1>2 DEF FinishOpen, FinishSettings, FinishClose, FinishMark, FinishQuery, FinishDc,
                Execute, HeadReady, Finished
  <2>2. Executed(Head(queue))
    BY <1>2 DEF FinishOpen, FinishSettings, FinishClose, FinishMark, FinishQuery, FinishDc,
                Execute, Executed, MarkForParsing, CloseFile, Opens
  <2> QED  BY <1>1, <2>1, <2>2
<1>3. ASSUME FinishApply
      PROVE  QueueStep
  <2> DEFINE t == Tail(queue)
  <2>1. loop = "idle" /\ queue # <<>> /\ UNCHANGED <<client, requests>> /\ Executed(Head(queue))
    BY <1>3 DEF FinishApply, Execute, HeadReady, Executed
  <2>2. PICK c \in BOOLEAN : queue' = t \/ queue' = [t EXCEPT ![1] = [t[1] EXCEPT !.changed = c]]
    <3>1. PICK held \in BOOLEAN :
            queue' = IF Head(queue).edit = "open"
                     THEN [Tail(queue) EXCEPT ![1].changed =
                             (~held \/ Head(queue).val # text[Head(queue).of])]
                     ELSE Tail(queue)
      BY <1>3 DEF FinishApply
    <3> QED  BY <3>1
  <2>3. t \in Seq(Item)
    BY <1>0, <2>1
  <2> HIDE DEF t
  <2>4. SameItems(queue', t, 1)
    <3>1. CASE queue' = t
      BY <2>3, <3>1, SameItemsReflexive
    <3>2. CASE queue' = [t EXCEPT ![1] = [t[1] EXCEPT !.changed = c]] /\ 1 \in 1..Len(t)
      <4> DEFINE e == [t[1] EXCEPT !.changed = c]
      <4>1. t[1] \in Item
        BY <2>3, <3>2
      <4>2. e \in Item
        BY <4>1, ChangedItemIsItem, "open" \in Edits DEF Edits
      <4>3. /\ e.id = t[1].id /\ e.kind = t[1].kind /\ e.of = t[1].of /\ e.gen = t[1].gen
            /\ e.edit = t[1].edit /\ e.asks = t[1].asks /\ e.val = t[1].val
            /\ e.begun = t[1].begun
        BY <4>1 DEF Item
      <4> HIDE DEF e
      <4>4. /\ Len([t EXCEPT ![1] = e]) = Len(t)
            /\ \A j \in 1..Len(t) : [t EXCEPT ![1] = e][j] = IF j = 1 THEN e ELSE t[j]
        BY <2>3, <3>2, <4>2, ExceptSeq
      <4>5. queue' = [t EXCEPT ![1] = e]
        BY <3>2 DEF e
      <4> QED  BY <4>3, <4>4, <4>5 DEF SameItems
    <3>3. CASE queue' = [t EXCEPT ![1] = [t[1] EXCEPT !.changed = c]] /\ 1 \notin 1..Len(t)
      <4>1. queue' = t
        BY <2>3, <3>3
      <4> QED  BY <2>3, <4>1, SameItemsReflexive
    <3> QED  BY <2>2, <3>1, <3>2, <3>3
  <2> QED  BY <2>1, <2>4 DEF QueueStep, t
<1>4. ASSUME SuspendHead
      PROVE  QueueStep
  <2>1. /\ UNCHANGED <<client, requests, response, text>> /\ queue # <<>>
        /\ opened' = opened \ {f \in File : Closes(Head(queue)) /\ f = Head(queue).of}
    BY <1>4 DEF SuspendHead, HeadReady
  <2>2. \/ opened' = opened
        \/ /\ Head(queue).kind = "mark" /\ Head(queue).edit = "close"
           /\ opened' = opened \ {Head(queue).of}
    <3>1. opened \subseteq File
      BY DEF TypeOK, ParserTypeOK
    <3> QED  BY <2>1, <3>1 DEF Closes
  <2> QED  BY <1>4, <2>1, <2>2, SuspendSameItems DEF QueueStep
<1>5. ASSUME UNCHANGED <<client, manager, opened>>
      PROVE  QueueStep
  BY <1>0, <1>5, SameItemsReflexive DEF QueueStep, client, manager
<1>6. ASSUME \/ ParseStep \/ StartIdle \/ WaitForAnswer \/ ParsePause \/ ParsingDone \/ IdleReturn
      PROVE  QueueStep
  <2>1. UNCHANGED <<client, manager, opened>>
    BY <1>6 DEF ParseStep, ParseBegin, ParseConfigure, ParseDone, StartIdle, WaitForAnswer,
                ParsePause, ParsingDone, IdleReturn, parser
  <2> QED  BY <1>5, <2>1
<1> QED  BY <1>2, <1>3, <1>4, <1>6 DEF IdleStep, FinishHead

LEMMA EveryQueueStep ==
  ASSUME TypeOK, [Next]_vars
  PROVE  QueueStep
<1>1. CASE UNCHANGED vars
  BY <1>1, SameItemsReflexive DEF QueueStep, TypeOK, ManagerTypeOK, vars, client, manager, parser
<1> QED  BY <1>1, MessageQueueStep, IdleQueueStep DEF Next

-----------------------------------------------------------------------------
(* The order of the items.                                                 *)

Ordered(s, n) ==
  /\ \A i \in DOMAIN s : s[i].id <= n
  /\ \A i, j \in DOMAIN s :
       i < j /\ s[i].kind # "dc" /\ s[j].kind # "dc" => s[i].id <= s[j].id
  /\ \A i, j \in DOMAIN s :
       i < j /\ s[i].kind = "dc" /\ s[j].kind = "open" => s[i].id < s[j].id

LEMMA SameItemsOrdered ==
  ASSUME NEW s \in Seq(Item), NEW t \in Seq(Item), NEW k, SameItems(s, t, k), NEW n, Ordered(t, n)
  PROVE  Ordered(s, n)
<1>1. DOMAIN s = DOMAIN t /\ \A i \in DOMAIN s : s[i].id = t[i].id /\ s[i].kind = t[i].kind
  BY DEF SameItems
<1> QED  BY <1>1 DEF Ordered

LEMMA ResolveSameItems ==
  ASSUME queue \in Seq(Item), NEW r
  PROVE  SameItems(ResolveWorkItem(r), queue, 0)
<1> DEFINE q == ResolveWorkItem(r)
<1>1. /\ q \in [1..Len(queue) -> Item]
      /\ \A i \in 1..Len(queue) : q[i] = queue[i] \/ q[i] = [queue[i] EXCEPT !.asks = FALSE]
  <2>1. \A it \in Item : [it EXCEPT !.asks = FALSE] \in Item
    BY ChangedItemIsItem, "open" \in Edits DEF Edits
  <2>2. \A i \in 1..Len(queue) : queue[i] \in Item
    OBVIOUS
  <2>3. q = [i \in 1..Len(queue) |->
               IF queue[i].asks /\ queue[i].id = r.id /\ queue[i].of = r.ws
               THEN [queue[i] EXCEPT !.asks = FALSE] ELSE queue[i]]
    BY DEF ResolveWorkItem
  <2> HIDE DEF q
  <2> QED  BY <2>1, <2>2, <2>3
<1> HIDE DEF q
<1>2. q \in Seq(Item) /\ Len(q) = Len(queue)
  BY <1>1, SeqDef
<1>3. \A it \in Item : LET e == [it EXCEPT !.asks = FALSE]
                       IN  /\ e.id = it.id /\ e.kind = it.kind /\ e.of = it.of
                           /\ e.edit = it.edit /\ e.changed = it.changed /\ e.asks = FALSE
                           /\ e.gen = it.gen /\ e.val = it.val /\ e.begun = it.begun
  BY DEF Item
<1>4. \A i \in 1..Len(queue) : /\ q[i].id = queue[i].id /\ q[i].kind = queue[i].kind
                               /\ q[i].of = queue[i].of /\ q[i].edit = queue[i].edit
                               /\ q[i].changed = queue[i].changed /\ q[i].gen = queue[i].gen
                               /\ q[i].val = queue[i].val /\ q[i].begun = queue[i].begun
                               /\ q[i].asks => queue[i].asks
  <2> TAKE i \in 1..Len(queue)
  <2>1. queue[i] \in Item
    OBVIOUS
  <2>2. CASE q[i] = [queue[i] EXCEPT !.asks = FALSE]
    <3> DEFINE e == [queue[i] EXCEPT !.asks = FALSE]
    <3>1. /\ e.id = queue[i].id /\ e.kind = queue[i].kind /\ e.of = queue[i].of
          /\ e.edit = queue[i].edit /\ e.changed = queue[i].changed /\ e.asks = FALSE
          /\ e.gen = queue[i].gen /\ e.val = queue[i].val /\ e.begun = queue[i].begun
      BY <1>3, <2>1
    <3> HIDE DEF e
    <3>2. q[i] = e
      BY <2>2 DEF e
    <3> QED  BY <3>1, <3>2
  <2> QED  BY <1>1, <2>2
<1> QED  BY <1>2, <1>4 DEF SameItems, q

LEMMA QueueOrderStep ==
  ASSUME TypeOK, TypeOK', QueueOrder, QueueStep
  PROVE  QueueOrder'
<1>0. /\ queue \in Seq(Item) /\ queue' \in Seq(Item) /\ clock \in Nat
      /\ \A i \in 1..Len(queue) : queue[i].id \in Nat
      /\ Len(queue) \in Nat /\ DOMAIN queue = 1..Len(queue) /\ DOMAIN queue' = 1..Len(queue')
  <2>1. queue \in Seq(Item) /\ queue' \in Seq(Item) /\ clock \in Nat
    BY DEF TypeOK, ManagerTypeOK, ClientTypeOK
  <2>2. \A i \in 1..Len(queue) : queue[i] \in Item
    BY <2>1
  <2> QED  BY <2>1, <2>2, ItemFields
<1>1. Ordered(queue, clock)
  BY DEF QueueOrder, Numbered, ArrivalOrder, DcAfterOpen, Ordered
<1>2. SUFFICES Ordered(queue', clock')
  BY DEF QueueOrder, Numbered, ArrivalOrder, DcAfterOpen, Ordered
<1>3. CASE clock' = clock /\ SameItems(queue', queue, 0)
  BY <1>0, <1>1, <1>3, SameItemsOrdered
<1>4. CASE clock' = clock /\ queue # <<>> /\ SameItems(queue', Tail(queue), 1)
  <2> DEFINE t == Tail(queue)
  <2>1. /\ t \in Seq(Item) /\ DOMAIN t = 1..Len(t) /\ Len(t) = Len(queue) - 1
        /\ \A i \in 1..Len(t) : t[i] = queue[i + 1] /\ i + 1 \in 1..Len(queue)
    BY <1>0, <1>4
  <2> HIDE DEF t
  <2>2. Ordered(t, clock)
    <3>1. \A i \in DOMAIN t : i + 1 \in DOMAIN queue /\ t[i] = queue[i + 1]
      BY <1>0, <2>1
    <3>2. \A i, j \in DOMAIN t : i < j => i + 1 < j + 1
      BY <2>1
    <3> QED  BY <1>1, <3>1, <3>2 DEF Ordered
  <2> QED  BY <1>0, <1>4, <2>1, <2>2, SameItemsOrdered DEF t
<1>5. ASSUME NEW u \in Seq(Item), queue' = queue \o u, Enqueued(u), clock' = clock + 1
      PROVE  Ordered(queue', clock')
  <2>1. /\ Len(queue') = Len(queue) + Len(u) /\ Len(u) \in Nat
        /\ \A i \in 1..Len(queue) : queue'[i] = queue[i]
        /\ \A i \in 1..Len(u) : queue'[Len(queue) + i] = u[i]
    BY <1>0, <1>5, ConcatProperties
  <2>2. \A i \in 1..Len(queue') : i > Len(queue) =>
          queue'[i].id = clock + 1 /\ queue'[i].kind # "dc"
    <3> TAKE i \in 1..Len(queue')
    <3>1. HAVE i > Len(queue)
    <3>2. i - Len(queue) \in 1..Len(u) /\ queue'[i] = u[i - Len(queue)]
      BY <1>0, <2>1, <3>1
    <3> QED  BY <1>5, <3>2 DEF Enqueued
  <2>3. \A i \in 1..Len(queue') : i <= Len(queue) =>
          queue'[i] = queue[i] /\ i \in 1..Len(queue) /\ queue[i].id <= clock /\ queue[i].id \in Nat
    BY <1>0, <1>1, <2>1 DEF Ordered
  <2>4. \A i \in 1..Len(queue') : i <= Len(queue) \/ i > Len(queue)
    BY <1>0, <2>1
  <2>5. \A i \in DOMAIN queue' : queue'[i].id <= clock'
    BY <1>0, <1>5, <2>2, <2>3, <2>4
  <2>6. ASSUME NEW i \in DOMAIN queue', NEW j \in DOMAIN queue', i < j
        PROVE  /\ queue'[i].kind # "dc" /\ queue'[j].kind # "dc" => queue'[i].id <= queue'[j].id
               /\ queue'[i].kind = "dc" /\ queue'[j].kind = "open" => queue'[i].id < queue'[j].id
    <3>1. CASE j <= Len(queue)
      BY <1>0, <1>1, <2>3, <2>6, <3>1 DEF Ordered
    <3>2. CASE i <= Len(queue) /\ j > Len(queue)
      BY <1>0, <2>2, <2>3, <2>6, <3>2
    <3>3. CASE i > Len(queue) /\ j > Len(queue)
      BY <1>0, <2>2, <2>6, <3>3
    <3> QED  BY <1>0, <2>4, <3>1, <3>2, <3>3
  <2> QED  BY <2>5, <2>6 DEF Ordered
<1>6. ASSUME NEW n \in 0..Len(queue), NEW it \in Item, LastOpen(queue, n),
             queue' = InsertAfter(queue, n, it), it.id = clock + 1, it.kind = "dc",
             clock' = clock + 1
      PROVE  Ordered(queue', clock')
  <2>1. /\ Len(queue') = Len(queue) + 1
        /\ \A i \in 1..Len(queue') : queue'[i] = IF i <= n THEN queue[i]
                                                 ELSE IF i = n + 1 THEN it ELSE queue[i - 1]
    BY <1>0, <1>6 DEF InsertAfter
  <2>2. \A j \in 1..Len(queue) : queue[j].kind = "open" => j <= n
    BY <1>6 DEF LastOpen
  <2> DEFINE Old(i) == IF i <= n THEN i ELSE i - 1
  <2>3. ASSUME NEW i \in 1..Len(queue'), i # n + 1
        PROVE  Old(i) \in 1..Len(queue) /\ queue'[i] = queue[Old(i)]
    BY <1>0, <2>1, <2>3
  <2>4. queue'[n + 1] = it
    BY <1>0, <2>1
  <2>5. ASSUME NEW i \in DOMAIN queue', NEW j \in DOMAIN queue', i < j
        PROVE  /\ queue'[i].kind # "dc" /\ queue'[j].kind # "dc" => queue'[i].id <= queue'[j].id
               /\ queue'[i].kind = "dc" /\ queue'[j].kind = "open" => queue'[i].id < queue'[j].id
    <3>1. CASE i = n + 1
      <4>1. Old(j) > n /\ Old(j) \in 1..Len(queue) /\ queue'[j] = queue[Old(j)]
        BY <1>0, <2>3, <2>5, <3>1
      <4>2. queue[Old(j)].kind # "open"
        BY <2>2, <4>1
      <4> QED  BY <1>6, <2>4, <3>1, <4>1, <4>2
    <3>2. CASE j = n + 1
      BY <1>6, <2>4, <3>2
    <3>3. CASE i # n + 1 /\ j # n + 1
      <4>1. Old(i) < Old(j)
        BY <1>0, <2>5, <3>3
      <4>2. /\ Old(i) \in DOMAIN queue /\ queue'[i] = queue[Old(i)]
            /\ Old(j) \in DOMAIN queue /\ queue'[j] = queue[Old(j)]
        BY <1>0, <2>3, <3>3
      <4> HIDE DEF Old
      <4> QED  BY <1>1, <4>1, <4>2 DEF Ordered
    <3> QED  BY <3>1, <3>2, <3>3
  <2>6. \A i \in DOMAIN queue' : queue'[i].id <= clock'
    <3> TAKE i \in DOMAIN queue'
    <3>1. CASE i = n + 1
      BY <1>0, <1>6, <2>4, <3>1
    <3>2. CASE i # n + 1
      <4>1. Old(i) \in DOMAIN queue /\ queue'[i] = queue[Old(i)]
        BY <1>0, <2>3, <3>2
      <4> HIDE DEF Old
      <4>2. queue'[i].id <= clock /\ queue'[i].id \in Nat
        BY <1>0, <1>1, <4>1 DEF Ordered
      <4> QED  BY <1>0, <1>6, <4>2
    <3> QED  BY <3>1, <3>2
  <2> QED  BY <2>5, <2>6 DEF Ordered
<1>7. ASSUME NEW r \in requests, queue' = ResolveWorkItem(r), clock' = clock
      PROVE  Ordered(queue', clock')
  BY <1>0, <1>3, <1>7, ResolveSameItems
<1> QED  BY <1>3, <1>4, <1>5, <1>6, <1>7 DEF QueueStep, client

(* Items are executed in the order of their messages, except those of      *)
(* debug sessions, which stay behind the folders opened before them        *)
(* (emplace_back, and the insertion of provide_debugger_configuration).    *)
THEOREM QueueIsOrdered == Spec => [](ArrivalOrder /\ DcAfterOpen)
<1>1. Init => QueueOrder
  BY DEF Init, QueueOrder, Numbered, ArrivalOrder, DcAfterOpen, NewItem
<1>2. TypeOK /\ TypeOK' /\ QueueOrder /\ [Next]_vars => QueueOrder'
  BY EveryQueueStep, QueueOrderStep
<1>3. QueueOrder => ArrivalOrder /\ DcAfterOpen
  BY DEF QueueOrder
<1> QED  BY <1>1, <1>2, <1>3, TypeCorrect, PTL DEF Spec

-----------------------------------------------------------------------------
(* AskedIsOutstanding.                                                     *)

LEMMA AskedStep ==
  ASSUME TypeOK, TypeOK', AskedIsOutstanding, QueueStep
  PROVE  AskedIsOutstanding'
<1> DEFINE Outstanding(it, R) == it.asks => \E r \in R : r.id = it.id /\ r.ws = it.of
<1>0. /\ queue \in Seq(Item) /\ queue' \in Seq(Item) /\ Len(queue) \in Nat
      /\ DOMAIN queue = 1..Len(queue) /\ DOMAIN queue' = 1..Len(queue')
  BY DEF TypeOK, ManagerTypeOK
<1>1. \A i \in 1..Len(queue) : Outstanding(queue[i], requests)
  BY <1>0 DEF AskedIsOutstanding
<1> SUFFICES ASSUME NEW i \in 1..Len(queue')
             PROVE  Outstanding(queue'[i], requests')
  BY <1>0 DEF AskedIsOutstanding
<1>2. CASE requests' = requests /\ SameItems(queue', queue, 0)
  <2>1. /\ i \in 1..Len(queue) /\ queue'[i].id = queue[i].id /\ queue'[i].of = queue[i].of
        /\ queue'[i].asks => queue[i].asks
    BY <1>0, <1>2 DEF SameItems
  <2> QED  BY <1>1, <1>2, <2>1
<1>3. CASE requests' = requests /\ queue # <<>> /\ SameItems(queue', Tail(queue), 1)
  <2>1. Len(Tail(queue)) = Len(queue) - 1 /\ Tail(queue)[i] = queue[i + 1]
    BY <1>0, <1>3 DEF SameItems
  <2>2. i + 1 \in 1..Len(queue)
    BY <1>0, <1>3, <2>1 DEF SameItems
  <2>3. /\ queue'[i].id = queue[i + 1].id /\ queue'[i].of = queue[i + 1].of
        /\ queue'[i].asks => queue[i + 1].asks
    BY <1>0, <1>3, <2>1 DEF SameItems
  <2> QED  BY <1>1, <1>3, <2>2, <2>3
<1>4. ASSUME NEW u \in Seq(Item), queue' = queue \o u, Enqueued(u), requests \subseteq requests'
      PROVE  Outstanding(queue'[i], requests')
  <2>1. CASE i <= Len(queue)
    BY <1>0, <1>1, <1>4, <2>1
  <2>2. CASE i > Len(queue)
    <3>1. i - Len(queue) \in 1..Len(u) /\ queue'[i] = u[i - Len(queue)]
      BY <1>0, <1>4, <2>2
    <3> QED  BY <1>4, <3>1 DEF Enqueued
  <2> QED  BY <1>0, <2>1, <2>2
<1>5. ASSUME NEW n \in 0..Len(queue), NEW it \in Item, queue' = InsertAfter(queue, n, it), ~it.asks,
             requests' = requests
      PROVE  Outstanding(queue'[i], requests')
  <2>1. /\ Len(queue') = Len(queue) + 1
        /\ queue'[i] = IF i <= n THEN queue[i] ELSE IF i = n + 1 THEN it ELSE queue[i - 1]
    BY <1>0, <1>5 DEF InsertAfter
  <2>2. \/ queue'[i] = it
        \/ \E k \in 1..Len(queue) : queue'[i] = queue[k]
    BY <1>0, <2>1
  <2> QED  BY <1>1, <1>5, <2>2
<1>6. ASSUME NEW r \in requests, requests' = requests \ {r}, queue' = ResolveWorkItem(r)
      PROVE  Outstanding(queue'[i], requests')
  <2>1. SameItems(queue', queue, 0)
    BY <1>0, <1>6, ResolveSameItems
  <2>2. i \in 1..Len(queue) /\ queue[i] \in Item
    BY <1>0, <2>1 DEF SameItems
  <2>3. CASE queue[i].asks /\ queue[i].id = r.id /\ queue[i].of = r.ws
    <3>1. queue'[i] = [queue[i] EXCEPT !.asks = FALSE]
      BY <1>0, <1>6, <2>2, <2>3 DEF ResolveWorkItem
    <3>2. [queue[i] EXCEPT !.asks = FALSE].asks = FALSE
      BY <2>2 DEF Item
    <3> QED  BY <3>1, <3>2
  <2>4. CASE ~(queue[i].asks /\ queue[i].id = r.id /\ queue[i].of = r.ws)
    <3>1. queue'[i] = queue[i]
      BY <1>0, <1>6, <2>2, <2>4 DEF ResolveWorkItem
    <3> QED  BY <1>1, <1>6, <2>2, <2>4, <3>1
  <2> QED  BY <2>3, <2>4
<1> QED  BY <1>2, <1>3, <1>4, <1>5, <1>6 DEF QueueStep

(* An item that waits for settings has a request the client has not        *)
(* answered yet (attach_configuration_request and resolve_wi): no answer   *)
(* is consumed without unblocking its item.                                *)
THEOREM AskedAreOutstanding == Spec => []AskedIsOutstanding
<1>1. Init => AskedIsOutstanding
  BY DEF Init, AskedIsOutstanding, NewItem
<1>2. TypeOK /\ TypeOK' /\ AskedIsOutstanding /\ [Next]_vars => AskedIsOutstanding'
  BY EveryQueueStep, AskedStep
<1> QED  BY <1>1, <1>2, TypeCorrect, PTL DEF Spec

-----------------------------------------------------------------------------
(* No reparse is forgotten.                                                *)

LEMMA HalvesStep ==
  ASSUME TypeOK, TypeOK', HalvesAdjacent, QueueStep
  PROVE  HalvesAdjacent'
<1>0. /\ queue \in Seq(Item) /\ queue' \in Seq(Item) /\ Len(queue) \in Nat
      /\ DOMAIN queue = 1..Len(queue) /\ DOMAIN queue' = 1..Len(queue')
  BY DEF TypeOK, ManagerTypeOK
<1>1. Halves(queue)
  BY DEF HalvesAdjacent
<1> SUFFICES Halves(queue')
  BY DEF HalvesAdjacent
<1>2. ASSUME NEW s \in Seq(Item), NEW t \in Seq(Item), NEW k \in {0, 1}, SameItems(s, t, k),
             Halves(t)
      PROVE  Halves(s)
  <2> SUFFICES ASSUME NEW i \in DOMAIN s, s[i].kind = "apply"
               PROVE  /\ i + 1 \in DOMAIN s
                      /\ s[i + 1].kind = "mark" /\ s[i + 1].of = s[i].of
                      /\ s[i + 1].edit = s[i].edit /\ s[i].edit # "none"
                      /\ s[i].edit = "change" => s[i + 1].changed
    BY DEF Halves
  <2>1. /\ i \in DOMAIN t /\ DOMAIN s = DOMAIN t
        /\ s[i].kind = t[i].kind /\ s[i].of = t[i].of /\ s[i].edit = t[i].edit
    BY <1>2 DEF SameItems
  <2>2. /\ i + 1 \in DOMAIN t
        /\ t[i + 1].kind = "mark" /\ t[i + 1].of = t[i].of
        /\ t[i + 1].edit = t[i].edit /\ t[i].edit # "none"
        /\ t[i].edit = "change" => t[i + 1].changed
    BY <1>2, <2>1 DEF Halves
  <2>3. /\ s[i + 1].kind = t[i + 1].kind /\ s[i + 1].of = t[i + 1].of
        /\ s[i + 1].edit = t[i + 1].edit /\ s[i + 1].changed = t[i + 1].changed
    BY <1>2, <2>1, <2>2 DEF SameItems
  <2> QED  BY <2>1, <2>2, <2>3
<1>3. CASE SameItems(queue', queue, 0)
  BY <1>0, <1>1, <1>2, <1>3
<1>4. CASE queue # <<>> /\ SameItems(queue', Tail(queue), 1)
  <2> DEFINE t == Tail(queue)
  <2>1. /\ t \in Seq(Item) /\ DOMAIN t = 1..Len(t) /\ Len(t) = Len(queue) - 1
        /\ \A i \in 1..Len(t) : t[i] = queue[i + 1]
    BY <1>0, <1>4
  <2> HIDE DEF t
  <2>2. Halves(t)
    <3> SUFFICES ASSUME NEW i \in DOMAIN t, t[i].kind = "apply"
                 PROVE  /\ i + 1 \in DOMAIN t
                        /\ t[i + 1].kind = "mark" /\ t[i + 1].of = t[i].of
                        /\ t[i + 1].edit = t[i].edit /\ t[i].edit # "none"
                        /\ t[i].edit = "change" => t[i + 1].changed
      BY DEF Halves
    <3>1. i + 1 \in DOMAIN queue /\ t[i] = queue[i + 1]
      BY <1>0, <2>1
    <3>2. /\ (i + 1) + 1 \in DOMAIN queue
          /\ queue[(i + 1) + 1].kind = "mark" /\ queue[(i + 1) + 1].of = queue[i + 1].of
          /\ queue[(i + 1) + 1].edit = queue[i + 1].edit /\ queue[i + 1].edit # "none"
          /\ queue[i + 1].edit = "change" => queue[(i + 1) + 1].changed
      BY <1>1, <3>1 DEF Halves
    <3>3. i + 1 \in DOMAIN t /\ t[i + 1] = queue[(i + 1) + 1]
      BY <1>0, <2>1, <3>2
    <3> QED  BY <3>1, <3>2, <3>3
  <2> QED  BY <1>0, <1>2, <1>4, <2>1, <2>2 DEF t
<1>5. ASSUME NEW u \in Seq(Item), queue' = queue \o u, Halves(u)
      PROVE  Halves(queue')
  <2>1. /\ Len(queue') = Len(queue) + Len(u) /\ Len(u) \in Nat /\ DOMAIN u = 1..Len(u)
        /\ \A i \in 1..Len(queue) : queue'[i] = queue[i]
        /\ \A i \in 1..Len(u) : queue'[Len(queue) + i] = u[i]
    BY <1>0, <1>5, ConcatProperties
  <2> SUFFICES ASSUME NEW i \in DOMAIN queue', queue'[i].kind = "apply"
               PROVE  /\ i + 1 \in DOMAIN queue'
                      /\ queue'[i + 1].kind = "mark" /\ queue'[i + 1].of = queue'[i].of
                      /\ queue'[i + 1].edit = queue'[i].edit /\ queue'[i].edit # "none"
                      /\ queue'[i].edit = "change" => queue'[i + 1].changed
    BY DEF Halves
  <2>2. CASE i \in 1..Len(queue)
    <3>1. queue'[i] = queue[i]
      BY <2>1, <2>2
    <3>2. i + 1 \in 1..Len(queue)
      BY <1>0, <1>1, <2>2, <3>1 DEF Halves
    <3>3. queue'[i + 1] = queue[i + 1] /\ i + 1 \in DOMAIN queue'
      BY <1>0, <2>1, <3>2
    <3> QED  BY <1>0, <1>1, <2>2, <3>1, <3>3 DEF Halves
  <2>3. CASE i \notin 1..Len(queue)
    <3> DEFINE k == i - Len(queue)
    <3>1. k \in 1..Len(u) /\ i = Len(queue) + k
      BY <1>0, <2>1, <2>3
    <3> HIDE DEF k
    <3>2. queue'[i] = u[k]
      BY <2>1, <3>1
    <3>3. k + 1 \in 1..Len(u)
      BY <1>5, <2>1, <3>1, <3>2 DEF Halves
    <3>4. queue'[i + 1] = u[k + 1] /\ i + 1 \in DOMAIN queue'
      <4>1. i + 1 = Len(queue) + (k + 1)
        BY <1>0, <3>1, <3>3
      <4>2. queue'[Len(queue) + (k + 1)] = u[k + 1]
        BY <2>1, <3>3
      <4> QED  BY <1>0, <2>1, <3>3, <4>1, <4>2
    <3> QED  BY <1>5, <2>1, <3>1, <3>2, <3>4 DEF Halves
  <2> QED  BY <2>2, <2>3
<1>6. ASSUME NEW n \in 0..Len(queue), NEW it \in Item, LastOpen(queue, n), it.kind = "dc",
             queue' = InsertAfter(queue, n, it)
      PROVE  Halves(queue')
  <2>1. /\ Len(queue') = Len(queue) + 1
        /\ \A i \in 1..Len(queue') : queue'[i] = IF i <= n THEN queue[i]
                                                 ELSE IF i = n + 1 THEN it ELSE queue[i - 1]
    BY <1>0, <1>6 DEF InsertAfter
  <2> SUFFICES ASSUME NEW i \in DOMAIN queue', queue'[i].kind = "apply"
               PROVE  /\ i + 1 \in DOMAIN queue'
                      /\ queue'[i + 1].kind = "mark" /\ queue'[i + 1].of = queue'[i].of
                      /\ queue'[i + 1].edit = queue'[i].edit /\ queue'[i].edit # "none"
                      /\ queue'[i].edit = "change" => queue'[i + 1].changed
    BY DEF Halves
  <2>2. i # n + 1 /\ i # n
    <3>1. n # 0 => queue[n].kind = "open"
      BY <1>6 DEF LastOpen
    <3> QED  BY <1>0, <1>6, <2>1, <3>1
  <2> DEFINE k == IF i <= n THEN i ELSE i - 1
  <2>3. k \in DOMAIN queue /\ queue'[i] = queue[k]
    BY <1>0, <2>1, <2>2
  <2>4. k + 1 \in DOMAIN queue
    <3> HIDE DEF k
    <3> QED  BY <1>1, <2>3 DEF Halves
  <2>5. i + 1 \in DOMAIN queue' /\ queue'[i + 1] = queue[k + 1]
    BY <1>0, <2>1, <2>2, <2>4
  <2> HIDE DEF k
  <2> QED  BY <1>1, <2>3, <2>5 DEF Halves
<1>7. ASSUME NEW r \in requests, queue' = ResolveWorkItem(r)
      PROVE  Halves(queue')
  BY <1>0, <1>3, <1>7, ResolveSameItems
<1> QED  BY <1>3, <1>4, <1>5, <1>6, <1>7 DEF QueueStep, Enqueued

(* A due mark stays due when the queue grows or its items are answered.    *)
LEMMA DueKept ==
  ASSUME TypeOK, TypeOK', NEW f, NEW g, Due(f, g),
         \/ SameItems(queue', queue, 0)
         \/ \E u \in Seq(Item) : queue' = queue \o u
         \/ \E n \in 0..Len(queue), it \in Item :
              LastOpen(queue, n) /\ it.kind = "dc" /\ queue' = InsertAfter(queue, n, it)
  PROVE  Due(f, g)'
<1>0. /\ queue \in Seq(Item) /\ queue' \in Seq(Item) /\ Len(queue) \in Nat
      /\ DOMAIN queue = 1..Len(queue) /\ DOMAIN queue' = 1..Len(queue')
  BY DEF TypeOK, ManagerTypeOK
<1>1. PICK i \in 1..Len(queue) :
        /\ queue[i].kind = "mark" /\ queue[i].of = g
        /\ g = f \/ ReachesDependents(queue[i])
        /\ \A j \in 1..i - 1 : queue[j].kind = "dc"
  BY <1>0 DEF Due
<1>2. ASSUME NEW k \in 1..Len(queue'),
             queue'[k].kind = "mark", queue'[k].of = g, g = f \/ ReachesDependents(queue'[k]),
             \A j \in 1..k - 1 : queue'[j].kind = "dc"
      PROVE  Due(f, g)'
  BY <1>0, <1>2 DEF Due
<1>3. CASE SameItems(queue', queue, 0)
  <2>1. Len(queue') = Len(queue)
    BY <1>0, <1>1, <1>3, SameItemsFields
  <2>2. /\ queue'[i].kind = queue[i].kind /\ queue'[i].of = queue[i].of
        /\ queue'[i].edit = queue[i].edit /\ queue'[i].changed = queue[i].changed
    <3>1. i > 0 /\ i \in 1..Len(queue) /\ 0 \in Nat
      OBVIOUS
    <3> QED  BY <1>0, <1>3, <3>1, SameItemsFields
  <2>3. ASSUME NEW j \in 1..i - 1
        PROVE  queue'[j].kind = "dc"
    <3> DEFINE m == Len(queue)
    <3>1. m \in Nat /\ i \in 1..m
      BY <1>0
    <3> HIDE DEF m
    <3>2. j \in 1..m
      BY <3>1
    <3> USE DEF m
    <3> QED  BY <1>0, <1>1, <1>3, <3>2, SameItemsFields
  <2>4. g = f \/ ReachesDependents(queue'[i])
    BY <1>1, <2>2 DEF ReachesDependents
  <2> QED  BY <1>1, <1>2, <2>1, <2>2, <2>3, <2>4
<1>4. ASSUME NEW u \in Seq(Item), queue' = queue \o u
      PROVE  Due(f, g)'
  <2>1. /\ i \in 1..Len(queue') /\ queue'[i] = queue[i]
        /\ \A j \in 1..i - 1 : queue'[j] = queue[j]
    BY <1>0, <1>4
  <2> QED  BY <1>1, <1>2, <2>1
<1>5. ASSUME NEW n \in 0..Len(queue), NEW it \in Item, LastOpen(queue, n), it.kind = "dc",
             queue' = InsertAfter(queue, n, it)
      PROVE  Due(f, g)'
  <2>1. /\ Len(queue') = Len(queue) + 1
        /\ \A k \in 1..Len(queue') : queue'[k] = IF k <= n THEN queue[k]
                                                 ELSE IF k = n + 1 THEN it ELSE queue[k - 1]
    BY <1>0, <1>5 DEF InsertAfter
  <2>2. n = 0 \/ n > i
    <3>1. n # 0 => queue[n].kind = "open"
      BY <1>5 DEF LastOpen
    <3> QED  BY <1>1, <3>1
  <2>3. CASE n = 0
    <3>1. i + 1 \in 1..Len(queue') /\ queue'[i + 1] = queue[i]
      BY <1>0, <2>1, <2>3
    <3>2. \A j \in 1..(i + 1) - 1 : queue'[j].kind = "dc"
      <4> TAKE j \in 1..(i + 1) - 1
      <4>1. CASE j = 1
        BY <1>0, <1>5, <2>1, <2>3, <4>1
      <4>2. CASE j # 1
        <5>1. j - 1 \in 1..i - 1 /\ queue'[j] = queue[j - 1]
          BY <1>0, <2>1, <2>3, <4>2
        <5> QED  BY <1>1, <5>1
      <4> QED  BY <4>1, <4>2
    <3> QED  BY <1>1, <1>2, <3>1, <3>2
  <2>4. CASE n > i
    <3>1. /\ i \in 1..Len(queue') /\ queue'[i] = queue[i]
          /\ \A j \in 1..i - 1 : queue'[j] = queue[j]
      BY <1>0, <2>1, <2>4
    <3> QED  BY <1>1, <1>2, <3>1
  <2> QED  BY <2>2, <2>3, <2>4
<1> QED  BY <1>3, <1>4, <1>5

(* It also stays due when the request of a debug session is executed, and  *)
(* nothing is due while another item is at the head.                       *)
LEMMA DueAtHead ==
  ASSUME TypeOK, TypeOK', queue # <<>>, NEW f, NEW g, Due(f, g)
  PROVE  /\ Head(queue).kind \in {"dc", "mark"}
         /\ Head(queue).kind = "mark" =>
              Head(queue).of = g /\ (g = f \/ ReachesDependents(Head(queue)))
         /\ Head(queue).kind = "dc" /\ queue' = Tail(queue) => Due(f, g)'
<1>0. /\ queue \in Seq(Item) /\ queue' \in Seq(Item) /\ Len(queue) \in Nat
      /\ DOMAIN queue = 1..Len(queue) /\ DOMAIN queue' = 1..Len(queue')
      /\ Head(queue) = queue[1] /\ 1 \in 1..Len(queue)
  BY DEF TypeOK, ManagerTypeOK
<1>1. PICK i \in 1..Len(queue) :
        /\ queue[i].kind = "mark" /\ queue[i].of = g
        /\ g = f \/ ReachesDependents(queue[i])
        /\ \A j \in 1..i - 1 : queue[j].kind = "dc"
  BY <1>0 DEF Due
<1>2. CASE i = 1
  BY <1>0, <1>1, <1>2
<1>3. CASE i # 1
  <2>1. Head(queue).kind = "dc"
    BY <1>0, <1>1, <1>3
  <2>2. ASSUME queue' = Tail(queue)
        PROVE  Due(f, g)'
    <3>1. i - 1 \in 1..Len(queue') /\ queue'[i - 1] = queue[i]
      BY <1>0, <1>3, <2>2
    <3>2. ASSUME NEW j \in 1..(i - 1) - 1
          PROVE  queue'[j].kind = "dc"
      <4>1. queue'[j] = queue[j + 1] /\ j + 1 \in 1..i - 1
        BY <1>0, <1>3, <2>2
      <4> QED  BY <1>1, <4>1
    <3> DEFINE k == i - 1
    <3>3. /\ k \in 1..Len(queue') /\ queue'[k] = queue[i]
          /\ \A j \in 1..k - 1 : queue'[j].kind = "dc"
      BY <3>1, <3>2
    <3> HIDE DEF k
    <3> QED  BY <1>0, <1>1, <3>3 DEF Due
  <2> QED  BY <2>1, <2>2
<1> QED  BY <1>2, <1>3

(* Steps that change no text, no result and take the mark from no opened   *)
(* file keep the invariant when they keep what is due.                     *)
LEMMA StaleKept ==
  ASSUME StaleIsDue, UNCHANGED <<text, results>>,
         opened' \ pending' \subseteq opened \ pending,
         \A f, g : Due(f, g) => Due(f, g)'
  PROVE  StaleIsDue'
<1> SUFFICES ASSUME NEW f \in opened' \ pending', NEW g \in {f} \cup results'[f].deps
             PROVE  results'[f].text[g] = text'[g] \/ Due(f, g)'
  BY DEF StaleIsDue
<1>1. f \in opened \ pending /\ g \in {f} \cup results[f].deps
  OBVIOUS
<1>2. results[f].text[g] = text[g] \/ Due(f, g)
  BY <1>1 DEF StaleIsDue
<1> QED  BY <1>2

(* The first half of a change leaves the second at the head.               *)
LEMMA ApplyStale ==
  ASSUME TypeOK, TypeOK', HalvesAdjacent, StaleIsDue, FinishApply
  PROVE  StaleIsDue'
<1> DEFINE it == Head(queue)
           next == Tail(queue)
<1>0. /\ queue \in Seq(Item) /\ queue' \in Seq(Item) /\ Len(queue) \in Nat
      /\ DOMAIN queue = 1..Len(queue) /\ DOMAIN queue' = 1..Len(queue')
      /\ text \in [File -> Nat] /\ opened \subseteq File /\ results \in [File -> Result]
  BY DEF TypeOK, ManagerTypeOK, ParserTypeOK
<1>1. /\ queue # <<>> /\ it.kind = "apply" /\ UNCHANGED <<opened, pending, results>>
      /\ text' = [text EXCEPT ![it.of] = it.val]
  BY DEF FinishApply, Execute, HeadReady
<1>2. PICK held \in BOOLEAN :
        queue' = IF it.edit = "open"
                 THEN [next EXCEPT ![1].changed = (~held \/ it.val # text[it.of])]
                 ELSE next
  BY DEF FinishApply
<1>3. it = queue[1] /\ 1 \in DOMAIN queue /\ it \in Item
  BY <1>0, <1>1
<1>4. /\ 2 \in DOMAIN queue /\ queue[2].kind = "mark" /\ queue[2].of = it.of
      /\ queue[2].edit = it.edit /\ it.edit # "none"
      /\ it.edit = "change" => queue[2].changed
  <2>1. 1 + 1 = 2
    OBVIOUS
  <2> QED  BY <1>1, <1>3, <2>1 DEF HalvesAdjacent, Halves
<1>5. next \in Seq(Item) /\ 1 \in 1..Len(next) /\ next[1] = queue[2] /\ next[1] \in Item
  BY <1>0, <1>1, <1>4
<1>6. it.edit \in {"open", "change", "close"}
  BY <1>3, <1>4 DEF Item, Edits
<1> HIDE DEF it, next
<1> SUFFICES ASSUME NEW f \in opened' \ pending', NEW g \in {f} \cup results'[f].deps,
                    text'[g] # results'[f].text[g]
             PROVE  Due(f, g)'
  BY DEF StaleIsDue
<1>7. f \in File /\ g \in File
  BY <1>0, <1>1 DEF Result
<1>8. results[f].text[g] = text[g]
  <2>1. results[f].text[g] = text[g] \/ Due(f, g)
    BY <1>1 DEF StaleIsDue
  <2> QED  BY <1>1, <2>1, DueAtHead DEF it
<1>9. g = it.of /\ it.val # text[it.of]
  BY <1>0, <1>1, <1>7, <1>8
<1>10. /\ Len(queue') = Len(next)
       /\ queue'[1].kind = "mark" /\ queue'[1].of = g /\ ReachesDependents(queue'[1])
  <2>1. CASE it.edit = "open"
    <3> DEFINE e == [next[1] EXCEPT !.changed = TRUE]
    <3>1. queue' = [next EXCEPT ![1] = e]
      BY <1>2, <1>9, <2>1
    <3>2. e \in Item /\ e.kind = next[1].kind /\ e.of = next[1].of /\ e.changed = TRUE
      <4>1. e \in Item
        BY <1>5, ChangedItemIsItem, "open" \in Edits DEF Edits
      <4> QED  BY <1>5, <4>1 DEF Item
    <3> HIDE DEF e
    <3>3. Len(queue') = Len(next) /\ queue'[1] = e
      BY <1>5, <3>1, <3>2, ExceptSeq
    <3> QED  BY <1>4, <1>5, <1>9, <3>2, <3>3 DEF ReachesDependents
  <2>2. CASE it.edit # "open"
    BY <1>2, <1>4, <1>5, <1>6, <1>9, <2>2 DEF ReachesDependents
  <2> QED  BY <2>1, <2>2
<1>11. 1 \in DOMAIN queue' /\ \A j \in 1..1 - 1 : FALSE
  BY <1>0, <1>5, <1>10
<1> QED  BY <1>10, <1>11 DEF Due

(* The second half marks every file whose results it has made stale.       *)
LEMMA MarkStale ==
  ASSUME TypeOK, TypeOK', StaleIsDue, FinishMark
  PROVE  StaleIsDue'
<1> DEFINE it == Head(queue)
<1>0. opened \subseteq File /\ results \in [File -> Result]
  BY DEF TypeOK, ParserTypeOK
<1>1. /\ queue # <<>> /\ it.kind = "mark" /\ text' = text
      /\ (it.edit # "close" /\ MarkForParsing(it)) \/ (it.edit = "close" /\ CloseFile(it.of))
  BY DEF FinishMark, Execute, HeadReady
<1>2. ASSUME NEW f \in opened \ pending, NEW g \in {f} \cup results[f].deps, Due(f, g)
      PROVE  g = it.of /\ (g = f \/ ReachesDependents(it))
  BY <1>1, <1>2, DueAtHead
<1> HIDE DEF it
<1> SUFFICES ASSUME NEW f \in opened' \ pending', NEW g \in {f} \cup results'[f].deps
             PROVE  results'[f].text[g] = text'[g]
  BY DEF StaleIsDue
<1>3. CASE it.edit # "close" /\ MarkForParsing(it)
  <2>1. f \in opened \ pending /\ f # it.of /\ results' = results
    BY <1>3 DEF MarkForParsing
  <2>2. results[f].text[g] = text[g] \/ Due(f, g)
    BY <2>1 DEF StaleIsDue
  <2>3. ASSUME Due(f, g)
        PROVE  FALSE
    <3>1. g = it.of /\ g # f /\ it.changed
      BY <1>2, <1>3, <2>1, <2>3 DEF ReachesDependents
    <3>2. f \in Dependents(it.of)
      BY <2>1, <3>1 DEF Dependents
    <3> QED  BY <1>3, <3>1, <3>2 DEF MarkForParsing
  <2> QED  BY <1>1, <2>1, <2>2, <2>3
<1>4. CASE it.edit = "close" /\ CloseFile(it.of)
  <2>1. f \in opened \ pending /\ f # it.of /\ f \in File
    BY <1>0, <1>4 DEF CloseFile
  <2>2. results'[f] = results[f]
    BY <1>0, <1>4, <2>1 DEF CloseFile
  <2>3. results[f].text[g] = text[g] \/ Due(f, g)
    BY <2>1, <2>2 DEF StaleIsDue
  <2>4. ASSUME Due(f, g)
        PROVE  results[f].text[g] = text[g]
    <3>1. g = it.of /\ g \in results[f].deps
      BY <1>2, <2>1, <2>2, <2>4
    <3>2. f \in Dependents(it.of) \ {it.of}
      BY <2>1, <3>1 DEF Dependents
    <3> QED  BY <1>4, <2>1, <3>1, <3>2 DEF CloseFile
  <2> QED  BY <1>1, <2>2, <2>3, <2>4
<1> QED  BY <1>1, <1>3, <1>4

(* A step that keeps texts and results, unmarks no opened file and keeps   *)
(* what is due.                                                            *)
LEMMA QuietStep ==
  ASSUME TypeOK, TypeOK', StaleIsDue, UNCHANGED <<text, results>>,
         opened' \ pending' \subseteq opened \ pending,
         \/ SameItems(queue', queue, 0)
         \/ \E u \in Seq(Item) : queue' = queue \o u
         \/ \E n \in 0..Len(queue), it \in Item :
              LastOpen(queue, n) /\ it.kind = "dc" /\ queue' = InsertAfter(queue, n, it)
  PROVE  StaleIsDue'
<1>1. \A f, g : Due(f, g) => Due(f, g)'
  BY DueKept
<1> QED  BY <1>1, StaleKept

(* Executing an item that is not part of a document change.                *)
LEMMA OtherItemStale ==
  ASSUME TypeOK, TypeOK', ParsesOpenedFiles, StaleIsDue,
         FinishOpen \/ FinishSettings \/ FinishClose \/ FinishQuery \/ FinishDc
  PROVE  StaleIsDue'
<1>1. /\ queue # <<>> /\ queue' = Tail(queue) /\ Head(queue).kind # "mark"
      /\ UNCHANGED <<text, results, opened>>
      /\ pending' = pending \/ pending' = opened
  BY DEF FinishOpen, FinishSettings, FinishClose, FinishQuery, FinishDc, Execute, HeadReady,
         Finished
<1>2. \A f, g : Due(f, g) => Due(f, g)'
  BY <1>1, DueAtHead
<1>3. opened' \ pending' \subseteq opened \ pending
  BY <1>1
<1> QED  BY <1>1, <1>2, <1>3, StaleKept

(* The results of a finished parse are current.                            *)
LEMMA ParseDoneStale ==
  ASSUME TypeOK, TypeOK', ParsesOpenedFiles, ReadIsCurrent, StaleIsDue, ParseDone
  PROVE  StaleIsDue'
<1>0. /\ opened \subseteq File /\ pending \subseteq File /\ results \in [File -> Result]
      /\ active.file \in File
  BY DEF TypeOK, ParserTypeOK, ParsesOpenedFiles, ParseDone
<1>1. /\ text' = text /\ opened' = opened /\ pending' = pending \ {active.file}
      /\ active.read = text /\ ~HeadBlocked /\ ~HeadReady
  BY DEF ParseDone, MayParse, ReadIsCurrent, manager
<1>2. PICK d : results' = [results EXCEPT ![active.file] =
                             [text |-> active.read, ws |-> active.ws, cfg |-> active.cfg, deps |-> d]]
  BY DEF ParseDone
<1>3. ASSUME NEW f, NEW g, Due(f, g)
      PROVE  FALSE
  <2>1. queue # <<>>
    BY <1>3 DEF Due, TypeOK, ManagerTypeOK
  <2>2. Head(queue).kind \in {"dc", "mark"}
    BY <1>3, <2>1, DueAtHead
  <2> QED  BY <1>1, <2>1, <2>2 DEF HeadReady
<1> SUFFICES ASSUME NEW f \in opened' \ pending', NEW g \in {f} \cup results'[f].deps
             PROVE  results'[f].text[g] = text'[g]
  BY DEF StaleIsDue
<1>4. CASE f = active.file
  BY <1>0, <1>1, <1>2, <1>4
<1>5. CASE f # active.file
  <2>1. results'[f] = results[f] /\ f \in opened \ pending
    BY <1>0, <1>1, <1>2, <1>5
  <2> QED  BY <1>1, <1>3, <2>1 DEF StaleIsDue
<1> QED  BY <1>4, <1>5

LEMMA StaleStep ==
  ASSUME TypeOK, TypeOK', ParsesOpenedFiles, MarkedInv, [Next]_vars
  PROVE  StaleIsDue'
<1>0. queue \in Seq(Item) /\ StaleIsDue /\ HalvesAdjacent /\ ReadIsCurrent
  BY DEF TypeOK, ManagerTypeOK, MarkedInv
<1>1. CASE queue' = queue /\ UNCHANGED <<text, results, opened, pending>>
  <2>1. SameItems(queue', queue, 0)
    BY <1>0, <1>1, SameItemsReflexive
  <2> QED  BY <1>0, <1>1, <2>1, QuietStep
<1>2. CASE ClientStep
  <2>1. /\ loop # "idle" /\ UNCHANGED <<text, results, opened>>
        /\ opened' \ pending' \subseteq opened \ pending
    BY <1>2 DEF ClientStep, DidOpenFile, DidChangeFile, DidCloseFile, ReceiveDocument, Receive,
                HandleRequest, CancelRequest, AddWorkspace, RemoveWorkspace,
                ConfigurationChanged, ConfigurationAnswer, ProvideDebuggerConfiguration,
                InvalidateExternalConfiguration, Wakeup, parser, manager
  <2>2. QueueStep
    BY <1>2, MessageQueueStep
  <2>3. \A r : SameItems(ResolveWorkItem(r), queue, 0)
    BY <1>0, ResolveSameItems
  <2>4. \/ SameItems(queue', queue, 0)
        \/ \E u \in Seq(Item) : queue' = queue \o u
        \/ \E n \in 0..Len(queue), it \in Item :
             LastOpen(queue, n) /\ it.kind = "dc" /\ queue' = InsertAfter(queue, n, it)
    BY <2>1, <2>2, <2>3 DEF QueueStep
  <2> QED  BY <1>0, <2>1, <2>4, QuietStep
<1>3. CASE SuspendHead
  <2>1. UNCHANGED <<text, results>> /\ opened' \ pending' \subseteq opened \ pending
    BY <1>3 DEF SuspendHead
  <2> QED  BY <1>0, <1>3, <2>1, SuspendSameItems, QuietStep
<1>4. CASE FinishHead
  BY <1>0, <1>4, OtherItemStale, ApplyStale, MarkStale DEF FinishHead
<1>5. CASE ParseDone
  BY <1>0, <1>5, ParseDoneStale
<1>6. CASE \/ ParseConfigure \/ (\E f \in File : ParseBegin(f)) \/ UNCHANGED vars
           \/ StartIdle \/ WaitForAnswer \/ ParsePause \/ ParsingDone \/ IdleReturn
  BY <1>1, <1>6 DEF ParseConfigure, ParseBegin, StartIdle, WaitForAnswer, ParsePause,
                    ParsingDone, IdleReturn, vars, manager, parser
<1> QED  BY <1>2, <1>3, <1>4, <1>5, <1>6 DEF Next, IdleStep, ParseStep

LEMMA ReadStep ==
  ASSUME TypeOK, ReadIsCurrent, [Next]_vars
  PROVE  ReadIsCurrent'
<1> USE DEF ReadIsCurrent
<1>1. CASE UNCHANGED <<active, text>>
  BY <1>1
<1>2. CASE active' = NoTask
  BY <1>2 DEF NoTask
<1>3. CASE ParseConfigure
  <2>1. active \in Task /\ text' = text
    BY <1>3 DEF ParseConfigure, manager, TypeOK, ParserTypeOK
  <2>2. \A c : /\ [active EXCEPT !.stage = "parse", !.cfg = c, !.read = text].read = text
               /\ [active EXCEPT !.stage = "parse", !.read = text].read = text
    BY <2>1 DEF Task
  <2> QED  BY <1>3, <2>1, <2>2 DEF ParseConfigure
<1>4. ASSUME NEW f \in File, ParseBegin(f)
      PROVE  ReadIsCurrent'
  BY <1>4 DEF ParseBegin, NoTask
<1>5. CASE ClientStep
  <2>1. UNCHANGED <<active, text>>
    BY <1>5 DEF ClientStep, DidOpenFile, DidChangeFile, DidCloseFile, ReceiveDocument,
                HandleRequest, CancelRequest, AddWorkspace, RemoveWorkspace,
                ConfigurationChanged, ConfigurationAnswer, ProvideDebuggerConfiguration,
                InvalidateExternalConfiguration, Wakeup, parser, manager
  <2> QED  BY <1>1, <2>1
<1>6. CASE FinishHead \/ SuspendHead
  <2>1. UNCHANGED <<active, text>> \/ active' = NoTask
    BY <1>6 DEF FinishHead, FinishOpen, FinishSettings, FinishClose, FinishApply, FinishMark,
                FinishQuery, FinishDc, FileChange, NoFileChange, SuspendHead
  <2> QED  BY <1>1, <1>2, <2>1
<1>7. CASE ParseDone
  BY <1>2, <1>7 DEF ParseDone
<1>8. CASE \/ UNCHANGED vars
           \/ StartIdle \/ WaitForAnswer \/ ParsePause \/ ParsingDone \/ IdleReturn
  BY <1>1, <1>8 DEF StartIdle, WaitForAnswer, ParsePause, ParsingDone, IdleReturn,
                    vars, manager, parser
<1> QED  BY <1>3, <1>4, <1>5, <1>6, <1>7, <1>8 DEF Next, IdleStep, ParseStep

LEMMA MarkedInvariant == Spec => []MarkedInv
<1>1. Init => MarkedInv
  BY DEF Init, MarkedInv, HalvesAdjacent, Halves, NewItem, ReadIsCurrent, NoTask, StaleIsDue
<1>2. /\ TypeOK /\ TypeOK' /\ ParsesOpenedFiles
      /\ MarkedInv /\ [Next]_vars
      => MarkedInv'
  BY EveryQueueStep, HalvesStep, ReadStep, StaleStep DEF MarkedInv
<1> QED  BY <1>1, <1>2, TypeCorrect, ParsesOnlyOpened, PTL DEF Spec

(* When the results of an opened file are stale, the file is marked in     *)
(* m_parsing_pending or the item that marks it is due: no message, no item *)
(* and no end of a parse loses the need to parse a file again.             *)
THEOREM NoReparseForgotten == Spec => []StaleIsMarked
<1>1. MarkedInv => StaleIsMarked
  BY DEF MarkedInv, StaleIsDue, StaleIsMarked, Due, MarkDue
<1> QED  BY <1>1, MarkedInvariant, PTL

-----------------------------------------------------------------------------
(* Queries and their items.                                                *)

(* A query has an item as long as its response is pending, and only one.   *)
AskedOnce(s) == \A i, j \in DOMAIN s :
                  s[i].kind = "query" /\ s[j].kind = "query" /\ s[i].of = s[j].of => i = j
HasItem(s, q) == \E i \in DOMAIN s : s[i].kind = "query" /\ s[i].of = q
QueriesAsked == /\ AskedOnce(queue)
                /\ \A q \in Query : response[q] = "pending" <=> HasItem(queue, q)

(* Items of queries are about queries.                                     *)
LEMMA QueryItem ==
  ASSUME NEW it \in Item, it.kind = "query"
  PROVE  it.of \in Query
<1>1. Subject["query"] = Query
  BY DEF Subject, Kinds
<1> QED  BY <1>1, ItemFields

LEMMA SameQueries ==
  ASSUME NEW s \in Seq(Item), NEW t \in Seq(Item), NEW n \in Nat, SameItems(s, t, n)
  PROVE  /\ AskedOnce(t) => AskedOnce(s)
         /\ \A q : HasItem(s, q) <=> HasItem(t, q)
<1>1. DOMAIN s = DOMAIN t /\ \A i \in DOMAIN s : s[i].kind = t[i].kind /\ s[i].of = t[i].of
  BY DEF SameItems
<1> QED  BY <1>1 DEF AskedOnce, HasItem

LEMMA QueriesStep ==
  ASSUME TypeOK, TypeOK', QueriesAsked, QueueStep
  PROVE  QueriesAsked'
<1>0. /\ queue \in Seq(Item) /\ queue' \in Seq(Item) /\ Len(queue) \in Nat
      /\ DOMAIN queue = 1..Len(queue) /\ DOMAIN queue' = 1..Len(queue')
      /\ response \in [Query -> {"new", "pending", "answered", "canceled"}]
  BY DEF TypeOK, ManagerTypeOK
<1>1. ASSUME response' = response, AskedOnce(queue'),
             \A q : HasItem(queue', q) <=> HasItem(queue, q)
      PROVE  QueriesAsked'
  BY <1>1 DEF QueriesAsked
<1>2. CASE response' = response /\ SameItems(queue', queue, 0)
  BY <1>0, <1>1, <1>2, SameQueries DEF QueriesAsked
<1>3. CASE queue # <<>> /\ SameItems(queue', Tail(queue), 1) /\ Executed(Head(queue))
  <2> DEFINE t == Tail(queue)
  <2>1. /\ t \in Seq(Item) /\ DOMAIN t = 1..Len(t) /\ Len(t) = Len(queue) - 1
        /\ \A i \in 1..Len(t) : t[i] = queue[i + 1]
        /\ Head(queue) = queue[1] /\ 1 \in DOMAIN queue
    BY <1>0, <1>3
  <2> HIDE DEF t
  <2>2. AskedOnce(t)
    <3> SUFFICES ASSUME NEW i \in DOMAIN t, NEW j \in DOMAIN t,
                        t[i].kind = "query", t[j].kind = "query", t[i].of = t[j].of
                 PROVE  i = j
      BY DEF AskedOnce
    <3>1. i + 1 \in DOMAIN queue /\ j + 1 \in DOMAIN queue /\ t[i] = queue[i + 1] /\ t[j] = queue[j + 1]
      BY <1>0, <2>1
    <3>2. i + 1 = j + 1
      BY <3>1 DEF QueriesAsked, AskedOnce
    <3> QED  BY <2>1, <3>2
  <2>3. ASSUME NEW q
        PROVE  HasItem(t, q) <=> (HasItem(queue, q) /\ ~(Head(queue).kind = "query" /\ Head(queue).of = q))
    <3>1. ASSUME HasItem(t, q)
          PROVE  HasItem(queue, q) /\ ~(Head(queue).kind = "query" /\ Head(queue).of = q)
      <4>1. PICK i \in DOMAIN t : t[i].kind = "query" /\ t[i].of = q
        BY <3>1 DEF HasItem
      <4>2. i + 1 \in DOMAIN queue /\ t[i] = queue[i + 1] /\ i + 1 # 1
        BY <1>0, <2>1
      <4> QED  BY <2>1, <4>1, <4>2 DEF HasItem, QueriesAsked, AskedOnce
    <3>2. ASSUME HasItem(queue, q), ~(Head(queue).kind = "query" /\ Head(queue).of = q)
          PROVE  HasItem(t, q)
      <4>1. PICK i \in DOMAIN queue : queue[i].kind = "query" /\ queue[i].of = q
        BY <3>2 DEF HasItem
      <4>2. i # 1
        BY <2>1, <3>2, <4>1
      <4>3. i - 1 \in DOMAIN t /\ t[i - 1] = queue[i]
        BY <1>0, <2>1, <4>2
      <4> QED  BY <4>1, <4>3 DEF HasItem
    <3> QED  BY <3>1, <3>2
  <2>4. AskedOnce(queue') /\ \A q : HasItem(queue', q) <=> HasItem(t, q)
    <3>1. SameItems(queue', t, 1)
      BY <1>3 DEF t
    <3> QED  BY <1>0, <2>1, <2>2, <3>1, SameQueries
  <2>5. CASE Head(queue).kind # "query"
    BY <1>1, <1>3, <2>3, <2>4, <2>5 DEF Executed
  <2>6. CASE Head(queue).kind = "query"
    <3>1. Head(queue).of \in Query
      BY <1>0, <1>3, <2>6, QueryItem
    <3>2. PICK x \in {"answered", "canceled"} : response' = [response EXCEPT ![Head(queue).of] = x]
      BY <1>3, <2>6 DEF Executed
    <3>3. \A q \in Query : response'[q] = IF q = Head(queue).of THEN x ELSE response[q]
      BY <1>0, <3>2
    <3> QED  BY <2>3, <2>4, <2>6, <3>3 DEF QueriesAsked
  <2> QED  BY <2>5, <2>6
<1>4. ASSUME NEW u \in Seq(Item), queue' = queue \o u, Plain(u) \/ Edited(u) \/ Asked(u)
      PROVE  QueriesAsked'
  <2>1. /\ Len(queue') = Len(queue) + Len(u) /\ Len(u) \in Nat /\ DOMAIN u = 1..Len(u)
        /\ \A i \in 1..Len(queue) : queue'[i] = queue[i]
        /\ \A i \in 1..Len(u) : queue'[Len(queue) + i] = u[i]
    BY <1>0, <1>4, ConcatProperties
  <2>2. \A i \in DOMAIN queue' : i \in DOMAIN queue \/ (i - Len(queue) \in DOMAIN u /\ queue'[i] = u[i - Len(queue)])
    BY <1>0, <2>1
  <2>3. CASE \A i \in DOMAIN u : u[i].kind # "query"
    <3>1. \A i \in DOMAIN queue' : queue'[i].kind = "query" => i \in DOMAIN queue /\ queue'[i] = queue[i]
      BY <1>0, <2>1, <2>2, <2>3
    <3>2. \A i \in DOMAIN queue : i \in DOMAIN queue' /\ queue'[i] = queue[i]
      BY <1>0, <2>1
    <3>3. response' = response
      <4>1. ~Asked(u)
        BY <2>1, <2>3 DEF Asked
      <4> QED  BY <1>4, <4>1 DEF Plain, Edited
    <3>4. AskedOnce(queue')
      BY <3>1 DEF QueriesAsked, AskedOnce
    <3>5. \A q : HasItem(queue', q) <=> HasItem(queue, q)
      BY <3>1, <3>2 DEF HasItem
    <3> QED  BY <1>1, <3>3, <3>4, <3>5
  <2>4. CASE Asked(u)
    <3> DEFINE q == u[1].of
               n == Len(queue) + 1
    <3>1. /\ u[1] \in Item /\ u[1].kind = "query" /\ q \in Query /\ n \in DOMAIN queue'
          /\ queue'[n] = u[1] /\ n \notin DOMAIN queue
          /\ \A i \in DOMAIN queue' : i \in DOMAIN queue \/ i = n
          /\ \A i \in DOMAIN queue : i \in DOMAIN queue' /\ queue'[i] = queue[i]
      BY <1>0, <2>1, <2>4, QueryItem DEF Asked
    <3>2. /\ response[q] = "new" /\ response' = [response EXCEPT ![q] = "pending"]
      BY <2>4 DEF Asked
    <3>3. u[1].of = q
      OBVIOUS
    <3> HIDE DEF q, n
    <3>4. ~HasItem(queue, q)
      BY <3>1, <3>2 DEF QueriesAsked
    <3>5. AskedOnce(queue')
      <4> SUFFICES ASSUME NEW i \in DOMAIN queue', NEW j \in DOMAIN queue',
                          queue'[i].kind = "query", queue'[j].kind = "query",
                          queue'[i].of = queue'[j].of
                   PROVE  i = j
        BY DEF AskedOnce
      <4>1. CASE i \in DOMAIN queue /\ j \in DOMAIN queue
        BY <3>1, <4>1 DEF QueriesAsked, AskedOnce
      <4>2. CASE i = n \/ j = n
        BY <3>1, <3>3, <3>4, <4>2 DEF HasItem
      <4> QED  BY <3>1, <4>1, <4>2
    <3>6. \A p : HasItem(queue', p) <=> (HasItem(queue, p) \/ p = q)
      BY <3>1, <3>3 DEF HasItem
    <3>7. \A p \in Query : response'[p] = IF p = q THEN "pending" ELSE response[p]
      BY <1>0, <3>2
    <3> QED  BY <3>5, <3>6, <3>7 DEF QueriesAsked
  <2>5. CASE Plain(u) \/ Edited(u)
    <3>1. \A i \in DOMAIN u : u[i].kind # "query"
      BY <2>1, <2>5 DEF Plain, Edited
    <3> QED  BY <2>3, <3>1
  <2> QED  BY <1>4, <2>4, <2>5
<1>5. ASSUME NEW n \in 0..Len(queue), NEW it \in Item, queue' = InsertAfter(queue, n, it),
             it.kind = "dc", response' = response
      PROVE  QueriesAsked'
  <2> DEFINE from == [i \in DOMAIN queue' |-> IF i <= n THEN i ELSE i - 1]
             to == [i \in DOMAIN queue |-> IF i <= n THEN i ELSE i + 1]
  <2>1. /\ Len(queue') = Len(queue) + 1
        /\ \A i \in 1..Len(queue') : queue'[i] = IF i <= n THEN queue[i]
                                                 ELSE IF i = n + 1 THEN it ELSE queue[i - 1]
    BY <1>0, <1>5 DEF InsertAfter
  <2>2. ASSUME NEW i \in DOMAIN queue', queue'[i].kind = "query"
        PROVE  from[i] \in DOMAIN queue /\ queue[from[i]] = queue'[i] /\ to[from[i]] = i
    <3>1. i # n + 1
      BY <1>0, <1>5, <2>1, <2>2
    <3> QED  BY <1>0, <2>1, <3>1
  <2>3. \A i \in DOMAIN queue : to[i] \in DOMAIN queue' /\ queue'[to[i]] = queue[i]
    BY <1>0, <2>1
  <2> HIDE DEF from, to
  <2>4. AskedOnce(queue') /\ \A q : HasItem(queue', q) <=> HasItem(queue, q)
    <3>1. ASSUME NEW i \in DOMAIN queue', NEW j \in DOMAIN queue',
                 queue'[i].kind = "query", queue'[j].kind = "query", queue'[i].of = queue'[j].of
          PROVE  i = j
      <4>1. /\ from[i] \in DOMAIN queue /\ queue[from[i]] = queue'[i] /\ to[from[i]] = i
            /\ from[j] \in DOMAIN queue /\ queue[from[j]] = queue'[j] /\ to[from[j]] = j
        BY <2>2, <3>1
      <4>2. from[i] = from[j]
        BY <3>1, <4>1 DEF QueriesAsked, AskedOnce
      <4> QED  BY <4>1, <4>2
    <3>2. ASSUME NEW q
          PROVE  HasItem(queue', q) <=> HasItem(queue, q)
      BY <2>2, <2>3 DEF HasItem
    <3> QED  BY <3>1, <3>2 DEF AskedOnce
  <2> QED  BY <1>1, <1>5, <2>4
<1>6. ASSUME NEW r \in requests, queue' = ResolveWorkItem(r), response' = response
      PROVE  QueriesAsked'
  BY <1>0, <1>2, <1>6, ResolveSameItems
<1> QED  BY <1>2, <1>3, <1>4, <1>5, <1>6 DEF QueueStep, Enqueued

(* Each query is answered once: it has exactly one item while its response *)
(* is pending (handle_request, cancel_request_handler and the response     *)
(* handle of the query's item), and none before and after.                 *)
THEOREM OneResponseEach == Spec => []OneResponse
<1>1. Init => QueriesAsked
  BY DEF Init, QueriesAsked, AskedOnce, HasItem, NewItem
<1>2. TypeOK /\ TypeOK' /\ QueriesAsked /\ [Next]_vars => QueriesAsked'
  BY EveryQueueStep, QueriesStep
<1>3. TypeOK /\ QueriesAsked => OneResponse
  <2> SUFFICES ASSUME TypeOK, QueriesAsked, NEW q \in Query
               PROVE  Cardinality(QueryItems(q)) = (IF response[q] = "pending" THEN 1 ELSE 0)
    BY DEF OneResponse
  <2>1. CASE response[q] = "pending"
    <3>1. PICK i \in DOMAIN queue : queue[i].kind = "query" /\ queue[i].of = q
      BY <2>1 DEF QueriesAsked, HasItem
    <3>2. QueryItems(q) = {i}
      BY <3>1 DEF QueryItems, QueriesAsked, AskedOnce
    <3> QED  BY <2>1, <3>2, FS_Singleton
  <2>2. CASE response[q] # "pending"
    <3>1. QueryItems(q) = {}
      BY <2>2 DEF QueryItems, QueriesAsked, HasItem
    <3> QED  BY <2>2, <3>1, FS_EmptySet
  <2> QED  BY <2>1, <2>2
<1> QED  BY <1>1, <1>2, <1>3, TypeCorrect, PTL DEF Spec

-----------------------------------------------------------------------------
(* What the items still in the queue will make of texts and documents.     *)

(* The last of the first n items of s that is in S is in V; when none is,  *)
(* what V leads to is so already (now = v).                                *)
LastIs(s, n, S, V, now, v) ==
  \/ \E j \in 1..n : s[j] \in V /\ \A k \in j + 1..n : s[k] \notin S
  \/ now = v /\ \A k \in 1..n : s[k] \notin S

(* The items that write the text of g, and those that make it v.           *)
Writes(g) == {it \in Item : it.kind = "apply" /\ it.of = g}
WritesOf(g, v) == {it \in Writes(g) : it.val = v}

(* The items that open or close f, and those that do what e says.          *)
Turns(f) == {it \in Item : it.kind = "mark" /\ it.of = f /\ it.edit \in {"open", "close"}}
TurnsTo(f, e) == {it \in Turns(f) : it.edit = e}
Shown(f, D) == IF f \in D THEN "open" ELSE "close"

(* Once the items before a query are executed, the texts are those the     *)
(* editor had when it asked; once all are, they are the editor's.          *)
SentInTurn == \A g \in File :
                LastIs(queue, Len(queue), Writes(g), WritesOf(g, sent[g]), text[g], sent[g])
AskedInTurn == \A i \in DOMAIN queue : queue[i].kind = "query" =>
                 \A g \in File :
                   LastIs(queue, i - 1, Writes(g), WritesOf(g, asked[queue[i].of][g]),
                          text[g], asked[queue[i].of][g])
DocsInTurn == \A f \in File :
                LastIs(queue, Len(queue), Turns(f), TurnsTo(f, Shown(f, docs)),
                       Shown(f, opened), Shown(f, docs))

(* Items that write the same way.                                          *)
LEMMA LastSame ==
  ASSUME NEW s, NEW t, NEW n \in Nat, NEW S, NEW V, NEW now, NEW next, NEW v,
         \A k \in 1..n : t[k] \in V => s[k] \in V,
         \A k \in 1..n : s[k] \in S => t[k] \in S,
         now = v => next = v \/ \E k \in 1..n : t[k] \in S,
         LastIs(t, n, S, V, now, v)
  PROVE  LastIs(s, n, S, V, next, v)
<1>1. CASE \E j \in 1..n : t[j] \in V /\ \A k \in j + 1..n : t[k] \notin S
  <2>1. PICK j \in 1..n : t[j] \in V /\ \A k \in j + 1..n : t[k] \notin S
    BY <1>1
  <2>2. \A k \in j + 1..n : s[k] \notin S
    <3> TAKE k \in j + 1..n
    <3>1. k \in 1..n
      OBVIOUS
    <3> QED  BY <2>1, <3>1
  <2> QED  BY <2>1, <2>2 DEF LastIs
<1>2. CASE now = v /\ \A k \in 1..n : t[k] \notin S
  BY <1>2 DEF LastIs
<1> QED  BY <1>1, <1>2 DEF LastIs

(* Items behind that do not write.                                         *)
LEMMA LastExtended ==
  ASSUME NEW s, NEW n \in Nat, NEW m \in Nat, n <= m, NEW S, NEW V, NEW now, NEW v,
         \A k \in n + 1..m : s[k] \notin S,
         LastIs(s, n, S, V, now, v)
  PROVE  LastIs(s, m, S, V, now, v)
<1>1. \A k \in 1..m : k \in 1..n \/ k \in n + 1..m
  OBVIOUS
<1>2. CASE \E j \in 1..n : s[j] \in V /\ \A k \in j + 1..n : s[k] \notin S
  <2>1. PICK j \in 1..n : s[j] \in V /\ \A k \in j + 1..n : s[k] \notin S
    BY <1>2
  <2>2. j \in 1..m /\ \A k \in j + 1..m : k \in j + 1..n \/ k \in n + 1..m
    OBVIOUS
  <2> QED  BY <2>1, <2>2 DEF LastIs
<1>3. CASE now = v /\ \A k \in 1..n : s[k] \notin S
  BY <1>1, <1>3 DEF LastIs
<1> QED  BY <1>2, <1>3 DEF LastIs

(* An item is put between the items that does not write.                   *)
LEMMA LastInserted ==
  ASSUME NEW s \in Seq(Item), NEW n \in 0..Len(s), NEW it \in Item, NEW m \in 0..Len(s),
         NEW S, NEW V, NEW now, NEW v, it \notin S, LastIs(s, m, S, V, now, v)
  PROVE  /\ m <= n => LastIs(InsertAfter(s, n, it), m, S, V, now, v)
         /\ m >= n => LastIs(InsertAfter(s, n, it), m + 1, S, V, now, v)
<1> DEFINE t == InsertAfter(s, n, it)
           to(i) == IF i <= n THEN i ELSE i + 1
           from(i) == IF i <= n THEN i ELSE i - 1
<1>0. Len(s) \in Nat /\ m \in Nat /\ n \in Nat
  OBVIOUS
<1>1. \A i \in 1..Len(s) + 1 : t[i] = IF i <= n THEN s[i] ELSE IF i = n + 1 THEN it ELSE s[i - 1]
  BY DEF InsertAfter
<1> HIDE DEF t
<1>2. ASSUME m <= n
      PROVE  LastIs(t, m, S, V, now, v)
  <2>1. \A k \in 1..m : t[k] = s[k]
    BY <1>0, <1>1, <1>2
  <2> QED  BY <1>0, <2>1, LastSame
<1>3. ASSUME m >= n
      PROVE  LastIs(t, m + 1, S, V, now, v)
  <2>1. \A i \in 1..m : to(i) \in 1..m + 1 /\ t[to(i)] = s[i]
    BY <1>0, <1>1
  <2>2. \A i \in 1..m + 1 : i = n + 1 \/ (from(i) \in 1..m /\ t[i] = s[from(i)])
    BY <1>0, <1>1, <1>3
  <2>3. t[n + 1] = it
    BY <1>0, <1>1
  <2>4. CASE \E j \in 1..m : s[j] \in V /\ \A k \in j + 1..m : s[k] \notin S
    <3>1. PICK j \in 1..m : s[j] \in V /\ \A k \in j + 1..m : s[k] \notin S
      BY <2>4
    <3>2. ASSUME NEW k \in to(j) + 1..m + 1
          PROVE  t[k] \notin S
      <4>1. CASE k = n + 1
        BY <2>3, <4>1
      <4>2. CASE k # n + 1
        <5>1. k \in Int /\ j \in Int /\ 1 <= j /\ j <= m /\ to(j) + 1 <= k /\ k <= m + 1
          BY <1>0, <3>2
        <5>2. k \in 1..m + 1 /\ from(k) \in j + 1..m
          BY <1>0, <1>3, <4>2, <5>1
        <5> QED  BY <2>2, <3>1, <4>2, <5>2
      <4> QED  BY <4>1, <4>2
    <3>3. to(j) \in 1..m + 1 /\ t[to(j)] \in V
      BY <2>1, <3>1
    <3> HIDE DEF to
    <3> QED  BY <3>2, <3>3 DEF LastIs
  <2>5. CASE now = v /\ \A k \in 1..m : s[k] \notin S
    <3>1. ASSUME NEW k \in 1..m + 1
          PROVE  t[k] \notin S
      <4> HIDE DEF from
      <4> QED  BY <2>2, <2>3, <2>5
    <3> QED  BY <2>5, <3>1 DEF LastIs
  <2> QED  BY <2>4, <2>5 DEF LastIs
<1> QED  BY <1>2, <1>3 DEF t

(* The first item is executed.                                             *)
LEMMA LastExecuted ==
  ASSUME NEW s \in Seq(Item), s # <<>>, NEW n \in 1..Len(s), NEW S, NEW V, V \subseteq S,
         NEW now, NEW next, NEW v,
         s[1] \in V => next = v,
         s[1] \notin S /\ now = v => next = v,
         LastIs(s, n, S, V, now, v)
  PROVE  LastIs(Tail(s), n - 1, S, V, next, v)
<1> DEFINE t == Tail(s)
<1>1. Len(s) \in Nat /\ n \in Nat /\ n - 1 \in Nat /\ \A k \in 1..n - 1 : t[k] = s[k + 1] /\ k + 1 \in 1..n
  OBVIOUS
<1> SUFFICES LastIs(t, n - 1, S, V, next, v)
  OBVIOUS
<1> HIDE DEF t
<1>2. ASSUME \A k \in 2..n : s[k] \notin S, next = v
      PROVE  LastIs(t, n - 1, S, V, next, v)
  <2>1. \A k \in 1..n - 1 : t[k] \notin S
    BY <1>1, <1>2
  <2> QED  BY <1>2, <2>1 DEF LastIs
<1>3. CASE \E j \in 1..n : s[j] \in V /\ \A k \in j + 1..n : s[k] \notin S
  <2>1. PICK j \in 1..n : s[j] \in V /\ \A k \in j + 1..n : s[k] \notin S
    BY <1>3
  <2>2. CASE j = 1
    BY <1>2, <2>1, <2>2
  <2>3. CASE j # 1
    <3>1. j - 1 \in 1..n - 1 /\ t[j - 1] = s[j]
      BY <1>1, <2>3
    <3>2. \A k \in (j - 1) + 1..n - 1 : t[k] \notin S
      <4> TAKE k \in (j - 1) + 1..n - 1
      <4>1. k \in 1..n - 1 /\ k + 1 \in j + 1..n
        BY <1>1, <2>3
      <4> QED  BY <1>1, <2>1, <4>1
    <3> QED  BY <2>1, <3>1, <3>2 DEF LastIs
  <2> QED  BY <2>2, <2>3
<1>4. CASE now = v /\ \A k \in 1..n : s[k] \notin S
  <2>1. 1 \in 1..n /\ \A k \in 2..n : k \in 1..n
    BY <1>1
  <2> QED  BY <1>2, <1>4, <2>1
<1> QED  BY <1>3, <1>4 DEF LastIs

(* The same items write the same.                                          *)
LEMMA SameWrites ==
  ASSUME NEW s \in Seq(Item), NEW t \in Seq(Item), NEW n \in Nat, SameItems(s, t, n),
         NEW k \in 1..Len(t)
  PROVE  \A f, v : /\ s[k] \in Writes(f) <=> t[k] \in Writes(f)
                   /\ s[k] \in WritesOf(f, v) <=> t[k] \in WritesOf(f, v)
                   /\ s[k] \in Turns(f) <=> t[k] \in Turns(f)
                   /\ s[k] \in TurnsTo(f, v) <=> t[k] \in TurnsTo(f, v)
<1>1. s[k] \in Item /\ t[k] \in Item /\ s[k].kind = t[k].kind /\ s[k].of = t[k].of
      /\ s[k].edit = t[k].edit /\ (s[k].kind = "apply" => s[k].val = t[k].val)
  BY DEF SameItems
<1> QED  BY <1>1 DEF Writes, WritesOf, Turns, TurnsTo

LEMMA LastSameItems ==
  ASSUME NEW s \in Seq(Item), NEW t \in Seq(Item), NEW k \in Nat, SameItems(s, t, k),
         NEW n \in 0..Len(t), NEW f, NEW now, NEW v
  PROVE  /\ LastIs(t, n, Writes(f), WritesOf(f, v), now, v)
              => LastIs(s, n, Writes(f), WritesOf(f, v), now, v)
         /\ LastIs(t, n, Turns(f), TurnsTo(f, v), now, v)
              => LastIs(s, n, Turns(f), TurnsTo(f, v), now, v)
<1>1. n \in Nat /\ \A i \in 1..n : i \in 1..Len(t)
  OBVIOUS
<1>2. \A i \in 1..n : /\ s[i] \in Writes(f) <=> t[i] \in Writes(f)
                      /\ s[i] \in WritesOf(f, v) <=> t[i] \in WritesOf(f, v)
                      /\ s[i] \in Turns(f) <=> t[i] \in Turns(f)
                      /\ s[i] \in TurnsTo(f, v) <=> t[i] \in TurnsTo(f, v)
  BY <1>1, SameWrites
<1> QED  BY <1>1, <1>2, LastSame

(* Items enqueued behind.                                                  *)
LEMMA LastPrefix ==
  ASSUME NEW s \in Seq(Item), NEW u \in Seq(Item), NEW n \in 0..Len(s),
         NEW S, NEW V, NEW now, NEW v, LastIs(s, n, S, V, now, v)
  PROVE  /\ LastIs(s \o u, n, S, V, now, v)
         /\ n = Len(s) /\ (\A k \in 1..Len(u) : u[k] \notin S)
              => LastIs(s \o u, Len(s \o u), S, V, now, v)
<1> DEFINE t == s \o u
<1>1. /\ Len(s) \in Nat /\ Len(u) \in Nat /\ n \in Nat /\ Len(t) = Len(s) + Len(u)
      /\ \A i \in 1..Len(s) : t[i] = s[i]
      /\ \A i \in 1..Len(u) : t[Len(s) + i] = u[i]
  BY ConcatProperties
<1> SUFFICES /\ LastIs(t, n, S, V, now, v)
             /\ n = Len(s) /\ (\A k \in 1..Len(u) : u[k] \notin S) => LastIs(t, Len(t), S, V, now, v)
  OBVIOUS
<1> HIDE DEF t
<1>2. LastIs(t, n, S, V, now, v)
  <2>1. \A k \in 1..n : t[k] = s[k]
    BY <1>1
  <2> QED  BY <1>1, <2>1, LastSame
<1>3. ASSUME n = Len(s), \A k \in 1..Len(u) : u[k] \notin S
      PROVE  LastIs(t, Len(t), S, V, now, v)
  <2>1. \A k \in n + 1..Len(t) : t[k] \notin S
    <3> TAKE k \in n + 1..Len(t)
    <3>1. k - Len(s) \in 1..Len(u) /\ t[Len(s) + (k - Len(s))] = u[k - Len(s)]
      BY <1>1, <1>3
    <3>2. Len(s) + (k - Len(s)) = k
      BY <1>1, <1>3
    <3> QED  BY <1>3, <3>1, <3>2
  <2>2. Len(t) \in Nat /\ n <= Len(t)
    BY <1>1, <1>3
  <2> QED  BY <1>1, <1>2, <2>1, <2>2, LastExtended
<1> QED  BY <1>2, <1>3

(* An item is executed: its text is written, or its document turned.       *)
LEMMA ExecutedLast ==
  ASSUME TypeOK, TypeOK', queue # <<>>, SameItems(queue', Tail(queue), 1), Executed(Head(queue)),
         NEW f \in File, NEW v, NEW n \in 1..Len(queue)
  PROVE  /\ LastIs(queue, n, Writes(f), WritesOf(f, v), text[f], v)
              => LastIs(queue', n - 1, Writes(f), WritesOf(f, v), text'[f], v)
         /\ LastIs(queue, n, Turns(f), TurnsTo(f, v), Shown(f, opened), v)
              => LastIs(queue', n - 1, Turns(f), TurnsTo(f, v), Shown(f, opened'), v)
<1> DEFINE t == Tail(queue)
<1>0. /\ queue \in Seq(Item) /\ queue' \in Seq(Item) /\ text \in [File -> Nat]
      /\ t \in Seq(Item) /\ Len(t) = Len(queue) - 1 /\ Head(queue) = queue[1]
      /\ queue[1] \in Item /\ n - 1 \in 0..Len(t)
  BY DEF TypeOK, ManagerTypeOK
<1>1. SameItems(queue', t, 1)
  OBVIOUS
<1>2. /\ queue[1] \in WritesOf(f, v) => text'[f] = v
      /\ queue[1] \notin Writes(f) => text'[f] = text[f]
  BY <1>0 DEF Writes, WritesOf, Executed
<1>3. /\ queue[1] \in TurnsTo(f, v) => Shown(f, opened') = v
      /\ queue[1] \notin Turns(f) => Shown(f, opened') = Shown(f, opened)
  BY <1>0 DEF Turns, TurnsTo, Executed, Shown, Opens
<1>4. WritesOf(f, v) \subseteq Writes(f) /\ TurnsTo(f, v) \subseteq Turns(f)
  BY DEF WritesOf, TurnsTo
<1>5. ASSUME LastIs(queue, n, Writes(f), WritesOf(f, v), text[f], v)
      PROVE  LastIs(queue', n - 1, Writes(f), WritesOf(f, v), text'[f], v)
  <2>1. LastIs(t, n - 1, Writes(f), WritesOf(f, v), text'[f], v)
    BY <1>0, <1>2, <1>4, <1>5, LastExecuted
  <2> HIDE DEF t
  <2> QED  BY <1>0, <1>1, <2>1, LastSameItems
<1>6. ASSUME LastIs(queue, n, Turns(f), TurnsTo(f, v), Shown(f, opened), v)
      PROVE  LastIs(queue', n - 1, Turns(f), TurnsTo(f, v), Shown(f, opened'), v)
  <2>1. LastIs(t, n - 1, Turns(f), TurnsTo(f, v), Shown(f, opened'), v)
    BY <1>0, <1>3, <1>4, <1>6, LastExecuted
  <2> HIDE DEF t
  <2> QED  BY <1>0, <1>1, <2>1, LastSameItems
<1> QED  BY <1>5, <1>6

LEMMA SentStep ==
  ASSUME TypeOK, TypeOK', SentInTurn, QueueStep
  PROVE  SentInTurn'
<1> SUFFICES ASSUME NEW g \in File
             PROVE  LastIs(queue', Len(queue'), Writes(g), WritesOf(g, sent'[g]), text'[g], sent'[g])
  BY DEF SentInTurn
<1>0. /\ queue \in Seq(Item) /\ queue' \in Seq(Item) /\ Len(queue) \in Nat
      /\ Len(queue) \in 0..Len(queue) /\ sent \in [File -> Nat]
  BY DEF TypeOK, ManagerTypeOK, ClientTypeOK
<1>1. LastIs(queue, Len(queue), Writes(g), WritesOf(g, sent[g]), text[g], sent[g])
  BY DEF SentInTurn
<1>2. CASE UNCHANGED <<sent, text>> /\ SameItems(queue', queue, 0)
  <2>1. Len(queue') = Len(queue)
    BY <1>2 DEF SameItems
  <2> QED  BY <1>0, <1>1, <1>2, <2>1, LastSameItems
<1>3. CASE queue # <<>> /\ SameItems(queue', Tail(queue), 1) /\ sent' = sent /\ Executed(Head(queue))
  <2>1. Len(queue) \in 1..Len(queue) /\ Len(queue') = Len(queue) - 1
    BY <1>0, <1>3 DEF SameItems
  <2> QED  BY <1>1, <1>3, <2>1, ExecutedLast
<1>4. ASSUME NEW u \in Seq(Item), queue' = queue \o u, text' = text,
             Plain(u) \/ Edited(u) \/ Asked(u)
      PROVE  LastIs(queue', Len(queue'), Writes(g), WritesOf(g, sent'[g]), text'[g], sent'[g])
  <2>1. CASE Edited(u) /\ u[1].of = g
    <3> DEFINE n == Len(queue) + 1
    <3>1. /\ Len(queue') = n + 1 /\ queue'[n] = u[1] /\ queue'[n + 1] = u[2] /\ u[1] \in Item
          /\ n \in 1..n + 1
      <4>1. Len(u) = 2 /\ 1 \in 1..Len(u) /\ 2 \in 1..Len(u)
        BY <2>1 DEF Edited
      <4>2. /\ Len(queue') = Len(queue) + 2 /\ queue'[Len(queue) + 1] = u[1]
            /\ queue'[Len(queue) + 2] = u[2]
        <5>1. /\ Len(queue') = Len(queue) + Len(u)
              /\ \A k \in 1..Len(u) : queue'[Len(queue) + k] = u[k]
          BY <1>0, <1>4, ConcatProperties
        <5> QED  BY <4>1, <5>1
      <4>3. Len(queue) + 2 = n + 1
        BY <1>0
      <4> QED  BY <1>0, <4>1, <4>2, <4>3
    <3>2. u[1] \in WritesOf(g, sent'[g]) /\ u[2] \notin Writes(g)
      BY <1>0, <2>1, <3>1 DEF Edited, Writes, WritesOf
    <3> HIDE DEF n
    <3>3. \A k \in n + 1..n + 1 : k = n + 1
      BY <3>1
    <3> QED  BY <3>1, <3>2, <3>3 DEF LastIs
  <2>2. CASE ~(Edited(u) /\ u[1].of = g)
    <3>1. sent'[g] = sent[g]
      BY <1>0, <1>4, <2>2 DEF Plain, Edited, Asked
    <3>2. \A k \in 1..Len(u) : u[k] \notin Writes(g)
      BY <1>4, <2>2 DEF Plain, Edited, Asked, Writes
    <3> QED  BY <1>0, <1>1, <1>4, <3>1, <3>2, LastPrefix
  <2> QED  BY <2>1, <2>2
<1>5. ASSUME NEW n \in 0..Len(queue), NEW it \in Item, queue' = InsertAfter(queue, n, it),
             it.kind = "dc", UNCHANGED <<sent, text>>
      PROVE  LastIs(queue', Len(queue'), Writes(g), WritesOf(g, sent'[g]), text'[g], sent'[g])
  <2>1. it \notin Writes(g) /\ Len(queue) >= n
    BY <1>0, <1>5 DEF Writes
  <2>2. Len(queue') = Len(queue) + 1
    BY <1>0, <1>5 DEF InsertAfter
  <2> QED  BY <1>0, <1>1, <1>5, <2>1, <2>2, LastInserted
<1>6. ASSUME NEW r \in requests, queue' = ResolveWorkItem(r), UNCHANGED <<sent, text>>
      PROVE  LastIs(queue', Len(queue'), Writes(g), WritesOf(g, sent'[g]), text'[g], sent'[g])
  BY <1>0, <1>2, <1>6, ResolveSameItems
<1> QED  BY <1>2, <1>3, <1>4, <1>5, <1>6 DEF QueueStep, Enqueued, client

LEMMA AskedTextsStep ==
  ASSUME TypeOK, TypeOK', QueriesAsked, SentInTurn, AskedInTurn, QueueStep
  PROVE  AskedInTurn'
<1> DEFINE Right(s, n, g, a, w) == LastIs(s, n, Writes(g), WritesOf(g, a[g]), w[g], a[g])
<1> SUFFICES ASSUME NEW i \in DOMAIN queue', queue'[i].kind = "query", NEW g \in File
             PROVE  Right(queue', i - 1, g, asked'[queue'[i].of], text')
  BY DEF AskedInTurn
<1>0. /\ queue \in Seq(Item) /\ queue' \in Seq(Item) /\ Len(queue) \in Nat
      /\ DOMAIN queue = 1..Len(queue) /\ DOMAIN queue' = 1..Len(queue')
      /\ asked \in [Query -> [File -> Nat]]
  BY DEF TypeOK, ManagerTypeOK, ClientTypeOK
<1>1. ASSUME NEW j \in DOMAIN queue, queue[j].kind = "query"
      PROVE  Right(queue, j - 1, g, asked[queue[j].of], text)
  BY <1>1 DEF AskedInTurn
<1>2. CASE UNCHANGED <<asked, text>> /\ SameItems(queue', queue, 0)
  <2>1. /\ i \in DOMAIN queue /\ queue[i].kind = "query" /\ queue[i].of = queue'[i].of
        /\ i - 1 \in 0..Len(queue)
    BY <1>0, <1>2 DEF SameItems
  <2> QED  BY <1>0, <1>1, <1>2, <2>1, LastSameItems
<1>3. CASE queue # <<>> /\ SameItems(queue', Tail(queue), 1) /\ asked' = asked /\ Executed(Head(queue))
  <2>1. /\ i + 1 \in DOMAIN queue /\ queue[i + 1].kind = "query" /\ queue[i + 1].of = queue'[i].of
        /\ i \in 1..Len(queue) /\ (i + 1) - 1 = i
    <3>1. /\ Len(Tail(queue)) = Len(queue) - 1 /\ i \in 1..Len(Tail(queue))
          /\ Tail(queue)[i] = queue[i + 1]
      BY <1>0, <1>3 DEF SameItems
    <3> QED  BY <1>0, <1>3, <3>1 DEF SameItems
  <2>2. Right(queue, i, g, asked[queue'[i].of], text)
    BY <1>1, <2>1
  <2> QED  BY <1>3, <2>1, <2>2, ExecutedLast
<1>4. ASSUME NEW u \in Seq(Item), queue' = queue \o u, text' = text,
             Plain(u) \/ Edited(u) \/ Asked(u)
      PROVE  Right(queue', i - 1, g, asked'[queue'[i].of], text')
  <2>1. /\ Len(queue') = Len(queue) + Len(u) /\ Len(u) \in Nat
        /\ \A k \in 1..Len(queue) : queue'[k] = queue[k]
        /\ \A k \in 1..Len(u) : queue'[Len(queue) + k] = u[k]
    BY <1>0, <1>4, ConcatProperties
  <2>2. CASE i <= Len(queue)
    <3>1. /\ i \in DOMAIN queue /\ queue'[i] = queue[i] /\ queue[i].kind = "query"
          /\ i - 1 \in 0..Len(queue) /\ queue[i] \in Item
      BY <1>0, <2>1, <2>2
    <3>2. queue[i].of \in Query /\ response[queue[i].of] = "pending"
      BY <3>1, QueryItem DEF QueriesAsked, HasItem
    <3>3. asked'[queue[i].of] = asked[queue[i].of]
      BY <1>0, <1>4, <3>2 DEF Plain, Edited, Asked
    <3>4. Right(queue, i - 1, g, asked[queue[i].of], text)
      BY <1>1, <3>1
    <3> QED  BY <1>0, <1>4, <3>1, <3>3, <3>4, LastPrefix
  <2>3. CASE i > Len(queue)
    <3>1. i - Len(queue) \in 1..Len(u) /\ queue'[Len(queue) + (i - Len(queue))] = u[i - Len(queue)]
      BY <1>0, <2>1, <2>3
    <3>2. Len(queue) + (i - Len(queue)) = i
      BY <1>0
    <3>3. Asked(u)
      BY <1>4, <3>1, <3>2 DEF Plain, Edited
    <3>4. Len(u) = 1
      BY <3>3 DEF Asked
    <3>5. i = Len(queue) + 1 /\ queue'[i] = u[1] /\ u[1] \in Item
      BY <1>0, <1>4, <2>1, <3>1, <3>2, <3>4
    <3>6. u[1].of \in Query
      BY <3>5, QueryItem
    <3>7. asked'[queue'[i].of] = sent
      BY <1>0, <3>3, <3>5, <3>6 DEF Asked
    <3>8. Right(queue, Len(queue), g, sent, text)
      BY DEF SentInTurn
    <3>9. Len(queue) \in 0..Len(queue) /\ i - 1 = Len(queue)
      BY <1>0, <3>5
    <3> QED  BY <1>0, <1>4, <3>7, <3>8, <3>9, LastPrefix
  <2> QED  BY <1>0, <2>2, <2>3
<1>5. ASSUME NEW n \in 0..Len(queue), NEW it \in Item, queue' = InsertAfter(queue, n, it),
             it.kind = "dc", UNCHANGED <<asked, text>>
      PROVE  Right(queue', i - 1, g, asked'[queue'[i].of], text')
  <2>1. /\ Len(queue') = Len(queue) + 1
        /\ queue'[i] = IF i <= n THEN queue[i] ELSE IF i = n + 1 THEN it ELSE queue[i - 1]
    BY <1>0, <1>5 DEF InsertAfter
  <2>2. it \notin Writes(g)
    BY <1>5 DEF Writes
  <2>3. CASE i <= n
    <3>1. /\ i \in DOMAIN queue /\ queue[i] = queue'[i] /\ i - 1 \in 0..Len(queue) /\ i - 1 <= n
      BY <1>0, <2>1, <2>3
    <3>2. Right(queue, i - 1, g, asked[queue[i].of], text)
      BY <1>1, <3>1
    <3> QED  BY <1>0, <1>5, <2>2, <3>1, <3>2, LastInserted
  <2>4. CASE i > n + 1
    <3> DEFINE m == i - 2
    <3>1. /\ i - 1 \in DOMAIN queue /\ queue[i - 1] = queue'[i]
          /\ m \in 0..Len(queue) /\ m >= n /\ m + 1 = i - 1 /\ (i - 1) - 1 = m
      BY <1>0, <2>1, <2>4
    <3> HIDE DEF m
    <3>2. Right(queue, m, g, asked[queue'[i].of], text)
      BY <1>1, <3>1
    <3> QED  BY <1>0, <1>5, <2>2, <3>1, <3>2, LastInserted
  <2>5. i # n + 1
    BY <1>0, <1>5, <2>1
  <2> QED  BY <1>0, <2>3, <2>4, <2>5
<1>6. ASSUME NEW r \in requests, queue' = ResolveWorkItem(r), UNCHANGED <<asked, text>>
      PROVE  Right(queue', i - 1, g, asked'[queue'[i].of], text')
  BY <1>0, <1>2, <1>6, ResolveSameItems
<1> HIDE DEF Right
<1> QED  BY <1>2, <1>3, <1>4, <1>5, <1>6 DEF QueueStep, Enqueued, client

LEMMA DocsStep ==
  ASSUME TypeOK, TypeOK', DocsInTurn, QueueStep
  PROVE  DocsInTurn'
<1> DEFINE Right(s, f, O, D) ==
             LastIs(s, Len(s), Turns(f), TurnsTo(f, Shown(f, D)), Shown(f, O), Shown(f, D))
<1> SUFFICES ASSUME NEW f \in File
             PROVE  Right(queue', f, opened', docs')
  BY DEF DocsInTurn
<1>0. /\ queue \in Seq(Item) /\ queue' \in Seq(Item) /\ Len(queue) \in Nat
      /\ Len(queue) \in 0..Len(queue)
  BY DEF TypeOK, ManagerTypeOK
<1>1. Right(queue, f, opened, docs)
  BY DEF DocsInTurn
<1>2. ASSUME docs' = docs, SameItems(queue', queue, 0),
             \/ opened' = opened
             \/ /\ queue # <<>> /\ Head(queue).kind = "mark" /\ Head(queue).edit = "close"
                /\ opened' = opened \ {Head(queue).of}
      PROVE  Right(queue', f, opened', docs')
  <2>1. Len(queue') = Len(queue)
    BY <1>2 DEF SameItems
  <2>2. Right(queue', f, opened, docs)
    BY <1>0, <1>1, <1>2, <2>1, LastSameItems
  <2>3. Shown(f, opened') = Shown(f, opened) \/ \E k \in 1..Len(queue') : queue'[k] \in Turns(f)
    <3>1. CASE opened' = opened \/ f # Head(queue).of
      BY <1>2, <3>1 DEF Shown
    <3>2. CASE opened' # opened /\ f = Head(queue).of
      <4>1. 1 \in 1..Len(queue') /\ Head(queue) = queue[1] /\ queue'[1] \in Item
            /\ queue'[1].kind = queue[1].kind /\ queue'[1].of = queue[1].of
            /\ queue'[1].edit = queue[1].edit
        BY <1>0, <1>2, <2>1, <3>2 DEF SameItems
      <4> QED  BY <1>2, <3>2, <4>1 DEF Turns
    <3> QED  BY <3>1, <3>2
  <2> HIDE DEF Shown
  <2>4. Len(queue') \in Nat
    BY <1>0
  <2> QED  BY <1>2, <2>2, <2>3, <2>4, LastSame
<1>3. CASE queue # <<>> /\ SameItems(queue', Tail(queue), 1) /\ docs' = docs /\ Executed(Head(queue))
  <2>1. Len(queue) \in 1..Len(queue) /\ Len(queue') = Len(queue) - 1
    BY <1>0, <1>3 DEF SameItems
  <2> QED  BY <1>1, <1>3, <2>1, ExecutedLast
<1>4. ASSUME NEW u \in Seq(Item), queue' = queue \o u, opened' = opened,
             Plain(u) \/ Edited(u) \/ Asked(u)
      PROVE  Right(queue', f, opened', docs')
  <2>1. CASE Edited(u) /\ u[1].of = f /\ u[2].edit # "change"
    <3> DEFINE n == Len(queue) + 2
    <3>1. Len(queue') = n /\ queue'[n] = u[2] /\ u[2] \in Item /\ n \in 1..n
      <4>1. Len(u) = 2 /\ 2 \in 1..Len(u)
        BY <2>1 DEF Edited
      <4>2. Len(queue') = Len(queue) + 2 /\ queue'[Len(queue) + 2] = u[2]
        <5>1. /\ Len(queue') = Len(queue) + Len(u)
              /\ \A k \in 1..Len(u) : queue'[Len(queue) + k] = u[k]
          BY <1>0, <1>4, ConcatProperties
        <5> QED  BY <4>1, <5>1
      <4> QED  BY <1>0, <4>1, <4>2
    <3>2. u[2] \in TurnsTo(f, Shown(f, docs'))
      BY <2>1, <3>1 DEF Edited, Turns, TurnsTo, Shown, Opens
    <3> HIDE DEF n
    <3>3. \A k \in n + 1..n : FALSE
      BY <3>1
    <3> QED  BY <3>1, <3>2, <3>3 DEF LastIs
  <2>2. CASE ~(Edited(u) /\ u[1].of = f /\ u[2].edit # "change")
    <3>1. Shown(f, docs') = Shown(f, docs)
      BY <1>4, <2>2 DEF Plain, Edited, Asked, Shown, Opens
    <3>2. \A k \in 1..Len(u) : u[k] \notin Turns(f)
      <4>1. CASE Edited(u)
        <5>1. Len(u) = 2 /\ u[1] \notin Turns(f) /\ u[2] \notin Turns(f)
          BY <2>2, <4>1 DEF Edited, Turns
        <5> QED  BY <5>1
      <4>2. CASE Plain(u) \/ Asked(u)
        BY <4>2 DEF Plain, Asked, Turns
      <4> QED  BY <1>4, <4>1, <4>2
    <3> HIDE DEF Shown
    <3> QED  BY <1>0, <1>1, <1>4, <3>1, <3>2, LastPrefix
  <2> QED  BY <2>1, <2>2
<1>5. ASSUME NEW n \in 0..Len(queue), NEW it \in Item, queue' = InsertAfter(queue, n, it),
             it.kind = "dc", UNCHANGED <<docs, opened>>
      PROVE  Right(queue', f, opened', docs')
  <2>1. it \notin Turns(f) /\ Len(queue) >= n
    BY <1>0, <1>5 DEF Turns
  <2>2. Len(queue') = Len(queue) + 1
    BY <1>0, <1>5 DEF InsertAfter
  <2> QED  BY <1>0, <1>1, <1>5, <2>1, <2>2, LastInserted
<1>6. ASSUME NEW r \in requests, queue' = ResolveWorkItem(r), UNCHANGED <<docs, opened>>
      PROVE  Right(queue', f, opened', docs')
  BY <1>0, <1>2, <1>6, ResolveSameItems
<1> HIDE DEF Right
<1> QED  BY <1>2, <1>3, <1>4, <1>5, <1>6 DEF QueueStep, Enqueued, client

-----------------------------------------------------------------------------
(* Parsing done.                                                           *)

(* While parsing_done is set, and when the thread blocks because of it,    *)
(* the results of the opened files are those of their texts.               *)
AllFresh == \A f \in opened : FreshText(f)
ParsedInv == /\ parsingDone => loop = "idle" /\ AllFresh
             /\ loop = "blocked" => queue # <<>> \/ active.stage # "none" \/ AllFresh

LEMMA ParsedStep ==
  ASSUME TypeOK, TypeOK', StaleIsDue, ParsedInv, [Next]_vars
  PROVE  ParsedInv'
<1>0. queue \in Seq(Item) /\ parsingDone \in BOOLEAN
  BY DEF TypeOK, ManagerTypeOK, ThreadTypeOK
<1>1. ASSUME UNCHANGED <<opened, results, text>>, AllFresh
      PROVE  AllFresh'
  BY <1>1 DEF AllFresh, FreshText
<1>2. ASSUME loop' # "blocked", ~parsingDone'
      PROVE  ParsedInv'
  BY <1>2 DEF ParsedInv
<1>3. ASSUME UNCHANGED <<opened, results, text, loop, parsingDone>>, loop = "idle"
      PROVE  ParsedInv'
  BY <1>1, <1>3 DEF ParsedInv
<1>4. CASE UNCHANGED vars
  <2>1. UNCHANGED <<opened, results, text, loop, parsingDone, queue, active>>
    BY <1>4 DEF vars, manager, parser, thread
  <2> QED  BY <1>1, <2>1 DEF ParsedInv
<1>5. CASE ClientStep
  <2>1. loop # "idle" /\ loop' = "drain" /\ parsingDone' = parsingDone
    BY <1>5 DEF ClientStep, DidOpenFile, DidChangeFile, DidCloseFile, ReceiveDocument, Receive,
                HandleRequest, CancelRequest, AddWorkspace, RemoveWorkspace,
                ConfigurationChanged, ConfigurationAnswer, ProvideDebuggerConfiguration,
                InvalidateExternalConfiguration, Wakeup
  <2> QED  BY <1>2, <2>1 DEF ParsedInv
<1>6. CASE StartIdle
  BY <1>2, <1>6 DEF StartIdle
<1>7. CASE WaitForAnswer
  <2>1. queue' # <<>> /\ ~parsingDone'
    BY <1>7 DEF WaitForAnswer, HeadBlocked, manager
  <2> QED  BY <2>1 DEF ParsedInv
<1>8. CASE SuspendHead
  <2>1. queue # <<>> /\ ~parsingDone'
    BY <1>8 DEF SuspendHead, HeadReady
  <2>2. Len(queue') = Len(queue)
    BY <1>8, SuspendSameItems DEF SameItems
  <2>3. queue' # <<>>
    BY <1>0, <2>1, <2>2
  <2> QED  BY <2>1, <2>3 DEF ParsedInv
<1>9. CASE FinishApply \/ FinishMark
  <2>1. loop = "idle" /\ loop' = loop /\ ~parsingDone'
    BY <1>9 DEF FinishApply, FinishMark, FileChange, Finished, Execute
  <2> QED  BY <1>2, <2>1
<1>10. CASE FinishOpen \/ FinishSettings \/ FinishClose \/ FinishQuery \/ FinishDc
  <2>1. UNCHANGED <<opened, results, text, loop, parsingDone>> /\ loop = "idle"
    BY <1>10 DEF FinishOpen, FinishSettings, FinishClose, FinishQuery, FinishDc, NoFileChange,
                 Finished, Execute
  <2> QED  BY <1>3, <2>1
<1>11. CASE ParseConfigure \/ \E f \in File : ParseBegin(f)
  <2>1. UNCHANGED <<opened, results, text, loop, parsingDone>> /\ loop = "idle"
    BY <1>11 DEF ParseConfigure, ParseBegin, MayParse, manager, thread
  <2> QED  BY <1>3, <2>1
<1>12. CASE ParseDone
  <2>1. MayParse /\ UNCHANGED <<loop, parsingDone>>
    BY <1>12 DEF ParseDone, thread
  <2>2. ~parsingDone /\ loop = "idle"
    BY <2>1 DEF MayParse, HeadReady
  <2> QED  BY <1>2, <2>1, <2>2
<1>13. CASE ParsePause
  <2>1. active'.stage # "none" /\ ~parsingDone'
    BY <1>13 DEF ParsePause, parser
  <2> QED  BY <2>1 DEF ParsedInv
<1>14. CASE ParsingDone
  <2>1. /\ UNCHANGED <<opened, results, text>> /\ pending = {} /\ loop' = "idle"
        /\ ~HeadBlocked /\ ~HeadReady
    BY <1>14 DEF ParsingDone, MayParse, manager, parser
  <2>2. ASSUME NEW f, NEW g, Due(f, g)
        PROVE  FALSE
    <3>1. queue # <<>>
      BY <1>0, <2>2 DEF Due
    <3>2. Head(queue).kind \in {"dc", "mark"}
      BY <2>2, <3>1, DueAtHead
    <3> QED  BY <2>1, <3>1, <3>2 DEF HeadReady
  <2>3. AllFresh
    BY <2>1, <2>2 DEF AllFresh, FreshText, StaleIsDue
  <2> QED  BY <1>1, <2>1, <2>3 DEF ParsedInv
<1>15. CASE IdleReturn
  <2>1. UNCHANGED <<opened, results, text>> /\ parsingDone /\ ~parsingDone'
    BY <1>15 DEF IdleReturn, manager, parser
  <2> QED  BY <1>1, <2>1 DEF ParsedInv
<1> QED  BY <1>4, <1>5, <1>6, <1>7, <1>8, <1>9, <1>10, <1>11, <1>12, <1>13, <1>14, <1>15
         DEF Next, IdleStep, FinishHead, ParseStep

(* What the answers of queries rest on.                                    *)
AnswerInv == QueriesAsked /\ SentInTurn /\ AskedInTurn /\ DocsInTurn /\ ParsedInv

LEMMA AnswerInvariant == Spec => []AnswerInv
<1>1. ASSUME Init
      PROVE  AnswerInv
  <2>1. /\ Len(queue) = 1 /\ queue[1].kind = "open" /\ \A i \in DOMAIN queue : i = 1
    BY <1>1 DEF Init, NewItem
  <2>2. \A n : \A i \in 1..1 : /\ queue[i] \notin Writes(n)
                             /\ queue[i] \notin Turns(n)
    BY <2>1 DEF Writes, Turns
  <2>3. SentInTurn /\ DocsInTurn
    BY <1>1, <2>1, <2>2 DEF Init, SentInTurn, DocsInTurn, LastIs, Shown
  <2>4. QueriesAsked /\ AskedInTurn
    BY <1>1, <2>1 DEF Init, QueriesAsked, AskedOnce, HasItem, AskedInTurn
  <2>5. ParsedInv
    BY <1>1 DEF Init, ParsedInv
  <2> QED  BY <2>3, <2>4, <2>5 DEF AnswerInv
<1>2. TypeOK /\ TypeOK' /\ StaleIsDue /\ AnswerInv /\ [Next]_vars => AnswerInv'
  BY EveryQueueStep, QueriesStep, SentStep, AskedTextsStep, DocsStep, ParsedStep DEF AnswerInv
<1>3. Spec => []MarkedInv
  BY MarkedInvariant
<1>4. MarkedInv => StaleIsDue
  BY DEF MarkedInv
<1> QED  BY <1>1, <1>2, <1>3, <1>4, TypeCorrect, PTL DEF Spec

(* When the thread blocks with nothing left to do, the file manager and    *)
(* the workspace have what the editor shows, and the results of every      *)
(* opened file are those of these texts (idle_handler, parse_file).        *)
THEOREM DrainedStaysFresh == Spec => []DrainedIsFresh
<1>1. TypeOK /\ AnswerInv => DrainedIsFresh
  <2> SUFFICES ASSUME TypeOK, AnswerInv, Drained
               PROVE  opened = docs /\ \A f \in docs : FreshText(f) /\ text[f] = sent[f]
    BY DEF DrainedIsFresh
  <2>0. docs \subseteq File /\ opened \subseteq File
    BY DEF TypeOK, ClientTypeOK, ParserTypeOK
  <2>1. Len(queue) = 0 /\ AllFresh
    BY DEF Drained, AnswerInv, ParsedInv
  <2>2. \A S, V, now, v : LastIs(queue, 0, S, V, now, v) => now = v
    BY DEF LastIs
  <2>3. \A f \in File : text[f] = sent[f]
    BY <2>1, <2>2 DEF AnswerInv, SentInTurn
  <2>4. \A f \in File : Shown(f, opened) = Shown(f, docs)
    BY <2>1, <2>2 DEF AnswerInv, DocsInTurn
  <2>5. opened = docs
    BY <2>0, <2>4 DEF Shown
  <2> QED  BY <2>0, <2>1, <2>3, <2>5 DEF AllFresh
<1> QED  BY <1>1, TypeCorrect, AnswerInvariant, PTL

-----------------------------------------------------------------------------
(* What a debug session is given.                                          *)

(* A load that waits is at the head.                                       *)
BegunFirst == \A i \in DOMAIN queue : queue[i].kind = "open" /\ queue[i].begun => i = 1

(* The item that will load the object g of w: a reload that has begun, or  *)
(* the item of the message that created the object.                        *)
LoadsObject(it, w, g) ==
  /\ it.of = w /\ it.gen = g
  /\ \/ it.kind = "settings" /\ it.begun
     \/ it.kind = "open" /\ (it.begun \/ it.id <= g)
HasLoad(s, w, g) == \E i \in DOMAIN s : LoadsObject(s[i], w, g)
LoadDue == \A w \in Workspace :
             (w = Implicit \/ entry[w].gen # 0) /\ loaded[w] = NotLoaded
               => HasLoad(queue, w, GenOf(w))

LEMMA BegunStep ==
  ASSUME TypeOK, TypeOK', BegunFirst, QueueStep
  PROVE  BegunFirst'
<1> SUFFICES ASSUME NEW i \in DOMAIN queue', queue'[i].kind = "open", queue'[i].begun, i # 1
             PROVE  FALSE
  BY DEF BegunFirst
<1>0. /\ queue \in Seq(Item) /\ queue' \in Seq(Item) /\ Len(queue) \in Nat
      /\ DOMAIN queue = 1..Len(queue) /\ DOMAIN queue' = 1..Len(queue')
  BY DEF TypeOK, ManagerTypeOK
<1>1. ASSUME NEW j \in DOMAIN queue, queue[j].kind = "open", queue[j].begun, j # 1
      PROVE  FALSE
  BY <1>1 DEF BegunFirst
<1>2. CASE SameItems(queue', queue, 0)
  BY <1>0, <1>1, <1>2 DEF SameItems
<1>3. CASE queue # <<>> /\ SameItems(queue', Tail(queue), 1)
  <2>1. /\ i \in 1..Len(Tail(queue)) /\ Tail(queue)[i].kind = "open" /\ Tail(queue)[i].begun
    BY <1>0, <1>3 DEF SameItems
  <2>2. Len(Tail(queue)) = Len(queue) - 1 /\ Tail(queue)[i] = queue[i + 1]
    BY <1>0, <1>3, <2>1
  <2> QED  BY <1>0, <1>1, <2>1, <2>2
<1>4. ASSUME NEW u \in Seq(Item), queue' = queue \o u, Enqueued(u)
      PROVE  FALSE
  <2>1. /\ Len(queue') = Len(queue) + Len(u) /\ Len(u) \in Nat
        /\ \A k \in 1..Len(queue) : queue'[k] = queue[k]
        /\ \A k \in 1..Len(u) : queue'[Len(queue) + k] = u[k]
    BY <1>0, <1>4, ConcatProperties
  <2>2. CASE i <= Len(queue)
    BY <1>0, <1>1, <2>1, <2>2
  <2>3. CASE i > Len(queue)
    <3>1. i - Len(queue) \in 1..Len(u) /\ Len(queue) + (i - Len(queue)) = i
      BY <1>0, <2>1, <2>3
    <3>2. queue'[i] = u[i - Len(queue)]
      BY <2>1, <3>1
    <3> QED  BY <1>4, <3>1, <3>2 DEF Enqueued
  <2> QED  BY <1>0, <2>2, <2>3
<1>5. ASSUME NEW n \in 0..Len(queue), NEW it \in Item, LastOpen(queue, n),
             queue' = InsertAfter(queue, n, it), it.kind = "dc"
      PROVE  FALSE
  <2>1. queue'[i] = IF i <= n THEN queue[i] ELSE IF i = n + 1 THEN it ELSE queue[i - 1]
    BY <1>0, <1>5 DEF InsertAfter
  <2>2. CASE i <= n
    BY <1>0, <1>1, <2>1, <2>2
  <2>3. CASE i > n + 1
    <3>1. i - 1 \in 1..Len(queue) /\ i - 1 > n /\ queue[i - 1].kind = "open"
      BY <1>0, <1>5, <2>1, <2>3 DEF InsertAfter
    <3> QED  BY <1>5, <3>1 DEF LastOpen
  <2>4. i # n + 1
    BY <1>0, <1>5, <2>1
  <2> QED  BY <1>0, <2>2, <2>3, <2>4
<1>6. ASSUME NEW r \in requests, queue' = ResolveWorkItem(r)
      PROVE  FALSE
  BY <1>0, <1>2, <1>6, ResolveSameItems
<1> QED  BY <1>2, <1>3, <1>4, <1>5, <1>6 DEF QueueStep

(* The item that loads an object stays until it is executed.               *)
LEMMA LoadKept ==
  ASSUME TypeOK, TypeOK', QueueStep, NEW w, NEW g, HasLoad(queue, w, g),
         \/ SameItems(queue', queue, 0)
         \/ loop # "idle"
         \/ queue # <<>> /\ ~LoadsObject(Head(queue), w, g)
  PROVE  HasLoad(queue', w, g)
<1>0. /\ queue \in Seq(Item) /\ queue' \in Seq(Item) /\ Len(queue) \in Nat
      /\ DOMAIN queue = 1..Len(queue) /\ DOMAIN queue' = 1..Len(queue')
  BY DEF TypeOK, ManagerTypeOK
<1>1. PICK i \in DOMAIN queue : LoadsObject(queue[i], w, g)
  BY DEF HasLoad
<1>2. CASE SameItems(queue', queue, 0)
  <2>1. i \in DOMAIN queue' /\ LoadsObject(queue'[i], w, g)
    BY <1>0, <1>1, <1>2 DEF SameItems, LoadsObject
  <2> QED  BY <2>1 DEF HasLoad
<1>3. CASE /\ queue # <<>> /\ SameItems(queue', Tail(queue), 1)
           /\ ~LoadsObject(Head(queue), w, g)
  <2>1. Head(queue) = queue[1]
    BY <1>0, <1>3
  <2>2. i # 1
    BY <1>1, <1>3, <2>1
  <2>3. /\ i - 1 \in 1..Len(Tail(queue)) /\ Tail(queue)[i - 1] = queue[i]
        /\ Len(queue') = Len(Tail(queue))
    <3>1. Len(Tail(queue)) = Len(queue) - 1 /\ i - 1 \in 1..Len(queue) - 1
      BY <1>0, <1>3, <2>2
    <3>2. Tail(queue)[i - 1] = queue[(i - 1) + 1] /\ (i - 1) + 1 = i
      BY <1>0, <1>3, <3>1
    <3>3. Len(queue') = Len(Tail(queue))
      BY <1>3 DEF SameItems
    <3> QED  BY <3>1, <3>2, <3>3
  <2> DEFINE j == i - 1
  <2> HIDE DEF j
  <2>4. j \in DOMAIN queue' /\ LoadsObject(queue'[j], w, g)
    <3>1. j \in 1..Len(queue') /\ Tail(queue)[j] = queue[i]
      BY <2>3 DEF j
    <3>2. /\ queue'[j].id = queue[i].id /\ queue'[j].kind = queue[i].kind
          /\ queue'[j].of = queue[i].of /\ queue'[j].gen = queue[i].gen
          /\ queue[i].begun => queue'[j].begun
      BY <1>3, <3>1 DEF SameItems
    <3> QED  BY <1>0, <1>1, <3>1, <3>2 DEF LoadsObject
  <2> QED  BY <2>4 DEF HasLoad
<1>4. ASSUME NEW u \in Seq(Item), queue' = queue \o u
      PROVE  HasLoad(queue', w, g)
  <2>1. i \in DOMAIN queue' /\ queue'[i] = queue[i]
    BY <1>0, <1>4, ConcatProperties
  <2> QED  BY <1>1, <2>1 DEF HasLoad
<1>5. ASSUME NEW n \in 0..Len(queue), NEW it \in Item, queue' = InsertAfter(queue, n, it)
      PROVE  HasLoad(queue', w, g)
  <2>1. /\ Len(queue') = Len(queue) + 1
        /\ \A k \in 1..Len(queue') : queue'[k] = IF k <= n THEN queue[k]
                                                 ELSE IF k = n + 1 THEN it ELSE queue[k - 1]
    BY <1>0, <1>5 DEF InsertAfter
  <2>2. CASE i <= n
    <3>1. i \in DOMAIN queue' /\ queue'[i] = queue[i]
      BY <1>0, <2>1, <2>2
    <3> QED  BY <1>1, <3>1 DEF HasLoad
  <2>3. CASE i > n
    <3>1. i + 1 \in DOMAIN queue' /\ queue'[i + 1] = queue[i]
      BY <1>0, <2>1, <2>3
    <3> QED  BY <1>1, <3>1 DEF HasLoad
  <2> QED  BY <1>0, <2>2, <2>3
<1>6. ASSUME NEW r \in requests, queue' = ResolveWorkItem(r)
      PROVE  HasLoad(queue', w, g)
  BY <1>0, <1>2, <1>6, ResolveSameItems
<1> QED  BY <1>2, <1>3, <1>4, <1>5, <1>6 DEF QueueStep

(* Steps that leave the workspace manager alone.                           *)
LEMMA ManagerKept ==
  ASSUME \/ StartIdle \/ WaitForAnswer \/ ParseStep \/ ParsePause \/ ParsingDone \/ IdleReturn
         \/ UNCHANGED vars
  PROVE  UNCHANGED manager
<1>1. CASE StartIdle \/ WaitForAnswer \/ ParsePause \/ ParsingDone \/ IdleReturn \/ UNCHANGED vars
  BY <1>1 DEF StartIdle, WaitForAnswer, ParsePause, ParsingDone, IdleReturn, vars
<1>2. CASE ParseStep
  <2>1. ASSUME NEW f \in File, ParseBegin(f)
        PROVE  UNCHANGED manager
    BY <2>1 DEF ParseBegin
  <2>2. CASE ParseConfigure \/ ParseDone
    BY <2>2 DEF ParseConfigure, ParseDone
  <2> QED  BY <1>2, <2>1, <2>2 DEF ParseStep
<1> QED  BY <1>1, <1>2

LEMMA LoadStep ==
  ASSUME TypeOK, TypeOK', LoadDue, [Next]_vars, QueueStep
  PROVE  LoadDue'
<1> USE ConstantsAssumption
<1> SUFFICES ASSUME NEW w \in Workspace, (w = Implicit \/ entry'[w].gen # 0),
                    loaded'[w] = NotLoaded
             PROVE  HasLoad(queue', w, GenOf(w)')
  BY DEF LoadDue
<1> DEFINE it == Head(queue)
<1>0. /\ queue \in Seq(Item) /\ queue' \in Seq(Item) /\ clock \in Nat
      /\ loaded \in [Workspace -> Int] /\ entry \in [Folder -> [gen : Nat, deleted : BOOLEAN]]
      /\ ManagerTypeOK
  BY DEF TypeOK, ManagerTypeOK, ClientTypeOK
<1>1. ASSUME entry'[w].gen = entry[w].gen \/ w = Implicit, loaded'[w] = loaded[w],
             \/ SameItems(queue', queue, 0)
             \/ loop # "idle"
             \/ queue # <<>> /\ ~LoadsObject(it, w, GenOf(w))
      PROVE  HasLoad(queue', w, GenOf(w)')
  <2>1. GenOf(w)' = GenOf(w) /\ HasLoad(queue, w, GenOf(w))
    BY <1>1 DEF LoadDue, GenOf
  <2> HIDE DEF it
  <2> QED  BY <1>1, <2>1, LoadKept DEF it
<1>2. ASSUME NEW k, Execute(k)
      PROVE  queue # <<>> /\ it \in Item /\ it.kind = k
  <2>1. queue # <<>> /\ it.kind = k
    BY <1>2 DEF Execute, HeadReady
  <2> QED  BY <1>0, <2>1
<1>3. CASE FinishOpen \/ FinishSettings
  <2>1. /\ queue # <<>> /\ it \in Item /\ it.kind \in {"open", "settings"} /\ entry' = entry
    BY <1>2, <1>3 DEF FinishOpen, FinishSettings
  <2>2. Took(it) \in Nat /\ it.of \in Workspace
    BY <1>0, <2>1, TookType DEF Loads
  <2>3. CASE Live(it.of, it.gen)
    <3>1. \/ loaded' = [loaded EXCEPT ![it.of] = Took(it)]
          \/ loaded' = loaded /\ it.kind = "settings" /\ ~it.begun
      <4>1. CASE FinishOpen
        BY <2>3, <4>1 DEF FinishOpen
      <4>2. CASE FinishSettings
        BY <1>2, <2>3, <4>2 DEF FinishSettings
      <4> QED  BY <1>3, <4>1, <4>2
    <3> HIDE DEF it
    <3>2. CASE loaded' = [loaded EXCEPT ![it.of] = Took(it)]
      <4>1. w # it.of
        BY <1>0, <2>2, <3>2 DEF NotLoaded
      <4>2. loaded'[w] = loaded[w] /\ ~LoadsObject(it, w, GenOf(w))
        BY <1>0, <3>2, <4>1 DEF LoadsObject
      <4> QED  BY <1>1, <2>1, <4>2
    <3>3. CASE loaded' = loaded /\ it.kind = "settings" /\ ~it.begun
      <4>1. ~LoadsObject(it, w, GenOf(w))
        BY <3>3 DEF LoadsObject
      <4> QED  BY <1>1, <2>1, <3>3, <4>1
    <3> QED  BY <3>1, <3>2, <3>3
  <2>4. CASE ~Live(it.of, it.gen)
    <3>1. loaded' = loaded
      BY <1>3, <2>4 DEF FinishOpen, FinishSettings
    <3> HIDE DEF it
    <3>2. ~LoadsObject(it, w, GenOf(w))
      BY <2>4 DEF LoadsObject, Live
    <3> QED  BY <1>1, <2>1, <3>1, <3>2
  <2> QED  BY <2>3, <2>4
<1>4. CASE FinishClose
  <2>1. queue # <<>> /\ it \in Item /\ it.kind = "close"
    BY <1>2, <1>4 DEF FinishClose
  <2>2. \/ UNCHANGED <<entry, loaded>>
        \/ /\ entry' = [entry EXCEPT ![it.of] = Absent]
           /\ loaded' = [loaded EXCEPT ![it.of] = NotLoaded]
    BY <1>4 DEF FinishClose
  <2> HIDE DEF it
  <2>3. it.of \in Folder
    BY <2>1, ItemFields DEF Subject
  <2>4. ~LoadsObject(it, w, GenOf(w))
    BY <2>1 DEF LoadsObject
  <2>5. CASE UNCHANGED <<entry, loaded>>
    BY <1>1, <2>1, <2>4, <2>5
  <2>6. CASE /\ entry' = [entry EXCEPT ![it.of] = Absent]
             /\ loaded' = [loaded EXCEPT ![it.of] = NotLoaded]
    <3>1. w # it.of
      BY <1>0, <2>3, <2>6 DEF Absent
    <3>2. loaded'[w] = loaded[w] /\ (entry'[w].gen = entry[w].gen \/ w = Implicit)
      BY <1>0, <2>6, <3>1 DEF Workspace
    <3> QED  BY <1>1, <2>1, <2>4, <3>2
  <2> QED  BY <2>2, <2>5, <2>6
<1>5. CASE FinishApply \/ FinishMark \/ FinishQuery \/ FinishDc
  <2>1. queue # <<>> /\ it.kind \in {"apply", "mark", "query", "dc"} /\ UNCHANGED <<entry, loaded>>
    BY <1>2, <1>5 DEF FinishApply, FinishMark, FinishQuery, FinishDc
  <2> HIDE DEF it
  <2>2. ~LoadsObject(it, w, GenOf(w))
    BY <2>1 DEF LoadsObject
  <2> QED  BY <1>1, <2>1, <2>2
<1>6. CASE SuspendHead
  <2>1. /\ queue # <<>> /\ entry' = entry
        /\ loaded' = IF Loads(it) THEN [loaded EXCEPT ![it.of] = NotLoaded] ELSE loaded
        /\ Loads(it) => Live(it.of, it.gen)
        /\ queue' = <<[it EXCEPT !.begun = TRUE, !.val = IF Loads(it) THEN Took(it) ELSE @]>>
                      \o Tail(queue)
    BY <1>6 DEF SuspendHead, HeadReady
  <2>2. SameItems(queue', queue, 0)
    BY <1>6, SuspendSameItems
  <2>3. it \in Item /\ it = queue[1] /\ Tail(queue) \in Seq(Item)
    BY <1>0, <2>1
  <2> HIDE DEF it
  <2>4. CASE ~(Loads(it) /\ it.of = w)
    <3>1. loaded'[w] = loaded[w]
      BY <1>0, <2>1, <2>4
    <3> QED  BY <1>1, <2>1, <2>2, <3>1
  <2>5. CASE Loads(it) /\ it.of = w
    <3>1. it.gen = GenOf(w)' /\ it.kind \in {"open", "settings"}
      BY <2>1, <2>5 DEF Live, GenOf, Loads
    <3> DEFINE v == IF Loads(it) THEN Took(it) ELSE it.val
               e == [it EXCEPT !.begun = TRUE, !.val = v]
    <3>2. queue' = <<e>> \o Tail(queue)
      BY <2>1
    <3>3. e.begun = TRUE /\ e.kind = it.kind /\ e.of = it.of /\ e.gen = it.gen
      <4> HIDE DEF v
      <4> QED  BY <2>3 DEF Item
    <3> HIDE DEF e
    <3>4. 1 \in DOMAIN queue' /\ queue'[1] = e
      BY <2>3, <3>2
    <3>5. LoadsObject(e, w, GenOf(w)')
      BY <2>5, <3>1, <3>3 DEF LoadsObject
    <3> QED  BY <3>4, <3>5 DEF HasLoad
  <2> QED  BY <2>4, <2>5
<1>7. ASSUME NEW f \in Folder, AddWorkspace(f)
      PROVE  HasLoad(queue', w, GenOf(w)')
  <2>1. loop # "idle"
    BY <1>7 DEF AddWorkspace, Receive
  <2>2. CASE w # f \/ entry[f].gen # 0
    <3>1. loaded'[w] = loaded[w] /\ (entry'[w].gen = entry[w].gen \/ w = Implicit)
      BY <1>0, <1>7, <2>2 DEF AddWorkspace, Workspace
    <3> QED  BY <1>1, <2>1, <3>1
  <2>3. CASE w = f /\ entry[f].gen = 0
    <3> DEFINE g == clock + 1
               e == [NewItem("open", f) EXCEPT !.gen = g, !.asks = TRUE]
    <3>1. queue' = Append(queue, e) /\ GenOf(w)' = clock + 1
      BY <1>0, <1>7, <2>3 DEF AddWorkspace, GenOf
    <3>2. e.id = clock + 1 /\ e.kind = "open" /\ e.of = f /\ e.gen = clock + 1
      BY DEF NewItem
    <3>3. e \in Item
      <4>1. g \in Nat
        BY <1>0
      <4> HIDE DEF g
      <4> QED  BY <4>1, NewItems
    <3> HIDE DEF e
    <3>4. LoadsObject(e, w, GenOf(w)')
      BY <1>0, <2>3, <3>1, <3>2 DEF LoadsObject
    <3>5. Len(queue) + 1 \in DOMAIN queue' /\ queue'[Len(queue) + 1] = e
      BY <1>0, <3>1, <3>3
    <3> QED  BY <3>4, <3>5 DEF HasLoad
  <2> QED  BY <2>2, <2>3
<1>8. ASSUME NEW f \in Folder, RemoveWorkspace(f)
      PROVE  HasLoad(queue', w, GenOf(w)')
  <2>1. /\ loop # "idle" /\ loaded' = loaded
        /\ entry' = entry \/ entry' = [entry EXCEPT ![f].deleted = TRUE]
    BY <1>8 DEF RemoveWorkspace, Receive
  <2>2. w = Implicit \/ entry'[w].gen = entry[w].gen
    <3>1. entry[f] \in [gen : Nat, deleted : BOOLEAN]
      BY <1>0, <1>8
    <3>2. [entry[f] EXCEPT !.deleted = TRUE].gen = entry[f].gen
      BY <3>1
    <3> QED  BY <1>0, <2>1, <3>2 DEF Workspace
  <2> QED  BY <1>1, <2>1, <2>2
<1>9. ASSUME ClientStep, \A f \in Folder : ~AddWorkspace(f) /\ ~RemoveWorkspace(f)
      PROVE  HasLoad(queue', w, GenOf(w)')
  <2>1. loop # "idle" /\ UNCHANGED <<entry, loaded>>
    BY <1>9 DEF ClientStep, DidOpenFile, DidChangeFile, DidCloseFile, ReceiveDocument, Receive,
                HandleRequest, CancelRequest, ConfigurationChanged, ConfigurationAnswer,
                ProvideDebuggerConfiguration, InvalidateExternalConfiguration, Wakeup, manager
  <2> QED  BY <1>1, <2>1
<1>10. CASE \/ StartIdle \/ WaitForAnswer \/ ParseStep \/ ParsePause \/ ParsingDone \/ IdleReturn
            \/ UNCHANGED vars
  <2>1. UNCHANGED manager
    BY <1>10, ManagerKept
  <2>2. UNCHANGED <<queue, entry, loaded>>
    BY <2>1 DEF manager
  <2>3. SameItems(queue', queue, 0)
    BY <1>0, <2>2, SameItemsReflexive
  <2> QED  BY <1>1, <2>2, <2>3
<1> QED  BY <1>3, <1>4, <1>5, <1>6, <1>7, <1>8, <1>9, <1>10 DEF Next, IdleStep, FinishHead, ClientStep

(* What the configurations given to debug sessions rest on.                *)
LoadInv == BegunFirst /\ LoadDue /\ DcAfterOpen

LEMMA LoadInvariant == Spec => []LoadInv
<1>1. ASSUME Init
      PROVE  BegunFirst /\ LoadDue
  <2>1. /\ DOMAIN queue = {1} /\ queue[1].kind = "open" /\ queue[1].of = Implicit
        /\ queue[1].gen = 0 /\ queue[1].id = 0
    BY <1>1 DEF Init, NewItem
  <2>2. LoadsObject(queue[1], Implicit, GenOf(Implicit))
    BY <2>1 DEF LoadsObject, GenOf
  <2>3. \A w \in Workspace : w = Implicit \/ entry[w].gen = 0
    BY <1>1 DEF Init, Absent, Workspace
  <2> QED  BY <2>1, <2>2, <2>3 DEF BegunFirst, LoadDue, HasLoad
<1>2. TypeOK /\ TypeOK' /\ BegunFirst /\ LoadDue /\ [Next]_vars => (BegunFirst /\ LoadDue)'
  BY EveryQueueStep, BegunStep, LoadStep
<1>3. Spec => [](ArrivalOrder /\ DcAfterOpen)
  BY QueueIsOrdered
<1> QED  BY <1>1, <1>2, <1>3, TypeCorrect, PTL DEF LoadInv, Spec

-----------------------------------------------------------------------------
(* The answers.                                                            *)

(* Only the items of debug sessions and queries answer them.               *)
LEMMA AnswersChange ==
  ASSUME [Next]_vars
  PROVE  /\ dcAnswered' # dcAnswered => FinishDc
         /\ response' # response => FinishQuery \/ \E q \in Query, f \in File : HandleRequest(q, f)
<1>1. CASE ClientStep
  <2>1. ASSUME NEW f \in File, DidOpenFile(f) \/ DidChangeFile(f) \/ DidCloseFile(f)
        PROVE  UNCHANGED <<response, dcAnswered>>
    BY <2>1 DEF DidOpenFile, DidChangeFile, DidCloseFile, ReceiveDocument
  <2>2. ASSUME NEW q \in Query, NEW f \in File, HandleRequest(q, f)
        PROVE  UNCHANGED dcAnswered
    BY <2>2 DEF HandleRequest
  <2>3. ASSUME NEW q \in Query, CancelRequest(q)
        PROVE  UNCHANGED <<response, dcAnswered>>
    BY <2>3 DEF CancelRequest
  <2>4. ASSUME NEW w \in Folder, AddWorkspace(w) \/ RemoveWorkspace(w)
        PROVE  UNCHANGED <<response, dcAnswered>>
    BY <2>4 DEF AddWorkspace, RemoveWorkspace
  <2>5. ASSUME NEW r \in requests, ConfigurationAnswer(r)
        PROVE  UNCHANGED <<response, dcAnswered>>
    BY <2>5 DEF ConfigurationAnswer
  <2>6. ASSUME NEW d \in Session, ProvideDebuggerConfiguration(d)
        PROVE  UNCHANGED <<response, dcAnswered>>
    BY <2>6 DEF ProvideDebuggerConfiguration
  <2>7. ASSUME ConfigurationChanged \/ InvalidateExternalConfiguration \/ Wakeup
        PROVE  UNCHANGED <<response, dcAnswered>>
    BY <2>7 DEF ConfigurationChanged, InvalidateExternalConfiguration, Wakeup, manager
  <2> QED  BY <1>1, <2>1, <2>2, <2>3, <2>4, <2>5, <2>6, <2>7 DEF ClientStep
<1>2. CASE \/ StartIdle \/ WaitForAnswer \/ ParseStep \/ ParsePause \/ ParsingDone \/ IdleReturn
           \/ UNCHANGED vars
  BY <1>2, ManagerKept DEF manager
<1>3. CASE SuspendHead
  BY <1>3 DEF SuspendHead
<1>4. CASE FinishOpen \/ FinishSettings \/ FinishClose \/ FinishApply \/ FinishMark
  BY <1>4 DEF FinishOpen, FinishSettings, FinishClose, FinishApply, FinishMark
<1>5. CASE FinishQuery \/ FinishDc
  BY <1>5 DEF FinishQuery, FinishDc
<1> QED  BY <1>1, <1>2, <1>3, <1>4, <1>5 DEF Next, IdleStep, FinishHead

LEMMA AnswerStep ==
  ASSUME TypeOK, AnswerInv, [Next]_vars, NEW q \in Query,
         response[q] = "pending", response'[q] = "answered"
  PROVE  /\ opened \cap docs' = opened \cap docs
         /\ \A f \in opened : /\ FreshText(f)
                              /\ \A g \in {f} \cup results[f].deps : text[g] = asked[q][g]
<1> DEFINE it == Head(queue)
<1>0. /\ queue \in Seq(Item) /\ Len(queue) \in Nat /\ response \in [Query -> {"new", "pending", "answered", "canceled"}]
      /\ opened \subseteq File /\ results \in [File -> Result]
  BY DEF TypeOK, ManagerTypeOK, ParserTypeOK
<1>1. FinishQuery
  <2>1. ~\E p \in Query, f \in File : HandleRequest(p, f)
    <3> SUFFICES ASSUME NEW p \in Query, NEW f \in File, HandleRequest(p, f)
                 PROVE  FALSE
      OBVIOUS
    <3> QED  BY <1>0 DEF HandleRequest
  <2> QED  BY <2>1, AnswersChange
<1>2. /\ queue # <<>> /\ it.kind = "query" /\ UNCHANGED client
      /\ (parsingDone \/ ~IsValid(it))
      /\ response' = [response EXCEPT ![it.of] = IF valid[it.of] THEN "answered" ELSE "canceled"]
  BY <1>1 DEF FinishQuery, Execute, HeadReady
<1>3. it = queue[1] /\ 1 \in DOMAIN queue
  BY <1>0, <1>2
<1> HIDE DEF it
<1>4. it.of = q /\ valid[q]
  BY <1>0, <1>2
<1>5. AllFresh
  BY <1>2, <1>4 DEF IsValid, AnswerInv, ParsedInv
<1>6. \A g \in File : text[g] = asked[q][g]
  <2>1. \A g \in File : LastIs(queue, 1 - 1, Writes(g), WritesOf(g, asked[q][g]), text[g], asked[q][g])
    BY <1>2, <1>3, <1>4 DEF AnswerInv, AskedInTurn
  <2>2. \A S, V, now, v : LastIs(queue, 1 - 1, S, V, now, v) => now = v
    BY DEF LastIs
  <2> QED  BY <2>1, <2>2
<1>7. \A f \in opened : {f} \cup results[f].deps \subseteq File
  BY <1>0 DEF Result
<1> QED  BY <1>2, <1>5, <1>6, <1>7 DEF AllFresh, client

LEMMA ServeStep ==
  ASSUME TypeOK, LoadInv, [Next]_vars, NEW d \in dcAnswered' \ dcAnswered, NEW w \in Workspace,
         w = Implicit \/ (entry[w].gen # 0 /\ entry[w].gen < Head(queue).id),
         loaded[w] = NotLoaded
  PROVE  ReloadBegun(w)
<1> USE ConstantsAssumption
<1> DEFINE it == Head(queue)
<1>0. queue \in Seq(Item) /\ Len(queue) \in Nat /\ DOMAIN queue = 1..Len(queue)
  BY DEF TypeOK, ManagerTypeOK
<1>1. FinishDc
  BY AnswersChange
<1>2. queue # <<>> /\ it.kind = "dc"
  BY <1>1 DEF FinishDc, Execute, HeadReady
<1>3. it = queue[1] /\ 1 \in DOMAIN queue /\ it \in Item
  BY <1>0, <1>2
<1> HIDE DEF it
<1>4. it.id \in Nat
  BY <1>3, ItemFields
<1>5. PICK i \in DOMAIN queue : LoadsObject(queue[i], w, GenOf(w))
  BY DEF LoadInv, LoadDue, HasLoad
<1>6. CASE queue[i].kind = "settings" /\ queue[i].begun
  BY <1>5, <1>6 DEF ReloadBegun, LoadsObject
<1>7. CASE queue[i].kind = "open"
  <2>1. i # 1
    BY <1>2, <1>3, <1>7
  <2>2. 1 < i
    BY <1>0, <2>1
  <2>3. it.id < queue[i].id
    BY <1>2, <1>3, <1>7, <2>2 DEF LoadInv, DcAfterOpen
  <2>4. ~queue[i].begun
    BY <1>7, <2>1 DEF LoadInv, BegunFirst
  <2>5. queue[i].id <= GenOf(w) /\ queue[i] \in Item
    BY <1>0, <1>5, <1>7, <2>4 DEF LoadsObject
  <2>6. queue[i].id \in Nat /\ GenOf(w) \in Nat
    BY <2>5, ItemFields DEF TypeOK, ManagerTypeOK, GenOf, Workspace
  <2>7. GenOf(w) = 0 \/ GenOf(w) < it.id
    BY DEF GenOf, it
  <2> QED  BY <1>4, <2>3, <2>5, <2>6, <2>7
<1> QED  BY <1>5, <1>6, <1>7 DEF LoadsObject

(* A query is answered from results of the texts it was asked about, a     *)
(* debug session is given the configuration of the folders it was started  *)
(* in (idle_handler with parsing_must_be_done, provide_debugger_           *)
(* configuration).                                                         *)
THEOREM AnsweredInOrder == Spec => AnsweredInTurn
<1>1. ASSUME TypeOK, AnswerInv, [Next]_vars
      PROVE  \A q \in Query : response[q] = "pending" /\ response'[q] = "answered" =>
               /\ opened \cap docs' = opened \cap docs
               /\ \A f \in opened : /\ FreshText(f)
                                    /\ \A g \in {f} \cup results[f].deps : text[g] = asked[q][g]
  BY <1>1, AnswerStep
<1>2. ASSUME TypeOK, LoadInv, [Next]_vars
      PROVE  \A d \in dcAnswered' \ dcAnswered : \A w \in Workspace :
               w = Implicit \/ (entry[w].gen # 0 /\ entry[w].gen < Head(queue).id)
                 => loaded[w] # NotLoaded \/ ReloadBegun(w)
  BY <1>2, ServeStep
<1>3. Spec => AnswerIsFresh
  BY <1>1, TypeCorrect, AnswerInvariant, PTL DEF AnswerIsFresh, Spec
<1>4. Spec => ServedConfigured
  BY <1>2, TypeCorrect, LoadInvariant, PTL DEF ServedConfigured, Spec
<1> QED  BY <1>3, <1>4 DEF AnsweredInTurn
=============================================================================
