# Verification of the HLASM language server

TLA+ models of this repository: the language server for HLASM (its threads and queues, the workspace manager and
its files, caches and configuration), the assembler it contains (conditional assembly, macros, symbols, location
counters, USING, operands, the parser) and the part of the editor's extension that talks to a mainframe. TLC checks
the models on small instances; TLAPS proves the safety properties that matter most for every value of the constants.

Paths below leave out the leading `src/`: `PL/` is `parser_library/src/`, `LS/` is `language_server/src/`, `VS/` is
`clients/vscode-hlasmplugin/src/`.

```
tlc -workers 2 -config WorkQueueSafety.cfg MCWorkQueue      # any run of PROJECT.json: its module and its cfg
tlapm WorkQueueProofs.tla                                   # the proofs of a module
```

## 1. The system

A language server for HLASM in C++ (coroutines, a few threads) with an editor extension in TypeScript in front of it.

**Threads.** `LS/main.cpp` starts them and connects them by `blocking_queue`s. The *main thread* reads the client's
stream and routes every message to the LSP thread, to a debug session's thread or to the reader of external files;
at the end of the stream it terminates the queues and joins. The *LSP thread* handles messages until its queue is
empty, then calls `idle_handler`, which executes work items and parses; both return as soon as a message arrives.
Each *debug session* has a thread with the same loop around its own analyzer; it asks the LSP thread for the
configuration of the program through a closure in `proxies` and a message that does nothing but wake its reader.

**The workspace manager** keeps a queue of work items. Messages append items, `idle_handler` executes them; an item
may be a coroutine that is suspended until the client answers. Behind the items workspaces parse the files that are
marked: a parse is an analyzer that is resumed for a while and given up when a text it has read changes. It reads
files through the file manager and macros through the macro cache, with the libraries of the configuration.

**The analyzer** gets statements from open code (with generated lines, COPY members, AINSERT), from macros and
from members, parses the fields and operands, executes conditional assembly, defines and calls macros, and gives
ordinary statements to the assembler proper: symbols, sections, location counters, USING. What is not known yet
is postponed and resolved when it is. Preprocessors (CICS, DB2, Endevor) rewrite the source first. From what is
left of it the language services answer the editor's questions.

**The extension** fetches remote files through a pool of connections, keeps them in caches, downloads data sets
and unpacks them, and shows listings.

For each component: its state, what is hard about it, what makes it correct, and the module.

| Component (source) | State; what is hard | Correct when | Module |
|---|---|---|---|
| work queue (`PL/workspace_manager.cpp`) | items, workspaces, suspended task; messages arrive while a coroutine is suspended, cancel, remove what it refers to | a query is answered once, from fresh results; no change is lost for the parser; everything is served | `WorkQueue` |
| workspace (`PL/workspaces/workspace.cpp`) | open files, their dependencies, the marked ones; closing files while one is parsed | what is stale is marked, only open files are parsed, a dependency in use stays open | `WorkQueue`, `MacroCache` |
| macro cache (`PL/workspaces/macro_cache.cpp`) | parsed macros with the versions of what they were read from | a cached macro is what parsing it again would give | `MacroCache` |
| configuration (`PL/workspaces/workspace_configuration.cpp`) | groups, mappings from four sources with precedence, client's answers; changes of any while programs were analysed with others | a program is analysed with the group it has, or marked; missing groups are told | `Configuration` |
| file manager (`PL/workspaces/file_manager_impl.cpp`) | objects shared by threads; the mutex is released while a text is loaded | no stale entry, an open document is what the editor shows, what was handed out does not change | `FileManager` |
| external files (`LS/external_file_reader.cpp`) | pending requests of threads that may drop them or end | an answer reaches the task it is for, and wakes it | `ExternalFiles` |
| message queues (`LS/blocking_queue.h`) | deque, mutex, condition, a word read without the mutex | a FIFO queue without lost wakeups | `MessageQueue`, `BlockingQueue` |
| main program, sessions (`LS/main.cpp`, `LS/dap/`) | threads, registrations, closures between threads; sessions end while their request is on its way | a session gets its configuration and its messages; the end of the stream ends every thread | `MainProgram` |
| debugger (`PL/debugging/debugger.cpp`) | flags that decide where to stop; requests cross with stops | stops where asked and nowhere else | `Debugger` |
| LSP server (`LS/lsp/lsp_server.cpp`, `LS/server.cpp`) | requests both ways, counted watchers, progress token | one answer per request; watchers exist while wanted | `LspServer` |
| operation codes (`PL/context/hlasm_context.cpp`) | names with generations: OPSYN, macros, library macros | a statement that is postponed finds what it meant | `OpcodeTable` |
| open code (`PL/processing/opencode_provider.cpp`) | three stacks of input that AINSERT, COPY, AREAD, AGO move | every line is read once, in order, but for what a lookahead undoes | `OpencodeProvider`, `InputStream` |
| macro definitions, arguments (`macrodef_processor.cpp`, `macro_processor.cpp`) | copied members, inner macros, sublists; positions in files | a definition ends where it started; an argument has the components its text says | `MacroDefinition`, `MacroArguments` |
| conditional assembly (`ca_processor.cpp`, `PL/context/variables`) | scopes, global symbols, branch counters | a symbol reads what was written last; loops are cut | `ConditionalAssembly` |
| expressions (`PL/expressions/conditional_assembly`) | words of 32 bits, texts, priorities | exact or reported | `CaExpressions` |
| symbols (`PL/context/ordinary_assembly/symbol_dependency_tables.cpp`) | dependencies with Bloom filters as a cache, spaces, postponed statements | the values solve the program; only cycles are given up | `SymbolDependencies` |
| location counters, sections (`location_counter.cpp`, `section.cpp`, `asm_processor.cpp`) | data before spaces of unknown length, ORG, LOCTR | the layout is that of a program whose lengths are known | `LocationCounter`, `Sections` |
| USING (`PL/context/using.cpp`) | a chain of contexts, resolved at the end | an address leads to the operand, as if executed in place | `Using` |
| statements of the assembler (`PL/processing/instruction_sets/asm_processor.cpp`) | alignment, texts, END, checks put aside | told, shown and moved as the operands say | `AsmStatements` |
| operands (`PL/checking`) | tables of types and limits | accepted exactly what the messages say | `OperandChecks` |
| parser (`PL/parsing`, `PL/semantics`) | apostrophes, attributes, continuation, scanners that look ahead | what is accepted is the grammar; every character is somewhere | `StatementParsing`, `MacroParsing` |
| preprocessors (`PL/processing/preprocessors`) | continued statements, recursion of includes | every line that is not replaced stays, in order | `Preprocessors` |
| services (`PL/lsp`, `PL/instructions`, `VS/hlasmListingServices.ts`) | scopes, chapters, mnemonics, pages | found where the source has it | `LspServices` |
| utilities (`utils/src/resource_location.cpp`, `VS/FBWritable.ts`, `VS/FBStreamingConvertor.ts`) | normal forms, relative paths; records in pieces | a location stays the same file; records do not depend on the pieces, but for those in section 6 | `Utilities` |
| connection pool (`VS/connectionPool.ts`) | awaits between taking and returning | an open connection has one owner, never more than the limit | `ConnectionPool` |
| remote files (`VS/hlasmExternalFiles.ts`) | two caches, awaits, clients that come and go | nothing older than the last clear is kept, but for what was retrieved meanwhile | `RemoteFiles` |
| downloads (`VS/hlasmDownloadCommands.ts`, `VS/unterse`) | jobs retried, streams and file operations | complete means whole; it ends | `DownloadJobs`, `UnterseStream` |

Not modelled, with the reason in `PROJECT.json`: the transport (byte streams), virtual files and telemetry, the
literal pool, JSON formats of configuration files, commands and dialogues of the extension. What is left out of a
component that is modelled in part is in its note there.

## 2. The modules

Each module has the state of its component as variables, one action per handler or step, and its properties. The
`map` of `PROJECT.json` gives the lines of the definitions that stand for a class (the module's variables, whose
declarations they are), a function or a handler; an initial state or a dispatch is there with the lines that set or
call, and a small operator used by one of these, which translates a few lines within them, is not listed apart. An
operator whose comment begins with *Defect* is a wrong version of the definition behind it, kept to show that a
property notices the difference; no specification uses it.

The `...Proofs` modules hold the theorems (section 5) about the module they are named for; those of `BlockingQueue`
are at its end.

The `MC...` modules give the constants values and put components next to each other: each component has variables
of its own and a variable `part`, chosen in the initial state, says which one runs. The components of one such
module share nothing (in the code they are apart as well: they talk through the queues that `BlockingQueue` is
about, or by one calling the other with arguments that the model takes from a set), so this is only a way to check
several with one start of TLC; no interleaving of two parts means anything. A component that needs several sets of
inputs is instantiated several times.

| Instance module | Parts (module) |
|---|---|
| `MCWorkQueue` | extends `WorkQueue` |
| `MCServer` | *queue* (`BlockingQueue`), *main* (`MainProgram`), *queries*, *watchers* (`LspServer`) |
| `MCClient` | *pool* (`ConnectionPool`), *jobs* (`DownloadJobs`), *unterse* (`UnterseStream`) |
| `MCCaches` | *macros* (`MacroCache`), *clients*, *urls* (`RemoteFiles`), *debugger* (`Debugger`) |
| `MCFiles` | external files (`ExternalFiles`), files (`FileManager`), *libraries*, *answers*, *outside* (`Configuration`), *locations*, *uris*, *stream* (`Utilities`) |
| `MCNames` | operation codes (`OpcodeTable`), *definitions* (`MacroDefinition`), *argument texts*, *arguments* (`MacroArguments`), *branches*, *variables*, *arrays*, *messages* (`ConditionalAssembly`), open code (`OpencodeProvider`) |
| `MCAssembler` | *sections*, *psects* (`Sections`), *addresses*, *texts*, *aside* (`AsmStatements`), *symbols* (`SymbolDependencies`), *org*, *loctr* (`LocationCounter`), *using*, *push using* (`Using`) |
| `MCAnalysis` | *arithmetic* ... *comparands* (`CaExpressions`), *data storage* ... *assembler operands* (`OperandChecks`), *cics* ... *endevor* (`Preprocessors`), *outline* ... *listings* (`LspServices`), *fields* ... *assembler statements* (`StatementParsing`), *macro operands* ... *model places* (`MacroParsing`) |

Components that do interact in the code are modelled together, in one module: the work queue with workspaces, the
parser's task and the client; the macro cache with the dependencies and the file versions; the main program with
its sessions and the LSP thread; the reader of external files with the main thread and the threads that ask.

### Threads and the workspace

`WorkQueue`: one action per message of the client (`DidOpenFile`, `DidChangeFile`, `DidCloseFile`, `HandleRequest`,
`CancelRequest`, `AddWorkspace`, `RemoveWorkspace`, `ConfigurationChanged`, `ConfigurationAnswer`,
`ProvideDebuggerConfiguration`, `InvalidateExternalConfiguration`, `Wakeup`), and one per way through an iteration
of `idle_handler` (`WaitForAnswer`, `SuspendHead`, `FinishOpen` ... `FinishDc`, `ParseBegin`, `ParseConfigure`,
`ParseDone`, `ParsePause`, `ParsingDone`, `IdleReturn`). `client`, `manager` and `parser` say where the thread is,
so messages come only where the code lets them. The text of a document is the number of the edit that made it,
settings are numbers; the results of a parse are the texts and settings it was computed from. A workspace object
has a generation: where the code goes through a pointer to an erased object the model does nothing and notes it in
`misused`, and no property relies on it. A document change is two items here as in the code.

`BlockingQueue`: a push (the deque and the state word) is one step under the mutex and `notify_one` another after
it; the reader's test, wait, spurious wakeups and pop are steps. It is shown to implement `MessageQueue`.
`MainProgram` has the threads as program counters, `sessions`, the registrations, `proxies` and what each queue
holds. `LspServer` has the requests of both sides: what is cancellable, the parts of composite responses, watchers
with their counts, the progress token, the diagnostics last published; refusals may come after the state has moved.

`ExternalFiles`: `Register`, `Request`, the poll (`Continue`, `Suspend`, `Yield`) and the read of each thread;
`StoreData`, `Resolve`, `Wake` of the main thread, since a thread may poll between any two of them; the client's
answers, and what drops a task or ends a thread. `FileManager`: sections under `files_mutex` are a step, except the
one that drops a reference before it releases the mutex; `add_file` and `update_file` are split where they wait.
`Configuration`: `conf` is what has been loaded, `parsed` with which group each program was analysed; the four
sources change in the editor, outside and by the client's answers, and an analysis asks the client in between. The
history variables `missed` and `lost` hold the programs that a change did not mark and why, and the libraries of the
groups that a sweep did not visit (section 6).
`MacroCache`: a parse is `ParseBegin`, any requests of members (`NotFound`, `CopyKnown`, `Request`), the `Save` of a
nested analyzer, and `ParseDone`; anything may happen between two of them. `deps` is `m_dependencies`,
`active.next` is `next_dependencies`, `comp` the components of members, `entry` the file manager's map.
`Debugger`: the traced program is any sequence that calls, branches and returns allow; `Loop` ... `ReadNothing` are
the session's thread; `wish` is a history variable: what the user has asked for last.

### The analyzer

`OpcodeTable`: `opcodes` and `macros` map names to entries with generations, `external` the macros of libraries; `then`
is a history variable: what each name meant at each generation. `OpencodeProvider` has the stacks of input and is shown
to implement `InputStream`, a list of lines with a place; what a lookahead for attributes does to the input is
modelled, for a statement of open code and for one of a macro, and what it finds there is not. `MacroDefinition` reads
lines of members and open code, one statement a step. `ConditionalAssembly` has scopes with symbols, counters and
calls, and executes any statement of a set on each line. `SymbolDependencies` has the tables (`deps`, `refs`, `skip`
for the filters and caches) and executes a program of `EQU`, `DS` and `EXTRN`, its reference is the solution of the
equations. `LocationCounter` has the data of each counter and the spaces, and its reference is the layout of a counter
whose lengths are known; `lost` counts the bytes that joining two parts does not add to the storage. `Sections` has
sections, classes, parts, symbols and the message of each statement. `Using` has the chain and the translation at the
end; its reference executes each statement where it stands.

`MacroArguments`, `CaExpressions`, `OperandChecks`, `StatementParsing`, `MacroParsing`, `Preprocessors`,
`LspServices`, `Utilities` and `AsmStatements` are algorithms: an input is chosen and the model takes it through
the function, in one step or in as many as the loop has; the property compares the result with a definition of
what it should be that is written without the algorithm (a grammar, a sum, an order, a range of a message).
Texts are sequences of lexical units: a letter, a digit, an attribute letter, a variable symbol.

### The extension

`ConnectionPool` splits `withClient` at its awaits: take a slot of the semaphore, take or make a connection, the
action, and the way back. `RemoteFiles` splits a request at its awaits; `raced` holds the files
whose request overlaps a removal. `DownloadJobs` has the jobs, the host and
the directories, `UnterseStream` the chunks, the decoder and the chain of file operations.

## 3. The runs

Times are with 2 workers.

| Run | Bounds | States | Shows |
|---|---|---|---|
| `work_queue_safety` | a source in a folder, a member outside, 2 queries, 1 session, 2 settings, 4 messages | 2.1 million | no reparse is forgotten (`StaleIsMarked`), only open files are parsed, one response for each query, answers from fresh results and in turn, items in order |
| `work_queue_liveness` | 1 query, 1 session, 3 messages | 90 000 | everything is served |
| `server` | queue: 3 producers, 3 pushes; main: 2 sessions, 4 messages; queries: hover and a composite one; watchers: 2 holders, 2 bases, 4 requests | 169 000 | no lost wakeup, FIFO refinement, sessions reachable, client answered, requests served |
| `client` | 3 calls, 3 connections, limit 2; 2 jobs in 3 directories, 2 broken downloads; archives with aliases, limit 1 | 68 000 | slots and connections, whole data, everything settles |
| `caches` | 2 programs, a macro, a copy member, 2 texts, 4 events; 2 requests of remote files; 2 lines and a macro, depth 2, 4 requests | 3.1 million | cached macros are what their files say, members in use stay, remote files are fresh, debugger stops as asked |
| `files` | 2 threads, 2 requests; 1 file, 2 loaders, 3 objects, 2 versions; 2 programs, 2 groups defined or not, a group of the client's, up to 4 changes; locations up to 10 characters; records of 3 bytes, pieces of 1 to 14 | 890 000 | answers arrive, files are true, programs are analysed as configured |
| `names` | 2 names, 2 macros, 4 generations; definitions of 6 lines; operands up to 3; 2 to 3 lines of a macro, 2 or 3 calls; open code of 3 lines and a member | 2.0 million | names, macros, variables and lines are read as written |
| `assembler` | 2 names and the unnamed section, 3 statements; 3 symbols, programs of 3 and 4 statements; 5 statements of DS, ORG and LOCTR; 2 sections, 4 registers, 2 or 3 USING statements | 1.1 million | messages, statements, symbols, addresses and USING |
| `analysis` | words of 5 bits, lists of 4; one definition of each type about its limits, texts of 3; sources of 2 to 4 lines; statements and operands of 4 or 5 pieces | 1.8 million | values are right, the source is kept, statements are read as written |
| `work_queue_marked`, `work_queue_config` | a source, 4 messages | | two counterexamples, section 6 |
| `assembler_parts` | as `assembler`, a class may name itself as its part | | a counterexample, section 6 |

Why the bounds are enough for what the runs are about:

- *Work queue*: a race needs an item in progress or queued, a message that invalidates it and one that observes the
  result: open, change (of the source or of the member it uses), query make three, the fourth may be a cancellation, a
  second query, a change of the settings or the removal of the folder. Answers, cancellations and wakeups are not
  bounded. A member outside the folder makes changes come from another workspace.
- *Queues and threads*: a `notify_one` outside the mutex needs two producers and a reader to be lost; the third is a
  `terminate` at the same time. Two sessions are enough for one to be cleaned up while the other registers.
- *External files, file manager*: the second request of a thread is the one a late answer could be taken for; two
  holders and an editor give every race of `use_count`, a third object is needed while an old one is still held.
- *Configuration*: a group may be defined, removed and defined otherwise, in three changes, between the analysis of one
  program and another. One instance has `.bridge.json` with libraries relative to it, one the client's answers (none,
  an inline group, and a group that is defined or not) that may change while one is waited for, one changes outside the
  editor and changes that are discarded; each also changes members of libraries. *Macro cache*: an entry goes wrong
  when a program reads a macro, something changes, and the same or another program reads it again: four events. Both
  texts hold statements, see section 6.
- *Debugger*: launch, a breakpoint, a step and a pause that crosses; a macro of one line at depth 2, and open code that
  may loop. *Remote files*: one change while two requests are at any of their awaits; a removal from the disk may fail.
  *Records*: pieces that are shorter than a record, end in one, and span several.
- *Names*: two names that are defined through each other in four generations have every order of definition, OPSYN and
  loading. *Arguments*: every text of a few characters, balanced or not, `((A),)` among them, positional or behind a
  keyword that the macro knows or does not. *Conditional assembly*: a global symbol needs two scopes that declare it;
  the limits are small so that they are reached.
- *Assembler*: each pair of statements that may be in conflict and one more; a cycle of three symbols; an ORG behind an
  ORG behind a length that is not known; the numbers are on both sides of each limit. The programs of the symbols and
  of the location counters are all of their length, none is left out. `CATTR` has no, one or two operands besides
  `PART`. An `ORG` to a symbol that is not defined yet is in *org* and *loctr* only, not in *addresses*.
- *Listings*: a document with two titles, control and dummy sections, diagnostics between the statements of a page,
  symbols with an address and without, and cross references, and the same without any two of the lines it can do
  without; the assembler puts a dummy section in one of the two cross references at least.
- *Texts*: each rule of a scanner looks at one or two units around its place, so four or five reach every rule in every
  state of it; words of 5 bits have every sign and overflow that words of 32 bits have (a shift by the whole width
  included), and the width is a parameter.

Deadlock is not checked: a program may end, a client may have nothing more to say, an input is read once. Liveness
says what must have happened by then.

### Fairness

| Where | Assumed | Because |
|---|---|---|
| work queue | weak for `StartIdle`, `WaitForAnswer`, `ParsingDone`, `IdleReturn`, `Wakeup` | the loop of the LSP thread never sleeps with work to do |
| | strong for `ConfigurationAnswer` | the protocol obliges the client to answer; messages may always come first |
| | strong for `FinishHead`, `ParseStep` | each call of `idle_handler` resumes the coroutine where it was; one that is resumed again and again completes |
| main program | weak for each thread and for `Provide` | threads are scheduled; the LSP thread provides a configuration or an error (`EverythingIsServed` of the work queue) |
| LSP server | weak for `ClientHandles`, `Receive`, `Serve` | the client handles what it gets; the work queue serves each query |
| pool | weak for the steps of each call, the completion of its action, the timer | the runtime completes promises, or rejects them |
| downloads, unpacking | weak for each stream and for the host | the same; what breaks is a step as well |

Strong fairness of `ParseStep` is the one assumption that can be argued with: a client that changes a document
faster than it can be parsed abandons every parse. The bound on messages excludes it, so `TextSettles` says: when
the client pauses, the results become current. Safety properties assume nothing.


## 4. What the properties say

Each property is stated in words above its definition; the hazards of the code they are for, each with its line,
are listed in `PROJECT.json`. Several properties of the runs are conjunctions of named parts that are defined next to
them. The ones that say most:

- *Work queue.* `StaleIsMarked`: no message, item or end of a parse loses the need to parse a file again.
  `AnsweredInTurn`: a query is answered from results of the texts it was asked about, though items, parses that are
  given up and other queries lie between; a debug session gets the configuration of the folders opened before it, unless
  it overtakes a reload that has begun and sees it empty (`ReloadBegun`). `DrainedIsFresh`: a thread that blocks
  has nothing stale. `OneResponse`, `ArrivalOrder`, `ParsesOpenedFiles`, `EverythingIsServed`.
- *Threads.* `WakeupPending` and `ImplementsMessageQueue` of the queue; `SessionsReachable`: messages of a session and
  closures reach its thread while it is registered; `ClientIsAnswered`, `RequestsAreServed`.
- *External files.* `NoAnswerIsLost` and `RightAnswer`, with tasks dropped and ids of requests still outstanding.
- *Files and configuration.* `FilesAreTrue`, `HandedOutIsKept`; `AnalysedAsConfigured`: a program was analysed with the
  group it has now or is marked; `LibraryChangeIsSeen`.
- *Macro cache.* `HitAsParsed`: a macro that is taken from the cache is what parsing it would give; `MembersStayOpen`,
  `ResultsAreCurrent`. *Remote files*: `RemoteIsFresh`. *Debugger*: `StopsAsAsked`.
- *Analyzer.* `ReadAsWritten`, `MacrosAsWritten`, `VariablesAsWritten`, `ReadsTheStream`, `ValuesAreRight`,
  `StatementsAsWritten`, `SourceIsKept`, `StatementsAreRight`, `StatementsAct`, `SymbolsAreSolved`, `AddressesAreRight`,
  `UsingActsAtOnce`, `NamesAreTold`: what the incremental algorithm gives is what a definition of the result that does
  not know the algorithm gives.
- *Extension.* `SlotsAreShared`, `ConnectionsAreOwned`, `DataIsWhole`, `EverythingSettles`.

Each property has at least one mutant in `PROJECT.json`: a wrong version of a definition with which TLC refutes it.

## 5. The proofs

All are properties of `Spec` (no fairness), for any constants that satisfy the `ASSUME` of the module: any documents,
finite set of folders, queries, sessions, threads, producers, names, texts, calls, and any values of the bounds on
messages, events, requests and generations. The assumptions only say what the constants are (a home for each file, the
name of each location, values that stand for "none" and are no others), except that the pool has at least one slot
and finitely many calls.

| Theorem | States | Inductive invariant |
|---|---|---|
| `WorkQueueProofs!TypeCorrect` | `TypeOK` | itself |
| `WorkQueueProofs!ParsesOnlyOpened` | `ParsesOpenedFiles` | with `TypeOK` |
| `WorkQueueProofs!QueueIsOrdered` | `ArrivalOrder`, `DcAfterOpen` | `QueueOrder` = both and `Numbered` |
| `WorkQueueProofs!AskedAreOutstanding` | `AskedIsOutstanding` | with `QueueOrder` |
| `WorkQueueProofs!NoReparseForgotten` | `StaleIsMarked` | `MarkedInv` = `HalvesAdjacent`, `ReadIsCurrent`, `StaleIsDue` |
| `WorkQueueProofs!OneResponseEach` | `OneResponse` | `QueriesAsked` |
| `WorkQueueProofs!DrainedStaysFresh` | `DrainedIsFresh` | `AnswerInv` = `QueriesAsked`, `SentInTurn`, `AskedInTurn`, `DocsInTurn`, `ParsedInv` |
| `WorkQueueProofs!AnsweredInOrder` | `AnsweredInTurn` (actions) | `AnswerInv`; `LoadInv` = `BegunFirst`, `LoadDue`, `DcAfterOpen` |
| `BlockingQueue!TypeCorrect`, `FlagIsRight`, `NoLostWakeup` | `TypeOK`, `StateTellsContent`, `WakeupPending` | with `TypeOK` |
| `BlockingQueue!Implements` | `Spec => Abstract!Spec` | a step of `MessageQueue` or a stutter for each action |
| `ExternalFilesProofs!AnswersArrive`, `AnswersAreRight` | `NoAnswerIsLost`, `RightAnswer` | `IInv` = `TypeOK`, `Running`, `OneAsker`, `NotDrawn`, `Written`, `Told`, `NoAnswerIsLost` |
| `MacroCacheProofs!MembersStay` | `MembersStayOpen` | `IInv` = `TypeOK`, `ParseInv`, `WorkspaceInv`, `~failed` |
| `MacroCacheProofs!ResultsStayCurrent` | `ResultsAreCurrent`, when `Blank = {}` | `IInv` and `CInv` = `CachesSound`, `IsCurrent`, `ResultsHold` |
| `OpcodeTableProofs!MeaningsStay` | `ReadAsWritten` | `IInv` = `TypeOK`, `ReadAsWritten`, `NothingAhead` |
| `SectionsProofs!NamesTold` | `NamesAreTold` | `Good(Context)` = `Typed` and (`Own` or `Told`) |
| `ConnectionPoolProofs!SemaphoreIsRight` | `SlotsAreShared` | `SemaphoreInv` = `Typed`, `GivenHas`, `WaitersQueued`, `SlotsConserved` |
| `ConnectionPoolProofs!PoolIsRight` | `ConnectionsAreOwned` | `PoolInv` = `OneOwner`, `LimitRespected`, `RevokedIsGone`, `RevokedInUse`, `NothingKept` |

*Order of items.* That new items go to the end in order needs `Numbered`: no item has a number above the clock. That a
session's item never passes the opening of a folder follows from where `LastOpen` puts it. Most actions leave the
order alone, which `SameItems` says once for resolving an answer and for suspending an item.

*No reparse is forgotten.* `StaleIsMarked` alone is not inductive. The texts a suspended parse has read must be
the current ones, or its end would unmark a stale file (`ReadIsCurrent`): a `file_change` item abandons the parse,
and no other item changes a text. And the second half of a change must follow the first (`HalvesAdjacent`): only
then is what the first half makes stale due to be marked before anything else is parsed. A session's item may
get in front of the second half once the first is executed, and does no harm, since it does not parse.

*Answers in turn.* A query remembers the texts the editor had when it asked. `AskedInTurn` says what the queue is going
to do to each text: of the items before the query that write it, the last one writes what was asked, and if there is
none the text is that already. `SentInTurn` and `DocsInTurn` say the same of the whole queue, of the editor's texts and
of the opened documents. All three have one shape (`LastIs`) and are kept by appending an item that
writes, by executing the head and by inserting a session's item, which is proved of `LastIs` once. At the head of the
queue a query has no items before it; together with `ParsedInv` (while parsing is done all results are fresh) and
`MarkedInv` its answer is fresh. When the queue is empty the same facts give `DrainedIsFresh`.

*Configured sessions.* A workspace object that is not loaded has an item that will load it (`LoadDue`), and a load
that has begun is at the head (`BegunFirst`); a session's item stays behind the openings older than it, so at its turn
the object is loaded or a reload has begun.

*External files.* A thread, the main thread and the client share nothing but the number of a request. The invariant
follows the number: one thread at most asks for it (`OneAsker`), nobody knows it before it is drawn (`NotDrawn`),
it goes out once and only after its entry is in the map (`Written`), and wherever the answer is - in the
stream, in the hands of the main thread, in the response, with the thread - it is what the client said (`Told`).
A thread that ends takes its entries away while the main thread may be about to give it an answer: the main thread's
hands count as asking.

*Members stay open.* When a macro is saved its copy members must be found, which depends on who holds them. `ParseInv`
says of the parse: each member it is in, and each copy member it has used or knows, is a dependency already
(`Kept`), and what it has taken is the current object of a file, not closed, with a component (`Held`). What a cached
macro brings along must not be a missing file, so stamps are never of version 0. Every step that closes or replaces
a file drops the parse, which makes `ParseInv` hold again. `WorkspaceInv` says that files that are open have
components, and that files that are not open use nothing.

*Results are current.* A dependency is an object of a file, and as long as the file's entry has its version, and is not
closed, it stands for a text (`Holds`). What the results of a file that is not marked were read from is among these
texts (`ResultsHold`); so is all that the parse has read (`IsCurrent`). A cached member may be older than that, so of
every cached member `CachesSound` says that each text it was made from has a stamp, and that a stamp whose version is
that of the entry means the text of the entry: a valid one was made from the texts of now. It stays so because a
version is given out once (`Forward`). Reading a member changes no entry that somebody depends on, an event that does
marks the dependents. `Blank = {}` is needed: a copy member without a statement is not among the stamps of the macro
(section 6), and with `Blank = {plain}` TLC finds results that are not current after 12 states. Configurations are free
here, unlike in `HitAsParsed`: results are of the current texts of the members that were read, which need not be the
members a new parse would find.

*Operation codes.* Every change has one shape (`Grows`): entries are added, at generations nothing has used
(`NothingAhead`), so what was found at an older generation is found again. That a generation has a last entry is by
well-founded induction on `Nat`, which the library has as a fact about sets (`WFMin`).

*Sections.* Statements are functions on the context composed of a few methods, so the invariant is stated of a context
and proved of each method: a section made with a free name (`Adding`), a switch, a counter, a symbol. `Told` says that a
section has a counter of its own name and that the symbol of a counter is in the section that has it: therefore a
name whose symbol is free has no section, which is what the code relies on when it looks at the symbol only. Nothing
was switched to and no control section was noted: then there is no unnamed section (`Begun`), so
`ensure_current_section` and the end of the program may create one without a look. The one statement that breaks it
makes a section that is part of a class of its own name (`Own`), which then stays (section 6).

*The pool.* Free slots and calls that hold one add up to the limit, so no call waits while one is free; a connection is
in one place: with the call that has it or in the pool. A connection that is revoked while it is used is not given
back (`RevokedInUse`), and a disposed pool keeps none.

Only model-checked: liveness and `ENABLED`, which are out of the prover's reach; the modules with recursive operators
(`LocationCounter`, `SymbolDependencies`, the algorithms on texts and their references), about which it cannot reason;
`HitAsParsed`, which holds for the configurations of the run and not for all (section 6); and, so far,
`FileManager`, `Configuration`, `RemoteFiles`, `Debugger`, `MainProgram`, `LspServer`, `DownloadJobs`,
`UnterseStream`, `OpencodeProvider` with its refinement, `MacroDefinition`, `ConditionalAssembly` and `Using`.

## 6. What the checks found

Each is a run that TLC refutes and a finding in `PROJECT.json` with the sentence or the assertion it contradicts.

- `NothingLeftMarked` (`work_queue_marked`): a change of the settings executed after a query in the same call of
  `idle_handler` marks files, but `parsing_done` is still set: they wait for the next message.
- `CurrentConfiguration` (`work_queue_config`): only `file_change` items drop a suspended parse; after a change
  of the settings it completes with the old configuration and takes the mark away.
- `NamesAreUnique` (`assembler_parts`): `X CATTR PART(X)` looks for both names before it makes the class and then the part,
  against the assertion of `create_and_set_class`; the program has two sections X.

Observed while modelling; the models do what the code does, and properties are stated so that they allow it, naming
what they except:

| Where | What |
|---|---|
| `PL/workspace_manager.cpp:1086` | a folder added and removed twice before its items run is erased twice through one iterator |
| `PL/workspaces/file_manager_impl.cpp:257` | the last reference to a closed file, dropped under `files_mutex`, runs the destructor that locks it again |
| `PL/workspaces/macro_cache.cpp:73` | a cached macro is valid while the files it was read from are; a copy member that another library has by now is not noticed |
| `macrodef_processor.cpp:464` | a copy member without any statement that a macro is the first to read is not among its members |
| `PL/debugging/debugger.cpp:356` | a pause that crosses a stop makes the next step over stop inside the macro |
| `LS/lsp/feature_language_features.cpp:688` | each part of a composite response that fails sends an error |
| `ca_operator_binary.cpp:168` | a shift by 0 gives the number of places and not the shifted value; below, SRA by 32 and more gives -1 for any sign |
| `PL/diagnostic_op.cpp:1231`, `:2247` | the messages A238 and W014 carry the codes of others |
| `VS/FBStreamingConvertor.ts:33` | a piece that does not complete the record begun by the piece before replaces its beginning: bytes are lost. `StreamIsContent` says what is left of the content (`overwritten`) |
| `program_configuration_storage.cpp:157` | an answer of the client whose group is not defined is kept when the client invalidates it: the program stays with it (`Stuck`) |
| `workspace_manager.cpp:1142` | an answer that the client replaces while it is waited for is used, and nothing marks the program (`missed`, *overtaken*) |
| `workspace.cpp:813` | a change of the configuration outside the editor marks the programs that have one of the groups there were; a program without a group stays without one (*outside*) |
| `workspace.cpp:747` | closing `proc_grps.json` without saving it loads no configuration: the programs stay with the text that was discarded (*discarded*) |
| `workspace_configuration.cpp:515` | the sweep after a `.bridge.json` visits the groups of its folder only: a library that groups of `proc_grps.json`, of another folder or of the client use is dropped with its watcher (`lost`) |
| `VS/hlasmExternalFiles.ts:557`, `:692` | a file that is retrieved while its caches are cleared is stored afterwards, and one whose removal fails stays; `RemoteIsFresh` excepts both (`raced`). That numbers of requests start again with a restarted server (`:419`) is not modelled |
| `opencode_provider.cpp:80` | `rewind_input` clears the buffer of AINSERT also for a lookahead: records that a macro inserted before the statement that looks ahead are not read |
| `statement_provider.cpp:80` | a lookahead from a macro goes on in open code behind the last statement read there: lines that AREAD has read since are read again |
| `macro_processor.cpp:209` | when a string is split into sublists, an empty operand behind a sublist is lost with its comma: `((A),)` has one component (`Lost`) |
| `macro_processor.cpp:434` | variable symbols behind a keyword the macro does not know are not evaluated |
| `asm_processor.cpp:312` | EQU takes the length its leftmost symbol has when it is read; -1, the mark of an unknown one, stays, and what needs that length is given up (`NoLength`) |
| `asm_processor.cpp:339` | an attribute of a symbol whose EQU has no value yet is known, and what waits for it is looked at again only with the value (`OfValueless`) |
| `location_counter_data.cpp:56` | joining two parts adds to the storage the bytes behind the first space of the second only; behind an ORG whose operand was not defined, with an aligned DS, the next LOCTR begins too low (`IsShort`, `lost`) |
| `ordinary_processor.cpp:384` | a statement put aside whose operands cannot be evaluated ends the check of all behind it; `ToldUnlessStopped` says what is told until then, and no property says that all of it is |
| `using.cpp:427` | where no USING is in force an absolute address is not served by register 0, as it is where one is |
| `VS/hlasmListingServices.ts:262` | a diagnostic ends the page it is printed on: a position on a statement below it is looked up by its word alone until the outline is shown (`AfterDiagnostic`) |
| `VS/hlasmListingServices.ts:459` | a dummy section that has no symbol takes the place of the ordinary symbol read last, which is then not put away |
| `asm_processor.cpp:1590` | the look for both names before the class and its part are made, see `assembler_parts` |

Two documents describe code that is gone: `docs/Language-server-pages/Request-manager.md` a request manager, and
`docs/Macro-tracer.md` a thread for the analysis apart from the session's.

## 7. Not modelled, and the plan

Not modelled: I/O and framing, JSON and the formatting of messages, the table of machine instructions and its checks,
the literal pool, code generated by preprocessors, what a lookahead for attributes finds, system variables other than
SYSLIST and SYSNDX, memory that is reclaimed late, undefined behaviour beyond what the models note.

Proofs that are worth doing next, in this order:

1. `FileManager`: `FilesAreTrue` and `HandedOutIsKept`, whose invariant says who holds which object at which
   version while the mutex is free.
2. `RemoteFiles` (`RemoteIsFresh`) and `Debugger` (`StopsAsAsked`).
3. The refinement of `InputStream` by `OpencodeProvider`.

Of the models, the literal pool together with sections and the results of the lookahead for attributes are what is
missed most.
