----------------------------- MODULE FileManager -----------------------------
(***************************************************************************)
(* parser_library/src/workspaces/file_manager_impl.cpp: the files of the   *)
(* editor and of the disk, shared by the LSP thread and the debuggers.     *)
(*                                                                         *)
(* m_files maps a location to a mapped_file object without owning it: an   *)
(* object lives as long as somebody holds a shared_ptr to it, and removes  *)
(* its entry when it is destroyed. A document that the editor has open     *)
(* holds itself (m_editing_self_reference).                                *)
(*                                                                         *)
(* Sections under files_mutex are one step, except those that drop a       *)
(* reference before they release the mutex: other threads drop theirs      *)
(* without it. A destructor needs the mutex; run by the thread that holds  *)
(* it already, it never returns, and the mutex is never released.          *)
(***************************************************************************)
EXTENDS Naturals, FiniteSets

CONSTANTS
  File, Text,
  Loader,        \* users of files: a task of the LSP thread, debug sessions
  Object,        \* bound: mapped_file objects at a time
  Error,         \* content of a file that cannot be read
  None,
  MaxVersion     \* bound: versions given out (next_global_version)

FilesAssumption ==
  MaxVersion \in Nat /\ Error \notin Text /\ None \notin Text /\ None \notin Object

Content == Text \cup {Error}

VARIABLES
  files,      \* m_files: [file -> [object, closed] or None]
  object,     \* the objects
  version,    \* the last global version
  held,       \* objects a loader holds
  load,       \* load[l]: the coroutine of add_file or update_file, or None
  mutex,      \* the loader inside a section of two steps, or None
  stuck,      \* that loader waits for the mutex it holds
  editor,     \* the text of a document in the editor, None when it is not open
  disk,       \* external: the content of a file
  textOf,     \* history: the file and text each version was given to
  onDisk      \* history: contents a file has had on the disk

vars == <<files, object, version, held, load, mutex, stuck, editor, disk, textOf, onDisk>>
history == <<textOf, onDisk>>

Free == [file |-> None, text |-> None, version |-> 0, editing |-> FALSE, listed |-> FALSE,
         life |-> "free"]

Init ==
  /\ files = [f \in File |-> None]
  /\ object = [o \in Object |-> Free]
  /\ version = 0
  /\ held = [l \in Loader |-> {}] /\ load = [l \in Loader |-> None]
  /\ mutex = None /\ stuck = FALSE
  /\ editor = [f \in File |-> None]
  /\ disk \in [File -> Content]
  /\ textOf = [v \in 1..MaxVersion |-> None]
  /\ onDisk = [f \in File |-> {disk[f]}]

-----------------------------------------------------------------------------
(* Objects.                                                                *)
Unlocked == mutex = None

Mapped(f) == files[f] # None

(* shared_from_this: fails when the last reference has been dropped.       *)
Alive(f) == Mapped(f) /\ object[files[f].object].life = "alive"
Holders(o) == {l \in Loader : o \in held[l]}

(* make_mapped_file                                                        *)
New(f, t, editing) ==
  [file |-> f, text |-> t, version |-> version + 1, editing |-> editing, listed |-> TRUE,
   life |-> "alive"]
CanCreate == version < MaxVersion /\ \E o \in Object : object[o].life = "free"
Fresh == CHOOSE o \in Object : object[o].life = "free"
NextVersion(f, t) ==
  /\ version' = version + 1
  /\ textOf' = [textOf EXCEPT ![version + 1] = [file |-> f, text |-> t]]

(* Objects after the entry of f has been erased.                           *)
Unlisted(f) ==
  IF Mapped(f) THEN [object EXCEPT ![files[f].object].listed = FALSE] ELSE object

(* A reference is dropped; the last one starts the destructor.             *)
Release(l, o) ==
  /\ o \in held[l] /\ mutex # l
  /\ held' = [held EXCEPT ![l] = @ \ {o}]
  /\ object' = IF Holders(o) = {l} /\ ~object[o].editing /\ ~(~Unlocked /\ load[mutex].object = o)
                 THEN [object EXCEPT ![o].life = "dying"] ELSE object
  /\ UNCHANGED <<files, version, load, mutex, stuck, editor, disk, history>>

(* ~mapped_file                                                            *)
Destroy(o) ==
  /\ Unlocked /\ object[o].life = "dying"
  /\ files' = IF object[o].listed THEN [files EXCEPT ![object[o].file] = None] ELSE files
  /\ object' = [object EXCEPT ![o] = Free]
  /\ UNCHANGED <<version, held, load, mutex, stuck, editor, disk, history>>

-----------------------------------------------------------------------------
(* add_file                                                                *)
Loading(op, f) == [op |-> op, step |-> "load", file |-> f, text |-> None, object |-> None]

(* The first section: the file is there, or its text is loaded. A closed   *)
(* file is looked at and let go.                                           *)
AddBegin(l, f) ==
  /\ Unlocked /\ load[l] = None
  /\ \/ /\ Alive(f) /\ ~files[f].closed
        /\ held' = [held EXCEPT ![l] = @ \cup {files[f].object}]
        /\ UNCHANGED <<files, object, load, mutex>>
     \/ /\ ~Alive(f)
        /\ object' = Unlisted(f) /\ files' = [files EXCEPT ![f] = None]
        /\ load' = [load EXCEPT ![l] = Loading("add", f)]
        /\ UNCHANGED <<held, mutex>>
     \/ /\ Alive(f) /\ files[f].closed
        /\ load' = [load EXCEPT ![l] =
                      [Loading("add", f) EXCEPT !.step = "let go", !.object = files[f].object]]
        /\ mutex' = l
        /\ UNCHANGED <<files, object, held>>
  /\ UNCHANGED <<version, stuck, editor, disk, history>>

(* The local reference is dropped with the mutex held: the destructor, if  *)
(* it is the last one, would lock it once more.                            *)
LastReference(o) == Holders(o) = {} /\ ~object[o].editing

LetGo(l) ==
  /\ mutex = l /\ load[l].step = "let go" /\ ~stuck
  /\ IF LastReference(load[l].object)
       THEN stuck' = TRUE /\ UNCHANGED <<load, mutex>>
       ELSE /\ load' = [load EXCEPT ![l] = Loading("add", @.file)]
            /\ mutex' = None /\ UNCHANGED stuck
  /\ UNCHANGED <<files, object, version, held, editor, disk, history>>

(* load_text                                                               *)
Load(l) ==
  /\ load[l] # None /\ load[l].step = "load"
  /\ load' = [load EXCEPT ![l].step = "loaded", ![l].text = disk[load[l].file]]
  /\ UNCHANGED <<files, object, version, held, mutex, stuck, editor, disk, history>>

(* The coroutine is destroyed together with its task.                      *)
Abandon(l) ==
  /\ load[l] # None /\ mutex # l
  /\ load' = [load EXCEPT ![l] = None]
  /\ UNCHANGED <<files, object, version, held, mutex, stuck, editor, disk, history>>

Loaded(l, op) == Unlocked /\ load[l] # None /\ load[l].op = op /\ load[l].step = "loaded"

(* Defect: a closed file is handed out whatever has been loaded.           *)
FinishUnchecked(l, f) ==
  /\ Loaded(l, "add") /\ load[l].file = f
  /\ Alive(f)
  /\ held' = [held EXCEPT ![l] = @ \cup {files[f].object}]
  /\ files' = [files EXCEPT ![f].closed = FALSE]
  /\ load' = [load EXCEPT ![l] = None]
  /\ UNCHANGED <<object, version, mutex, stuck, editor, disk, history>>

(* The second section finds a file after all: what has been loaded is of   *)
(* no interest unless the file is closed.                                  *)
FinishFound(l, f) ==
  /\ Loaded(l, "add") /\ load[l].file = f
  /\ Alive(f) /\ (files[f].closed => object[files[f].object].text = load[l].text)
  /\ held' = [held EXCEPT ![l] = @ \cup {files[f].object}]
  /\ files' = [files EXCEPT ![f].closed = FALSE]
  /\ load' = [load EXCEPT ![l] = None]
  /\ UNCHANGED <<object, version, mutex, stuck, editor, disk, history>>

(* It finds a closed file with another text: the entry is erased, and then *)
(* the local reference is dropped with the mutex held.                     *)
FinishOutdated(l, f) ==
  /\ Loaded(l, "add") /\ load[l].file = f
  /\ Alive(f) /\ files[f].closed /\ object[files[f].object].text # load[l].text
  /\ object' = Unlisted(f) /\ files' = [files EXCEPT ![f] = None]
  /\ load' = [load EXCEPT ![l].step = "replace", ![l].object = files[f].object]
  /\ mutex' = l
  /\ UNCHANGED <<version, held, stuck, editor, disk, history>>

Create(l, f) ==
  /\ CanCreate /\ NextVersion(f, load[l].text)
  /\ object' = [Unlisted(f) EXCEPT ![Fresh] = New(f, load[l].text, FALSE)]
  /\ files' = [files EXCEPT ![f] = [object |-> Fresh, closed |-> FALSE]]
  /\ held' = [held EXCEPT ![l] = @ \cup {Fresh}]
  /\ load' = [load EXCEPT ![l] = None]

Replace(l, f) ==
  /\ mutex = l /\ load[l].step = "replace" /\ load[l].file = f /\ ~stuck
  /\ IF LastReference(load[l].object)
       THEN stuck' = TRUE /\ UNCHANGED <<object, files, held, load, mutex, version, textOf>>
       ELSE Create(l, f) /\ mutex' = None /\ UNCHANGED stuck
  /\ UNCHANGED <<editor, disk, onDisk>>

FinishNew(l, f) ==
  /\ Loaded(l, "add") /\ load[l].file = f
  /\ ~Alive(f) /\ Create(l, f)
  /\ UNCHANGED <<mutex, stuck, editor, disk, onDisk>>

(* update_file: nothing to do for a file nobody uses, or the editor has    *)
(* open.                                                                   *)
UpdateBegin(l, f) ==
  /\ Unlocked /\ load[l] = None
  /\ Mapped(f) /\ ~object[files[f].object].editing
  /\ load' = [load EXCEPT ![l] = Loading("update", f)]
  /\ UNCHANGED <<files, object, version, held, mutex, stuck, editor, disk, history>>

(* Defect: the text of a file opened in the meantime is thrown away.       *)
UpdateAnyway(l, f) ==
  /\ Loaded(l, "update") /\ load[l].file = f
  /\ load' = [load EXCEPT ![l] = None]
  /\ IF ~Mapped(f)
       THEN UNCHANGED <<files, object>>
     ELSE IF object[files[f].object].text = load[l].text
       THEN files' = [files EXCEPT ![f].closed = FALSE] /\ UNCHANGED object
     ELSE object' = Unlisted(f) /\ files' = [files EXCEPT ![f] = None]
  /\ UNCHANGED <<version, held, mutex, stuck, editor, disk, history>>

UpdateFinish(l, f) ==
  /\ Loaded(l, "update") /\ load[l].file = f
  /\ load' = [load EXCEPT ![l] = None]
  /\ IF ~Mapped(f) \/ object[files[f].object].editing
       THEN UNCHANGED <<files, object>>
     ELSE IF object[files[f].object].text = load[l].text
       THEN files' = [files EXCEPT ![f].closed = FALSE] /\ UNCHANGED object
     ELSE object' = Unlisted(f) /\ files' = [files EXCEPT ![f] = None]
  /\ UNCHANGED <<version, held, mutex, stuck, editor, disk, history>>

-----------------------------------------------------------------------------
(* The documents of the editor.                                            *)

(* did_open_file: keeps the object when its text is the document's.        *)
Open(f, t) ==
  /\ Unlocked /\ editor[f] = None
  /\ editor' = [editor EXCEPT ![f] = t]
  /\ IF Alive(f) /\ object[files[f].object].text = t
       THEN /\ object' = [object EXCEPT ![files[f].object].editing = TRUE]
            /\ files' = [files EXCEPT ![f].closed = FALSE]
            /\ UNCHANGED <<version, textOf>>
       ELSE /\ CanCreate /\ NextVersion(f, t)
            /\ object' = [Unlisted(f) EXCEPT ![Fresh] = New(f, t, TRUE)]
            /\ files' = [files EXCEPT ![f] = [object |-> Fresh, closed |-> FALSE]]
  /\ UNCHANGED <<held, load, mutex, stuck, disk, onDisk>>

Shared(f) == Holders(files[f].object) # {}
ChangeInPlace(f, t) ==
  /\ object' = [object EXCEPT ![files[f].object].text = t,
                              ![files[f].object].version = version + 1]
  /\ UNCHANGED files
ChangeCopy(f, t) ==
  /\ \E o \in Object : object[o].life = "free"
  /\ object' = [object EXCEPT ![files[f].object].listed = FALSE,
                              ![files[f].object].editing = FALSE,
                              ![Fresh] = New(f, t, TRUE)]
  /\ files' = [files EXCEPT ![f] = [object |-> Fresh, closed |-> FALSE]]

(* did_change_file: copy on write, when others hold the object.            *)
Change(f, t) ==
  /\ Unlocked /\ editor[f] # None
  /\ editor' = [editor EXCEPT ![f] = t]
  /\ IF Alive(f) /\ ~files[f].closed
       THEN /\ version < MaxVersion /\ NextVersion(f, t)
            /\ IF Shared(f) THEN ChangeCopy(f, t) ELSE ChangeInPlace(f, t)
       ELSE UNCHANGED <<files, object, version, textOf>>
  /\ UNCHANGED <<held, load, mutex, stuck, disk, onDisk>>

(* did_close_file: a file that others use is kept, closed. The other one   *)
(* goes on holding itself and is never destroyed.                          *)
Close(f) ==
  /\ Unlocked /\ editor[f] # None
  /\ editor' = [editor EXCEPT ![f] = None]
  /\ IF Alive(f) /\ Shared(f) /\ object[files[f].object].text # Error
       THEN /\ object' = [object EXCEPT ![files[f].object].editing = FALSE]
            /\ files' = [files EXCEPT ![f].closed = TRUE]
       ELSE /\ object' = Unlisted(f)
            /\ files' = [files EXCEPT ![f] = None]
  /\ UNCHANGED <<version, held, load, mutex, stuck, disk, history>>

(* Files change on the disk at any time.                                   *)
DiskChanges(f, c) ==
  /\ disk[f] # c
  /\ disk' = [disk EXCEPT ![f] = c]
  /\ onDisk' = [onDisk EXCEPT ![f] = @ \cup {c}]
  /\ UNCHANGED <<files, object, version, held, load, mutex, stuck, editor, textOf>>

Next ==
  \/ \E l \in Loader, f \in File :
       \/ AddBegin(l, f) \/ FinishFound(l, f) \/ FinishOutdated(l, f) \/ FinishNew(l, f)
       \/ Replace(l, f) \/ UpdateBegin(l, f) \/ UpdateFinish(l, f)
  \/ \E l \in Loader : LetGo(l) \/ Load(l) \/ Abandon(l)
  \/ \E l \in Loader, o \in Object : Release(l, o)
  \/ \E o \in Object : Destroy(o)
  \/ \E f \in File, t \in Text : Open(f, t) \/ Change(f, t)
  \/ \E f \in File : Close(f)
  \/ \E f \in File, c \in Content : DiskChanges(f, c)

Spec == Init /\ [][Next]_vars

-----------------------------------------------------------------------------
(* Properties.                                                             *)

(* The variables hold values of these sets.                                *)
Loads == [op : {"add", "update"}, step : {"load", "loaded", "let go", "replace"},
          file : File, text : Content \cup {None}, object : Object \cup {None}]
TypeOK ==
  /\ files \in [File -> [object : Object, closed : BOOLEAN] \cup {None}]
  /\ object \in [Object -> [file : File \cup {None}, text : Content \cup {None},
                            version : 0..MaxVersion, editing : BOOLEAN, listed : BOOLEAN,
                            life : {"free", "alive", "dying"}]]
  /\ version \in 0..MaxVersion
  /\ held \in [Loader -> SUBSET Object]
  /\ load \in [Loader -> Loads \cup {None}]
  /\ mutex \in Loader \cup {None} /\ stuck \in BOOLEAN
  /\ editor \in [File -> Text \cup {None}] /\ disk \in [File -> Content]
  /\ textOf \in [1..MaxVersion -> [file : File, text : Content] \cup {None}]
  /\ onDisk \in [File -> SUBSET Content]

(* No entry dangles: m_files refers to objects that are not destroyed, and *)
(* an object knows whether m_files refers to it (m_it, up_to_date): what   *)
(* destroys an object would otherwise leave its entry or take another's.   *)
(* A holder never loses its object, whoever else drops it.                 *)
EntriesAgree ==
  /\ \A f \in File : Mapped(f) =>
       LET o == object[files[f].object] IN o.life # "free" /\ o.listed /\ o.file = f
  /\ \A o \in Object : object[o].listed =>
       Mapped(object[o].file) /\ files[object[o].file].object = o
  /\ \A l \in Loader : \A o \in held[l] : object[o].life = "alive"

(* An open document is what the editor shows, for everybody: no load that  *)
(* began before it was opened, no update and no destructor replaces it.    *)
OpenIsShown ==
  \A f \in File : editor[f] # None =>
    /\ Alive(f) /\ ~files[f].closed
    /\ object[files[f].object].editing /\ object[files[f].object].text = editor[f]

(* A version stands for one text of one file: results cached by version    *)
(* (the macro cache) are those of the text.                                *)
VersionTellsText ==
  \A o \in Object : object[o].life # "free" =>
    textOf[object[o].version] = [file |-> object[o].file, text |-> object[o].text]

(* What a holder reads does not change under its hands, although changes   *)
(* are made in place when nobody holds the file.                           *)
HeldNeverChange ==
  [][\A l \in Loader : \A o \in held[l] \cap held'[l] :
       object'[o].text = object[o].text /\ object'[o].version = object[o].version]_vars

(* Once a document is closed, a text that was never saved is not handed    *)
(* out any more, even while the object that has it is in use.              *)
NothingUnsaved ==
  [][\A l \in Loader : \A o \in held'[l] \ held[l] :
       editor[object'[o].file] = None => object'[o].text \in onDisk[object'[o].file]]_vars

=============================================================================
