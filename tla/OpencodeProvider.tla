-------------------------- MODULE OpencodeProvider --------------------------
(***************************************************************************)
(* Where the statements of the open code come from                         *)
(* (opencode_provider.cpp): the document, which a preprocessor has         *)
(* replaced, whose generated lines are read as COPY members of their own;  *)
(* COPY members; and the records of AINSERT. A macro reads lines of them   *)
(* with AREAD. The module implements InputStream.                          *)
(*                                                                         *)
(* A lookahead reads ahead as it likes and returns; AGO returns to one     *)
(* labelled statement. Lines and statements are counted from 0, -1 stands  *)
(* for (size_t)-1. What the lines contain, their highlighting and the      *)
(* parsing of the fields are left out.                                     *)
(***************************************************************************)
EXTENDS Integers, Sequences, FiniteSets

Seqs == INSTANCE SequencesExt

CONSTANTS
  Member,       \* COPY members
  Copies,       \* Member -> text
  Documents,    \* [raw, text]: before and after the preprocessor
  Records,      \* the lines that AINSERT inserts
  None,
  Options,      \* at most so many *PROCESS statements, 10 in the code
  Fetches,      \* bound: instructions whose definition has to be fetched
  MacroSteps,   \* bound: AREADs and AINSERTs of one macro
  Actr          \* bound: jumps

(* no: its line in the file, None in a line that was generated.            *)
Kind == {"plain", "ref", "comment", "macro", "copy", "label", "ago", "ictl", "process"}
Line == [id : STRING, no : {None} \cup Nat, kind : Kind, cont : BOOLEAN, of : {None} \cup Member]

OpencodeProviderAssumption ==
  /\ Options \in Nat /\ MacroSteps \in Nat /\ Actr \in Nat /\ Fetches \in Nat
  /\ Records \subseteq Line /\ \A m \in Member : Copies[m] \in Seq(Line)
  /\ \A d \in Documents :
       /\ d.raw \in Seq(Line) /\ d.text \in Seq(Line)
       /\ \A i, j \in DOMAIN d.text :
            i < j /\ d.text[i].no # None /\ d.text[j].no # None => d.text[i].no < d.text[j].no

VARIABLES
  document, \* history: the document
  doc,      \* m_input_document
  next,     \* m_next_line_index
  begin,    \* source_indices: what AGO returns to
  end,
  copies,   \* opencode_copy_stack
  ainsert,  \* m_ainsert_buffer
  virtual,  \* m_virtual_files: name -> text
  task,     \* helper_task_ of the processing manager
  restart,  \* m_restart_process_ordinary
  opts,     \* [ictl, process]: ictl_allowed, process_remaining
  macro,    \* steps left in the macro being expanded, None in the open code
  label,    \* the position of the labelled statement
  actr,     \* jumps left
  fetches,  \* instructions that may still be unknown
  sought,   \* statements whose attributes have been looked for
  out       \* history: what was read last
input == <<doc, next, begin, end, copies, ainsert>>
vars == <<document, doc, next, begin, end, copies, ainsert, virtual, task, restart, opts,
          macro, label, actr, fetches, sought, out>>

-----------------------------------------------------------------------------
(* Texts.                                                                  *)
Text(f) == IF f.of[1] = "copy" THEN Copies[f.of[2]] ELSE virtual[f.of]
Starts(t, from) == {l \in from..(Len(t) - 1) : l = from \/ ~t[l].cont}
After(t, l) ==
  CHOOSE k \in (l + 1)..Len(t) :
    /\ k = Len(t) \/ ~t[k].cont
    /\ \A j \in (l + 1)..(k - 1) : t[j].cont

(* is_comment. A *PROCESS that is not accepted is one.                     *)
Comment(l) == l.kind \in {"comment", "process"}

(* cached_definition: the lines of the statements of a member.             *)
StmtLines(t) == {l \in Starts(t, 0) : ~Comment(t[l + 1])}
StmtLine(t, i) == CHOOSE l \in StmtLines(t) : Cardinality({k \in StmtLines(t) : k < l}) = i
Count(t) == Cardinality(StmtLines(t))

Ids(t, a, b) == [k \in 1..(b - a) |-> t[a + k].id]

(* copy_member_invocation. seen is history: what has been read of it.      *)
NewFrame(of, at) == [of |-> of, stmt |-> -1, suspended |-> at, pending |-> -1, seen |-> 0]
Suspended(f) == f.suspended # -1
Top(s) == s[Len(s)]
Pop(s) == SubSeq(s, 1, Len(s) - 1)
ReplaceTop(s, x) == [s EXCEPT ![Len(s)] = x]
Where(f) == IF f.pending # -1 THEN f.pending ELSE f.suspended

(* Defect: the text goes on with the statement that is being processed.    *)
SameLine(f) == IF f.stmt = -1 THEN 0 ELSE StmtLine(Text(f), f.stmt)

(* remove line being processed                                             *)
Remaining(f) == IF f.stmt = -1 THEN 0 ELSE After(Text(f), StmtLine(Text(f), f.stmt))

(* suspend_copy_processing.                                                *)
SuspendFrame(f, removeEmpty) ==
  LET l == Remaining(f)
  IN IF Suspended(f) THEN f
     ELSE IF l = Len(Text(f))
     THEN [f EXCEPT !.suspended = IF removeEmpty THEN -1 ELSE l, !.stmt = Count(Text(f)) - 1]
     ELSE [f EXCEPT !.suspended = l]
DropResumed(s) ==
  LET n == {i \in DOMAIN s : Suspended(s[i])}
  IN IF n = {} THEN <<>> ELSE SubSeq(s, 1, CHOOSE i \in n : \A j \in n : j <= i)
Suspend(s, removeEmpty) ==
  LET r == [i \in DOMAIN s |-> SuspendFrame(s[i], removeEmpty)]
  IN IF removeEmpty THEN DropResumed(r) ELSE r

-----------------------------------------------------------------------------
(* What the preprocessor generated.                                        *)

(* should_run_preprocessor.                                                *)
Generated(n) == n < Len(doc) /\ doc[n + 1].no = None

(* extract_current_line, as the start and the end of the generated lines.  *)
RunStart(n) == CHOOSE k \in 0..n : (k = 0 \/ doc[k].no # None) /\ \A j \in (k + 1)..n : doc[j].no = None
RunEnd(n) ==
  CHOOSE k \in n..Len(doc) : (k = Len(doc) \/ doc[k + 1].no # None) /\ \A j \in (n + 1)..k : doc[j].no = None

(* PREPROCESSOR_n.                                                         *)
Name(n) == <<"preprocessor", IF RunStart(n) = 0 THEN 0 ELSE doc[RunStart(n)].no + 1>>

(* run_preprocessor: what was read as a continuation of a line before is   *)
(* skipped.                                                                *)
RunFrame(n) == NewFrame(Name(n), IF n = RunStart(n) THEN -1 ELSE n - RunStart(n))

RunText(n) == SubSeq(doc, RunStart(n) + 1, RunEnd(n))

WithFile(name, t) == [x \in DOMAIN virtual \cup {name} |-> IF x \in DOMAIN virtual THEN virtual[x] ELSE t]

(* run_preprocessor, when a statement is read. A text is parsed once, by   *)
(* a helper task, which then enters it.                                    *)
RunPreprocessor ==
  /\ begin' = RunStart(next) /\ end' = RunEnd(next) /\ next' = RunEnd(next)
  /\ IF Name(next) \in DOMAIN virtual
     THEN copies' = Append(copies, RunFrame(next)) /\ UNCHANGED <<virtual, task>>
     ELSE /\ virtual' = WithFile(Name(next), RunText(next))
          /\ task' = [what |-> "enter", frame |-> RunFrame(next)] /\ UNCHANGED copies

-----------------------------------------------------------------------------
(* Positions: create_opencode_sequence_symbol, adjust_to_beginning.        *)
AdjustToBeginning(f) ==
  IF Suspended(f) THEN [f EXCEPT !.pending = -1]
  ELSE [f EXCEPT !.stmt = @ - 1, !.seen = StmtLine(Text(f), f.stmt)]
ThisStatement(c, b, e) ==
  IF c = <<>> THEN [to |-> b, begin |-> b, end |-> e, copies |-> c]
  ELSE [to |-> e, begin |-> b, end |-> e, copies |-> ReplaceTop(c, AdjustToBeginning(Top(c)))]

(* rewind_input and apply_source_snapshot.                                 *)
Jump(p) ==
  /\ next' = p.to /\ begin' = p.begin /\ end' = p.end /\ copies' = p.copies
  /\ ainsert' = <<>>

(* The input after a statement was read.                                   *)
Into(n, b, e, c) ==
  /\ next' = n /\ begin' = b /\ end' = e /\ copies' = c
  /\ UNCHANGED ainsert

(* The ordinary processor processes the statement in line l.               *)
Perform(l, ids, n, b, e, c) ==
  LET p == ThisStatement(c, b, e)
  IN /\ out' = [what |-> "statement", lines |-> ids]
     /\ label' = IF l.kind = "label" /\ label = None THEN p ELSE label
     /\ macro' = IF l.kind = "macro" THEN MacroSteps ELSE None
     /\ IF l.kind = "ago" /\ label # None /\ actr > 0
        THEN Jump(label) /\ actr' = actr - 1
        ELSE /\ UNCHANGED actr
             /\ Into(n, b, e, IF l.kind = "copy" /\ ~\E k \in DOMAIN c : c[k].of = <<"copy", l.of>>
                              THEN Append(c, NewFrame(<<"copy", l.of>>, -1)) ELSE c)
     /\ UNCHANGED <<virtual, task, fetches, sought>>

(* get_processing_status has to fetch the definition of the instruction.   *)
Fetch ==
  /\ fetches > 0 /\ restart = None
  /\ fetches' = fetches - 1 /\ task' = [what |-> "fetch"]
  /\ UNCHANGED <<virtual, macro, label, actr, sought, out>>

(* try_trigger_attribute_lookahead, of a statement that refers to an       *)
(* unknown symbol: what lies ahead is read, and then this statement again. *)
(* The lookahead enters the files that it meets, and what was inserted.    *)
Ahead(n) == {k \in n..(Len(doc) - 1) : Generated(k) /\ (k = n \/ ~Generated(k - 1))}
WithFiles(read) ==
  [x \in DOMAIN virtual \cup {Name(k) : k \in read} |->
     IF x \in DOMAIN virtual THEN virtual[x] ELSE RunText(CHOOSE k \in read : Name(k) = x)]
AinsertName == <<"ainsert", Cardinality({x \in DOMAIN virtual : x[1] = "ainsert"})>>

LookAhead(l, ids, n, b, e, c) ==
  /\ l.kind = "ref" /\ ids[1] \notin sought
  /\ sought' = sought \cup {ids[1]} /\ Jump(ThisStatement(c, b, e))
  /\ \E read \in {{}, Ahead(n)} : virtual' = WithFiles(read)
  /\ restart' = None /\ UNCHANGED <<task, fetches, macro, label, actr, out>>

(* process_ordinary. It is restarted when the definition is there.         *)
ProcessOrdinary(l, ids, n, b, e, c) ==
  \/ Perform(l, ids, n, b, e, c) /\ restart' = None
  \/ LookAhead(l, ids, n, b, e, c)
  \/ Fetch /\ Into(n, b, e, c) /\ restart' = [line |-> l, ids |-> ids]

-----------------------------------------------------------------------------
(* The provider of the open code, get_next.                                *)

CopyFinished == copies # <<>> => Suspended(Top(copies))

OpencodeFinished ==
  /\ restart = None /\ next >= Len(doc) /\ ainsert = <<>>
  /\ \A k \in DOMAIN copies : ~Suspended(copies[k])
Open == task = None /\ macro = None /\ CopyFinished /\ ~OpencodeFinished

(* The statement that was put aside.                                       *)
Restart ==
  /\ Open /\ restart # None
  /\ ProcessOrdinary(restart.line, restart.ids, next, begin, end, copies)
  /\ UNCHANGED <<document, doc, opts>>

(* convert_ainsert_buffer_to_copybook.                                     *)
ConvertAinsertBuffer ==
  /\ Open /\ restart = None /\ ainsert # <<>>
  /\ virtual' = WithFile(AinsertName, ainsert) /\ ainsert' = <<>>
  /\ task' = [what |-> "enter", frame |-> NewFrame(AinsertName, -1)]
  /\ opts' = [opts EXCEPT !.ictl = FALSE]
  /\ UNCHANGED <<document, doc, next, begin, end, copies, restart, macro, label, actr, fetches, sought, out>>

(* The member remains suspended, to allow for two-phase processing.        *)
StillSuspended(f, line, after) == [f EXCEPT !.suspended = line, !.pending = after]

Before(t, line) == Cardinality({l \in StmtLines(t) : l < line})

(* extract_next_logical_line_from_copy_buffer.                             *)
FromCopyBuffer ==
  LET f == Top(copies)
      t == Text(f)
      line == Where(f)
      g == [f EXCEPT !.stmt = Before(t, line) - 1, !.suspended = line, !.pending = -1]
      c == ReplaceTop(copies, StillSuspended(g, line, After(t, line)))
  IN /\ Open /\ restart = None /\ ainsert = <<>> /\ copies # <<>>
     /\ opts' = [opts EXCEPT !.ictl = FALSE]
     /\ UNCHANGED <<document, doc>>
     /\ \/ /\ line >= Len(t) \/ line \in StmtLines(t)
           /\ copies' = IF line >= Len(t) THEN Pop(copies)
                        ELSE ReplaceTop(copies, [g EXCEPT !.suspended = -1, !.seen = line])
           /\ UNCHANGED <<next, begin, end, ainsert, virtual, task, restart, macro, label, actr, fetches, sought, out>>
        \/ /\ line < Len(t) /\ line \notin StmtLines(t) /\ Comment(t[line + 1])
           /\ copies' = c
           /\ UNCHANGED <<next, begin, end, ainsert, virtual, task, restart, macro, label, actr, fetches, sought, out>>
        \/ /\ line < Len(t) /\ line \notin StmtLines(t) /\ ~Comment(t[line + 1])
           /\ ProcessOrdinary(t[line + 1], Ids(t, line, After(t, line)), next, next, next, c)

(* Reading the document is possible.                                       *)
FromInput ==
  Open /\ restart = None /\ ainsert = <<>> /\ copies = <<>> /\ next < Len(doc)

(* is_next_line_ictl, is_next_line_process: in lines of the file only.     *)
IsIctl == opts.ictl /\ doc[next + 1].kind = "ictl" /\ doc[next + 1].no # None

IsProcess ==
  /\ doc[next + 1].kind = "process" /\ doc[next + 1].no # None
  /\ ~IsIctl /\ opts.process > 0

(* extract_next_logical_line: other statements end the options.            *)
NextOptions == [ictl |-> FALSE, process |-> IF IsIctl \/ IsProcess THEN opts.process ELSE 0]

(* *PROCESS is one line.                                                   *)
FromInputProcess ==
  /\ FromInput /\ IsProcess
  /\ opts' = [ictl |-> FALSE, process |-> opts.process - 1]
  /\ out' = [what |-> "option", lines |-> Ids(doc, next, next + 1)]
  /\ Into(next + 1, next, next + 1, copies)
  /\ UNCHANGED <<document, doc, virtual, task, restart, macro, label, actr, fetches, sought>>

FromInputGenerated ==
  /\ FromInput /\ ~IsProcess /\ opts' = NextOptions /\ Generated(next)
  /\ RunPreprocessor
  /\ UNCHANGED <<document, doc, ainsert, restart, macro, label, actr, fetches, sought, out>>

(* A logical line of the file; the lines it is continued on may be         *)
(* generated.                                                              *)
FromInputLine ==
  LET l == doc[next + 1]
      e == After(doc, next)
  IN /\ FromInput /\ ~IsProcess /\ opts' = NextOptions /\ ~Generated(next)
     /\ UNCHANGED <<document, doc>>
     /\ IF Comment(l)
        THEN /\ next' = e
             /\ UNCHANGED <<begin, end, copies, ainsert, virtual, task, restart, macro, label, actr, fetches, sought, out>>
        ELSE ProcessOrdinary(l, Ids(doc, next, e), e, next, e, <<>>)

(* copy_statement_provider: the statements of the innermost member. A      *)
(* statement whose instruction is to be fetched is read again (go_back).   *)
FromCopy ==
  LET f == Top(copies)
      t == Text(f)
      l == StmtLine(t, f.stmt + 1)
      g == [f EXCEPT !.stmt = @ + 1, !.seen = After(t, l)]
      ids == Ids(t, l, After(t, l))
  IN /\ task = None /\ macro = None /\ ~CopyFinished
     /\ UNCHANGED <<document, doc, opts, restart>>
     /\ \/ /\ f.stmt + 1 = Count(t) /\ copies' = Pop(copies)
           /\ UNCHANGED <<next, begin, end, ainsert, virtual, task, macro, label, actr, fetches, sought, out>>
        \/ /\ f.stmt + 1 < Count(t)
           /\ \/ Perform(t[l + 1], ids, next, begin, end, ReplaceTop(copies, g))
              \/ LookAhead(t[l + 1], ids, next, begin, end, ReplaceTop(copies, g))
              \/ Fetch /\ UNCHANGED <<next, begin, end, copies, ainsert>>

(* Helper tasks: start_preprocessor, start_nested_parser, a library.       *)
HelperTask ==
  /\ task # None /\ task' = None
  /\ IF task.what = "preprocess" THEN doc' = document.text ELSE UNCHANGED doc
  /\ IF task.what = "enter" THEN copies' = Append(copies, task.frame) ELSE UNCHANGED copies
  /\ UNCHANGED <<document, next, begin, end, ainsert, virtual, restart, opts, macro, label, actr, fetches, sought, out>>

-----------------------------------------------------------------------------
(* What a macro does.                                                      *)
Expanding == macro # None /\ macro > 0 /\ macro' = macro - 1

(* aread_from_copybook.                                                    *)
ReadFrame(s) ==
  LET f == Top(s) l == Where(f)
  IN DropResumed(ReplaceTop(s,
       [f EXCEPT !.pending = -1, !.suspended = IF l + 1 >= Len(Text(f)) THEN -1 ELSE l + 1]))
FrameIds(s) ==
  LET f == Top(s) l == Where(f)
  IN IF l < Len(Text(f)) THEN Ids(Text(f), l, l + 1) ELSE <<>>

AreadBuffer ==
  /\ Expanding /\ ainsert # <<>>
  /\ out' = [what |-> "aread", lines |-> <<Head(ainsert).id>>] /\ ainsert' = Tail(ainsert)
  /\ UNCHANGED <<document, doc, next, begin, end, copies, virtual, task, restart, opts, label, actr, fetches, sought>>

AreadCopy ==
  \E s \in {Suspend(copies, TRUE)} :
    /\ Expanding /\ ainsert = <<>> /\ s # <<>>
    /\ out' = [what |-> "aread", lines |-> FrameIds(s)] /\ copies' = ReadFrame(s)
    /\ UNCHANGED <<document, doc, next, begin, end, ainsert, virtual, task, restart, opts, label, actr, fetches, sought>>

(* run_preprocessor; deferred_aread awaits the parsing.                    *)
AreadGenerated ==
  /\ Expanding /\ ainsert = <<>> /\ Suspend(copies, TRUE) = <<>> /\ Generated(next)
  /\ LET f == RunFrame(next)
         t == RunText(next)
         l == IF Suspended(f) THEN f.suspended ELSE 0
     IN /\ out' = [what |-> "aread", lines |-> Ids(t, l, l + 1)]
        /\ copies' = IF l + 1 = Len(t) THEN <<>> ELSE <<[f EXCEPT !.suspended = l + 1]>>
  /\ begin' = RunStart(next) /\ end' = RunEnd(next) /\ next' = RunEnd(next)
  /\ virtual' = WithFile(Name(next), RunText(next))
  /\ UNCHANGED <<document, doc, ainsert, task, restart, opts, label, actr, fetches, sought>>

(* try_aread_from_document.                                                *)
AreadDocument ==
  /\ Expanding /\ ainsert = <<>> /\ Suspend(copies, TRUE) = <<>> /\ ~Generated(next)
  /\ out' = [what |-> "aread", lines |-> IF next < Len(doc) THEN Ids(doc, next, next + 1) ELSE <<>>]
  /\ next' = IF next < Len(doc) THEN next + 1 ELSE next
  /\ copies' = <<>>
  /\ UNCHANGED <<document, doc, begin, end, ainsert, virtual, task, restart, opts, label, actr, fetches, sought>>

(* ainsert: this prevents copybook unwinding                               *)
Ainsert ==
  \E r \in Records, front \in BOOLEAN :
    /\ Expanding /\ out' = None
    /\ ainsert' = IF front THEN <<r>> \o ainsert ELSE Append(ainsert, r)
    /\ copies' = Suspend(copies, FALSE)
    /\ UNCHANGED <<document, doc, next, begin, end, virtual, task, restart, opts, label, actr, fetches, sought>>

(* A statement of the macro that refers to an unknown symbol: what lies    *)
(* ahead in the open code is read, which then goes on behind the last      *)
(* statement that was read from the document (end_index). AREAD does not   *)
(* count as one.                                                           *)
MacroLookAhead ==
  /\ Expanding
  /\ Jump([to |-> end, begin |-> begin, end |-> end, copies |-> copies])
  /\ \E read \in {{}, Ahead(next)} :
       virtual' = IF ainsert = <<>> THEN WithFiles(read)
                  ELSE [x \in DOMAIN WithFiles(read) \cup {AinsertName} |->
                          IF x = AinsertName THEN ainsert ELSE WithFiles(read)[x]]
  /\ UNCHANGED <<document, doc, task, restart, opts, label, actr, fetches, sought, out>>

EndMacro ==
  /\ macro # None /\ macro' = None /\ out' = None
  /\ UNCHANGED <<document, doc, next, begin, end, copies, ainsert, virtual, task, restart, opts, label, actr, fetches, sought>>

Finished ==
  task = None /\ macro = None /\ CopyFinished /\ OpencodeFinished /\ UNCHANGED vars

(* onetime_action schedules the preprocessor.                              *)
Init ==
  /\ document \in Documents /\ doc = document.raw /\ next = 0 /\ begin = 0 /\ end = 0
  /\ copies = <<>> /\ ainsert = <<>> /\ virtual = <<>> /\ task = [what |-> "preprocess"]
  /\ restart = None /\ opts = [ictl |-> TRUE, process |-> Options]
  /\ macro = None /\ label = None /\ actr = Actr /\ fetches = Fetches /\ sought = {} /\ out = None

Next ==
  \/ HelperTask \/ Restart \/ ConvertAinsertBuffer \/ FromCopyBuffer \/ FromCopy
  \/ FromInputProcess \/ FromInputGenerated \/ FromInputLine
  \/ AreadBuffer \/ AreadCopy \/ AreadGenerated \/ AreadDocument \/ Ainsert
  \/ MacroLookAhead \/ EndMacro
  \/ Finished
Spec == Init /\ [][Next]_vars
(* co_step is called until the analysis is complete.                       *)
FairSpec == Spec /\ WF_vars(Next)

-----------------------------------------------------------------------------
(* The stream that InputStream describes.                                  *)
Flag(l, last) == [id |-> l.id, kind |-> l.kind, cont |-> l.cont, last |-> last, of |-> l.of]
AsStream(t) == [k \in DOMAIN t |-> Flag(t[k], k = Len(t))]
FromLine(t, n) == SubSeq(AsStream(t), n + 1, Len(t))
DocumentStream(t) ==
  [k \in DOMAIN t |-> Flag(t[k], k = Len(t) \/ (t[k].no = None /\ t[k + 1].no # None))]

OfFrame(f) == FromLine(Text(f), IF Suspended(f) THEN Where(f) ELSE f.seen)
OfCopies(s) == Seqs!FlattenSeq([k \in DOMAIN s |-> OfFrame(s[Len(s) - k + 1])])
Stream(s, n) == OfCopies(s) \o SubSeq(DocumentStream(document.text), n + 1, Len(document.text))

Unstarted == task # None /\ task.what = "preprocess"
Entering == task # None /\ task.what = "enter"

(* A statement that was put aside has not been read.                       *)
Rest ==
  LET p == ThisStatement(copies, begin, end)
  IN [k \in DOMAIN ainsert |-> Flag(ainsert[k], FALSE)] \o
     (IF Unstarted THEN DocumentStream(document.text)
      ELSE IF restart # None THEN Stream(p.copies, p.to)
      ELSE Stream(IF Entering THEN Append(copies, task.frame) ELSE copies, next))

(* What AREAD has read from the document, and a lookahead reads again. It  *)
(* is forgotten when a statement of the document is read next.             *)
Again ==
  IF Unstarted \/ (macro = None /\ copies = <<>> /\ ainsert = <<>> /\ ~Entering) THEN <<>>
  ELSE SubSeq(DocumentStream(document.text), end + 1, next)

IncludedStream(l) == AsStream(Copies[l.of])
Abstract == INSTANCE InputStream WITH
  Streams <- {DocumentStream(d.text) : d \in Documents},
  Records <- {Flag(r, FALSE) : r \in Records},
  Included <- IncludedStream,
  rest <- Rest, inserted <- Len(ainsert), macro <- macro # None, again <- Again,
  after <- IF Again = <<>> THEN 0 ELSE Len(document.text) - next,
  mark <- IF label = None THEN <<>> ELSE Stream(label.copies, label.to)

-----------------------------------------------------------------------------
(* Properties.                                                             *)

IsFrame(f) ==
  /\ f.stmt \in -1..(Count(Text(f)) - 1) /\ f.suspended \in -1..Len(Text(f))
  /\ f.pending \in -1..Len(Text(f)) /\ f.seen \in 0..Len(Text(f))

(* The input is inside of the texts, here and where AGO returns to.        *)
TypeOK ==
  /\ next \in 0..Len(doc) /\ begin \in 0..Len(doc) /\ end \in begin..Len(doc)
  /\ \A k \in DOMAIN copies : IsFrame(copies[k])
  /\ label # None => \A k \in DOMAIN label.copies : IsFrame(label.copies[k])
  /\ opts.process \in 0..Options /\ opts.ictl \in BOOLEAN
  /\ actr \in 0..Actr /\ fetches \in 0..Fetches

(* Every line is read once and in order, by a statement, by AREAD or as a  *)
(* comment, from whatever text it comes, however often it is suspended,    *)
(* resumed, and found at a line where no statement of it starts. Except    *)
(* that a lookahead loses what was inserted (opencode_provider.cpp:78-83)  *)
(* and reads again what AREAD has read (statement_provider.cpp:74-90).     *)
Implements == Abstract!Spec

=============================================================================
