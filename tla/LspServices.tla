---------------------------- MODULE LspServices -----------------------------
(***************************************************************************)
(* What is collected for the requests of the editor: the outline of a      *)
(* file, the occurrences of symbols and their scopes, the operands of      *)
(* mnemonics that stand for another instruction, and the services for      *)
(* listings.                                                               *)
(***************************************************************************)
EXTENDS Integers, Sequences, FiniteSets, SequencesExt, FiniteSetsExt

-----------------------------------------------------------------------------
(***************************************************************************)
(* The outline of a file (lsp_context.cpp, document_symbol): titles, macro  *)
(* definitions and the symbols of open code are gathered and sorted, their  *)
(* ranges stretched up to their successors, equal neighbours merged, and    *)
(* everything behind a title moved below it.                                *)
(*                                                                          *)
(* The input says what the lines of the file have: Titles is a sequence of  *)
(* [name, stack], each stack the frames of the TITLE from the innermost     *)
(* one, [here, line, macro]; Macros of [name, first, last, labels], the     *)
(* labels a sequence of lines in no order; Symbols of [name, line].         *)
(***************************************************************************)
CONSTANT Inputs     \* records [lines, titles, macros, symbols]

VARIABLES input, step, result

Item(name, kind, begin, end) ==
  [name |-> name, kind |-> kind, begin |-> begin, end |-> end, children |-> <<>>]

OneLine(name, kind, line) == Item(name, kind, line, line)

\* A set of numbers in order
Ascending(S) == [k \in 1 .. Cardinality(S) |-> CHOOSE x \in S : Cardinality({y \in S : y <= x}) = k]

\* end_before
EndBefore(end, next) == IF end < next THEN next - 1 ELSE end

Expands(item) == item.kind # "MACRO"

OutlineInit == input \in Inputs /\ step = "gather" /\ result = <<>>

-----------------------------------------------------------------------------

\* The outermost frame of the file that is not within a macro
TitleLine(stack) ==
  LET own == {i \in DOMAIN stack : stack[i].here
                /\ \A j \in i .. Len(stack) : ~stack[j].macro}
  IN IF own = {} THEN -1 ELSE stack[Max(own)].line

TitleItems ==
  SelectSeq([i \in DOMAIN input.titles |->
               OneLine(input.titles[i].name, "TITLE", TitleLine(input.titles[i].stack))],
            LAMBDA t : t.begin >= 0)

\* A label of a macro reaches up to the next one, or to the end of the macro
Labels(m) ==
  LET sorted == Ascending(ToSet(m.labels))
  IN [i \in DOMAIN sorted |->
        Item("label", "SEQ", sorted[i],
             IF i = Len(sorted) THEN m.last ELSE EndBefore(sorted[i], sorted[i + 1]))]

MacroItems ==
  [i \in DOMAIN input.macros |->
     [Item(input.macros[i].name, "MACRO", input.macros[i].first, input.macros[i].last)
        EXCEPT !.children = Labels(input.macros[i])]]

\* macro_map
InMacro(line) == \E i \in DOMAIN input.macros :
                   input.macros[i].first <= line /\ line <= input.macros[i].last

SymbolItems ==
  LET open == SelectSeq(input.symbols, LAMBDA s : ~InMacro(s.line))
  IN [i \in DOMAIN open |-> OneLine(open[i].name, "SYM", open[i].line)]

\* stable_sort by line, titles first
Sorted(items) ==
  FlattenSeq([l \in 1 .. input.lines |-> SelectSeq(items, LAMBDA s : s.begin = l - 1 /\ s.kind = "TITLE")
                                    \o SelectSeq(items, LAMBDA s : s.begin = l - 1 /\ s.kind # "TITLE")])

Gather ==
  /\ step = "gather" /\ step' = "merge"
  /\ LET all == Sorted(TitleItems \o MacroItems \o SymbolItems)
         n   == Len(all)
     IN result' = IF n > 0 /\ Expands(all[n])
                  THEN [all EXCEPT ![n].end = EndBefore(@, input.lines)]
                  ELSE all
  /\ UNCHANGED input

-----------------------------------------------------------------------------
(* Stretching and merging *)

Same(a, b) == a.name = b.name /\ a.kind = b.kind

\* The last of the run of equal items that begins at i
RunEnd(i) == Max({j \in i .. Len(result) : \A k \in i .. j : Same(result[i], result[k])})

RunStarts == {i \in DOMAIN result : i = 1 \/ ~Same(result[i - 1], result[i])}

Stretched(i) ==
  LET last == RunEnd(i)
  IN IF last < Len(result) /\ Expands(result[i])
     THEN [result[i] EXCEPT !.end = EndBefore(@, result[last + 1].begin)]
     ELSE [result[i] EXCEPT !.end = result[last].end]

Merge ==
  /\ step = "merge" /\ step' = "nest"
  /\ LET starts == Ascending(RunStarts)
     IN result' = [k \in DOMAIN starts |-> Stretched(starts[k])]
  /\ UNCHANGED input

-----------------------------------------------------------------------------
(* Titles *)

IsTitle(item) == item.kind = "TITLE"

TitlesOf(items) == {i \in DOMAIN items : IsTitle(items[i])}

Nest ==
  /\ step = "nest" /\ step' = "titles"
  /\ LET titles == Ascending(TitlesOf(result))
         first  == IF titles = <<>> THEN Len(result) + 1 ELSE titles[1]
         Until(k) == IF k = Len(titles) THEN Len(result) ELSE titles[k + 1] - 1
     IN result' = SubSeq(result, 1, first - 1) \o
          [k \in DOMAIN titles |->
             [result[titles[k]] EXCEPT
                !.children = @ \o SubSeq(result, titles[k] + 1, Until(k))]]
  /\ UNCHANGED input

Titles ==
  /\ step = "titles" /\ step' = "done"
  /\ LET first == IF TitlesOf(result) = {} THEN Len(result) + 1 ELSE Min(TitlesOf(result))
     IN result' = [i \in DOMAIN result |->
          IF i >= first /\ Expands(result[i])
          THEN [result[i] EXCEPT !.end =
                  EndBefore(@, IF i = Len(result) THEN input.lines ELSE result[i + 1].begin)]
          ELSE result[i]]
  /\ UNCHANGED input

OutlineNext == Gather \/ Merge \/ Nest \/ Titles

-----------------------------------------------------------------------------

\* Neighbours begin on one line, or the first ends before the second begins
InOrder(items) ==
  \A i \in 1 .. Len(items) - 1 :
    items[i].end < items[i + 1].begin \/ items[i].begin = items[i + 1].begin

Within(items, parent) ==
  \A i \in DOMAIN items : parent.begin <= items[i].begin /\ items[i].end <= parent.end

(* Ranges are a tree: those of children are in that of their parent, and only
   items of the same line overlap *)
RangesNest ==
  step = "done" =>
    /\ InOrder(result)
    /\ \A i \in DOMAIN result :
         LET below == result[i].children
         IN /\ InOrder(below) /\ Within(below, result[i])
            /\ \A j \in DOMAIN below :
                 InOrder(below[j].children) /\ Within(below[j].children, below[j])

\* An item of the outline with the name and kind that covers the line; the last
\* line of a run of equal items may be left to another item that begins on it
Shown(name, kind, line) ==
  LET items == UNION {{result[i]} \union ToSet(result[i].children) : i \in DOMAIN result}
  IN \E item \in items :
       /\ item.name = name /\ item.kind = kind /\ item.begin <= line
       /\ line <= item.end \/ (item.end + 1 = line /\ \E other \in items : other.begin = line)

(* Everything of the file is shown, and covers its line, however it was merged;
   a title is shown at the line of the open code that issued it *)
EverythingIsShown ==
  step = "done" =>
    /\ \A i \in DOMAIN input.titles :
         LET t == input.titles[i]
         IN t.stack # <<>> => Shown(t.name, "TITLE", t.stack[Len(t.stack)].line)
    /\ \A i \in DOMAIN input.macros :
         \A l \in input.macros[i].first .. input.macros[i].last :
           Shown(input.macros[i].name, "MACRO", l)
    /\ \A i \in DOMAIN input.symbols : ~InMacro(input.symbols[i].line) =>
         Shown(input.symbols[i].name, "SYM", input.symbols[i].line)

(* What comes behind a title is below the last title that was issued up to its
   line, and the titles cover all lines from the first one on *)
TitlesAreChapters ==
  step = "done" =>
    LET titles == TitlesOf(result)
    IN titles # {} =>
       /\ Min(titles) .. Len(result) = titles
       /\ \A l \in result[Min(titles)].begin .. input.lines - 1 :
            \E i \in titles : result[i].begin <= l /\ l <= result[i].end
       /\ \A i \in titles : \A j \in DOMAIN result[i].children :
            \A k \in titles : result[k].begin <= result[i].children[j].begin => k <= i

-----------------------------------------------------------------------------
(***************************************************************************)
(* What the analyzer keeps for definition and reference requests            *)
(* (lsp_analyzer.cpp, file_info.cpp, lsp_context.cpp): while a source with  *)
(* macros is processed every statement leaves occurrences of its symbols,   *)
(* in the collection of the macro that is being defined or in that of the   *)
(* open code; at the end they are distributed to the file, next to slices   *)
(* that say which macro a line belongs to.                                  *)
(*                                                                          *)
(* One file; a line is [k, n, v, o]: its kind, the name of its instruction  *)
(* (of the macro, for a prototype), a variable symbol and an ordinary one   *)
(* it mentions ("" for none).  A "SET" defines its variable symbol.  How    *)
(* definitions are read is MacroDefinition; here they are well nested.      *)
(***************************************************************************)
CONSTANT Sources    \* the sources to be processed

VARIABLES source, occurrenceAt, occurrenceStack, def, macros, table,
          openOcc, openVars, macroOcc, inMacro, nest, finished

collected == <<openOcc, openVars, macroOcc, inMacro, nest>>

NoDef == [first |-> 0]

Names == {source[l].n : l \in DOMAIN source}

OccurrenceInit ==
  /\ source \in Sources /\ occurrenceAt = 1 /\ occurrenceStack = <<>>
  /\ def = NoDef /\ macros = <<>>
  /\ table = [n \in Names |-> 0]
  /\ openOcc = <<>> /\ openVars = <<>> /\ macroOcc = <<>>
  /\ inMacro = FALSE /\ nest = 0 /\ finished = FALSE

-----------------------------------------------------------------------------
(* The statement to come: of the macro called last, or of the open code *)

FromMacro == occurrenceStack # <<>>
Body(m)   == macros[m].body
Here      == IF FromMacro THEN Body(Last(occurrenceStack).m)[Last(occurrenceStack).at] ELSE occurrenceAt
OccurrenceLine      == source[Here]
Ready     == ~finished /\ (FromMacro \/ occurrenceAt <= Len(source))

Advanced == IF FromMacro
            THEN /\ occurrenceStack' = [occurrenceStack EXCEPT ![Len(occurrenceStack)].at = @ + 1] /\ UNCHANGED occurrenceAt
            ELSE /\ occurrenceAt' = occurrenceAt + 1 /\ UNCHANGED occurrenceStack

-----------------------------------------------------------------------------
(* collect_occurrences *)

Occ(kind, name, op) == [kind |-> kind, name |-> name, line |-> Here, op |-> op]

Mentions(kind, name) == IF name = "" THEN <<>> ELSE <<Occ(kind, name, 0)>>

\* Instructions that are resolved while a macro is read
Resolved(k) == k \in {"MACRO", "MEND", "SET"}

\* ORDINARY processing: what a macro says of its variables was collected with
\* its definition
Ordinary ==
  Mentions("ORD", OccurrenceLine.o)
  \o (IF FromMacro THEN <<>> ELSE Mentions("VAR", OccurrenceLine.v))
  \o (IF FromMacro /\ Resolved(OccurrenceLine.k) THEN <<>>
      ELSE <<Occ("INSTR", OccurrenceLine.n, table[OccurrenceLine.n])>>)

\* MACRO processing: nothing from inner macros, "to avoid collecting
\* occurrences multiple times"
Defined(n) ==
  IF n > 1 THEN <<>>
  ELSE Mentions("VAR", OccurrenceLine.v)
       \o (CASE Resolved(OccurrenceLine.k)  -> <<Occ("INSTR", OccurrenceLine.n, 0)>>
             [] OccurrenceLine.k = "OP"     -> <<Occ("INSTR_LIKE", OccurrenceLine.n, 0)>>
             [] OTHER             -> <<>>)

\* add_var_def: the first one of a name stays
VarAdded(vs) ==
  IF OccurrenceLine.k # "SET" \/ \E i \in DOMAIN vs : vs[i].name = OccurrenceLine.v THEN vs
  ELSE Append(vs, [name |-> OccurrenceLine.v, line |-> Here])

-----------------------------------------------------------------------------
(* Ordinary statements *)

Op ==
  /\ Ready /\ def = NoDef /\ OccurrenceLine.k \in {"OP", "SET"}
  /\ openOcc' = openOcc \o Ordinary
  /\ openVars' = IF FromMacro THEN openVars ELSE VarAdded(openVars)
  /\ IF table[OccurrenceLine.n] # 0 /\ OccurrenceLine.k = "OP"
     THEN /\ occurrenceStack' = Append(IF FromMacro THEN [occurrenceStack EXCEPT ![Len(occurrenceStack)].at = @ + 1]
                                       ELSE occurrenceStack, [m |-> table[OccurrenceLine.n], at |-> 1])
          /\ occurrenceAt' = IF FromMacro THEN occurrenceAt ELSE occurrenceAt + 1
     ELSE Advanced
  /\ UNCHANGED <<source, def, macros, table, macroOcc, inMacro, nest, finished>>

\* MEND of a macro that was called
Leave ==
  /\ Ready /\ def = NoDef /\ FromMacro /\ OccurrenceLine.k = "MEND"
  /\ openOcc' = openOcc \o Ordinary
  /\ occurrenceStack' = Front(occurrenceStack)
  /\ UNCHANGED <<source, occurrenceAt, def, macros, table, openVars, macroOcc, inMacro,
                 nest, finished>>

\* macrodef_started
Begin ==
  /\ Ready /\ def = NoDef /\ OccurrenceLine.k = "MACRO"
  /\ openOcc' = openOcc \o Ordinary
  /\ inMacro' = TRUE /\ nest' = 1
  /\ def' = [first |-> Here + 1, body |-> <<>>, vars |-> <<>>, inner |-> {}]
  /\ Advanced
  /\ UNCHANGED <<source, macros, table, openVars, macroOcc, finished>>

-----------------------------------------------------------------------------

\* update_macro_nest
Nested == CASE OccurrenceLine.k = "MACRO" -> nest + 1 [] OccurrenceLine.k = "MEND" -> nest - 1 [] OTHER -> nest

Prototype ==
  /\ Ready /\ def # NoDef /\ def.body = <<>> /\ OccurrenceLine.k = "PROTO" /\ Here = def.first
  /\ macroOcc' = macroOcc \o Defined(nest)
  /\ def' = [def EXCEPT !.vars = IF OccurrenceLine.v = "" THEN <<>>
                                 ELSE <<[name |-> OccurrenceLine.v, line |-> Here]>>]
  /\ Advanced
  /\ UNCHANGED <<source, macros, table, openOcc, openVars, inMacro, nest, finished>>

\* Lines behind the MACRO of an inner macro, up to its MEND
InInner == (nest > 1 /\ OccurrenceLine.k # "MACRO") \/ nest > 2

Collect ==
  /\ Ready /\ def # NoDef /\ Here # def.first
  /\ ~(nest = 1 /\ OccurrenceLine.k = "MEND")
  /\ nest' = Nested
  /\ macroOcc' = macroOcc \o Defined(nest')
  /\ def' = [def EXCEPT !.body = Append(@, Here),
                        !.inner = @ \union (IF InInner THEN {Here} ELSE {}),
                        !.vars = IF nest > 1 THEN @ ELSE VarAdded(@)]
  /\ Advanced
  /\ UNCHANGED <<source, macros, table, openOcc, openVars, inMacro, finished>>

\* The lines of a definition in slices: those of inner macros are slices of
\* their own
Slices(d) ==
  LET all      == {d.first} \union Range(d.body)
      Start(l) == l = d.first \/ ((l \in d.inner) # (l - 1 \in d.inner))
      Until(l) == Max({k \in all : k >= l /\ \A j \in l + 1 .. k : ~Start(j)}) + 1
  IN {[begin |-> l, end |-> Until(l), inner |-> l \in d.inner] : l \in {x \in all : Start(x)}}

\* macrodef_finished
End ==
  /\ Ready /\ def # NoDef /\ nest = 1 /\ OccurrenceLine.k = "MEND" /\ Here # def.first
  /\ nest' = 0 /\ inMacro' = FALSE
  /\ LET d == [def EXCEPT !.body = Append(@, Here)]
     IN macros' = Append(macros,
          [name |-> source[def.first].n, first |-> def.first, body |-> d.body,
           vars |-> d.vars, slices |-> Slices(d),
           occ |-> macroOcc \o Defined(0)
                   \o <<[kind |-> "INSTR", name |-> source[def.first].n,
                         line |-> def.first, op |-> Len(macros) + 1]>>])
  /\ table' = [table EXCEPT ![source[def.first].n] = Len(macros) + 1]
  /\ macroOcc' = <<>> /\ def' = NoDef
  /\ Advanced
  /\ UNCHANGED <<source, openOcc, openVars, finished>>

OccurrenceFinish ==
  /\ ~finished /\ ~FromMacro /\ occurrenceAt > Len(source) /\ def = NoDef
  /\ finished' = TRUE
  /\ UNCHANGED <<source, occurrenceAt, occurrenceStack, def, macros, table, collected>>

OccurrenceNext == \/ Op \/ Leave \/ Begin \/ Prototype \/ Collect \/ End \/ OccurrenceFinish

-----------------------------------------------------------------------------
(* The file at the end: distribute_macro_slices, distribute_file_occurrences *)

AllOcc == openOcc \o FlattenSeq([m \in DOMAIN macros |-> macros[m].occ])

AllSlices == UNION {{[m |-> m, begin |-> s.begin, end |-> s.end, inner |-> s.inner] :
                       s \in macros[m].slices} : m \in DOMAIN macros}

\* Of slices with the same lines the one that is its macro's own stays
Preferred(s, t) == s.begin = t.begin /\ s.end = t.end /\ ~s.inner

Slice(l) == {s \in AllSlices : s.begin <= l /\ l < s.end}

\* find_scope: the first in the order of lines, one of those with equal lines
\* (the order of macros is that of a hash map)
Before(s, t) == s.begin < t.begin \/ (s.begin = t.begin /\ s.end < t.end)

Scopes(l) ==
  LET first == {s \in Slice(l) : \A t \in Slice(l) : ~Before(t, s)}
      own   == {s \in first : \E t \in first : Preferred(s, t)}
  IN {s.m : s \in IF own = {} THEN first ELSE own}

\* find_occurrence_with_scope: an instruction that was executed is preferred
\* to one that was only read
Found(l, kinds) ==
  LET on == {i \in DOMAIN AllOcc : AllOcc[i].line = l /\ AllOcc[i].kind \in kinds}
      best == {i \in on : AllOcc[i].kind # "INSTR_LIKE"}
  IN {AllOcc[i] : i \in IF best = {} THEN on ELSE best}

\* find_definition_location of a variable symbol
Definitions(name, m) ==
  LET vs == IF m = 0 THEN openVars ELSE macros[m].vars
  IN {vs[i].line : i \in {j \in DOMAIN vs : vs[j].name = name}}

-----------------------------------------------------------------------------
(* Properties *)

\* The innermost definition a line is written in: its prototype, 0 in open code
Innermost(l) ==
  LET Closes(f) == CHOOSE e \in f .. Len(source) :
        LET Depth(x) == Cardinality({k \in f .. x : source[k].k = "MACRO"}) + 1
                        - Cardinality({k \in f .. x : source[k].k = "MEND"})
        IN Depth(e) = 0 /\ \A x \in f .. e - 1 : Depth(x) > 0
      open == {f \in DOMAIN source : source[f].k = "PROTO" /\ f <= l /\ l <= Closes(f)}
  IN IF open = {} THEN 0 ELSE Max(open)

(* A line of a macro belongs to that macro and to none around it, if the macro
   was defined *)
ScopeIsInnermost ==
  finished =>
    \A l \in DOMAIN source :
      (\E m \in DOMAIN macros : macros[m].first = Innermost(l)) =>
        \A m \in Scopes(l) : macros[m].first = Innermost(l)

(* A variable symbol is collected exactly once for each definition of the macro
   it is written in, however often that is called, and in open code once *)
CollectedOnce ==
  finished =>
    \A l \in {x \in DOMAIN source : source[x].v # ""} :
      Cardinality({i \in DOMAIN AllOcc : AllOcc[i].kind = "VAR" /\ AllOcc[i].line = l}) =
        IF Innermost(l) = 0 THEN 1
        ELSE Cardinality({m \in DOMAIN macros : macros[m].first = Innermost(l)})

(* The definition of a variable symbol that is found is in the same macro, or,
   for open code, outside of all *)
DefinedInScope ==
  finished =>
    \A l \in DOMAIN source : source[l].v # "" /\ Found(l, {"VAR"}) # {} =>
      \A m \in (IF Scopes(l) = {} THEN {0} ELSE Scopes(l)) :
        \A d \in Definitions(source[l].v, m) : Innermost(d) = Innermost(l)

(* A call leads to a macro of its name that was defined when it was executed *)
CallsAreOfMacros ==
  finished =>
    \A l \in DOMAIN source : source[l].k = "OP" =>
      \A o \in Found(l, {"INSTR", "INSTR_LIKE"}) : o.op # 0 =>
        macros[o.op].name = source[l].n

-----------------------------------------------------------------------------
(***************************************************************************)
(* Extended mnemonics.  A table says how the operands of a mnemonic become  *)
(* those of its machine instruction: [skip, insert, kind, src], behind skip *)
(* operands a machine operand is inserted, or, without insert, takes the    *)
(* place of the operand of the user.  Five parts of the program read the    *)
(* tables with loops of their own: the evaluation of operands against the   *)
(* formats and their transformation (machine_check.cpp), the mask of        *)
(* relative addresses (instruction.cpp), the operands of branches           *)
(* (lsp_analyzer.cpp) and the numbers of operands in the help               *)
(* (instruction_completions.cpp).                                           *)
(*                                                                          *)
(* Formats are [type, opt]: a simple "REG", "MASK", "IMM" or "RI" (relative *)
(* address), or a displacement "DXB", "DLB" or "DB" with the parts it has   *)
(* in parentheses; opt for operands that may be left out.  kind is "zero"   *)
(* or "value" for constants, "src" for what is computed from operand src.   *)
(***************************************************************************)
CONSTANTS
  Instructions,  \* records [formats, table, target, nonzero]
  Operands       \* records [val, first, second]: what the user may write

VARIABLES
  instr, count,  \* the instruction and the number of operands written
  phase, todo, processed, fmt, evaluated, out, cur

Formats == instr.formats
Table   == instr.table

Inserts(t)   == Cardinality({i \in DOMAIN t : t[i].insert})
Optional(fs) == Cardinality({i \in DOMAIN fs : fs[i].opt})

Simple(f) == f.type \in {"REG", "MASK", "IMM", "RI"}

\* What the constructor of mnemonic_code and the mask insist on
Accepted(fs, t) ==
  LET maximum == Len(fs) - Inserts(t)
      Taken(i) == FoldLeft(LAMBDA n, x : n + x.skip + 1, 0, SubSeq(t, 1, i))
  IN /\ FoldLeft(LAMBDA n, x : n + x.skip + (IF x.insert THEN 1 ELSE 0), 0, t) <= Len(fs)
     /\ Len(fs) - Optional(fs) >= Inserts(t)
     /\ \A i \in DOMAIN t :
          /\ t[i].kind = "src" => t[i].src <= maximum
          /\ Taken(i) <= Len(fs) => Simple(fs[Taken(i)]) /\ fs[Taken(i)].type # "RI"

Counts == Len(Formats) - Optional(Formats) - Inserts(Table) .. Len(Formats) - Inserts(Table)

MnemonicInit ==
  /\ instr \in {i \in Instructions : Accepted(i.formats, i.table)}
  /\ count \in Counts
  /\ phase = "evaluate" /\ todo = Table /\ processed = 0 /\ fmt = 1
  /\ evaluated = <<>> /\ out = <<>> /\ cur = 1

-----------------------------------------------------------------------------

\* "D(F)" becomes "D(B)" if the format has no first part
Placed(op, f) ==
  IF f.type = "DB" THEN [first |-> op.second, second |-> op.first]
  ELSE [first |-> op.first, second |-> op.second]

Refused(op, f) ==
  \/ (op.first \/ op.second) /\ Simple(f)
  \/ op.second /\ (Simple(f) \/ f.type = "DB")
  \/ op.val = "UNDEF"
  \/ op.val = "RELOC" /\ f.type # "RI" /\ (Simple(f) \/ Placed(op, f).second)

\* The base of a relocatable operand comes from USING
Evaluated(op, f) ==
  LET p == Placed(op, f)
  IN [fmt |-> fmt, op |-> op, first |-> p.first \/ f.type = "DLB",
      second |-> p.second \/ (op.val = "RELOC" /\ ~Simple(f))]

\* Transformations that are due are dropped, those that insert with their format
Skip ==
  /\ phase = "evaluate" /\ Len(evaluated) < count
  /\ todo # <<>> /\ Head(todo).skip = processed
  /\ fmt' = IF Head(todo).insert THEN fmt + 1 ELSE fmt
  /\ todo' = Tail(todo) /\ processed' = 0
  /\ UNCHANGED <<instr, count, phase, evaluated, out, cur>>

Evaluate(op) ==
  /\ phase = "evaluate" /\ Len(evaluated) < count
  /\ ~(todo # <<>> /\ Head(todo).skip = processed)
  /\ IF Refused(op, Formats[fmt])
     THEN /\ phase' = "refused"
          /\ UNCHANGED <<processed, fmt, evaluated>>
     ELSE /\ evaluated' = Append(evaluated, Evaluated(op, Formats[fmt]))
          /\ fmt' = fmt + 1 /\ processed' = processed + 1
          /\ UNCHANGED phase
  /\ UNCHANGED <<instr, count, todo, out, cur>>

Transforms ==
  /\ phase = "evaluate" /\ Len(evaluated) = count
  /\ phase' = "transform" /\ todo' = Table /\ processed' = 0
  /\ UNCHANGED <<instr, count, fmt, evaluated, out, cur>>

-----------------------------------------------------------------------------
(* apply_transforms; out has the number of the operand of the user, or what
   the table puts there *)

Due == todo # <<>> /\ Head(todo).skip = processed

More == phase = "transform" /\ cur <= Len(Formats)

Apply ==
  /\ More /\ Due
  /\ out' = Append(out, [user |-> 0, by |-> Head(todo)])
  /\ cur' = IF ~Head(todo).insert /\ cur <= count THEN cur + 1 ELSE cur
  /\ todo' = Tail(todo) /\ processed' = 0
  /\ UNCHANGED <<instr, count, phase, fmt, evaluated>>

Copy ==
  /\ More /\ ~Due /\ cur <= count
  /\ out' = Append(out, [user |-> cur])
  /\ cur' = cur + 1 /\ processed' = processed + 1
  /\ UNCHANGED <<instr, count, phase, todo, fmt, evaluated>>

Check ==
  /\ phase = "transform" /\ (cur > Len(Formats) \/ (~Due /\ cur > count))
  /\ phase' = "done"
  /\ UNCHANGED <<instr, count, todo, processed, fmt, evaluated, out, cur>>

MnemonicNext ==
  \/ Skip \/ Transforms \/ Apply \/ Copy \/ Check
  \/ \E op \in Operands : Evaluate(op)

-----------------------------------------------------------------------------

Mask ==
  LET Step(s, f) ==
        IF s.t # <<>> /\ s.processed = Head(s.t).skip
        THEN [s EXCEPT !.t = Tail(@), !.processed = 0,
                       !.bit = IF Head(s.t).insert THEN @ ELSE @ + 1]
        ELSE [s EXCEPT !.bit = @ + 1, !.processed = @ + 1,
                       !.mask = IF f.type = "RI" THEN @ \union {s.bit} ELSE @]
  IN FoldLeft(Step, [t |-> Table, processed |-> 0, bit |-> 1, mask |-> {}], Formats).mask

-----------------------------------------------------------------------------
(* get_branch_operand, from zero *)

InsertedBy(t) == IF t.insert THEN 1 ELSE 0

\* The loop for the condition: it ends at a transformation behind it, with an
\* answer at the one that puts a constant there
Condition(at) ==
  LET Step(s, t) ==
        IF s.stop \/ s.pos < t.skip THEN [s EXCEPT !.stop = TRUE]
        ELSE IF s.pos = t.skip /\ t.insert /\ t.kind # "src"
        THEN [s EXCEPT !.stop = TRUE, !.nonzero = -1, !.never = t.kind = "zero"]
        ELSE [s EXCEPT !.pos = @ - t.skip - InsertedBy(t), !.nonzero = @ - InsertedBy(t)]
  IN FoldLeft(Step, [pos |-> at, nonzero |-> at, never |-> FALSE, stop |-> FALSE], Table)

Target(at) ==
  LET Step(s, t) ==
        IF s.stop \/ s.pos < t.skip THEN [s EXCEPT !.stop = TRUE]
        ELSE [s EXCEPT !.pos = @ - t.skip - InsertedBy(t), !.target = @ - InsertedBy(t)]
  IN FoldLeft(Step, [pos |-> at, target |-> at, stop |-> FALSE], Table).target

-----------------------------------------------------------------------------

CorrectedIds ==
  LET Step(s, t) == [ids |-> s.ids \o [i \in 1 .. t.skip |-> Len(s.ids) + i + s.correction],
                     correction |-> s.correction + InsertedBy(t)]
      all == FoldLeft(Step, [ids |-> <<>>, correction |-> 0], Table)
  IN [i \in 1 .. Len(Formats) |-> IF i <= Len(all.ids) THEN all.ids[i] ELSE i + all.correction]

-----------------------------------------------------------------------------

Done == phase = "done"

\* The machine operands that are operands of the user as they were written
Users == {j \in DOMAIN out : out[j].user # 0}

(* An operand that is passed on is evaluated against the format of the machine
   operand it becomes *)
CheckedAsPlaced == Done => \A j \in Users : evaluated[out[j].user].fmt = j

\* The machine operands an operand of the user was spent on
Consumed == {j \in DOMAIN out : out[j].user # 0 \/ ~out[j].by.insert}

(* Every operand of the user is spent on one machine operand, in order: it is
   passed on or, where the table says so, replaced *)
NothingIsLost ==
  Done =>
    /\ Cardinality(Consumed) >= count
    /\ \A j \in Users : out[j].user = Cardinality({k \in Consumed : k <= j})

(* All parts an operand was written with are parts of the machine operand *)
PartsAreUsed ==
  \A i \in DOMAIN evaluated :
    LET e == evaluated[i]
        f == Formats[e.fmt]
    IN /\ e.first  => f.type \in {"DXB", "DLB"}
       /\ e.second => ~Simple(f)
       /\ e.op.first => e.first \/ e.second
       /\ e.op.second => e.second

(* Just the operands that become relative addresses are measured from the
   location counter *)
RelativeIsMarked ==
  Done => \A j \in Users : (out[j].user \in Mask) = (Formats[j].type = "RI")

(* The operand that decides whether a branch is taken, and the one it goes to,
   are those the machine instruction has there *)
BranchIsFound ==
  Done /\ instr.target # -1 =>
    /\ out[instr.target + 1].user = Target(instr.target) + 1
    /\ instr.nonzero # -1 =>
         LET c == Condition(instr.nonzero)
             o == out[instr.nonzero + 1]
         IN IF o.user # 0 THEN ~c.never /\ c.nonzero + 1 = o.user
            ELSE c.nonzero = -1 /\ c.never = (o.by.kind = "zero")

(* The help numbers the operands as the machine instruction does *)
HelpIsAligned == Done => \A j \in Users : CorrectedIds[out[j].user] = j

-----------------------------------------------------------------------------
(***************************************************************************)
(* Navigation in assembler listings (hlasmListingServices.ts): a listing   *)
(* is read line by line into sections, statements and symbols; a map tells *)
(* which statements belong to a control section; definitions, the outline  *)
(* and the offsets are answered from what was read.                        *)
(*                                                                         *)
(* A line is a record whose `k` says what the regular expressions of the   *)
(* code make of it:                                                        *)
(*   "options" "externals" "ordinary" "dsects" "usings" "summary" "return" *)
(*   "diag"                      page headings, the end, a diagnostic      *)
(*   "title" (t)                 another page heading                      *)
(*   "header" (dsect)            the heading of the object code columns    *)
(*   "stmt" (no, address or -1, label or "")                               *)
(*   "ext" (address, length)  "symbol" (name, defined, pure, section,      *)
(*   loctr, reloc: relocatable and not of type U)                          *)
(*   "dsect" (name, defined, section)  "using" (no, section)               *)
(***************************************************************************)
CONSTANT Texts     \* documents

VARIABLES text, listingI, state, opened, lastTitle, listing, symbol, done

Empty == [sections |-> <<>>, code |-> <<>>, stmts |-> {}, symbols |-> {},
          csects |-> {}, candidates |-> {}, known |-> {}, transitions |-> {},
          diagnostics |-> 0, map |-> <<>>]

Headings == {"options", "externals", "ordinary", "dsects", "usings", "summary",
             "diag", "title", "header", "return"}

ListingInit ==
  /\ text \in Texts /\ listingI = 1 /\ state = "options" /\ opened = "none"
  /\ lastTitle = [t |-> "", line |-> 1]
  /\ listing = Empty /\ symbol = {} /\ done = FALSE

ListingLine == text[listingI]
Reading == ~done /\ listingI <= Len(text)

-----------------------------------------------------------------------------

\* Every page heading ends the section begun last
Ended(l) ==
  CASE opened = "code"    -> [l EXCEPT !.code[Len(l.code)].end = listingI]
    [] opened = "section" -> [l EXCEPT !.sections[Len(l.sections)].end = listingI]
    [] OTHER              -> l

\* updateCommonSection: a section already begun is extended by the next page
Common(l, k) ==
  IF \E n \in DOMAIN l.sections : l.sections[n].k = k THEN l
  ELSE [l EXCEPT !.sections = Append(@, [k |-> k, start |-> listingI, end |-> listingI])]

StateOf(k) == CASE k = "options" -> state [] k = "summary" -> "refs" [] OTHER -> k

SectionPage ==
  /\ Reading
  /\ ListingLine.k \in {"options", "externals", "ordinary", "dsects", "usings", "summary"}
  /\ listing' = Common(Ended(listing), ListingLine.k)
  /\ opened' = "section"
  /\ state' = StateOf(ListingLine.k)
  /\ listingI' = listingI + 1
  /\ UNCHANGED <<text, lastTitle, symbol, done>>

\* A page with any other heading: the first one ends the options and externals
TitlePage ==
  /\ Reading /\ ListingLine.k = "title"
  /\ listing' = Ended(listing) /\ opened' = "none"
  /\ state' = IF state \in {"options", "externals"} THEN "code" ELSE state
  /\ lastTitle' = [t |-> ListingLine.t, line |-> listingI]
  /\ listingI' = listingI + 1
  /\ UNCHANGED <<text, symbol, done>>

CodeHeader ==
  /\ Reading /\ ListingLine.k = "header"
  /\ listing' = [Ended(listing) EXCEPT !.code = Append(@,
       [start |-> lastTitle.line, end |-> listingI + 1, title |-> lastTitle.t,
        codeStart |-> listingI + 1, dsect |-> ListingLine.dsect, first |-> 0])]
  /\ opened' = "code"
  /\ listingI' = listingI + 1
  /\ UNCHANGED <<text, state, lastTitle, symbol, done>>

Diagnostic ==
  /\ Reading /\ ListingLine.k = "diag"
  /\ listing' = [Ended(listing) EXCEPT !.diagnostics = @ + 1]
  /\ opened' = "none" /\ listingI' = listingI + 1
  /\ UNCHANGED <<text, state, lastTitle, symbol, done>>

IsFirst(n) == listing.code[n].codeStart = listingI

Statement ==
  /\ Reading /\ ListingLine.k = "stmt" /\ state = "code"
  /\ LET n == Len(listing.code)
         l == [listing EXCEPT
                !.stmts = @ \union {[no |-> ListingLine.no, line |-> listingI, address |-> ListingLine.address]},
                !.candidates = @ \union (IF ListingLine.label = "" THEN {}
                                         ELSE {[name |-> ListingLine.label, no |-> ListingLine.no]}),
                !.transitions = @ \union (IF ListingLine.section THEN {ListingLine.no} ELSE {})]
     IN listing' = IF opened = "code" /\ IsFirst(n)
                   THEN [l EXCEPT !.code[n].first = ListingLine.no] ELSE l
  /\ listingI' = listingI + 1
  /\ UNCHANGED <<text, state, opened, lastTitle, symbol, done>>

\* updateSymbols: a name read before keeps its details
Updated(symbols, read) ==
  {s \in symbols : \A x \in read : x.name # s.name}
    \union {[x EXCEPT !.defined = @ \union y.defined, !.pure = @ \union y.pure] :
             x \in {s \in symbols : \E r \in read : r.name = s.name}, y \in read}
    \union {x \in read : \A s \in symbols : s.name # x.name}

\* An external control section; a using
Entry ==
  /\ \/ /\ ListingLine.k = "ext" /\ state = "externals"
        /\ listing' = [listing EXCEPT !.csects = @ \union
                         {[address |-> ListingLine.address, length |-> ListingLine.length]}]
     \/ /\ ListingLine.k = "using" /\ state = "usings"
        /\ listing' = [listing EXCEPT !.known = @ \union
                         (IF ListingLine.section >= 0 THEN {ListingLine.no} ELSE {})]
  /\ UNCHANGED symbol

\* The symbol read last is put away when the next one begins
OrdinarySymbol ==
  /\ ListingLine.k = "symbol" /\ state = "ordinary"
  /\ listing' = [listing EXCEPT !.symbols = Updated(@, symbol)]
  /\ symbol' = {[name |-> ListingLine.name, defined |-> ListingLine.defined, pure |-> ListingLine.pure,
                 section |-> ListingLine.section, loctr |-> ListingLine.loctr,
                 reloc |-> ListingLine.reloc, known |-> TRUE]}

\* ... but a dummy section not put away before takes its place
DummySection ==
  /\ ListingLine.k = "dsect" /\ state = "dsects"
  /\ LET dsect == [name |-> ListingLine.name, defined |-> {ListingLine.defined}, pure |-> {},
                   section |-> ListingLine.section, loctr |-> TRUE, reloc |-> TRUE, known |-> TRUE]
     IN IF \E s \in listing.symbols : s.name = dsect.name THEN UNCHANGED <<listing, symbol>>
        ELSE /\ listing' = [listing EXCEPT !.symbols = @ \union {dsect}]
             /\ symbol' = {dsect}

Reference ==
  /\ Reading /\ (Entry \/ OrdinarySymbol \/ DummySection)
  /\ listingI' = listingI + 1
  /\ UNCHANGED <<text, state, opened, lastTitle, done>>

\* Any other line, and one that means something only in another state
StateFor == [stmt |-> "code", ext |-> "externals", symbol |-> "ordinary",
             dsect |-> "dsects", using |-> "usings"]

OtherLine ==
  /\ Reading /\ ListingLine.k \notin Headings
  /\ ListingLine.k \in DOMAIN StateFor => state # StateFor[ListingLine.k]
  /\ listingI' = listingI + 1
  /\ UNCHANGED <<text, state, opened, lastTitle, listing, symbol, done>>

-----------------------------------------------------------------------------
(* createSectionMap *)

MaxNo(l) == IF l.stmts = {} THEN 0 ELSE Max({s.no : s \in l.stmts})

\* How a statement is referred to: by control or dummy section names it stands
\* for (loctr), and by the symbols it defines
Hints(l, no) ==
  {<<s.name, "ref", s.section >= 0>> : s \in {x \in l.symbols : x.known /\ x.loctr /\ no \in x.pure}}
  \union {<<s.name, "def", s.section >= 0>> : s \in {x \in l.symbols : x.reloc /\ no \in x.defined}}

Transition(l, no, control) ==
  /\ no \in l.transitions /\ Cardinality(Hints(l, no)) = 1
  /\ \A h \in Hints(l, no) : h[3] = control

\* "undefined", or whether the statement is in a control section: the later
\* rule wins
Direct(l, no) ==
  IF Transition(l, no, TRUE) \/ Transition(l, no, FALSE) THEN Transition(l, no, TRUE)
  ELSE IF no \in l.known THEN TRUE
  ELSE IF \E c \in Range(l.code) : c.first = no
       THEN \E c \in Range(l.code) : c.first = no /\ ~c.dsect
  ELSE \E s \in l.symbols : s.reloc /\ no \in s.defined /\ s.section >= 0

IsDirect(l, no) ==
  \/ Transition(l, no, TRUE) \/ Transition(l, no, FALSE) \/ no \in l.known
  \/ \E c \in Range(l.code) : c.first = no
  \/ \E s \in l.symbols : s.reloc /\ no \in s.defined

\* Statements without a mark follow the one before, unless they name a control
\* section; the array ends before the greatest number
Carried(l, no) == \E s \in l.symbols : s.known /\ s.loctr /\ no \in s.pure /\ s.section >= 0

SectionMap(l) ==
  LET From(no) == {d \in 1 .. no : IsDirect(l, d) \/ Carried(l, d)}
  IN [no \in 1 .. MaxNo(l) - 1 |->
        IF \A d \in 1 .. no : ~IsDirect(l, d) THEN FALSE
        ELSE LET d == Max(From(no))
             IN IF IsDirect(l, d) THEN Direct(l, d) ELSE TRUE]

\* Labels of the code without an entry in the cross reference
Candidates(l) ==
  {[name |-> c.name, defined |-> {c.no}, pure |-> {}, section |-> 0, loctr |-> FALSE,
    reloc |-> FALSE, known |-> FALSE] :
     c \in {x \in l.candidates : \A s \in l.symbols : s.name # x.name}}

\* The "Return Code" line ends the listing, or the end of the document
ListingFinish ==
  /\ ~done /\ (Reading => ListingLine.k = "return")
  /\ LET l == [Ended(listing) EXCEPT !.symbols = Updated(@, symbol)]
         m == [l EXCEPT !.symbols = @ \union Candidates(l)]
     IN listing' = [m EXCEPT !.map = SectionMap(m)]
  /\ done' = TRUE
  /\ UNCHANGED <<text, listingI, state, opened, lastTitle, symbol>>

-----------------------------------------------------------------------------
(* The answers *)

\* isolateSymbol: the lines an instruction is continued from and to, over the
\* end of a page
Enclosing(l, line) ==
  {n \in DOMAIN l.code : l.code[n].codeStart <= line /\ line < l.code[n].end}

\* provideObjectCodeDetails joins the pages of a title, and does so in the
\* listing itself: the first of them is extended to the last
Joined(l) ==
  LET First(n) == \A k \in 1 .. n - 1 : k # n - 1 \/ l.code[k].title # l.code[n].title
      Run(n) == {k \in n .. Len(l.code) : \A m \in n .. k : l.code[m].title = l.code[n].title}
  IN [l EXCEPT !.code = [n \in DOMAIN @ |->
        IF First(n) THEN [@[n] EXCEPT !.start = Min({@} \union {l.code[k].start : k \in Run(n)}),
                                      !.end = Max({l.code[k].end : k \in Run(n)})]
        ELSE @[n]]]

Outline ==
  /\ done
  /\ listing' = Joined(listing)
  /\ UNCHANGED <<text, listingI, state, opened, lastTitle, symbol, done>>

\* provideOffsets
Offsets(l) ==
  {s \in l.stmts : s.no \in DOMAIN l.map /\ l.map[s.no] /\ s.address >= 0}

ListingNext == \/ SectionPage \/ TitlePage \/ CodeHeader \/ Diagnostic \/ Statement
               \/ Reference \/ OtherLine \/ ListingFinish \/ Outline

-----------------------------------------------------------------------------

\* A diagnostic ends the page it is printed on, and no heading follows it
AfterDiagnostic(line) ==
  text[Max({0} \union {n \in 1 .. line : text[n].k \in Headings})].k = "diag"

(* A position on a statement is found in a page of code, which is what
   definitions and references start from, unless a diagnostic was printed on
   the page above it: the statements below one are in no page until the outline
   is shown *)
StatementsAreInPages ==
  done => \A s \in listing.stmts :
    Enclosing(listing, s.line) # {} \/ AfterDiagnostic(s.line)

(* The offsets shown are those of statements in control sections: a statement
   of a dummy section never gets one (a document says the `truth` of its lines) *)
OffsetsAreOfControlSections ==
  done => \A s \in Offsets(listing) : text[s.line].truth

(* ... and no statement of a control section but the last one lacks it *)
OffsetsAreComplete ==
  done => \A s \in listing.stmts :
    text[s.line].truth /\ s.address >= 0 /\ s.no < MaxNo(listing) => s \in Offsets(listing)
=============================================================================
