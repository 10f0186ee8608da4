---------------------------- MODULE AsmStatements ----------------------------
(***************************************************************************)
(* The assembler instructions that neither define sections nor bases       *)
(* (asm_processor.cpp): what is done when they are met, and what is left   *)
(* for the end of the assembly, when the statements that were put aside    *)
(* are checked (ordinary_processor.cpp). One control section, whose        *)
(* addresses are all known, so that an address is a number.                *)
(*                                                                         *)
(* An operand is nothing, an expression (a number, a symbol, *, or a word  *)
(* that no symbol is), a string, of which only the length counts, or a     *)
(* name with parameters.                                                   *)
(***************************************************************************)
EXTENDS Integers, Sequences, FiniteSets, SequencesExt

CONSTANTS
  Label,       \* names of symbols
  None,        \* no label, no value
  Statements,  \* the statements of this instance: [op, label, ops]
  MaxStatements, \* bound: statements of a program
  MaxRecord,   \* string_max_length
  MaxText, MaxOperands  \* MNOTE_max_message_length, MNOTE_max_operands_length

StatementAssumption ==
  /\ None \notin Label /\ {MaxStatements, MaxRecord, MaxText, MaxOperands} \subseteq Nat
  /\ MaxText < MaxOperands
  /\ \A s \in Statements : s.label \in Label \cup {None}

Nothing == [k |-> "empty"]
Number(n) == [k |-> "number", n |-> n]
Sum(n, name) == [k |-> "sum", n |-> n, of |-> name]  \* name+n, * if it has none
Word(w) == [k |-> "word", of |-> w]                  \* a symbol that is not defined
String(n) == [k |-> "string", n |-> n]
Complex == [k |-> "complex"]

VARIABLES
  at,     \* the statements read so far
  loc,    \* the location counter, and the highest one
  sym,    \* addresses of the symbols, or None
  title,  \* get_title_name
  sev,    \* mnote_max
  out,    \* what is shown or punched: <<kind, severity, length>>
  front, back, \* the records of AINSERT, in the order they will be read
  posted, \* m_postponed_stmts
  ended,  \* m_end_reached
  over,   \* no, finished_flag_, or processed to the end
  said    \* messages: <<code, statement>>

vars == <<at, loc, sym, title, sev, out, front, back, posted, ended, over, said>>
State == [loc |-> loc, sym |-> sym, title |-> title, sev |-> sev, out |-> out, front |-> front,
          back |-> back, posted |-> posted, ended |-> ended, said |-> said]
Becomes(s) ==
  /\ loc' = s.loc /\ sym' = s.sym /\ title' = s.title /\ sev' = s.sev /\ out' = s.out
  /\ front' = s.front /\ back' = s.back /\ posted' = s.posted /\ ended' = s.ended /\ said' = s.said

-----------------------------------------------------------------------------
MaxOf(a, b) == IF a > b THEN a ELSE b
PowerOfTwo(n) == \E e \in 0..13 : n = 2 ^ e
Up(n, b) == ((n + b - 1) \div b) * b

IsExpr(o) == o.k \in {"number", "sum", "word"}
Has(s, i) == i <= Len(s.ops) /\ s.ops[i].k # "empty"
HasOneComma(s) == Len(s.ops) = 2 /\ s.ops[1].k = "empty" /\ s.ops[2].k = "empty"

Say(t, c) == [t EXCEPT !.said = Append(@, <<c, Len(at) + 1>>)]
Post(t, s) == [t EXCEPT !.posted = Append(@, [s |-> s, n |-> Len(at) + 1])]

(* The addresses of the symbols of an expression: [defined, reloc, n].     *)
Known(t, o) ==
  CASE o.k = "number" -> [defined |-> TRUE, reloc |-> FALSE, n |-> o.n]
    [] o.k = "sum" /\ o.of = None -> [defined |-> TRUE, reloc |-> TRUE, n |-> t.loc.at + o.n]
    [] o.k = "sum" /\ t.sym[o.of] # None -> [defined |-> TRUE, reloc |-> TRUE, n |-> t.sym[o.of] + o.n]
    [] OTHER -> [defined |-> FALSE, reloc |-> FALSE, n |-> 0]
Absolute(t, o) == IsExpr(o) /\ Known(t, o).defined /\ ~Known(t, o).reloc

(* align and reserve_storage_area.                                         *)
Moved(t, a) == [t EXCEPT !.loc = [at |-> a, top |-> MaxOf(a, @.top)]]
Aligned(t, b) == Moved(t, Up(t.loc.at, b))
Reserved(t, n) == Moved(t, t.loc.at + n)

(* find_label_symbol, create_symbol: the label of a statement.             *)
Labelled(t, s) ==
  IF s.label = None THEN t
  ELSE IF t.sym[s.label] # None THEN Say(t, "E031")
  ELSE [t EXCEPT !.sym[s.label] = t.loc.at]

-----------------------------------------------------------------------------
(* Defect: the label of a CCW is created before the doubleword is begun.   *)
CcwLabelFirst(t, s) == Post(Reserved(Aligned(Labelled(t, s), 8), 8), s)

(* process_CCW, process_CXD, process_LTORG without literals.               *)
Ccw(t, s) == Post(Reserved(Labelled(Aligned(t, 8), s), 8), s)
Cxd(t, s) == Reserved(Labelled(Aligned(t, 4), s), 4)
Ltorg(t, s) == Post(Labelled(Aligned(t, 8), s), s)

(* The first address from a on with a given remainder.                     *)
Reaching(a, byte, boundary) == CHOOSE n \in a..(a + boundary - 1) : n % boundary = byte

(* Defect: the byte is counted from the next boundary.                     *)
BehindBoundary(a, byte, boundary) == Up(a, boundary) + byte

(* alignment of CNOP: no-operations up to a byte of a word.                *)
NoOperations(a, byte, boundary) == Reaching(a, byte, boundary)

Cnop(t, s) ==
  LET u == Labelled(Aligned(t, 2), s)
      known == Len(s.ops) = 2 /\ Absolute(u, s.ops[1]) /\ Absolute(u, s.ops[2])
      byte == IF known THEN s.ops[1].n ELSE 0
      boundary == IF known THEN s.ops[2].n ELSE 0
      accepted == known /\ byte >= 0 /\ PowerOfTwo(boundary) /\ byte < boundary /\ byte % 2 = 0
  IN Post(IF accepted THEN Moved(u, NoOperations(u.loc.at, byte, boundary)) ELSE u, s)

-----------------------------------------------------------------------------
(* ORG: the operands are read from left to right until one of them is no   *)
(* expression.                                                             *)
OrgStop(s) == \E i \in DOMAIN s.ops : s.ops[i].k # "empty" /\ ~IsExpr(s.ops[i])
OrgEnd(s) ==  \* operands that are read
  IF OrgStop(s) THEN (CHOOSE i \in DOMAIN s.ops : /\ s.ops[i].k # "empty" /\ ~IsExpr(s.ops[i])
                                                   /\ \A j \in 1..(i - 1) : s.ops[j].k = "empty" \/ IsExpr(s.ops[j])) - 1
  ELSE Len(s.ops)
OrgReads(s, i) == i <= OrgEnd(s) /\ Has(s, i)

BadBoundary(t, o) == ~Absolute(t, o) \/ o.n < 2 \/ o.n > 4096 \/ ~PowerOfTwo(o.n)

(* The code of the message that refuses an ORG, or None.                   *)
OrgRefused(t, s) ==
  CASE OrgReads(s, 2) /\ BadBoundary(t, s.ops[2]) -> "A116"
    [] OrgReads(s, 3) /\ ~Absolute(t, s.ops[3]) -> "A115"
    [] ~OrgReads(s, 1) -> "A245"
    [] Known(t, s.ops[1]).defined /\ ~Known(t, s.ops[1]).reloc -> "A245"
    [] OTHER -> None

OrgBoundary(s) == IF OrgReads(s, 2) THEN s.ops[2].n ELSE 1
OrgOffset(s) == IF OrgReads(s, 3) THEN s.ops[3].n ELSE 0
OrgTarget(t, s) == Up(Known(t, s.ops[1]).n, OrgBoundary(s)) + OrgOffset(s)

(* check_address_for_ORG.                                                  *)
OrgUnderflow(t, s) == OrgTarget(t, s) < 0

(* An ORG to a symbol that is not defined yet begins a space of unknown    *)
(* length. That is what module LocationCounter is about: here no program   *)
(* has one.                                                                *)
OrgUnknown(t, s) ==
  /\ s.op = "ORG" /\ s.ops # <<>> /\ ~HasOneComma(s)
  /\ OrgRefused(Labelled(t, s), s) = None /\ ~Known(Labelled(t, s), s.ops[1]).defined

OrgMove(t, s) ==
  LET told == IF OrgStop(s) /\ OrgEnd(s) > 0 /\ OrgRefused(t, s) # "A116" THEN Say(t, "A115") ELSE t
  IN IF OrgRefused(t, s) # None THEN Say(told, OrgRefused(t, s))
     ELSE IF OrgUnderflow(t, s) THEN Say(told, "E068")
     ELSE Moved(told, OrgTarget(t, s))
Org(t, s) ==
  LET u == Labelled(t, s)
  IN IF s.ops = <<>> \/ HasOneComma(s) THEN Moved(u, u.loc.top) ELSE OrgMove(u, s)

-----------------------------------------------------------------------------
(* The severity of an MNOTE, or None; the length of that operand.          *)
MnoteLevel(s) ==
  CASE Len(s.ops) = 1 -> 0
    [] s.ops[1].k = "empty" -> 1
    [] s.ops[1].k = "sum" /\ s.ops[1].of = None /\ s.ops[1].n = 0 -> 0
    [] s.ops[1].k = "number" -> s.ops[1].n
    [] OTHER -> None
MnoteFirst(s) ==
  CASE Len(s.ops) = 1 \/ s.ops[1].k = "empty" -> 0
    [] s.ops[1].k = "number" -> IF s.ops[1].n > 99 THEN 3 ELSE IF s.ops[1].n > 9 THEN 2 ELSE 1
    [] OTHER -> 1

(* The length of the text; words count as well.                            *)
MnoteText(s) == LET o == Last(s.ops) IN IF o.k = "string" THEN o.n ELSE IF IsExpr(o) THEN 1 ELSE 0

(* update_mnote_max.                                                       *)
Severity(t, level) == MaxOf(t.sev, level)

Mnote(t, s) ==
  LET level == MnoteLevel(s)
      n == MnoteText(s)
      told == IF Last(s.ops).k # "string" THEN Say(t, "A300") ELSE t
      sized == IF n > MaxText THEN Say(told, "A117")
               ELSE IF n + MnoteFirst(s) > MaxOperands THEN Say(told, "A118") ELSE told
  IN IF Len(s.ops) \notin {1, 2} THEN Say(t, "A012")
     ELSE IF level = None THEN Say(t, "A119")
     ELSE IF level < 0 \/ level > 255 THEN Say(t, "A119")
     ELSE [sized EXCEPT !.out = Append(@, <<"MNOTE", level, IF n > MaxText THEN MaxText ELSE n>>),
                        !.sev = Severity(t, level)]

(* process_PUNCH.                                                          *)
Punch(t, s) ==
  CASE Len(s.ops) # 1 -> Say(t, "A011")
    [] Len(s.ops) = 1 /\ s.ops[1].k # "string" -> Say(t, "A300")
    [] Len(s.ops) = 1 /\ s.ops[1].k = "string" /\ s.ops[1].n = 0 -> Say(t, "A302")
    [] Len(s.ops) = 1 /\ s.ops[1].k = "string" /\ s.ops[1].n > MaxRecord -> Say(t, "A108")
    [] OTHER -> [t EXCEPT !.out = Append(@, <<"PUNCH", 0, s.ops[1].n>>)]

(* process_TITLE.                                                          *)
Title(t, s) ==
  Post(IF s.label = None THEN t ELSE IF t.title = None THEN [t EXCEPT !.title = s.label] ELSE Say(t, "W016"), s)

(* AINSERT_operand_visitor: a symbol of the second operand, wherever in    *)
(* the expression.                                                         *)
Destination(o) == IF o.k \in {"word", "sum"} THEN o.of ELSE None

(* The record of AINSERT.                                                  *)
Record(o) ==
  CASE o.k # "string" -> "A301"
    [] o.k = "string" /\ o.n > MaxRecord -> "A157"
    [] o.k = "string" /\ o.n = 0 -> "A021"
    [] OTHER -> "ok"

(* process_AINSERT, up to opencode_provider::ainsert.                      *)
Ainsert(t, s) ==
  IF Len(s.ops) # 2 THEN Say(t, "A011")
  ELSE IF ~IsExpr(s.ops[2]) THEN Say(t, "A156")
  ELSE IF Destination(s.ops[2]) = None THEN t
  ELSE IF Destination(s.ops[2]) \notin {"FRONT", "BACK"} THEN Say(t, "A156")
  ELSE IF Record(s.ops[1]) # "ok" THEN Say(t, Record(s.ops[1]))
  ELSE IF Destination(s.ops[2]) = "FRONT" THEN [t EXCEPT !.front = <<s.ops[1].n>> \o @]
  ELSE [t EXCEPT !.back = Append(@, s.ops[1].n)]

(* process_END, ALIAS, and everything that has no handler.                 *)
End(t, s) ==
  LET told == IF s.label # None THEN Say(t, "A249") ELSE t
      u == IF Has(s, 1) /\ Absolute(t, s.ops[1]) THEN Say(told, "E032") ELSE told
  IN [Post(u, s) EXCEPT !.ended = TRUE]
Alias(t, s) == IF s.label = None THEN Say(t, "A163") ELSE Post(t, s)
Define(t, s) == Post(Reserved(Labelled(Aligned(t, 2), s), 2), s)  \* a machine instruction or data

Handled(t, s) ==
  CASE s.op = "CCW" -> Ccw(t, s) [] s.op = "CXD" -> Cxd(t, s) [] s.op = "LTORG" -> Ltorg(t, s)
    [] s.op = "CNOP" -> Cnop(t, s) [] s.op = "ORG" -> Org(t, s) [] s.op = "MNOTE" -> Mnote(t, s)
    [] s.op = "PUNCH" -> Punch(t, s) [] s.op = "TITLE" -> Title(t, s) [] s.op = "AINSERT" -> Ainsert(t, s)
    [] s.op = "END" -> End(t, s) [] s.op = "ALIAS" -> Alias(t, s)
    [] s.op \in {"MACHINE", "DATA"} -> Define(t, s)
    [] OTHER -> Post(t, s)

-----------------------------------------------------------------------------
(* process_statement. After END only a statement with nothing in it is     *)
(* accepted.                                                               *)
Statement ==
  \E s \in Statements :
    /\ over = "no" /\ ~ended /\ Len(at) < MaxStatements /\ at' = Append(at, s)
    /\ ~OrgUnknown(State, s)
    /\ \E t \in {Handled(State, s)} : Becomes(t)
    /\ UNCHANGED over

AfterEnd ==
  \E s \in Statements :
    /\ over = "no" /\ ended /\ Len(at) < MaxStatements /\ at' = Append(at, s) /\ over' = "finished"
    /\ Becomes(Say(State, "W015"))

(* The instructions with symbols whose symbols have to be defined          *)
(* (has_ord_symbols, postpone_dependencies).                               *)
NeedsSymbols(s) == s.op \in {"CCW", "CNOP", "ENTRY", "END"}
Undefined(t, s) == \E i \in DOMAIN s.ops : IsExpr(s.ops[i]) /\ ~Known(t, s.ops[i]).defined

(* What its check says of a statement: the operands of this instance are   *)
(* otherwise right, but for CNOP.                                          *)
CnopWrong(t, s) ==
  CASE Len(s.ops) # 2 -> "A011"
    [] ~Absolute(t, s.ops[1]) \/ ~Absolute(t, s.ops[2]) -> "A143"
    [] s.ops[1].n < 0 \/ s.ops[1].n % 2 # 0 \/ s.ops[1].n > 4094 -> "A144"
    [] s.ops[2].n < 4 \/ s.ops[2].n > 4096 \/ ~PowerOfTwo(s.ops[2].n) -> "A145"
    [] s.ops[1].n > s.ops[2].n - 2 -> "A146"
    [] OTHER -> None
Verdict(t, s) ==
  CASE NeedsSymbols(s) /\ Undefined(t, s) -> "E010"
    [] s.op = "CNOP" /\ ~Undefined(t, s) -> CnopWrong(t, s)
    [] s.op \in {"MACHINE", "DATA"} /\ Undefined(t, s) -> "E010"
    [] s.op = "TITLE" /\ s.ops = <<>> -> "A013"
    [] OTHER -> None

(* transform_asm has found that the operands cannot be evaluated.          *)
Gives(t, p) == NeedsSymbols(p.s) /\ Undefined(t, p.s)

Stop(t) == {i \in DOMAIN posted : Gives(t, posted[i])}

(* check_postponed_statements: `return' leaves the loop over all of them.  *)
Reached(t) == IF Stop(t) = {} THEN DOMAIN posted ELSE 1..(CHOOSE i \in Stop(t) : \A j \in Stop(t) : i <= j)

(* end_processing.                                                         *)
EndProcessing ==
  /\ over # "done" /\ over' = "done"
  /\ LET told == SelectSeq([i \in DOMAIN posted |-> i],
                           LAMBDA i : i \in Reached(State) /\ Verdict(State, posted[i].s) # None)
     IN said' = said \o [k \in DOMAIN told |-> <<Verdict(State, posted[told[k]].s), posted[told[k]].n>>]
  /\ UNCHANGED <<at, loc, sym, title, sev, out, front, back, posted, ended>>

Init ==
  /\ at = <<>> /\ loc = [at |-> 0, top |-> 0] /\ sym = [l \in Label |-> None] /\ title = None /\ sev = 0
  /\ out = <<>> /\ front = <<>> /\ back = <<>> /\ posted = <<>> /\ ended = FALSE /\ over = "no" /\ said = <<>>

Next == Statement \/ AfterEnd \/ EndProcessing
Spec == Init /\ [][Next]_vars

-----------------------------------------------------------------------------
Told(n) == {i \in DOMAIN said : said[i][2] = n}
IsTold(n, c) == <<c, n>> \in {said[i] : i \in DOMAIN said}
Storage == {i \in DOMAIN at : at[i].op \in {"CCW", "CXD", "LTORG", "CNOP"}}
DefinedBy(i) == at[i].label # None /\ ~IsTold(i, "E031") /\ ~IsTold(i, "W015")

TypeOK ==
  /\ at \in Seq(Statements) /\ loc.at \in Nat /\ loc.top \in Nat
  /\ \A l \in Label : sym[l] = None \/ sym[l] \in Nat
  /\ title \in Label \cup {None} /\ sev \in 0..255 /\ ended \in BOOLEAN /\ over \in {"no", "finished", "done"}
  /\ \A i \in DOMAIN posted : posted[i].n \in DOMAIN at /\ posted[i].s = at[posted[i].n]
  /\ \A i \in DOMAIN said : said[i][2] \in DOMAIN at

(* The label of an instruction that begins on a boundary is the address on *)
(* that boundary, wherever ORG has put the counter before: it is created   *)
(* after the alignment (process_CCW, process_CNOP, process_CXD,            *)
(* process_LTORG).                                                         *)
LabelOnBoundary ==
  \A i \in Storage : DefinedBy(i) =>
    sym[at[i].label] % (CASE at[i].op \in {"CCW", "LTORG"} -> 8 [] at[i].op = "CXD" -> 4 [] OTHER -> 2) = 0

(* A symbol keeps the address of its first definition, also when ORG goes  *)
(* back behind it (symbol_defined before each create_symbol).              *)
FirstDefinition == [][\A l \in Label : sym[l] # None => sym'[l] = sym[l]]_vars

(* CNOP reaches what was asked for whenever the check of the operands at   *)
(* the end will have nothing to say about it: the conditions under which   *)
(* process_CNOP moves the counter are implied by those of cnop::check.     *)
(* Operands whose symbols are only defined later are ignored.              *)
CnopReaches ==
  [][at' # at /\ ~ended =>
       LET s == Last(at')
       IN s.op = "CNOP" /\ CnopWrong(State, s) = None
          => loc'.at % s.ops[2].n = s.ops[1].n /\ loc'.at - loc.at \in 0..s.ops[2].n]_vars

(* The counter never leaves the section, and ORG without operands returns  *)
(* to the end of what has been reserved (check_address_for_ORG,            *)
(* set_available_location_counter_value).                                  *)
NotBeforeSection == loc.at >= 0 /\ loc.at <= loc.top

(* After END no statement has an effect but for one warning, which ends    *)
(* the processing (get_end_reached).                                       *)
NothingAfterEnd ==
  [][ended /\ at' # at => /\ UNCHANGED <<loc, sym, title, sev, out, front, back, posted>>
                          /\ over' = "finished" /\ said' = Append(said, <<"W015", Len(at')>>)]_vars

(* SYSM_HSEV is the highest severity of the MNOTEs shown, and a refused    *)
(* one does not count (update_mnote_max is behind each return).            *)
SeverityIsHighest ==
  LET shown == {out[i][2] : i \in {j \in DOMAIN out : out[j][1] = "MNOTE"}}
  IN sev = IF shown = {} THEN 0 ELSE CHOOSE m \in shown : \A k \in shown : k <= m

(* What AINSERT gives to the analysed file is a record (process_AINSERT).  *)
RecordsFit == \A r \in Range(front \o back) : r \in 1..MaxRecord

(* A fault of a statement that was put aside is only passed over if        *)
(* another statement is told to have an undefined symbol                   *)
(* (check_postponed_statements).                                           *)
ToldUnlessStopped ==
  over = "done" =>
    \A i \in DOMAIN posted : Verdict(State, posted[i].s) # None =>
      \/ IsTold(posted[i].n, Verdict(State, posted[i].s))
      \/ \E j \in DOMAIN posted : j < i /\ IsTold(posted[j].n, "E010") /\ NeedsSymbols(posted[j].s)

=============================================================================
