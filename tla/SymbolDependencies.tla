------------------------- MODULE SymbolDependencies -------------------------
(***************************************************************************)
(* Ordinary symbols that are used before they are defined                  *)
(* (symbol_dependency_tables.cpp, ordinary_assembly_context.cpp). EQU, DS  *)
(* and EXTRN define symbols (asm_processor.cpp). What cannot be evaluated  *)
(* yet - the value of a symbol, its length attribute, the length of a      *)
(* block of bytes, called a space - is kept with the expression it depends *)
(* on, and evaluated as soon as nothing is missing.                        *)
(*                                                                         *)
(* There is one section with one location counter and no alignment; ORG,   *)
(* literals, scales and products are left out. The table of dependencies,  *)
(* its iterators, filters and attributes are one sequence. The order       *)
(* std::partition gives to it is stable here; what is resolved together    *)
(* does not depend on each other, so that it makes no difference.          *)
(***************************************************************************)
EXTENDS Integers, Sequences, FiniteSets, SequencesExt

CONSTANTS
  Sym,      \* names of symbols
  None,     \* no symbol, no value
  Here,     \* the section
  Bit,      \* [Sym \cup Space -> Nat]: dependant_hasher, as used by a filter
  MaxSpace, \* bound on the spaces
  Programs  \* sequences of Statement

Space == 1..MaxSpace
Base == Sym \cup {Here}

(* const + the terms with their signs; lead is the leftmost term if that   *)
(* is a symbol.                                                            *)
Term == [sign : {-1, 1}, kind : {"sym", "L", "T"}, of : Sym]
Expression == [const : Int, terms : SUBSET Term, lead : Sym \cup {None}]
Statement == [op : {"equ", "ds", "extrn"}, label : Sym \cup {None}, expr : Expression]

SymbolAssumption ==
  /\ MaxSpace \in Nat /\ None \notin Sym /\ Here \notin Sym
  /\ \A x \in Sym \cup Space : Bit[x] \in Nat
  /\ \A s \in UNION {{p[i] : i \in DOMAIN p} : p \in Programs} :
       s \in Statement /\ (s.op # "ds" => s.label # None)

VARIABLES
  program, \* the statements
  at,      \* the next one; after the last one comes the end of processing
  sym,     \* symbols_: None or [value, len, data]: data is FALSE for EQU
  loc,     \* the address of the location counter
  space,   \* the spaces: None, or their length
  deps,    \* m_dependencies and what is kept beside
  skip,    \* m_dependencies_skip_index
  refs,    \* m_postponed_stmts_references
  cycles,  \* statements with diagnostic E033, 0 for that of check_loctr_cycle
  late     \* history: targets of resolve_all_as_default
vars == <<program, at, sym, loc, space, deps, skip, refs, cycles, late>>

(* The tables, as one value that the operations below transform.           *)
Tables == [sym |-> sym, loc |-> loc, space |-> space, deps |-> deps, skip |-> skip, refs |-> refs,
           cycles |-> cycles, reporting |-> at > Len(program)]
Becomes(result) ==
  \E t \in {result} :
    /\ sym' = t.sym /\ loc' = t.loc /\ space' = t.space /\ deps' = t.deps
    /\ skip' = t.skip /\ refs' = t.refs /\ cycles' = t.cycles

-----------------------------------------------------------------------------
(* Values: absolute ones have neither bases nor spaces.                    *)
Zero == [base |-> [b \in Base |-> 0], spaces |-> [p \in Space |-> 0], off |-> 0]
Absolute(n) == [Zero EXCEPT !.off = n]
Add(v, k, w) ==
  [base |-> [b \in Base |-> v.base[b] + k * w.base[b]],
   spaces |-> [p \in Space |-> v.spaces[p] + k * w.spaces[p]],
   off |-> v.off + k * w.off]
IsAbs(v) == v.base = Zero.base /\ v.spaces = Zero.spaces

(* normalized: spaces whose length is known.                               *)
Normal(t, v) ==
  LET known == {p \in Space : p <= Len(t.space) /\ t.space[p] # None}
  IN [v EXCEPT !.spaces = [p \in Space |-> IF p \in known THEN 0 ELSE @[p]],
               !.off = @ + FoldSet(LAMBDA p, sum : sum + v.spaces[p] * t.space[p], 0, known)]

(* The attribute of a length, which is 1 if that is not a number; -1 is    *)
(* undef_length. The bytes of DS CL(v).                                    *)
UndefLength == -1
LengthOf(v) == IF IsAbs(v) THEN v.off ELSE 1
Bytes(v) == IF IsAbs(v) /\ v.off >= 1 THEN v.off ELSE 0

-----------------------------------------------------------------------------
(* get_dependencies of an expression: the terms that cannot be evaluated.  *)
(* At the end of the processing T' of an unknown symbol is known to be U.  *)
IsMissing(t, x) ==
  CASE x.kind = "sym" -> t.sym[x.of] = None \/ t.sym[x.of].value = None
    [] x.kind = "L" -> t.sym[x.of] = None \/ t.sym[x.of].len = UndefLength
    [] x.kind = "T" -> t.sym[x.of] = None /\ ~t.reporting
Missing(t, e) == {x \in e.terms : IsMissing(t, x)}

TermValue(t, x) ==
  CASE x.kind = "sym" -> t.sym[x.of].value
    [] x.kind = "L" -> Absolute(t.sym[x.of].len)
    [] x.kind = "T" -> Absolute(IF t.sym[x.of] # None /\ t.sym[x.of].data THEN 1 ELSE 0)

(* evaluate, equ_evaluate: if no symbol is missing.                        *)
Evaluate(t, e) ==
  Normal(t, FoldSet(LAMBDA x, v : Add(v, x.sign, TermValue(t, x)), Absolute(e.const), e.terms))
SpacesOf(t, e) == {p \in Space : Evaluate(t, e).spaces[p] # 0}
Unknown(t, e) == Missing(t, e) # {} \/ SpacesOf(t, e) # {}

(* Targets: <<"sym", s>>, <<"L", s>>, <<"space", p>>.                      *)
NameBits(S) == {Bit[x] : x \in S}

(* extract_dependencies: symbols come first, then attributes, then spaces. *)
Extract(t, e) ==
  LET m == Missing(t, e)
      symbols == {x \in m : x.kind = "sym"}
  IN IF symbols # {} THEN {<<"sym", x.of>> : x \in symbols}
     ELSE IF m # {} THEN {<<x.kind, x.of>> : x \in m}
     ELSE {<<"space", p>> : p \in SpacesOf(t, e)}

(* update_dependencies: what a dependency waits for is cached.             *)
Updated(t, d) ==
  LET m == Missing(t, d.expr)
      names == {x.of : x \in {y \in m : y.kind # "T"}}
      tAttr == \E x \in m : x.kind = "T"
  IN [d EXCEPT !.filter = IF m # {} THEN NameBits(names) ELSE NameBits(SpacesOf(t, d.expr)), !.t = tAttr]

(* has_dependency of resolve_loop.                                         *)
Refreshed(t, d) == IF d.filter # {} THEN d ELSE Updated(t, d)
Waits(d) == d.filter # {} \/ d.t

(* any_attr: such dependencies wait until everything is defined.           *)
AnyAttr(d) == d.t \/ d.target[1] = "space" \/ d.delay

-----------------------------------------------------------------------------
(* What is known about a target.                                           *)
Give(t, target, v, length, bytes) ==
  CASE target[1] = "sym" -> [t EXCEPT !.sym[target[2]].value = v]
    [] target[1] = "L" -> [t EXCEPT !.sym[target[2]].len = length]
    [] target[1] = "space" ->
         IF t.space[target[2]] # None THEN t ELSE [t EXCEPT !.space[target[2]] = bytes]

(* reset_global.                                                           *)
Reset(t, bits) ==
  [t EXCEPT !.deps = [i \in DOMAIN @ |-> [@[i] EXCEPT !.filter = @ \ bits]]]

(* resolve_dependant, and resolve_dependant_default.                       *)
Resolve(t, d) ==
  LET v == Evaluate(t, d.expr) IN Give(t, d.target, v, LengthOf(v), Bytes(v))
Default(t, target) == Reset(Give(t, target, Zero, 1, 1), {Bit[target[2]]})

Release(t, id) == IF id = 0 THEN t ELSE [t EXCEPT !.refs[id] = @ - 1]

(* One iteration of resolve_loop: the dependencies from b on.              *)
Round(t, b) ==
  LET seen == [i \in DOMAIN t.deps |-> IF i > b THEN Refreshed(t, t.deps[i]) ELSE t.deps[i]]
      ready == SelectSeq(SubSeq(seen, b + 1, Len(seen)), LAMBDA d : ~Waits(d))
      rest == SubSeq(seen, 1, b) \o SelectSeq(SubSeq(seen, b + 1, Len(seen)), Waits)
      given == FoldLeft(LAMBDA s, d : Release(Resolve(s, d), d.stmt), t, ready)
  IN Reset([given EXCEPT !.deps = rest], {Bit[ready[i].target[2]] : i \in DOMAIN ready})

(* Where resolve_loop begins. With diagnostics all dependencies count,     *)
(* otherwise those without attributes.                                     *)
Behind(t, all) ==
  IF all THEN 0 ELSE t.skip + Len(SelectSeq(SubSeq(t.deps, t.skip + 1, Len(t.deps)), AnyAttr))
Sorted(t, all) ==
  LET tail == SubSeq(t.deps, t.skip + 1, Len(t.deps))
  IN IF all THEN t.deps
     ELSE SubSeq(t.deps, 1, t.skip) \o SelectSeq(tail, AnyAttr) \o SelectSeq(tail, LAMBDA d : ~AnyAttr(d))

ResolveLoop(t, all) ==
  LET b == Behind(t, all)
      start == [t EXCEPT !.deps = Sorted(t, all), !.skip = b]
      after[n \in Nat] == IF n = 0 THEN start ELSE Round(after[n - 1], b)
  IN after[Len(t.deps) + 1]

(* add_defined of a symbol.                                                *)
AddDefined(t, s) == ResolveLoop(Reset(t, {Bit[s]}), FALSE)

(* Everything a search from S in the table reaches.                        *)
Reach(t, S) ==
  LET next(T) == T \cup UNION {Extract(t, t.deps[i].expr) : i \in {j \in DOMAIN t.deps : t.deps[j].target \in T}}
      step[n \in Nat] == IF n = 0 THEN S ELSE next(step[n - 1])
  IN step[Len(t.deps)]

(* has_cycle.                                                              *)
HasCycle(t, target, e) == target \in Reach(t, Extract(t, e))

(* insert_dependency and establish_statement_dependency.                   *)
Insert(t, target, e, id, delay) ==
  [t EXCEPT !.deps = Append(@, [target |-> target, expr |-> e, stmt |-> id, filter |-> {}, t |-> FALSE, delay |-> delay]),
            !.refs[id] = @ + 1]

(* add_dependency_with_cycle_check.                                        *)
AddWithCheck(t, target, e, id, delay) ==
  IF HasCycle(t, target, e)
  THEN [ResolveLoop(Default(t, target), FALSE) EXCEPT !.cycles = @ \cup {at}]
  ELSE Insert(t, target, e, id, delay)

(* add_postponed.                                                          *)
Postponed(t) == [t EXCEPT !.refs = Append(@, 0)]

-----------------------------------------------------------------------------
(* Statements.                                                             *)
Here_(t) == Normal(t, t.loc)
Symbol(t, s, value, len, data) == [t EXCEPT !.sym[s] = [value |-> value, len |-> len, data |-> data]]

(* The length of the leftmost symbol.                                      *)
EquLength(t, e) ==
  IF e.lead # None /\ t.sym[e.lead] # None /\ t.sym[e.lead].value # None
  THEN t.sym[e.lead].len ELSE 1

(* process_EQU.                                                            *)
Equ(t, s, e) ==
  IF t.sym[s] # None THEN t
  ELSE IF Missing(t, e) = {}
  THEN AddDefined(Symbol(t, s, Evaluate(t, e), EquLength(t, e), FALSE), s)
  ELSE LET u == Postponed(Symbol(t, s, None, EquLength(t, e), FALSE))
       IN AddWithCheck(u, <<"sym", s>>, e, Len(u.refs), FALSE)

(* process_data_instruction: the label.                                    *)
Label(t, s, e) ==
  LET u == Symbol(t, s, Here_(t), UndefLength, TRUE)
      waits == Unknown(u, e)
  IN [needs |-> waits,
      tables |-> AddDefined(IF waits THEN u ELSE [u EXCEPT !.sym[s].len = LengthOf(Evaluate(u, e))], s)]

(* register_ordinary_space, or reserve_storage_area.                       *)
Reserve(t, e) ==
  IF Unknown(t, e)
  THEN [t EXCEPT !.space = Append(@, None), !.loc.spaces[Len(t.space) + 1] = 1]
  ELSE [t EXCEPT !.loc.off = @ + Bytes(Evaluate(t, e))]

(* process_data_instruction of DS CL(e).                                   *)
Ds(t, s, e) ==
  LET new == s # None /\ (s # None => t.sym[s] = None)
      l == IF new THEN Label(t, s, e) ELSE [needs |-> FALSE, tables |-> t]
      u == Reserve(l.tables, e)
      v == Postponed(u)
      w == IF l.needs THEN AddWithCheck(v, <<"L", s>>, e, Len(v.refs), TRUE) ELSE v
  IN IF Unknown(l.tables, e) THEN Insert(w, <<"space", Len(u.space)>>, e, Len(v.refs), FALSE) ELSE w

(* create_external_section.                                                *)
Extrn(t, s) ==
  IF t.sym[s] # None THEN t ELSE Symbol(t, s, [Zero EXCEPT !.base[s] = 1], 1, FALSE)

Stmt == program[at]
Going == at <= Len(program)
DefineEqu == Going /\ Stmt.op = "equ" /\ Becomes(Equ(Tables, Stmt.label, Stmt.expr))
             /\ at' = at + 1 /\ UNCHANGED <<program, late>>
DefineData == Going /\ Stmt.op = "ds" /\ Len(space) < MaxSpace /\ Becomes(Ds(Tables, Stmt.label, Stmt.expr))
              /\ at' = at + 1 /\ UNCHANGED <<program, late>>
External == Going /\ Stmt.op = "extrn" /\ Becomes(Extrn(Tables, Stmt.label))
            /\ at' = at + 1 /\ UNCHANGED <<program, late>>

-----------------------------------------------------------------------------
(* The end of the processing.                                              *)

(* check_loctr_cycle: spaces that depend on each other, in the order in    *)
(* which the search meets them.                                            *)
SpaceTargets(t) == {t.deps[i].target : i \in {j \in DOMAIN t.deps : t.deps[j].target[1] = "space"}}
Edges(t, S) ==
  {y \in S \X S : \E i \in DOMAIN t.deps : t.deps[i].target = y[1] /\ y[2] \in Extract(t, t.deps[i].expr)}

(* Defect: what has been visited before is on a cycle.                     *)
Visited(edges, S) == {x \in S : \E y \in edges : y[2] = x}

(* The members of the path from itself to itself.                          *)
OnCycle(edges, S) ==
  LET next(T) == {y[2] : y \in {z \in edges : z[1] \in T /\ z[2] \in S}}
      from(x) == LET f[n \in Nat] == IF n = 0 THEN next({x}) ELSE LET T == f[n - 1] IN T \cup next(T)
                 IN f[MaxSpace]
  IN {x \in S : x \in from(x)}

RemoveAll(t, C) ==
  LET gone == SelectSeq(t.deps, LAMBDA d : d.target \in C)
      u == FoldSet(LAMBDA x, s : Default(s, x), t, C)
      v == FoldLeft(LAMBDA s, d : Release(s, d.stmt), u, gone)
  IN [v EXCEPT !.deps = SelectSeq(@, LAMBDA d : d.target \notin C),
               !.skip = IF C = {} THEN @ ELSE 0,
               !.cycles = IF C = {} THEN @ ELSE @ \cup {0}]

CheckLoctrCycle(C) ==
  LET S == SpaceTargets(Tables)
  IN \E edges \in {Edges(Tables, S)} : OnCycle(edges, C) = C /\ OnCycle(edges, S \ C) = {}

(* resolve_all_as_default; regenerate_addresses.                           *)
AllDefault(t) == FoldLeft(LAMBDA s, d : Default(s, d.target), t, t.deps)

(* Defect: addresses keep the spaces they were created with.               *)
NotRegenerated(t) == t

Regenerated(t) ==
  [t EXCEPT !.sym = [s \in Sym |-> IF t.sym[s] = None THEN None ELSE [t.sym[s] EXCEPT !.value = Normal(t, @)]]]

(* end_processing: check_loctr_cycle, all_defined, finish_module_layout,   *)
(* resolve_all_as_default, regenerate_addresses, collect_postponed.        *)
EndProcessing ==
  /\ at = Len(program) + 1 /\ at' = at + 1
  /\ \E C \in SUBSET SpaceTargets(Tables) :
       /\ CheckLoctrCycle(C)
       /\ \E t \in {ResolveLoop(RemoveAll(Tables, C), TRUE)} :
            /\ Becomes([Regenerated(AllDefault(t)) EXCEPT !.deps = <<>>, !.refs = <<>>])
            /\ late' = {t.deps[i].target : i \in DOMAIN t.deps}
  /\ UNCHANGED program

Done == at > Len(program) + 1
Finished == Done /\ UNCHANGED vars

Init ==
  /\ program \in Programs /\ at = 1
  /\ sym = [s \in Sym |-> None] /\ loc = [Zero EXCEPT !.base[Here] = 1] /\ space = <<>>
  /\ deps = <<>> /\ skip = 0 /\ refs = <<>> /\ cycles = {} /\ late = {}

Next == DefineEqu \/ DefineData \/ External \/ EndProcessing \/ Finished
Spec == Init /\ [][Next]_vars

-----------------------------------------------------------------------------
Value == [base : [Base -> Int], spaces : [Space -> Int], off : Int]
Target == ({"sym", "L"} \X Sym) \cup ({"space"} \X Space)
Dependency == [target : Target, expr : Expression, stmt : Nat, filter : SUBSET Nat, t : BOOLEAN, delay : BOOLEAN]
TypeOK ==
  /\ program \in Programs /\ at \in 1..Len(program) + 2 /\ loc \in Value
  /\ \A s \in Sym : \/ sym[s] = None
                   \/ /\ sym[s].value = None \/ sym[s].value \in Value
                      /\ sym[s].len \in Int /\ sym[s].data \in BOOLEAN
  /\ Len(space) <= MaxSpace /\ \A i \in DOMAIN space : space[i] = None \/ space[i] \in Nat
  /\ \A i \in DOMAIN deps : deps[i] \in Dependency /\ deps[i].stmt \in DOMAIN refs
  /\ skip \in 0..Len(deps) /\ refs \in Seq(Nat) /\ cycles \subseteq 0..Len(program) /\ late \subseteq Target

(* A postponed statement is referenced by its dependencies, one target has *)
(* one of them: no statement is checked without its operands, none is kept *)
(* for nothing (establish_statement_dependency, resolve_loop).             *)
RefCounts ==
  /\ \A id \in DOMAIN refs : refs[id] = Cardinality({i \in DOMAIN deps : deps[i].stmt = id})
  /\ \A i, j \in DOMAIN deps : deps[i].target = deps[j].target => i = j

(* Between two statements the filter of a dependency names nothing that is *)
(* known meanwhile: what sets a bit (update_dependencies) is matched by    *)
(* what resets it wherever a value is given (reset_global).                *)
CacheIsTrue ==
  \A i \in DOMAIN deps :
    LET m == Missing(Tables, deps[i].expr)
    IN deps[i].filter \subseteq NameBits({x.of : x \in m} \cup (IF m = {} THEN SpacesOf(Tables, deps[i].expr) ELSE {}))

(* Between two statements everything that can be evaluated has been, but   *)
(* for what waits for the end because of attributes and spaces: lookups by *)
(* the conditional assembly find the value (add_defined, resolve_loop).    *)
(* An attribute of a symbol whose EQU has no value yet is known as soon as *)
(* the EQU is read, but is noticed with the value only (process_EQU).      *)
OfValueless(e) ==
  \E x \in e.terms : x.kind # "sym" /\ sym[x.of] # None /\ sym[x.of].value = None
NothingReadyWaits ==
  \A i \in DOMAIN deps :
    AnyAttr(deps[i]) \/ Unknown(Tables, deps[i].expr) \/ OfValueless(deps[i].expr)

(* The statement that defines a symbol.                                    *)
Defines(i, s) == program[i].label = s /\ \A j \in 1..(i - 1) : program[j].label # s
Solved(i, s) ==
  LET x == program[i]
      v == Evaluate(Tables, x.expr)
  IN /\ x.op = "equ" /\ <<"sym", s>> \notin late => sym[s].value = v
     /\ x.op = "ds" /\ <<"L", s>> \notin late => sym[s].len = LengthOf(v)

(* At the end the values solve the program, in whatever order its symbols  *)
(* are defined and used: EQU has the value of its operand, a label has the *)
(* length of its operand. Cycles and what has been given up are excepted   *)
(* (resolve_loop, resolve_all_as_default, regenerate_addresses).           *)
ValuesSolve ==
  Done => \A i \in DOMAIN program \ cycles : \A s \in Sym : Defines(i, s) => Solved(i, s)

(* What the text of the program says: the length of a symbol, the value of *)
(* an EQU and the bytes of a DS need each other. An expression needs the   *)
(* bytes of a statement if the addresses before and after it do not cancel *)
(* each other.                                                             *)
Definition(s) == {i \in DOMAIN program : Defines(i, s)}
IsBehind(x, k) == x.kind = "sym" /\ \E i \in Definition(x.of) : program[i].op = "ds" /\ k < i
Count(e, k) == FoldSet(LAMBDA x, n : n + x.sign, 0, {x \in e.terms : IsBehind(x, k)})
Needed(e) ==
  {<<x.kind, x.of>> : x \in {y \in e.terms : y.kind = "L" \/ (y.kind = "sym" /\ \A i \in Definition(y.of) : program[i].op = "equ")}}
  \cup {<<"bytes", k>> : k \in {k \in DOMAIN program : program[k].op = "ds" /\ Count(e, k) # 0}}
Needs(n) ==
  CASE n[1] = "bytes" -> Needed(program[n[2]].expr)
    [] n[1] = "sym" -> UNION {Needed(program[i].expr) : i \in {k \in Definition(n[2]) : program[k].op = "equ"}}
    [] n[1] = "L" -> UNION {Needed(program[i].expr) : i \in {k \in Definition(n[2]) : program[k].op = "ds"}}
Behind_(n) ==
  LET step[m \in Nat] == IF m = 0 THEN Needs(n) ELSE LET S == step[m - 1] IN S \cup UNION {Needs(x) : x \in S}
  IN step[2 * Len(program)]
OnLoop(n) == n \in Behind_(n)
IsUndefined(n) == n[1] # "bytes" /\ Definition(n[2]) = {}
Stuck(n) == \E x \in {n} \cup Behind_(n) : OnLoop(x) \/ IsUndefined(x)
Nodes == ({"sym", "L"} \X Sym) \cup {<<"bytes", i>> : i \in {k \in DOMAIN program : program[k].op = "ds"}}

(* At the end nothing is made zero that could have been evaluated: what    *)
(* has been given up needs an undefined symbol or is behind a cycle        *)
(* (update_dependencies, resolve_loop, resolve_all_as_default), or needs a *)
(* length that is -1, the mark of an unknown one: a label gets that if its *)
(* operand says so, and an EQU takes the length its leftmost symbol has    *)
(* when it is read, which stays -1 when that one becomes known             *)
(* (asm_processor.cpp 312-323).                                            *)
NoLength(n) == n[1] = "L" /\ sym[n[2]] # None /\ sym[n[2]].len = UndefLength
WithoutLength(n) == \E x \in Behind_(n) : NoLength(x)
GivenUpIsStuck ==
  Done =>
    \A n \in late :
      IF n[1] = "space" THEN \E x \in Nodes : x[1] = "bytes" /\ (Stuck(x) \/ WithoutLength(x))
      ELSE Stuck(n) \/ WithoutLength(n)

(* A cycle is reported only where the program has one (has_cycle,          *)
(* check_loctr_cycle).                                                     *)
NoFalseCycle == cycles # {} => \E n \in Nodes : OnLoop(n)

=============================================================================
