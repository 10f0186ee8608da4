------------------------- MODULE ConditionalAssembly -------------------------
(***************************************************************************)
(* Conditional assembly (ca_processor.cpp, macro_processor.cpp and the     *)
(* scopes of hlasm_context.cpp): branches and their counters, variable     *)
(* symbols, macro calls and the limits that end a program that would run   *)
(* forever (ordinary_processor.cpp, check_fatals).                         *)
(*                                                                         *)
(* A line stands for a statement and the sequence symbol before it. The    *)
(* text of a line is chosen when it is first processed. What a macro is    *)
(* does not change; macros are defined before the first line. Whether a    *)
(* condition holds is chosen freely. A branch of open code to a symbol     *)
(* not seen yet is a lookahead, here one step.                             *)
(***************************************************************************)
EXTENDS Integers, FiniteSets, FiniteSetsExt, SequencesExt

CONSTANTS
  Macro,       \* names of macros
  Lines,       \* lines of open code
  Body,        \* lines of each macro
  Name,        \* names of variable symbols
  Params,      \* those that are symbolic parameters of every macro
  SysGlobal,   \* those that are system variables
  SysMacro,    \* those that are system variables in macros only
  Statements,  \* what a line may hold
  StatementLimit, \* statement_count_limit
  NestLimit,   \* NEST_LIMIT
  Branches,    \* what branch_counter starts with
  SysndxMax,   \* SYSNDX_limit_max
  MaxIndex     \* the largest value of A_t

LimitAssumption ==
  /\ {Lines, Body, StatementLimit, NestLimit, Branches, SysndxMax, MaxIndex} \subseteq Nat
  /\ Params \cup SysGlobal \cup SysMacro \subseteq Name

(* An operand of SETx: a value, or none. The default is 0 for every type.  *)
Empty == <<>>
Value(n) == <<n>>
Default == 0
Unread == [op |-> "UNREAD"]
(* Statements. A branch goes to one of the lines or, if may, to the next.  *)
Plain == [op |-> "PLAIN"]
Branch(to, may) == [op |-> "BRANCH", to |-> to, may |-> may]
Actr(n) == [op |-> "ACTR", n |-> n]
Call(m) == [op |-> "CALL", mac |-> m]
Mnote(n) == [op |-> "MNOTE", n |-> n]
Declare(global, v, t, scalar) ==
  [op |-> "DECLARE", global |-> global, v |-> v, t |-> t, scalar |-> scalar]
(* sub is the sequence of subscripts, vals the operands.                   *)
Set(v, t, sub, vals) == [op |-> "SET", v |-> v, t |-> t, sub |-> sub, vals |-> vals]

VARIABLES
  text,      \* the statements of open code and of the macros
  pc,        \* the line of open code that is next
  seen,      \* opencode_sequence_symbols: the lines whose symbol is known
  scopes,    \* scope_stack_
  globals,   \* globals_
  sysndx,    \* SYSNDX_
  limit,     \* SYSNDX_limit
  remaining, \* m_statements_remaining
  finished,  \* finished_flag_
  log        \* history: what was assigned to what, and the MNOTEs

vars == <<text, pc, seen, scopes, globals, sysndx, limit, remaining, finished, log>>

-----------------------------------------------------------------------------
Top == Len(scopes)
Scope == scopes[Top]
IsInMacro(s) == s.mac # "open code"

(* A code_scope. visits, budget and callee are history: how often each     *)
(* line was processed since the counter was set, what it was set to, and   *)
(* the macro that was left last.                                           *)
NewScope(mac, ndx) ==
  [mac |-> mac, cur |-> 0, counter |-> Branches, vars |-> <<>>, ndx |-> ndx,
   sevMax |-> 0, sevLast |-> 0, visits |-> <<>>, budget |-> Branches, callee |-> 0]

(* Defect: the scope starts with the variables of the caller.              *)
InheritedVars(mac, ndx) == [NewScope(mac, ndx) EXCEPT !.vars = Scope.vars]
EnteredScope(mac, ndx) == NewScope(mac, ndx)

(* leave_macro.                                                            *)
Left(ss) ==
  LET top == Last(ss)
      below == Front(ss)
  IN  [below EXCEPT ![Len(below)].sevLast = top.sevMax, ![Len(below)].callee = top.ndx]

(* get_var_sym.                                                            *)
Kind(s, v) ==
  LET system == SysGlobal \cup IF IsInMacro(s) THEN SysMacro ELSE {}
  IN  CASE v \in DOMAIN s.vars -> "set"
        [] v \in system \ DOMAIN s.vars -> "system"
        [] v \in Params \ (system \cup DOMAIN s.vars) /\ IsInMacro(s) -> "param"
        [] OTHER -> "none"

Symbol(s, v) == IF s.vars[v].global THEN globals[v] ELSE s.vars[v]
With(f, k, x) == [j \in DOMAIN f \cup {k} |-> IF j = k THEN x ELSE f[j]]
NewSymbol(global, t, scalar) == [global |-> global, t |-> t, scalar |-> scalar, data |-> <<>>]

ValueAt(sym, i) == IF i \in DOMAIN sym.data THEN sym.data[i] ELSE Default

-----------------------------------------------------------------------------
(* Where control goes. cur of a scope is the line processed last.          *)
Place == IF Top = 1 THEN <<"open code", pc>> ELSE <<Scope.mac, Scope.cur + 1>>
AtEnd == Place[2] > IF Top = 1 THEN Lines ELSE Body
Here ==
  CASE AtEnd -> {}
    [] ~AtEnd /\ text[Place] = Unread -> Statements
    [] OTHER -> {text[Place]}

Advanced(ss) ==
  IF Len(ss) = 1 THEN ss ELSE [ss EXCEPT ![Len(ss)].cur = @ + 1]
Visited(ss) ==
  [ss EXCEPT ![Len(ss)].visits =
     With(@, Place[2], 1 + IF Place[2] \in DOMAIN @ THEN @[Place[2]] ELSE 0)]

(* jump_in_statements. A forward branch of open code that needs a          *)
(* lookahead is not counted; the lookahead registers what it passes.       *)
Decremented(ss) == [ss EXCEPT ![Top].counter = @ - 1]

Jump(l) ==
  IF IsInMacro(Scope)
  THEN /\ scopes' = IF l > Body THEN Visited(Advanced(scopes))
                    ELSE Decremented([Visited(Advanced(scopes)) EXCEPT ![Top].cur = l - 1])
       /\ UNCHANGED <<pc, seen>>
  ELSE IF l \in seen \cup {pc}
  THEN /\ pc' = l
       /\ seen' = seen \cup {pc}
       /\ scopes' = Decremented(Visited(scopes))
  ELSE /\ pc' = IF l > Lines THEN pc + 1 ELSE l
       /\ seen' = seen \cup pc .. Min({l, Lines})
       /\ scopes' = Visited(scopes)

(* What happens to control when the statement does not branch: ss are the  *)
(* scopes after it.                                                        *)
Falls(ss) ==
  /\ scopes' = ss
  /\ pc' = IF Top = 1 THEN pc + 1 ELSE pc
  /\ seen' = IF Top = 1 THEN seen \cup {pc} ELSE seen
Passed == Visited(Advanced(scopes))

-----------------------------------------------------------------------------
(* check_fatals: statements that remain, calls inside each other, branches *)
(* of the scope. The statement is not processed then.                      *)
TooDeep == Top > NestLimit

Fatal == remaining = 0 \/ TooDeep \/ Scope.counter < 0

Counted == remaining' = remaining - 1

Statement(s) ==
  /\ ~finished /\ ~AtEnd
  /\ s \in Here
  /\ text' = [text EXCEPT ![Place] = s]
  /\ Counted

OutOfStatements ==
  /\ ~finished /\ ~AtEnd /\ remaining = 0
  /\ finished' = TRUE
  /\ UNCHANGED <<text, pc, seen, scopes, globals, sysndx, limit, remaining, log>>

(* A statement of the innermost macro leaves all of them.                  *)
Unwound ==
  [<<scopes[1]>> EXCEPT ![1].sevLast = scopes[2].sevMax, ![1].callee = scopes[2].ndx]

TooNested ==
  /\ \E s \in Here : Statement(s)
  /\ remaining > 0 /\ TooDeep
  /\ scopes' = Unwound
  /\ UNCHANGED <<pc, seen, globals, sysndx, limit, finished, log>>

TooManyBranches ==
  /\ \E s \in Here : Statement(s)
  /\ remaining > 0 /\ ~TooDeep /\ Scope.counter < 0
  /\ \/ /\ IsInMacro(Scope)
        /\ scopes' = Left(scopes)
        /\ UNCHANGED finished
     \/ /\ ~IsInMacro(Scope)
        /\ finished' = TRUE
        /\ UNCHANGED scopes
  /\ UNCHANGED <<pc, seen, globals, sysndx, limit, log>>

Does(s, op) == s.op = op /\ Statement(s) /\ ~Fatal
Elsewhere == UNCHANGED <<globals, sysndx, limit, finished, log>>

-----------------------------------------------------------------------------
(* Statements that change nothing but where control is; MEXIT in open code *)
(* is an error.                                                            *)
DoPlain == \E s \in Here : Does(s, "PLAIN") /\ Falls(Passed) /\ Elsewhere

DoMexit ==
  \E s \in Here :
    /\ Does(s, "MEXIT")
    /\ IF IsInMacro(Scope)
       THEN scopes' = Left(scopes) /\ UNCHANGED <<pc, seen>>
       ELSE Falls(Passed)
    /\ Elsewhere

(* prepare_AGO, prepare_AIF.                                               *)
DoBranch ==
  \E s \in Here :
    /\ Does(s, "BRANCH")
    /\ \/ \E l \in s.to : Jump(l)
       \/ s.may /\ Falls(Passed)
    /\ Elsewhere

(* set_branch_counter.                                                     *)
CounterSet(ss, n) ==
  [ss EXCEPT ![Top].counter = n, ![Top].visits = <<>>, ![Top].budget = n]

DoActr == \E s \in Here : Does(s, "ACTR") /\ Falls(CounterSet(Passed, s.n)) /\ Elsewhere

(* update_mnote_max.                                                       *)
DoMnote ==
  \E s \in Here :
    /\ Does(s, "MNOTE")
    /\ Falls([Passed EXCEPT ![Top].sevMax = Max({@, s.n})])
    /\ log' = [log EXCEPT !.notes = @ \cup {<<Scope.ndx, s.n>>}]
    /\ UNCHANGED <<globals, sysndx, limit, finished>>

(* process_MHELP: n is the value without its last byte, an option. Nothing *)
(* is limited when the byte before it is zero.                             *)
DoMhelp ==
  \E s \in Here :
    /\ Does(s, "MHELP")
    /\ Falls(Passed)
    /\ limit' = IF s.n = 0 THEN limit ELSE Min({s.n, SysndxMax})
    /\ UNCHANGED <<globals, sysndx, finished, log>>

(* macro_processor::process, enter_macro. The limit may have been set to   *)
(* less than was used already.                                             *)
NextSysndx == sysndx + 1

DoCall ==
  \E s \in Here :
    /\ Does(s, "CALL")
    /\ IF sysndx > limit
       THEN Falls(Passed) /\ UNCHANGED <<sysndx, log>>
       ELSE /\ Falls(Append(Passed, EnteredScope(s.mac, sysndx)))
            /\ sysndx' = NextSysndx
            /\ log' = [log EXCEPT !.calls = Append(@, <<Scope.ndx, sysndx>>)]
    /\ UNCHANGED <<globals, limit, finished>>

(* get_next of the macro provider, and the end of open code.               *)
MacroEnds ==
  /\ ~finished /\ AtEnd /\ Top > 1
  /\ scopes' = Left(scopes)
  /\ UNCHANGED <<text, pc, seen, globals, sysndx, limit, remaining, finished, log>>

FileEnds ==
  /\ ~finished /\ AtEnd /\ Top = 1
  /\ finished' = TRUE
  /\ UNCHANGED <<text, pc, seen, scopes, globals, sysndx, limit, remaining, log>>

-----------------------------------------------------------------------------
(* Variable symbols. prepare_GBL_LCL: a name that is known is not declared.*)
Unknown(v) == Kind(Scope, v) = "none"

WithVariable(ss, v, sym) == [ss EXCEPT ![Top].vars = With(@, v, sym)]

(* create_global_variable.                                                 *)
GlobalMade(s) ==
  IF s.v \in DOMAIN globals THEN globals ELSE With(globals, s.v, NewSymbol(TRUE, s.t, s.scalar))

DoDeclare ==
  \E s \in Here :
    /\ Does(s, "DECLARE")
    /\ \/ /\ ~Unknown(s.v)
          /\ Falls(Passed) /\ UNCHANGED <<globals, log>>
       \/ /\ Unknown(s.v) /\ ~s.global
          /\ Falls(WithVariable(Passed, s.v, NewSymbol(FALSE, s.t, s.scalar)))
          /\ UNCHANGED <<globals, log>>
       \/ /\ Unknown(s.v) /\ s.global
          /\ globals' = GlobalMade(s)
          /\ IF globals'[s.v].t # s.t
             THEN Falls(Passed) /\ UNCHANGED log
             ELSE /\ Falls(WithVariable(Passed, s.v, NewSymbol(TRUE, s.t, s.scalar)))
                  /\ log' = [log EXCEPT !.shared = @ \cup {<<Scope.ndx, s.v>>}]
    /\ UNCHANGED <<sysndx, limit, finished>>

(* get_SET_symbol makes a local symbol of an unknown name, also when the   *)
(* subscript turns out to be wrong.                                        *)
Target(s) == IF Unknown(s.v) THEN NewSymbol(FALSE, s.t, s.sub = <<>>) ELSE Symbol(Scope, s.v)

IsAssigned(s) ==
  /\ Kind(Scope, s.v) \in {"set", "none"}
  /\ Target(s).t = s.t
  /\ Len(s.sub) <= 1
  /\ s.sub # <<>> => s.sub[1] >= 1 /\ s.sub[1] <= MaxIndex - Len(s.vals)
  /\ Target(s).scalar = (s.sub = <<>>)
  /\ s.vals # <<>>

(* process_SET, reserve_value: an operand that is left out leaves a place. *)
Position(s, i) == IF s.sub = <<>> THEN 0 ELSE s.sub[1] + i - 1

Stored(data, s, i) ==
  With(data, Position(s, i),
       CASE s.vals[i] # Empty -> s.vals[i][1]
         [] s.vals[i] = Empty /\ Position(s, i) \in DOMAIN data -> data[Position(s, i)]
         [] OTHER -> Default)

AfterSet(s) ==
  LET sym == Target(s)
  IN  IF IsAssigned(s)
      THEN [sym EXCEPT !.data = FoldLeft(LAMBDA d, i : Stored(d, s, i), @, [i \in DOMAIN s.vals |-> i])]
      ELSE sym

Holder(v) == IF <<Scope.ndx, v>> \in log.shared THEN -1 ELSE Scope.ndx
Written(s) ==
  FoldLeft(LAMBDA w, i : IF s.vals[i] = Empty THEN w
                         ELSE With(w, <<Holder(s.v), s.v, Position(s, i)>>, s.vals[i][1]),
           log.written, [i \in DOMAIN s.vals |-> i])

DoSet ==
  \E s \in Here :
    /\ Does(s, "SET")
    /\ \/ /\ Kind(Scope, s.v) = "set" /\ Scope.vars[s.v].global
          /\ globals' = [globals EXCEPT ![s.v] = AfterSet(s)]
          /\ Falls(Passed)
       \/ /\ Unknown(s.v) \/ (Kind(Scope, s.v) = "set" /\ ~Scope.vars[s.v].global)
          /\ Falls(WithVariable(Passed, s.v, AfterSet(s)))
          /\ UNCHANGED globals
       \/ /\ Kind(Scope, s.v) \in {"param", "system"}
          /\ Falls(Passed)
          /\ UNCHANGED globals
    /\ log' = IF IsAssigned(s) THEN [log EXCEPT !.written = Written(s)] ELSE log
    /\ UNCHANGED <<sysndx, limit, finished>>

-----------------------------------------------------------------------------
Init ==
  /\ text = [p \in ({"open code"} \X (1 .. Lines)) \cup (Macro \X (1 .. Body)) |-> Unread]
  /\ pc = 1 /\ seen = {}
  /\ scopes = <<NewScope("open code", 0)>>
  /\ globals = <<>>
  /\ sysndx = 1 /\ limit = SysndxMax
  /\ remaining = StatementLimit
  /\ finished = FALSE
  /\ log = [written |-> <<>>, shared |-> {}, notes |-> {}, calls |-> <<>>]

Next ==
  \/ DoPlain \/ DoMexit \/ DoBranch \/ DoActr \/ DoMnote \/ DoMhelp \/ DoCall
  \/ DoDeclare \/ DoSet
  \/ OutOfStatements \/ TooNested \/ TooManyBranches
  \/ MacroEnds \/ FileEnds

Spec == Init /\ [][Next]_vars
(* The analyzer goes on as long as the file is not finished.               *)
FairSpec == Spec /\ WF_vars(Next)

-----------------------------------------------------------------------------
(* Shapes of the state.                                                    *)
TypeOK ==
  /\ \A p \in DOMAIN text : text[p] \in Statements \cup {Unread}
  /\ pc \in 1 .. Lines + 1 /\ seen \subseteq 1 .. Lines
  /\ Len(scopes) \in 1 .. NestLimit + 1
  /\ \A i \in DOMAIN scopes :
       /\ scopes[i].mac \in Macro \cup {"open code"}
       /\ IsInMacro(scopes[i]) <=> i > 1
       /\ scopes[i].cur \in 0 .. Body + 1 /\ scopes[i].counter \in Int
       /\ DOMAIN scopes[i].vars \subseteq Name
  /\ sysndx \in Nat /\ limit \in 0 .. SysndxMax /\ remaining \in 0 .. StatementLimit
  /\ finished \in BOOLEAN

(* check_fatals and decrement_branch_counter: no line of a scope is        *)
(* processed more often than its branches allow, wherever they went and    *)
(* whatever the macros it called did with their own counters.              *)
LoopsAreCut ==
  \A i \in DOMAIN scopes : \A l \in DOMAIN scopes[i].visits :
    scopes[i].visits[l] <= 1 + Max({scopes[i].budget, 0})

(* check_fatals: the program ends, also when it sets its counter again and *)
(* again, or calls macros that call each other.                            *)
Ends == <>finished

(* get_var_sym, create_global_variable, process_SET: what any scope on the *)
(* stack would read is what was assigned last by the scopes that share the *)
(* symbol: all that declared it GBL, and the scope alone otherwise.        *)
ReadsWhatWasWritten ==
  \A i \in DOMAIN scopes : \A v \in DOMAIN scopes[i].vars : \A k \in 0 .. MaxIndex :
    LET sym == Symbol(scopes[i], v)
        key == <<IF <<scopes[i].ndx, v>> \in log.shared THEN -1 ELSE scopes[i].ndx, v, k>>
    IN  ValueAt(sym, k) = IF key \in DOMAIN log.written THEN log.written[key] ELSE Default

(* get_var_sym looks at set symbols first: a macro never has one with the  *)
(* name of a parameter or of a system variable it could read.              *)
ParametersAreNotHidden ==
  \A i \in DOMAIN scopes : IsInMacro(scopes[i]) =>
    DOMAIN scopes[i].vars \cap (Params \cup SysGlobal \cup SysMacro) = {}

(* leave_macro: &SYSM_SEV is the largest severity of the MNOTEs of the     *)
(* macro that was called last, not of those it called itself, also when    *)
(* all macros are left at once.                                            *)
SeverityOfLastCall ==
  \A i \in DOMAIN scopes :
    scopes[i].sevLast = Max({0} \cup {n[2] : n \in {x \in log.notes : x[1] = scopes[i].callee /\ x[1] # 0}})

(* enter_macro: &SYSNDX tells the calls apart: it grows with the depth,    *)
(* and no two calls have the same, whatever MHELP allows.                  *)
SysndxTellsCalls ==
  /\ \A i, j \in DOMAIN scopes : i < j => scopes[i].ndx < scopes[j].ndx
  /\ \A i, j \in DOMAIN log.calls : i # j => log.calls[i][2] # log.calls[j][2]
  /\ \A i \in DOMAIN scopes : scopes[i].ndx < sysndx
=============================================================================
