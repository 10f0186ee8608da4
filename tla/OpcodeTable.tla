---------------------------- MODULE OpcodeTable ----------------------------
(***************************************************************************)
(* The operation codes of hlasm_context.cpp: macros, OPSYN, the macros     *)
(* that are loaded from a library when an instruction is unknown           *)
(* (ordinary_processor.cpp, request_external_processing), the tags :ASM    *)
(* and :MAC, and the generations at which an earlier meaning is looked up. *)
(*                                                                         *)
(* The entries of a name are a set: their generations differ, and the      *)
(* vector of the code has them in the order of their generations.          *)
(***************************************************************************)
EXTENDS Naturals

CONSTANTS
  Base,        \* names without tags
  Instruction, \* names of assembler and machine instructions
  Macro,       \* definitions of macros
  Library,     \* Library[b]: the macro of a member, NoMacro if it defines none
  Member,      \* names of library members
  MaxGen       \* bound: the generation at which nothing is changed any more

NoMacro == "none"

ASSUME OpcodeAssumption ==
  /\ Instruction \subseteq Base /\ Member \subseteq Base /\ NoMacro \notin Macro
  /\ Library \in [Base -> Macro \cup {NoMacro}] /\ MaxGen \in Nat

VARIABLES
  opcodes,  \* opcode_mnemo_
  macros,   \* macros_
  external, \* external_macros_
  gen,      \* m_current_opcode_generation
  requests, \* m_external_requests of macros: the names
  then      \* history: what each name meant at each generation that was in use

vars == <<opcodes, macros, external, gen, requests, then>>

Tags == {<<>>, <<"ASM">>, <<"MAC">>, <<"ASM", "MAC">>, <<"MAC", "MAC">>}
Name == Base \X Tags
Plain(b) == <<b, <<>>>>

Empty == [kind |-> "empty"]
InstructionOp(b) == [kind |-> "instruction", of |-> b]
MacroOp(m) == [kind |-> "macro", of |-> m]
Op == {Empty} \cup {InstructionOp(b) : b \in Base} \cup {MacroOp(m) : m \in Macro}

-----------------------------------------------------------------------------
(* search_opcodes: the last entry that was there at a generation.          *)
Visible(n, g) == {e \in opcodes[n] : e.gen <= g}

(* Defect: the generation is not looked at.                                *)
SearchCurrent(n, g) ==
  IF opcodes[n] = {} THEN Empty
  ELSE (CHOOSE e \in opcodes[n] : \A f \in opcodes[n] : f.gen <= e.gen).op

Search(n, g) ==
  IF Visible(n, g) = {} THEN Empty
  ELSE (CHOOSE e \in Visible(n, g) : \A f \in Visible(n, g) : f.gen <= e.gen).op

(* A tagged name means nothing if the name without the tag is of another   *)
(* kind.                                                                   *)
Only(op, kind) == IF op.kind = kind THEN op ELSE Empty

(* find_opcode_mnemo: nothing and an empty operation code are alike.       *)
Find(n, g) ==
  LET b == n[1] tags == n[2]
  IN CASE tags = <<>> -> Search(n, g)
       [] tags = <<"ASM">> -> Only(Search(Plain(b), g), "instruction")
       [] tags = <<"MAC">> ->
            IF Search(n, g).kind = "macro" THEN Search(n, g)
            ELSE Only(Search(Plain(b), g), "macro")
       [] OTHER -> IF Search(n, g).kind = "macro" THEN Search(n, g) ELSE Empty

(* The name under which find_opcode_mnemo suggests to look for a member.   *)
Suggestion(n) ==
  CASE n[2] = <<>> -> {n[1]}
    [] n[2] = <<"MAC">> /\ Search(n, gen).kind # "macro" -> {n[1]}
    [] OTHER -> {}

(* init_instruction_map.                                                   *)
Init ==
  /\ opcodes = [n \in Name |->
       IF n[2] = <<>> /\ n[1] \in Instruction
       THEN {[op |-> InstructionOp(n[1]), gen |-> 0]} ELSE {}]
  /\ macros = [n \in Name |-> {}] /\ external = [b \in Base |-> NoMacro]
  /\ gen = 0 /\ requests = {}
  /\ then = [g \in 0..MaxGen |-> [n \in Name |-> IF g = 0 THEN Find(n, 0) ELSE Empty]]

(* What names mean now is remembered for the generation that is current.   *)
Remember ==
  then' = [then EXCEPT ![gen'] = [n \in Name |-> Find(n, gen)']]

-----------------------------------------------------------------------------

NextGeneration == gen + 1

Put(n, op) == [opcodes EXCEPT ![n] = @ \cup {[op |-> op, gen |-> NextGeneration]}]

(* add_macro. A name tagged :ASM is hidden by the next generation.         *)
AddMacro(n, m, isExternal) ==
  /\ macros' = [macros EXCEPT ![n] = @ \cup {[macro |-> m, gen |-> NextGeneration]}]
  /\ external' = IF isExternal /\ external[n[1]] = NoMacro
                 THEN [external EXCEPT ![n[1]] = m] ELSE external
  /\ IF n[2] = <<"ASM">>
     THEN /\ gen' = NextGeneration + 1
          /\ opcodes' = [Put(n, MacroOp(m)) EXCEPT ![n] = @ \cup {[op |-> Empty, gen |-> gen']}]
     ELSE gen' = NextGeneration /\ opcodes' = Put(n, MacroOp(m))

(* A macro is defined in the program.                                      *)
DefineMacro(n, m) ==
  /\ gen + 2 <= MaxGen
  /\ AddMacro(n, m, FALSE) /\ Remember /\ UNCHANGED requests

(* An instruction that is unknown is looked for in the libraries, once.    *)
RequestMacro(n) ==
  /\ gen + 2 <= MaxGen /\ Find(n, gen) = Empty
  /\ \E b \in Suggestion(n) :
       /\ b \notin requests /\ requests' = requests \cup {b}
       /\ \/ b \in Member /\ Library[b] # NoMacro /\ AddMacro(Plain(b), Library[b], TRUE)
          \/ /\ b \notin Member \/ Library[b] = NoMacro
             /\ UNCHANGED <<opcodes, macros, external, gen>>
  /\ Remember

(* add_mnemonic: the meaning is that of now, not a reference to the name.  *)
AddMnemonic(b, c) ==
  /\ gen + 2 <= MaxGen /\ Find(Plain(c), gen) # Empty
  /\ opcodes' = Put(Plain(b), Find(Plain(c), gen)) /\ gen' = NextGeneration
  /\ Remember /\ UNCHANGED <<macros, external, requests>>

(* What a name means when its meaning has been removed.                    *)
Restored(b) == IF external[b] = NoMacro THEN Empty ELSE MacroOp(external[b])

RemoveMnemonic(b) ==
  /\ gen + 2 <= MaxGen /\ Find(Plain(b), gen) # Empty
  /\ opcodes' = Put(Plain(b), Restored(b)) /\ gen' = NextGeneration
  /\ Remember /\ UNCHANGED <<macros, external, requests>>

Next ==
  \/ \E n \in Name, m \in Macro : DefineMacro(n, m)
  \/ \E n \in Name : RequestMacro(n)
  \/ \E b, c \in Base : AddMnemonic(b, c)
  \/ \E b \in Base : RemoveMnemonic(b)

Spec == Init /\ [][Next]_vars

-----------------------------------------------------------------------------
(* Properties.                                                             *)

(* The variables hold values of these sets; the entries of a name differ   *)
(* in their generations, so that there is one that is the last.            *)
TypeOK ==
  /\ opcodes \in [Name -> SUBSET [op : Op, gen : 0..gen]]
  /\ macros \in [Name -> SUBSET [macro : Macro, gen : 0..gen]]
  /\ external \in [Base -> Macro \cup {NoMacro}] /\ gen \in 0..MaxGen
  /\ requests \subseteq Base
  /\ then \in [0..MaxGen -> [Name -> Op]]
  /\ \A n \in Name : \A e, f \in opcodes[n] : e.gen = f.gen => e = f

(* What a name meant when a statement was processed is found again at the  *)
(* generation of the statement, whatever has been defined since: postponed *)
(* statements and the language features read it later.                     *)
ReadAsWritten == \A g \in 0..gen, n \in Name :
  then[g][n] # Empty => Find(n, g) = then[g][n]

=============================================================================
