------------------------- MODULE OpcodeTableProofs -------------------------
(***************************************************************************)
(* What holds of operation codes for any names, instructions, macros and   *)
(* libraries, and up to any generation: what a name meant is found again.  *)
(* Every change has the same shape (Grows): entries are only added, at     *)
(* generations that nothing has used yet.                                  *)
(***************************************************************************)
EXTENDS OpcodeTable, WellFoundedInduction, TLAPS

(* Generations are bounded, so a non-empty set of them has a last one.     *)
LEMMA LastGeneration ==
  ASSUME NEW m \in Nat, NEW S, S \subseteq 0..m, S # {}
  PROVE  \E x \in S : \A y \in S : y <= x
<1> DEFINE T == {m - x : x \in S}
<1>1. T \subseteq Nat
  OBVIOUS
<1>2. T # {}
  OBVIOUS
<1> HIDE DEF T
<1>3. PICK t \in T : \A u \in T : ~ (<<u, t>> \in OpToRel(<, Nat))
  BY <1>1, <1>2, NatLessThanWellFounded, WFMin
<1>4. \A u \in T : ~ (u < t)
  BY <1>1, <1>3 DEF OpToRel
<1>5. PICK x \in S : t = m - x
  BY DEF T
<1>6. \A y \in S : ~ (m - y < m - x)
  BY <1>4, <1>5 DEF T
<1> QED  BY <1>6

-----------------------------------------------------------------------------
(* The parts of TypeOK that are about the entries.                         *)
Entries ==
  /\ gen \in 0..MaxGen /\ opcodes \in [Name -> SUBSET [op : Op, gen : 0..gen]]
  /\ \A n \in Name : \A e, f \in opcodes[n] : e.gen = f.gen => e = f

(* The last entry that is visible is one, and no other is.                 *)
LEMMA SearchLast ==
  ASSUME OpcodeAssumption, Entries, NEW n \in Name, NEW g
  PROVE  /\ Visible(n, g) = {} => Search(n, g) = Empty
         /\ Visible(n, g) # {} => \E e \in Visible(n, g) :
              /\ \A f \in Visible(n, g) : f.gen <= e.gen
              /\ Search(n, g) = e.op
         /\ \A e \in Visible(n, g) : (\A f \in Visible(n, g) : f.gen <= e.gen) => Search(n, g) = e.op
<1> DEFINE V == Visible(n, g)
           Last(e) == \A f \in V : f.gen <= e.gen
<1>1. V \subseteq opcodes[n] /\ opcodes[n] \subseteq [op : Op, gen : 0..gen] /\ gen \in Nat
  BY DEF Visible, Entries, OpcodeAssumption
<1>2. Search(n, g) = IF V = {} THEN Empty ELSE (CHOOSE e \in V : Last(e)).op
  BY DEF Search
<1>3. \A e, f \in V : Last(e) /\ Last(f) => e = f
  <2> SUFFICES ASSUME NEW e \in V, NEW f \in V, Last(e), Last(f) PROVE e = f
    OBVIOUS
  <2>1. e.gen \in Nat /\ f.gen \in Nat /\ e.gen <= f.gen /\ f.gen <= e.gen
    BY <1>1
  <2> QED  BY <1>1, <2>1 DEF Entries
<1>4. V # {} => \E e \in V : Last(e)
  <2> SUFFICES ASSUME V # {} PROVE \E e \in V : Last(e)
    OBVIOUS
  <2> DEFINE S == {e.gen : e \in V}
  <2>1. S \subseteq 0..gen /\ S # {}
    BY <1>1
  <2>2. PICK x \in S : \A y \in S : y <= x
    BY <1>1, <2>1, LastGeneration
  <2> QED  BY <2>2
<1> HIDE DEF V
<1> QED  BY <1>2, <1>3, <1>4 DEF V

(* Search and find_opcode_mnemo give an operation code.                    *)
LEMMA FindType ==
  ASSUME OpcodeAssumption, Entries, NEW n \in Name, NEW g
  PROVE  /\ Search(n, g) \in Op /\ Find(n, g) \in Op
         /\ n[1] \in Base /\ Plain(n[1]) \in Name
<1>1. Empty \in Op /\ \A op \in Op : Only(op, "instruction") \in Op /\ Only(op, "macro") \in Op
  BY DEF Op, Only
<1>2. \A b \in Name : Search(b, g) \in Op
  <2> SUFFICES ASSUME NEW b \in Name PROVE Search(b, g) \in Op
    OBVIOUS
  <2>1. \A e \in Visible(b, g) : e.op \in Op
    BY DEF Visible, Entries
  <2> QED  BY <1>1, <2>1, SearchLast
<1>3. n[1] \in Base /\ Plain(n[1]) \in Name
  BY DEF Name, Plain, Tags
<1>4. \/ Find(n, g) = Search(n, g)
      \/ Find(n, g) = Only(Search(Plain(n[1]), g), "instruction")
      \/ Find(n, g) = Only(Search(Plain(n[1]), g), "macro")
      \/ Find(n, g) = Empty
  <2>1. CASE n[2] = <<>>
    BY <2>1 DEF Find
  <2>2. CASE n[2] = <<"ASM">>
    BY <2>2 DEF Find
  <2>3. CASE n[2] = <<"MAC">>
    BY <2>3 DEF Find
  <2>4. CASE n[2] \notin {<<>>, <<"ASM">>, <<"MAC">>}
    BY <2>4 DEF Find
  <2> QED  BY <2>1, <2>2, <2>3, <2>4
<1> QED  BY <1>1, <1>2, <1>3, <1>4

-----------------------------------------------------------------------------
(* What every change has in common: entries are added, at generations that *)
(* come after all that is there, and what is meant then is remembered.     *)
Grows ==
  /\ gen' \in gen..MaxGen
  /\ opcodes' \in [Name -> SUBSET [op : Op, gen : 0..gen']]
  /\ \A n \in Name : /\ opcodes[n] \subseteq opcodes'[n]
                     /\ \A e \in opcodes'[n] \ opcodes[n] : e.gen > gen
                     /\ \A e, f \in opcodes'[n] \ opcodes[n] : e.gen = f.gen => e = f
  /\ Remember

(* Adding one operation code to one name, in the next generation.          *)
LEMMA PutGrows ==
  ASSUME OpcodeAssumption, Entries, NEW n \in Name, NEW op \in Op,
         gen + 1 <= MaxGen, opcodes' = Put(n, op), gen' = gen + 1, Remember
  PROVE  Grows
<1> DEFINE e == [op |-> op, gen |-> gen + 1]
<1>1. gen \in Nat /\ gen' \in gen..MaxGen /\ MaxGen \in Nat /\ gen + 1 \in 0..(gen + 1)
  BY DEF Entries, OpcodeAssumption
<1>2. opcodes' = [opcodes EXCEPT ![n] = @ \cup {e}]
  BY DEF Put, NextGeneration
<1>3. e \in [op : Op, gen : 0..gen'] /\ e.gen > gen
  BY <1>1
<1>4. \A k \in Name : opcodes[k] \subseteq [op : Op, gen : 0..gen']
  BY <1>1 DEF Entries
<1> HIDE DEF e
<1>5. opcodes' \in [Name -> SUBSET [op : Op, gen : 0..gen']]
  BY <1>2, <1>3, <1>4 DEF Entries
<1> QED  BY <1>1, <1>2, <1>3, <1>5 DEF Grows, Entries

(* The rest of TypeOK but for the history.                                  *)
MacrosTyped ==
  /\ macros \in [Name -> SUBSET [macro : Macro, gen : 0..gen]]
  /\ external \in [Base -> Macro \cup {NoMacro}]

Others == MacrosTyped /\ requests \subseteq Base

LEMMA MacrosStay ==
  ASSUME TypeOK, gen \in Nat, gen' = gen + 1, UNCHANGED <<macros, external>>
  PROVE  MacrosTyped'
<1>1. \A k \in Name : macros[k] \subseteq [macro : Macro, gen : 0..gen']
  BY DEF TypeOK
<1> QED  BY <1>1 DEF TypeOK, MacrosTyped

(* Every change is of that shape.                                          *)
LEMMA NextGrows ==
  ASSUME OpcodeAssumption, TypeOK, Next
  PROVE  Grows /\ Others'
<1>1. Entries /\ gen \in Nat /\ MaxGen \in Nat /\ Empty \in Op
  BY DEF TypeOK, Entries, OpcodeAssumption, Op
<1>2. ASSUME NEW n \in Name, NEW m \in Macro, NEW x \in BOOLEAN, gen + 2 <= MaxGen,
             AddMacro(n, m, x), Remember
      PROVE  Grows /\ MacrosTyped'
  <2>1. MacroOp(m) \in Op
    BY DEF Op
  <2>2. ASSUME gen' \in gen..MaxGen, gen' # gen PROVE MacrosTyped'
    <3>1. /\ macros' = [macros EXCEPT ![n] = @ \cup {[macro |-> m, gen |-> gen + 1]}]
          /\ external' \in [Base -> Macro \cup {NoMacro}]
      BY <1>2, FindType, <1>1 DEF AddMacro, TypeOK, NextGeneration
    <3>2. gen + 1 \in 0..gen' /\ \A k \in Name : macros[k] \subseteq [macro : Macro, gen : 0..gen']
      BY <1>1, <2>2 DEF TypeOK
    <3>3. macros' \in [Name -> SUBSET [macro : Macro, gen : 0..gen']]
      BY <3>1, <3>2 DEF TypeOK
    <3> QED  BY <3>1, <3>3 DEF MacrosTyped
  <2>3. CASE n[2] # <<"ASM">>
    <3>1. opcodes' = Put(n, MacroOp(m)) /\ gen' = gen + 1 /\ gen + 1 <= MaxGen
      BY <1>1, <1>2, <2>3 DEF AddMacro, NextGeneration
    <3> QED  BY <1>1, <1>2, <2>1, <2>2, <3>1, PutGrows DEF Grows
  <2>4. CASE n[2] = <<"ASM">>
    <3> DEFINE e == [op |-> MacroOp(m), gen |-> gen + 1]
               h == [op |-> Empty, gen |-> gen + 2]
    <3>1. gen' = gen + 2 /\ opcodes' = [Put(n, MacroOp(m)) EXCEPT ![n] = @ \cup {h}]
      BY <1>1, <1>2, <2>4 DEF AddMacro, NextGeneration
    <3>2. opcodes \in [Name -> SUBSET [op : Op, gen : 0..gen]]
      BY <1>1 DEF Entries
    <3>3. Put(n, MacroOp(m)) = [opcodes EXCEPT ![n] = @ \cup {e}]
      BY DEF Put, NextGeneration
    <3>4. /\ e \in [op : Op, gen : 0..gen'] /\ h \in [op : Op, gen : 0..gen']
          /\ e.gen > gen /\ h.gen > gen /\ e.gen # h.gen
      BY <1>1, <2>1, <3>1
    <3>5. \A k \in Name : opcodes[k] \subseteq [op : Op, gen : 0..gen']
      BY <1>1, <3>1, <3>2
    <3> HIDE DEF e, h
    <3>6. /\ opcodes'[n] = opcodes[n] \cup {e, h}
          /\ \A k \in Name \ {n} : opcodes'[k] = opcodes[k]
          /\ opcodes' \in [Name -> SUBSET [op : Op, gen : 0..gen']]
      BY <3>1, <3>2, <3>3, <3>4, <3>5
    <3>7. gen' \in gen..MaxGen
      BY <1>1, <1>2, <3>1
    <3>8. gen' # gen
      BY <1>1, <3>1
    <3> QED  BY <1>2, <2>2, <3>4, <3>6, <3>7, <3>8 DEF Grows
  <2> QED  BY <2>3, <2>4
<1>3. ASSUME NEW n \in Name, NEW m \in Macro, DefineMacro(n, m)
      PROVE  Grows /\ Others'
  <2>1. gen + 2 <= MaxGen /\ AddMacro(n, m, FALSE) /\ Remember /\ requests' = requests
    BY <1>3 DEF DefineMacro
  <2> QED  BY <1>2, <2>1 DEF TypeOK, Others
<1>4. ASSUME NEW n \in Name, RequestMacro(n)
      PROVE  Grows /\ Others'
  <2>1. n[1] \in Base /\ Suggestion(n) \subseteq {n[1]}
    BY <1>1, FindType DEF Suggestion
  <2>2. PICK b \in Suggestion(n) :
          /\ requests' = requests \cup {b} /\ gen + 2 <= MaxGen /\ Remember
          /\ \/ b \in Member /\ Library[b] # NoMacro /\ AddMacro(Plain(b), Library[b], TRUE)
             \/ UNCHANGED <<opcodes, macros, external, gen>>
    BY <1>4 DEF RequestMacro
  <2>3. b \in Base /\ requests' \subseteq Base /\ Plain(b) \in Name
    BY <2>1, <2>2 DEF TypeOK, Plain, Name, Tags
  <2>4. CASE Library[b] # NoMacro /\ AddMacro(Plain(b), Library[b], TRUE)
    <3>1. Library[b] \in Macro
      BY <2>3, <2>4 DEF OpcodeAssumption
    <3> QED  BY <1>2, <2>2, <2>3, <2>4, <3>1 DEF Others
  <2>5. CASE UNCHANGED <<opcodes, macros, external, gen>>
    <3>1. gen' \in gen..MaxGen
      BY <2>5 DEF TypeOK, OpcodeAssumption
    <3> QED  BY <2>2, <2>3, <2>5, <3>1 DEF Grows, TypeOK, Others, MacrosTyped
  <2> QED  BY <2>2, <2>4, <2>5
<1>5. ASSUME NEW b \in Base, NEW c \in Base, AddMnemonic(b, c)
      PROVE  Grows /\ Others'
  <2>1. Plain(b) \in Name /\ Plain(c) \in Name
    BY DEF Plain, Name, Tags
  <2>2. Find(Plain(c), gen) \in Op
    BY <1>1, <2>1, FindType
  <2>3. /\ gen + 1 <= MaxGen /\ gen' = gen + 1 /\ Remember /\ UNCHANGED <<macros, external, requests>>
        /\ opcodes' = Put(Plain(b), Find(Plain(c), gen))
    BY <1>1, <1>5 DEF AddMnemonic, NextGeneration
  <2>4. Grows
    BY <1>1, <2>1, <2>2, <2>3, PutGrows
  <2> QED  BY <1>1, <2>3, <2>4, MacrosStay DEF TypeOK, Others
<1>6. ASSUME NEW b \in Base, RemoveMnemonic(b)
      PROVE  Grows /\ Others'
  <2>1. Plain(b) \in Name
    BY DEF Plain, Name, Tags
  <2>2. Restored(b) \in Op
    BY <1>1 DEF Restored, TypeOK, Op
  <2>3. /\ gen + 1 <= MaxGen /\ gen' = gen + 1 /\ Remember /\ UNCHANGED <<macros, external, requests>>
        /\ opcodes' = Put(Plain(b), Restored(b))
    BY <1>1, <1>6 DEF RemoveMnemonic, NextGeneration
  <2>4. Grows
    BY <1>1, <2>1, <2>2, <2>3, PutGrows
  <2> QED  BY <1>1, <2>3, <2>4, MacrosStay DEF TypeOK, Others
<1> QED  BY <1>3, <1>4, <1>5, <1>6 DEF Next

(* What a set of visible entries means.                                    *)
Latest(V) == IF V = {} THEN Empty ELSE (CHOOSE e \in V : \A f \in V : f.gen <= e.gen).op

(* Entries of later generations do not change what was visible earlier.    *)
LEMMA PastStays ==
  ASSUME OpcodeAssumption, Entries, Grows, NEW g \in 0..gen, NEW n \in Name
  PROVE  /\ \A k \in Name : Search(k, g)' = Search(k, g)
         /\ Find(n, g)' = Find(n, g)
<1>1. \A k \in Name : Visible(k, g)' = Visible(k, g)
  <2> SUFFICES ASSUME NEW k \in Name PROVE {e \in opcodes'[k] : e.gen <= g} = {e \in opcodes[k] : e.gen <= g}
    BY DEF Visible
  <2>1. \A e \in opcodes'[k] \ opcodes[k] : ~ (e.gen <= g)
    <3>1. gen' \in Nat /\ opcodes'[k] \subseteq [op : Op, gen : 0..gen'] /\ gen \in Nat
      BY DEF Grows, Entries, OpcodeAssumption
    <3> QED  BY <3>1 DEF Grows
  <2> QED  BY <2>1 DEF Grows
<1>2. \A k \in Name : Search(k, g)' = Search(k, g)
  <2>1. \A k \in Name : Search(k, g) = Latest(Visible(k, g)) /\ Search(k, g)' = Latest(Visible(k, g)')
    BY DEF Search, Latest
  <2> QED  BY <1>1, <2>1
<1>3. Plain(n[1]) \in Name
  BY FindType
<1> QED  BY <1>2, <1>3 DEF Find

-----------------------------------------------------------------------------
(* What names mean in generations that are yet to come is not known.       *)
NothingAhead == \A g \in 0..MaxGen, n \in Name : g > gen => then[g][n] = Empty

IInv == TypeOK /\ ReadAsWritten /\ NothingAhead

LEMMA InitInv == Init => IInv
<1> SUFFICES ASSUME Init PROVE IInv
  OBVIOUS
<1>1. /\ gen = 0 /\ MaxGen \in Nat /\ requests = {} /\ external = [b \in Base |-> NoMacro]
      /\ macros = [n \in Name |-> {}]
  BY OpcodeAssumption DEF Init, OpcodeAssumption
<1>2. Entries
  <2>1. \A n \in Name : n[1] \in Base /\ InstructionOp(n[1]) \in Op
    BY DEF Name, Op
  <2>2. opcodes \in [Name -> SUBSET [op : Op, gen : 0..0]]
    BY <2>1 DEF Init
  <2>3. \A n \in Name : \A e, f \in opcodes[n] : e = f
    BY DEF Init
  <2> QED  BY <1>1, <2>2, <2>3 DEF Entries
<1>3. /\ then = [g \in 0..MaxGen |-> [n \in Name |-> IF g = 0 THEN Find(n, 0) ELSE Empty]]
      /\ \A n \in Name : Find(n, 0) \in Op
  BY <1>2, OpcodeAssumption, FindType DEF Init
<1>4. Empty \in Op
  BY DEF Op
<1>5. then \in [0..MaxGen -> [Name -> Op]]
  BY <1>3, <1>4
<1>6. TypeOK
  BY <1>1, <1>2, <1>5 DEF TypeOK, Entries
<1>7. ReadAsWritten
  BY <1>1, <1>3 DEF ReadAsWritten
<1>8. NothingAhead
  BY <1>1, <1>3 DEF NothingAhead
<1> QED  BY <1>6, <1>7, <1>8 DEF IInv

(* The type of find_opcode_mnemo, before a step and after it.              *)
LEMMA FindTyped == Entries => \A n \in Name : Find(n, gen) \in Op
<1> QED  BY OpcodeAssumption, FindType

LEMMA FindTypedNext == Entries' => (\A n \in Name : Find(n, gen) \in Op)'
<1> QED  BY FindTyped, PTL

LEMMA NextInv == IInv /\ [Next]_vars => IInv'
<1> SUFFICES ASSUME IInv, [Next]_vars PROVE IInv'
  OBVIOUS
<1> USE OpcodeAssumption
<1>1. CASE Next
  <2>1. TypeOK /\ Entries /\ ReadAsWritten /\ NothingAhead /\ gen \in Nat /\ MaxGen \in Nat
    BY DEF IInv, TypeOK, Entries, OpcodeAssumption
  <2>2. Grows /\ Others'
    BY <1>1, <2>1, NextGrows
  <2>3. gen' \in Nat /\ gen' \in 0..MaxGen /\ gen' >= gen
    BY <2>1, <2>2 DEF Grows
  <2>4. Entries'
    <3>1. \A n \in Name : \A e, f \in opcodes'[n] : e.gen = f.gen => e = f
      <4> SUFFICES ASSUME NEW n \in Name, NEW e \in opcodes'[n], NEW f \in opcodes'[n], e.gen = f.gen
                   PROVE  e = f
        OBVIOUS
      <4>1. \A x \in opcodes[n] : x.gen \in 0..gen
        BY <2>1 DEF Entries
      <4>2. \A x \in opcodes'[n] \ opcodes[n] : x.gen > gen
        BY <2>2 DEF Grows
      <4>3. e \in opcodes[n] <=> f \in opcodes[n]
        BY <2>1, <4>1, <4>2
      <4> QED  BY <2>1, <2>2, <4>3 DEF Entries, Grows
    <3> QED  BY <2>2, <2>3, <3>1 DEF Entries, Grows
  <2>5. \A n \in Name : Find(n, gen)' \in Op
    BY <2>4, FindTypedNext
  <2>6. then' \in [0..MaxGen -> [Name -> Op]] /\ then' = [then EXCEPT ![gen'] = [n \in Name |-> Find(n, gen)']]
    BY <2>1, <2>2, <2>3, <2>5 DEF Grows, Remember, TypeOK
  <2>8. ReadAsWritten'
    <3> SUFFICES ASSUME NEW g \in 0..gen', NEW n \in Name, then'[g][n] # Empty
                 PROVE  Find(n, g)' = then'[g][n]
      BY DEF ReadAsWritten
    <3>1. CASE g = gen'
      BY <2>3, <2>6, <3>1
    <3>2. CASE g # gen' /\ g <= gen
      <4>1. then'[g][n] = then[g][n] /\ g \in 0..gen
        BY <2>1, <2>3, <2>6, <3>2
      <4> QED  BY <2>1, <2>2, <4>1, PastStays DEF ReadAsWritten
    <3>3. CASE g # gen' /\ g > gen
      <4>1. then'[g][n] = then[g][n] /\ g \in 0..MaxGen
        BY <2>1, <2>3, <2>6, <3>3 DEF TypeOK
      <4> QED  BY <2>1, <3>3, <4>1 DEF NothingAhead
    <3> QED  BY <2>1, <2>3, <3>1, <3>2, <3>3
  <2>9. NothingAhead'
    <3> SUFFICES ASSUME NEW g \in 0..MaxGen, NEW n \in Name, g > gen' PROVE then'[g][n] = Empty
      BY DEF NothingAhead
    <3>1. g > gen /\ g # gen'
      BY <2>1, <2>3
    <3> QED  BY <2>1, <2>6, <3>1 DEF TypeOK, NothingAhead
  <2> QED  BY <2>2, <2>3, <2>4, <2>6, <2>8, <2>9 DEF IInv, TypeOK, Entries, Others, MacrosTyped
<1>2. CASE UNCHANGED vars
  <2>1. UNCHANGED <<opcodes, macros, external, gen, requests, then>>
    BY <1>2 DEF vars
  <2>2. \A n \in Name : \A g : Find(n, g)' = Find(n, g)
    BY <2>1 DEF Find, Search, Visible
  <2>3. ReadAsWritten'
    BY <2>1, <2>2 DEF IInv, ReadAsWritten
  <2> QED  BY <2>1, <2>3 DEF IInv, TypeOK, NothingAhead
<1> QED  BY <1>1, <1>2

LEMMA Inductive == Spec => []IInv
<1> QED  BY InitInv, NextInv, PTL DEF Spec

(* The variables keep their types, and the entries of a name are at        *)
(* different generations.                                                  *)
THEOREM TypeCorrect == Spec => []TypeOK
<1> QED  BY Inductive, PTL DEF IInv

(* What a statement's operation code meant is what is found at its         *)
(* generation later (find_opcode_mnemo of hlasm_context.cpp), whatever is  *)
(* defined, renamed, removed or loaded in between, for any number of each. *)
THEOREM MeaningsStay == Spec => []ReadAsWritten
<1> QED  BY Inductive, PTL DEF IInv
=============================================================================
