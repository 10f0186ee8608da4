--------------------------- MODULE SectionsProofs ---------------------------
(***************************************************************************)
(* What holds of the sections of a program for any names and any number of *)
(* sections: a name tells its section and its location counter.            *)
(*                                                                         *)
(* The statements are functions on the context, composed of a few methods  *)
(* of ordinary_assembly_context. The invariant is stated of a context, and *)
(* each function keeps it: Told says what the names of sections, their     *)
(* counters and the symbols have to do with each other, and that before    *)
(* anything was switched to no unnamed section exists, which is why        *)
(* ensure_current_section may create the private section without a look.   *)
(***************************************************************************)
EXTENDS Sections, SequenceTheorems, WellFoundedInduction, TLAPS

-----------------------------------------------------------------------------
(* Contexts.                                                               *)

Kinds == External \cup Control \cup {"DSECT"}
SymbolKinds == {"none", "section", "external", "label", "equate"}
Codes == {"none", "E031", "E053", "E073", "A167", "A168", "A169", "A170", "A171", "A172"}
GoffSet == [class : BOOLEAN, owner : Nat, parent : Nat, partitioned : BOOLEAN]
SectionSet == [name : Optional, kind : Kinds, goff : GoffSet, counters : Seq(Optional), current : Optional]
ContextSet ==
  [sections : Seq(SectionSet), symbols : [Optional -> [kind : SymbolKinds, base : Nat]],
   cur : Nat, first : Nat, control : Nat, started : Nat, psects : [Names -> Optional], said : Codes]

(* A section that has the name of the class it is a part of.               *)
Own(c) ==
  \E s, t \in DOMAIN c.sections :
    s # t /\ c.sections[s].goff.parent = t /\ c.sections[s].name = c.sections[t].name

(* A name is that of one section, an unnamed section is the only one of    *)
(* its kind.                                                               *)
OneOfName(c) ==
  \A s, t \in DOMAIN c.sections :
    c.sections[s].name = c.sections[t].name /\ s # t
      => c.sections[s].name = Unnamed /\ c.sections[s].kind # c.sections[t].kind

(* A section has a counter of its name, and the symbol of a counter is in  *)
(* the section that has it.                                                *)
Counted(c) ==
  /\ \A s \in DOMAIN c.sections : c.sections[s].name \in ToSet(c.sections[s].counters)
  /\ \A n \in Names, s \in DOMAIN c.sections :
       n \in ToSet(c.sections[s].counters) => c.symbols[n].kind # "none" /\ c.symbols[n].base = s

(* Unnamed sections are made by switching to them, control sections are    *)
(* noted when they are made.                                               *)
Begun(c) ==
  /\ c.cur = 0 => \A s \in DOMAIN c.sections : c.sections[s].name # Unnamed
  /\ c.first = 0 => \A s \in DOMAIN c.sections : c.sections[s].kind \notin Control

Typed(c) == c \in ContextSet /\ c.cur <= Len(c.sections)
Told(c) == OneOfName(c) /\ Counted(c) /\ Begun(c)
Good(c) == Typed(c) /\ (Own(c) \/ Told(c))

(* Sections stay, with their names and the classes they are parts of.      *)
Keeps(c, d) ==
  \A s \in DOMAIN c.sections :
    /\ s \in DOMAIN d.sections /\ d.sections[s].name = c.sections[s].name
    /\ d.sections[s].goff = c.sections[s].goff

LEMMA OwnStays ==
  ASSUME NEW c, NEW d, Own(c), Keeps(c, d)
  PROVE  Own(d)
BY DEF Own, Keeps

LEMMA KeepsOn ==
  ASSUME NEW c, NEW d, NEW e, Keeps(c, d), Keeps(d, e)
  PROVE  Keeps(c, e)
BY DEF Keeps

LEMMA DomainIs ==
  ASSUME NEW c \in ContextSet
  PROVE  DOMAIN c.sections = 1..Len(c.sections) /\ Len(c.sections) \in Nat
BY DEF ContextSet

(* The first section of a set.                                             *)
LEMMA LowestIn ==
  ASSUME NEW c \in ContextSet, NEW S, S \subseteq DOMAIN c.sections, S # {}
  PROVE  Lowest(S) \in S
<1>1. S \subseteq Nat
  BY DomainIs
<1>2. PICK x \in S : \A y \in S : ~ (<<y, x>> \in OpToRel(<, Nat))
  BY <1>1, NatLessThanWellFounded, WFMin
<1>3. \A y \in S : ~ (y < x)
  BY <1>1, <1>2 DEF OpToRel
<1>4. \A y \in S : x <= y
  BY <1>1, <1>3
<1> QED  BY <1>4 DEF Lowest

LEMMA NamesAreNamed == \A n \in Names : n \in Optional /\ n # Unnamed
BY SectionsAssumption DEF SectionsAssumption, Optional

-----------------------------------------------------------------------------
(* The methods of the context.                                             *)

LEMMA SwitchIs ==
  ASSUME NEW c, Typed(c), NEW s \in DOMAIN c.sections
  PROVE  /\ Typed(Switch(c, s)) /\ Keeps(c, Switch(c, s))
         /\ Switch(c, s).sections = c.sections /\ Switch(c, s).symbols = c.symbols
         /\ Switch(c, s).cur = s /\ s # 0 /\ Switch(c, s).first = c.first
<1>1. c.sections[s] \in SectionSet /\ s \in Nat \ {0} /\ s <= Len(c.sections)
  BY DomainIs DEF Typed, ContextSet
<1>2. c.sections[s].goff.owner \in Nat
  BY <1>1 DEF SectionSet, GoffSet
<1> QED  BY <1>1, <1>2 DEF Switch, Typed, ContextSet, Keeps

LEMMA SwitchKeeps ==
  ASSUME NEW c, Good(c), NEW s \in DOMAIN c.sections
  PROVE  Good(Switch(c, s)) /\ Keeps(c, Switch(c, s))
<1>1. Typed(c)
  BY DEF Good
<1> DEFINE d == Switch(c, s)
<1>2. /\ Typed(d) /\ Keeps(c, d) /\ d.sections = c.sections /\ d.symbols = c.symbols
      /\ d.cur = s /\ s # 0 /\ d.first = c.first
  BY <1>1, SwitchIs
<1> HIDE DEF d
<1>3. Told(c) => Told(d)
  BY <1>2 DEF Told, OneOfName, Counted, Begun
<1> QED  BY <1>2, <1>3, OwnStays DEF Good, d

LEMMA SayKeeps ==
  ASSUME NEW c, Good(c), NEW code \in Codes
  PROVE  Good(Say(c, code)) /\ Keeps(c, Say(c, code))
<1> DEFINE d == Say(c, code)
<1>1. /\ Typed(d) /\ d.sections = c.sections /\ d.symbols = c.symbols
      /\ d.cur = c.cur /\ d.first = c.first
  BY DEF Good, Typed, ContextSet, Say
<1> HIDE DEF d
<1>2. Keeps(c, d)
  BY <1>1 DEF Keeps
<1>3. Told(c) => Told(d)
  BY <1>1 DEF Told, OneOfName, Counted, Begun
<1> QED  BY <1>1, <1>2, <1>3, OwnStays DEF Good, d

(* create_section, as far as the names go.                                 *)
LEMMA CreateIs ==
  ASSUME NEW c, Typed(c), NEW n \in Optional, NEW k \in Kinds, NEW g \in GoffSet
  PROVE  /\ Typed(Create(c, n, k, g)) /\ Keeps(c, Create(c, n, k, g))
         /\ Create(c, n, k, g).sections = Append(c.sections, Section(n, k, g))
         /\ Create(c, n, k, g).symbols = c.symbols
         /\ Create(c, n, k, g).cur = c.cur
         /\ Create(c, n, k, g).first = 0 => c.first = 0 /\ k \notin Control
         /\ Len(Create(c, n, k, g).sections) = Len(c.sections) + 1
         /\ DOMAIN Create(c, n, k, g).sections = 1..(Len(c.sections) + 1)
         /\ Create(c, n, k, g).sections[Len(c.sections) + 1] = Section(n, k, g)
         /\ \A s \in DOMAIN c.sections : Create(c, n, k, g).sections[s] = c.sections[s]
         /\ ToSet(Section(n, k, g).counters) = {n}
<1> DEFINE new == Section(n, k, g)  d == Create(c, n, k, g)
<1>1. new \in SectionSet /\ new.counters = <<n>>
  BY DEF Section, SectionSet
<1>2. ToSet(<<n>>) = {n}
  BY DEF ToSet
<1>3. c.sections \in Seq(SectionSet) /\ Len(c.sections) \in Nat /\ DOMAIN c.sections = 1..Len(c.sections)
  BY DomainIs DEF Typed, ContextSet
<1>4. /\ d.sections = Append(c.sections, new) /\ d.symbols = c.symbols /\ d.cur = c.cur
      /\ d.first = IF c.first = 0 /\ k \in Control THEN Len(c.sections) + 1 ELSE c.first
      /\ d.control = c.control /\ d.started = c.started /\ d.psects = c.psects /\ d.said = c.said
  BY DEF Create, Typed, ContextSet
<1> HIDE DEF new
<1>5. /\ Append(c.sections, new) \in Seq(SectionSet)
      /\ Len(Append(c.sections, new)) = Len(c.sections) + 1
      /\ DOMAIN Append(c.sections, new) = 1..(Len(c.sections) + 1)
      /\ Append(c.sections, new)[Len(c.sections) + 1] = new
      /\ \A s \in 1..Len(c.sections) : Append(c.sections, new)[s] = c.sections[s]
  BY <1>1, <1>3
<1>6. d \in ContextSet
  <2>1. Append(c.sections, Section(n, k, g)) \in Seq(SectionSet) /\ Len(c.sections) + 1 \in Nat /\ c \in ContextSet
    BY <1>3, <1>5 DEF new, Typed
  <2> QED  BY <2>1 DEF Create, ContextSet
<1> HIDE DEF d
<1>7. Typed(d)
  <2>1. c.cur \in Nat /\ c.cur <= Len(c.sections)
    BY DEF Typed, ContextSet
  <2> QED  BY <2>1, <1>3, <1>4, <1>5, <1>6 DEF Typed
<1>8. Keeps(c, d)
  BY <1>3, <1>4, <1>5 DEF Keeps
<1> QED  BY <1>1, <1>2, <1>3, <1>4, <1>5, <1>7, <1>8 DEF new, d

(* A section with a new name, and its symbol.                              *)
LEMMA Adding ==
  ASSUME NEW c, Typed(c), Told(c), NEW n \in Optional, NEW k \in Kinds, NEW g \in GoffSet,
         n # Unnamed => ~SymbolDefined(c, n),
         n = Unnamed => NamedOf(c, n, k) = {},
         NEW d, NEW y \in SymbolKinds, y # "none",
         d.sections = Create(c, n, k, g).sections,
         d.symbols = IF n = Unnamed THEN c.symbols
                     ELSE [c.symbols EXCEPT ![n] = [kind |-> y, base |-> Len(c.sections) + 1]],
         d.cur = 0 => c.cur = 0 /\ n # Unnamed,
         d.first = 0 => Create(c, n, k, g).first = 0
  PROVE  Told(d)
<1> DEFINE N == Len(c.sections) + 1  new == Section(n, k, g)
<1>1. /\ DOMAIN d.sections = 1..N /\ DOMAIN c.sections = 1..(N - 1) /\ N \in Nat \ {0}
      /\ d.sections[N] = new /\ \A s \in 1..(N - 1) : d.sections[s] = c.sections[s]
      /\ ToSet(new.counters) = {n}
      /\ d.first = 0 => c.first = 0 /\ k \notin Control
  <2> DEFINE e == Create(c, n, k, g)
  <2>0. e = Create(c, n, k, g)
    OBVIOUS
  <2> HIDE DEF e
  <2>1. /\ e.first = 0 => c.first = 0 /\ k \notin Control
        /\ DOMAIN e.sections = 1..(Len(c.sections) + 1)
        /\ e.sections[Len(c.sections) + 1] = Section(n, k, g)
        /\ \A s \in DOMAIN c.sections : e.sections[s] = c.sections[s]
        /\ ToSet(Section(n, k, g).counters) = {n}
    <3>1. e.first = 0 => c.first = 0 /\ k \notin Control
      BY <2>0, CreateIs
    <3>2. DOMAIN e.sections = 1..(Len(c.sections) + 1)
      BY <2>0, CreateIs
    <3>3. e.sections[Len(c.sections) + 1] = Section(n, k, g)
      BY <2>0, CreateIs
    <3>4. \A s \in DOMAIN c.sections : e.sections[s] = c.sections[s]
      BY <2>0, CreateIs
    <3>5. ToSet(Section(n, k, g).counters) = {n}
      <4>1. Section(n, k, g).counters = <<n>>
        BY DEF Section
      <4>2. ToSet(<<n>>) = {n}
        BY DEF ToSet
      <4> QED  BY <4>1, <4>2
    <3> QED  BY <3>1, <3>2, <3>3, <3>4, <3>5
  <2>2. DOMAIN c.sections = 1..Len(c.sections) /\ Len(c.sections) \in Nat
    BY DomainIs DEF Typed
  <2>3. d.sections = e.sections /\ (d.first = 0 => e.first = 0)
    BY <2>0
  <2>4. N = Len(c.sections) + 1 /\ new = Section(n, k, g) /\ N - 1 = Len(c.sections)
    BY <2>2
  <2> HIDE DEF N, new
  <2>5. DOMAIN d.sections = 1..N /\ DOMAIN c.sections = 1..(N - 1) /\ N \in Nat \ {0}
    BY <2>1, <2>2, <2>3, <2>4
  <2>6. d.sections[N] = new /\ \A s \in 1..(N - 1) : d.sections[s] = c.sections[s]
    BY <2>1, <2>2, <2>3, <2>4
  <2> QED  BY <2>1, <2>3, <2>4, <2>5, <2>6
<1>2. new.name = n /\ new.kind = k
  BY DEF Section
<1>3. c.symbols \in [Optional -> [kind : SymbolKinds, base : Nat]]
  BY DEF Typed, ContextSet
<1>4. \A s \in 1..(N - 1) : c.sections[s].name = n => n = Unnamed /\ c.sections[s].kind # k
  <2> SUFFICES ASSUME NEW s \in 1..(N - 1), c.sections[s].name = n
               PROVE  n = Unnamed /\ c.sections[s].kind # k
    OBVIOUS
  <2>1. CASE n = Unnamed
    BY <1>1, <2>1 DEF NamedOf, Named
  <2>2. CASE n # Unnamed
    BY <1>1, <2>2 DEF Told, Counted, SymbolDefined, Optional
  <2> QED  BY <2>1, <2>2
<1> HIDE DEF new, N
<1>5. OneOfName(d)
  <2> SUFFICES ASSUME NEW s \in 1..N, NEW t \in 1..N, d.sections[s].name = d.sections[t].name, s # t
               PROVE  d.sections[s].name = Unnamed /\ d.sections[s].kind # d.sections[t].kind
    BY <1>1 DEF OneOfName
  <2>1. CASE s # N /\ t # N
    <3>1. s \in 1..(N - 1) /\ t \in 1..(N - 1)
      BY <1>1, <2>1
    <3> QED  BY <1>1, <3>1 DEF Told, OneOfName
  <2>2. CASE s = N
    BY <1>1, <1>2, <1>4, <2>2
  <2>3. CASE t = N
    BY <1>1, <1>2, <1>4, <2>3
  <2> QED  BY <2>1, <2>2, <2>3
<1>6. Counted(d)
  <2>1. \A s \in 1..N : d.sections[s].name \in ToSet(d.sections[s].counters)
    <3>1. \A s \in 1..(N - 1) : d.sections[s].name \in ToSet(d.sections[s].counters)
      BY <1>1 DEF Told, Counted
    <3>2. d.sections[N].name \in ToSet(d.sections[N].counters)
      BY <1>1, <1>2
    <3>3. \A s \in 1..N : s = N \/ s \in 1..(N - 1)
      BY <1>1
    <3> QED  BY <3>1, <3>2, <3>3
  <2>2. ASSUME NEW m \in Names, NEW s \in 1..N, m \in ToSet(d.sections[s].counters)
        PROVE  d.symbols[m].kind # "none" /\ d.symbols[m].base = s
    <3>1. m \in Optional /\ m # Unnamed
      BY NamesAreNamed
    <3>2. CASE s = N
      <4>1. m = n
        BY <1>1, <2>2, <3>2
      <4> QED  BY <1>3, <3>1, <3>2, <4>1 DEF N
    <3>3. CASE s # N
      <4>0. s \in 1..(N - 1)
        BY <1>1, <3>3
      <4>1. c.symbols[m].kind # "none" /\ c.symbols[m].base = s
        BY <1>1, <2>2, <4>0 DEF Told, Counted
      <4>2. m # n
        BY <3>1, <4>1 DEF SymbolDefined
      <4> QED  BY <1>3, <3>1, <4>1, <4>2
    <3> QED  BY <3>2, <3>3
  <2> QED  BY <1>1, <2>1, <2>2 DEF Counted
<1>7. Begun(d)
  <2>1. d.cur = 0 => \A s \in 1..N : d.sections[s].name # Unnamed
    BY <1>1, <1>2 DEF Told, Begun
  <2>2. d.first = 0 => \A s \in 1..N : d.sections[s].kind \notin Control
    BY <1>1, <1>2 DEF Told, Begun
  <2> QED  BY <1>1, <2>1, <2>2 DEF Begun
<1> QED  BY <1>5, <1>6, <1>7 DEF Told

LEMMA SetSymbolIs ==
  ASSUME NEW c, Typed(c), NEW n \in Optional, NEW k \in SymbolKinds, NEW b \in Nat,
         NEW d, d = SetSymbol(c, n, k, b)
  PROVE  /\ Typed(d) /\ Keeps(c, d) /\ d.sections = c.sections /\ d.cur = c.cur /\ d.first = c.first
         /\ d.symbols = [c.symbols EXCEPT ![n] = [kind |-> k, base |-> b]]
BY DEF SetSymbol, Typed, ContextSet, Keeps

(* A symbol that no counter has.                                           *)
LEMMA SetSymbolKeeps ==
  ASSUME NEW c, Good(c), NEW n \in Names, ~SymbolDefined(c, n), NEW k \in SymbolKinds, NEW b \in Nat
  PROVE  Good(SetSymbol(c, n, k, b)) /\ Keeps(c, SetSymbol(c, n, k, b))
<1> DEFINE d == SetSymbol(c, n, k, b)
<1>1. /\ Typed(d) /\ Keeps(c, d) /\ d.sections = c.sections /\ d.cur = c.cur /\ d.first = c.first
      /\ d.symbols = [c.symbols EXCEPT ![n] = [kind |-> k, base |-> b]]
  BY SetSymbolIs, NamesAreNamed DEF Good
<1> HIDE DEF d
<1>2. c.symbols \in [Optional -> [kind : SymbolKinds, base : Nat]]
  BY DEF Good, Typed, ContextSet
<1>3. Told(c) => Told(d)
  <2> SUFFICES ASSUME Told(c) PROVE Told(d)
    OBVIOUS
  <2>1. \A m \in Names : m # n => d.symbols[m] = c.symbols[m]
    BY <1>1, <1>2, NamesAreNamed
  <2>2. \A s \in DOMAIN c.sections : n \notin ToSet(c.sections[s].counters)
    BY DEF Told, Counted, SymbolDefined
  <2> QED  BY <1>1, <2>1, <2>2 DEF Told, OneOfName, Counted, Begun
<1> QED  BY <1>1, <1>3, OwnStays DEF Good, d

(* The name of a section and of a counter is defined.                      *)
LEMMA Undeclared ==
  ASSUME NEW c, Told(c), NEW n \in Names, ~SymbolDefined(c, n)
  PROVE  Named(c, n) = {} /\ CountedBy(c, n) = {}
<1>1. \A s \in DOMAIN c.sections : n \notin ToSet(c.sections[s].counters)
  BY DEF Told, Counted, SymbolDefined
<1>2. \A s \in DOMAIN c.sections : c.sections[s].name # n
  BY <1>1 DEF Told, Counted
<1> QED  BY <1>1, <1>2 DEF Named, CountedBy

(* A section is made and switched to.                                      *)
Made(c, n, k, g) == Switch(Create(c, n, k, g), Len(c.sections) + 1)
LEMMA MadeIs ==
  ASSUME NEW c, Typed(c), NEW n \in Optional, NEW k \in Kinds, NEW g \in GoffSet
  PROVE  /\ Len(c.sections) + 1 \in DOMAIN Create(c, n, k, g).sections /\ Len(c.sections) + 1 # 0
         /\ Typed(Made(c, n, k, g)) /\ Keeps(c, Made(c, n, k, g))
         /\ Made(c, n, k, g).sections = Create(c, n, k, g).sections
         /\ Made(c, n, k, g).symbols = c.symbols
         /\ Made(c, n, k, g).cur = Len(c.sections) + 1
         /\ Made(c, n, k, g).first = Create(c, n, k, g).first
<1> DEFINE t == Len(c.sections) + 1  e == Create(c, n, k, g)
<1>1. Typed(e) /\ Keeps(c, e) /\ e.symbols = c.symbols /\ DOMAIN e.sections = 1..t
  BY CreateIs
<1>2. t \in 1..t /\ t # 0
  BY DomainIs DEF Typed
<1> HIDE DEF t, e
<1>3. /\ Typed(Switch(e, t)) /\ Keeps(e, Switch(e, t)) /\ Switch(e, t).sections = e.sections
      /\ Switch(e, t).symbols = e.symbols /\ Switch(e, t).cur = t /\ Switch(e, t).first = e.first
  BY <1>1, <1>2, SwitchIs
<1>4. Keeps(c, Switch(e, t))
  BY <1>1, <1>3, KeepsOn
<1> QED  BY <1>1, <1>2, <1>3, <1>4 DEF t, e, Made

LEMMA NoGoffIs == NoGoff \in GoffSet
BY DEF NoGoff, GoffSet

(* ensure_current_section                                                  *)
LEMMA EnsuredKeeps ==
  ASSUME NEW c, Good(c)
  PROVE  /\ Good(Ensured(c)) /\ Keeps(c, Ensured(c)) /\ Ensured(c).cur # 0
         /\ Ensured(c).symbols = c.symbols
<1>1. CASE c.cur # 0
  BY <1>1 DEF Ensured, Keeps
<1>2. CASE c.cur = 0
  <2> DEFINE d == Ensured(c)
  <2>1. NoGoff \in GoffSet /\ Unnamed \in Optional /\ "CSECT" \in Kinds /\ Typed(c)
    BY NoGoffIs DEF Optional, Good, Kinds, Control
  <2>2. d = Made(c, Unnamed, "CSECT", NoGoff)
    BY <1>2 DEF Ensured, Made
  <2> HIDE DEF d
  <2>3. Len(c.sections) + 1 # 0
    BY <2>1, DomainIs DEF Typed
  <2>4. /\ Typed(d) /\ Keeps(c, d) /\ d.sections = Create(c, Unnamed, "CSECT", NoGoff).sections
        /\ d.symbols = c.symbols /\ d.cur # 0 /\ d.first = Create(c, Unnamed, "CSECT", NoGoff).first
    BY <2>1, <2>2, <2>3, MadeIs
  <2>5. Told(c) => Told(d)
    <3> SUFFICES ASSUME Told(c) PROVE Told(d)
      OBVIOUS
    <3>1. NamedOf(c, Unnamed, "CSECT") = {}
      BY <1>2 DEF Told, Begun, NamedOf, Named
    <3>2. "section" \in SymbolKinds /\ "section" # "none"
      BY DEF SymbolKinds
    <3> QED  BY <2>1, <2>4, <3>1, <3>2, Adding
  <2> QED  BY <2>4, <2>5, OwnStays DEF Good, d
<1> QED  BY <1>1, <1>2

(* set_section(name, kind)                                                 *)
LEMMA SetSectionKeeps ==
  ASSUME NEW c, Good(c), NEW n \in Optional, NEW k \in Kinds,
         n # Unnamed => ~SymbolDefined(c, n) \/ NamedOf(c, n, k) # {}
  PROVE  Good(SetSection(c, n, k)) /\ Keeps(c, SetSection(c, n, k))
<1>0. Typed(c)
  BY DEF Good
<1>1. CASE NamedOf(c, n, k) # {}
  <2>1. NamedOf(c, n, k) \subseteq DOMAIN c.sections
    BY DEF NamedOf, Named
  <2>2. Lowest(NamedOf(c, n, k)) \in DOMAIN c.sections
    BY <1>0, <1>1, <2>1, LowestIn DEF Typed
  <2> QED  BY <1>1, <2>2, SwitchKeeps DEF SetSection
<1>2. CASE NamedOf(c, n, k) = {}
  <2> DEFINE t == Len(c.sections) + 1  d == Made(c, n, k, NoGoff)  e == SetSection(c, n, k)
  <2>1. t \in Nat /\ t # 0
    BY <1>0, DomainIs DEF Typed
  <2>2. /\ Typed(d) /\ Keeps(c, d) /\ d.sections = Create(c, n, k, NoGoff).sections
        /\ d.symbols = c.symbols /\ d.cur = t /\ d.first = Create(c, n, k, NoGoff).first
    BY <1>0, NoGoffIs, MadeIs
  <2>3. e = IF n = Unnamed THEN d ELSE SetSymbol(d, n, "section", t)
    BY <1>2 DEF SetSection, Made
  <2> HIDE DEF t, d, e
  <2>4. /\ Typed(e) /\ Keeps(c, e) /\ e.sections = d.sections /\ e.cur = t /\ e.first = d.first
        /\ e.symbols = IF n = Unnamed THEN c.symbols
                       ELSE [c.symbols EXCEPT ![n] = [kind |-> "section", base |-> t]]
    <3>1. CASE n = Unnamed
      BY <2>2, <2>3, <3>1
    <3>2. CASE n # Unnamed
      <4>1. e = SetSymbol(d, n, "section", t) /\ "section" \in SymbolKinds
        BY <2>3, <3>2 DEF SymbolKinds
      <4>2. /\ Typed(e) /\ Keeps(d, e) /\ e.sections = d.sections /\ e.cur = d.cur /\ e.first = d.first
            /\ e.symbols = [d.symbols EXCEPT ![n] = [kind |-> "section", base |-> t]]
        BY <2>1, <2>2, <4>1, SetSymbolIs
      <4> QED  BY <2>2, <3>2, <4>2, KeepsOn
    <3> QED  BY <3>1, <3>2
  <2>5. Told(c) => Told(e)
    <3>1. "section" \in SymbolKinds /\ "section" # "none"
      BY DEF SymbolKinds
    <3>2. e.symbols = IF n = Unnamed THEN c.symbols
                      ELSE [c.symbols EXCEPT ![n] = [kind |-> "section", base |-> Len(c.sections) + 1]]
      BY <2>4 DEF t
    <3>3. /\ n # Unnamed => ~SymbolDefined(c, n)
          /\ e.sections = Create(c, n, k, NoGoff).sections
          /\ e.first = 0 => Create(c, n, k, NoGoff).first = 0
          /\ e.cur = 0 => c.cur = 0 /\ n # Unnamed
      BY <1>2, <2>1, <2>2, <2>4
    <3> QED  BY <1>0, <1>2, <3>1, <3>2, <3>3, NoGoffIs, Adding
  <2> QED  BY <2>4, <2>5, OwnStays DEF Good, e
<1> QED  BY <1>1, <1>2

(* create_external_section                                                 *)
LEMMA CreateExternalKeeps ==
  ASSUME NEW c, Good(c), NEW n \in Names, NEW k \in External, ~SymbolDefined(c, n)
  PROVE  Good(CreateExternal(c, n, k)) /\ Keeps(c, CreateExternal(c, n, k))
<1> DEFINE t == Len(c.sections) + 1  d == Create(c, n, k, NoGoff)  e == CreateExternal(c, n, k)
           y == IF k = "DXD" THEN "section" ELSE "external"
<1>1. Typed(c) /\ n \in Optional /\ n # Unnamed /\ k \in Kinds /\ y \in SymbolKinds /\ y # "none"
  BY NamesAreNamed DEF Good, External, Kinds, SymbolKinds
<1>2. t \in Nat
  BY <1>1, DomainIs DEF Typed
<1>3. /\ Typed(d) /\ Keeps(c, d) /\ d.symbols = c.symbols /\ d.cur = c.cur
  BY <1>1, NoGoffIs, CreateIs
<1>4. e = SetSymbol(d, n, y, t)
  BY DEF CreateExternal
<1> HIDE DEF y, t, e
<1>5. /\ Typed(e) /\ Keeps(d, e) /\ e.sections = d.sections /\ e.cur = d.cur /\ e.first = d.first
      /\ e.symbols = [d.symbols EXCEPT ![n] = [kind |-> y, base |-> t]]
  BY <1>1, <1>2, <1>3, <1>4, SetSymbolIs
<1>6. Told(c) => Told(e)
  BY <1>1, <1>3, <1>5, NoGoffIs, Adding DEF t
<1>7. Keeps(c, e)
  BY <1>3, <1>5, KeepsOn
<1> QED  BY <1>5, <1>6, <1>7, OwnStays DEF Good, e

(* create_and_set_class                                                    *)
LEMMA SetClassIs ==
  ASSUME NEW c, Typed(c), NEW n \in Names, NEW b \in Nat, NEW p \in BOOLEAN
  PROVE  /\ Typed(SetClass(c, n, b, p)) /\ Keeps(c, SetClass(c, n, b, p))
         /\ SetClass(c, n, b, p).cur = Len(c.sections) + 1
         /\ Len(c.sections) + 1 \in DOMAIN SetClass(c, n, b, p).sections
         /\ Len(c.sections) + 1 \notin DOMAIN c.sections
         /\ SetClass(c, n, b, p).sections[Len(c.sections) + 1].name = n
         /\ SetClass(c, n, b, p).sections[Len(c.sections) + 1].goff.parent = b
         /\ \A m \in Names \ {n} : SetClass(c, n, b, p).symbols[m] = c.symbols[m]
         /\ Told(c) /\ ~SymbolDefined(c, n) => Told(SetClass(c, n, b, p))
<1> DEFINE t == Len(c.sections) + 1
           g == [class |-> TRUE, owner |-> c.control, parent |-> b, partitioned |-> p]
           d == Made(c, n, "CSECT", g)  e == SetClass(c, n, b, p)
<1>1. n \in Optional /\ n # Unnamed
  BY NamesAreNamed
<1>2. t \in Nat /\ t # 0 /\ t \notin DOMAIN c.sections
  BY <1>1, DomainIs DEF Typed
<1>3. g \in GoffSet /\ g.parent = b
  BY <1>1 DEF GoffSet, Typed, ContextSet
<1>4. e = SetSymbol(d, n, "section", t)
  BY DEF SetClass, Made
<1>5. "section" \in SymbolKinds /\ "section" # "none" /\ "CSECT" \in Kinds
  BY DEF SymbolKinds, Kinds, Control
<1> HIDE DEF t, g, e
<1>6. /\ Typed(d) /\ Keeps(c, d) /\ d.sections = Create(c, n, "CSECT", g).sections
      /\ d.symbols = c.symbols /\ d.cur = t /\ d.first = Create(c, n, "CSECT", g).first
  BY <1>1, <1>3, <1>5, MadeIs DEF t
<1> HIDE DEF d
<1>7. /\ Typed(e) /\ Keeps(d, e) /\ e.sections = d.sections /\ e.cur = d.cur /\ e.first = d.first
      /\ e.symbols = [d.symbols EXCEPT ![n] = [kind |-> "section", base |-> t]]
  BY <1>1, <1>2, <1>4, <1>5, <1>6, SetSymbolIs
<1>8. Told(c) /\ ~SymbolDefined(c, n) => Told(e)
  <2>1. e.symbols = IF n = Unnamed THEN c.symbols
                    ELSE [c.symbols EXCEPT ![n] = [kind |-> "section", base |-> Len(c.sections) + 1]]
    BY <1>1, <1>6, <1>7 DEF t
  <2>2. /\ e.sections = Create(c, n, "CSECT", g).sections
        /\ e.first = 0 => Create(c, n, "CSECT", g).first = 0
        /\ e.cur = 0 => c.cur = 0 /\ n # Unnamed
    BY <1>2, <1>6, <1>7
  <2> QED  BY <1>1, <1>3, <1>5, <2>1, <2>2, Adding
<1>9. Keeps(c, e)
  BY <1>6, <1>7, KeepsOn
<1>10. \A m \in Names \ {n} : e.symbols[m] = c.symbols[m]
  <2>1. c.symbols \in [Optional -> [kind : SymbolKinds, base : Nat]]
    BY DEF Typed, ContextSet
  <2> QED  BY <1>6, <1>7, <2>1, NamesAreNamed
<1>11. t \in DOMAIN e.sections /\ e.sections[t].name = n /\ e.sections[t].goff.parent = b
  <2>1. t \in DOMAIN e.sections /\ e.sections[t] = Section(n, "CSECT", g)
    <3>1. /\ DOMAIN Create(c, n, "CSECT", g).sections = 1..(Len(c.sections) + 1)
          /\ Create(c, n, "CSECT", g).sections[Len(c.sections) + 1] = Section(n, "CSECT", g)
      BY <1>1, <1>3, <1>5, CreateIs
    <3> QED  BY <1>2, <1>6, <1>7, <3>1 DEF t
  <2> QED  BY <1>3, <2>1 DEF Section
<1> QED  BY <1>2, <1>6, <1>7, <1>8, <1>9, <1>10, <1>11 DEF e, t

LEMMA SetClassKeeps ==
  ASSUME NEW c, Good(c), NEW n \in Names, NEW b \in Nat, NEW p \in BOOLEAN, ~SymbolDefined(c, n)
  PROVE  Good(SetClass(c, n, b, p)) /\ Keeps(c, SetClass(c, n, b, p))
BY SetClassIs, OwnStays DEF Good

(* A class becomes a part of itself.                                       *)
LEMMA OwnClassKeeps ==
  ASSUME NEW c, Good(c), NEW n \in Names, c.cur \in DOMAIN c.sections, c.sections[c.cur].name = n, NEW p \in BOOLEAN
  PROVE  Good(SetClass(c, n, c.cur, p))
<1> DEFINE b == c.cur  e == SetClass(c, n, b, p)
<1>1. Typed(c) /\ b \in Nat
  BY DEF Good, Typed, ContextSet
<1> HIDE DEF b
<1>2. /\ Typed(e) /\ Keeps(c, e)
      /\ Len(c.sections) + 1 \in DOMAIN e.sections /\ Len(c.sections) + 1 \notin DOMAIN c.sections
      /\ e.sections[Len(c.sections) + 1].name = n
      /\ e.sections[Len(c.sections) + 1].goff.parent = b
  BY <1>1, SetClassIs
<1> HIDE DEF e
<1>3. b \in DOMAIN e.sections /\ e.sections[b].name = n
  BY <1>2 DEF Keeps, b
<1>4. Own(e)
  BY <1>2, <1>3 DEF Own, b
<1> QED  BY <1>2, <1>4 DEF Good, e, b

(* A section changes, but not in its name and its class.                   *)
Replaced(c, s, x) == [c EXCEPT !.sections[s] = x]
LEMMA ReplacedIs ==
  ASSUME NEW c, Typed(c), NEW s \in DOMAIN c.sections, NEW x \in SectionSet,
         x.name = c.sections[s].name, x.kind = c.sections[s].kind, x.goff = c.sections[s].goff
  PROVE  /\ Typed(Replaced(c, s, x)) /\ Keeps(c, Replaced(c, s, x))
         /\ Replaced(c, s, x).symbols = c.symbols
         /\ Replaced(c, s, x).cur = c.cur /\ Replaced(c, s, x).first = c.first
         /\ DOMAIN Replaced(c, s, x).sections = DOMAIN c.sections
         /\ \A r \in DOMAIN c.sections :
              /\ Replaced(c, s, x).sections[r] = IF r = s THEN x ELSE c.sections[r]
              /\ Replaced(c, s, x).sections[r].name = c.sections[r].name
              /\ Replaced(c, s, x).sections[r].kind = c.sections[r].kind
<1> DEFINE new == [c.sections EXCEPT ![s] = x]  d == Replaced(c, s, x)
<1>1. /\ c \in ContextSet /\ c.sections \in Seq(SectionSet) /\ s \in 1..Len(c.sections)
      /\ DOMAIN c.sections = 1..Len(c.sections) /\ c.cur <= Len(c.sections)
  BY DomainIs DEF Typed, ContextSet
<1>2. /\ new \in Seq(SectionSet) /\ Len(new) = Len(c.sections)
      /\ \A r \in 1..Len(c.sections) : new[r] = IF r = s THEN x ELSE c.sections[r]
  BY <1>1, ExceptSeq
<1>3. DOMAIN new = DOMAIN c.sections
  OBVIOUS
<1>4. d = [c EXCEPT !.sections = new]
  BY DEF Replaced
<1> HIDE DEF new, d
<1>5. d \in ContextSet
  BY <1>1, <1>2, <1>4 DEF ContextSet
<1>6. d.sections = new /\ d.symbols = c.symbols /\ d.cur = c.cur /\ d.first = c.first
  BY <1>1, <1>4 DEF ContextSet
<1>7. \A r \in DOMAIN c.sections :
        /\ new[r] = IF r = s THEN x ELSE c.sections[r]
        /\ new[r].name = c.sections[r].name /\ new[r].kind = c.sections[r].kind
        /\ new[r].goff = c.sections[r].goff
  BY <1>1, <1>2
<1>8. Typed(d)
  BY <1>1, <1>2, <1>5, <1>6 DEF Typed
<1>9. Keeps(c, d)
  BY <1>3, <1>6, <1>7 DEF Keeps
<1> QED  BY <1>3, <1>6, <1>7, <1>8, <1>9 DEF d

(* set_location_counter                                                    *)
LEMMA CurrentKeeps ==
  ASSUME NEW c, Good(c), NEW s \in DOMAIN c.sections, NEW n \in Optional
  PROVE  LET d == [c EXCEPT !.sections[s].current = n] IN Good(d) /\ Keeps(c, d)
<1> DEFINE x == [c.sections[s] EXCEPT !.current = n]  d == Replaced(c, s, x)
<1>1. Typed(c) /\ c.sections[s] \in SectionSet
  BY DomainIs DEF Good, Typed, ContextSet
<1>2. /\ x \in SectionSet /\ x.name = c.sections[s].name /\ x.kind = c.sections[s].kind
      /\ x.goff = c.sections[s].goff /\ x.counters = c.sections[s].counters
  BY <1>1 DEF SectionSet
<1>3. [c EXCEPT !.sections[s].current = n] = d
  BY DEF Replaced
<1> HIDE DEF x
<1>4. /\ Typed(d) /\ Keeps(c, d) /\ d.symbols = c.symbols /\ d.cur = c.cur /\ d.first = c.first
      /\ DOMAIN d.sections = DOMAIN c.sections
      /\ \A r \in DOMAIN c.sections : /\ d.sections[r] = IF r = s THEN x ELSE c.sections[r]
                                      /\ d.sections[r].name = c.sections[r].name
                                      /\ d.sections[r].kind = c.sections[r].kind
  BY <1>1, <1>2, ReplacedIs
<1> HIDE DEF d
<1>5. \A r \in DOMAIN c.sections : d.sections[r].counters = c.sections[r].counters
  BY <1>2, <1>4
<1>6. Told(c) => Told(d)
  BY <1>4, <1>5 DEF Told, OneOfName, Counted, Begun
<1>7. Good(d)
  BY <1>4, <1>6, OwnStays DEF Good
<1> QED  BY <1>3, <1>4, <1>7

LEMMA Appended ==
  ASSUME NEW S, NEW q \in Seq(S), NEW n \in S
  PROVE  ToSet(Append(q, n)) = ToSet(q) \cup {n}
<1>1. /\ DOMAIN Append(q, n) = 1..(Len(q) + 1) /\ DOMAIN q = 1..Len(q) /\ Len(q) \in Nat
      /\ Append(q, n)[Len(q) + 1] = n
      /\ \A i \in 1..Len(q) : Append(q, n)[i] = q[i]
  OBVIOUS
<1>2. \A i \in 1..(Len(q) + 1) : i = Len(q) + 1 \/ i \in 1..Len(q)
  BY <1>1
<1>3. ToSet(Append(q, n)) \subseteq ToSet(q) \cup {n}
  BY <1>1, <1>2 DEF ToSet
<1>4. ToSet(q) \cup {n} \subseteq ToSet(Append(q, n))
  <2>1. Len(q) + 1 \in DOMAIN Append(q, n) /\ \A i \in DOMAIN q : i \in DOMAIN Append(q, n)
    BY <1>1
  <2> QED  BY <1>1, <2>1 DEF ToSet
<1> QED  BY <1>3, <1>4

LEMMA SetCounterKeeps ==
  ASSUME NEW c, Good(c), NEW n \in Optional
  PROVE  Good(SetCounter(c, n)) /\ Keeps(c, SetCounter(c, n))
<1> DEFINE d == Ensured(c)
<1>1. Good(d) /\ Typed(d) /\ Keeps(c, d) /\ d.cur # 0
  BY EnsuredKeeps DEF Good
<1> HIDE DEF d
<1>2. /\ DOMAIN d.sections = 1..Len(d.sections) /\ d.cur \in DOMAIN d.sections
      /\ d.symbols \in [Optional -> [kind : SymbolKinds, base : Nat]]
  BY <1>1, DomainIs DEF Typed, ContextSet
<1>3. CASE CountedBy(d, n) # {}
  <2> DEFINE s == Lowest(CountedBy(d, n))  e == Switch(d, s)
  <2>1. CountedBy(d, n) \subseteq DOMAIN d.sections
    BY DEF CountedBy
  <2>2. s \in DOMAIN d.sections
    BY <1>1, <1>3, <2>1, LowestIn DEF Typed
  <2>3. Good(e) /\ Keeps(d, e) /\ e.sections = d.sections
    BY <1>1, <2>2, SwitchKeeps, SwitchIs
  <2>4. SetCounter(c, n) = [e EXCEPT !.sections[s].current = n]
    BY <1>3 DEF SetCounter, d
  <2> HIDE DEF s, e
  <2>5. Good(SetCounter(c, n)) /\ Keeps(e, SetCounter(c, n))
    BY <2>2, <2>3, <2>4, CurrentKeeps
  <2> QED  BY <1>1, <2>3, <2>5, KeepsOn
<1>4. CASE CountedBy(d, n) = {}
  <2> DEFINE u == d.cur
             x == [d.sections[u] EXCEPT !.current = n, !.counters = Append(d.sections[u].counters, n)]
             e == Replaced(d, u, x)  f == SetSymbol(e, n, "section", u)
  <2>1. d.sections[u] \in SectionSet /\ u \in Nat
    BY <1>1, <1>2 DEF Typed, ContextSet
  <2>2. /\ d.sections[u].counters \in Seq(Optional)
        /\ Append(d.sections[u].counters, n) \in Seq(Optional)
    BY <2>1 DEF SectionSet
  <2>3. /\ x \in SectionSet /\ x.name = d.sections[u].name /\ x.kind = d.sections[u].kind
        /\ x.goff = d.sections[u].goff /\ x.counters = Append(d.sections[u].counters, n)
    BY <2>1, <2>2 DEF SectionSet
  <2>4. ToSet(x.counters) = ToSet(d.sections[u].counters) \cup {n}
    BY <2>2, <2>3, Appended
  <2>5. SetCounter(c, n) = f
    BY <1>4 DEF SetCounter, d, Replaced
  <2> HIDE DEF x, u
  <2>6. /\ Typed(e) /\ Keeps(d, e) /\ e.symbols = d.symbols /\ e.cur = d.cur /\ e.first = d.first
        /\ DOMAIN e.sections = DOMAIN d.sections
        /\ \A r \in DOMAIN d.sections : /\ e.sections[r] = IF r = u THEN x ELSE d.sections[r]
                                        /\ e.sections[r].name = d.sections[r].name
                                        /\ e.sections[r].kind = d.sections[r].kind
    BY <1>1, <1>2, <2>3, ReplacedIs DEF u
  <2> HIDE DEF e
  <2>7. "section" \in SymbolKinds /\ "section" # "none"
    BY DEF SymbolKinds
  <2>8. /\ Typed(f) /\ Keeps(e, f) /\ f.sections = e.sections /\ f.cur = e.cur /\ f.first = e.first
        /\ f.symbols = [e.symbols EXCEPT ![n] = [kind |-> "section", base |-> u]]
    BY <2>1, <2>6, <2>7, SetSymbolIs
  <2> HIDE DEF f
  <2>9. Told(d) => Told(f)
    <3> SUFFICES ASSUME Told(d) PROVE Told(f)
      OBVIOUS
    <3>1. OneOfName(f) /\ Begun(f)
      BY <2>6, <2>8 DEF Told, OneOfName, Begun
    <3>2. \A r \in DOMAIN d.sections :
            ToSet(f.sections[r].counters) =
            IF r = u THEN ToSet(d.sections[r].counters) \cup {n} ELSE ToSet(d.sections[r].counters)
      BY <2>4, <2>6, <2>8
    <3>3. \A r \in DOMAIN f.sections : f.sections[r].name \in ToSet(f.sections[r].counters)
      <4>1. \A r \in DOMAIN d.sections : d.sections[r].name \in ToSet(d.sections[r].counters)
        BY DEF Told, Counted
      <4>2. \A r \in DOMAIN f.sections : r \in DOMAIN d.sections /\ f.sections[r].name = d.sections[r].name
        BY <2>6, <2>8
      <4>3. \A r \in DOMAIN f.sections : ToSet(d.sections[r].counters) \subseteq ToSet(f.sections[r].counters)
        BY <3>2, <4>2
      <4> QED  BY <4>1, <4>2, <4>3
    <3>4. ASSUME NEW m \in Names, NEW r \in DOMAIN f.sections, m \in ToSet(f.sections[r].counters)
          PROVE  f.symbols[m].kind # "none" /\ f.symbols[m].base = r
      <4>1. m \in Optional
        BY NamesAreNamed
      <4>2. r \in DOMAIN d.sections
        BY <2>6, <2>8
      <4>3. CASE m = n
        <5>1. m \notin ToSet(d.sections[r].counters)
          BY <1>4, <4>2, <4>3 DEF CountedBy
        <5>2. r = u
          BY <3>2, <3>4, <4>2, <5>1
        <5> QED  BY <1>2, <2>6, <2>7, <2>8, <4>1, <4>3, <5>2
      <4>4. CASE m # n
        <5>1. m \in ToSet(d.sections[r].counters)
          BY <3>2, <3>4, <4>2, <4>4
        <5>2. d.symbols[m].kind # "none" /\ d.symbols[m].base = r
          BY <4>2, <5>1 DEF Told, Counted
        <5>3. f.symbols[m] = d.symbols[m]
          BY <1>2, <2>6, <2>8, <4>1, <4>4
        <5> QED  BY <5>2, <5>3
      <4> QED  BY <4>3, <4>4
    <3> QED  BY <3>1, <3>3, <3>4 DEF Told, Counted
  <2>10. Keeps(d, f)
    BY <2>6, <2>8, KeepsOn
  <2>11. Good(f)
    BY <1>1, <2>8, <2>9, <2>10, OwnStays DEF Good
  <2> QED  BY <1>1, <2>5, <2>10, <2>11, KeepsOn
<1> QED  BY <1>3, <1>4

-----------------------------------------------------------------------------
(* The statements.                                                         *)

LEMMA SameKeeps ==
  ASSUME NEW c, Good(c), NEW d, Typed(d), d.sections = c.sections, d.symbols = c.symbols,
         d.cur = c.cur, d.first = c.first
  PROVE  Good(d)
<1>1. Told(c) => Told(d)
  BY DEF Told, OneOfName, Counted, Begun
<1> QED  BY <1>1 DEF Good, Own

LEMMA SectStatementKeeps ==
  ASSUME NEW c, Good(c), NEW n \in Optional, NEW k \in Control \cup {"DSECT"}
  PROVE  Good(SectStatement(c, n, k))
<1>1. k \in Kinds /\ "E031" \in Codes
  BY DEF Kinds, Codes
<1>2. Good(Say(c, "E031"))
  BY <1>1, SayKeeps
<1>3. (n # Unnamed => ~SymbolDefined(c, n) \/ NamedOf(c, n, k) # {}) => Good(SetSection(c, n, k))
  BY <1>1, SetSectionKeeps
<1> QED  BY <1>2, <1>3 DEF SectStatement

LEMMA LoctrKeeps ==
  ASSUME NEW c, Good(c), NEW n \in Optional
  PROVE  Good(Loctr(c, n))
<1> DEFINE d == IF SymbolDefined(c, n) THEN Ensured(c) ELSE c
           code == IF n = Unnamed THEN "E053" ELSE "none"
<1>1. Good(d)
  BY EnsuredKeeps
<1>2. code \in Codes /\ "E031" \in Codes
  BY DEF Codes
<1>3. Loctr(c, n) = IF SymbolDefined(c, n) /\ CountedBy(d, n) = {} THEN Say(d, "E031")
                    ELSE Say(SetCounter(d, n), code)
  BY DEF Loctr
<1> HIDE DEF d, code
<1>4. Good(Say(d, "E031")) /\ Good(Say(SetCounter(d, n), code))
  BY <1>1, <1>2, SetCounterKeeps, SayKeeps
<1> QED  BY <1>3, <1>4

LEMMA StartKeeps ==
  ASSUME NEW c, Good(c), NEW n \in Optional
  PROVE  Good(Start(c, n))
<1>1. "E073" \in Codes /\ "E031" \in Codes /\ "CSECT" \in Kinds
  BY DEF Codes, Kinds, Control
<1>2. Good(Say(c, "E073")) /\ Good(Say(c, "E031"))
  BY <1>1, SayKeeps
<1>3. ASSUME ~SymbolDefined(c, n)
      PROVE  LET d == SetSection(c, n, "CSECT") IN Good([d EXCEPT !.started = d.cur])
  <2> DEFINE d == SetSection(c, n, "CSECT")  e == [d EXCEPT !.started = d.cur]
  <2>1. Good(d) /\ Typed(d)
    BY <1>1, <1>3, SetSectionKeeps DEF Good
  <2> HIDE DEF d
  <2>2. Typed(e) /\ e.sections = d.sections /\ e.symbols = d.symbols /\ e.cur = d.cur /\ e.first = d.first
    BY <2>1 DEF Typed, ContextSet
  <2> QED  BY <2>1, <2>2, SameKeeps DEF d
<1> QED  BY <1>2, <1>3 DEF Start

LEMMA ExternKeeps ==
  ASSUME NEW c, Good(c), NEW n \in Optional, NEW k \in External
  PROVE  Good(Extern(c, n, k))
<1>1. "E053" \in Codes /\ "E031" \in Codes
  BY DEF Codes
<1>2. Good(Say(c, "E053")) /\ Good(Say(c, "E031"))
  BY <1>1, SayKeeps
<1>3. n # Unnamed => n \in Names
  BY DEF Optional
<1>4. n # Unnamed /\ ~SymbolDefined(c, n) => Good(CreateExternal(c, n, k))
  BY <1>3, CreateExternalKeeps
<1> QED  BY <1>2, <1>4 DEF Extern

LEMMA LabelStatementKeeps ==
  ASSUME NEW c, Good(c), NEW n \in Optional
  PROVE  Good(LabelStatement(c, n))
<1> DEFINE d == Ensured(c)
<1>1. Good(d) /\ d.cur \in Nat
  BY EnsuredKeeps DEF Good, Typed, ContextSet
<1>2. LabelStatement(c, n) = IF n = Unnamed THEN d
                             ELSE IF SymbolDefined(d, n) THEN Say(d, "E031") ELSE SetSymbol(d, n, "label", d.cur)
  BY DEF LabelStatement
<1>3. "E031" \in Codes /\ "label" \in SymbolKinds
  BY DEF Codes, SymbolKinds
<1> HIDE DEF d
<1>4. Good(Say(d, "E031"))
  BY <1>1, <1>3, SayKeeps
<1>5. n # Unnamed /\ ~SymbolDefined(d, n) => Good(SetSymbol(d, n, "label", d.cur))
  BY <1>1, <1>3, SetSymbolKeeps DEF Optional
<1> QED  BY <1>1, <1>2, <1>4, <1>5

LEMMA EquateKeeps ==
  ASSUME NEW c, Good(c), NEW n \in Names
  PROVE  Good(Equate(c, n))
<1> DEFINE d == Ensured(c)
<1>1. Good(d)
  BY EnsuredKeeps
<1>2. Equate(c, n) = IF SymbolDefined(d, n) THEN Say(d, "E031") ELSE SetSymbol(d, n, "equate", 0)
  BY DEF Equate
<1>3. "E031" \in Codes /\ "equate" \in SymbolKinds /\ 0 \in Nat
  BY DEF Codes, SymbolKinds
<1> HIDE DEF d
<1>4. Good(Say(d, "E031"))
  BY <1>1, <1>3, SayKeeps
<1>5. ~SymbolDefined(d, n) => Good(SetSymbol(d, n, "equate", 0))
  BY <1>1, <1>3, SetSymbolKeeps
<1> QED  BY <1>2, <1>4, <1>5

(* The class of a part is looked for before any of the two is made, so the *)
(* symbol of the part is still free unless it is the class itself.         *)
LEMMA NewPartKeeps ==
  ASSUME NEW c, Good(c), NEW class \in Names, NEW part \in Optional, NEW others \in 0 .. 2,
         part # Unnamed => ~SymbolDefined(c, part)
  PROVE  Good(NewPart(c, class, part, others))
<1> DEFINE s == Lowest(Named(c, class))  g == c.sections[s].goff
           here == IF CanSwitch(c.sections[s].kind) THEN Switch(c, s) ELSE c
           d == SetClass(c, class, 0, part # Unnamed)
<1>1. "A170" \in Codes /\ "A171" \in Codes /\ "E031" \in Codes
  BY DEF Codes
<1>2. part # Unnamed => part \in Names
  BY DEF Optional
<1>3. NewPart(c, class, part, others) =
        IF Named(c, class) # {}
        THEN IF ~g.class \/ (part = Unnamed /\ g.partitioned) THEN Say(here, "A170")
             ELSE IF (part # Unnamed /\ ~g.partitioned) \/ others > (IF part = Unnamed THEN 0 ELSE 1)
             THEN Say(here, "A171")
             ELSE IF part = Unnamed THEN here ELSE SetClass(here, part, s, FALSE)
        ELSE IF SymbolDefined(c, class) THEN Say(c, "E031")
        ELSE IF part = Unnamed THEN d ELSE SetClass(d, part, d.cur, FALSE)
  BY DEF NewPart
<1>4. ASSUME Named(c, class) # {}
      PROVE  /\ Good(Say(here, "A170")) /\ Good(Say(here, "A171")) /\ Good(here)
             /\ part # Unnamed => Good(SetClass(here, part, s, FALSE))
  <2>1. Typed(c) /\ Named(c, class) \subseteq DOMAIN c.sections
    BY DEF Good, Named
  <2>2. s \in DOMAIN c.sections
    BY <1>4, <2>1, LowestIn DEF Typed
  <2>3. s \in Nat
    BY <2>1, <2>2, DomainIs DEF Typed
  <2> HIDE DEF s
  <2>4. Good(here) /\ here.symbols = c.symbols
    BY <2>1, <2>2, SwitchKeeps, SwitchIs
  <2> HIDE DEF here
  <2>5. Good(Say(here, "A170")) /\ Good(Say(here, "A171"))
    BY <1>1, <2>4, SayKeeps
  <2>6. part # Unnamed => Good(SetClass(here, part, s, FALSE))
    BY <1>2, <2>3, <2>4, SetClassKeeps DEF SymbolDefined
  <2> QED  BY <2>4, <2>5, <2>6
<1>5. Good(Say(c, "E031"))
  BY <1>1, SayKeeps
<1>6. ASSUME ~SymbolDefined(c, class)
      PROVE  Good(d) /\ (part # Unnamed => Good(SetClass(d, part, d.cur, FALSE)))
  <2>1. (part # Unnamed) \in BOOLEAN /\ 0 \in Nat /\ FALSE \in BOOLEAN
    OBVIOUS
  <2>2. Good(d)
    BY <1>6, <2>1, SetClassKeeps
  <2>3. Typed(c)
    BY DEF Good
  <2> DEFINE t == Len(c.sections) + 1
  <2>4. /\ Typed(d) /\ d.cur = t /\ t \in DOMAIN d.sections /\ d.sections[t].name = class
        /\ \A m \in Names \ {class} : d.symbols[m] = c.symbols[m]
    <3> DEFINE q == part # Unnamed
    <3>1. q \in BOOLEAN /\ d = SetClass(c, class, 0, q)
      OBVIOUS
    <3> HIDE DEF q, d
    <3>2. 0 \in Nat
      OBVIOUS
    <3>3. /\ Typed(d) /\ d.cur = Len(c.sections) + 1 /\ Len(c.sections) + 1 \in DOMAIN d.sections
          /\ d.sections[Len(c.sections) + 1].name = class
          /\ \A m \in Names \ {class} : d.symbols[m] = c.symbols[m]
      BY <2>3, <3>1, <3>2, SetClassIs
    <3> QED  BY <3>3
  <2> HIDE DEF d, t
  <2>5. d.cur \in Nat
    BY <2>4 DEF Typed, ContextSet
  <2>6. ASSUME part # Unnamed PROVE Good(SetClass(d, part, d.cur, FALSE))
    <3>1. CASE part # class
      <4>1. ~SymbolDefined(d, part)
        BY <1>2, <2>4, <2>6, <3>1 DEF SymbolDefined
      <4> QED  BY <1>2, <2>1, <2>2, <2>5, <2>6, <4>1, SetClassKeeps
    <3>2. CASE part = class
      <4>1. d.cur \in DOMAIN d.sections /\ d.sections[d.cur].name = class
        BY <2>4
      <4> QED  BY <2>1, <2>2, <3>2, <4>1, OwnClassKeeps
    <3> QED  BY <3>1, <3>2
  <2> QED  BY <2>2, <2>6 DEF d
<1> HIDE DEF s, g, here, d
<1> QED  BY <1>3, <1>4, <1>5, <1>6

LEMMA CattrKeeps ==
  ASSUME NEW c, Good(c), NEW n \in Optional, NEW part \in Optional, NEW others \in 0 .. 2
  PROVE  Good(Cattr(c, n, part, others))
<1>1. /\ "A167" \in Codes /\ "A169" \in Codes /\ "A170" \in Codes /\ "A171" \in Codes
      /\ "E031" \in Codes /\ "none" \in Codes
  BY DEF Codes
<1>2. Good(Say(c, "A167")) /\ Good(Say(c, "A169")) /\ Good(Say(c, "E031"))
  BY <1>1, SayKeeps
<1>3. ASSUME n # Unnamed PROVE Good(CattrOps(c, n, part, others))
  <2> DEFINE parent == IF Named(c, n) = {} THEN 0 ELSE Lowest(Named(c, n))
             p == Lowest(Named(c, part))
             code == IF ~c.sections[p].goff.class \/ c.sections[p].goff.parent # parent THEN "A170"
                     ELSE IF others = 1 THEN "none" ELSE "A171"
             here == IF CanSwitch(c.sections[p].kind) THEN Switch(c, p) ELSE c
  <2>1. CattrOps(c, n, part, others) =
          IF part # Unnamed /\ Named(c, part) # {} THEN Say(here, code)
          ELSE IF part # Unnamed /\ SymbolDefined(c, part) THEN Say(c, "E031")
          ELSE NewPart(c, n, part, others)
    BY DEF CattrOps
  <2>2. code \in Codes
    BY <1>1
  <2>3. ASSUME Named(c, part) # {} PROVE Good(Say(here, code))
    <3>1. Typed(c) /\ Named(c, part) \subseteq DOMAIN c.sections
      BY DEF Good, Named
    <3>2. p \in DOMAIN c.sections
      BY <2>3, <3>1, LowestIn DEF Typed
    <3> HIDE DEF p
    <3>3. Good(here)
      BY <3>2, SwitchKeeps
    <3> HIDE DEF here, code
    <3> QED  BY <2>2, <3>3, SayKeeps
  <2>4. n \in Names
    BY <1>3 DEF Optional
  <2>5. (part # Unnamed => ~SymbolDefined(c, part)) => Good(NewPart(c, n, part, others))
    BY <2>4, NewPartKeeps
  <2> HIDE DEF here, code
  <2> QED  BY <1>2, <2>1, <2>3, <2>5
<1> QED  BY <1>2, <1>3 DEF Cattr

LEMMA XattrKeeps ==
  ASSUME NEW c, Good(c), NEW n \in Names, NEW p \in Names
  PROVE  Good(Xattr(c, n, p))
<1>1. "A168" \in Codes /\ "A172" \in Codes
  BY DEF Codes
<1>2. Good(Say(c, "A168")) /\ Good(Say(c, "A172"))
  BY <1>1, SayKeeps
<1> DEFINE d == [c EXCEPT !.psects[n] = p]
<1>3. Typed(c) /\ p \in Optional
  BY DEF Good, Optional
<1>4. Typed(d) /\ d.sections = c.sections /\ d.symbols = c.symbols /\ d.cur = c.cur /\ d.first = c.first
  BY <1>3 DEF Typed, ContextSet
<1>5. Good(d)
  BY <1>4, SameKeeps
<1> QED  BY <1>2, <1>5 DEF Xattr

-----------------------------------------------------------------------------
(* The program.                                                            *)

LEMMA BecomeKeeps ==
  ASSUME NEW c, Good(c), Become(c)
  PROVE  Good(Context)'
<1> DEFINE d == [sections |-> sections', symbols |-> symbols', cur |-> cur', first |-> first',
                 control |-> control', started |-> started', psects |-> psects', said |-> "none"]
<1>1. Typed(c) /\ "none" \in Codes
  BY DEF Good, Codes
<1>2. /\ d \in ContextSet /\ d.sections = c.sections /\ d.symbols = c.symbols
      /\ d.cur = c.cur /\ d.first = c.first
  BY <1>1 DEF Become, Typed, ContextSet
<1>3. Typed(d)
  BY <1>1, <1>2 DEF Typed
<1>4. Good(d)
  BY <1>2, <1>3, SameKeeps
<1> QED  BY <1>4 DEF Context

LEMMA InitGood == Init => Good(Context)
<1> SUFFICES ASSUME Init PROVE Good(Context)
  OBVIOUS
<1>1. Context.sections = <<>> /\ DOMAIN Context.sections = {}
  BY DEF Init, Context
<1>2. Typed(Context)
  <2>1. symbols \in [Optional -> [kind : SymbolKinds, base : Nat]]
    BY DEF Init, Undefined, Optional, SymbolKinds
  <2>2. psects \in [Names -> Optional] /\ "none" \in Codes /\ <<>> \in Seq(SectionSet) /\ Len(<<>>) = 0
    BY DEF Init, Optional, Codes
  <2> QED  BY <2>1, <2>2 DEF Init, Context, Typed, ContextSet
<1>3. Told(Context)
  BY <1>1 DEF Told, OneOfName, Counted, Begun
<1> QED  BY <1>2, <1>3 DEF Good

LEMMA FinishKeeps ==
  ASSUME Good(Context), Finish
  PROVE  Good(Context)'
<1>1. CASE first = 0
  <2> DEFINE c == Context  d == Made(c, Unnamed, "CSECT", NoGoff)
  <2>1. Unnamed \in Optional /\ "CSECT" \in Kinds /\ "CSECT" \in Control /\ Typed(c)
    BY DEF Optional, Kinds, Control, Good
  <2>2. Become(d)
    BY <1>1 DEF Finish, Made, Context
  <2>3. c.first = 0
    BY <1>1 DEF Context
  <2> HIDE DEF c
  <2>4. Len(c.sections) + 1 # 0
    BY <2>1, DomainIs DEF Typed
  <2>5. /\ Typed(d) /\ Keeps(c, d) /\ d.sections = Create(c, Unnamed, "CSECT", NoGoff).sections
        /\ d.symbols = c.symbols /\ d.cur # 0 /\ d.first = Create(c, Unnamed, "CSECT", NoGoff).first
    BY <2>1, <2>4, NoGoffIs, MadeIs
  <2>6. Told(c) => Told(d)
    <3> SUFFICES ASSUME Told(c) PROVE Told(d)
      OBVIOUS
    <3>1. NamedOf(c, Unnamed, "CSECT") = {}
      BY <2>1, <2>3 DEF Told, Begun, NamedOf, Named
    <3>2. "section" \in SymbolKinds /\ "section" # "none"
      BY DEF SymbolKinds
    <3> QED  BY <2>1, <2>5, <3>1, <3>2, NoGoffIs, Adding
  <2>7. Good(d)
    BY <2>5, <2>6, OwnStays DEF Good, c
  <2> QED  BY <2>2, <2>7, BecomeKeeps
<1>2. CASE first # 0
  BY <1>2 DEF Finish, Context
<1> QED  BY <1>1, <1>2

LEMMA NextGood ==
  ASSUME Good(Context), [Next]_vars
  PROVE  Good(Context)'
<1> DEFINE C == Context
<1>1. ASSUME NEW n \in Optional, NEW k \in Control \cup {"DSECT"}, Statement(SectStatement(C, n, k))
      PROVE  Good(Context)'
  BY <1>1, SectStatementKeeps, BecomeKeeps DEF Statement
<1>2. ASSUME NEW n \in Optional, Statement(Loctr(C, n))
      PROVE  Good(Context)'
  BY <1>2, LoctrKeeps, BecomeKeeps DEF Statement
<1>3. ASSUME NEW n \in Optional, Statement(Start(C, n))
      PROVE  Good(Context)'
  BY <1>3, StartKeeps, BecomeKeeps DEF Statement
<1>4. ASSUME NEW n \in Optional, NEW k \in External, Statement(Extern(C, n, k))
      PROVE  Good(Context)'
  BY <1>4, ExternKeeps, BecomeKeeps DEF Statement
<1>5. ASSUME NEW n \in Optional, Statement(LabelStatement(C, n))
      PROVE  Good(Context)'
  BY <1>5, LabelStatementKeeps, BecomeKeeps DEF Statement
<1>6. ASSUME NEW n \in Names, Statement(Equate(C, n))
      PROVE  Good(Context)'
  BY <1>6, EquateKeeps, BecomeKeeps DEF Statement
<1>7. ASSUME NEW n \in Optional, NEW others \in 0 .. 2, NEW p \in Parts(n), Statement(Cattr(C, n, p, others))
      PROVE  Good(Context)'
  <2>1. p \in Optional
    BY SectionsAssumption DEF SectionsAssumption, Optional
  <2> QED  BY <1>7, <2>1, CattrKeeps, BecomeKeeps DEF Statement
<1>8. ASSUME NEW n \in Names, NEW p \in Names, Statement(Xattr(C, n, p))
      PROVE  Good(Context)'
  BY <1>8, XattrKeeps, BecomeKeeps DEF Statement
<1>9. CASE Finish
  BY <1>9, FinishKeeps
<1>10. CASE UNCHANGED vars
  BY <1>10 DEF vars, Context
<1> QED  BY <1>1, <1>2, <1>3, <1>4, <1>5, <1>6, <1>7, <1>8, <1>9, <1>10
         DEF Next, StepSect, StepLoctr, StepStart, StepExtern, StepLabel, StepEquate, StepCattr, StepXattr

(* The invariant of the context.                                           *)
THEOREM ContextIsGood == Spec => []Good(Context)
<1>1. Good(Context) /\ [Next]_vars => Good(Context)'
  BY NextGood
<1> QED  BY <1>1, InitGood, PTL DEF Spec

(* A name tells one section and one counter, and its symbol is an address  *)
(* in the section that has the counter, unless a class was made a part of  *)
(* itself (get_section, get_location_counter, set_location_counter and     *)
(* create_and_set_class of ordinary_assembly_context.cpp).                 *)
THEOREM NamesTold == Spec => []NamesAreTold
<1>1. Good(Context) => NamesAreTold
  <2> SUFFICES ASSUME Good(Context) PROVE NamesAreTold
    OBVIOUS
  <2>1. Context.sections = sections /\ Context.symbols = symbols
    BY DEF Context
  <2>2. Own(Context) => OwnPart
    BY <2>1 DEF Own, OwnPart
  <2>3. Told(Context) => NamesAreUnique
    BY <2>1 DEF Told, OneOfName, NamesAreUnique
  <2>4. Told(Context) => CountersAreUnique
    BY <2>1 DEF Told, Counted, CountersAreUnique, CountedBy
  <2> QED  BY <2>2, <2>3, <2>4 DEF Good, NamesAreTold
<1> QED  BY <1>1, ContextIsGood, PTL
=============================================================================
