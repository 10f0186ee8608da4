------------------------------ MODULE Sections ------------------------------
(****************************************************************************)
(* The sections of the program: the names that CSECT, RSECT, DSECT, COM,     *)
(* START, LOCTR, EXTRN, WXTRN, DXD, CATTR and XATTR make or switch to        *)
(* (process_sect, process_LOCTR, process_START, process_external,            *)
(* process_DXD, handle_cattr_ops and process_XATTR of asm_processor.cpp, the *)
(* section half of ordinary_assembly_context.cpp, section.cpp and            *)
(* register_psect, validate_psect_registrations of hlasm_context.cpp).       *)
(*                                                                           *)
(* A section is found by name, or by name and kind, or through the location  *)
(* counters it has; every section starts with a counter of its own name.     *)
(* The names share one table with the labels of the program.  A class        *)
(* (CATTR) remembers the control section it belongs to and, when it is a     *)
(* part, the class it is a part of.  How counters are laid out is the        *)
(* business of LocationCounter.                                              *)
(****************************************************************************)
EXTENDS Integers, Sequences, FiniteSets, SequencesExt

CONSTANTS
    Names,               \* the names of the program
    Ops,                 \* the operations of this instance
    Unnamed,             \* the empty name
    Parts(_),            \* Parts(c): what a CATTR for the class c names as its part
    MaxSections          \* bound: sections

VARIABLES
    sections,            \* sections_: in the order they were created
    symbols,             \* symbols_: what a name stands for
    cur,                 \* curr_section_, 0 when there is none
    first,               \* first_control_section_
    control,             \* last_active_control_section
    started,             \* the section of a START that was accepted
    psects,              \* psect_registrations
    said,                \* the diagnostic of the last statement
    bad                  \* the diagnostics of the end of the program

ASSUME SectionsAssumption ==
    Unnamed \notin Names /\ \A n \in Names \cup {Unnamed} : Parts(n) \subseteq Names \cup {Unnamed}

vars == <<sections, symbols, cur, first, control, started, psects, said, bad>>

----------------------------------------------------------------------------
(* Sections, counters and symbols.  The functions take and return the state  *)
(* of the context as a record c, as the methods take and change *this.       *)

External  == {"EXTRN", "WXTRN", "DXD"}
Control   == {"CSECT", "RSECT", "COM"}
NoGoff    == [class |-> FALSE, owner |-> 0, parent |-> 0, partitioned |-> FALSE]
Section(n, k, g) == [name |-> n, kind |-> k, goff |-> g, counters |-> <<n>>, current |-> n]
Undefined == [kind |-> "none", base |-> 0]

Context == [sections |-> sections, symbols |-> symbols, cur |-> cur, first |-> first, control |-> control,
            started |-> started, psects |-> psects, said |-> "none"]
Become(c) ==
    /\ sections' = c.sections
    /\ symbols' = c.symbols
    /\ cur' = c.cur
    /\ first' = c.first
    /\ control' = c.control
    /\ started' = c.started
    /\ psects' = c.psects
    /\ said' = c.said

(* set_section(section&) *)
Switch(c, s) ==
    [c EXCEPT !.cur = s,
              !.control = IF c.sections[s].kind = "DSECT" THEN @
                          ELSE IF c.sections[s].goff.class THEN c.sections[s].goff.owner ELSE s]
(* create_section *)
Create(c, n, k, g) ==
    [c EXCEPT !.sections = Append(@, Section(n, k, g)),
              !.first = IF @ = 0 /\ k \in Control THEN Len(c.sections) + 1 ELSE @]
(* create_private_section through ensure_current_section *)
Ensured(c) ==
    IF c.cur # 0 THEN c
    ELSE Switch(Create(c, Unnamed, "CSECT", NoGoff), Len(c.sections) + 1)

SymbolDefined(c, n) == c.symbols[n].kind # "none"
Named(c, n)         == {s \in DOMAIN c.sections : c.sections[s].name = n}
NamedOf(c, n, k)    == {s \in Named(c, n) : c.sections[s].kind = k}
CountedBy(c, n)     == {s \in DOMAIN c.sections : n \in ToSet(c.sections[s].counters)}
Lowest(S)           == CHOOSE s \in S : \A t \in S : s <= t
SetSymbol(c, n, kind, base) == [c EXCEPT !.symbols[n] = [kind |-> kind, base |-> base]]
Say(c, code)        == [c EXCEPT !.said = code]

(* set_section(name, kind) *)
SetSection(c, n, k) ==
    IF NamedOf(c, n, k) # {} THEN Switch(c, Lowest(NamedOf(c, n, k)))
    ELSE LET t == Len(c.sections) + 1
             d == Switch(Create(c, n, k, NoGoff), t)
         IN  IF n = Unnamed THEN d ELSE SetSymbol(d, n, "section", t)

(* create_external_section *)
CreateExternal(c, n, k) ==
    SetSymbol(Create(c, n, k, NoGoff), n, IF k = "DXD" THEN "section" ELSE "external", Len(c.sections) + 1)

(* create_and_set_class *)
SetClass(c, n, base, partitioned) ==
    LET t == Len(c.sections) + 1
        g == [class |-> TRUE, owner |-> c.control, parent |-> base, partitioned |-> partitioned]
    IN  SetSymbol(Switch(Create(c, n, "CSECT", g), t), n, "section", t)

----------------------------------------------------------------------------
(* The statements *)

(* process_sect *)
SectStatement(c, n, k) ==
    IF \/ n # Unnamed /\ SymbolDefined(c, n) /\ NamedOf(c, n, k) = {}
       \/ n = Unnamed /\ k # "DSECT" /\ \E j \in Control \ {k} : NamedOf(c, n, j) # {}
    THEN Say(c, "E031")
    ELSE SetSection(c, n, k)

(* set_location_counter *)
(* Defect: the counter is looked for in the current section only. *)
SetCounterHere(c, n) ==
    LET d == Ensured(c)
        e == [d EXCEPT !.sections[d.cur].current = n,
                       !.sections[d.cur].counters = IF n \in ToSet(@) THEN @ ELSE Append(@, n)]
    IN  SetSymbol(e, n, "section", d.cur)
SetCounter(c, n) ==
    LET d == Ensured(c)
    IN  IF CountedBy(d, n) # {}
        THEN LET s == Lowest(CountedBy(d, n)) IN [Switch(d, s) EXCEPT !.sections[s].current = n]
        ELSE SetSymbol([d EXCEPT !.sections[d.cur].current = n, !.sections[d.cur].counters = Append(@, n)],
                       n, "section", d.cur)

(* process_LOCTR: the look for the counter starts the private section, and   *)
(* a statement without a name goes on after it was reported.                 *)
Loctr(c, n) ==
    LET d == IF SymbolDefined(c, n) THEN Ensured(c) ELSE c
    IN  IF SymbolDefined(c, n) /\ CountedBy(d, n) = {} THEN Say(d, "E031")
        ELSE Say(SetCounter(d, n), IF n = Unnamed THEN "E053" ELSE "none")

(* process_START *)
Start(c, n) ==
    IF \E s \in DOMAIN c.sections : c.sections[s].kind \in {"CSECT", "RSECT"} THEN Say(c, "E073")
    ELSE IF SymbolDefined(c, n) THEN Say(c, "E031")
    ELSE LET d == SetSection(c, n, "CSECT") IN [d EXCEPT !.started = d.cur]

(* process_DXD and one operand of process_external *)
Extern(c, n, k) ==
    IF n = Unnamed THEN Say(c, "E053")
    ELSE IF SymbolDefined(c, n) THEN Say(c, "E031")
    ELSE CreateExternal(c, n, k)

(* a statement that reserves storage, with or without a label *)
LabelStatement(c, n) ==
    LET d == Ensured(c)
    IN  IF n = Unnamed THEN d
        ELSE IF SymbolDefined(d, n) THEN Say(d, "E031") ELSE SetSymbol(d, n, "label", d.cur)
(* EQU, which asks for the location counter before anything else *)
Equate(c, n) ==
    LET d == Ensured(c)
    IN  IF SymbolDefined(d, n) THEN Say(d, "E031") ELSE SetSymbol(d, n, "equate", 0)

CanSwitch(k) == k \notin External
(* the second half of handle_cattr_ops: no section has the name of the part  *)
NewPart(c, class, part, others) ==
    LET found == Named(c, class) # {}
        s     == Lowest(Named(c, class))
        here  == IF CanSwitch(c.sections[s].kind) THEN Switch(c, s) ELSE c
        g     == c.sections[s].goff
        d     == SetClass(c, class, 0, part # Unnamed)
    IN  IF found
        THEN IF ~g.class \/ (part = Unnamed /\ g.partitioned) THEN Say(here, "A170")
             ELSE IF (part # Unnamed /\ ~g.partitioned) \/ others > (IF part = Unnamed THEN 0 ELSE 1)
             THEN Say(here, "A171")
             ELSE IF part = Unnamed THEN here ELSE SetClass(here, part, s, FALSE)
        ELSE IF SymbolDefined(c, class) THEN Say(c, "E031")
        ELSE IF part = Unnamed THEN d ELSE SetClass(d, part, d.cur, FALSE)
(* handle_cattr_ops; others: how many operands there are besides PART *)
CattrOps(c, class, part, others) ==
    LET parent == IF Named(c, class) = {} THEN 0 ELSE Lowest(Named(c, class))
        p      == Lowest(Named(c, part))
        code   == IF ~c.sections[p].goff.class \/ c.sections[p].goff.parent # parent THEN "A170"
                  ELSE IF others = 1 THEN "none" ELSE "A171"
    IN  IF part # Unnamed /\ Named(c, part) # {}
        THEN Say(IF CanSwitch(c.sections[p].kind) THEN Switch(c, p) ELSE c, code)
        ELSE IF part # Unnamed /\ SymbolDefined(c, part) THEN Say(c, "E031")
        ELSE NewPart(c, class, part, others)
(* process_CATTR with GOFF *)
Cattr(c, class, part, others) ==
    IF class = Unnamed THEN Say(c, "A167")
    ELSE IF c.control = 0 THEN Say(c, "A169")
    ELSE CattrOps(c, class, part, others)

(* process_XATTR and register_psect: the first registration stays *)
Xattr(c, n, p) ==
    IF n = Unnamed THEN Say(c, "A168")
    ELSE IF c.psects[n] # Unnamed THEN Say(c, "A172")
    ELSE [c EXCEPT !.psects[n] = p]

----------------------------------------------------------------------------
Init ==
    /\ sections = <<>>
    /\ symbols = [n \in Names \cup {Unnamed} |-> Undefined]
    /\ cur = 0 /\ first = 0 /\ control = 0 /\ started = 0
    /\ psects = [n \in Names |-> Unnamed]
    /\ said = "none"
    /\ bad = {}

Statement(c) ==
    /\ bad = {}
    /\ Become(c)
    /\ Len(sections') <= MaxSections
    /\ UNCHANGED bad
Optional == Names \cup {Unnamed}

StepSect   == "sect" \in Ops /\ \E n \in Optional, k \in Control \cup {"DSECT"} : Statement(SectStatement(Context, n, k))
StepLoctr  == "loctr" \in Ops /\ \E n \in Optional : Statement(Loctr(Context, n))
StepStart  == "start" \in Ops /\ \E n \in Optional : Statement(Start(Context, n))
StepExtern == "extern" \in Ops /\ \E n \in Optional, k \in External : (n # Unnamed \/ k = "DXD") /\ Statement(Extern(Context, n, k))
StepLabel  == "label" \in Ops /\ \E n \in Optional : Statement(LabelStatement(Context, n))
StepEquate == "equate" \in Ops /\ \E n \in Names : Statement(Equate(Context, n))
StepCattr  == "cattr" \in Ops /\ \E n \in Optional, others \in 0 .. 2 :
                  \E p \in Parts(n) : Statement(Cattr(Context, n, p, others))
StepXattr  == "xattr" \in Ops /\ \E n \in Names, p \in Names : Statement(Xattr(Context, n, p))

(* implicit_ltorg_target and validate_psect_registrations *)
Sound(s) == sections[s].kind \in {"CSECT", "RSECT"}
Psect(p) ==
    LET here == Named(Context, p)
        s    == IF here # {} THEN Lowest(here)
                ELSE IF symbols[p].kind = "equate" THEN 0 ELSE symbols[p].base
    IN  IF here = {} /\ symbols[p].kind = "none" THEN "E032"
        ELSE IF s = 0 THEN "A173"
        ELSE IF Sound(s) THEN "none" ELSE "A173"
Finish ==
    /\ bad = {}
    /\ bad' = {"end"} \cup ({Psect(psects[n]) : n \in {m \in Names : psects[m] # Unnamed}} \ {"none"})
    /\ IF first = 0 THEN Become(Switch(Create(Context, Unnamed, "CSECT", NoGoff), Len(sections) + 1))
       ELSE UNCHANGED <<sections, symbols, cur, first, control, started, psects, said>>

Next == \/ StepSect \/ StepLoctr \/ StepStart \/ StepExtern
        \/ StepLabel \/ StepEquate \/ StepCattr \/ StepXattr \/ Finish
Spec == Init /\ [][Next]_vars

----------------------------------------------------------------------------
(* Properties *)

(* get_section takes the first section of a name: a name has one section     *)
(* (the assertion of create_and_set_class).  The unnamed sections are told   *)
(* apart by their kind.                                                      *)
NamesAreUnique ==
    \A s, t \in DOMAIN sections :
        sections[s].name = sections[t].name /\ s # t
        => sections[s].name = Unnamed /\ sections[s].kind # sections[t].kind

(* Unnamed code is executable, read-only or common, one of them: whatever    *)
(* statement begins it, the private section is one.  A START without a name  *)
(* is left out, which does not look for an unnamed COM.                      *)
OnePrivateSection ==
    (started # 0 => sections[started].name # Unnamed) =>
    Cardinality({s \in DOMAIN sections : sections[s].name = Unnamed /\ sections[s].kind \in Control}) <= 1

(* LOCTR resumes the counter it finds under a name, whatever section has it: *)
(* no two sections have a counter of the same name, and the symbol of that   *)
(* name is an address in the section that has it.                            *)
CountersAreUnique ==
    \A n \in Names : \A s \in CountedBy(Context, n) : symbols[n].kind # "none" /\ symbols[n].base = s

(* A part with the name of its class becomes a second section of that name:  *)
(* create_and_set_class asserts that there is none, and nobody looks before. *)
OwnPart ==
    \E s, t \in DOMAIN sections : s # t /\ sections[s].goff.parent = t /\ sections[s].name = sections[t].name

(* Whatever is declared in whatever order, a name tells its section, its     *)
(* counter and the section of its counter (get_section, get_location_counter *)
(* and set_location_counter of ordinary_assembly_context.cpp all search),    *)
(* unless a class was made a part of itself.                                 *)
NamesAreTold == OwnPart \/ (NamesAreUnique /\ CountersAreUnique)

(* A part is in a class that was made for parts, a class is in no other, and *)
(* both belong to a section that is no class itself.  The owner is taken     *)
(* from whatever was active before; the owner of the owner has to be         *)
(* followed.                                                                 *)
ClassesAreTwoLevels ==
    \A s \in DOMAIN sections :
        LET g == sections[s].goff
        IN  g.class => /\ g.owner # 0 /\ ~sections[g.owner].goff.class
                       /\ g.parent # 0 => /\ ~g.partitioned
                                          /\ sections[g.parent].goff.class
                                          /\ sections[g.parent].goff.partitioned
                                          /\ sections[g.parent].goff.parent = 0
                                          /\ sections[g.parent].goff.owner = g.owner
(* Every class that was made for parts has one. *)
PartitionedHasPart ==
    \A s \in DOMAIN sections :
        sections[s].goff.partitioned => \E t \in DOMAIN sections : sections[t].goff.parent = s

(* START begins the first executable section of the program. *)
StartIsFirst ==
    started # 0 => \A s \in 1 .. (started - 1) : sections[s].kind \notin {"CSECT", "RSECT"}

(* The literals that are left at the end go to the first control section,    *)
(* which exists by then and is no class, unless the class belongs to an      *)
(* external symbol: LOCTR makes that current when it has its name.           *)
LiteralsHaveHome ==
    bad # {} => LET g == sections[first].goff
                IN  /\ first # 0 /\ sections[first].kind \in Control
                    /\ g.class => sections[g.owner].kind \in External

(* The PSECT of an element is looked up when all is read, long after it was  *)
(* registered: a program that ends without complaint has in every            *)
(* registration the name of a section of code or of a label inside of one.   *)
PsectsAreCode ==
    bad = {"end"} =>
    \A n \in Names : psects[n] # Unnamed =>
        LET y == symbols[psects[n]]
        IN  y.kind \in {"section", "label"} /\ sections[y.base].kind \in {"CSECT", "RSECT"}
=============================================================================
