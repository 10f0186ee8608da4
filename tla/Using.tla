------------------------------- MODULE Using -------------------------------
(***************************************************************************)
(* USING and DROP as context/using.cpp keeps them: statements are only     *)
(* recorded, each with the index of the one before it, as their operands   *)
(* may use symbols that are defined later; hlasm_context keeps the stack   *)
(* of indices (PUSH and POP USING), and an instruction remembers the index *)
(* that was current.  When the program has ended, using_resolve computes   *)
(* the context of each statement from that of its parent, and only then    *)
(* the instructions are checked.                                           *)
(*                                                                         *)
(* The operands of a statement are given by the values they have at the    *)
(* end.  Registers are few and Page is small; the width of offsets is not  *)
(* modelled.                                                               *)
(***************************************************************************)
EXTENDS Integers, Sequences, FiniteSets, SequencesExt

CONSTANTS
  Sect,       \* sections
  Absolute,   \* the owner of an absolute value
  Label,      \* USING labels
  NoLabel,
  Register,   \* registers
  Page,       \* 0x1000: what a register reaches with a short displacement
  MinLong, MaxLong, \* the long displacements
  Statements, \* the USING and DROP statements of programs
  Uses,       \* operands of instructions: an address, and whether the displacement is long
  MaxStatements, MaxPush, MaxPoints \* bounds

UsingAssumption ==
  /\ Register \subseteq Nat /\ 0 \in Register /\ Page \in Nat \ {0}
  /\ MinLong \in Int /\ MaxLong \in Nat /\ MinLong < 0
  /\ Sect \cap Label = {} /\ Absolute \notin Sect \cup Label
  /\ NoLabel \notin Label \cup Sect \cup {Absolute}

-----------------------------------------------------------------------------
(* The bases that USING and DROP establish, as a set, and the translation  *)
(* of an address through them: what context/using.cpp promises, without    *)
(* its arrays of registers, entries and candidates.                        *)

(* An expression after it was evaluated: an address of a section, or an    *)
(* absolute number; qualified with a label or not.                         *)
Address(label, sect, off) == [qualifier |-> label, sect |-> sect, off |-> off]
Failed == Address(NoLabel, NoLabel, 0)  \* neither a number nor one address
Absent == Address(NoLabel, NoLabel, -1) \* the operand is not there
IsRegister(v) == v.sect = Absolute /\ v.off \in Register

(* A base: the register reg holds the address at of sect and is used up to *)
(* end; a dependent USING is preferred to others only up to firm.          *)
Base(id, label, sect, reg, at, end, firm) ==
  [id |-> id, label |-> label, sect |-> sect, reg |-> reg, at |-> at,
   end |-> end, firm |-> firm]

Distance(n) == IF n < 0 THEN -n ELSE n

Nearer(b, c, off) ==
  LET d == Distance(off - b.at)
      e == Distance(off - c.at)
  IN \/ d < e
     \/ d = e /\ b.reg > c.reg
     \/ d = e /\ b.reg = c.reg /\ b.id < c.id

Nearest(bases, off) ==
  CHOOSE b \in bases : \A c \in bases \ {b} : Nearer(b, c, off)

(* The base through which an address is reached, or nearly reached.        *)
Lowest(long) == IF long THEN MinLong ELSE 0
Highest(long) == IF long THEN MaxLong ELSE Page - 1
InReach(b, off, long) ==
  /\ Lowest(long) <= off - b.at /\ off - b.at <= Highest(long)
  /\ long \/ off < b.firm

Of(bases, a, long) ==
  {b \in bases : b.label = a.qualifier /\ b.sect = a.sect}
  \cup (IF a.sect = Absolute /\ Lowest(long) <= a.off /\ a.off <= Highest(long)
          THEN {Base(0, a.qualifier, Absolute, 0, 0, Page, Page)} ELSE {})

Chosen(bases, a, long) ==
  LET mine == Of(bases, a, long)
      reach == {b \in mine : InReach(b, a.off, long)}
      above == {b \in reach : b.at <= a.off}
      before == {b \in mine : b.at <= a.off}
      behind == mine \ before
      p == Nearest(before, a.off)
      n == Nearest(behind, a.off)
  IN IF above # {} THEN Nearest(above, a.off)
     ELSE IF reach # {} THEN Nearest(reach, a.off)
     ELSE IF before = {} THEN n
     ELSE IF behind = {} THEN p
     ELSE IF a.off - p.at <= n.at - a.off THEN p ELSE n

(* A translated address: the register and the displacement; or none, and   *)
(* by how much it was missed (0 when there is no base at all).             *)
NoRegister == -1
Result(reg, disp) == [reg |-> reg, disp |-> disp]

Translate(bases, a, long) ==
  IF Of(bases, a, long) = {} THEN Result(NoRegister, 0)
  ELSE LET b == Chosen(bases, a, long)
           d == a.off - b.at
       IN IF ~long /\ a.off > b.end THEN Result(NoRegister, a.off - b.end + 1)
          ELSE IF d < Lowest(long) THEN Result(NoRegister, d - Lowest(long))
          ELSE IF d > Highest(long) THEN Result(NoRegister, d - Highest(long))
          ELSE Result(b.reg, d)

-----------------------------------------------------------------------------
(* The statements                                                          *)
Length(st) == st.end.off - st.begin.off
HasLength(st) ==
  /\ st.end \notin {Absent, Failed} /\ st.end.sect = st.begin.sect
  /\ st.begin.off < st.end.off
Dependent(st) == Len(st.bases) = 1 /\ st.bases[1].sect \in Sect
Shorter(m, n) == IF m < n THEN m ELSE n

Kept(bases, st) ==
  IF st.label = NoLabel THEN bases ELSE {b \in bases : b.label # st.label}

Ordinary(st, id) ==
  LET end == st.begin.off + IF HasLength(st) THEN Length(st) ELSE Page * Len(st.bases)
  IN {Base(id, st.label, st.begin.sect, st.bases[i].off,
           st.begin.off + Page * (i - 1), end, end) :
        i \in {j \in DOMAIN st.bases : IsRegister(st.bases[j])}}

Through(bases, st, id) ==
  LET a == st.bases[1]
      b == Chosen(bases, a, FALSE)
      d == a.off - b.at
      left == b.end - a.off
      end == st.begin.off + IF HasLength(st) THEN Shorter(Length(st), left) ELSE left
  IN {Base(id, st.label, st.begin.sect, c.reg, st.begin.off - d + (c.at - b.at),
           end, end - d) :
        c \in {x \in bases : x.id = b.id /\ x.at >= b.at}}

Reaches(bases, a) ==
  /\ Of(bases, a, FALSE) # {}
  /\ a.off - Chosen(bases, a, FALSE).at \in 0 .. (Page - 1)

Established(bases, st, id) ==
  IF st.begin = Failed THEN bases
  ELSE IF ~Dependent(st) THEN Kept(bases, st) \cup Ordinary(st, id)
  ELSE IF Reaches(bases, st.bases[1]) THEN Kept(bases, st) \cup Through(bases, st, id)
  ELSE bases

NamesBase(st, b) ==
  \E i \in DOMAIN st.bases :
    \/ st.bases[i].sect \in Label /\ b.label = st.bases[i].sect
    \/ IsRegister(st.bases[i]) /\ b.label = NoLabel /\ b.reg = st.bases[i].off

Dropped(bases, st) == {b \in bases : ~NamesBase(st, b)}

Executed(bases, st, id) ==
  IF st.op = "USING" THEN Established(bases, st, id) ELSE Dropped(bases, st)

-----------------------------------------------------------------------------
VARIABLES
  usings,   \* m_usings: the recorded statements, each with its parent
  contexts, \* the contexts of the entries that are resolved
  active,   \* m_active_usings
  points,   \* postponed instructions: the index that was current
  warned,   \* diagnostics of the resolution
  answer,   \* the last address that was translated
  ended     \* the program has ended

vars == <<usings, contexts, active, points, warned, answer, ended>>

-----------------------------------------------------------------------------
(* using_context::evaluate                                                 *)
Entry(label, owner, offset, length, regs, regOffset) ==
  [label |-> label, owner |-> owner, offset |-> offset, length |-> length,
   regs |-> regs, reg_offset |-> regOffset]

ZeroEntry(label) == Entry(label, Absolute, 0, Page, <<0>>, 0)

(* A register of an entry that maps the section of the address.            *)
Candidate(e, k, i, a, short) ==
  LET dist == (a.off - e.offset) + e.reg_offset
  IN [entry |-> e, place |-> k, reg |-> i, dist |-> dist - Page * (i - 1),
      fits |-> ~short \/ dist < e.length]

OfContext(ctx, a, short) ==
  UNION {{Candidate(ctx[k], k, i, a, short) :
            i \in {j \in DOMAIN ctx[k].regs : ctx[k].regs[j] # NoRegister}} :
           k \in {j \in DOMAIN ctx : ctx[j].label = a.qualifier /\ ctx[j].owner = a.sect}}

Candidates(ctx, a, min, max, short) ==
  (IF a.sect = Absolute /\ min <= a.off /\ a.off <= max
     THEN {[Candidate(ZeroEntry(a.qualifier), 0, 1, a, short) EXCEPT !.fits = TRUE]}
     ELSE {})
  \cup OfContext(ctx, a, short)

RegisterOf(c) == c.entry.regs[c.reg]

(* is_better_candidate, with the order in which the entries are visited.   *)
Better(c, d) ==
  LET m == Distance(c.dist)
      n == Distance(d.dist)
  IN m < n \/ (m = n /\ (RegisterOf(c) > RegisterOf(d)
                          \/ (RegisterOf(c) = RegisterOf(d) /\ c.place < d.place)))

Best(cs) == CHOOSE c \in cs : \A d \in cs \ {c} : Better(c, d)

(* Defect: a base that is nearer, but does not reach, hides one that does. *)
PickNearest(cs, min, max) ==
  LET p == {c \in cs : c.dist >= 0}
  IN IF p # {} THEN Best(p) ELSE Best(cs)

Pick(cs, min, max) ==
  LET positive == {c \in cs : c.dist >= 0}
      negative == cs \ positive
      Valid(c) == min <= c.dist /\ c.dist <= max /\ c.fits
      p == {c \in positive : Valid(c)}
      n == {c \in negative : Valid(c)}
  IN IF p # {} THEN Best(p)
     ELSE IF n # {} THEN Best(n)
     ELSE IF negative = {} THEN Best(positive)
     ELSE IF positive = {} THEN Best(negative)
     ELSE IF Distance(Best(positive).dist) <= Distance(Best(negative).dist)
            THEN Best(positive) ELSE Best(negative)

Mapping(regs, off, length) == [regs |-> regs, reg_offset |-> off, length |-> length]

Left(e, a, short) == IF short THEN e.length - (a.off - e.offset) ELSE 0

RegsFrom(c) == SubSeq(c.entry.regs, c.reg, Len(c.entry.regs))

EvaluateIn(ctx, a, min, max, short) ==
  LET cs == Candidates(ctx, a, min, max, short)
      c == Pick(cs, min, max)
      left == Left(c.entry, a, short)
  IN IF cs = {} THEN Mapping(<<>>, 0, 0)
     ELSE IF c.dist < min THEN Mapping(<<>>, c.dist - min, left)
     ELSE IF c.dist > max THEN Mapping(<<>>, c.dist - max, left)
     ELSE Mapping(RegsFrom(c), c.dist, left)

EvaluateContext(ctx, a, long) ==
  IF long THEN EvaluateIn(ctx, a, MinLong, MaxLong, FALSE)
  ELSE EvaluateIn(ctx, a, 0, Page - 1, TRUE)

(* The context of an index; the null index has none.                       *)
ContextAt(cs, id) == IF id = 0 THEN <<>> ELSE cs[id]

(* using_collection::evaluate: the null index is answered at once          *)
Evaluate(id, a, long) ==
  LET v == EvaluateContext(contexts[id], a, long)
  IN IF id = 0 THEN Result(NoRegister, 0)
     ELSE IF v.length < 0 THEN Result(NoRegister, 1 - v.length)
     ELSE Result(IF v.regs = <<>> THEN NoRegister ELSE v.regs[1], v.reg_offset)

-----------------------------------------------------------------------------
(* using_entry::resolve and compute_context: what a statement makes of the *)
(* context of its parent                                                   *)
DropLabel(ctx, label) == SelectSeq(ctx, LAMBDA e : e.label # label)

Invalidated(e, reg) ==
  IF e.label # NoLabel THEN e
  ELSE [e EXCEPT !.regs = [i \in DOMAIN @ |-> IF @[i] = reg THEN NoRegister ELSE @[i]]]

AllInvalid(e) == \A i \in DOMAIN e.regs : e.regs[i] = NoRegister

DropRegister(ctx, reg) ==
  SelectSeq([k \in DOMAIN ctx |-> Invalidated(ctx[k], reg)], LAMBDA e : ~AllInvalid(e))

DropOne(ctx, v) ==
  IF v.sect \in Label THEN DropLabel(ctx, v.sect)
  ELSE IF IsRegister(v) THEN DropRegister(ctx, v.off)
  ELSE ctx

DropAll(ctx, st) == FoldLeft(DropOne, ctx, st.bases)

(* compute_context_drop found nothing: DROP had no effect                  *)
NoEffect(ctx, v) ==
  \/ v.sect \in Label /\ \A k \in DOMAIN ctx : ctx[k].label # v.sect
  \/ /\ IsRegister(v)
     /\ \A k \in DOMAIN ctx : ctx[k].label = NoLabel => v.off \notin ToSet(ctx[k].regs)

Useless(ctx, st) ==
  {i \in DOMAIN st.bases :
     NoEffect(FoldLeft(DropOne, ctx, SubSeq(st.bases, 1, i - 1)), st.bases[i])}

WithEntry(ctx, e) ==
  Append(IF e.label = NoLabel THEN ctx ELSE DropLabel(ctx, e.label), e)

DependentEntry(st, v) ==
  Entry(st.label, st.begin.sect, st.begin.off,
        IF HasLength(st) THEN Shorter(Length(st), v.length) ELSE v.length,
        v.regs, v.reg_offset)

OrdinaryEntry(st) ==
  Entry(st.label, st.begin.sect, st.begin.off,
        IF HasLength(st) THEN Length(st) ELSE Page * Len(st.bases),
        [i \in DOMAIN st.bases |->
           IF IsRegister(st.bases[i]) THEN st.bases[i].off ELSE NoRegister], 0)

UsingContext(ctx, st) ==
  LET v == EvaluateContext(ctx, st.bases[1], FALSE)
  IN IF st.begin = Failed THEN ctx
     ELSE IF ~Dependent(st) THEN WithEntry(ctx, OrdinaryEntry(st))
     ELSE IF v.regs = <<>> THEN ctx
     ELSE WithEntry(ctx, DependentEntry(st, v))

ComputeContext(ctx, st) ==
  IF st.op = "USING" THEN UsingContext(ctx, st) ELSE DropAll(ctx, st)

(* The diagnostics that tell what became of the context.                   *)
Diagnostics(ctx, st, id) ==
  IF st.op = "DROP" THEN {<<id, "U001", i>> : i \in Useless(ctx, st)}
  ELSE IF st.begin = Failed THEN {<<id, "M113", 0>>}
  ELSE IF Dependent(st) /\ EvaluateContext(ctx, st.bases[1], FALSE).regs = <<>>
    THEN {<<id, "U004", 0>>}
  ELSE {}

-----------------------------------------------------------------------------
NoAnswer == [point |-> 0, address |-> Absent, long |-> FALSE, told |-> Result(NoRegister, 0)]

Init ==
  /\ usings = <<>> /\ contexts = <<>> /\ active = <<0>> /\ points = <<>>
  /\ warned = {} /\ answer = NoAnswer /\ ended = FALSE

Current == active[Len(active)]
SetCurrent(id) == active' = [active EXCEPT ![Len(active)] = id]

Parent == Current

(* using_add and using_remove: the statement is recorded.                  *)
Record(st) ==
  /\ ~ended /\ Len(usings) < MaxStatements
  /\ usings' = Append(usings, [parent |-> Parent, st |-> st])
  /\ SetCurrent(Len(usings) + 1)
  /\ UNCHANGED <<contexts, points, warned, answer, ended>>

RemoveAllBases == SetCurrent(0)

(* DROP without operands                                                   *)
DropEverything ==
  /\ ~ended /\ Current # 0 /\ RemoveAllBases
  /\ UNCHANGED <<usings, contexts, points, warned, answer, ended>>

UsingPush ==
  /\ ~ended /\ Len(active) <= MaxPush
  /\ active' = Append(active, Current)
  /\ UNCHANGED <<usings, contexts, points, warned, answer, ended>>

UsingPop ==
  /\ ~ended /\ Len(active) > 1
  /\ active' = SubSeq(active, 1, Len(active) - 1)
  /\ UNCHANGED <<usings, contexts, points, warned, answer, ended>>

(* A machine instruction: its operands are checked when the program ended. *)
Instruction ==
  /\ ~ended /\ Len(points) < MaxPoints
  /\ points' = Append(points, Current)
  /\ UNCHANGED <<usings, contexts, active, warned, answer, ended>>

EndProgram ==
  /\ ~ended /\ ended' = TRUE
  /\ UNCHANGED <<usings, contexts, active, points, warned, answer>>

(* One turn of resolve_all.                                                *)
Resolve ==
  /\ ended /\ Len(contexts) < Len(usings)
  /\ LET id == Len(contexts) + 1
         ctx == ContextAt(contexts, usings[id].parent)
     IN /\ contexts' = Append(contexts, ComputeContext(ctx, usings[id].st))
        /\ warned' = warned \cup Diagnostics(ctx, usings[id].st, id)
  /\ UNCHANGED <<usings, active, points, answer, ended>>

(* process_postponed_statements: an address of an instruction, in a short  *)
(* or in a long displacement; a behaviour checks one.                      *)
Check(i, a, long) ==
  /\ ended /\ Len(contexts) = Len(usings) /\ answer = NoAnswer
  /\ answer' = [point |-> i, address |-> a, long |-> long, told |-> Evaluate(points[i], a, long)]
  /\ UNCHANGED <<usings, contexts, active, points, warned, ended>>

Next ==
  \/ \E st \in Statements : Record(st)
  \/ DropEverything \/ UsingPush \/ UsingPop \/ Instruction \/ EndProgram \/ Resolve
  \/ \E i \in DOMAIN points, u \in Uses : Check(i, u[1], u[2])

Spec == Init /\ [][Next]_vars

-----------------------------------------------------------------------------
Entries == [label : Label \cup {NoLabel}, owner : Sect \cup {Absolute}, offset : Int,
            length : Int, regs : Seq(Register \cup {NoRegister}), reg_offset : Int]

(* The state has the shape of the program's; every index refers to a       *)
(* statement that is recorded before it, and a context has an entry for    *)
(* each USING at most (using.h, index_t).                                  *)
TypeOK ==
  /\ \A id \in DOMAIN usings : usings[id].parent \in 0 .. id - 1 /\ usings[id].st \in Statements
  /\ \A id \in DOMAIN contexts : contexts[id] \in Seq(Entries) /\ Len(contexts[id]) <= id
  /\ active \in Seq(0 .. Len(usings)) /\ active # <<>>
  /\ points \in Seq(0 .. Len(usings))
  /\ warned \subseteq (DOMAIN usings) \X {"U001", "U004", "M113"} \X Nat
  /\ Len(contexts) <= Len(usings) /\ ended \in BOOLEAN

(* The bases at each index, by the meaning of the statements alone.        *)
BasesOf[id \in Nat] ==
  IF id = 0 THEN {} ELSE Executed(BasesOf[usings[id].parent], usings[id].st, id)

BasesOfAll(ids) == [k \in DOMAIN ids |-> BasesOf[ids[k]]]

(* What an assembler does that executes each statement where it stands,    *)
(* with a stack of the sets of bases.                                      *)
Stack == BasesOfAll(active)
AtPoints == BasesOfAll(points)
Top(s) == s[Len(s)]

MeantStatement ==
  /\ Len(usings') = Len(usings) + 1
  /\ Stack' = [Stack EXCEPT ![Len(active)] = Executed(Top(Stack), Top(usings').st, Len(usings'))]
  /\ UNCHANGED <<AtPoints, answer>>
MeantDrop ==
  /\ Stack' = [Stack EXCEPT ![Len(active)] = {}]
  /\ UNCHANGED <<usings, AtPoints, answer>>
MeantPush == Stack' = Append(Stack, Top(Stack)) /\ UNCHANGED <<usings, AtPoints, answer>>
MeantPop ==
  /\ Len(active) > 1 /\ Stack' = SubSeq(Stack, 1, Len(active) - 1)
  /\ UNCHANGED <<usings, AtPoints, answer>>
MeantInstruction ==
  AtPoints' = Append(AtPoints, Top(Stack)) /\ UNCHANGED <<usings, Stack, answer>>
MeantCheck ==
  /\ answer'.point \in DOMAIN points
  /\ answer'.told = IF points[answer'.point] = 0 THEN Result(NoRegister, 0)
                    ELSE Translate(AtPoints[answer'.point], answer'.address, answer'.long)
  /\ UNCHANGED <<usings, Stack, AtPoints>>
Unseen == UNCHANGED <<usings, Stack, AtPoints, answer>>

(* Recording the statements and resolving them at the end, with arrays of  *)
(* registers and entries, gives every instruction the translation that an  *)
(* assembler gives which executes each USING and DROP where it stands      *)
(* (hlasm_context.cpp 1029-1070, using.cpp resolve_all). Where no USING is *)
(* in force because none came yet, or DROP has ended them all, no address  *)
(* is translated, not even an absolute one, which register 0 serves        *)
(* everywhere else (using.cpp 427-428).                                    *)
AtOnce ==
  \/ MeantStatement \/ MeantDrop \/ MeantPush \/ MeantPop \/ MeantInstruction \/ MeantCheck \/ Unseen

(* What the registers hold, by the statements alone, whatever is dropped:  *)
(* register reg holds the address of sect at delta.                        *)
Held[id \in Nat] ==
  IF id = 0 THEN {[label |-> l, sect |-> Absolute, delta |-> 0, reg |-> 0] : l \in Label \cup {NoLabel}}
  ELSE LET st == usings[id].st
           old == Held[usings[id].parent]
       IN old \cup
          (IF st.op # "USING" THEN {}
           ELSE IF Dependent(st)
             THEN {[label |-> st.label, sect |-> st.begin.sect,
                    delta |-> st.begin.off - (st.bases[1].off - f.delta), reg |-> f.reg] :
                     f \in {x \in old : x.label = st.bases[1].qualifier /\ x.sect = st.bases[1].sect}}
             ELSE {[label |-> st.label, sect |-> st.begin.sect,
                    delta |-> st.begin.off + Page * (i - 1), reg |-> st.bases[i].off] :
                     i \in {j \in DOMAIN st.bases : IsRegister(st.bases[j])}})

(* The register and the displacement that an instruction gets lead to its  *)
(* operand, through any chain of dependent USINGs, and the displacement    *)
(* fits in the instruction (using.cpp evaluate).                           *)
LeadsToOperand ==
  answer.told.reg # NoRegister =>
    /\ Lowest(answer.long) <= answer.told.disp /\ answer.told.disp <= Highest(answer.long)
    /\ \E f \in Held[points[answer.point]] :
         /\ f.reg = answer.told.reg /\ f.label = answer.address.qualifier
         /\ f.sect = answer.address.sect
         /\ answer.address.off - f.delta = answer.told.disp

(* The statements that lead to an index, the last one first.               *)
Path[id \in Nat] == IF id = 0 THEN <<>> ELSE <<id>> \o Path[usings[id].parent]

GivesRegister(st, reg) ==
  /\ st.op = "USING" /\ st.label = NoLabel
  /\ Dependent(st) \/ \E i \in DOMAIN st.bases : IsRegister(st.bases[i]) /\ st.bases[i].off = reg

Drops(st, reg) ==
  st.op = "DROP" /\ \E i \in DOMAIN st.bases : IsRegister(st.bases[i]) /\ st.bases[i].off = reg

(* A register that was dropped serves no address without a label before    *)
(* another USING gives it again, whatever PUSH and POP were in between     *)
(* (using.cpp compute_context_drop); register 0 of absolute addresses is   *)
(* there without a USING.                                                  *)
DroppedStaysDropped ==
  (answer.told.reg # NoRegister /\ answer.address.qualifier = NoLabel
     /\ answer.address.sect # Absolute) =>
    LET path == Path[points[answer.point]]
    IN \E k \in DOMAIN path :
         /\ GivesRegister(usings[path[k]].st, answer.told.reg)
         /\ \A j \in 1 .. k - 1 : ~Drops(usings[path[j]].st, answer.told.reg)

(* An operand of DROP is warned about exactly if dropping it takes no      *)
(* base away (using.cpp compute_context_correction).                       *)
WarnedIfUseless ==
  \A id \in DOMAIN contexts :
    usings[id].st.op = "DROP" =>
      \A i \in DOMAIN usings[id].st.bases :
        LET st == usings[id].st
            Upto(n) == Dropped(BasesOf[usings[id].parent], [st EXCEPT !.bases = SubSeq(@, 1, n)])
            v == st.bases[i]
        IN (v.sect \in Label \/ IsRegister(v)) =>
             (<<id, "U001", i>> \in warned <=> Upto(i) = Upto(i - 1))
=============================================================================
