--------------------------- MODULE LocationCounter ---------------------------
(***************************************************************************)
(* The location counters of one section (location_counter.cpp,             *)
(* location_counter_data.cpp, address.cpp, address_resolver.cpp): DS, ORG  *)
(* and LOCTR while an absolute symbol K is not defined yet, the spaces     *)
(* that stand for the lengths that are not known, and their resolution at  *)
(* the end (ordinary_processor.cpp, end_processing).                       *)
(*                                                                         *)
(* Each statement has a label. A space is the target of a dependency, and  *)
(* such a target is resolved at the end only (resolve_loop with diags), so *)
(* K may as well be defined by the last statement. ORG has no negative     *)
(* operand and refers to the counter it is in: nothing underflows, and no  *)
(* dependency is a cycle.                                                  *)
(***************************************************************************)
EXTENDS Integers, FiniteSets, SequencesExt

CONSTANTS
  Counter,    \* names of location counters
  First,      \* the one that starts the section
  Operations, \* the statements that may be written
  Value,      \* values of K
  Targets,    \* ORG refers to these of the statements
  MaxLength   \* bound: statements

CounterAssumption ==
  /\ First \in Counter /\ Value \subseteq Nat /\ MaxLength \in Nat /\ Targets \subseteq Nat

(* Statements: n bytes aligned to a, K units of a bytes, ORG to the label  *)
(* of statement t, with or without K, ORG without operand, LOCTR.          *)
Ds(n, a) == [op |-> "DS", n |-> n, a |-> a]
DsK(a) == [op |-> "DSK", a |-> a]
Org(t, b, o) == [op |-> "ORG", t |-> t, b |-> b, o |-> o]
OrgK(t, b, o) == [op |-> "ORGK", t |-> t, b |-> b, o |-> o]
OrgMax == [op |-> "ORGMAX"]
Loctr(c) == [op |-> "LOCTR", c |-> c]

VARIABLES
  value,    \* the value K will have
  program,  \* history: the statements and the counters they were in
  labels,   \* symbols_: the addresses of the statements
  counters, \* location_counters of the section, in their order
  current,  \* curr_loctr_
  data,     \* org_data_ of each counter
  spaces,   \* the spaces, by the order in which they were made
  pending,  \* m_dependencies_iterators: the spaces with a dependency
  batch,    \* it and e of resolve_loop: what is between is being resolved
  phase,    \* "read", or the index of the counter whose layout is next
  last      \* last_offset of finish_module_layout

vars == <<value, program, labels, counters, current, data, spaces, pending, batch, phase, last>>

-----------------------------------------------------------------------------
(* Addresses: an offset and spaces, each with its count.                   *)
Address(off, sp) == [off |-> off, sp |-> sp]
NoSpaces == [sp |-> <<>>, off |-> 0]

(* get_unresolved_spaces: spaces that are resolved are replaced by their   *)
(* length and by the spaces they stand for.                                *)
Merged(acc, s, n) ==
  LET at == {i \in DOMAIN acc.sp : acc.sp[i][1] = s}
  IN  IF at = {} THEN [acc EXCEPT !.sp = Append(@, <<s, n>>)]
      ELSE [acc EXCEPT !.sp[CHOOSE i \in at : TRUE][2] = @ + n]

RECURSIVE Unresolved(_, _, _, _)
Unresolved(ss, list, factor, acc) ==
  FoldLeft(LAMBDA b, e :
             IF ss[e[1]].resolved
             THEN Unresolved(ss, ss[e[1]].ptrs, factor * e[2],
                             [b EXCEPT !.off = @ + factor * e[2] * ss[e[1]].length])
             ELSE Merged(b, e[1], factor * e[2]),
           acc, list)

Cleaned(r) == [r EXCEPT !.sp = SelectSeq(@, LAMBDA e : e[2] # 0)]
Normal(ss, list) == Cleaned(Unresolved(ss, list, 1, NoSpaces))

Offset(ss, a) == a.off + Normal(ss, a.sp).off

Minus(ss, a, b) ==
  LET r == Cleaned(Unresolved(ss, b.sp, -1, Unresolved(ss, a.sp, 1, NoSpaces)))
  IN  Address(a.off - b.off + r.off, r.sp)

-----------------------------------------------------------------------------
(* location_counter_data: bytes and spaces, in their order; history: the   *)
(* bytes that are in the parts, but not in the storage.                    *)
Fresh(kind) == [storage |-> 0, initial |-> 0, parts |-> <<>>, safe |-> 0, kind |-> kind, lost |-> 0]

WithSpace(d, s) ==
  [d EXCEPT !.parts = Append(@, [sp |-> s, after |-> 0]), !.safe = 0, !.kind = "potential"]

Grown(d, n) ==
  LET e == [d EXCEPT !.storage = @ + n, !.safe = @ + n]
  IN  IF d.parts = <<>> THEN [e EXCEPT !.initial = @ + n]
      ELSE [e EXCEPT !.parts[Len(d.parts)].after = @ + n]

AddressOf(d) == Address(d.storage, [i \in DOMAIN d.parts |-> <<d.parts[i].sp, 1>>])
FirstSpace(d) == IF d.parts = <<>> THEN 0 ELSE d.parts[1].sp

(* resolve_space                                                           *)
Without(d, s, n) ==
  IF \A i \in DOMAIN d.parts : d.parts[i].sp # s THEN d
  ELSE LET i == CHOOSE i \in DOMAIN d.parts : d.parts[i].sp = s
           more == d.parts[i].after + n
           e == [d EXCEPT !.storage = @ + n]
       IN  IF i = 1 THEN [e EXCEPT !.initial = @ + more, !.parts = Tail(@)]
           ELSE [e EXCEPT !.parts = RemoveAt([@ EXCEPT ![i - 1].after = @ + more], i)]

(* append_data: the bytes after the first space are stored, those after    *)
(* the others are not.                                                     *)
BytesOf(parts) == FoldLeft(LAMBDA n, p : n + p.after, 0, parts)
Joined(d, e) ==
  LET g == Grown(d, e.parts[1].after)
  IN  [g EXCEPT !.parts = @ \o Tail(e.parts), !.safe = e.safe,
                !.lost = @ + e.lost + BytesOf(Tail(e.parts))]

-----------------------------------------------------------------------------
(* What the operations change: the data of a counter and the spaces.       *)
Work(ds, ss) == [ds |-> ds, ss |-> ss]
Top(w) == Last(w.ds)
WithTop(w, d) == [w EXCEPT !.ds[Len(w.ds)] = d]

(* A space and the dependency that resolves it.                            *)
Space(kind, align, c, by) ==
  [kind |-> kind, align |-> align, owner |-> c, by |-> by,
   resolved |-> FALSE, length |-> 0, ptrs |-> <<>>]

Register(w, s) ==
  LET v == [w EXCEPT !.ss = Append(@, s)] IN WithTop(v, WithSpace(Top(v), Len(v.ss)))

(* check_available_value: data that is the highest again replaces the one  *)
(* before it.                                                              *)
Checked(w) ==
  LET n == Len(w.ds)
  IN  IF Top(w).kind = "unknown" /\ w.ds[n - 1].storage <= Top(w).storage
      THEN [w EXCEPT !.ds = RemoveAt([@ EXCEPT ![n].kind = w.ds[n - 1].kind], n - 1)]
      ELSE w

Aligned(n, a) == IF n % a = 0 THEN n ELSE n + a - (n % a)

NeedsSpace(w, a) ==
  Top(w).parts # <<>> /\ w.ss[Last(Top(w).parts).sp].align < a
LastStorage(d) == IF d.parts = <<>> THEN d.initial ELSE Last(d.parts).after
HasAlignment(w, a) ==
  IF Top(w).parts = <<>> THEN Top(w).storage % a = 0
  ELSE w.ss[Last(Top(w).parts).sp].align >= a
       /\ (w.ss[Last(Top(w).parts).sp].align + Last(Top(w).parts).after) % a = 0

(* current_address_for_alignment_evaluation: what follows the last space   *)
(* that is aligned enough.                                                 *)
ForAlignment(w, a) ==
  LET ps == Top(w).parts
      enough == {i \in DOMAIN ps : w.ss[ps[i].sp].align >= a}
      from == CHOOSE i \in enough : \A j \in enough : j <= i
      rest == SubSeq(ps, from + 1, Len(ps))
  IN  IF enough = {} THEN AddressOf(Top(w))
      ELSE Address(FoldLeft(LAMBDA n, p : n + p.after, ps[from].after, rest),
                   [i \in DOMAIN rest |-> <<rest[i].sp, 1>>])

(* reserve_storage_area_space                                              *)
Reserved(w, c, n, a) ==
  LET v == IF NeedsSpace(w, a)
           THEN Register(w, Space("ALIGNMENT", a, c, [r |-> "align", of |-> ForAlignment(w, a)]))
           ELSE IF HasAlignment(w, a) THEN w
           ELSE WithTop(w, Grown(Top(w), Aligned(LastStorage(Top(w)), a) - LastStorage(Top(w))))
  IN  Checked(WithTop(v, Grown(Top(v), n)))

(* set_location_counter_value_space: ORG within the bytes after the last   *)
(* space moves the counter, any other ORG is a space.                      *)
Unit(b) == IF b = 0 THEN 1 ELSE b

(* Defect: the spaces between the two addresses are not looked at.         *)
SafeOffset(diff, safe, b, o) == diff.off <= safe /\ (b # 0 => diff.off <= safe + o)

Safe(diff, safe, b, o) ==
  diff.sp = <<>> /\ diff.off <= safe /\ (b # 0 => diff.off <= safe + o)

SetValue(w, c, addr, b, o) ==
  LET now == AddressOf(Top(w))
      diff == Minus(w.ss, now, addr)
      v == IF diff.off > 0 /\ Top(w).kind = "potential"
           THEN [w EXCEPT !.ds = Append(@, [Top(w) EXCEPT !.kind = "unknown"])] ELSE w
  IN  IF Safe(diff, Top(w).safe, b, o)
      THEN Reserved(Checked(WithTop(v, Grown(Top(v), -diff.off))), c, o, Unit(b))
      ELSE Register([w EXCEPT !.ds = Append(@, Fresh("unknown"))],
                    Space("LOCTR_SET", 1, c, [r |-> "set", now |-> now, to |-> addr, b |-> b, o |-> o]))

SetUndefined(w, c, addr, b, o) ==
  Register([w EXCEPT !.ds = Append(@, Fresh("unknown"))],
           Space("LOCTR_UNKNOWN", 1, c, [r |-> "unknown", to |-> addr, b |-> b, o |-> o]))

(* pseudo_relative_spaces: relative to the start of a counter that does    *)
(* not start the section.                                                  *)
Relative(w, start, d) ==
  LET a == AddressOf(d)
  IN  CASE start = 0 -> a
        [] start # 0 /\ w.ss[FirstSpace(d)].kind = "LOCTR_BEGIN" -> [a EXCEPT !.sp = Tail(@)]
        [] start # 0 /\ w.ss[FirstSpace(d)].kind \in {"LOCTR_SET", "LOCTR_UNKNOWN"} ->
             [a EXCEPT !.sp = Append(@, <<start, -1>>)]
        [] OTHER -> a

SetAvailable(w, c) ==
  LET n == Len(w.ds)
      lower == Top(w).kind = "unknown" /\ w.ds[n - 1].storage >= Top(w).storage
      v == IF lower THEN [w EXCEPT !.ds = Front(@)] ELSE w
      start == IF c = First THEN 0 ELSE FirstSpace(v.ds[1])
      addrs == [i \in DOMAIN v.ds |-> Relative(v, start, v.ds[i])]
      u == [v EXCEPT !.ds = Append(@, Fresh("potential"))]
      t == IF start = 0 THEN u ELSE WithTop(u, WithSpace(Top(u), start))
  IN  IF Len(v.ds) = 1 /\ Len(v.ds[1].parts) = (IF start = 0 THEN 0 ELSE 1)
      THEN v
      ELSE Register(t, Space("LOCTR_MAX", 1, c, [r |-> "max", of |-> addrs]))

-----------------------------------------------------------------------------
(* What a space waits for (extract_dep_address): a space that is aligned   *)
(* enough, or that is an address, stands for what is before it.            *)
Waits(ss, addr, b) ==
  LET list == Normal(ss, addr.sp).sp
      stop(i) == LET s == ss[list[i][1]]
                 IN  \/ s.kind = "ALIGNMENT" /\ s.align >= b
                     \/ s.kind \in {"LOCTR_SET", "LOCTR_MAX"}
      enough == {i \in DOMAIN list : stop(i)}
  IN  IF enough = {} THEN {list[i][1] : i \in DOMAIN list}
      ELSE {list[i][1] : i \in {i \in DOMAIN list : \A j \in enough : j <= i}}

Needs(ss, s) ==
  CASE ss[s].by.r = "align" -> Waits(ss, ss[s].by.of, ss[s].align)
    [] ss[s].by.r = "set" -> Waits(ss, ss[s].by.now, ss[s].by.b)
    [] ss[s].by.r = "max" -> UNION {Waits(ss, ss[s].by.of[i], 0) : i \in DOMAIN ss[s].by.of}
    [] OTHER -> {}

Largest(set) == CHOOSE n \in set : \A m \in set : m <= n

(* The length a dependency yields, before an alignment is taken.           *)
Length(ss, s) ==
  CASE ss[s].by.r = "length" -> value * ss[s].by.unit
    [] ss[s].by.r = "align" ->
         LET n == Offset(ss, ss[s].by.of) IN Aligned(n, ss[s].align) - n
    [] ss[s].by.r = "set" -> Aligned(Offset(ss, ss[s].by.to), Unit(ss[s].by.b)) + ss[s].by.o
    [] ss[s].by.r = "max" -> Largest({Offset(ss, ss[s].by.of[i]) : i \in DOMAIN ss[s].by.of})
    [] OTHER -> last

(* location_counter::resolve_space: a maximum makes the data before it     *)
(* useless.                                                                *)
Trimmed(ds, ss, s) ==
  LET at == {i \in 2 .. Len(ds) : FirstSpace(ds[i]) = s}
  IN  IF ss[s].kind = "LOCTR_MAX" /\ at # {}
      THEN SubSeq(ds, (CHOOSE i \in at : TRUE) - 1, Len(ds)) ELSE ds

Resolved(w, s, n) ==
  Work([i \in DOMAIN Trimmed(w.ds, w.ss, s) |-> Without(Trimmed(w.ds, w.ss, s)[i], s, n)],
       [w.ss EXCEPT ![s].resolved = TRUE, ![s].length = n])

(* switch_to_unresolved_value, ORG, restore_from_unresolved_value          *)
SwitchIndex(ds, s) == CHOOSE i \in DOMAIN ds : FirstSpace(ds[i]) = s

ReplaceSpace(d, s, t) == IF FirstSpace(d) = s THEN [d EXCEPT !.parts[1].sp = t] ELSE d

(* The data put back on top of the data at index t.                        *)
Restored(w, t, switched, s) ==
  FoldLeft(LAMBDA v, d :
             IF FirstSpace(d) # s THEN [v EXCEPT !.ds = Append(@, d)]
             ELSE Checked([v EXCEPT !.ds = Append(@, Joined([v.ds[t] EXCEPT !.kind = d.kind], d))]),
           w, switched)

DropLower(w, t) ==
  IF w.ds[t].storage <= w.ds[t + 1].storage THEN [w EXCEPT !.ds = RemoveAt(@, t)] ELSE w

ResolvedOrg(w, s) ==
  LET at == SwitchIndex(w.ds, s)
      switched == SubSeq(w.ds, at, Len(w.ds))
      to == [w.ss[s].by.to EXCEPT !.off = @ + value]
      v == SetValue([w EXCEPT !.ds = SubSeq(@, 1, at - 1)], w.ss[s].owner, to, w.ss[s].by.b, w.ss[s].by.o)
      t == Len(v.ds)
      f == FirstSpace(Top(v))
      a == AddressOf(Top(v))
  IN  IF f # 0 /\ v.ss[f].kind = "LOCTR_SET"
      THEN DropLower(Work(v.ds \o [i \in DOMAIN switched |-> ReplaceSpace(switched[i], s, f)],
                          [v.ss EXCEPT ![s].resolved = TRUE, ![s].ptrs = <<<<f, 1>>>>]), t)
      ELSE LET r == Normal(v.ss, a.sp)
               u == Restored(v, t, switched, s)
           IN  DropLower([u EXCEPT !.ss[s].resolved = TRUE, !.ss[s].length = a.off + r.off,
                                   !.ss[s].ptrs = r.sp], t)

-----------------------------------------------------------------------------
(* add_dependency, in the order of the spaces.                             *)
Added(ss) == [i \in 1 .. Len(ss) - Len(spaces) |-> Len(spaces) + i]

(* A statement, at the address its label has.                              *)
Here == Work(data[current], spaces)
Written(w) ==
  /\ data' = [data EXCEPT ![current] = w.ds]
  /\ spaces' = w.ss
  /\ pending' = pending \o Added(w.ss)
  /\ UNCHANGED <<counters, current>>

Label(w) == labels' = Append(labels, [c |-> current, addr |-> AddressOf(Top(w))])

Storage(s) ==
  \E w \in {Reserved(Here, current, 0, s.a)} :
    /\ Label(w)
    /\ Written(IF s.op = "DS" THEN Reserved(w, current, s.n, 1)
               ELSE Register(w, Space("ORDINARY", s.a, current, [r |-> "length", unit |-> s.a])))

Origin(s) ==
  /\ s.t \in DOMAIN labels /\ labels[s.t].c = current
  /\ \E w \in {Reserved(Here, current, 0, 1)} :
       /\ Label(w)
       /\ \E v \in {IF s.op = "ORG" THEN SetValue(w, current, labels[s.t].addr, s.b, s.o)
                    ELSE SetUndefined(w, current, labels[s.t].addr, s.b, s.o)} :
            Written(IF s.b > 1 /\ s.o = 0 THEN Reserved(v, current, 0, s.b) ELSE v)

Available ==
  \E w \in {Reserved(Here, current, 0, 1)} : Label(w) /\ Written(SetAvailable(w, current))

(* LOCTR: a new counter begins with a space.                               *)
Switch(c) ==
  /\ current' = c
  /\ IF c \in ToSet(counters) THEN UNCHANGED <<counters, data, spaces>>
     ELSE LET w == Register(Work(<<Fresh("potential")>>, spaces),
                            Space("LOCTR_BEGIN", 1, c, [r |-> "begin"]))
          IN  /\ counters' = Append(counters, c)
              /\ data' = [data EXCEPT ![c] = w.ds]
              /\ spaces' = w.ss
  /\ labels' = Append(labels, [c |-> c, addr |-> AddressOf(Last(data'[c]))])
  /\ UNCHANGED pending

Statement ==
  /\ phase = "read" /\ Len(program) < MaxLength
  /\ \E s \in Operations :
       /\ CASE s.op \in {"DS", "DSK"} -> Storage(s)
            [] s.op \in {"ORG", "ORGK"} -> s.t \in Targets /\ Origin(s)
            [] s.op = "ORGMAX" -> Available
            [] s.op = "LOCTR" -> Switch(s.c)
       /\ program' = Append(program, [s |-> s, c |-> current'])
  /\ UNCHANGED <<value, batch, phase, last>>

EndOfProgram ==
  /\ phase = "read" /\ program # <<>>
  /\ phase' = "1"
  /\ UNCHANGED <<value, program, labels, counters, current, data, spaces, pending, batch, last>>

(* resolve_loop: the dependencies that wait for nothing are moved behind    *)
(* the others (std::partition swaps from both ends) and resolved from the  *)
(* last one. A dependency that a resolution adds takes the place of the    *)
(* one that is removed.                                                    *)
Waiting(s) == Needs(spaces, s) # {}
Ready == {s \in ToSet(pending) : ~Waiting(s)}

RECURSIVE Partition(_, _, _)
Partition(q, i, j) ==
  IF i > j THEN q
  ELSE IF Waiting(q[i]) THEN Partition(q, i + 1, j)
  ELSE IF ~Waiting(q[j]) THEN Partition(q, i, j - 1)
  ELSE Partition([q EXCEPT ![i] = q[j], ![j] = q[i]], i + 1, j - 1)

Resolving == batch[1] # batch[2]

Batch ==
  /\ phase # "read" /\ ~Resolving /\ Ready # {}
  /\ pending' = Partition(pending, 1, Len(pending))
  /\ batch' = <<Len(pending) - Cardinality(Ready), Len(pending)>>
  /\ UNCHANGED <<value, program, labels, counters, current, data, spaces, phase, last>>

(* All the counters a space is in are its owner's.                         *)
Put(c, w) == data' = [data EXCEPT ![c] = w.ds] /\ spaces' = w.ss

ResolveSpace ==
  /\ Resolving
  /\ \E s \in {pending[batch[2]]} :
       LET c == spaces[s].owner
           w == Work(data[c], spaces)
       IN  Put(c, IF spaces[s].kind = "LOCTR_UNKNOWN" THEN ResolvedOrg(w, s)
                  ELSE Resolved(w, s, Length(spaces, s)))
  /\ \E q \in {pending \o Added(spaces')} : pending' = Front([q EXCEPT ![batch[2]] = Last(q)])
  /\ batch' = [batch EXCEPT ![2] = @ - 1]
  /\ UNCHANGED <<value, program, labels, counters, current, phase, last>>

(* finish_module_layout: the beginning of the next counter is where the    *)
(* one before it ends.                                                     *)
PhaseOf(i) == IF i = 1 THEN "1" ELSE IF i = 2 THEN "2" ELSE IF i = 3 THEN "3" ELSE "4"

FinishLayout ==
  /\ phase # "read" /\ ~Resolving /\ Ready = {}
  /\ \E i \in {i \in DOMAIN counters : PhaseOf(i) = phase} :
       LET c == counters[i]
           s == FirstSpace(data[c][1])
       IN  IF s # 0 /\ spaces[s].kind = "LOCTR_BEGIN" /\ ~spaces[s].resolved
           THEN /\ Put(c, Resolved(Work(data[c], spaces), s, last))
                /\ UNCHANGED <<phase, last>>
           ELSE /\ FirstSpace(Last(data[c])) = 0
                /\ phase' = PhaseOf(i + 1) /\ last' = Last(data[c]).storage
                /\ UNCHANGED <<data, spaces>>
  /\ UNCHANGED <<value, program, labels, counters, current, pending, batch>>

Init ==
  /\ value \in Value
  /\ program = <<>> /\ labels = <<>> /\ counters = <<First>> /\ current = First
  /\ data = [c \in Counter |-> IF c = First THEN <<Fresh("potential")>> ELSE <<>>]
  /\ spaces = <<>> /\ pending = <<>> /\ batch = <<0, 0>>
  /\ phase = "read" /\ last = 0

Next == Statement \/ EndOfProgram \/ Batch \/ ResolveSpace \/ FinishLayout
Spec == Init /\ [][Next]_vars

-----------------------------------------------------------------------------
(* The types, and that every space in the data is one of the spaces.       *)
TypeOK ==
  /\ value \in Value /\ Len(program) \in 0 .. MaxLength
  /\ Len(labels) = Len(program)
  /\ ToSet(counters) \subseteq Counter /\ current \in ToSet(counters)
  /\ \A c \in ToSet(counters) : data[c] # <<>>
  /\ \A c \in Counter : \A i \in DOMAIN data[c] : \A j \in DOMAIN data[c][i].parts :
       data[c][i].parts[j].sp \in DOMAIN spaces
  /\ phase \in {"read", "1", "2", "3", "4"} /\ last \in Nat

(* The layout of one counter, statement by statement, when K and the start *)
(* of the counter are known: where it is, the highest it was, the labels.  *)
Plain(prog, k, c, start) ==
  FoldLeft(
    LAMBDA r, e :
      LET at == IF e.s.op \in {"DS", "DSK"} THEN Aligned(r.at, e.s.a) ELSE r.at
          to(o) == Aligned(r.labels[e.s.t] + o, Unit(e.s.b)) + e.s.o
          end == CASE e.s.op = "DS" -> at + e.s.n
                   [] e.s.op = "DSK" -> at + k * e.s.a
                   [] e.s.op = "ORG" -> to(0)
                   [] e.s.op = "ORGK" -> to(k)
                   [] e.s.op = "ORGMAX" -> r.max
                   [] OTHER -> at
      IN  IF e.c # c THEN [r EXCEPT !.labels = Append(@, 0)]
          ELSE [at |-> end, max |-> Largest({r.max, at, end}), labels |-> Append(r.labels, at)],
    [at |-> start, max |-> start, labels |-> <<>>],
    prog)

(* A counter starts where the one before it ends.                          *)
PlainOf(i) ==
  LET of[j \in 1 .. i] ==
        Plain(program, value, counters[j], IF j = 1 THEN 0 ELSE of[j - 1].at)
  IN  of[i]

LaidOut == ~Resolving /\ Ready = {} /\ \A i \in DOMAIN counters : phase # "read" /\ PhaseOf(i) # phase

(* The storage of the counter is short of bytes (location_counter_data.cpp *)
(* 56-68).                                                                 *)
IsShort(c) == Last(data[c]).lost # 0

(* At the end every statement is where it is when K is known before the    *)
(* first one: the spaces, their order and the order in which they are      *)
(* resolved leave no trace in an address. Only a counter behind one whose  *)
(* storage is short begins too low.                                        *)
LayoutIsPlain ==
  LaidOut => \A i \in {k \in DOMAIN counters : \A j \in 1 .. k - 1 : ~IsShort(counters[j])} :
    \A plain \in {PlainOf(i)} :
      \A j \in DOMAIN labels : labels[j].c = counters[i] =>
        Offset(spaces, labels[j].addr) = plain.labels[j]

(* No space is left: what waits for another space is resolved, and every   *)
(* counter gets its layout (finish_module_layout gives up at the first     *)
(* that still has a space).                                                *)
AllResolved ==
  phase # "read" /\ ~Resolving /\ Ready = {} =>
    /\ LaidOut => \A s \in DOMAIN spaces : spaces[s].resolved
    /\ \A i \in DOMAIN counters : PhaseOf(i) = phase =>
         \/ \E s \in {FirstSpace(data[counters[i]][1])} :
              s # 0 /\ spaces[s].kind = "LOCTR_BEGIN" /\ ~spaces[s].resolved
         \/ FirstSpace(Last(data[counters[i]])) = 0

(* The storage of location counter data is the bytes and the lengths of    *)
(* the spaces in it that are resolved (location_counter_data.h: "count of  *)
(* virtually allocated bytes pior to this location counter"), which is     *)
(* where the next counter begins and what "is higher" compares; but for    *)
(* the bytes behind a second space when an ORG to what was not defined is  *)
(* resolved (append_data).                                                 *)
StorageIsPrior ==
  \A c \in ToSet(counters) : \A i \in DOMAIN data[c] :
    data[c][i].storage + data[c][i].lost = data[c][i].initial + BytesOf(data[c][i].parts)

=============================================================================
