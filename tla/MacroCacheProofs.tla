-------------------------- MODULE MacroCacheProofs --------------------------
(***************************************************************************)
(* What holds of the members that parses read, for any programs, members,  *)
(* texts and configurations and any number of events: the dependencies of  *)
(* a macro are open right after it has been parsed, no dependency of an    *)
(* open file is closed, and, when each text has a statement in it, the     *)
(* results of a file that is not marked are of the texts of now.           *)
(***************************************************************************)
EXTENDS MacroCache, TLAPS

-----------------------------------------------------------------------------
(* The invariant.                                                           *)

(* A member that the parse is in has been read, and it and the copy members*)
(* it has used so far are dependencies of the parse already.               *)
KeptFrame(next) ==
  {x \in Frame : /\ \E r \in x.reads : r.at = x.at
                 /\ next[x.at].version # 0
                 /\ \A k \in x.used : next[k].version # 0}

(* So are the copy members of its context. A stamp is not of a missing file.*)
Kept ==
  {a \in Parsing : /\ a.nest \in Seq(KeptFrame(a.next))
                   /\ \A r \in a.known : a.next[r.at].version # 0
                   /\ \A l \in Location : \A s \in a.next[l].stamps : s.version # 0}

(* Only a program takes dependencies; what it has taken is the current     *)
(* object of the file, not closed, and has a component.                    *)
Held(a) ==
  /\ a.file # None => a.file \in opened
  /\ \A l \in Location : a.next[l].version # 0 =>
       /\ a.file \in Program /\ comp[l] # 0
       /\ a.next[l].version = entry[l].version /\ ~entry[l].closed

ParseInv == active \in Kept /\ Held(active)

(* An entry has a text; files that are open or used have components; only  *)
(* open programs use others.                                               *)
WorkspaceInv ==
  /\ \A l \in Location : entry[l].version # 0 => entry[l].text \in Text
  /\ \A l \in opened \cap Location : comp[l] # 0
  /\ \A f \in File, l \in Location :
       /\ deps[f][l].version # 0 => f \in opened \cap Program /\ comp[l] # 0
       /\ \A s \in deps[f][l].stamps : s.version # 0

IInv == TypeOK /\ ParseInv /\ WorkspaceInv /\ ~failed

-----------------------------------------------------------------------------
(* The file manager.                                                       *)

LEMMA FindType ==
  ASSUME TypeOK, NEW a, NEW l \in Location
  PROVE  /\ Find(l, a) \in Nat
         /\ Find(l, a) # 0 => Find(l, a) = entry[l].version /\ ~entry[l].closed
BY DEF TypeOK, Find, Entry

LEMMA AddedType ==
  ASSUME TypeOK, WorkspaceInv, NEW a, NEW l \in Location
  PROVE  LET e == Added(l, a) IN
           e \in Entry /\ e.version # 0 /\ e.version \in Nat /\ ~e.closed /\ e.text \in Text
<1>1. CASE Find(l, a) # 0
  BY <1>1 DEF Added, Find, TypeOK, Entry, WorkspaceInv
<1>2. CASE Find(l, a) = 0 /\ Alive(l, a) /\ entry[l].text = disk[l]
  <2>1. Added(l, a) = [entry[l] EXCEPT !.closed = FALSE]
    BY <1>2 DEF Added
  <2>2. entry[l] \in Entry /\ entry[l].version # 0 /\ entry[l].text \in Text
    BY <1>2 DEF Alive, TypeOK, WorkspaceInv
  <2> QED  BY <2>1, <2>2 DEF Entry
<1>3. CASE Find(l, a) = 0 /\ ~(Alive(l, a) /\ entry[l].text = disk[l])
  <2>1. Added(l, a) = NewEntry(l, disk[l])
    BY <1>3 DEF Added
  <2> QED  BY <2>1 DEF NewEntry, TypeOK, Entry
<1> QED  BY <1>1, <1>2, <1>3

LEMMA CacheType ==
  ASSUME TypeOK, active.file \in File, NEW a \in Parsing, a.file = active.file,
         NEW l \in Location, NEW v \in Nat
  PROVE  /\ Cache(a, l, v) \in Dep
         /\ Cache(a, l, v).version = IF a.next[l].version # 0 THEN a.next[l].version ELSE v
         /\ \/ Cache(a, l, v) = a.next[l] \/ Cache(a, l, v) = deps[a.file][l]
            \/ Cache(a, l, v).stamps = {} /\ Cache(a, l, v).reads = {}
<1>1. NewDep(v) \in Dep /\ NewDep(v).version = v
  BY DEF Dep, NewDep
<1>2. NewDep(v).stamps = {} /\ NewDep(v).reads = {}
  BY DEF NewDep
<1> QED  BY <1>1, <1>2 DEF Cache, TypeOK, Parsing

LEMMA SetEntryType ==
  ASSUME TypeOK, WorkspaceInv, NEW l \in Location, NEW e \in Entry, SetEntry(l, e),
         e.version # 0 => e.text \in Text
  PROVE  /\ entry' \in [Location -> Entry] /\ last' \in [Location -> Nat]
         /\ entry'[l] = e /\ \A k \in Location \ {l} : entry'[k] = entry[k]
         /\ \A k \in Location : entry'[k].version # 0 => entry'[k].text \in Text
<1>1. e.version \in Nat
  BY DEF Entry
<1>2. entry' \in [Location -> Entry] /\ entry'[l] = e /\ \A k \in Location \ {l} : entry'[k] = entry[k]
  BY DEF SetEntry, TypeOK
<1>3. last' \in [Location -> Nat]
  BY <1>1 DEF SetEntry, TypeOK
<1> QED  BY <1>2, <1>3 DEF WorkspaceInv

(* A file that find gives has a component.                                 *)
LEMMA FindHeld ==
  ASSUME TypeOK, WorkspaceInv, Held(active), NEW a, NEW l \in Location,
         a.next[l] = active.next[l], Find(l, a) # 0
  PROVE  comp[l] # 0
<1>1. Alive(l, a) /\ entry[l].version # 0
  BY DEF Find, Alive
<1>2. CASE l \in opened
  BY <1>2 DEF WorkspaceInv
<1>3. CASE entry[l].version = comp[l]
  BY <1>1, <1>3
<1>4. CASE entry[l].version = a.next[l].version
  BY <1>1, <1>4 DEF Held
<1>5. CASE entry[l].version \in {deps[f][l].version : f \in File}
  BY <1>1, <1>5 DEF WorkspaceInv
<1> QED  BY <1>1, <1>2, <1>3, <1>4, <1>5 DEF Alive

-----------------------------------------------------------------------------
(* The parse in progress.                                                  *)

LEMMA FrameSeq ==
  ASSUME NEW S, NEW s \in Seq(S)
  PROVE  /\ \A x \in S : <<x>> \o s \in Seq(S)
         /\ s # <<>> => Head(s) \in S /\ Tail(s) \in Seq(S)
OBVIOUS

LEMMA FrameSeqGrows ==
  ASSUME NEW next, NEW more, \A k \in Location : next[k].version # 0 => more[k].version # 0,
         NEW s \in Seq(KeptFrame(next))
  PROVE  s \in Seq(KeptFrame(more))
<1>1. KeptFrame(next) \subseteq KeptFrame(more)
  BY DEF KeptFrame, Frame
<1> QED  BY <1>1

(* Changes of one field of a parse.                                        *)
LEMMA FieldsKept ==
  ASSUME NEW a \in Kept
  PROVE  /\ \A x \in SUBSET Name : LET b == [a EXCEPT !.asked = x] IN
              b \in Kept /\ b.file = a.file /\ b.next = a.next /\ b.nest = a.nest
         /\ \A x \in SUBSET Read : LET b == [a EXCEPT !.reads = x] IN
              b \in Kept /\ b.file = a.file /\ b.next = a.next /\ b.nest = a.nest
         /\ \A x \in Seq(KeptFrame(a.next)) : LET b == [a EXCEPT !.nest = x] IN
              b \in Kept /\ b.file = a.file /\ b.next = a.next /\ b.nest = x
<1>1. ASSUME NEW x \in SUBSET Name PROVE LET b == [a EXCEPT !.asked = x] IN
        b \in Kept /\ b.file = a.file /\ b.next = a.next /\ b.nest = a.nest
  BY DEF Kept, Parsing
<1>2. ASSUME NEW x \in SUBSET Read PROVE LET b == [a EXCEPT !.reads = x] IN
        b \in Kept /\ b.file = a.file /\ b.next = a.next /\ b.nest = a.nest
  BY DEF Kept, Parsing
<1>3. ASSUME NEW x \in Seq(KeptFrame(a.next)) PROVE LET b == [a EXCEPT !.nest = x] IN
        b \in Kept /\ b.file = a.file /\ b.next = a.next /\ b.nest = x
  <2> DEFINE b == [a EXCEPT !.nest = x]
  <2>1. x \in Seq(Frame)
    <3>1. KeptFrame(a.next) \subseteq Frame
      BY DEF KeptFrame
    <3> QED  BY <3>1
  <2>2. /\ b \in Parsing /\ b.file = a.file /\ b.next = a.next /\ b.nest = x
        /\ b.known = a.known
    BY <2>1 DEF Kept, Parsing
  <2> HIDE DEF b
  <2>3. b \in Kept
    BY <2>2 DEF Kept
  <2> QED  BY <2>2, <2>3 DEF b
<1> QED  BY <1>1, <1>2, <1>3

LEMMA NextKept ==
  ASSUME NEW a \in Kept, NEW l \in Location, NEW d \in Dep, d.version # 0,
         \A s \in d.stamps : s.version # 0
  PROVE  LET b == [a EXCEPT !.next[l] = d] IN
           /\ b \in Kept /\ b.file = a.file /\ b.nest = a.nest /\ b.next[l] = d
           /\ b.reads = a.reads /\ b.asked = a.asked
           /\ \A k \in Location \ {l} : b.next[k] = a.next[k]
<1> DEFINE next == [a.next EXCEPT ![l] = d]
           b == [a EXCEPT !.next[l] = d]
<1>1. a \in Parsing /\ a.next \in [Location -> Dep]
  BY DEF Kept, Parsing
<1>2. next \in [Location -> Dep] /\ next[l] = d /\ \A k \in Location \ {l} : next[k] = a.next[k]
  BY <1>1
<1>3. b = [a EXCEPT !.next = next]
  OBVIOUS
<1> HIDE DEF next, b
<1>4. /\ b \in Parsing /\ b.file = a.file /\ b.nest = a.nest /\ b.next = next /\ b.known = a.known
      /\ b.reads = a.reads /\ b.asked = a.asked
  BY <1>1, <1>2, <1>3 DEF Parsing
<1>5. a.nest \in Seq(KeptFrame(next))
  BY <1>2, FrameSeqGrows DEF Kept
<1>6. \A r \in a.known : r.at \in Location
  BY <1>1 DEF Parsing, Read
<1>7. b \in Kept
  BY <1>2, <1>4, <1>5, <1>6 DEF Kept
<1> QED  BY <1>2, <1>4, <1>7 DEF b

LEMMA CopyIntoKept ==
  ASSUME NEW a \in Kept, NEW r \in Read, NEW counted \in BOOLEAN, a.next[r.at].version # 0
  PROVE  LET b == CopyInto(a, r, counted) IN
           b \in Kept /\ b.file = a.file /\ b.next = a.next
<1> DEFINE known == {k \in a.known : NameOf[k.at] # NameOf[r.at]} \cup {r}
           top == Head(a.nest)
           rest == Tail(a.nest)
           fr == [top EXCEPT !.todo = @ \ {NameOf[r.at]}, !.reads = @ \cup {r},
                             !.used = @ \cup (IF counted THEN {r.at} ELSE {})]
           nest == <<fr>> \o rest
           a1 == [a EXCEPT !.known = known]
           b == CopyInto(a, r, counted)
<1>1. known \in SUBSET Read /\ r.at \in Location /\ \A k \in known : a.next[k.at].version # 0
  BY DEF Kept, Parsing, Read
<1>2. /\ a1 \in Parsing /\ a1.file = a.file /\ a1.next = a.next /\ a1.known = known
      /\ a1.nest = a.nest /\ a1.reads = a.reads
  BY <1>1 DEF Kept, Parsing
<1>3. CASE a.nest = <<>>
  <2>1. b = [a1 EXCEPT !.reads = @ \cup {r}]
    BY <1>3 DEF CopyInto
  <2> HIDE DEF a1, b, known
  <2>2. /\ b \in Parsing /\ b.file = a.file /\ b.next = a.next /\ b.known = known
        /\ b.nest = a.nest
    BY <1>2, <2>1 DEF Parsing
  <2> QED  BY <1>1, <2>2 DEF Kept, b
<1>4. CASE a.nest # <<>>
  <2>1. top \in KeptFrame(a.next) /\ rest \in Seq(KeptFrame(a.next))
    <3>1. a.nest \in Seq(KeptFrame(a.next))
      BY DEF Kept
    <3> QED  BY <1>4, <3>1, FrameSeq
  <2>2. fr \in KeptFrame(a.next)
    <3>1. /\ fr \in Frame /\ fr.at = top.at /\ fr.used \subseteq top.used \cup {r.at}
          /\ top.reads \subseteq fr.reads
      BY <1>1, <2>1 DEF KeptFrame, Frame
    <3> QED  BY <2>1, <3>1 DEF KeptFrame
  <2>3. b = [a1 EXCEPT !.nest = nest]
    BY <1>4 DEF CopyInto
  <2> HIDE DEF fr, rest
  <2>4. nest \in Seq(KeptFrame(a.next)) /\ nest \in Seq(Frame)
    BY <2>1, <2>2, FrameSeq DEF KeptFrame
  <2> HIDE DEF a1, b, known, nest
  <2>5. /\ b \in Parsing /\ b.file = a.file /\ b.next = a.next /\ b.known = known
        /\ b.nest = nest
    BY <1>2, <2>3, <2>4 DEF Parsing
  <2> QED  BY <1>1, <2>4, <2>5 DEF Kept, b
<1> QED  BY <1>3, <1>4

LEMMA CarryOverKept ==
  ASSUME TypeOK, WorkspaceInv, active.file \in File, NEW a \in Kept, a.file = active.file,
         NEW l \in Location, NEW d \in Dep,
         \A s \in d.stamps : s.at # l => Find(s.at, a) # 0
  PROVE  LET b == CarryOver(a, l, d) IN
           /\ b \in Kept /\ b.file = a.file
           /\ \A k \in Location :
                \/ b.next[k].version = a.next[k].version
                \/ k # l /\ Find(k, a) # 0 /\ b.next[k].version = Find(k, a)
<1> DEFINE copies == {s \in d.stamps : s.at # l}
           loaded == {r \in d.reads : \E s \in copies : s.at = r.at}
           next == [k \in Location |->
                      IF \E s \in copies : s.at = k THEN Cache(a, k, Find(k, a)) ELSE a.next[k]]
           known == {r \in a.known : \A q \in loaded : NameOf[q.at] # NameOf[r.at]} \cup loaded
           a1 == [a EXCEPT !.next = next]
           b == CarryOver(a, l, d)
<1>1. \A k \in Location :
        /\ next[k] \in Dep /\ \A s \in next[k].stamps : s.version # 0
        /\ \/ next[k].version = a.next[k].version
           \/ k # l /\ Find(k, a) # 0 /\ next[k].version = Find(k, a)
  <2> SUFFICES ASSUME NEW k \in Location
               PROVE  /\ next[k] \in Dep /\ \A s \in next[k].stamps : s.version # 0
                      /\ \/ next[k].version = a.next[k].version
                         \/ k # l /\ Find(k, a) # 0 /\ next[k].version = Find(k, a)
    OBVIOUS
  <2>1. CASE \E s \in copies : s.at = k
    <3>1. k # l /\ Find(k, a) # 0
      BY <2>1
    <3>2. a \in Parsing /\ Find(k, a) \in Nat
      BY FindType DEF Kept
    <3> DEFINE q == Cache(a, k, Find(k, a))
    <3>3. /\ q \in Dep
          /\ q.version = IF a.next[k].version # 0 THEN a.next[k].version ELSE Find(k, a)
          /\ q = a.next[k] \/ q = deps[a.file][k] \/ q.stamps = {}
      BY <3>2, CacheType
    <3>4. next[k] = q
      BY <2>1
    <3> HIDE DEF q, next
    <3>5. \A s \in q.stamps : s.version # 0
      BY <3>3 DEF Kept, WorkspaceInv
    <3> QED  BY <3>1, <3>3, <3>4, <3>5
  <2>2. CASE ~ \E s \in copies : s.at = k
    <3>1. next[k] = a.next[k]
      BY <2>2
    <3> QED  BY <3>1 DEF Kept, Parsing
  <2> QED  BY <2>1, <2>2
<1>2. next \in [Location -> Dep]
  BY <1>1
<1>3. \A r \in loaded : r \in Read /\ r.at \in Location /\ next[r.at].version # 0
  <2> SUFFICES ASSUME NEW r \in loaded
               PROVE  r \in Read /\ r.at \in Location /\ next[r.at].version # 0
    OBVIOUS
  <2>1. r \in Read /\ r.at \in Location /\ \E s \in copies : s.at = r.at
    BY DEF Dep, Read
  <2>2. r.at # l /\ Find(r.at, a) # 0 /\ next[r.at] = Cache(a, r.at, Find(r.at, a))
    BY <2>1
  <2>3. next[r.at].version # 0
    BY <2>1, <2>2, CacheType, FindType DEF Kept
  <2> QED  BY <2>1, <2>3
<1>4. \A r \in a.known : r \in Read /\ r.at \in Location /\ next[r.at].version # 0
  BY <1>1 DEF Kept, Parsing, Read
<1>5. known \in SUBSET Read /\ \A r \in known : next[r.at].version # 0
  BY <1>3, <1>4
<1>6. b = [a1 EXCEPT !.known = known]
  BY DEF CarryOver
<1>7. a.nest \in Seq(KeptFrame(next))
  <2>1. \A k \in Location : a.next[k].version # 0 => next[k].version # 0
    BY <1>1
  <2> HIDE DEF next
  <2> QED  BY <2>1, FrameSeqGrows DEF Kept
<1> HIDE DEF next, known
<1>8. /\ a1 \in Parsing /\ a1.file = a.file /\ a1.nest = a.nest /\ a1.next = next
  BY <1>2 DEF Kept, Parsing
<1> HIDE DEF a1, b
<1>9. b \in Parsing /\ b.file = a.file /\ b.nest = a.nest /\ b.next = next /\ b.known = known
  BY <1>5, <1>6, <1>8 DEF Parsing
<1>10. b \in Kept
  BY <1>1, <1>5, <1>7, <1>9 DEF Kept
<1> QED  BY <1>1, <1>9, <1>10 DEF b

-----------------------------------------------------------------------------
(* The documents and the configuration keep the invariant.                 *)

LEMMA NoParseKept ==
  /\ NoParse \in Kept /\ NoParse.file = None
  /\ \A l \in Location : NoParse.next[l].version = 0
<1>1. NoDep \in Dep /\ NoDep.version = 0 /\ NoDep.stamps = {}
  BY DEF NoDep, NewDep, Dep
<1>2. NoDeps \in [Location -> Dep] /\ \A l \in Location : NoDeps[l] = NoDep
  BY <1>1 DEF NoDeps
<1>3. NoParse \in Parsing
  BY <1>2 DEF NoParse, Parsing
<1> HIDE DEF NoDeps
<1>4. NoParse.nest = <<>> /\ NoParse.known = {} /\ NoParse.next = NoDeps /\ NoParse.file = None
  BY DEF NoParse
<1>5. NoParse.nest \in Seq(KeptFrame(NoParse.next))
  BY <1>4
<1> QED  BY <1>1, <1>2, <1>3, <1>4, <1>5 DEF Kept

LEMMA AbandonStep == ASSUME Abandon PROVE ParseInv' /\ active' \in Parsing
BY NoParseKept, MembersAssumption DEF Abandon, ParseInv, Held, Kept, File

LEMMA NoDepsFacts ==
  NoDeps \in [Location -> Dep] /\ \A l \in Location : NoDeps[l].version = 0 /\ NoDeps[l].stamps = {}
BY DEF NoDeps, NoDep, NewDep, Dep

LEMMA ProgramSteps ==
  ASSUME IInv, NEW p \in Program, DidOpenProgram(p) \/ DidChangeProgram(p) \/ DidCloseProgram(p)
  PROVE  IInv'
<1>1. ParseInv' /\ active' \in Parsing /\ UNCHANGED <<files, conf, failed>> /\ events' \in Nat
  BY AbandonStep DEF DidOpenProgram, DidChangeProgram, DidCloseProgram, Event, IInv, TypeOK
<1>2. p \in File /\ p \notin Location
  BY MembersAssumption DEF File
<1>3. CASE DidOpenProgram(p) \/ DidChangeProgram(p)
  <2>1. /\ opened' \in {opened, opened \cup {p}} /\ pending' = pending \cup {p} /\ p \in opened'
        /\ UNCHANGED <<comp, deps, result>>
    BY <1>3 DEF DidOpenProgram, DidChangeProgram
  <2>2. TypeOK'
    BY <1>1, <1>2, <2>1 DEF TypeOK, IInv, files
  <2>3. WorkspaceInv'
    BY <1>1, <1>2, <2>1 DEF WorkspaceInv, IInv, files
  <2> QED  BY <1>1, <2>2, <2>3 DEF IInv
<1>4. CASE DidCloseProgram(p)
  <2> DEFINE closing == ToClose(Uses(p), {p}, deps)
  <2>1. /\ opened' = opened \ {p} /\ pending' = pending \ {p}
        /\ comp' = [l \in Location |-> IF l \in closing THEN 0 ELSE comp[l]]
        /\ deps' = [f \in File |-> IF f \in closing \cup {p} THEN NoDeps ELSE deps[f]]
        /\ result' = [f \in File |-> IF f \in closing \cup {p} THEN {} ELSE result[f]]
    BY <1>4 DEF DidCloseProgram
  <2>2. \A l \in closing : l \notin opened /\ \A f \in File \ {p} : deps[f][l].version = 0
    BY DEF ToClose
  <2> HIDE DEF closing
  <2>3. TypeOK'
    BY <1>1, <1>2, <2>1, NoDepsFacts DEF TypeOK, IInv, files
  <2>4. \A f \in File, l \in Location :
          /\ deps'[f][l].version # 0 => f \in opened' \cap Program /\ comp'[l] # 0
          /\ \A s \in deps'[f][l].stamps : s.version # 0
    BY <1>2, <2>1, <2>2, NoDepsFacts DEF WorkspaceInv, IInv
  <2>5. WorkspaceInv'
    BY <1>1, <1>2, <2>1, <2>2, <2>4 DEF WorkspaceInv, IInv, files
  <2> QED  BY <1>1, <2>3, <2>5 DEF IInv
<1> QED  BY <1>3, <1>4

LEMMA DidOpenMemberStep ==
  ASSUME IInv, NEW l \in Location, NEW t \in Text, DidOpenMember(l, t) \/ DidChangeMember(l, t)
  PROVE  IInv'
<1>1. /\ ParseInv' /\ active' \in Parsing /\ events' \in Nat
      /\ UNCHANGED <<disk, watched, conf, deps, result, failed>>
  BY AbandonStep DEF DidOpenMember, DidChangeMember, Event, IInv, TypeOK
<1>2. l \in File /\ l \in opened' /\ opened' \in {opened, opened \cup {l}}
  BY DEF File, DidOpenMember, DidChangeMember
<1>3. pending' \subseteq opened'
  BY <1>2 DEF DidOpenMember, DidChangeMember, Dependents, TypeOK, IInv
<1>4. PICK e \in Entry : SetEntry(l, e) /\ e.version # 0 /\ e.text \in Text
                         /\ comp' = [comp EXCEPT ![l] = e.version]
  <2> DEFINE new == NewEntry(l, t)
  <2>1. new \in Entry /\ new.version = last[l] + 1 /\ new.version # 0 /\ new.text = t
    BY DEF NewEntry, Entry, TypeOK, IInv
  <2>2. CASE DidChangeMember(l, t)
    <3>1. SetEntry(l, new) /\ comp' = [comp EXCEPT ![l] = new.version]
      BY <2>1, <2>2 DEF DidChangeMember
    <3> HIDE DEF new
    <3> QED  BY <2>1, <3>1
  <2>3. CASE DidOpenMember(l, t)
    <3> DEFINE same == Alive(l, NoParse) /\ entry[l].text = t
               old == [entry[l] EXCEPT !.closed = FALSE]
    <3>1. same => old \in Entry /\ old.version # 0 /\ old.text = t
      BY DEF Alive, Entry, TypeOK, IInv
    <3>2. CASE same
      <4>1. SetEntry(l, old) /\ comp' = [comp EXCEPT ![l] = old.version]
        BY <2>3, <3>2 DEF DidOpenMember
      <4> HIDE DEF old
      <4> QED  BY <3>1, <3>2, <4>1
    <3>3. CASE ~same
      <4>1. SetEntry(l, new) /\ comp' = [comp EXCEPT ![l] = new.version]
        BY <2>3, <3>3 DEF DidOpenMember
      <4> HIDE DEF new
      <4> QED  BY <2>1, <4>1
    <3> QED  BY <3>2, <3>3
  <2> QED  BY <2>2, <2>3
<1>5. e.version \in Nat
  BY DEF Entry
<1>6. /\ entry' \in [Location -> Entry] /\ last' \in [Location -> Nat]
      /\ \A k \in Location : entry'[k].version # 0 => entry'[k].text \in Text
  BY <1>4, SetEntryType DEF IInv
<1>7. TypeOK'
  BY <1>1, <1>2, <1>3, <1>4, <1>5, <1>6 DEF TypeOK, IInv
<1>8. WorkspaceInv'
  BY <1>1, <1>2, <1>4, <1>6 DEF WorkspaceInv, IInv, TypeOK
<1> QED  BY <1>1, <1>7, <1>8 DEF IInv

LEMMA DidCloseMemberStep ==
  ASSUME IInv, NEW l \in Location, DidCloseMember(l)
  PROVE  IInv'
<1> DEFINE users == {f \in File : l \in Uses(f)}
           shut == [entry[l] EXCEPT !.closed = (users = {})]
           e == IF users # {} /\ entry[l].text # disk[l] THEN NewEntry(l, disk[l]) ELSE shut
           closing == IF users = {} THEN ToClose(Uses(l), {l}, deps) \cup {l} ELSE {}
<1>1. /\ ParseInv' /\ active' \in Parsing /\ events' \in Nat
      /\ UNCHANGED <<disk, watched, conf, failed>> /\ opened' = opened \ {l}
  BY AbandonStep DEF DidCloseMember, Event, IInv, TypeOK
<1>2. l \in File /\ l \notin Program
  BY MembersAssumption DEF File
<1>3. /\ SetEntry(l, e)
      /\ comp' = [k \in Location |-> IF k \in closing THEN 0 ELSE comp[k]]
      /\ deps' = [f \in File |-> IF f \in closing THEN NoDeps ELSE deps[f]]
      /\ result' = [f \in File |-> IF f \in closing THEN {} ELSE result[f]]
  BY DEF DidCloseMember
<1>4. pending' \subseteq opened'
  BY <1>1 DEF DidCloseMember, Dependents, TypeOK, IInv
<1>5. e \in Entry /\ (e.version # 0 => e.text \in Text)
  <2>1. shut \in Entry /\ (shut.version # 0 => shut.text \in Text)
    <3>1. entry[l] \in Entry /\ (entry[l].version # 0 => entry[l].text \in Text)
      BY DEF TypeOK, WorkspaceInv, IInv
    <3> QED  BY <3>1 DEF Entry
  <2>2. NewEntry(l, disk[l]) \in Entry /\ NewEntry(l, disk[l]).text \in Text
    BY DEF NewEntry, Entry, TypeOK, IInv
  <2> HIDE DEF shut
  <2> QED  BY <2>1, <2>2
<1>6. closing \subseteq {l} /\ (l \in closing => users = {})
  <2>1. Uses(l) = {}
    BY <1>2 DEF Uses, WorkspaceInv, IInv
  <2> QED  BY <2>1 DEF ToClose
<1> HIDE DEF e, closing
<1>7. /\ entry' \in [Location -> Entry] /\ last' \in [Location -> Nat]
      /\ \A k \in Location : entry'[k].version # 0 => entry'[k].text \in Text
  BY <1>3, <1>5, SetEntryType DEF IInv
<1>8. TypeOK'
  BY <1>1, <1>3, <1>4, <1>7, NoDepsFacts DEF TypeOK, IInv
<1>9. \A f \in File, k \in Location :
        /\ deps'[f][k].version # 0 => f \in opened' \cap Program /\ comp'[k] # 0
        /\ \A s \in deps'[f][k].stamps : s.version # 0
  BY <1>1, <1>2, <1>3, <1>6, NoDepsFacts DEF WorkspaceInv, Uses, IInv
<1>10. WorkspaceInv'
  BY <1>1, <1>3, <1>6, <1>7, <1>9 DEF WorkspaceInv, IInv
<1> QED  BY <1>1, <1>8, <1>10 DEF IInv

LEMMA DiskSteps ==
  ASSUME IInv,
         \/ \E l \in Location, t \in Text : DiskChanges(l, t)
         \/ \E c \in Config : Reconfigure(c)
  PROVE  IInv'
<1>1. /\ UNCHANGED <<entry, last, opened, comp, deps, result, active, failed>> /\ events' \in Nat
      /\ disk' \in [Location -> Text] /\ watched' \subseteq Location /\ conf' \in Config
      /\ pending' \in {pending, opened}
  BY DEF DiskChanges, Reconfigure, Event, workspace, files, TypeOK, IInv
<1>2. TypeOK'
  BY <1>1 DEF TypeOK, IInv
<1>3. ParseInv'
  BY <1>1 DEF ParseInv, Held, IInv
<1>4. WorkspaceInv'
  BY <1>1 DEF WorkspaceInv, IInv
<1> QED  BY <1>1, <1>2, <1>3, <1>4 DEF IInv

LEMMA DidChangeWatchedFilesStep ==
  ASSUME IInv, NEW l \in Location, NEW groups \in BOOLEAN, NEW c \in Config,
         DidChangeWatchedFiles(l, groups, c)
  PROVE  IInv'
<1> DEFINE old == [entry EXCEPT ![l].closed = FALSE]
<1>1. /\ ParseInv' /\ active' \in Parsing /\ watched' \subseteq Location /\ conf' \in Config
      /\ UNCHANGED <<events, disk, last, opened, comp, deps, result, failed>>
  BY AbandonStep DEF DidChangeWatchedFiles, IInv, TypeOK
<1>2. pending' \subseteq opened'
  BY DEF DidChangeWatchedFiles, Dependents, IInv, TypeOK
<1>3. entry' = entry \/ entry' = [entry EXCEPT ![l] = NoEntry] \/ entry' = old
  BY DEF DidChangeWatchedFiles
<1>4. NoEntry \in Entry /\ NoEntry.version = 0
  BY DEF NoEntry, Entry
<1>5. old \in [Location -> Entry] /\ \A k \in Location : old[k].version = entry[k].version /\ old[k].text = entry[k].text
  BY DEF Entry, IInv, TypeOK
<1> HIDE DEF old
<1>6. /\ entry' \in [Location -> Entry]
      /\ \A k \in Location : entry'[k].version # 0 => entry'[k].text \in Text
  BY <1>3, <1>4, <1>5 DEF IInv, TypeOK, WorkspaceInv
<1>7. TypeOK'
  BY <1>1, <1>2, <1>6 DEF TypeOK, IInv
<1>8. WorkspaceInv'
  BY <1>1, <1>6 DEF WorkspaceInv, IInv
<1> QED  BY <1>1, <1>7, <1>8 DEF IInv

-----------------------------------------------------------------------------
(* The steps of a parse keep the invariant.                                *)

(* Steps that change nothing but the parse.                                *)
LEMMA ParseOnlyStep ==
  ASSUME IInv, active' \in Kept, Held(active'),
         UNCHANGED <<events, files, conf, workspace, failed>>
  PROVE  IInv'
<1>1. UNCHANGED <<events, disk, watched, entry, last, conf, opened, pending, comp, deps, result, failed>>
  BY DEF files, workspace
<1>2. TypeOK'
  BY <1>1 DEF TypeOK, Kept, IInv
<1>3. ParseInv'
  BY <1>1 DEF ParseInv, Held
<1>4. WorkspaceInv'
  BY <1>1 DEF WorkspaceInv, IInv
<1> QED  BY <1>1, <1>2, <1>3, <1>4 DEF IInv

LEMMA ParseBeginStep ==
  ASSUME IInv, NEW f \in File, ParseBegin(f)
  PROVE  IInv'
<1> DEFINE a1 == [NoParse EXCEPT !.file = f]
<1>1. conf \in [Name -> Location \cup {None}] /\ f \in opened
  BY MembersAssumption DEF ParseBegin, IInv, TypeOK
<1>2. NoParse \in Parsing /\ NoParse.nest = <<>> /\ NoParse.known = {} /\ NoParse.next = NoDeps
  BY NoParseKept DEF Kept, NoParse
<1>3. a1 \in Parsing /\ a1.file = f /\ a1.next = NoDeps /\ a1.known = {} /\ a1.nest = <<>>
  BY <1>2 DEF Parsing
<1>4. active' = [a1 EXCEPT !.conf = conf]
  BY DEF ParseBegin
<1> HIDE DEF a1
<1>5. /\ active' \in Parsing /\ active'.file = f /\ active'.next = NoDeps
      /\ active'.known = {} /\ active'.nest = <<>>
  BY <1>1, <1>3, <1>4 DEF Parsing
<1>6. active' \in Kept /\ Held(active')
  <2>1. active'.nest \in Seq(KeptFrame(active'.next))
    BY <1>5
  <2> QED  BY <1>1, <1>5, <2>1, NoDepsFacts DEF Kept, Held
<1> QED  BY <1>6, ParseOnlyStep DEF ParseBegin

LEMMA NotFoundStep ==
  ASSUME IInv, NEW n \in Name, NotFound(n)
  PROVE  IInv'
<1> DEFINE asked == active.asked \cup {n}
           fr == [Top EXCEPT !.todo = @ \ {n}]
           rest == Tail(active.nest)
           nest == IF active.nest = <<>> THEN active.nest ELSE <<fr>> \o rest
           a1 == [active EXCEPT !.asked = asked]
<1>1. active \in Kept /\ active \in Parsing
  BY DEF IInv, ParseInv, Kept
<1>2. asked \in SUBSET Name
  BY <1>1 DEF Parsing
<1>3. nest \in Seq(KeptFrame(active.next))
  <2>1. active.nest \in Seq(KeptFrame(active.next))
    BY <1>1 DEF Kept
  <2>2. CASE active.nest # <<>>
    <3>1. Top \in KeptFrame(active.next) /\ rest \in Seq(KeptFrame(active.next))
      BY <2>1, <2>2, FrameSeq DEF Top
    <3>2. fr \in KeptFrame(active.next)
      <4>1. fr \in Frame /\ fr.at = Top.at /\ fr.used = Top.used /\ fr.reads = Top.reads
        BY <3>1 DEF KeptFrame, Frame
      <4> QED  BY <3>1, <4>1 DEF KeptFrame
    <3> HIDE DEF fr, rest
    <3>3. <<fr>> \o rest \in Seq(KeptFrame(active.next))
      BY <3>1, <3>2, FrameSeq
    <3> QED  BY <2>2, <3>3
  <2> QED  BY <2>1, <2>2
<1>4. active' = [a1 EXCEPT !.nest = nest]
  BY DEF NotFound
<1> HIDE DEF nest, asked
<1>5. a1 \in Kept /\ a1.file = active.file /\ a1.next = active.next
  BY <1>1, <1>2, FieldsKept
<1> HIDE DEF a1
<1>6. active' \in Kept /\ active'.file = active.file /\ active'.next = active.next
  BY <1>3, <1>4, <1>5, FieldsKept
<1>7. Held(active')
  BY <1>6 DEF Held, IInv, ParseInv
<1> QED  BY <1>6, <1>7, ParseOnlyStep DEF NotFound

LEMMA CopyKnownStep ==
  ASSUME IInv, NEW n \in Name, CopyKnown(n)
  PROVE  IInv'
<1>1. active \in Kept /\ active \in Parsing
  BY DEF IInv, ParseInv, Kept
<1>2. PICK r \in active.known : active' = CopyInto(active, r, TRUE)
  BY DEF CopyKnown, KnownAs
<1>3. r \in Read /\ active.next[r.at].version # 0
  BY <1>1 DEF Kept, Parsing
<1>4. active' \in Kept /\ active'.file = active.file /\ active'.next = active.next
  BY <1>1, <1>2, <1>3, CopyIntoKept
<1>5. Held(active')
  BY <1>4 DEF Held, IInv, ParseInv
<1> QED  BY <1>4, <1>5, ParseOnlyStep DEF CopyKnown

LEMMA ParseDoneStep ==
  ASSUME IInv, ParseDone
  PROVE  IInv'
<1> DEFINE f == active.file
           new == [deps EXCEPT ![f] = active.next]
           closing == ToClose({l \in Uses(f) : active.next[l].version = 0}, {}, new)
<1>1. /\ ParseInv' /\ active' \in Parsing /\ UNCHANGED <<events, disk, watched, entry, last, conf, opened, failed>>
      /\ pending' = pending \ {f}
  BY AbandonStep DEF ParseDone, Abandon, files
<1>2. f \in opened /\ f \in File /\ active.next \in [Location -> Dep]
  BY DEF ParseDone, IInv, ParseInv, Held, TypeOK, Parsing
<1>3. /\ comp' = [l \in Location |-> IF l \in closing THEN 0 ELSE comp[l]]
      /\ deps' = [g \in File |-> IF g \in closing THEN NoDeps ELSE new[g]]
      /\ result' = [g \in File |-> IF g \in closing THEN {}
                                   ELSE IF g = f THEN active.reads ELSE result[g]]
  BY DEF ParseDone
<1>4. \A l \in closing : l \notin opened /\ \A g \in File : new[g][l].version = 0
  BY DEF ToClose
<1>5. new \in [File -> [Location -> Dep]]
  BY <1>2 DEF IInv, TypeOK
<1>6. \A g \in File, l \in Location :
        /\ new[g][l].version # 0 => g \in opened \cap Program /\ comp[l] # 0
        /\ \A s \in new[g][l].stamps : s.version # 0
  <2>1. \A l \in Location :
          /\ active.next[l].version # 0 => f \in Program /\ comp[l] # 0
          /\ \A s \in active.next[l].stamps : s.version # 0
    BY DEF IInv, ParseInv, Held, Kept
  <2>2. \A g \in File : new[g] = IF g = f THEN active.next ELSE deps[g]
    BY DEF IInv, TypeOK
  <2> HIDE DEF new, f
  <2> QED  BY <1>2, <2>1, <2>2 DEF IInv, WorkspaceInv
<1> HIDE DEF closing, new
<1>7. TypeOK'
  BY <1>1, <1>2, <1>3, <1>5, NoDepsFacts DEF TypeOK, IInv, Parsing
<1>8. WorkspaceInv'
  BY <1>1, <1>3, <1>4, <1>6, NoDepsFacts DEF WorkspaceInv, IInv
<1> QED  BY <1>1, <1>7, <1>8 DEF IInv

(* Only a program requests members.                                        *)
LEMMA WantedFacts ==
  ASSUME IInv, NEW n \in Name, active.file # None, Wanted(n)
  PROVE  /\ active \in Kept /\ active \in Parsing /\ active.file \in Program \cap opened
         /\ active.file \in File
<1>1. active \in Kept /\ active \in Parsing /\ active.file \in opened
  BY DEF IInv, ParseInv, Kept, Held
<1>2. CASE active.nest # <<>>
  <2>1. active.nest \in Seq(KeptFrame(active.next))
    BY <1>1 DEF Kept
  <2>2. Top \in KeptFrame(active.next)
    BY <1>2, <2>1, FrameSeq DEF Top
  <2>3. Top.at \in Location /\ active.next[Top.at].version # 0
    BY <2>2 DEF KeptFrame, Frame
  <2> QED  BY <1>1, <2>3 DEF IInv, ParseInv, Held, File
<1> QED  BY <1>1, <1>2 DEF Wanted, File

(* What request_external_processing takes for the parse.                   *)
LEMMA RequestedFacts ==
  ASSUME IInv, active \in Parsing, active.file \in File, NEW l \in Location, NEW e,
         e = IF active.next[l].version # 0 THEN entry[l] ELSE Added(l, active)
  PROVE  LET d == Cache(active, l, e.version) IN
           /\ e \in Entry /\ e.version # 0 /\ ~e.closed /\ e.text \in Text
           /\ d \in Dep /\ d.version = e.version /\ \A s \in d.stamps : s.version # 0
<1> DEFINE d == Cache(active, l, e.version)
<1>1. /\ e \in Entry /\ e.version # 0 /\ ~e.closed /\ e.text \in Text
      /\ active.next[l].version # 0 => active.next[l].version = e.version
  <2>1. CASE active.next[l].version # 0
    BY <2>1 DEF IInv, TypeOK, ParseInv, Held, WorkspaceInv
  <2>2. CASE active.next[l].version = 0
    BY <2>2, AddedType DEF IInv
  <2> QED  BY <2>1, <2>2
<1>2. e.version \in Nat
  BY <1>1 DEF Entry
<1>3. /\ d \in Dep /\ d.version = IF active.next[l].version # 0 THEN active.next[l].version ELSE e.version
      /\ d = active.next[l] \/ d = deps[active.file][l] \/ d.stamps = {}
  BY <1>2, CacheType DEF IInv
<1> HIDE DEF d
<1>4. \A s \in d.stamps : s.version # 0
  BY <1>3 DEF IInv, ParseInv, Kept, WorkspaceInv
<1> QED  BY <1>1, <1>3, <1>4 DEF d

LEMMA RequestStep ==
  ASSUME IInv, NEW n \in Name, Request(n)
  PROVE  IInv'
<1> DEFINE l == Resolved(n)
           e == IF active.next[l].version # 0 THEN entry[l] ELSE Added(l, active)
           d == Cache(active, l, e.version)
           a == [active EXCEPT !.next[l] = d]
           a2 == [a EXCEPT !.asked = @ \cup {n}]
           member == [at |-> l, text |-> e.text]
           fr == [at |-> l, reads |-> {member}, used |-> {},
                  todo |-> IF n \in Macro THEN Copies[e.text] ELSE {}]
           carried == CarryOver(a, l, d)
           carried2 == [carried EXCEPT !.asked = @ \cup {n}]
           (* What the parse has after the request. *)
           Taken(b) == /\ b \in Kept /\ b.file = active.file
                       /\ \A k \in Location :
                            \/ b.next[k].version = a.next[k].version
                            \/ k # l /\ Find(k, a) # 0 /\ b.next[k].version = Find(k, a)
<1>1. /\ SetEntry(l, e) /\ comp' = [comp EXCEPT ![l] = e.version]
      /\ UNCHANGED <<events, disk, watched, conf, opened, pending, deps, result, failed>>
  BY DEF Request
<1>2. /\ active \in Kept /\ active \in Parsing /\ active.file \in Program \cap opened
      /\ active.file \in File /\ l \in Location
  BY WantedFacts DEF Request, Resolved, Parsing
<1>3. /\ e \in Entry /\ e.version # 0 /\ ~e.closed /\ e.text \in Text
      /\ d \in Dep /\ d.version = e.version /\ \A s \in d.stamps : s.version # 0
  BY <1>2, RequestedFacts
<1>4. e.version \in Nat
  BY <1>3 DEF Entry
<1>5. /\ active' = IF ~Valid(d, active) THEN [a EXCEPT !.nest = <<fr>> \o @]
                   ELSE IF n \in Macro
                     THEN [carried EXCEPT !.asked = @ \cup {n}, !.reads = @ \cup d.reads]
                   ELSE CopyInto([a EXCEPT !.asked = @ \cup {n}], member, e.text \notin Blank)
  BY DEF Request
<1> HIDE DEF e, l
<1>6. member \in Read
  BY <1>2, <1>3 DEF Read
<1>7. fr \in Frame
  BY <1>2, <1>3, <1>6, MembersAssumption DEF Frame
<1> HIDE DEF d
<1>8. /\ a \in Kept /\ a.file = active.file /\ a.nest = active.nest /\ a.next[l] = d
      /\ \A k \in Location \ {l} : a.next[k] = active.next[k]
  BY <1>2, <1>3, NextKept
<1> HIDE DEF a
<1>9. a.asked \cup {n} \in SUBSET Name
  BY <1>8 DEF Kept, Parsing
<1>10. ASSUME ~Valid(d, active) PROVE Taken(active')
  <2> DEFINE nest == <<fr>> \o a.nest
  <2>1. fr \in KeptFrame(a.next)
    BY <1>3, <1>7, <1>8 DEF KeptFrame
  <2>2. a.nest \in Seq(KeptFrame(a.next))
    BY <1>8 DEF Kept
  <2>3. active' = [a EXCEPT !.nest = nest]
    BY <1>5, <1>10
  <2> HIDE DEF fr
  <2>4. nest \in Seq(KeptFrame(a.next))
    BY <2>1, <2>2, FrameSeq
  <2> HIDE DEF nest
  <2>5. active' \in Kept /\ active'.file = a.file /\ active'.next = a.next
    BY <1>8, <2>3, <2>4, FieldsKept
  <2> QED  BY <1>8, <2>5
<1>11. ASSUME Valid(d, active), n \in Macro PROVE Taken(active')
  <2>1. active' = [carried2 EXCEPT !.reads = @ \cup d.reads]
    BY <1>5, <1>11
  <2>2. \A s \in d.stamps : s.at # l => Find(s.at, a) # 0
    <3> SUFFICES ASSUME NEW s \in d.stamps, s.at # l PROVE Find(s.at, a) # 0
      OBVIOUS
    <3>1. Find(s.at, active) # 0 /\ s.at \in Location
      BY <1>3, <1>11 DEF Valid, Dep, Stamp
    <3>2. a.next[s.at] = active.next[s.at]
      BY <1>8, <3>1
    <3> QED  BY <3>1, <3>2 DEF Find, Alive
  <2>3. /\ carried \in Kept /\ carried.file = a.file
        /\ \A k \in Location :
             \/ carried.next[k].version = a.next[k].version
             \/ k # l /\ Find(k, a) # 0 /\ carried.next[k].version = Find(k, a)
    BY <1>2, <1>3, <1>8, <2>2, CarryOverKept DEF IInv
  <2> HIDE DEF carried
  <2>4. carried.asked \cup {n} \in SUBSET Name /\ d.reads \in SUBSET Read
    BY <1>3, <2>3 DEF Kept, Parsing, Dep
  <2>5. carried2 \in Kept /\ carried2.file = carried.file /\ carried2.next = carried.next
    BY <2>3, <2>4, FieldsKept
  <2> HIDE DEF carried2
  <2>6. carried2.reads \cup d.reads \in SUBSET Read
    BY <2>4, <2>5 DEF Kept, Parsing
  <2>7. active' \in Kept /\ active'.file = carried.file /\ active'.next = carried.next
    BY <2>1, <2>5, <2>6, FieldsKept
  <2> QED  BY <1>8, <2>3, <2>7
<1>12. ASSUME Valid(d, active), n \notin Macro PROVE Taken(active')
  <2> DEFINE counted == e.text \notin Blank
  <2>1. active' = CopyInto(a2, member, counted)
    BY <1>5, <1>12
  <2>2. a2 \in Kept /\ a2.file = a.file /\ a2.next = a.next
    BY <1>8, <1>9, FieldsKept
  <2>3. counted \in BOOLEAN /\ member.at = l
    OBVIOUS
  <2> HIDE DEF a2, counted, member
  <2>4. active' \in Kept /\ active'.file = a.file /\ active'.next = a.next
    BY <1>3, <1>6, <1>8, <2>1, <2>2, <2>3, CopyIntoKept
  <2> QED  BY <1>8, <2>4
<1>13. Taken(active')
  BY <1>10, <1>11, <1>12
<1>14. /\ entry' \in [Location -> Entry] /\ last' \in [Location -> Nat]
       /\ entry'[l] = e /\ \A k \in Location \ {l} : entry'[k] = entry[k]
       /\ \A k \in Location : entry'[k].version # 0 => entry'[k].text \in Text
  BY <1>1, <1>2, <1>3, SetEntryType DEF IInv
<1>15. /\ comp' \in [Location -> Nat] /\ comp'[l] = e.version
       /\ \A k \in Location \ {l} : comp'[k] = comp[k]
  BY <1>1, <1>2, <1>4 DEF IInv, TypeOK
<1>16. \A k \in Location : active'.next[k].version # 0 =>
         /\ comp'[k] # 0 /\ active'.next[k].version = entry'[k].version /\ ~entry'[k].closed
  <2> SUFFICES ASSUME NEW k \in Location, active'.next[k].version # 0
               PROVE  /\ comp'[k] # 0 /\ active'.next[k].version = entry'[k].version
                      /\ ~entry'[k].closed
    OBVIOUS
  <2>1. CASE k = l
    BY <1>3, <1>8, <1>13, <1>14, <1>15, <2>1
  <2>2. CASE k # l /\ active'.next[k].version = a.next[k].version
    BY <1>8, <1>14, <1>15, <2>2 DEF IInv, ParseInv, Held
  <2>3. CASE k # l /\ Find(k, a) # 0 /\ active'.next[k].version = Find(k, a)
    BY <1>8, <1>14, <1>15, <2>3, FindType, FindHeld DEF IInv, ParseInv
  <2> QED  BY <1>13, <2>1, <2>2, <2>3
<1>17. ParseInv'
  BY <1>1, <1>2, <1>13, <1>16 DEF ParseInv, Held
<1>18. TypeOK'
  BY <1>1, <1>13, <1>14, <1>15 DEF IInv, TypeOK, Kept
<1>19. WorkspaceInv'
  BY <1>1, <1>2, <1>3, <1>14, <1>15 DEF IInv, WorkspaceInv
<1> QED  BY <1>1, <1>17, <1>18, <1>19 DEF IInv

LEMMA SaveStep ==
  ASSUME IInv, Save
  PROVE  IInv'
<1> DEFINE l == Top.at
           v == active.next[l].version
           d == [version |-> v, reads |-> Top.reads,
                 stamps |-> CopyVersions(Top.used) \cup {[at |-> l, version |-> v]}]
           rest == Tail(active.nest)
           a1 == [active EXCEPT !.next[l] = d]
           a2 == [a1 EXCEPT !.nest = rest]
           a == [a2 EXCEPT !.asked = @ \cup {NameOf[l]}]
           member == CHOOSE r \in Top.reads : r.at = l
           counted == member.text \notin Blank
<1>1. active \in Kept /\ active \in Parsing /\ active.nest # <<>>
  BY DEF IInv, ParseInv, Kept, Save
<1>2. Top \in KeptFrame(active.next) /\ rest \in Seq(KeptFrame(active.next))
  <2>1. active.nest \in Seq(KeptFrame(active.next))
    BY <1>1 DEF Kept
  <2> QED  BY <1>1, <2>1, FrameSeq DEF Top
<1>3. /\ l \in Location /\ v # 0 /\ v \in Nat /\ Top.reads \in SUBSET Read /\ Top.used \subseteq Location
      /\ \E r \in Top.reads : r.at = l
  BY <1>1, <1>2 DEF KeptFrame, Frame, Parsing, Dep
<1>4. active.file \in opened /\ active.file \in Program /\ active.file \in File
  BY <1>3, MembersAssumption DEF IInv, ParseInv, Held, File
<1>5. \A k \in Top.used : Find(k, active) \in Nat /\ Find(k, active) # 0
  <2> SUFFICES ASSUME NEW k \in Top.used
               PROVE  Find(k, active) \in Nat /\ Find(k, active) # 0
    OBVIOUS
  <2>1. k \in Location /\ active.next[k].version # 0
    BY <1>2, <1>3 DEF KeptFrame
  <2>2. entry[k].version # 0 /\ ~entry[k].closed /\ entry[k].version = active.next[k].version
    BY <2>1 DEF IInv, ParseInv, Held
  <2>3. Find(k, active) = entry[k].version
    BY <2>2 DEF Find, Alive
  <2> QED  BY <2>1, <2>2, <2>3, FindType DEF IInv
<1>6. d \in Dep /\ d.version = v /\ \A s \in d.stamps : s.version # 0
  <2>1. CopyVersions(Top.used) \in SUBSET Stamp /\ \A s \in CopyVersions(Top.used) : s.version # 0
    BY <1>3, <1>5 DEF CopyVersions, Stamp
  <2>2. [at |-> l, version |-> v] \in Stamp
    BY <1>3 DEF Stamp
  <2> QED  BY <1>3, <2>1, <2>2 DEF Dep
<1>7. member \in Read /\ member.at = l
  BY <1>3
<1>8. /\ deps' = IF deps[active.file][l].version = v THEN [deps EXCEPT ![active.file][l] = d] ELSE deps
      /\ active' = IF NameOf[l] \in Macro THEN [a EXCEPT !.reads = @ \cup Top.reads]
                   ELSE CopyInto(a, member, counted)
      /\ UNCHANGED <<events, disk, watched, entry, last, conf, opened, pending, comp, result, failed>>
  BY <1>5 DEF Save, files
<1>9. NameOf[l] \in Name /\ counted \in BOOLEAN
  BY <1>3, MembersAssumption
<1> HIDE DEF d, v, member, rest, counted
<1>10. /\ a1 \in Kept /\ a1.file = active.file /\ a1.next[l] = d
       /\ \A k \in Location \ {l} : a1.next[k] = active.next[k]
  BY <1>1, <1>3, <1>6, NextKept
<1> HIDE DEF a1
<1>11. rest \in Seq(KeptFrame(a1.next))
  <2>1. \A k \in Location : active.next[k].version # 0 => a1.next[k].version # 0
    BY <1>3, <1>6, <1>10
  <2> QED  BY <1>2, <2>1, FrameSeqGrows
<1>12. a2 \in Kept /\ a2.file = active.file /\ a2.next = a1.next
  BY <1>10, <1>11, FieldsKept
<1> HIDE DEF a2
<1>13. a2.asked \cup {NameOf[l]} \in SUBSET Name
  BY <1>9, <1>12 DEF Kept, Parsing
<1>14. a \in Kept /\ a.file = active.file /\ a.next = a1.next
  BY <1>12, <1>13, FieldsKept
<1> HIDE DEF a
<1>15. active' \in Kept /\ active'.file = active.file /\ active'.next = a1.next
  <2>1. CASE NameOf[l] \in Macro
    <3>1. a.reads \cup Top.reads \in SUBSET Read
      BY <1>3, <1>14 DEF Kept, Parsing
    <3>2. active' = [a EXCEPT !.reads = @ \cup Top.reads]
      BY <1>8, <2>1
    <3> QED  BY <1>14, <3>1, <3>2, FieldsKept
  <2>2. CASE NameOf[l] \notin Macro
    <3>1. a.next[member.at].version # 0
      BY <1>3, <1>6, <1>7, <1>10, <1>14
    <3> QED  BY <1>7, <1>8, <1>9, <1>14, <2>2, <3>1, CopyIntoKept
  <2> QED  BY <2>1, <2>2
<1>16. \A k \in Location : active'.next[k].version = active.next[k].version
  BY <1>6, <1>10, <1>15 DEF v
<1>17. ParseInv'
  BY <1>8, <1>15, <1>16 DEF IInv, ParseInv, Held
<1>18. /\ deps' \in [File -> [Location -> Dep]]
       /\ \A f \in File, k \in Location :
            /\ deps'[f][k].version = deps[f][k].version
            /\ deps'[f][k] = deps[f][k] \/ deps'[f][k] = d
  <2>1. deps \in [File -> [Location -> Dep]]
    BY DEF IInv, TypeOK
  <2>2. CASE deps[active.file][l].version = v
    <3>1. deps' = [deps EXCEPT ![active.file][l] = d]
      BY <1>8, <2>2
    <3> QED  BY <1>3, <1>4, <1>6, <2>1, <2>2, <3>1
  <2>3. CASE deps[active.file][l].version # v
    BY <1>8, <2>1, <2>3
  <2> QED  BY <2>2, <2>3
<1>19. TypeOK'
  BY <1>8, <1>15, <1>18 DEF IInv, TypeOK, Kept
<1>20. WorkspaceInv'
  BY <1>6, <1>8, <1>18 DEF IInv, WorkspaceInv
<1> QED  BY <1>8, <1>17, <1>19, <1>20 DEF IInv

-----------------------------------------------------------------------------
LEMMA InitInv == Init => IInv
<1> SUFFICES ASSUME Init PROVE IInv
  OBVIOUS
<1>1. active \in Kept /\ Held(active)
  BY NoParseKept DEF Init, Held
<1>2. NoEntry \in Entry /\ NoEntry.version = 0
  BY DEF NoEntry, Entry
<1>3. TypeOK
  BY <1>1, <1>2, NoDepsFacts, MembersAssumption DEF Init, TypeOK, Kept
<1>4. WorkspaceInv
  BY <1>2, NoDepsFacts DEF Init, WorkspaceInv
<1> QED  BY <1>1, <1>3, <1>4 DEF Init, IInv, ParseInv

LEMMA NextInv == IInv /\ [Next]_vars => IInv'
<1> SUFFICES ASSUME IInv, [Next]_vars PROVE IInv'
  OBVIOUS
<1>1. CASE Documents
  BY <1>1, ProgramSteps, DidOpenMemberStep, DidCloseMemberStep DEF Documents
<1>2. CASE Files
  BY <1>2, DiskSteps, DidChangeWatchedFilesStep DEF Files
<1>3. CASE Parse
  BY <1>3, ParseBeginStep, NotFoundStep, CopyKnownStep, RequestStep, SaveStep, ParseDoneStep
     DEF Parse
<1>4. CASE UNCHANGED vars
  <2>1. UNCHANGED <<events, files, conf, workspace, active, failed>>
    BY <1>4 DEF vars
  <2> QED  BY <2>1, ParseOnlyStep DEF IInv, ParseInv
<1> QED  BY <1>1, <1>2, <1>3, <1>4 DEF Next

LEMMA Inductive == Spec => []IInv
<1> QED  BY InitInv, NextInv, PTL DEF Spec

(* The variables hold values of their sets, and only open files are marked:*)
(* a parse never starts for a file that somebody closed.                   *)
THEOREM TypeCorrect == Spec => []TypeOK
<1>1. IInv => TypeOK
  BY DEF IInv
<1> QED  BY <1>1, Inductive, PTL

(* The copy members that a macro has used are open when it is saved        *)
(* (get_copy_member_versions): what the parse has taken is held by its     *)
(* next_dependencies, and every step of the editor or of the disk that     *)
(* closes or replaces a file drops the parse first. And                    *)
(* filter_and_close_dependencies never takes the component of a member     *)
(* that an open file still depends on.                                     *)
THEOREM MembersStay == Spec => []MembersStayOpen
<1>1. IInv => OpenAfterParsing
  BY DEF IInv, OpenAfterParsing
<1>2. IInv => DependenciesStay
  BY DEF IInv, WorkspaceInv, TypeOK, DependenciesStay, Uses
<1>3. IInv => MembersStayOpen
  BY <1>1, <1>2 DEF MembersStayOpen
<1> QED  BY <1>3, Inductive, PTL

-----------------------------------------------------------------------------
(* Results, when every text of a member has a statement in it.             *)

(* What next stands for: the texts of the current objects of the files.    *)
Holds(objects, next) ==
  {r \in Read : /\ next[r.at].version # 0 /\ next[r.at].version = objects[r.at].version
                /\ ~objects[r.at].closed /\ objects[r.at].text = r.text}

(* A member that the parse is in has read such texts (ok), and has noted   *)
(* where from.                                                             *)
CurrentFrame(ok) ==
  {x \in Frame : x.reads \subseteq ok /\ \A r \in x.reads : r.at = x.at \/ r.at \in x.used}

IsCurrent(a, ok) ==
  a.reads \subseteq ok /\ a.known \subseteq ok /\ a.nest \in Seq(CurrentFrame(ok))

(* A cached member has a stamp for all that was read to make it, and the   *)
(* version of a stamp, as long as it is the current one, has the same text.*)
Sound(objects, given) ==
  {d \in Dep :
     /\ \A r \in d.reads : \E s \in d.stamps : s.at = r.at
     /\ \A s \in d.stamps : s.version # 0 /\ s.version <= given[s.at]
     /\ \A r \in d.reads, s \in d.stamps :
          s.at = r.at /\ s.version = objects[r.at].version => r.text = objects[r.at].text}

CachesSound ==
  \A l \in Location :
    /\ entry[l].version <= last[l]
    /\ active.next[l] \in Sound(entry, last)
    /\ \A f \in File : deps[f][l] \in Sound(entry, last) /\ deps[f][l].version <= last[l]

ResultsHold == \A f \in opened \ pending : result[f] \subseteq Holds(entry, deps[f])

CInv == CachesSound /\ IsCurrent(active, Holds(entry, active.next)) /\ ResultsHold

(* The objects of a file only become others, with versions of their own.   *)
Forward ==
  \A l \in Location :
    /\ last'[l] \in Nat /\ last[l] <= last'[l]
    /\ \/ entry'[l].version = entry[l].version /\ entry'[l].text = entry[l].text
       \/ entry'[l].version = 0
       \/ entry'[l].version > last[l]

LEMMA SoundKept ==
  ASSUME TypeOK, Forward
  PROVE  Sound(entry, last) \subseteq Sound(entry', last')
<1> SUFFICES ASSUME NEW d \in Sound(entry, last) PROVE d \in Sound(entry', last')
  OBVIOUS
<1>1. /\ d \in Dep
      /\ \A r \in d.reads : r.at \in Location
      /\ \A s \in d.stamps : s.at \in Location /\ s.version \in Nat
  BY DEF Sound, Dep, Read, Stamp
<1>2. \A s \in d.stamps : s.version # 0 /\ s.version <= last'[s.at]
  BY <1>1 DEF Sound, Forward, TypeOK
<1>3. ASSUME NEW r \in d.reads, NEW s \in d.stamps, s.at = r.at, s.version = entry'[r.at].version
      PROVE  r.text = entry'[r.at].text
  <2>1. s.version # 0 /\ s.version <= last[r.at] /\ r.at \in Location
    BY <1>1, <1>3 DEF Sound
  <2>2. last[r.at] \in Nat /\ s.version \in Nat
    BY <1>1, <2>1 DEF TypeOK
  <2>3. entry'[r.at].version = entry[r.at].version /\ entry'[r.at].text = entry[r.at].text
    BY <1>3, <2>1, <2>2 DEF Forward
  <2> QED  BY <1>3, <2>3 DEF Sound
<1> QED  BY <1>1, <1>2, <1>3 DEF Sound

LEMMA SetEntryForward ==
  ASSUME TypeOK, CachesSound, NEW l \in Location, NEW e \in Entry, SetEntry(l, e),
         \/ e.version = entry[l].version /\ e.text = entry[l].text
         \/ e.version = last[l] + 1
  PROVE  /\ Forward /\ \A k \in Location : entry'[k].version <= last'[k]
         /\ entry'[l] = e /\ \A k \in Location \ {l} : entry'[k] = entry[k]
<1>1. /\ e.version \in Nat /\ \A k \in Location : last[k] \in Nat /\ entry[k].version <= last[k]
                                                 /\ entry[k].version \in Nat
  BY DEF TypeOK, Entry, CachesSound
<1>2. entry'[l] = e /\ \A k \in Location \ {l} : entry'[k] = entry[k]
  BY DEF SetEntry, TypeOK
<1>3. /\ last'[l] = IF e.version > last[l] THEN e.version ELSE last[l]
      /\ \A k \in Location \ {l} : last'[k] = last[k]
  BY DEF SetEntry, TypeOK
<1> QED  BY <1>1, <1>2, <1>3 DEF Forward

LEMMA NoDepSound ==
  ASSUME NEW ent, NEW lst
  PROVE  \A l \in Location : NoDeps[l] \in Sound(ent, lst) /\ NoDeps[l].version = 0
BY DEF NoDeps, NoDep, NewDep, Sound, Dep

(* A file that keeps its results and dependencies, when no object changes  *)
(* that it has read.                                                       *)
LEMMA HoldsStill ==
  ASSUME NEW next \in [Location -> Dep],
         \A k \in Location :
           next[k].version # 0 /\ next[k].version = entry[k].version /\ ~entry[k].closed =>
             entry'[k].version = entry[k].version /\ entry'[k].text = entry[k].text
             /\ ~entry'[k].closed
  PROVE  Holds(entry, next) \subseteq Holds(entry', next)
<1>1. \A r \in Read : r.at \in Location
  BY DEF Read
<1> QED  BY <1>1 DEF Holds

(* An event that drops the parse.                                          *)
LEMMA EventSound ==
  ASSUME TypeOK, CachesSound, Forward, Abandon,
         \A k \in Location : entry'[k].version <= last'[k],
         \A f \in File : deps'[f] = deps[f] \/ deps'[f] = NoDeps
  PROVE  CachesSound' /\ IsCurrent(active, Holds(entry, active.next))'
<1>1. /\ active' = NoParse /\ NoParse.next = NoDeps /\ NoParse.reads = {} /\ NoParse.known = {}
      /\ NoParse.nest = <<>>
  BY DEF Abandon, NoParse
<1>2. \A f \in File, l \in Location :
        deps'[f][l] \in Sound(entry', last') /\ deps'[f][l].version <= last'[l]
  <2> SUFFICES ASSUME NEW f \in File, NEW l \in Location
               PROVE  deps'[f][l] \in Sound(entry', last') /\ deps'[f][l].version <= last'[l]
    OBVIOUS
  <2>1. last[l] \in Nat /\ last'[l] \in Nat /\ last[l] <= last'[l]
    BY DEF TypeOK, Forward
  <2>2. CASE deps'[f] = NoDeps
    <3>1. NoDeps[l] \in Sound(entry', last') /\ NoDeps[l].version = 0
      BY NoDepSound
    <3> QED  BY <2>1, <2>2, <3>1
  <2>3. CASE deps'[f] = deps[f]
    <3>1. deps[f][l] \in Sound(entry, last) /\ deps[f][l].version <= last[l]
      BY DEF CachesSound
    <3>2. deps[f][l].version \in Nat
      BY <3>1 DEF Sound, Dep
    <3> QED  BY <2>1, <2>3, <3>1, <3>2, SoundKept
  <2> QED  BY <2>2, <2>3
<1>3. \A l \in Location : active'.next[l] \in Sound(entry', last')
  BY <1>1, NoDepSound
<1>4. CachesSound'
  BY <1>2, <1>3 DEF CachesSound
<1> QED  BY <1>1, <1>4 DEF IsCurrent

LEMMA ProgramCurrent ==
  ASSUME IInv, CInv, NEW p \in Program,
         DidOpenProgram(p) \/ DidChangeProgram(p) \/ DidCloseProgram(p)
  PROVE  CInv'
<1>1. /\ Abandon /\ UNCHANGED <<entry, last>>
      /\ opened' \ pending' \subseteq (opened \ pending) \ {p}
  BY DEF DidOpenProgram, DidChangeProgram, DidCloseProgram, files
<1> DEFINE closing == ToClose(Uses(p), {p}, deps)
<1>2. closing \cap opened = {}
  BY DEF ToClose
<1>3. \A f \in File :
        \/ deps'[f] = deps[f] /\ result'[f] = result[f]
        \/ deps'[f] = NoDeps /\ f \in closing \cup {p}
  BY DEF DidOpenProgram, DidChangeProgram, DidCloseProgram, IInv, TypeOK
<1> HIDE DEF closing
<1>4. CachesSound' /\ IsCurrent(active, Holds(entry, active.next))'
  <2>1. Forward /\ \A k \in Location : entry'[k].version <= last'[k]
    BY <1>1 DEF Forward, IInv, TypeOK, CInv, CachesSound
  <2> QED  BY <1>1, <1>3, <2>1, EventSound DEF IInv, CInv
<1>5. \A f \in opened' \ pending' : deps'[f] = deps[f] /\ result'[f] = result[f]
  BY <1>1, <1>2, <1>3 DEF IInv, TypeOK
<1>6. ResultsHold'
  BY <1>1, <1>5 DEF ResultsHold, CInv, Holds
<1> QED  BY <1>4, <1>6 DEF CInv

LEMMA MemberCurrent ==
  ASSUME IInv, CInv, NEW l \in Location, NEW t \in Text, DidOpenMember(l, t) \/ DidChangeMember(l, t)
  PROVE  CInv'
<1> DEFINE same == Alive(l, NoParse) /\ entry[l].text = t
           old == [entry[l] EXCEPT !.closed = FALSE]
           new == NewEntry(l, t)
<1>1. /\ Abandon /\ UNCHANGED <<deps, result>> /\ opened' \subseteq opened \cup {l}
      /\ pending \cup {l} \subseteq pending'
  BY DEF DidOpenMember, DidChangeMember
<1>2. /\ old \in Entry /\ old.version = entry[l].version /\ old.text = entry[l].text /\ ~old.closed
      /\ new \in Entry /\ new.version = last[l] + 1
  <2>1. entry[l] \in Entry /\ last[l] \in Nat
    BY DEF IInv, TypeOK
  <2>2. old \in Entry /\ old.version = entry[l].version /\ old.text = entry[l].text /\ ~old.closed
    BY <2>1 DEF Entry
  <2>3. new \in Entry /\ new.version = last[l] + 1
    BY <2>1 DEF NewEntry, Entry
  <2> QED  BY <2>2, <2>3
<1>3. \/ SetEntry(l, old)
      \/ SetEntry(l, new) /\ Dependents(l) \subseteq pending'
  BY DEF DidOpenMember, DidChangeMember
<1> HIDE DEF old, new
<1>4. /\ Forward /\ \A k \in Location : entry'[k].version <= last'[k]
      /\ \A k \in Location \ {l} : entry'[k] = entry[k]
      /\ entry'[l] = old \/ Dependents(l) \subseteq pending'
  BY <1>2, <1>3, SetEntryForward DEF IInv, CInv
<1>5. CachesSound' /\ IsCurrent(active, Holds(entry, active.next))'
  BY <1>1, <1>4, EventSound DEF IInv, CInv
<1>6. ResultsHold'
  <2> SUFFICES ASSUME NEW f \in opened' \ pending' PROVE result'[f] \subseteq Holds(entry', deps'[f])
    BY DEF ResultsHold
  <2>1. f \in opened \ pending /\ f \in File
    BY <1>1 DEF IInv, TypeOK
  <2>2. result[f] \subseteq Holds(entry, deps[f]) /\ deps[f] \in [Location -> Dep]
    BY <2>1 DEF CInv, ResultsHold, IInv, TypeOK
  <2>3. deps[f][l].version # 0 => entry'[l] = old
    BY <1>4, <2>1 DEF Dependents, Uses
  <2>4. Holds(entry, deps[f]) \subseteq Holds(entry', deps[f])
    BY <1>2, <1>4, <2>2, <2>3, HoldsStill
  <2> QED  BY <1>1, <2>2, <2>4
<1> QED  BY <1>5, <1>6 DEF CInv

LEMMA CloseMemberCurrent ==
  ASSUME IInv, CInv, NEW l \in Location, DidCloseMember(l)
  PROVE  CInv'
<1> DEFINE users == {f \in File : l \in Uses(f)}
           shut == [entry[l] EXCEPT !.closed = (users = {})]
           new == NewEntry(l, disk[l])
           e == IF users # {} /\ entry[l].text # disk[l] THEN new ELSE shut
           closing == IF users = {} THEN ToClose(Uses(l), {l}, deps) \cup {l} ELSE {}
<1>1. /\ Abandon /\ opened' = opened \ {l} /\ SetEntry(l, e)
      /\ deps' = [f \in File |-> IF f \in closing THEN NoDeps ELSE deps[f]]
      /\ result' = [f \in File |-> IF f \in closing THEN {} ELSE result[f]]
      /\ pending' = (pending \ {l}) \cup (IF \E f \in users : deps[f][l].version # e.version
                                          THEN Dependents(l) \ {l} ELSE {})
  BY DEF DidCloseMember
<1>2. /\ shut \in Entry /\ shut.version = entry[l].version /\ shut.text = entry[l].text
      /\ shut.closed = (users = {})
      /\ new \in Entry /\ new.version = last[l] + 1
  <2>1. entry[l] \in Entry /\ last[l] \in Nat /\ disk[l] \in Text
    BY DEF IInv, TypeOK
  <2>2. /\ shut \in Entry /\ shut.version = entry[l].version /\ shut.text = entry[l].text
        /\ shut.closed = (users = {})
    BY <2>1 DEF Entry
  <2>3. new \in Entry /\ new.version = last[l] + 1
    BY <2>1 DEF NewEntry, Entry
  <2> QED  BY <2>2, <2>3
<1>3. closing \cap opened \subseteq {l}
  BY DEF ToClose
<1>4. \A f \in users : deps[f][l].version <= last[l] /\ last[l] \in Nat /\ deps[f][l].version \in Nat
  BY DEF CInv, CachesSound, IInv, TypeOK, Dep
<1>5. e = shut \/ (e = new /\ users # {})
  OBVIOUS
<1> HIDE DEF e, closing, shut, new
<1>6. e \in Entry
  BY <1>2, <1>5
<1>7. /\ Forward /\ \A k \in Location : entry'[k].version <= last'[k]
      /\ entry'[l] = e /\ \A k \in Location \ {l} : entry'[k] = entry[k]
  BY <1>1, <1>2, <1>5, <1>6, SetEntryForward DEF IInv, CInv
<1>8. CachesSound' /\ IsCurrent(active, Holds(entry, active.next))'
  BY <1>1, <1>7, EventSound DEF IInv, CInv
<1>9. ResultsHold'
  <2> SUFFICES ASSUME NEW f \in opened' \ pending' PROVE result'[f] \subseteq Holds(entry', deps'[f])
    BY DEF ResultsHold
  <2>1. f \in opened \ pending /\ f \in File /\ f # l
    BY <1>1 DEF IInv, TypeOK
  <2>2. result[f] \subseteq Holds(entry, deps[f]) /\ deps[f] \in [Location -> Dep]
    BY <2>1 DEF CInv, ResultsHold, IInv, TypeOK
  <2>3. deps'[f] = deps[f] /\ result'[f] = result[f]
    BY <1>1, <1>3, <2>1
  <2>4. deps[f][l].version # 0 => e = shut /\ users # {}
    <3> SUFFICES ASSUME deps[f][l].version # 0, e = new PROVE FALSE
      BY <1>5, <2>1 DEF Uses
    <3>1. f \in users /\ f \in Dependents(l)
      BY <2>1 DEF Uses, Dependents
    <3>2. deps[f][l].version # e.version
      BY <1>2, <1>4, <3>1
    <3> QED  BY <1>1, <2>1, <3>1, <3>2
  <2>5. Holds(entry, deps[f]) \subseteq Holds(entry', deps[f])
    BY <1>2, <1>7, <2>2, <2>4, HoldsStill
  <2> QED  BY <2>2, <2>3, <2>5
<1> QED  BY <1>8, <1>9 DEF CInv

LEMMA DiskCurrent ==
  ASSUME IInv, CInv,
         \/ \E l \in Location, t \in Text : DiskChanges(l, t)
         \/ \E c \in Config : Reconfigure(c)
  PROVE  CInv'
<1>1. /\ UNCHANGED <<entry, last, opened, deps, result, active>> /\ pending \subseteq pending'
  BY DEF DiskChanges, Reconfigure, workspace, files, IInv, TypeOK
<1> QED  BY <1>1 DEF CInv, CachesSound, ResultsHold

LEMMA WatchedCurrent ==
  ASSUME IInv, CInv, NEW l \in Location, NEW groups \in BOOLEAN, NEW c \in Config,
         DidChangeWatchedFiles(l, groups, c)
  PROVE  CInv'
<1> DEFINE old == [entry EXCEPT ![l].closed = FALSE]
           gone == [entry EXCEPT ![l] = NoEntry]
<1>1. /\ Abandon /\ UNCHANGED <<last, opened, deps, result>>
      /\ pending \subseteq pending' /\ pending' \subseteq opened
  BY DEF DidChangeWatchedFiles, IInv, TypeOK, Dependents
<1>2. \/ entry' = entry \/ entry' = old
      \/ entry' = gone /\ Dependents(l) \subseteq pending'
  BY DEF DidChangeWatchedFiles, Dependents
<1>3. /\ \A k \in Location : /\ old[k].version = entry[k].version /\ old[k].text = entry[k].text
                             /\ ~entry[k].closed => ~old[k].closed
      /\ gone[l].version = 0 /\ \A k \in Location \ {l} : gone[k] = entry[k]
  <2>1. entry \in [Location -> Entry]
    BY DEF IInv, TypeOK
  <2> QED  BY <2>1 DEF Entry, NoEntry
<1> HIDE DEF old, gone
<1>4. Forward /\ \A k \in Location : entry'[k].version <= last'[k]
  <2>1. \A k \in Location : last'[k] = last[k] /\ last[k] \in Nat /\ entry[k].version <= last[k]
    BY <1>1 DEF IInv, TypeOK, CInv, CachesSound
  <2> QED  BY <1>2, <1>3, <2>1 DEF Forward
<1>5. CachesSound' /\ IsCurrent(active, Holds(entry, active.next))'
  BY <1>1, <1>4, EventSound DEF IInv, CInv
<1>6. ResultsHold'
  <2> SUFFICES ASSUME NEW f \in opened' \ pending' PROVE result'[f] \subseteq Holds(entry', deps'[f])
    BY DEF ResultsHold
  <2>1. f \in opened \ pending /\ f \in File
    BY <1>1 DEF IInv, TypeOK
  <2>2. result[f] \subseteq Holds(entry, deps[f]) /\ deps[f] \in [Location -> Dep]
    BY <2>1 DEF CInv, ResultsHold, IInv, TypeOK
  <2>3. deps[f][l].version # 0 => entry' \in {entry, old}
    BY <1>2, <2>1 DEF Dependents, Uses
  <2>4. Holds(entry, deps[f]) \subseteq Holds(entry', deps[f])
    <3>1. ASSUME NEW k \in Location, deps[f][k].version # 0, ~entry[k].closed
          PROVE  /\ entry'[k].version = entry[k].version /\ entry'[k].text = entry[k].text
                 /\ ~entry'[k].closed
      BY <1>2, <1>3, <2>3, <3>1
    <3> QED  BY <2>2, <3>1, HoldsStill
  <2> QED  BY <1>1, <2>2, <2>4
<1> QED  BY <1>5, <1>6 DEF CInv

-----------------------------------------------------------------------------
(* A parse.                                                                *)

LEMMA MoreCurrent ==
  ASSUME NEW a, NEW ok, NEW more, ok \subseteq more, IsCurrent(a, ok)
  PROVE  IsCurrent(a, more)
<1>1. CurrentFrame(ok) \subseteq CurrentFrame(more)
  BY DEF CurrentFrame
<1>2. a.nest \in Seq(CurrentFrame(more))
  BY <1>1 DEF IsCurrent
<1> QED  BY <1>2 DEF IsCurrent

LEMMA FieldsCurrent ==
  ASSUME NEW a \in Parsing, NEW ok, IsCurrent(a, ok)
  PROVE  /\ \A x \in SUBSET Name : IsCurrent([a EXCEPT !.asked = x], ok)
         /\ \A x \in SUBSET ok : IsCurrent([a EXCEPT !.reads = x], ok)
         /\ \A x \in Seq(CurrentFrame(ok)) : IsCurrent([a EXCEPT !.nest = x], ok)
<1>1. ASSUME NEW x \in SUBSET Name PROVE IsCurrent([a EXCEPT !.asked = x], ok)
  BY DEF IsCurrent, Parsing
<1>2. ASSUME NEW x \in SUBSET ok PROVE IsCurrent([a EXCEPT !.reads = x], ok)
  BY DEF IsCurrent, Parsing
<1>3. ASSUME NEW x \in Seq(CurrentFrame(ok)) PROVE IsCurrent([a EXCEPT !.nest = x], ok)
  <2> DEFINE b == [a EXCEPT !.nest = x]
  <2>1. b.nest = x /\ b.reads = a.reads /\ b.known = a.known
    BY DEF Parsing
  <2> HIDE DEF b
  <2>2. IsCurrent(b, ok)
    BY <2>1 DEF IsCurrent
  <2> QED  BY <2>2 DEF b
<1> QED  BY <1>1, <1>2, <1>3

(* A copy member with a statement in it is noted by the macro that copies  *)
(* it.                                                                     *)
LEMMA CopyIntoCurrent ==
  ASSUME NEW a \in Parsing, NEW ok \in SUBSET Read, IsCurrent(a, ok), NEW r \in ok
  PROVE  IsCurrent(CopyInto(a, r, TRUE), ok)
<1> DEFINE known == {k \in a.known : NameOf[k.at] # NameOf[r.at]} \cup {r}
           top == Head(a.nest)
           rest == Tail(a.nest)
           fr == [top EXCEPT !.todo = @ \ {NameOf[r.at]}, !.reads = @ \cup {r},
                             !.used = @ \cup {r.at}]
           nest == <<fr>> \o rest
           a1 == [a EXCEPT !.known = known]
           b == CopyInto(a, r, TRUE)
<1>1. /\ known \subseteq ok /\ r \in Read /\ r.at \in Location
  BY DEF IsCurrent, Read
<1>2. a1.known = known /\ a1.nest = a.nest /\ a1.reads = a.reads /\ a1 \in Parsing
  BY <1>1 DEF Parsing
<1>3. CASE a.nest = <<>>
  <2>1. b = [a1 EXCEPT !.reads = @ \cup {r}]
    BY <1>3 DEF CopyInto
  <2> HIDE DEF a1, b, known
  <2>2. b.known = known /\ b.nest = a.nest /\ b.reads = a.reads \cup {r}
    BY <1>2, <2>1 DEF Parsing
  <2> QED  BY <1>1, <2>2 DEF IsCurrent, b
<1>4. CASE a.nest # <<>>
  <2>1. top \in CurrentFrame(ok) /\ rest \in Seq(CurrentFrame(ok))
    <3>1. a.nest \in Seq(CurrentFrame(ok))
      BY DEF IsCurrent
    <3> QED  BY <1>4, <3>1, FrameSeq
  <2>2. fr \in CurrentFrame(ok)
    <3>1. top \in Frame /\ top.reads \subseteq ok /\ \A q \in top.reads : q.at = top.at \/ q.at \in top.used
      BY <2>1 DEF CurrentFrame
    <3>2. /\ fr \in Frame /\ fr.at = top.at /\ fr.used = top.used \cup {r.at}
          /\ fr.reads = top.reads \cup {r}
      BY <1>1, <3>1 DEF Frame
    <3> QED  BY <3>1, <3>2 DEF CurrentFrame
  <2>3. b = [a1 EXCEPT !.nest = nest]
    BY <1>4 DEF CopyInto
  <2> HIDE DEF fr, rest
  <2>4. nest \in Seq(CurrentFrame(ok))
    BY <2>1, <2>2, FrameSeq
  <2> HIDE DEF a1, b, known, nest
  <2>5. b.known = known /\ b.nest = nest /\ b.reads = a.reads
    BY <1>2, <2>3 DEF Parsing
  <2> QED  BY <1>1, <2>4, <2>5 DEF IsCurrent, b
<1> QED  BY <1>3, <1>4

(* Steps that change nothing but the parse, and not what it depends on.    *)
LEMMA ParseOnlyCurrent ==
  ASSUME CInv, active'.next = active.next, IsCurrent(active', Holds(entry, active.next)),
         UNCHANGED <<events, files, conf, workspace, failed>>
  PROVE  CInv'
<1>1. UNCHANGED <<entry, last, opened, pending, deps, result>>
  BY DEF files, workspace
<1> QED  BY <1>1 DEF CInv, CachesSound, ResultsHold

LEMMA ParseBeginCurrent ==
  ASSUME IInv, CInv, NEW f \in File, ParseBegin(f)
  PROVE  CInv'
<1>1. UNCHANGED <<entry, last, opened, pending, deps, result>>
  BY DEF ParseBegin, files, workspace
<1>2. /\ active'.next = NoDeps /\ active'.reads = {} /\ active'.known = {} /\ active'.nest = <<>>
  <2> DEFINE a1 == [NoParse EXCEPT !.file = f]
  <2>1. NoParse \in Parsing /\ NoParse.nest = <<>> /\ NoParse.known = {} /\ NoParse.next = NoDeps
        /\ NoParse.reads = {}
    BY NoParseKept DEF Kept, NoParse
  <2>2. a1 \in Parsing /\ a1.nest = <<>> /\ a1.known = {} /\ a1.next = NoDeps /\ a1.reads = {}
    BY <2>1 DEF Parsing
  <2>3. active' = [a1 EXCEPT !.conf = conf]
    BY DEF ParseBegin
  <2> HIDE DEF a1
  <2> QED  BY <2>2, <2>3 DEF Parsing
<1>3. \A l \in Location : active'.next[l] \in Sound(entry, last)
  BY <1>2, NoDepSound
<1>4. CachesSound'
  BY <1>1, <1>3 DEF CInv, CachesSound
<1>5. IsCurrent(active', Holds(entry', active'.next))
  BY <1>2 DEF IsCurrent
<1> QED  BY <1>1, <1>4, <1>5 DEF CInv, ResultsHold

LEMMA NotFoundCurrent ==
  ASSUME IInv, CInv, NEW n \in Name, NotFound(n)
  PROVE  CInv'
<1> DEFINE asked == active.asked \cup {n}
           fr == [Top EXCEPT !.todo = @ \ {n}]
           rest == Tail(active.nest)
           nest == IF active.nest = <<>> THEN active.nest ELSE <<fr>> \o rest
           a1 == [active EXCEPT !.asked = asked]
           ok == Holds(entry, active.next)
<1>1. active \in Parsing /\ IsCurrent(active, ok)
  BY DEF IInv, ParseInv, Kept, CInv
<1> HIDE DEF ok
<1>2. asked \in SUBSET Name
  BY <1>1 DEF Parsing
<1>3. nest \in Seq(CurrentFrame(ok))
  <2>1. active.nest \in Seq(CurrentFrame(ok))
    BY <1>1 DEF IsCurrent
  <2>2. CASE active.nest # <<>>
    <3>1. Top \in CurrentFrame(ok) /\ rest \in Seq(CurrentFrame(ok))
      BY <2>1, <2>2, FrameSeq DEF Top
    <3>2. fr \in CurrentFrame(ok)
      <4>1. fr \in Frame /\ fr.at = Top.at /\ fr.used = Top.used /\ fr.reads = Top.reads
        BY <3>1 DEF CurrentFrame, Frame
      <4> QED  BY <3>1, <4>1 DEF CurrentFrame
    <3> HIDE DEF fr, rest
    <3>3. <<fr>> \o rest \in Seq(CurrentFrame(ok))
      BY <3>1, <3>2, FrameSeq
    <3> QED  BY <2>2, <3>3
  <2> QED  BY <2>1, <2>2
<1>4. active' = [a1 EXCEPT !.nest = nest]
  BY DEF NotFound
<1> HIDE DEF nest, asked
<1>5. a1 \in Parsing /\ a1.next = active.next /\ IsCurrent(a1, ok)
  <2>1. a1 \in Parsing /\ a1.next = active.next
    BY <1>1, <1>2 DEF Parsing
  <2> QED  BY <1>1, <1>2, <2>1, FieldsCurrent
<1> HIDE DEF a1
<1>6. active'.next = active.next
  BY <1>4, <1>5 DEF Parsing
<1>7. IsCurrent(active', ok)
  BY <1>3, <1>4, <1>5, FieldsCurrent
<1> QED  BY <1>6, <1>7, ParseOnlyCurrent DEF NotFound, ok

LEMMA CopyKnownCurrent ==
  ASSUME IInv, CInv, NEW n \in Name, CopyKnown(n)
  PROVE  CInv'
<1> DEFINE ok == Holds(entry, active.next)
<1>1. active \in Kept /\ active \in Parsing /\ IsCurrent(active, ok) /\ ok \in SUBSET Read
  BY DEF IInv, ParseInv, Kept, CInv, Holds
<1> HIDE DEF ok
<1>2. PICK r \in active.known : active' = CopyInto(active, r, TRUE)
  BY DEF CopyKnown, KnownAs
<1>3. r \in ok /\ r \in Read /\ active.next[r.at].version # 0
  BY <1>1 DEF IsCurrent, Kept, Parsing
<1>4. active'.next = active.next
  BY <1>1, <1>2, <1>3, CopyIntoKept
<1>5. IsCurrent(active', ok)
  BY <1>1, <1>2, <1>3, CopyIntoCurrent
<1> QED  BY <1>4, <1>5, ParseOnlyCurrent DEF CopyKnown, ok

LEMMA ParseDoneCurrent ==
  ASSUME IInv, CInv, ParseDone
  PROVE  CInv'
<1> DEFINE f == active.file
           new == [deps EXCEPT ![f] = active.next]
           closing == ToClose({l \in Uses(f) : active.next[l].version = 0}, {}, new)
<1>1. /\ Abandon /\ UNCHANGED <<entry, last, opened>> /\ pending' = pending \ {f}
      /\ deps' = [g \in File |-> IF g \in closing THEN NoDeps ELSE new[g]]
      /\ result' = [g \in File |-> IF g \in closing THEN {}
                                   ELSE IF g = f THEN active.reads ELSE result[g]]
  BY DEF ParseDone, Abandon, files
<1>2. f \in File /\ f \in opened /\ closing \cap opened = {}
  BY DEF ParseDone, IInv, ParseInv, Held, TypeOK, ToClose
<1>3. \A g \in File : new[g] = IF g = f THEN active.next ELSE deps[g]
  BY <1>2 DEF IInv, TypeOK
<1> HIDE DEF closing, new, f
<1>4. active.next \in [Location -> Dep] /\ active.reads \subseteq Holds(entry, active.next)
  BY DEF IInv, TypeOK, Parsing, CInv, IsCurrent
<1>5. \A l \in Location : /\ last[l] \in Nat /\ entry[l].version <= last[l]
                          /\ active.next[l] \in Sound(entry, last)
                          /\ active.next[l].version <= last[l]
  <2> SUFFICES ASSUME NEW l \in Location
               PROVE  /\ last[l] \in Nat /\ entry[l].version <= last[l]
                      /\ active.next[l] \in Sound(entry, last)
                      /\ active.next[l].version <= last[l]
    OBVIOUS
  <2>1. /\ last[l] \in Nat /\ entry[l].version <= last[l] /\ active.next[l] \in Sound(entry, last)
    BY DEF IInv, TypeOK, CInv, CachesSound
  <2>2. active.next[l].version # 0 => active.next[l].version = entry[l].version
    BY DEF IInv, ParseInv, Held
  <2> QED  BY <2>1, <2>2
<1>6. \A g \in File, l \in Location :
        deps'[g][l] \in Sound(entry, last) /\ deps'[g][l].version <= last[l]
  <2> SUFFICES ASSUME NEW g \in File, NEW l \in Location
               PROVE  deps'[g][l] \in Sound(entry, last) /\ deps'[g][l].version <= last[l]
    OBVIOUS
  <2>1. CASE g \in closing
    <3>1. deps'[g] = NoDeps
      BY <1>1, <2>1
    <3>2. NoDeps[l] \in Sound(entry, last) /\ NoDeps[l].version = 0
      BY NoDepSound
    <3> QED  BY <1>5, <3>1, <3>2
  <2>2. CASE g \notin closing
    <3>1. deps'[g] = active.next \/ deps'[g] = deps[g]
      BY <1>1, <1>3, <2>2
    <3> QED  BY <1>5, <3>1 DEF CInv, CachesSound
  <2> QED  BY <2>1, <2>2
<1>7. /\ active' = NoParse /\ NoParse.next = NoDeps /\ NoParse.reads = {} /\ NoParse.known = {}
      /\ NoParse.nest = <<>>
  BY <1>1 DEF Abandon, NoParse
<1>8. \A l \in Location : active'.next[l] \in Sound(entry, last)
  BY <1>7, NoDepSound
<1>9. CachesSound'
  BY <1>1, <1>5, <1>6, <1>8 DEF CachesSound
<1>10. IsCurrent(active, Holds(entry, active.next))'
  BY <1>7 DEF IsCurrent
<1>11. ResultsHold'
  <2> SUFFICES ASSUME NEW g \in opened' \ pending' PROVE result'[g] \subseteq Holds(entry', deps'[g])
    BY DEF ResultsHold
  <2>1. g \in opened /\ g \in File /\ g \notin closing /\ (g # f => g \in opened \ pending)
    BY <1>1, <1>2 DEF IInv, TypeOK
  <2>2. /\ deps'[g] = IF g = f THEN active.next ELSE deps[g]
        /\ result'[g] = IF g = f THEN active.reads ELSE result[g]
    BY <1>1, <1>3, <2>1
  <2> QED  BY <1>1, <1>4, <2>1, <2>2 DEF CInv, ResultsHold
<1> QED  BY <1>9, <1>10, <1>11 DEF CInv

LEMMA CacheSound ==
  ASSUME TypeOK, CachesSound, active.file \in File, NEW a, a.file = active.file, NEW l \in Location,
         a.next[l] = active.next[l], NEW v \in Nat
  PROVE  Cache(a, l, v) \in Sound(entry, last)
<1>1. /\ active.next[l] \in Sound(entry, last) /\ deps[active.file][l] \in Sound(entry, last)
  BY DEF CachesSound
<1>2. NewDep(v) \in Sound(entry, last)
  BY DEF NewDep, Sound, Dep
<1> QED  BY <1>1, <1>2 DEF Cache

LEMMA CarryOverFields ==
  ASSUME NEW a \in Parsing, NEW l \in Location, NEW d \in Dep
  PROVE  LET b == CarryOver(a, l, d) IN
           /\ b.nest = a.nest /\ b.reads = a.reads /\ b.known \subseteq a.known \cup d.reads
           /\ \A k \in Location : b.next[k] \in {a.next[k], Cache(a, k, Find(k, a))}
           /\ \A s \in d.stamps : s.at # l => b.next[s.at] = Cache(a, s.at, Find(s.at, a))
<1> DEFINE copies == {s \in d.stamps : s.at # l}
           loaded == {r \in d.reads : \E s \in copies : s.at = r.at}
           next == [k \in Location |->
                      IF \E s \in copies : s.at = k THEN Cache(a, k, Find(k, a)) ELSE a.next[k]]
           known == {r \in a.known : \A q \in loaded : NameOf[q.at] # NameOf[r.at]} \cup loaded
           b == CarryOver(a, l, d)
<1>1. known \subseteq a.known \cup d.reads
  OBVIOUS
<1>2. \A k \in Location : next[k] \in {a.next[k], Cache(a, k, Find(k, a))}
  OBVIOUS
<1>3. \A s \in d.stamps : s.at # l => next[s.at] = Cache(a, s.at, Find(s.at, a))
  <2>1. \A s \in d.stamps : s.at \in Location
    BY DEF Dep, Stamp
  <2> QED  BY <2>1
<1>4. b = [a EXCEPT !.next = next, !.known = known]
  BY DEF CarryOver, Parsing
<1> HIDE DEF next, known, b
<1>5. b.next = next /\ b.known = known /\ b.nest = a.nest /\ b.reads = a.reads
  BY <1>4 DEF Parsing
<1> QED  BY <1>1, <1>2, <1>3, <1>5 DEF b

(* What is in the cache, when it is valid, was read from the texts of now. *)
LEMMA ValidCurrent ==
  ASSUME TypeOK, NEW d \in Sound(entry, last), Valid(d, active), NEW r \in d.reads
  PROVE  /\ r \in Read /\ r.at \in Location /\ Find(r.at, active) # 0 /\ entry[r.at].text = r.text
         /\ \E s \in d.stamps : s.at = r.at
<1>1. r \in Read /\ r.at \in Location
  BY DEF Sound, Dep, Read
<1>2. PICK s \in d.stamps : s.at = r.at
  BY DEF Sound
<1>3. s.version # 0 /\ Find(r.at, active) = s.version
  BY <1>2 DEF Sound, Valid
<1>4. entry[r.at].version = s.version
  BY <1>1, <1>3, FindType
<1> QED  BY <1>1, <1>2, <1>3, <1>4 DEF Sound

LEMMA RequestCurrent ==
  ASSUME Blank = {}, IInv, CInv, NEW n \in Name, Request(n)
  PROVE  CInv'
<1> DEFINE l == Resolved(n)
           e == IF active.next[l].version # 0 THEN entry[l] ELSE Added(l, active)
           d == Cache(active, l, e.version)
           a == [active EXCEPT !.next[l] = d]
           a2 == [a EXCEPT !.asked = @ \cup {n}]
           member == [at |-> l, text |-> e.text]
           fr == [at |-> l, reads |-> {member}, used |-> {},
                  todo |-> IF n \in Macro THEN Copies[e.text] ELSE {}]
           carried == CarryOver(a, l, d)
           carried2 == [carried EXCEPT !.asked = @ \cup {n}]
           ok == Holds(entry, active.next)
           more == Holds(entry', active'.next)
           (* What the parse depends on after the request. *)
           Taken(b) == /\ b.next[l].version # 0
                       /\ \A k \in Location :
                            /\ b.next[k] \in Sound(entry, last)
                            /\ active.next[k].version # 0 => b.next[k].version # 0
<1>1. SetEntry(l, e) /\ UNCHANGED <<opened, pending, deps, result>>
  BY DEF Request
<1>2. /\ active \in Kept /\ active \in Parsing /\ active.file \in File /\ l \in Location
  BY WantedFacts DEF Request, Resolved, Parsing
<1>3. /\ e \in Entry /\ e.version # 0 /\ ~e.closed /\ e.text \in Text
      /\ d \in Dep /\ d.version = e.version /\ \A s \in d.stamps : s.version # 0
  BY <1>2, RequestedFacts
<1>4. e.version \in Nat
  BY <1>3 DEF Entry
<1>5. /\ active' = IF ~Valid(d, active) THEN [a EXCEPT !.nest = <<fr>> \o @]
                   ELSE IF n \in Macro
                     THEN [carried EXCEPT !.asked = @ \cup {n}, !.reads = @ \cup d.reads]
                   ELSE CopyInto([a EXCEPT !.asked = @ \cup {n}], member, TRUE)
  <2>1. (e.text \notin Blank) = TRUE
    OBVIOUS
  <2>2. active' = IF ~Valid(d, active) THEN [a EXCEPT !.nest = <<fr>> \o @]
                  ELSE IF n \in Macro
                    THEN [carried EXCEPT !.asked = @ \cup {n}, !.reads = @ \cup d.reads]
                  ELSE CopyInto([a EXCEPT !.asked = @ \cup {n}], member, e.text \notin Blank)
    BY DEF Request
  <2> HIDE DEF fr, carried, a, d, member, e
  <2> QED  BY <2>1, <2>2
<1>6. /\ active.next[l].version # 0 \/ Find(l, active) # 0 => e = entry[l]
      /\ \/ e.version = entry[l].version /\ e.text = entry[l].text
         \/ e.version = last[l] + 1
  <2>1. CASE active.next[l].version # 0
    BY <2>1
  <2>2. CASE active.next[l].version = 0 /\ Find(l, active) # 0
    BY <2>2 DEF Added
  <2>3. CASE active.next[l].version = 0 /\ Find(l, active) = 0
    <3>1. \/ Added(l, active) = [entry[l] EXCEPT !.closed = FALSE]
          \/ Added(l, active) = NewEntry(l, disk[l])
      BY <2>3 DEF Added
    <3>2. entry[l] \in Entry
      BY <1>2 DEF IInv, TypeOK
    <3> QED  BY <2>3, <3>1, <3>2 DEF NewEntry, Entry
  <2> QED  BY <2>1, <2>2, <2>3
<1>7. d \in Sound(entry, last)
  BY <1>2, <1>4, CacheSound DEF IInv, CInv
<1> HIDE DEF e, l
<1>8. member \in Read /\ member.at = l /\ member.text = e.text
  BY <1>2, <1>3 DEF Read
<1>9. fr \in Frame /\ fr.at = l /\ fr.reads = {member}
  BY <1>2, <1>3, <1>8, MembersAssumption DEF Frame
<1> HIDE DEF d
<1>10. /\ a \in Kept /\ a.file = active.file /\ a.nest = active.nest /\ a.next[l] = d
       /\ a.reads = active.reads /\ a.known = active.known
       /\ \A k \in Location \ {l} : a.next[k] = active.next[k]
  <2>1. a.known = active.known
    BY <1>2 DEF Parsing
  <2> QED  BY <1>2, <1>3, <2>1, NextKept
<1> HIDE DEF a
<1>11. IsCurrent(a, ok) /\ a \in Parsing /\ a.asked \cup {n} \in SUBSET Name
  BY <1>10 DEF CInv, IsCurrent, Kept, Parsing
<1>12. Taken(a)
  BY <1>3, <1>7, <1>10 DEF CInv, CachesSound
<1>13. IInv'
  BY RequestStep
<1>14. /\ Forward /\ \A k \in Location : entry'[k].version <= last'[k]
       /\ entry'[l] = e /\ \A k \in Location \ {l} : entry'[k] = entry[k]
  BY <1>1, <1>2, <1>3, <1>6, SetEntryForward DEF IInv, CInv
<1> HIDE DEF fr, member, carried, carried2, ok, more
(* The texts that the parse depended on are those of now, and so is the one *)
(* of the member.                                                          *)
<1>15. ASSUME Taken(active')
       PROVE  ok \subseteq more /\ member \in more
  <2>1. \A k \in Location : active'.next[k].version # 0 =>
          active'.next[k].version = entry'[k].version /\ ~entry'[k].closed
    BY <1>13 DEF IInv, ParseInv, Held
  <2>2. ASSUME NEW r \in ok PROVE r \in more
    <3>1. r \in Read /\ r.at \in Location /\ active.next[r.at].version # 0 /\ entry[r.at].text = r.text
      BY <2>2 DEF ok, Holds, Read
    <3>2. entry'[r.at] = entry[r.at]
      BY <1>6, <1>14, <3>1
    <3> QED  BY <1>15, <2>1, <3>1, <3>2 DEF more, Holds
  <2>3. member \in more
    BY <1>2, <1>8, <1>14, <1>15, <2>1 DEF more, Holds
  <2> QED  BY <2>2, <2>3
<1>16. ASSUME ~Valid(d, active)
       PROVE  Taken(active') /\ IsCurrent(active', more)
  <2> DEFINE nest == <<fr>> \o a.nest
  <2>1. active' = [a EXCEPT !.nest = nest]
    BY <1>5, <1>16
  <2>2. active'.next = a.next
    BY <1>11, <2>1 DEF Parsing
  <2>3. Taken(active') /\ ok \subseteq more /\ member \in more
    BY <1>12, <1>15, <2>2
  <2>4. fr \in CurrentFrame(more)
    BY <1>8, <1>9, <2>3 DEF CurrentFrame
  <2>5. IsCurrent(a, more)
    BY <1>11, <2>3, MoreCurrent
  <2>6. nest \in Seq(CurrentFrame(more))
    <3>1. a.nest \in Seq(CurrentFrame(more))
      BY <2>5 DEF IsCurrent
    <3> QED  BY <2>4, <3>1, FrameSeq
  <2> HIDE DEF nest
  <2>7. IsCurrent(active', more)
    BY <1>11, <2>1, <2>5, <2>6, FieldsCurrent
  <2> QED  BY <2>3, <2>7
<1>17. ASSUME Valid(d, active) /\ n \in Macro
       PROVE  Taken(active') /\ IsCurrent(active', more)
  <2>1. active' = [carried2 EXCEPT !.reads = @ \cup d.reads]
    BY <1>5, <1>17 DEF carried2, carried
  <2>2. \A s \in d.stamps : s.at \in Location /\ (s.at # l => Find(s.at, a) # 0)
    <3> SUFFICES ASSUME NEW s \in d.stamps PROVE s.at \in Location /\ (s.at # l => Find(s.at, a) # 0)
      OBVIOUS
    <3>1. Find(s.at, active) # 0 /\ s.at \in Location
      BY <1>3, <1>17 DEF Valid, Dep, Stamp
    <3>2. s.at # l => a.next[s.at] = active.next[s.at]
      BY <1>10, <3>1
    <3> QED  BY <3>1, <3>2 DEF Find, Alive
  <2>3. /\ carried \in Kept /\ carried.file = a.file
        /\ \A k \in Location :
             \/ carried.next[k].version = a.next[k].version
             \/ k # l /\ Find(k, a) # 0 /\ carried.next[k].version = Find(k, a)
    BY <1>2, <1>3, <1>10, <2>2, CarryOverKept DEF IInv, carried
  <2>4. /\ carried.nest = a.nest /\ carried.reads = a.reads /\ carried.known \subseteq a.known \cup d.reads
        /\ \A k \in Location : carried.next[k] \in {a.next[k], Cache(a, k, Find(k, a))}
        /\ \A s \in d.stamps : s.at # l => carried.next[s.at] = Cache(a, s.at, Find(s.at, a))
    BY <1>2, <1>3, <1>11, CarryOverFields DEF carried
  <2>5. carried \in Parsing /\ carried.asked \cup {n} \in SUBSET Name
    BY <2>3 DEF Kept, Parsing
  <2>6. /\ carried2 \in Parsing /\ carried2.next = carried.next /\ carried2.nest = carried.nest
        /\ carried2.known = carried.known /\ carried2.reads = carried.reads
    BY <2>5 DEF Parsing, carried2
  <2>7. active'.next = carried.next
    BY <2>1, <2>6 DEF Parsing
  <2>8. \A k \in Location : k # l => carried.next[k] \in Sound(entry, last)
    <3> SUFFICES ASSUME NEW k \in Location, k # l PROVE carried.next[k] \in Sound(entry, last)
      OBVIOUS
    <3>1. a.next[k] = active.next[k] /\ Find(k, a) \in Nat
      BY <1>10, FindType DEF IInv
    <3>2. Cache(a, k, Find(k, a)) \in Sound(entry, last)
      BY <1>2, <1>10, <3>1, CacheSound DEF IInv, CInv
    <3> QED  BY <1>12, <2>4, <3>2
  <2>9. carried.next[l] \in Sound(entry, last) /\ carried.next[l].version # 0
    <3>1. carried.next[l].version = a.next[l].version
      BY <1>2, <2>3
    <3>2. Cache(a, l, Find(l, a)) = a.next[l]
      BY <1>2, <1>3, <1>10 DEF Cache
    <3> QED  BY <1>2, <1>12, <2>4, <3>1, <3>2
  <2>10. Taken(active')
    BY <1>12, <2>3, <2>7, <2>8, <2>9
  <2>11. ok \subseteq more
    BY <1>15, <2>10
  <2>12. d.reads \subseteq more
    <3> SUFFICES ASSUME NEW r \in d.reads PROVE r \in more
      OBVIOUS
    <3>1. /\ r \in Read /\ r.at \in Location /\ Find(r.at, active) # 0 /\ entry[r.at].text = r.text
          /\ \E s \in d.stamps : s.at = r.at
      BY <1>7, <1>17, ValidCurrent DEF IInv
    <3>2. entry'[r.at] = entry[r.at]
      BY <1>6, <1>14, <3>1
    <3>3. active'.next[r.at].version # 0
      <4>1. CASE r.at = l
        BY <2>7, <2>9, <4>1
      <4>2. CASE r.at # l
        <5>1. carried.next[r.at] = Cache(a, r.at, Find(r.at, a)) /\ Find(r.at, a) # 0
          BY <2>2, <2>4, <3>1, <4>2
        <5>2. Find(r.at, a) \in Nat
          BY <3>1, FindType DEF IInv
        <5>3. Cache(a, r.at, Find(r.at, a)).version # 0
          BY <1>2, <1>10, <1>11, <3>1, <5>1, <5>2, CacheType DEF IInv
        <5> QED  BY <2>7, <5>1, <5>3
      <4> QED  BY <4>1, <4>2
    <3>4. active'.next[r.at].version = entry'[r.at].version /\ ~entry'[r.at].closed
      BY <1>13, <3>1, <3>3 DEF IInv, ParseInv, Held
    <3> QED  BY <3>1, <3>2, <3>3, <3>4 DEF more, Holds
  <2>13. IsCurrent(carried2, more)
    <3>1. a.reads \subseteq more /\ a.known \subseteq more /\ a.nest \in Seq(CurrentFrame(more))
      BY <1>11, <2>11, MoreCurrent DEF IsCurrent
    <3> QED  BY <2>4, <2>6, <2>12, <3>1 DEF IsCurrent
  <2>14. carried2.reads \cup d.reads \in SUBSET more
    BY <2>12, <2>13 DEF IsCurrent
  <2>15. IsCurrent(active', more)
    BY <2>1, <2>6, <2>13, <2>14, FieldsCurrent
  <2> QED  BY <2>10, <2>15
<1>18. ASSUME Valid(d, active) /\ n \notin Macro
       PROVE  Taken(active') /\ IsCurrent(active', more)
  <2>1. active' = CopyInto(a2, member, TRUE)
    BY <1>5, <1>18
  <2>2. a2 \in Kept /\ a2.next = a.next /\ IsCurrent(a2, ok) /\ a2 \in Parsing
    <3>1. a2 \in Kept /\ a2.next = a.next
      BY <1>10, <1>11, FieldsKept
    <3>2. IsCurrent(a2, ok)
      BY <1>11, FieldsCurrent
    <3> QED  BY <3>1, <3>2 DEF Kept
  <2> HIDE DEF a2
  <2>3. a2.next[member.at].version # 0
    BY <1>3, <1>8, <1>10, <2>2
  <2>4. active'.next = a.next
    BY <1>8, <2>1, <2>2, <2>3, CopyIntoKept
  <2>5. Taken(active') /\ ok \subseteq more /\ member \in more
    BY <1>12, <1>15, <2>4
  <2>6. more \in SUBSET Read /\ IsCurrent(a2, more)
    <3>1. more \in SUBSET Read
      BY DEF more, Holds
    <3> QED  BY <2>2, <2>5, <3>1, MoreCurrent
  <2>7. IsCurrent(active', more)
    BY <2>1, <2>2, <2>5, <2>6, CopyIntoCurrent
  <2> QED  BY <2>5, <2>7
<1>19. Taken(active') /\ IsCurrent(active', more)
  BY <1>16, <1>17, <1>18
<1>20. CachesSound'
  <2> SUFFICES ASSUME NEW k \in Location
               PROVE  /\ entry'[k].version <= last'[k]
                      /\ active'.next[k] \in Sound(entry', last')
                      /\ \A f \in File : deps'[f][k] \in Sound(entry', last') /\ deps'[f][k].version <= last'[k]
    BY DEF CachesSound
  <2>1. Sound(entry, last) \subseteq Sound(entry', last')
    BY <1>14, SoundKept DEF IInv
  <2>2. last[k] \in Nat /\ last'[k] \in Nat /\ last[k] <= last'[k]
    BY <1>14 DEF Forward, IInv, TypeOK
  <2>3. \A f \in File : /\ deps[f][k] \in Sound(entry, last) /\ deps[f][k].version <= last[k]
                        /\ deps[f][k].version \in Nat
    BY DEF CInv, CachesSound, Sound, Dep
  <2> QED  BY <1>1, <1>14, <1>19, <2>1, <2>2, <2>3
<1>21. ResultsHold'
  <2> SUFFICES ASSUME NEW f \in opened \ pending PROVE result[f] \subseteq Holds(entry', deps[f])
    BY <1>1 DEF ResultsHold
  <2>1. f \in File /\ deps[f] \in [Location -> Dep] /\ result[f] \subseteq Holds(entry, deps[f])
    BY DEF CInv, ResultsHold, IInv, TypeOK
  <2>2. deps[f][l].version # 0 /\ deps[f][l].version = entry[l].version /\ ~entry[l].closed =>
          entry'[l] = entry[l]
    <3> SUFFICES ASSUME deps[f][l].version # 0, deps[f][l].version = entry[l].version, ~entry[l].closed
                 PROVE  e = entry[l]
      BY <1>14
    <3>1. Find(l, active) # 0
      BY <2>1 DEF Find, Alive
    <3> QED  BY <1>6, <3>1
  <2>3. Holds(entry, deps[f]) \subseteq Holds(entry', deps[f])
    BY <1>14, <2>1, <2>2, HoldsStill
  <2> QED  BY <2>1, <2>3
<1> QED  BY <1>19, <1>20, <1>21 DEF CInv, more

LEMMA SaveCurrent ==
  ASSUME Blank = {}, IInv, CInv, Save
  PROVE  CInv'
<1> DEFINE l == Top.at
           v == active.next[l].version
           d == [version |-> v, reads |-> Top.reads,
                 stamps |-> CopyVersions(Top.used) \cup {[at |-> l, version |-> v]}]
           rest == Tail(active.nest)
           a1 == [active EXCEPT !.next[l] = d]
           a2 == [a1 EXCEPT !.nest = rest]
           a == [a2 EXCEPT !.asked = @ \cup {NameOf[l]}]
           member == CHOOSE r \in Top.reads : r.at = l
           ok == Holds(entry, active.next)
           more == Holds(entry, active'.next)
<1>1. active \in Kept /\ active \in Parsing /\ active.nest # <<>>
  BY DEF IInv, ParseInv, Kept, Save
<1>2. Top \in KeptFrame(active.next) /\ rest \in Seq(KeptFrame(active.next))
  <2>1. active.nest \in Seq(KeptFrame(active.next))
    BY <1>1 DEF Kept
  <2> QED  BY <1>1, <2>1, FrameSeq DEF Top
<1>3. Top \in CurrentFrame(ok) /\ rest \in Seq(CurrentFrame(ok))
  <2>1. active.nest \in Seq(CurrentFrame(ok))
    BY DEF CInv, IsCurrent
  <2> QED  BY <1>1, <2>1, FrameSeq DEF Top
<1>4. /\ l \in Location /\ v # 0 /\ v \in Nat /\ Top.reads \in SUBSET Read /\ Top.used \subseteq Location
      /\ \E r \in Top.reads : r.at = l
  BY <1>1, <1>2 DEF KeptFrame, Frame, Parsing, Dep
<1>5. active.file \in File
  BY <1>4 DEF IInv, ParseInv, Held, File
(* The versions of the stamps are the current ones.                        *)
<1>6. \A k \in Location : active.next[k].version # 0 =>
        /\ active.next[k].version = entry[k].version /\ entry[k].version \in Nat
        /\ entry[k].version <= last[k] /\ Find(k, active) = entry[k].version
  <2> SUFFICES ASSUME NEW k \in Location, active.next[k].version # 0
               PROVE  /\ active.next[k].version = entry[k].version /\ entry[k].version \in Nat
                      /\ entry[k].version <= last[k] /\ Find(k, active) = entry[k].version
    OBVIOUS
  <2>1. active.next[k].version = entry[k].version /\ ~entry[k].closed
    BY DEF IInv, ParseInv, Held
  <2>2. entry[k].version \in Nat /\ entry[k].version <= last[k]
    BY DEF IInv, TypeOK, Entry, CInv, CachesSound
  <2> QED  BY <2>1, <2>2 DEF Find, Alive
<1>7. \A k \in Top.used : k \in Location /\ Find(k, active) # 0 /\ Find(k, active) \in Nat
                          /\ Find(k, active) <= last[k]
  BY <1>2, <1>4, <1>6 DEF KeptFrame
<1>8. d \in Dep /\ d.version = v /\ d.reads = Top.reads
      /\ \A s \in d.stamps : s.version # 0 /\ s.version <= last[s.at]
  <2>1. /\ CopyVersions(Top.used) \in SUBSET Stamp
        /\ \A s \in CopyVersions(Top.used) : s.version # 0 /\ s.version <= last[s.at]
    BY <1>4, <1>7 DEF CopyVersions, Stamp
  <2>2. [at |-> l, version |-> v] \in Stamp /\ v <= last[l]
    BY <1>4, <1>6 DEF Stamp
  <2> QED  BY <1>4, <2>1, <2>2 DEF Dep
<1>9. \A r \in Top.reads : \E s \in d.stamps : s.at = r.at
  <2> SUFFICES ASSUME NEW r \in Top.reads PROVE \E s \in d.stamps : s.at = r.at
    OBVIOUS
  <2>1. r.at = l \/ r.at \in Top.used
    BY <1>3 DEF CurrentFrame
  <2>2. CASE r.at = l
    <3>1. [at |-> l, version |-> v] \in d.stamps
      OBVIOUS
    <3> QED  BY <2>2, <3>1
  <2>3. CASE r.at \in Top.used
    <3>1. [at |-> r.at, version |-> Find(r.at, active)] \in d.stamps
      BY <2>3 DEF CopyVersions
    <3> QED  BY <3>1
  <2> QED  BY <2>1, <2>2, <2>3
<1>10. Top.reads \subseteq ok /\ ok \in SUBSET Read
  BY <1>3 DEF CurrentFrame, Holds
<1>11. \A r \in Top.reads : r.text = entry[r.at].text
  BY <1>10 DEF Holds
<1>12. member \in Top.reads /\ member.at = l
  BY <1>4
<1>13. member.text \notin Blank
  OBVIOUS
<1>14. /\ deps' = IF deps[active.file][l].version = v THEN [deps EXCEPT ![active.file][l] = d] ELSE deps
       /\ active' = IF NameOf[l] \in Macro THEN [a EXCEPT !.reads = @ \cup Top.reads]
                    ELSE CopyInto(a, member, member.text \notin Blank)
       /\ UNCHANGED <<entry, last, opened, pending, result>>
  BY <1>7 DEF Save, files
<1>15. NameOf[l] \in Name
  BY <1>4, MembersAssumption
<1> HIDE DEF d
<1>16. d \in Sound(entry, last)
  BY <1>8, <1>9, <1>11 DEF Sound
<1> HIDE DEF v, member, rest
<1>17. /\ a1 \in Kept /\ a1.next[l] = d
       /\ a1.nest = active.nest /\ a1.reads = active.reads /\ a1.known = active.known
       /\ \A k \in Location \ {l} : a1.next[k] = active.next[k]
  <2>1. a1.known = active.known
    BY <1>1 DEF Parsing
  <2> QED  BY <1>1, <1>4, <1>8, <2>1, NextKept
<1> HIDE DEF a1
<1>18. a1 \in Parsing /\ IsCurrent(a1, ok)
  BY <1>17 DEF Kept, CInv, IsCurrent
<1>19. rest \in Seq(KeptFrame(a1.next))
  <2>1. \A k \in Location : active.next[k].version # 0 => a1.next[k].version # 0
    BY <1>4, <1>8, <1>17
  <2> QED  BY <1>2, <2>1, FrameSeqGrows
<1>20. a2 \in Kept /\ a2.next = a1.next
  BY <1>17, <1>19, FieldsKept
<1>21. IsCurrent(a2, ok)
  BY <1>3, <1>18, FieldsCurrent
<1> HIDE DEF a2
<1>22. a2 \in Parsing /\ a2.asked \cup {NameOf[l]} \in SUBSET Name
  BY <1>15, <1>20 DEF Kept, Parsing
<1>23. a \in Kept /\ a.next = a1.next
  BY <1>20, <1>22, FieldsKept
<1>24. IsCurrent(a, ok)
  BY <1>21, <1>22, FieldsCurrent
<1> HIDE DEF a
<1>25. active'.next = a1.next /\ IsCurrent(active', ok)
  <2>1. a \in Parsing
    BY <1>23 DEF Kept
  <2>2. CASE NameOf[l] \in Macro
    <3>1. active' = [a EXCEPT !.reads = @ \cup Top.reads]
      BY <1>14, <2>2
    <3>2. a.reads \cup Top.reads \in SUBSET ok
      BY <1>10, <1>24 DEF IsCurrent
    <3>3. active'.next = a.next
      BY <2>1, <3>1 DEF Parsing
    <3>4. IsCurrent(active', ok)
      BY <1>24, <2>1, <3>1, <3>2, FieldsCurrent
    <3> QED  BY <1>23, <3>3, <3>4
  <2>3. CASE NameOf[l] \notin Macro
    <3>1. a.next[member.at].version # 0
      BY <1>4, <1>8, <1>12, <1>17, <1>23
    <3>2. active' = CopyInto(a, member, TRUE)
      <4>1. (member.text \notin Blank) = TRUE
        BY <1>13
      <4>2. active' = CopyInto(a, member, member.text \notin Blank)
        BY <1>14, <2>3
      <4> QED  BY <4>1, <4>2
    <3>3. member \in ok /\ member \in Read
      BY <1>10, <1>12
    <3>4. active'.next = a.next
      BY <1>23, <3>1, <3>2, <3>3, CopyIntoKept
    <3>5. IsCurrent(active', ok)
      BY <1>10, <1>24, <2>1, <3>2, <3>3, CopyIntoCurrent
    <3> QED  BY <1>23, <3>4, <3>5
  <2> QED  BY <2>2, <2>3
<1>26. \A k \in Location : active'.next[k] \in {active.next[k], d}
                           /\ active'.next[k].version = active.next[k].version
  BY <1>8, <1>17, <1>25 DEF v
<1>27. ok \subseteq more
  <2>1. \A r \in Read : r.at \in Location
    BY DEF Read
  <2> QED  BY <1>26, <2>1 DEF Holds
<1>28. \A f \in File, k \in Location :
         deps'[f][k].version = deps[f][k].version /\ deps'[f][k] \in {deps[f][k], d}
  <2>1. deps \in [File -> [Location -> Dep]]
    BY DEF IInv, TypeOK
  <2>2. CASE deps[active.file][l].version = v
    <3>1. deps' = [deps EXCEPT ![active.file][l] = d]
      BY <1>14, <2>2
    <3> QED  BY <1>5, <1>4, <1>8, <2>1, <2>2, <3>1
  <2>3. CASE deps[active.file][l].version # v
    BY <1>14, <2>1, <2>3
  <2> QED  BY <2>2, <2>3
<1>29. CachesSound'
  BY <1>14, <1>16, <1>26, <1>28 DEF CInv, CachesSound
<1>30. ResultsHold'
  <2> SUFFICES ASSUME NEW f \in opened \ pending PROVE result[f] \subseteq Holds(entry, deps'[f])
    BY <1>14 DEF ResultsHold
  <2>1. f \in File /\ result[f] \subseteq Holds(entry, deps[f])
    BY DEF CInv, ResultsHold, IInv, TypeOK
  <2>2. Holds(entry, deps[f]) \subseteq Holds(entry, deps'[f])
    <3>1. \A r \in Read : r.at \in Location
      BY DEF Read
    <3> QED  BY <1>28, <2>1, <3>1 DEF Holds
  <2> QED  BY <2>1, <2>2
<1>31. IsCurrent(active', Holds(entry', active'.next))
  <2>1. IsCurrent(active', more)
    BY <1>25, <1>27, MoreCurrent
  <2> QED  BY <1>14, <2>1
<1> QED  BY <1>29, <1>30, <1>31 DEF CInv

LEMMA CInitInv == Init => CInv
<1> SUFFICES ASSUME Init PROVE CInv
  OBVIOUS
<1>1. /\ active = NoParse /\ NoParse.next = NoDeps /\ NoParse.reads = {} /\ NoParse.known = {}
      /\ NoParse.nest = <<>>
  BY DEF Init, NoParse
<1>2. \A l \in Location : entry[l].version = 0 /\ last[l] = 0
  BY DEF Init, NoEntry
<1>3. CachesSound
  <2> SUFFICES ASSUME NEW l \in Location
               PROVE  /\ entry[l].version <= last[l] /\ active.next[l] \in Sound(entry, last)
                      /\ \A f \in File : deps[f][l] \in Sound(entry, last) /\ deps[f][l].version <= last[l]
    BY DEF CachesSound
  <2>1. \A f \in File : deps[f] = NoDeps
    BY DEF Init
  <2>2. NoDeps[l] \in Sound(entry, last) /\ NoDeps[l].version = 0
    BY NoDepSound
  <2>3. active.next = NoDeps
    BY <1>1
  <2> QED  BY <1>2, <2>1, <2>2, <2>3
<1>4. IsCurrent(active, Holds(entry, active.next))
  BY <1>1 DEF IsCurrent
<1>5. ResultsHold
  BY DEF Init, ResultsHold
<1> QED  BY <1>3, <1>4, <1>5 DEF CInv

LEMMA CNextInv ==
  ASSUME Blank = {}, IInv, CInv, [Next]_vars
  PROVE  CInv'
<1>1. CASE Documents
  BY <1>1, ProgramCurrent, MemberCurrent, CloseMemberCurrent DEF Documents
<1>2. CASE Files
  BY <1>2, DiskCurrent, WatchedCurrent DEF Files
<1>3. CASE Parse
  BY <1>3, ParseBeginCurrent, NotFoundCurrent, CopyKnownCurrent, RequestCurrent, SaveCurrent,
     ParseDoneCurrent DEF Parse
<1>4. CASE UNCHANGED vars
  <2>1. UNCHANGED <<events, files, conf, workspace, active, failed>>
    BY <1>4 DEF vars
  <2> QED  BY <2>1, ParseOnlyCurrent DEF CInv
<1> QED  BY <1>1, <1>2, <1>3, <1>4 DEF Next

LEMMA CurrentResults ==
  ASSUME IInv, CInv
  PROVE  ResultsAreCurrent
<1> SUFFICES ASSUME NEW f \in opened \ pending, NEW r \in result[f]
             PROVE  r.text = Current(r.at)
  BY DEF ResultsAreCurrent
<1>1. f \in File /\ r \in Holds(entry, deps[f])
  BY DEF CInv, ResultsHold, IInv, TypeOK
<1>2. /\ r.at \in Location /\ deps[f][r.at].version # 0 /\ ~entry[r.at].closed
      /\ deps[f][r.at].version = entry[r.at].version /\ entry[r.at].text = r.text
  BY <1>1 DEF Holds, Read
<1>3. Find(r.at, active) = entry[r.at].version
  BY <1>1, <1>2 DEF Find, Alive
<1> QED  BY <1>2, <1>3 DEF Current

(* The results of an open file that is not marked come from the texts that *)
(* its members have now, cached or not, whatever the editor, the disk and  *)
(* the configuration have done since, if each text has a statement (a copy *)
(* member without one is not noted by the macro that copies it): a parse   *)
(* takes what it reads as a dependency (parse_library, the loop over the   *)
(* nested dependencies of a cached macro), a cached member has a stamp for *)
(* each text it was made from (save_macro, find_cached_data), and what     *)
(* replaces the object of a file marks its dependents.                     *)
THEOREM ResultsStayCurrent ==
  ASSUME Blank = {}
  PROVE  Spec => []ResultsAreCurrent
<1>1. IInv /\ CInv /\ [Next]_vars => (IInv /\ CInv)'
  BY NextInv, CNextInv
<1>2. Init => IInv /\ CInv
  BY InitInv, CInitInv
<1>3. IInv /\ CInv => ResultsAreCurrent
  BY CurrentResults
<1> QED  BY <1>1, <1>2, <1>3, PTL DEF Spec
=============================================================================
