----------------------------- MODULE Utilities ------------------------------
(***************************************************************************)
(* Two utilities: resource locations, which are joined, normalised and     *)
(* related to one another, and the stream of a data set with records of    *)
(* fixed length, which the extension downloads.                            *)
(***************************************************************************)
EXTENDS Integers, Sequences, FiniteSets, SequencesExt

-----------------------------------------------------------------------------
(***************************************************************************)
(* Resource locations (utils/resource_location.cpp) and the dissection of  *)
(* URIs they rest on (path_conversions.cpp): every file, library and       *)
(* workspace folder is found under such a text, so it must be the same     *)
(* text whichever operations lead to it. The build is not one for Windows. *)
(*                                                                         *)
(* A text is a sequence of characters. Letters stand for those that are    *)
(* valid everywhere, digits are valid in ports; an encoded character is    *)
(* one member of the sequence. Hosts in brackets are left out.             *)
(***************************************************************************)
CONSTANTS
  Letters, Digits,  \* sets of characters
  Encoded,          \* the encoded form of characters: a function
  Locations,        \* texts that locations begin with
  Bases,            \* the texts they are compared with
  References,       \* the texts that are joined with them
  None,
  MaxLength         \* bound: characters of a location

Slashes == {"/", "\\"}

ResourceLocationAssumption ==
  /\ Letters \cap (Digits \cup Slashes) = {} /\ MaxLength \in Nat
  /\ DOMAIN Encoded \cap (Letters \cup Digits \cup Slashes \cup {"."}) = {}

VARIABLES
  loc,  \* a resource_location
  base  \* another one

Begins(t, prefix) == Len(prefix) <= Len(t) /\ SubSeq(t, 1, Len(prefix)) = prefix
Ends(t, suffix) == Len(suffix) <= Len(t) /\ SubSeq(t, Len(t) - Len(suffix) + 1, Len(t)) = suffix
From(t, i) == SubSeq(t, i, Len(t))
Upto(t, i) == SubSeq(t, 1, i)
(* Places, 0 if there is none.                                             *)
Found(t, chars) ==
  IF \E i \in DOMAIN t : t[i] \in chars
  THEN CHOOSE i \in DOMAIN t : t[i] \in chars /\ \A j \in 1..(i - 1) : t[j] \notin chars ELSE 0
LastFound(t, chars) ==
  IF \E i \in DOMAIN t : t[i] \in chars
  THEN CHOOSE i \in DOMAIN t : t[i] \in chars /\ \A j \in (i + 1)..Len(t) : t[j] \notin chars ELSE 0
Dot == <<".">>
DotDot == <<".", ".">>
Root == <<"/">>

-----------------------------------------------------------------------------
(* dissect_uri: None if the text is no URI.                                *)
Percent == {Encoded[c] : c \in DOMAIN Encoded}
Unreserved == Letters \cup Digits \cup {"."}
Consists(t, chars) == \A i \in DOMAIN t : t[i] \in chars

ValidHost(h) ==
  \/ Len(h) >= 2 /\ h[1] \in Digits /\ h[Len(h)] \in Digits
  \/ Consists(h, Unreserved \cup Percent)
(* validate_or_reset.                                                      *)
Valid(u) ==
  LET rest == Unreserved \cup Percent \cup {"@", ":", "/", "?"}
  IN /\ Len(u.scheme) > 1 /\ u.scheme[1] \in Letters /\ Consists(u.scheme, Unreserved)
     /\ u.auth # None =>
          /\ u.auth.user # None => Consists(u.auth.user[1], Unreserved \cup Percent \cup {":"})
          /\ u.auth.port # None => Consists(u.auth.port[1], Digits)
          /\ ValidHost(u.auth.host)
     /\ Consists(u.path, rest)
     /\ u.query # None => Consists(u.query[1], rest)
     /\ u.fragment # None => Consists(u.fragment[1], rest)

(* What follows the first of the characters, in a tuple, if there is one.  *)
Behind(t, chars) == IF Found(t, chars) = 0 THEN None ELSE <<From(t, Found(t, chars) + 1)>>
Before(t, chars) == IF Found(t, chars) = 0 THEN t ELSE Upto(t, Found(t, chars) - 1)

Authority(t) ==
  LET user == IF Found(t, {"@"}) = 0 THEN None ELSE <<Before(t, {"@"})>>
      rest == IF user = None THEN t ELSE Behind(t, {"@"})[1]
      port == LastFound(rest, {":"})
  IN [user |-> user,
      host |-> IF port = 0 THEN rest ELSE Upto(rest, port - 1),
      port |-> IF port = 0 THEN None ELSE <<From(rest, port + 1)>>]

PathBehind(hier) == IF Found(hier, {"/"}) = 0 THEN <<>> ELSE From(hier, Found(hier, {"/"}))
Dissected(scheme, main, rest, end) ==
  [scheme |-> scheme,
   auth |-> IF Begins(main, <<"/", "/">>) THEN Authority(Before(From(main, 3), {"/"})) ELSE None,
   path |-> IF Begins(main, <<"/", "/">>) THEN PathBehind(From(main, 3)) ELSE main,
   query |-> IF end # 0 /\ rest[end] = "?" THEN <<Before(From(rest, end + 1), {"#"})>> ELSE None,
   fragment |-> Behind(rest, {"#"})]
ValidOrNone(u) == IF Valid(u) THEN u ELSE None
DissectUri(t) ==
  LET colon == Found(t, {":"})
      rest == From(t, colon + 1)
  IN IF colon <= 2 THEN None
     ELSE ValidOrNone(Dissected(Upto(t, colon - 1), Before(rest, {"?", "#"}), rest, Found(rest, {"?", "#"})))

(* reconstruct_uri.                                                        *)
Optional(before, x, after) == IF x = None THEN <<>> ELSE before \o x[1] \o after
Reconstruct(u) ==
  u.scheme \o <<":">>
  \o (IF u.auth = None THEN <<>>
      ELSE <<"/", "/">> \o Optional(<<>>, u.auth.user, <<"@">>) \o u.auth.host \o Optional(<<":">>, u.auth.port, <<>>))
  \o u.path \o Optional(<<"?">>, u.query, <<>>) \o Optional(<<"#">>, u.fragment, <<>>)

-----------------------------------------------------------------------------

UriAppend(u, r) ==
  IF u = <<>> THEN r
  ELSE (IF Last(u) = "/" THEN u ELSE IF Last(u) = "\\" THEN Append(Front(u), "/") ELSE Append(u, "/"))
       \o (IF Begins(r, Root) THEN Tail(r) ELSE r)

(* uri_path_iterator: the slash in front, the names and an empty name if   *)
(* slashes are left.                                                       *)
Names(t) ==
  LET starts == {i \in DOMAIN t : t[i] \notin Slashes /\ (i = 1 \/ t[i - 1] \in Slashes)}
      nth(k) == CHOOSE i \in starts : Cardinality({j \in starts : j <= i}) = k
  IN [k \in 1..Cardinality(starts) |-> Before(From(t, nth(k)), Slashes)]
Elements(t) ==
  (IF t # <<>> /\ t[1] \in Slashes THEN <<<<t[1]>>>> ELSE <<>>)
  \o Names(t)
  \o (IF Len(t) > 1 /\ t[Len(t)] \in Slashes THEN <<<<>>>> ELSE <<>>)

(* An element in normalize_path.                                           *)
Normalized(elements, e) ==
  IF e = Dot \/ (e = <<>> /\ elements = <<>>) THEN elements
  ELSE IF e # DotDot \/ elements = <<>> THEN Append(elements, e)
  ELSE IF Len(elements) = 1 /\ elements[1] = Root THEN elements
  ELSE Front(elements)

NormalizePath(path) ==
  LET elements == FoldLeft(Normalized, <<>>, Elements(path))
      joined == FoldLeft(UriAppend, <<>>, elements)
  IN IF Ends(path, Dot) THEN UriAppend(joined, <<>>) ELSE joined

Encode(t) == [i \in DOMAIN t |-> IF t[i] \in DOMAIN Encoded THEN Encoded[t[i]] ELSE t[i]]
Decode(t) ==
  [i \in DOMAIN t |-> IF t[i] \in Percent THEN CHOOSE c \in DOMAIN Encoded : Encoded[c] = t[i] ELSE t[i]]

NormalForm(t, slashes, u) ==
  IF u = None THEN NormalizePath(slashes)
  ELSE IF u.path = <<>> /\ slashes = t THEN t
  ELSE Reconstruct([u EXCEPT !.path = Encode(NormalizePath(u.path))])
LexicallyNormal(t) ==
  LET slashes == [i \in DOMAIN t |-> IF t[i] = "\\" THEN "/" ELSE t[i]]
  IN NormalForm(t, slashes, DissectUri(slashes))

(* The first place where two sequences of elements differ.                 *)
Mismatch(a, b) ==
  CHOOSE i \in 1..(Len(a) + 1) :
    /\ \A j \in 1..(i - 1) : j <= Len(b) /\ a[j] = b[j]
    /\ i > Len(a) \/ i > Len(b) \/ (i <= Len(a) /\ i <= Len(b) /\ a[i] # b[i])

DirsToReturn(elements, from) ==
  LET names == {i \in from..Len(elements) : elements[i] \notin {Dot, DotDot, <<>>}}
  IN Cardinality(names) - Cardinality({i \in from..Len(elements) : elements[i] = DotDot})

RelativeFrom(this, other, i, dirs) ==
  IF i > Len(this) /\ i > Len(other) THEN Dot
  ELSE IF dirs < 0 THEN <<>>
  ELSE IF dirs = 0 /\ (i > Len(this) \/ (i <= Len(this) /\ this[i] = <<>>)) THEN Dot
  ELSE FoldLeft(UriAppend, <<>>, [k \in 1..dirs |-> DotDot] \o From(this, i))
RelativeTo(this, other, i) == RelativeFrom(this, other, i, DirsToReturn(other, i))
RelativeElements(this, other) == RelativeTo(this, other, Mismatch(this, other))
LexicallyRelative(t, b) ==
  LET colon == Found(t, {":"})
  IN IF Upto(t, colon) # Upto(b, IF colon <= Len(b) THEN colon ELSE Len(b)) THEN <<>>
     ELSE RelativeElements(Elements(From(t, colon + 1)), Elements(From(b, colon + 1)))

JoinTo(t, u, other) ==
  IF DissectUri(other) # None THEN other
  ELSE IF u = None
  THEN IF Begins(other, Root) THEN <<":">> \o other ELSE UriAppend(t, other)
  ELSE Reconstruct([u EXCEPT !.path =
         IF Begins(other, Root) THEN other ELSE UriAppend(IF u.path = <<>> THEN Root ELSE u.path, other)])
Join(t, other) == JoinTo(t, DissectUri(t), other)

(* The end of the directory in a path, its slash included.                 *)
DirectoryEnd(path) == LastFound(path, {"/"})

FilenameIn(t, u, other) ==
  IF u = None THEN Upto(t, LastFound(t, Slashes)) \o other
  ELSE Reconstruct([u EXCEPT !.path = Upto(u.path, DirectoryEnd(u.path)) \o other])
ReplaceFilename(t, other) == FilenameIn(t, DissectUri(t), other)

LastName(t, u) == IF u = None THEN From(t, LastFound(t, Slashes) + 1) ELSE From(u.path, LastFound(u.path, {"/"}) + 1)
Filename(t) == Decode(LastName(t, DissectUri(t)))

ParentIn(t, u) ==
  LET before(path, slash) == IF slash = 0 THEN <<>> ELSE Upto(path, slash - 1)
  IN IF u = None THEN before(t, LastFound(t, Slashes))
     ELSE Reconstruct([u EXCEPT !.path = before(u.path, LastFound(u.path, {"/"}))])
Parent(t) == ParentIn(t, DissectUri(t))

-----------------------------------------------------------------------------

LastRemoved(elements) == IF elements = <<>> THEN elements ELSE Front(elements)
Segment(s) ==
  LET path == s.path
      slash == IF Len(path) > 1 THEN Found(Tail(path), {"/"}) ELSE 0
  IN IF Begins(path, <<".", ".", "/">>) THEN [s EXCEPT !.path = From(path, 4)]
     ELSE IF Begins(path, <<".", "/">>) THEN [s EXCEPT !.path = From(path, 3)]
     ELSE IF Begins(path, <<"/", ".", "/">>) THEN [s EXCEPT !.path = From(path, 3)]
     ELSE IF Begins(path, <<"/", ".", ".", "/">>)
     THEN [path |-> From(path, 4), elements |-> LastRemoved(s.elements)]
     ELSE [path |-> IF slash = 0 THEN <<>> ELSE From(path, slash + 1),
           elements |-> Append(s.elements, IF slash = 0 THEN path ELSE Upto(path, slash))]
WithoutDots(end) ==
  LET elements == IF end.path = <<"/", ".", ".">> THEN LastRemoved(end.elements) ELSE end.elements
      ret == FlattenSeq(elements)
  IN IF end.path \in {<<"/", ".">>, <<"/", ".", ".">>} THEN UriAppend(ret, Root) ELSE ret
RemoveDotSegments(path) ==
  LET last == {Dot, DotDot, <<"/", ".">>, <<"/", ".", ".">>}
      Step(s, k) == IF s.path \in {<<>>} \cup last THEN s ELSE Segment(s)
  IN WithoutDots(FoldLeft(Step, [path |-> path, elements |-> <<>>], [k \in 1..Len(path) |-> k]))

Merge(path, r) == Upto(path, LastFound(path, {"/", ":"})) \o r

(* relative_reference_resolution.                                          *)
Replaced(u, auth, path) ==
  Reconstruct([u EXCEPT !.auth = auth, !.path = path, !.query = None, !.fragment = None])
WithHost(auth, host) ==
  [user |-> IF auth = None THEN None ELSE auth.user, host |-> host, port |-> IF auth = None THEN None ELSE auth.port]
ResolveIn(t, u, other, uri) ==
  IF uri # None THEN Reconstruct([uri EXCEPT !.path = RemoveDotSegments(uri.path)])
  ELSE IF u = None THEN UriAppend(t, other)
  ELSE IF other[1] = "?" THEN Reconstruct([u EXCEPT !.query = <<Tail(other)>>])
  ELSE IF other[1] = "#" THEN Reconstruct([u EXCEPT !.fragment = <<Tail(other)>>])
  ELSE IF Begins(other, <<"/", "/">>) THEN Replaced(u, WithHost(u.auth, From(other, 3)), <<>>)
  ELSE Replaced(u, u.auth, RemoveDotSegments(IF other[1] = "/" THEN other ELSE Merge(u.path, other)))
Resolve(t, other) ==
  IF other = <<>> THEN t ELSE ResolveIn(t, DissectUri(t), other, DissectUri(other))

(* is_prefix_of: the other one is this one or above it.                    *)
RECURSIVE OnlyDotDots(_)
OnlyDotDots(u) ==
  IF ~Begins(u, DotDot) THEN u = <<>>
  ELSE OnlyDotDots(From(u, IF Len(u) > 2 /\ u[3] \in Slashes THEN 4 ELSE 3))
LeadsUp(u) == u # <<>> /\ (u = Dot \/ OnlyDotDots(u))
IsPrefixOf(t, candidate) == LeadsUp(LexicallyRelative(candidate, t))

-----------------------------------------------------------------------------
(* What is done with a location.                                           *)
Become(t) == loc' = t /\ Len(t) <= MaxLength /\ UNCHANGED base
Normalize == Become(LexicallyNormal(loc))
JoinOther == \E r \in References : Become(Join(loc, r))
Rename == \E r \in References : Become(ReplaceFilename(loc, r))
ToParent == Become(Parent(loc))
Refer == \E r \in References : Become(Resolve(loc, r))
BecomeRelative == Become(LexicallyRelative(loc, base))

LocationInit == loc \in Locations /\ base \in Bases
LocationNext == Normalize \/ JoinOther \/ Rename \/ ToParent \/ Refer \/ BecomeRelative

-----------------------------------------------------------------------------
(* Properties.                                                             *)
Normal(t) == LexicallyNormal(t) = t
PathIn(t, u) == IF u = None THEN t ELSE u.path
PathOf(t) == PathIn(t, DissectUri(t))
IsUri(t) == DissectUri(t) # None

(* A URI is the sum of its parts.                                          *)
NothingLost == \A t \in {loc, base} : IsUri(t) => Reconstruct(DissectUri(t)) = t

(* A normal form is its own: two locations that are compared as texts are  *)
(* normalised once, whoever does it. (A text that is no URI for what is    *)
(* behind its colon may become one.)                                       *)
NormalIsNormal == IsUri(loc) \/ Found(loc, {":"}) = 0 => Normal(LexicallyNormal(loc))

(* No "." is left, and ".." only where nothing is above it.                *)
OnlyDotsInFront(e) == \A i \in DOMAIN e : e[i] # Dot /\ (e[i] = DotDot => i = 1)
NoDots == OnlyDotsInFront(Elements(PathOf(LexicallyNormal(loc))))

(* The relative location leads from the base to the location again         *)
(* (watchers.cpp:69 watches a folder under its parent this way).           *)
Named(t) == SelectSeq(Elements(PathOf(t)), LAMBDA e : e # <<>>)
Absolute(t) == IsUri(t) /\ Normal(t) /\ Begins(PathOf(t), Root)
Comparable(t, b) == Absolute(t) /\ Absolute(b) /\ DissectUri(t).auth = DissectUri(b).auth
RelativeLeadsBack ==
  LET rel == LexicallyRelative(loc, base)
  IN Comparable(loc, base) /\ rel # <<>>
       => Named(LexicallyNormal(Join(base, rel))) = Named(loc)

(* A location is above another one exactly if its names begin it.          *)
PrefixIsAbove ==
  Comparable(loc, base) =>
    (IsPrefixOf(loc, base) <=> DissectUri(loc).scheme = DissectUri(base).scheme /\ Begins(Named(loc), Named(base)))

(* Resolving a reference, after RFC 3986, is joining it to the directory   *)
(* of the location.                                                        *)
ReferenceIsJoined ==
  \A r \in References :
    Absolute(loc) /\ ~IsUri(r) /\ Begins(r, Root) = FALSE /\ Consists(r, Unreserved \cup {"/"}) /\ r # <<>> =>
      Named(LexicallyNormal(Resolve(loc, r))) = Named(LexicallyNormal(Join(ReplaceFilename(loc, <<>>), r)))

(* A location that is renamed to its own name remains, and its parent is   *)
(* where it is.                                                            *)
NameInDirectory ==
  Consists(loc, Unreserved \cup Slashes \cup {":"}) =>
    /\ ReplaceFilename(loc, Filename(loc)) = loc
    /\ Absolute(loc) /\ ~IsUri(Filename(loc)) /\ Filename(loc) # <<>> => Join(Parent(loc), Filename(loc)) = loc

-----------------------------------------------------------------------------
(***************************************************************************)
(* The conversion of fixed length records to text: FBStreamingConvertor,   *)
(* which is given a member piece by piece, and FBWritable, which converts  *)
(* all of it at once.  Bytes are abstracted to their positions, a line end *)
(* to 0 (the code page is a table of data).                                *)
(***************************************************************************)
CONSTANTS Lrecl, MaxBytes   \* bound: the bytes of a member

RecordAssumption == Lrecl \in Nat \ {0} /\ MaxBytes \in Nat

VARIABLES
  sent, pending, result, told,
  overwritten   \* history: the bytes that were overwritten in pending

Bytes(a, b) == [i \in 1 .. b - a + 1 |-> a + i - 1]

\* convertBuffer: a line end behind every full record
Converted(b) ==
  FlattenSeq([i \in DOMAIN b |-> IF i % Lrecl = 0 THEN <<b[i], 0>> ELSE <<b[i]>>])

StreamInit == sent = 0 /\ pending = <<>> /\ result = <<>> /\ told = FALSE /\ overwritten = {}

\* What write makes of a piece: the record begun before is completed by the
\* piece, if that is long enough, and is overwritten if it is not; the rest of
\* the piece is kept

Completes(chunk) == pending # <<>> /\ Len(pending) + Len(chunk) >= Lrecl

Kept(chunk) == SubSeq(chunk, Len(chunk) - (Len(chunk) % Lrecl) + 1, Len(chunk))

Write(n) ==
  /\ ~told /\ sent + n <= MaxBytes
  /\ sent' = sent + n
  /\ LET chunk   == Bytes(sent + 1, sent + n)
         missing == IF Completes(chunk) THEN Lrecl - Len(pending) ELSE 0
         rest    == SubSeq(chunk, missing + 1, n)
         use     == Len(rest) - (Len(rest) % Lrecl)
         first   == IF Completes(chunk)
                    THEN Converted(pending \o SubSeq(chunk, 1, missing)) ELSE <<>>
     IN /\ result' = result \o first \o Converted(SubSeq(rest, 1, use))
        /\ pending' = Kept(rest)
        /\ overwritten' = overwritten \cup
             (IF Completes(chunk) THEN {} ELSE ToSet(pending))
  /\ UNCHANGED told

Left == <<>>

\* getResult, which may be asked again
GetResult ==
  /\ result' = result \o Converted(pending)
  /\ pending' = Left /\ told' = TRUE
  /\ UNCHANGED <<sent, overwritten>>

StreamNext == GetResult \/ \E n \in 1 .. MaxBytes : Write(n)

-----------------------------------------------------------------------------
(* Properties *)

(* The text of a member does not depend on the pieces it arrived in: it is what
   FBWritable makes of the whole, without the beginnings of records that the next
   piece did not complete (FBStreamingConvertor.ts:33-41) *)
StreamIsContent ==
  told => result = Converted(SelectSeq(Bytes(1, sent), LAMBDA i : i \notin overwritten))
=============================================================================
