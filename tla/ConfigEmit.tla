------------------------------ MODULE ConfigEmit ------------------------------
(***************************************************************************)
(* The calls of ConfigCalls with the real serialiser: the types come from  *)
(* the debug information of the programs, and the bytes are judged by what *)
(* C reads in them.                                                        *)
(*                                                                         *)
(* The debug information of a program (llvm-dwarfdump, parsed by Lark) is  *)
(* a constant; a program without it cannot be dumped.                      *)
(***************************************************************************)
EXTENDS DwarfTable, ConfigCalls

CONSTANT Dumps  \* the debug entries of each program that can be dumped

\* The numbers in a dump, and what is inside an entry.
ASSUME DumpsAssumption ==
  \A p \in DOMAIN Dumps :
    LET d == Dumps[p] IN
    /\ DOMAIN d \subseteq Nat
    /\ \A id \in DOMAIN d :
         /\ DOMAIN d[id].entry = DOMAIN Entry /\ d[id].inside \in Seq(DOMAIN d)
         /\ \A a \in {"byte_size", "data_member_location", "count", "upper_bound"} :
              d[id].entry[a] \in Nat \cup {None}

\* self.files: the table of types of each program that resolves.
Tables ==
  [p \in {q \in DOMAIN Dumps : Resolves(Dumps[q])} |-> Collected(Dumps[p])]
DumpedPrograms == DOMAIN Tables

\* The type in the program of s that its type_name stands for.
TypeOf(s) == FindType(Tables[s.target], s.type)
Blob(s) ==
  IF TypeOf(s) = None THEN Fail ELSE Flatten(Tables[s.target], TypeOf(s), s.value)

\* What ConfigCalls leaves open.
ASSUME SerialiserAssumption ==
  /\ Programs = DumpedPrograms /\ NoBlob = Fail
  /\ \A s \in Struct : Complete(s) /\ Dumped(s) => Serialise(s) = Blob(s)
ASSUME StructAssumption == \A s \in Struct : s.value \in Value

-----------------------------------------------------------------------------
\* What C makes of the bytes, apart from how the code writes them.

\* The number in bs, of which the last byte is the most significant, and what
\* it is as a number of the encoding.
Unsigned(bs) ==
  LET n[i \in 0..Len(bs)] == IF i = 0 THEN 0 ELSE n[i - 1] * Byte + bs[Len(bs) - i + 1]
  IN  n[Len(bs)]
CRead(encoding, bs) ==
  IF encoding \in {"signed", "signed_char"} /\ Unsigned(bs) >= Power(Len(bs)) \div 2
  THEN Unsigned(bs) - Power(Len(bs)) ELSE Unsigned(bs)

\* The size of an object of type t: an array has none of its own, and neither
\* has a pointer.
OwnSize(T, t) ==
  IF T[t].byte_size # None THEN T[t].byte_size ELSE IF T[t].tag = "pointer" THEN 8 ELSE 0
SizeBy(T, size, t) ==
  IF T[t].byte_size = None /\ T[t].tag = "array" /\ BaseType(T, t) # None
  THEN ArrayCount(T, t) * size[BaseType(T, t)]
  ELSE OwnSize(T, t)
SizeWithin(T) ==
  LET size[k \in 0..MaxNesting] ==
        IF k = 0 THEN [t \in DOMAIN T |-> OwnSize(T, t)]
        ELSE [t \in DOMAIN T |-> SizeBy(T, size[k - 1], t)]
  IN  size
SizeOf(T, t) == SizeWithin(T)[MaxNesting][t]

\* A compiler that writes down the size of an array writes the right one.
ArraysOK(T) ==
  \A t \in DOMAIN T :
    T[t].tag = "array" /\ T[t].byte_size # None /\ BaseType(T, t) # None =>
      T[t].byte_size = ArrayCount(T, t) * SizeOf(T, BaseType(T, t))
ASSUME ArraysAssumption == \A p \in DumpedPrograms : ArraysOK(Tables[p])

\* The bytes of the i-th entry of an array, and of a member of a struct.
EntryBytes(T, t, bs, i) ==
  LET n == SizeOf(T, BaseType(T, t)) IN SubSeq(bs, (i - 1) * n + 1, i * n)
Extent(T, m) ==
  T[m].data_member_location + 1 .. T[m].data_member_location + SizeOf(T, BaseType(T, m))
MemberBytes(T, m, bs) ==
  SubSeq(bs, T[m].data_member_location + 1,
             T[m].data_member_location + SizeOf(T, BaseType(T, m)))

AllZero(bs) == \A i \in DOMAIN bs : bs[i] = 0
MembersOf(T, t) == {T[t].members[i] : i \in DOMAIN T[t].members}

\* An object of type t whose bytes are bs has the value v, and every byte
\* that v says nothing of is zero; means says what its parts have.
MeansBy(T, means, t, bs, v) ==
  LET tag == IF v.kind = "empty" THEN "empty" ELSE T[t].tag IN
  /\ Len(bs) = SizeOf(T, t)
  /\ tag = "empty" => AllZero(bs)
  /\ tag \in {"base", "pointer"} =>
       IF v.kind = "int"
       THEN CRead(IF tag = "base" THEN T[t].encoding ELSE "unsigned", bs) = v.n
       ELSE bs = v.chars
  /\ tag = "array" =>
       \A i \in 1..ArrayCount(T, t) :
         IF i <= Len(Items(v))
         THEN means[<<BaseType(T, t), EntryBytes(T, t, bs, i), Items(v)[i]>>]
         ELSE AllZero(EntryBytes(T, t, bs, i))
  /\ tag = "structure" =>
       /\ \A m \in MembersOf(T, t) :
            means[<<BaseType(T, m), MemberBytes(T, m, bs), v.fields[T[m].name]>>]
       /\ \A i \in DOMAIN bs :
            (\A m \in MembersOf(T, t) : i \notin Extent(T, m)) => bs[i] = 0
MeansWithin(T) ==
  LET means[k \in 0..MaxNesting] ==
        IF k = 0 THEN [p \in (DOMAIN T) \X Blobs \X Value |-> FALSE]
        ELSE [p \in (DOMAIN T) \X Blobs \X Value |-> MeansBy(T, means[k - 1], p[1], p[2], p[3])]
  IN  means
Means(T, t, bs, v) == MeansWithin(T)[MaxNesting][<<t, bs, v>>]

\* Wherever a string begins in an array, it ends in that array.
StringsEndBy(T, ends, t, bs, v) ==
  LET tag == IF v.kind = "empty" THEN "empty" ELSE T[t].tag IN
  /\ tag = "empty" => AllZero(bs)
  /\ tag = "array" =>
       IF T[BaseType(T, t)].name = "char"
       THEN \A i \in DOMAIN bs : \E j \in i..Len(bs) : bs[j] = 0
       ELSE \A i \in DOMAIN Items(v) :
              ends[<<BaseType(T, t), EntryBytes(T, t, bs, i), Items(v)[i]>>]
  /\ tag = "structure" =>
       \A m \in MembersOf(T, t) :
         ends[<<BaseType(T, m), MemberBytes(T, m, bs), v.fields[T[m].name]>>]
StringsEndWithin(T) ==
  LET ends[k \in 0..MaxNesting] ==
        IF k = 0 THEN [p \in (DOMAIN T) \X Blobs \X Value |-> FALSE]
        ELSE [p \in (DOMAIN T) \X Blobs \X Value |->
                StringsEndBy(T, ends[k - 1], p[1], p[2], p[3])]
  IN  ends
StringsEnd(T, t, bs, v) == StringsEndWithin(T)[MaxNesting][<<t, bs, v>>]

\* Two entries say the same, in whatever order they list their members, of
\* which no two are at the same place; same says it of what is below them.
Apart(T, t) ==
  \A i, j \in DOMAIN T[t].members : i # j =>
    T[T[t].members[i]].data_member_location # T[T[t].members[j]].data_member_location
OneDefinitionBy(T, same, t, u) ==
  /\ SameAttributes(T[t], T[u]) /\ Len(T[t].members) = Len(T[u].members)
  /\ T[t].tag \in {"base", "pointer", "typedef", "member", "array", "structure"}
  /\ T[t].tag \in {"typedef", "member", "array"} =>
       /\ BaseType(T, t) # None /\ BaseType(T, u) # None
       /\ same[<<BaseType(T, t), BaseType(T, u)>>]
  /\ T[t].tag = "array" => Dimensions(T, t) = Dimensions(T, u)
  /\ T[t].tag = "structure" =>
       /\ Located(T, t) /\ Located(T, u) /\ Apart(T, t) /\ Apart(T, u)
       /\ \A m \in MembersOf(T, t) : \E n \in MembersOf(T, u) : same[<<m, n>>]
       /\ \A n \in MembersOf(T, u) : \E m \in MembersOf(T, t) : same[<<m, n>>]
OneDefinitionWithin(T) ==
  LET same[k \in 0..MaxNesting] ==
        IF k = 0 THEN [p \in (DOMAIN T) \X (DOMAIN T) |-> FALSE]
        ELSE [p \in (DOMAIN T) \X (DOMAIN T) |-> OneDefinitionBy(T, same[k - 1], p[1], p[2])]
  IN  same
OneDefinition(T, t, u) == OneDefinitionWithin(T)[MaxNesting][<<t, u>>]

\* The types the serialiser is made for: no array of pointers or of arrays that
\* a typedef names, no member that is aligned, a bit field or over another one.
Supported(T, t) ==
  /\ T[t].tag = "pointer" => T[t].byte_size = None
  /\ T[t].tag = "base" =>
       T[t].encoding \in DOMAIN BaseSizes /\ T[t].byte_size \in BaseSizes[T[t].encoding]
  /\ T[t].tag = "array" =>
       LET b == BaseType(T, t) IN
       b # None /\ T[b].byte_size # None /\ (T[b].name = "char" => T[b].tag = "base")
  /\ T[t].tag = "structure" =>
       /\ T[t].byte_size # None /\ Located(T, t) /\ Apart(T, t)
       /\ \A m \in MembersOf(T, t) :
            /\ BaseType(T, m) # None
            /\ Extent(T, m) \subseteq 1..T[t].byte_size
            /\ \A n \in MembersOf(T, t) \ {m} : Extent(T, m) \cap Extent(T, n) = {}

\* The value v can be written as an object of type t.
RepresentableBy(T, fits, t, v) ==
  /\ Supported(T, t)
  /\ CASE v.kind = "empty" -> T[t].tag \in {"structure", "base"}
       [] T[t].tag = "pointer" /\ v.kind = "int" -> v.n \in 0..Power(8) - 1
       [] T[t].tag = "base" /\ v.kind = "int" ->
            LET half == Power(T[t].byte_size) \div 2 IN
            \/ T[t].encoding = "boolean" /\ v.n \in {0, 1}
            \/ T[t].encoding \in {"unsigned", "unsigned_char"} /\ v.n \in 0..2 * half - 1
            \/ T[t].encoding \in {"signed", "signed_char"} /\ v.n \in -half..half - 1
       [] T[t].tag = "base" /\ v.kind \in {"text", "bytes"} ->
            /\ T[t].encoding \in {"unsigned_char", "signed_char"} /\ Len(v.chars) = 1
            /\ v.kind = "text" => v.chars[1] < Byte \div 2
       [] T[t].tag = "array" /\ Iterable(v) ->
            /\ ArrayCount(T, t) > 0 /\ Len(Items(v)) <= ArrayCount(T, t)
            /\ \A i \in DOMAIN Items(v) : fits[<<BaseType(T, t), Items(v)[i]>>]
            /\ T[BaseType(T, t)].name = "char" /\ Len(Items(v)) = ArrayCount(T, t) =>
                 Items(v)[Len(Items(v))] \in {Num(0), Text(<<0>>)}
       [] T[t].tag = "structure" /\ v.kind = "config" ->
            /\ FieldsMatch(T, t, v)
            /\ \A m \in MembersOf(T, t) : fits[<<BaseType(T, m), v.fields[T[m].name]>>]
       [] OTHER -> FALSE
RepresentableWithin(T) ==
  LET fits[k \in 0..MaxNesting] ==
        IF k = 0 THEN [p \in (DOMAIN T) \X Value |-> FALSE]
        ELSE [p \in (DOMAIN T) \X Value |-> RepresentableBy(T, fits[k - 1], p[1], p[2])]
  IN  fits
Representable(T, t, v) == RepresentableWithin(T)[MaxNesting][<<t, v>>]

-----------------------------------------------------------------------------
\* Every byte of every file is what C reads as the struct it was written for,
\* under every definition of its type in the program: offsets, padding, order
\* and sign of the bytes, the tails of arrays (configstruct.py:802-982).
BlobsRight ==
  \A p \in Written :
    LET s == dir[p].struct
        T == Tables[s.target]
    IN  \A t \in Named(T, s.type) : Means(T, BaseType(T, t), dir[p].blob, s.value)

\* configstruct.py:929, "Strings must be null-terminated": also a string that
\* fills its array, or goes on in the next row.
StringsTerminated ==
  \A p \in Written :
    LET s == dir[p].struct
        T == Tables[s.target]
    IN  StringsEnd(T, BaseType(T, First(Named(T, s.type))), dir[p].blob, s.value)

\* A struct is not refused when all definitions of its type say the same and
\* its value can be written in it: the order in which a compiler lists members,
\* the place of the terminator, the limits of a number never stand in the way
\* (configstruct.py:233-235, configstruct.py:819-820).  To say the same is to have
\* the same attributes, the file, line and column of the declaration and the
\* sibling among them: definitions of one layout that differ there are refused
\* (configstruct.py:223-243, configstruct.py:578), and nothing is said of them.
RepresentableAccepted ==
  pc = "emit" /\ next <= Len(structs) =>
    LET s == structs[next]
        T == Tables[s.target]
        ts == Named(T, s.type)
    IN  /\ ts # {} /\ \A t \in ts : BaseType(T, t) # None
        /\ \A t, u \in ts : t # u => OneDefinition(T, t, u)
        /\ \A t \in ts : Representable(T, BaseType(T, t), s.value)
        => Serialise(s) # NoBlob

\* Whatever base_type may follow in a program that was read is in the table,
\* however long a chain of typedefs is, and a struct has the members that are
\* written directly inside it: an entry that is refused or left out never leaves
\* another without its type (configstruct.py:333-434, configstruct.py:549-563).
TypesHeld ==
  \A i \in DOMAIN structs :
    LET d == Dumps[structs[i].target]
        T == Tables[structs[i].target]
    IN  /\ \A t \in DOMAIN T : BaseType(T, t) \in DOMAIN T \cup {None}
        /\ \A id \in DOMAIN d :
             LET inside == {d[id].inside[k] : k \in DOMAIN d[id].inside} IN
             d[id].entry.tag \in {"structure", "union"} =>
               MembersOf(T, id) = {m \in inside : d[m].entry.tag = "member"}
=============================================================================
