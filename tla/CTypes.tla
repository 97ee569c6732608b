-------------------------------- MODULE CTypes --------------------------------
(***************************************************************************)
(* How Acacia turns the value of a config struct into the bytes of a C     *)
(* struct: the types found in the DWARF dump of a program (CType), and the *)
(* serialiser that follows them (_flatten_and_write).                      *)
(*                                                                         *)
(* A table T maps identifiers to debug entries, in the order of the dump.  *)
(* Sizes are the real ones; a byte has Byte values, so that the ranges of  *)
(* the integer types are small.  A value is what the metaprogram put in a  *)
(* field.  Floating point types are left out.                              *)
(*                                                                         *)
(* What the code does by recursion is a function of the number of levels   *)
(* it may still go down: one level is an operator, given what the levels   *)
(* below it yield.                                                         *)
(***************************************************************************)
EXTENDS Integers, Sequences, FiniteSets, SequencesExt

CONSTANTS
  Byte,         \* the number of values of a byte
  Value,        \* the values in config structs, and the values inside them
  MaxNesting    \* bound: levels of types inside types; Python raises at its own

ASSUME ByteAssumption == Byte \in Nat \ {0} /\ Byte % 2 = 0
ASSUME NestingAssumption == MaxNesting \in Nat \ {0}

None == -1          \* an attribute that is missing
Fail == <<>>        \* serialisation raises; no type has an empty blob

Blobs == Seq(0..Byte - 1)

\* A debug entry: its tag and Attributes, and the members of a group.  A
\* const_value may be negative, and is <<n>> or missing.
Entry == [tag |-> "null", name |-> "", encoding |-> "", byte_size |-> None, bit_size |-> None,
          type |-> None, type_name |-> "", data_member_location |-> None,
          data_bit_offset |-> None, count |-> None, upper_bound |-> None, alignment |-> None,
          const_value |-> <<>>, decl_file |-> "", decl_line |-> None, decl_column |-> None,
          declaration |-> FALSE, sibling |-> None, members |-> <<>>]

\* Python values.  A text is a str of code points, an int may be a bool.
Num(n) == [kind |-> "int", n |-> n]
Text(cs) == [kind |-> "text", chars |-> cs]
Bytes(bs) == [kind |-> "bytes", chars |-> bs]
List(vs) == [kind |-> "list", items |-> vs]
Config(fields) == [kind |-> "config", fields |-> fields]
Empty == [kind |-> "empty"]     \* a ConfigStruct with empty=True

Iterable(v) == v.kind \in {"list", "text", "bytes"}

\* What iterating over a value yields.
Items(v) ==
  CASE v.kind = "list" -> v.items
    [] v.kind = "text" -> [i \in DOMAIN v.chars |-> Text(<<v.chars[i]>>)]
    [] v.kind = "bytes" -> [i \in DOMAIN v.chars |-> Num(v.chars[i])]

ASSUME ValueAssumption ==
  \A v \in Value :
    /\ v.kind \in {"int", "text", "bytes", "list", "config", "empty"}
    /\ v.kind = "int" => v.n \in Int
    /\ v.kind = "text" => v.chars \in Seq(Nat)
    /\ v.kind = "bytes" => v.chars \in Blobs
    /\ Iterable(v) => Items(v) \in Seq(Value)
    /\ v.kind = "config" => \A f \in DOMAIN v.fields : v.fields[f] \in Value

-----------------------------------------------------------------------------
\* base_type, array_dimensions and array_count.

Typedefs(T, t) == IF T[t].tag = "typedef" THEN T[t].type ELSE t

\* The loop of base_type; a typedef is left if it has not ended.  That is so of
\* typedefs in a circle, which no compiler writes: the code's loop goes on for
\* ever there, the model's fails.
Unwrap(T, t) ==
  LET to[i \in 0..MaxNesting] == IF i = 0 THEN t ELSE Typedefs(T, to[i - 1])
  IN  to[MaxNesting]

BaseType(T, t) ==
  IF T[t].tag \notin {"typedef", "member", "array"} THEN t
  ELSE LET b == Unwrap(T, T[t].type) IN
       IF T[t].alignment # None
            \/ T[b].tag \in {"unknown", "null", "compile_unit", "typedef",
                             "subrange", "enumerator", "member"}
       THEN None
       ELSE b

Dimension(e) ==
  IF e.count # None THEN e.count
  ELSE IF e.upper_bound # None THEN e.upper_bound + 1 ELSE 0

Dimensions(T, t) ==
  [i \in DOMAIN T[t].members |-> Dimension(T[T[t].members[i]])]

Product(ns) ==
  LET n[i \in 0..Len(ns)] == IF i = 0 THEN 1 ELSE n[i - 1] * ns[i]
  IN  n[Len(ns)]

ArrayCount(T, t) ==
  IF T[t].members = <<>> THEN 0 ELSE Product(Dimensions(T, t))

\* What has a key, in ascending order of the keys, which differ.
Arranged(key) ==
  [k \in 1..Cardinality(DOMAIN key) |->
     CHOOSE x \in DOMAIN key :
       Cardinality({y \in DOMAIN key : key[y] < key[x]}) = k - 1]

Located(T, t) ==
  \A i \in DOMAIN T[t].members : T[T[t].members[i]].data_member_location # None

\* sorted() does not raise: of one member or none it compares nothing.
Sortable(T, t) == Len(T[t].members) <= 1 \/ Located(T, t)

\* sorted() keeps members at the same place in the order of the dump.
ByLocation(T, t) ==
  LET ms == T[t].members
      key == [i \in DOMAIN ms |-> Len(ms) * T[ms[i]].data_member_location + i - 1]
  IN  [k \in DOMAIN ms |-> ms[Arranged(key)[k]]]

-----------------------------------------------------------------------------
\* Equality of types, and the search for a type by its name.

\* All that the dump says of the two is the same, also where they are declared.
\* The identifier of the type attribute is ignored, its name is not.
SameAttributes(e, f) == \A a \in DOMAIN Entry \ {"type", "members"} : e[a] = f[a]

\* Wrong on purpose: members are compared in the order of the dump.
SameByDump(T, same, t, u) ==
  /\ SameAttributes(T[t], T[u])
  /\ Len(T[t].members) = Len(T[u].members)
  /\ T[t].tag \in {"typedef", "member", "array"} => same[<<BaseType(T, t), BaseType(T, u)>>]
  /\ \A i \in DOMAIN T[t].members : same[<<T[t].members[i], T[u].members[i]>>]

\* __eq__, when same says what is equal below.
SameBy(T, same, t, u) ==
  /\ SameAttributes(T[t], T[u])
  /\ Len(T[t].members) = Len(T[u].members)
  /\ \/ T[t].tag \in {"base", "pointer"}
     \/ /\ T[t].tag \in {"typedef", "member", "array"}
        /\ T[t].tag = "array" => Dimensions(T, t) = Dimensions(T, u)
        /\ BaseType(T, t) # None /\ BaseType(T, u) # None
        /\ same[<<BaseType(T, t), BaseType(T, u)>>]
     \/ /\ T[t].tag \in {"union", "structure"}
        /\ Sortable(T, t) /\ Sortable(T, u)
        /\ \A i \in DOMAIN T[t].members : same[<<ByLocation(T, t)[i], ByLocation(T, u)[i]>>]

SameWithin(T) ==
  LET same[k \in 0..MaxNesting] ==
        IF k = 0 THEN [p \in (DOMAIN T) \X (DOMAIN T) |-> FALSE]
        ELSE [p \in (DOMAIN T) \X (DOMAIN T) |-> SameBy(T, same[k - 1], p[1], p[2])]
  IN  same
Same(T, t, u) == SameWithin(T)[MaxNesting][<<t, u>>]

Named(T, name) == {t \in DOMAIN T : T[t].name = name}
First(ts) == CHOOSE t \in ts : \A u \in ts : t <= u

\* Wrong on purpose: the first entry of the name, whatever the others are.
FindTypeFirst(T, name) ==
  IF Named(T, name) = {} THEN None ELSE BaseType(T, First(Named(T, name)))

\* None if no entry has the name, or two that are not equal.
FindType(T, name) ==
  LET ts == Named(T, name) IN
  IF ts = {} \/ \E t \in ts \ {First(ts)} : ~Same(T, t, First(ts))
  THEN None
  ELSE BaseType(T, First(ts))

-----------------------------------------------------------------------------
\* _flatten_and_write

Zeros(n) == [i \in 1..n |-> 0]

\* Byte^k
Power(k) ==
  LET product[i \in 0..k] == IF i = 0 THEN 1 ELSE Byte * product[i - 1]
  IN  product[k]

LittleEndian(n, size) == [i \in 1..size |-> (n \div Power(i - 1)) % Byte]

\* BaseTypesMap, without the floating point types.
BaseSizes ==
  [unsigned |-> {1, 2, 4, 8}, signed |-> {1, 2, 4, 8}, boolean |-> {1},
   unsigned_char |-> {1}, signed_char |-> {1}]

\* The value of the ctypes object made from n.
Wrapped(encoding, size, n) ==
  LET u == n % Power(size) IN
  IF encoding = "boolean" THEN (IF n = 0 THEN 0 ELSE 1)
  ELSE IF encoding \in {"signed", "signed_char"} /\ u >= Power(size) \div 2
       THEN u - Power(size)
       ELSE u

FlatInt(encoding, size, v) ==
  IF v.kind # "int" THEN Fail
  ELSE IF Wrapped(encoding, size, v.n) # v.n THEN Fail
       ELSE LittleEndian(v.n % Power(size), size)

\* The code expects a pointer entry without a size.
FlatPointer(e, v) ==
  IF e.byte_size # None THEN Fail ELSE FlatInt("unsigned", 8, v)

\* A text of one character below Byte \div 2 is encoded as one byte, others
\* as more, which fails an assertion.
FlatChar(v) ==
  IF Len(v.chars) = 1 /\ (v.kind = "text" => v.chars[1] < Byte \div 2)
  THEN v.chars
  ELSE Fail

FlatBase(e, v) ==
  IF e.encoding \notin DOMAIN BaseSizes \/ e.byte_size \notin BaseSizes[e.encoding]
  THEN Fail
  ELSE IF v.kind \notin {"text", "bytes"} THEN FlatInt(e.encoding, e.byte_size, v)
       ELSE IF e.encoding \in {"unsigned_char", "signed_char"} THEN FlatChar(v) ELSE Fail

\* Wrong on purpose: no room is kept for the terminator of a string.
FlatArrayFull(T, flat, t, v) ==
  LET b == BaseType(T, t)
      blobs == [i \in DOMAIN Items(v) |-> flat[<<b, Items(v)[i]>>]]
      size == ArrayCount(T, t) * T[b].byte_size
  IN  IF \/ b = None \/ ArrayCount(T, t) = 0 \/ T[b].byte_size = None
         \/ ~Iterable(v) \/ Len(Items(v)) > ArrayCount(T, t)
         \/ \E i \in DOMAIN blobs : blobs[i] = Fail
      THEN Fail
      ELSE FlattenSeq(blobs) \o Zeros(size - Len(FlattenSeq(blobs)))

FlatArray(T, flat, t, v) ==
  LET b == BaseType(T, t)
      blobs == [i \in DOMAIN Items(v) |-> flat[<<b, Items(v)[i]>>]]
      blob == FlattenSeq(blobs)
      size == ArrayCount(T, t) * T[b].byte_size
  IN  IF \/ b = None \/ ArrayCount(T, t) = 0 \/ T[b].byte_size = None
         \/ ~Iterable(v) \/ Len(Items(v)) > ArrayCount(T, t)
         \/ \E i \in DOMAIN blobs : blobs[i] = Fail
         \/ T[b].name = "char" /\ Len(blob) = size /\ blob[Len(blob)] # 0
      THEN Fail
      ELSE blob \o Zeros(size - Len(blob))

\* Every member has a field and a place, and vice versa.
FieldsMatch(T, t, v) ==
  /\ v.kind = "config"
  /\ DOMAIN v.fields = {T[T[t].members[i]].name : i \in DOMAIN T[t].members}
  /\ Located(T, t)

\* The blobs of the members, in the order of their places.
MemberBlobs(T, flat, t, v) ==
  LET ms == ByLocation(T, t) IN
  [i \in DOMAIN ms |->
     IF BaseType(T, ms[i]) = None THEN Fail
     ELSE flat[<<BaseType(T, ms[i]), v.fields[T[ms[i]].name]>>]]

\* Wrong on purpose: no padding in front of a member.
FlatStructPacked(T, flat, t, v) ==
  LET blob == FlattenSeq(MemberBlobs(T, flat, t, v))
  IN  IF ~FieldsMatch(T, t, v) \/ Len(blob) > T[t].byte_size
      THEN Fail
      ELSE blob \o Zeros(T[t].byte_size - Len(blob))

\* Each member is put behind padding up to its place, which the members in
\* front of it, and the padding, must not go over.
FlatStruct(T, flat, t, v) ==
  LET n == Len(T[t].members)
      start(i) == T[ByLocation(T, t)[i]].data_member_location
      blobs == MemberBlobs(T, flat, t, v)
      end(i) == IF i = 0 THEN 0 ELSE start(i) + Len(blobs[i])
  IN  IF \/ ~FieldsMatch(T, t, v)
         \/ \E i \in 1..n : blobs[i] = Fail \/ end(i - 1) > start(i)
         \/ end(n) > T[t].byte_size
      THEN Fail
      ELSE FlattenSeq([i \in 1..n |-> Zeros(start(i) - end(i - 1)) \o blobs[i]])
             \o Zeros(T[t].byte_size - end(n))

\* One level; flat yields the blobs of the levels below.
FlatBy(T, flat, t, v) ==
  IF v.kind = "empty"
  THEN IF T[t].byte_size = None THEN Fail ELSE Zeros(T[t].byte_size)
  ELSE CASE T[t].tag = "pointer" -> FlatPointer(T[t], v)
         [] T[t].tag = "base" -> FlatBase(T[t], v)
         [] T[t].tag = "array" -> FlatArray(T, flat, t, v)
         [] T[t].tag = "structure" -> FlatStruct(T, flat, t, v)
         [] OTHER -> Fail

FlatWithin(T) ==
  LET flat[k \in 0..MaxNesting] ==
        IF k = 0 THEN [p \in (DOMAIN T) \X Value |-> Fail]
        ELSE [p \in (DOMAIN T) \X Value |-> FlatBy(T, flat[k - 1], p[1], p[2])]
  IN  flat
Flatten(T, t, v) == FlatWithin(T)[MaxNesting][<<t, v>>]
=============================================================================
