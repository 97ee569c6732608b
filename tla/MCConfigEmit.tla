----------------------------- MODULE MCConfigEmit -----------------------------
(***************************************************************************)
(* Finite instances of ConfigEmit: small programs and their debug entries. *)
(***************************************************************************)
EXTENDS ConfigEmit

\* An entry with nothing inside it, and one with the entries ns inside; the
\* dump of a sequence of them.
Leaf(id, e) == [id |-> id, entry |-> e, inside |-> <<>>]
Node(id, e, ns) == [id |-> id, entry |-> e, inside |-> ns]

RECURSIVE Entries(_)
Entries(ns) == ToSet(ns) \cup UNION {Entries(ns[i].inside) : i \in DOMAIN ns}
DumpOf(ns) ==
  [id \in {n.id : n \in Entries(ns)} |->
     LET n == CHOOSE k \in Entries(ns) : k.id = id
     IN  [entry |-> n.entry, inside |-> [i \in DOMAIN n.inside |-> n.inside[i].id]]]

\* A value and all that is inside it; the only thing inside a text of one
\* character is that text.
RECURSIVE Parts(_)
Parts(v) ==
  {v} \cup (IF v.kind = "config" THEN UNION {Parts(v.fields[f]) : f \in DOMAIN v.fields}
           ELSE IF v.kind = "list" THEN UNION {Parts(v.items[i]) : i \in DOMAIN v.items}
           ELSE IF Iterable(v) THEN ToSet(Items(v)) ELSE {})

Base(n, e, s) == [Entry EXCEPT !.tag = "base", !.name = n, !.encoding = e, !.byte_size = s]
Pointer(s) == [Entry EXCEPT !.tag = "pointer", !.byte_size = s]
Member(n, t, tn, at) ==
  [Entry EXCEPT !.tag = "member", !.name = n, !.type = t, !.type_name = tn,
                !.data_member_location = at]
Bits(n, t, tn, at) ==
  [Entry EXCEPT !.tag = "member", !.name = n, !.type = t, !.type_name = tn,
                !.data_bit_offset = at]
Structure(n, s) == [Entry EXCEPT !.tag = "structure", !.name = n, !.byte_size = s]
At(line, e) == [e EXCEPT !.decl_file = "app.h", !.decl_line = line]
Declaration(n) == [Entry EXCEPT !.tag = "declaration", !.name = n]
ArrayOf(t, tn) == [Entry EXCEPT !.tag = "array", !.type = t, !.type_name = tn]
CountRange(n) == [Entry EXCEPT !.tag = "subrange", !.count = n]
UpperRange(n) == [Entry EXCEPT !.tag = "subrange", !.upper_bound = n]
Typedef(n, t, tn) ==
  [Entry EXCEPT !.tag = "typedef", !.name = n, !.type = t, !.type_name = tn]

\* Members with padding between and after them, listed out of order, a
\* typedef, strings, arrays of structs, two equal definitions, two that are
\* declared in different lines, a bit field (twice), a struct that is defined
\* inside another, and strings in two rows, of which the dump gives the size.
LayoutDump == <<
  Leaf(1, Base("u8", "unsigned", 1)),
  Leaf(2, Base("i16", "signed", 2)),
  Leaf(3, Base("char", "signed_char", 1)),
  Leaf(4, Pointer(None)),
  Node(5, At(1, Structure("inner", 4)), <<Leaf(6, At(3, Member("b", 2, "i16", 2))),
                                          Leaf(7, At(2, Member("a", 1, "u8", 0)))>>),
  Node(8, ArrayOf(1, "u8"), <<Leaf(9, CountRange(2)), Leaf(10, UpperRange(1))>>),
  Node(11, ArrayOf(3, "char"), <<Leaf(12, UpperRange(2))>>),
  Leaf(13, Typedef("inner_t", 5, "inner")),
  Node(14, ArrayOf(13, "inner_t"), <<Leaf(15, CountRange(2))>>),
  Node(16, Structure("config", 16), <<Leaf(17, Member("p", 4, "u8 *", 0)),
                                      Leaf(18, Member("in", 13, "inner_t", 8)),
                                      Leaf(19, Member("s", 11, "char[3]", 12))>>),
  Node(20, Structure("arrays", 12), <<Leaf(21, Member("xs", 14, "inner_t[2]", 4)),
                                      Leaf(22, Member("v", 8, "u8[2][2]", 0))>>),
  Node(23, At(1, Structure("inner", 4)), <<Leaf(24, At(2, Member("a", 1, "u8", 0))),
                                           Leaf(25, At(3, Member("b", 2, "i16", 2)))>>),
  Node(26, Structure("bits", 1), <<Leaf(27, Bits("f", 1, "u8", 0))>>),
  Node(28, Structure("outer", 3),
       <<Leaf(29, Member("u", 30, "nested", 1)),
         Node(30, Structure("nested", 1), <<Leaf(31, Member("a", 1, "u8", 0))>>)>>),
  Node(32, [ArrayOf(3, "char") EXCEPT !.byte_size = 6],
       <<Leaf(33, CountRange(2)), Leaf(34, CountRange(3))>>),
  Node(35, Structure("rows", 6), <<Leaf(36, Member("s", 32, "char[2][3]", 0))>>),
  Node(37, At(5, Structure("moved", 1)), <<Leaf(38, At(6, Member("a", 1, "u8", 0)))>>),
  Node(39, At(7, Structure("moved", 1)), <<Leaf(40, At(8, Member("a", 1, "u8", 0)))>>),
  Node(41, Structure("bits", 1), <<Leaf(42, Bits("f", 1, "u8", 0))>>)
>>

\* Programs with one more entry: a pointer to a struct that is only declared,
\* which is read, and what is refused: a typedef of such a struct, a typedef of
\* void, an anonymous member, a struct of no size, an array without a
\* dimension, and an enumerator outside its enumeration.
One(e) == <<Leaf(1, Base("u8", "unsigned", 1)), e>>
LayoutTrees ==
  [app |-> LayoutDump,
   handle |-> One(Leaf(2, Declaration("t"))) \o
                <<Leaf(3, [Pointer(None) EXCEPT !.type = 2]),
                  Node(4, Structure("inner", 8), <<Leaf(5, Member("p", 3, "t *", 0))>>)>>,
   opaque |-> One(Leaf(2, Declaration("t"))) \o <<Leaf(3, Typedef("t_t", 2, "t"))>>,
   void |-> One(Leaf(2, Typedef("v_t", None, ""))),
   anon |-> One(Node(2, Structure("inner", 1), <<Leaf(3, Member("", 1, "u8", 0))>>)),
   zero |-> One(Node(2, Structure("inner", 0), <<>>)),
   flat |-> One(Node(2, ArrayOf(1, "u8"), <<>>)),
   enum |-> One(Node(2, Structure("inner", 1), <<Leaf(3, [Entry EXCEPT !.tag = "enumerator"])>>))]
LayoutDumps == [p \in DOMAIN LayoutTrees |-> DumpOf(LayoutTrees[p])]

Inner(a, b) == Config([a |-> Num(a), b |-> Num(b)])
Inners == {Inner(a, b) : a \in {-1, 0, 3, 4}, b \in {-9, -8, -1, 0, 7, 8}}
            \cup {Empty, Config([a |-> Num(1)]), Num(0),
                  Config([a |-> Num(1), b |-> Num(1), c |-> Num(1)])}
Strings == {Text(<<>>), Text(<<1>>), Text(<<1, 1, 0>>), Text(<<1, 1, 1>>), Text(<<2>>),
            Text(<<1, 1, 0, 0>>), Bytes(<<3>>), Bytes(<<1, 1>>), List(<<Num(-2), Num(1)>>)}
Layouts ==
  {<<"inner", v>> : v \in Inners}
    \cup {<<"config", Config([p |-> Num(p), in |-> v, s |-> s])>> :
            p \in {-1, 7, 65535, 65536}, v \in {Inner(3, -8), Inner(0, 9), Empty}, s \in Strings}
    \cup {<<"arrays", Config([v |-> v, xs |-> xs])>> :
            v \in {List(<<>>), List(<<Num(3), Num(1), Num(2)>>), List(<<Num(4)>>), Bytes(<<1, 2>>)},
            xs \in {List(<<>>), List(<<Inner(1, -2)>>), List(<<Empty, Inner(3, 5)>>),
                    List(<<Inner(1, 1), Inner(2, 2), Inner(3, 3)>>), Num(1)}}
    \cup {<<"bits", Config([f |-> Num(1)])>>, <<"bits", Empty>>, <<"none", Empty>>,
           <<"moved", Config([a |-> Num(1)])>>, <<"moved", Empty>>,
          <<"outer", Config([u |-> Config([a |-> Num(2)])])>>}
    \cup {<<"rows", Config([s |-> s])>> :
            s \in {Text(<<1, 1, 1>>), Text(<<1, 1, 1, 1, 0>>), Text(<<1, 1, 1, 1, 1, 0>>),
                   Text(<<1, 1, 1, 1, 1, 1>>), List(<<Num(1), Num(1), Num(1), Num(1)>>)}}

LayoutStructs ==
  {[target |-> "app", section |-> "cfg", type |-> l[1], value |-> l[2]] : l \in Layouts}
    \cup {[target |-> p, section |-> "cfg", type |-> "inner", value |-> Empty] :
            p \in DOMAIN LayoutDumps}
LayoutValues == UNION {Parts(s.value) : s \in LayoutStructs}
OnePath == [p \in (DOMAIN LayoutDumps) \X {"cfg"} |-> p[1]]

-----------------------------------------------------------------------------
\* Two programs, one with two different definitions of a type; structs that
\* lack something, cannot be written, or belong to a program without a dump.

SmallDump ==
  <<Leaf(1, Base("u8", "unsigned", 1)),
    Node(2, Structure("one", 1), <<Leaf(3, Member("a", 1, "u8", 0))>>)>>
TwiceDump == SmallDump \o
  <<Node(4, Structure("one", 2), <<Leaf(5, Member("a", 1, "u8", 1))>>)>>
EmitDumps == [app |-> DumpOf(SmallDump), drv |-> DumpOf(TwiceDump)]

ValueOf(target, section, type, n) ==
  [target |-> target, section |-> section, type |-> type, value |-> Config([a |-> Num(n)])]
EmitStructs ==
  {ValueOf("app", "cfg", "one", 1), ValueOf("app", "cfg", "one", 2), ValueOf("app", "cfg", "one", 9),
   ValueOf("app", "net", "one", 1), ValueOf("app", "net", "", 1), ValueOf("drv", "cfg", "one", 1),
   ValueOf("drv", "cfg", "u8", 1), ValueOf("gone", "cfg", "one", 1)}

EmitValues == UNION {Parts(s.value) : s \in EmitStructs}

Sections == {"app", "drv", "gone"} \X {"cfg", "net"}
\* Two of the sections join to one file name.
OwnPaths == [p \in Sections |-> IF p = <<"app", "net">> THEN <<"drv", "cfg">> ELSE p]
=============================================================================
