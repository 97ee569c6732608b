------------------------------ MODULE DwarfTable ------------------------------
(***************************************************************************)
(* From the debug information of a program to the table of its types: what *)
(* the constructor of CType makes of a parsed dump, and what it refuses.   *)
(*                                                                         *)
(* A dump d maps the identifier of each entry, its place in the file, to   *)
(* its attributes (an Entry of CTypes) and the identifiers of the entries  *)
(* written inside it.  An entry of the tag "declaration" is a structure    *)
(* that is declared and not defined.  The entries that end a group have no *)
(* name and no type and are left out, and so is the grammar, which yields  *)
(* the tree.                                                               *)
(***************************************************************************)
EXTENDS CTypes

\* What is inside a group, by the tag of its leader; a group inside a group is
\* known as such.
GroupTags ==
  [array |-> {"subrange"}, enumeration |-> {"enumerator"},
   union |-> {"member", "group"}, structure |-> {"member", "group"}]

\* Of each of these sets of attributes an entry must have one.
RequiredAttributes ==
  [base |-> {{"encoding"}, {"byte_size"}},
   typedef |-> {{"name"}, {"type"}},
   member |-> {{"data_member_location", "data_bit_offset"}, {"name"}, {"type"}},
   array |-> {{"type"}}]

Given(e, attribute) == e[attribute] # Entry[attribute]

HasRequired(e) ==
  e.tag \in DOMAIN RequiredAttributes =>
    \A options \in RequiredAttributes[e.tag] : \E a \in options : Given(e, a)

\* The attributes can be extracted: of numbers that are not negative only a
\* size of 0 is refused.
Extracted(e) == e.byte_size # 0

KindOf(e) == IF e.tag \in DOMAIN GroupTags THEN "group" ELSE e.tag

\* The constructor does not raise on the entry id.
Accepted(d, id) ==
  LET e == d[id].entry IN
  /\ Extracted(e) /\ HasRequired(e)
  /\ \A i \in DOMAIN d[id].inside :
       e.tag \in DOMAIN GroupTags /\ KindOf(d[d[id].inside[i]].entry) \in GroupTags[e.tag]

\* Wrong on purpose: the leader of a group inside is a member.
MembersAll(d, id) == d[id].inside

\* The members of a leader: a group inside it has no identifier of its own.
Members(d, id) ==
  LET ids == d[id].inside
      own == Arranged([i \in {j \in DOMAIN ids : KindOf(d[ids[j]].entry) # "group"} |-> i])
  IN  [k \in DOMAIN own |-> ids[own[k]]]

\* The collector: a declaration is not in it.
Collected(d) ==
  [id \in {n \in DOMAIN d : d[n].entry.tag # "declaration"} |->
     [d[id].entry EXCEPT !.members = Members(d, id)]]

\* sanity_check_type_ids
Sane(T) ==
  \A t \in DOMAIN T :
    /\ T[t].tag \in {"typedef", "member", "array"} => T[t].type \in DOMAIN T
    /\ T[t].tag = "array" => T[t].members # <<>>

\* resolve_target_file, of a program that could be dumped, does not raise.
Resolves(d) == (\A id \in DOMAIN d : Accepted(d, id)) /\ Sane(Collected(d))
=============================================================================
