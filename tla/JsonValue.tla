------------------------------ MODULE JsonValue ------------------------------
(***************************************************************************)
(* JSON values and the accessors of backend/src/fetch_rest.c on them.  A   *)
(* string says what it is, Numeral which number atof() finds in it, and    *)
(* Folded what tolower() makes of it; a path is the sequence of its        *)
(* segments, a key a path of one segment.                                  *)
(***************************************************************************)
EXTENDS Integers, Sequences, SequencesExt

CONSTANTS
  Numeral,      \* the numbers that some strings begin with
  Folded        \* the strings that tolower() changes, and their lower case

NaN == -1000        \* of double, which has a value that is no number
Absent == [type |-> "absent"]
Number(n) == [type |-> "number", n |-> n]
Text(s) == [type |-> "string", s |-> s]
Arr(items) == [type |-> "array", items |-> items]
Obj(members) == [type |-> "object", members |-> members]
Pair(k, v) == [k |-> k, v |-> v]

AtoF(s) == IF s \in DOMAIN Numeral THEN Numeral[s] ELSE 0
Lower(s) == IF s \in DOMAIN Folded THEN Folded[s] ELSE s

(* The first of the members that are named so.                             *)
First(members) == IF members = <<>> THEN Absent ELSE Head(members).v
MembersOf(v) == IF v.type = "object" THEN v.members ELSE <<>>

(* cJSON_GetObjectItemCaseSensitive, and cJSON_GetObjectItem.              *)
Member(v, k) == First(SelectSeq(MembersOf(v), LAMBDA m : m.k = k))
MemberAnyCase(v, k) == First(SelectSeq(MembersOf(v), LAMBDA m : Lower(m.k) = Lower(k)))

(* valuedouble: zero in a new item, set by the parser in a number only.    *)
ValueDouble(v) == IF v.type = "number" THEN v.n ELSE 0

Step(v, segment) ==
  IF v.type = "array" /\ segment \in DOMAIN Numeral
    THEN IF Numeral[segment] < Len(v.items) THEN v.items[Numeral[segment] + 1] ELSE Absent
    ELSE Member(v, segment)

json_navigate(v, path) == FoldLeft(Step, v, path)

json_resolve(v, key) ==
  CASE key = <<>>     -> Absent
    [] Len(key) = 1 -> Member(v, key[1])
    [] OTHER        -> json_navigate(v, key)

(* A number, a string or the first of an array; otherwise NAN.             *)
Scalar(v) ==
  CASE v.type = "number" -> v.n
    [] v.type = "string" -> AtoF(v.s)
    [] OTHER             -> NaN

json_get_double(v, key) ==
  LET found == json_resolve(v, key)
  IN  IF found.type # "array" THEN Scalar(found)
      ELSE IF found.items = <<>> THEN NaN ELSE Scalar(found.items[1])

(* The string at a key, or what is given for one that is not there.        *)
StringOr(v, key, default) ==
  LET found == json_resolve(v, key) IN IF found.type = "string" THEN found.s ELSE default
=============================================================================
