------------------------------ MODULE Selections ------------------------------
(***************************************************************************)
(* The part of a list that its loop keeps, stated as the loops of the      *)
(* program have it: by counting.  It is what SelectSeq gives, of which the *)
(* provers have no definition.                                             *)
(***************************************************************************)
EXTENDS Integers, Sequences, FiniteSets

IsList(s) == s \in Seq({s[i] : i \in DOMAIN s})

(* Of the positions that are chosen, the one with n - 1 others before it.  *)
Nth(chosen, n) == CHOOSE i \in chosen : Cardinality({j \in chosen : j < i}) = n - 1
Picked(list, chosen) == [n \in 1..Cardinality(chosen) |-> list[Nth(chosen, n)]]
Passing(list, Test(_)) == Picked(list, {i \in DOMAIN list : Test(list[i])})

Mapped(list, Op(_)) == [i \in DOMAIN list |-> Op(list[i])]
=============================================================================
