----------------------------- MODULE RowChecker -----------------------------
(***************************************************************************)
(* TupleRowConsistencyChecker (src/TupleRowConsistencyChecker.cc): the     *)
(* template of column types that the first row of a tuple defines, and the *)
(* verdict on each later row.  A std::map iterates its columns in          *)
(* ascending order, so columns are naturals.                               *)
(*                                                                         *)
(* A cell is abstracted to what decides its type: the C++ type it was      *)
(* assigned from and, for a string, whether MultiType::stringIs() finds    *)
(* it to look like a number ("numtext").                                   *)
(***************************************************************************)
EXTENDS Integers, FiniteSets

CONSTANT Columns        \* the column names, in the order of std::map

ASSUME ColumnsAssumption == Columns \subseteq Nat /\ IsFiniteSet(Columns)

Types == {"kString", "kInt64", "kDouble64", "kBool"}

Cells == {"text", "numtext", "int", "double", "bool"}

\* MultiType::isType() of a cell as the constructors and assignments leave it.
IsType == [text |-> "kString", numtext |-> "kString", int |-> "kInt64",
           double |-> "kDouble64", bool |-> "kBool"]

\* MultiType::isType() after trimType(): only a string is ever re-typed.
TrimmedType == [IsType EXCEPT !.numtext = "kInt64"]

\* isSubType(a, b): the types b that a column of type a takes as well.
SubTypes == [kDouble64 |-> {"kInt64", "kBool"}, kInt64 |-> {"kBool"},
             kString |-> {}, kBool |-> {}]

\* A row's simple data: a map from some of the columns to cells.
Rows == UNION {[D -> Cells] : D \in SUBSET Columns}

Templates == UNION {[D -> Types] : D \in SUBSET Columns}

\* define(map): const_cast and trimType(), then one type per column.
Define(row) == [c \in DOMAIN row |-> TrimmedType[row[c]]]

(***************************************************************************)
(* check(map) reads the template with operator[], which inserts the first  *)
(* enumerator, kString, for a column the template does not have.           *)
(***************************************************************************)
TemplateType(tpl, c) == IF c \in DOMAIN tpl THEN tpl[c] ELSE "kString"

Fits(tpl, types, c) ==
  \/ types[c] = TemplateType(tpl, c)
  \/ types[c] \in SubTypes[TemplateType(tpl, c)]

SameSize(tpl, types) == Cardinality(DOMAIN types) = Cardinality(DOMAIN tpl)

\* The columns that the loop of check(map) reaches before it returns.
Visited(tpl, types) ==
  {c \in DOMAIN types : \A d \in DOMAIN types : d < c => Fits(tpl, types, d)}

\* The template check(map) leaves behind, whatever its verdict is.
TemplateAfter(tpl, types) ==
  IF DOMAIN types = {} \/ ~SameSize(tpl, types) THEN tpl
  ELSE [c \in DOMAIN tpl \cup Visited(tpl, types) |-> TemplateType(tpl, c)]

\* The verdict of check(map) on a row whose cells have these types.
Check(tpl, types) ==
  \/ DOMAIN types = {}
  \/ /\ SameSize(tpl, types)
     /\ \A c \in DOMAIN types : Fits(tpl, types, c)
     /\ DOMAIN tpl \subseteq DOMAIN types

RawTypes(row) == [c \in DOMAIN row |-> IsType[row[c]]]
=============================================================================
