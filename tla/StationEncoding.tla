--------------------------- MODULE StationEncoding ---------------------------
(***************************************************************************)
(* The codes under which a model knows stations (modeling/encoding.py).     *)
(* A station id is a number here; numbers are in the order of the ids as    *)
(* strings.                                                                 *)
(***************************************************************************)
EXTENDS Integers, FiniteSets

\* A station's code is its place in the sorted catalog, from 0.
BuildStationIdEncoding(catalog) ==
    [s \in catalog |-> Cardinality({t \in catalog : t < s})]
=============================================================================
