---------------------------- MODULE MCCreateTable ----------------------------
(***************************************************************************)
(* CreateTable on every table of up to three columns, with every choice of *)
(* primary key, identity columns and rejected datatypes.  The columns are  *)
(* interchangeable: their order is part of the table.                      *)
(***************************************************************************)
EXTENDS CreateTable, TLC

ColumnSymmetry == Permutations(Column)
===============================================================================
