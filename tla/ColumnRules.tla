----------------------------- MODULE ColumnRules -----------------------------
(***************************************************************************)
(* The datatype rules of the preferences (ddl_column_rules.h), as they are *)
(* read by PrefsReader and applied by DatatypeRules.                       *)
(***************************************************************************)
EXTENDS Integers, Sequences

\* A sub-rule: its type, without the scale_ prefix that scale records, its
\* range and its new_value.
Action == {"reject_defined", "suppress", "narrow", "assign",
           "assign_undefined", "reject_undefined"}

MapSize == [scale : BOOLEAN, action : Action,
            range_min : Int, range_max : Int, new_value : Int]

\* "unrecognized" stands for no rule at all.
RuleType == {"unrecognized", "rejected", "unsized",
             "char_length", "precision_scale", "dt_precision"}

\* Sub-rules on the scale follow all others.
ScaleLast(map_sizes) ==
  \A i, j \in DOMAIN map_sizes : i < j /\ map_sizes[i].scale => map_sizes[j].scale

DatatypeRuleRecord ==
  {r \in [type : RuleType, map_sizes : Seq(MapSize)] : ScaleLast(r.map_sizes)}
===============================================================================
