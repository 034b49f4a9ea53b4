--------------------------- MODULE MCDatatypeRules ---------------------------
(***************************************************************************)
(* DatatypeRules with every rule of at most two sub-rules on a size and,   *)
(* for precision_scale, at most one on the scale, on lengths, precisions   *)
(* and scales inside and outside their ranges and new values that are 0,   *)
(* in range, or too large for a byte.                                      *)
(***************************************************************************)
EXTENDS DatatypeRules

MININT == -2147483647 - 1
MAXINT == 2147483647

SubRuleOf(action, min, max, new) ==
  [scale |-> FALSE, action |-> action,
   range_min |-> min, range_max |-> max, new_value |-> new]

\* The range is unused when an undefined size is assigned or rejected.
MCMapSize ==
  UNION {{SubRuleOf(a, min, 10, 0) : a \in {"reject_defined", "suppress", "narrow"},
                                     min \in {MININT, 1}},
         {SubRuleOf("assign", min, 10, new) : min \in {MININT, 1}, new \in {0, 300}},
         {SubRuleOf("assign_undefined", MININT, MAXINT, 300),
          SubRuleOf("reject_undefined", MININT, MAXINT, 0)}}

MCScaleMapSize ==
  {[m EXCEPT !.scale = TRUE] : m \in {n \in MCMapSize : n.range_min # MININT}
                                      \cup {SubRuleOf("assign_undefined", MININT, MAXINT, 2)}}

AtMostOne(S) == {<< >>} \cup {<<m>> : m \in S}
AtMostTwo(S) == AtMostOne(S) \cup {<<m, n>> : m \in S, n \in S}

MCDatatypeRule ==
  [type : {"unrecognized", "rejected", "unsized"}, map_sizes : {<< >>}] \cup
  [type : {"char_length", "dt_precision"}, map_sizes : AtMostTwo(MCMapSize)] \cup
  [type : {"precision_scale"},
   map_sizes : {s \o t : s \in AtMostTwo(MCMapSize), t \in AtMostOne(MCScaleMapSize)}]

\* Also a length of -1 (unlimited), a type without a size, and a precision
\* that a rule of another category does not expect.
SizesOf(length, precision, scale, dt) ==
  [f \in SizeField |-> CASE f = "char_length"  -> length
                         [] f = "precision"    -> precision
                         [] f = "scale"        -> scale
                         [] f = "dt_precision" -> dt]

MCDatatype ==
  {SizesOf(n, Undefined, Undefined, Undefined) : n \in {Undefined, -1, 5, 300}} \cup
  {SizesOf(Undefined, n, s, Undefined) : n \in {5, 53}, s \in {Undefined, 0, 2}} \cup
  {SizesOf(Undefined, Undefined, Undefined, n) : n \in {0, 7}}
===============================================================================
