---------------------------- MODULE DatatypeRules ----------------------------
(***************************************************************************)
(* The application of a datatype rule of the JSON preferences to the       *)
(* datatype of one column (ddl_table_migrator::migrate_datatype_ddl), and  *)
(* the sizes of the datatype that is then output                           *)
(* (ddl_stname_migrator_base::migrate_datatype_ddl).                       *)
(*                                                                         *)
(* A rule is a category and a list of sub-rules, which are tried in order  *)
(* on one size of the datatype (length, precision, or datetime precision); *)
(* the first that matches is applied and ends the loop.  The sub-rules on  *)
(* the scale of a precision_scale rule have a loop of their own.           *)
(*                                                                         *)
(* Assertions exist in some builds and not in others: where one fails, the *)
(* program stops or goes on.                                               *)
(***************************************************************************)
EXTENDS ColumnRules

CONSTANTS
  DatatypeRule,  \* the rules considered
  Datatype,      \* the datatypes of the columns considered
  Undefined      \* a size that the metadata does not define

VARIABLES
  stage,            \* where migrate_datatype_ddl stands: see Stage
  rule,             \* the rule that recognises the datatype
  source,           \* the datatype of the metadata
  datatype,         \* the datatype as migrated so far
  cit,              \* the sub-rule to try next
  column_rejected,  \* the verdict on the column
  output            \* the sizes output in parentheses after the type's name

vars == << stage, rule, source, datatype, cit, column_rejected, output >>

Stage == {"find", "sizes", "scale", "migrated", "output", "assert_failed"}

-------------------------------------------------------------------------------
\* Sizes, and the widths of the members that hold them: int32_t, but uint8_t
\* for the precision and int16_t for the datetime precision.

SizeField == {"char_length", "precision", "scale", "dt_precision"}

\* Bug: the value does not fit.
StoredUntruncated(field, value) == value

Stored(field, value) ==
  CASE field = "precision"    -> value % 256
    [] field = "dt_precision" -> ((value + 32768) % 65536) - 32768
    [] OTHER                  -> value

DatatypeRecord ==
  {d \in [SizeField -> Int \cup {Undefined}] :
     /\ d["precision"] # Undefined =>
          0 <= d["precision"] /\ d["precision"] <= 255
     /\ d["dt_precision"] # Undefined =>
          -32768 <= d["dt_precision"] /\ d["dt_precision"] <= 32767}

ASSUME UndefinedAssumption == Undefined \notin Int
ASSUME DatatypeAssumption == Datatype \subseteq DatatypeRecord
ASSUME DatatypeRuleAssumption == DatatypeRule \subseteq DatatypeRuleRecord

\* The size a rule's (non-scale) sub-rules are about, and the sizes that it
\* asserts the datatype does not have.
SizeOf(type) == IF type = "precision_scale" THEN "precision" ELSE type

AssertedUndefined(type) ==
  CASE type = "unsized"         -> SizeField
    [] type = "char_length"     -> SizeField \ {"char_length"}
    [] type = "precision_scale" -> {"char_length", "dt_precision"}
    [] type = "dt_precision"    -> SizeField \ {"dt_precision"}

-------------------------------------------------------------------------------
\* migrate_char_length_size, migrate_numeric_precision_size, _scale_size and
\* migrate_dt_precision_size: does the sub-rule match the size, and what does
\* it make of it?

InRange(size, m) == m.range_min <= size /\ size <= m.range_max

Matches(size, m) ==
  CASE size = Undefined -> m.action \in {"assign_undefined", "reject_undefined"}
    [] m.action \in {"reject_defined", "suppress", "assign"} ->
         size # Undefined /\ InRange(size, m)
    [] m.action = "narrow" -> size # Undefined /\ ~InRange(size, m)
    [] OTHER -> FALSE

Rejects(m) == m.action \in {"reject_defined", "reject_undefined"}

NewSize(field, size, m) ==
  CASE m.action = "suppress" -> Undefined
    [] m.action = "narrow" ->
         Stored(field, IF size < m.range_min THEN m.range_min ELSE m.range_max)
    [] m.action \in {"assign", "assign_undefined"} -> Stored(field, m.new_value)
    [] OTHER -> size

Apply(field, m) == [datatype EXCEPT ![field] = NewSize(field, @, m)]

-------------------------------------------------------------------------------
Init ==
  /\ stage = "find" /\ rule \in DatatypeRule /\ source \in Datatype
  /\ datatype = source /\ cit = 1 /\ column_rejected = FALSE /\ output = << >>

\* No rule, or a rule that rejects the datatype altogether.
RejectDatatypeName ==
  /\ stage = "find" /\ rule.type \in {"unrecognized", "rejected"}
  /\ column_rejected' = TRUE
  /\ stage' = "migrated"
  /\ UNCHANGED << rule, source, datatype, cit, output >>

\* A rule of some category; the sizes of the other categories are asserted to
\* be undefined.
EnterRule ==
  /\ stage = "find" /\ rule.type \notin {"unrecognized", "rejected"}
  /\ \/ stage' = IF rule.type = "unsized" THEN "migrated" ELSE "sizes"
     \/ /\ \E f \in AssertedUndefined(rule.type) : source[f] # Undefined
        /\ stage' = "assert_failed"
  /\ UNCHANGED << rule, source, datatype, cit, column_rejected, output >>

\* The loop over the sub-rules, which a precision_scale rule leaves before
\* the first on a scale.  The other categories' functions ignore those.
HasSubRule == cit <= Len(rule.map_sizes)
SubRule    == rule.map_sizes[cit]
Tried      == HasSubRule /\ (SubRule.scale => rule.type # "precision_scale")

\* Bug: a sub-rule that matches does not end the loop.
TrySubRuleNoBreak ==
  LET field == SizeOf(rule.type)
  IN /\ stage = "sizes" /\ Tried
     /\ cit' = cit + 1
     /\ IF ~SubRule.scale /\ Matches(datatype[field], SubRule)
          THEN /\ datatype' = Apply(field, SubRule)
               /\ column_rejected' = (column_rejected \/ Rejects(SubRule))
          ELSE UNCHANGED << datatype, column_rejected >>
     /\ UNCHANGED << stage, rule, source, output >>

TrySubRule ==
  LET field == SizeOf(rule.type)
  IN /\ stage = "sizes" /\ Tried
     /\ cit' = cit + 1
     /\ IF ~SubRule.scale /\ Matches(datatype[field], SubRule)
          THEN /\ datatype' = Apply(field, SubRule)
               /\ column_rejected' = Rejects(SubRule)
               /\ stage' = IF rule.type = "precision_scale" THEN "scale"
                                                             ELSE "migrated"
          ELSE UNCHANGED << datatype, column_rejected, stage >>
     /\ UNCHANGED << rule, source, output >>

NoSubRuleMatches ==
  /\ stage = "sizes" /\ ~Tried
  /\ stage' = IF rule.type = "precision_scale" THEN "scale" ELSE "migrated"
  /\ UNCHANGED << rule, source, datatype, cit, column_rejected, output >>

\* The loop over the scale sub-rules, which is entered for a rejected column.
\* It goes on where the first loop has stopped, which may be before another
\* sub-rule on the precision: an assertion fails, or nothing happens.
TryScaleSubRule ==
  /\ stage = "scale" /\ column_rejected /\ HasSubRule
  /\ \/ /\ cit' = cit + 1
        /\ IF SubRule.scale /\ Matches(datatype["scale"], SubRule)
             THEN datatype' = Apply("scale", SubRule) /\ stage' = "migrated"
             ELSE UNCHANGED << datatype, stage >>
     \/ /\ ~SubRule.scale
        /\ stage' = "assert_failed"
        /\ UNCHANGED << cit, datatype >>
  /\ UNCHANGED << rule, source, column_rejected, output >>

LeaveScale ==
  /\ stage = "scale" /\ ~(column_rejected /\ HasSubRule)
  /\ stage' = "migrated"
  /\ UNCHANGED << rule, source, datatype, cit, column_rejected, output >>

-------------------------------------------------------------------------------
\* A column that is kept has its length, or its precision and a scale other
\* than 0, output.  Two assertions: no scale but 0 without a precision, and
\* not both a length and a precision.  A datetime precision is not output.
Sizes(d) ==
  (IF d["char_length"] = Undefined THEN << >> ELSE << d["char_length"] >>) \o
  (IF d["precision"] = Undefined THEN << >>
     ELSE << d["precision"] >> \o
          (IF d["scale"] \in {Undefined, 0} THEN << >> ELSE << d["scale"] >>))

Output ==
  /\ stage = "migrated" /\ ~column_rejected
  /\ \/ stage' = "output" /\ output' = Sizes(datatype)
     \/ /\ \/ datatype["precision"] = Undefined
                /\ datatype["scale"] \notin {Undefined, 0}
           \/ Undefined \notin {datatype["char_length"], datatype["precision"]}
        /\ stage' = "assert_failed"
        /\ UNCHANGED output
  /\ UNCHANGED << rule, source, datatype, cit, column_rejected >>

Next ==
  \/ RejectDatatypeName \/ EnterRule
  \/ TrySubRule \/ NoSubRuleMatches
  \/ TryScaleSubRule \/ LeaveScale
  \/ Output

Spec == Init /\ [][Next]_vars
-------------------------------------------------------------------------------
TypeOK ==
  /\ stage \in Stage
  /\ rule \in DatatypeRule
  /\ source \in Datatype
  /\ datatype \in DatatypeRecord
  /\ cit \in 1..(Len(rule.map_sizes) + 1)
  /\ column_rejected \in BOOLEAN
  /\ output \in Seq(Int)

Sized    == rule.type \in {"char_length", "precision_scale", "dt_precision"}
Migrated == stage \in {"migrated", "output"}

\* The sub-rules on the size of the rule's category, or on the scale, that
\* match the size the metadata defines; the first of them.
MatchesSource(i, scale) ==
  /\ rule.map_sizes[i].scale = scale
  /\ Matches(source[IF scale THEN "scale" ELSE SizeOf(rule.type)],
             rule.map_sizes[i])

First(i, scale) ==
  /\ i \in DOMAIN rule.map_sizes /\ MatchesSource(i, scale)
  /\ \A j \in DOMAIN rule.map_sizes : j < i => ~MatchesSource(j, scale)

(***************************************************************************)
(* RUNNING.md: "Order is important amongst sub-rules: only the first       *)
(* matching sub-rule is applied; a size not matched by the range of any    *)
(* sub-rule is output unchanged (though a datatype not matching any rule   *)
(* is rejected)".  What the loops of migrate_datatype_ddl do to a size is  *)
(* what its first matching sub-rule says of the size in the metadata, and  *)
(* they leave the sizes of other categories alone; see ScaleRulesApplied   *)
(* for the scale.                                                          *)
(***************************************************************************)
FirstSubRuleDecides ==
  IF ~Sized
    THEN column_rejected <=> rule.type # "unsized"
    ELSE LET field == SizeOf(rule.type)
         IN /\ \A i \in DOMAIN rule.map_sizes : First(i, FALSE) =>
                 /\ column_rejected <=> Rejects(rule.map_sizes[i])
                 /\ datatype[field] =
                      NewSize(field, source[field], rule.map_sizes[i])
            /\ (\A i \in DOMAIN rule.map_sizes : ~First(i, FALSE)) =>
                 ~column_rejected /\ datatype[field] = source[field]
            /\ \A f \in SizeField \ {field, "scale"} : datatype[f] = source[f]

FirstSubRuleApplied == Migrated => FirstSubRuleDecides

\* RUNNING.md: the scale sub-rules of a precision_scale rule redefine the
\* scale of a column, or reject it.
ScaleRulesApplied ==
  Migrated /\ ~column_rejected /\ rule.type = "precision_scale" =>
    \A i \in DOMAIN rule.map_sizes : First(i, TRUE) =>
      /\ ~Rejects(rule.map_sizes[i])
      /\ datatype["scale"] = NewSize("scale", source["scale"], rule.map_sizes[i])

===============================================================================
