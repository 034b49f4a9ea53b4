----------------------------- MODULE PrefsReader -----------------------------
(***************************************************************************)
(* The JSON preferences (ddl_table_migrator_prefs_reader): the rules that  *)
(* are made of a document, and the default values then translated by them. *)
(*                                                                         *)
(* A JSON document is parsed outside this program (boost::property_tree).  *)
(* Its structures are sequences of children, read from first to last by a  *)
(* cursor (ptree_cursor) that may be moved to the end and used there; what *)
(* it finds is then undefined.                                             *)
(***************************************************************************)
EXTENDS MacroExpander, ColumnRules

CONSTANTS
  Document,     \* the preferences considered
  NotAnInt32    \* what can't be read as a number

\* A child has children of its own in node, or a value in data, which is read
\* as a text or as number (NotAnInt32 where it is none).
Child(name, data) ==
  [name |-> name, data |-> data, number |-> NotAnInt32, node |-> << >>]
Number(name, n) == [name |-> name, data |-> << >>, number |-> n, node |-> << >>]
Structure(name, node) ==
  [name |-> name, data |-> << >>, number |-> NotAnInt32, node |-> node]

\* A document is two arrays of structures; as deep as this is looked into them.
ChildWith(nodes) == [name : STRING, data : Seq(STRING),
                     number : Int \cup {NotAnInt32}, node : nodes]
Values == Seq(ChildWith({<< >>}))
MapSizeArray == Seq(ChildWith(Values))
DatatypeNode == Seq(ChildWith(MapSizeArray))
ElementNode == Seq(ChildWith(DatatypeNode))
Array == {"datatype_rules", "default_value_rules"}

ASSUME DocumentAssumption ==
  /\ NotAnInt32 \notin Int
  /\ Document \subseteq [Array -> Seq(ChildWith(ElementNode))]

\* The values of default value rules are texts: any character is a token.
ASSUME RuleTextAssumption ==
  \A d \in Document : \A k \in DOMAIN d["default_value_rules"] :
    LET node == d["default_value_rules"][k].node
    IN \A i \in DOMAIN node :
         /\ node[i].data \in Text
         /\ \A j \in DOMAIN node[i].node : node[i].node[j].data \in Text

VARIABLES
  stage,           \* what is read next: an array of document, or see Ended
  document,
  pos,             \* the elements of the array that have been read
  datatype_rules   \* the datatype rules, by name

readerVars == << stage, document, pos, datatype_rules >>
vars == << readerVars, default_value_rules, expanderVars >>

Ended == {"read", "threw", "crashed", "assert_failed"}

-------------------------------------------------------------------------------
\* ptree_cursor: is the k-th child one of that name with a value (get_string,
\* get_nonempty_string, get_int32_t) or a structure that is not empty?

MaxInt32 == 2147483647
MinInt32 == -MaxInt32 - 1
Int32 == MinInt32..MaxInt32
NonNegativeInt32 == 0..MaxInt32

IsString(node, k, name) ==
  k \in DOMAIN node /\ node[k].name = name /\ node[k].node = << >>
IsName(node, k, name) == IsString(node, k, name) /\ node[k].data # << >>
IsStructure(node, k, name) ==
  k \in DOMAIN node /\ node[k].name = name /\ node[k].node # << >>

\* The value of a child that may be left out.
NumberOf(node, name, default) ==
  IF \A k \in DOMAIN node : node[k].name # name THEN default
  ELSE node[CHOOSE k \in DOMAIN node : node[k].name = name].number

\* parse_map_size: the type, then what there is of a range and a new value,
\* in this order.
SizeKeys == << "range_min", "range_max", "new_value" >>
KeyRank(name) == CHOOSE r \in DOMAIN SizeKeys : SizeKeys[r] = name

IsMapSize(node) ==
  /\ IsString(node, 1, "type")
  /\ \E a \in Action : node[1].data \in {<< a >>, << "scale_", a >>}
  /\ \A k \in 2..Len(node) : /\ \E r \in DOMAIN SizeKeys : SizeKeys[r] = node[k].name
                             /\ node[k].number \in Int32
  /\ \A k \in 3..Len(node) : KeyRank(node[k - 1].name) < KeyRank(node[k].name)

MapSizeOf(node) ==
  [scale     |-> Head(node[1].data) = "scale_",
   action    |-> Last(node[1].data),
   range_min |-> NumberOf(node, "range_min", MinInt32),
   range_max |-> NumberOf(node, "range_max", MaxInt32),
   new_value |-> NumberOf(node, "new_value", 0)]

MapSizesOf(node) == [k \in 1..Len(node) |-> MapSizeOf(node[k].node)]

\* Bug: a sub-rule on another size may follow one on the scale.
IsMapSizesUnordered(node) == \A k \in DOMAIN node : IsMapSize(node[k].node)

\* parse_map_sizes
IsMapSizes(node) ==
  /\ \A k \in DOMAIN node : IsMapSize(node[k].node)
  /\ ScaleLast(MapSizesOf(node))

\* parse_datatype_rule: the type, perhaps a new name, perhaps sub-rules.
\* Nothing is said of which sub-rules a type may have.
IsDatatypeRule(node) ==
  LET named == IF IsName(node, 2, "map_name") THEN 1 ELSE 0
  IN /\ IsString(node, 1, "type")
     /\ \E t \in RuleType \ {"unrecognized"} : node[1].data = << t >>
     /\ \/ Len(node) = 1 + named
        \/ /\ Len(node) = 2 + named
           /\ IsStructure(node, 2 + named, "map_sizes")
           /\ IsMapSizes(node[2 + named].node)

DatatypeRuleOf(node) ==
  [type      |-> Head(node[1].data),
   map_sizes |-> IF node[Len(node)].name = "map_sizes"
                   THEN MapSizesOf(node[Len(node)].node) ELSE << >>]

-------------------------------------------------------------------------------
\* What becomes of an element of an array: "read", or how the program ends.

\* parse_type_name_datatype_rule.  Behind a name with nothing after it, the
\* cursor is used at the end.
DatatypeRuleResults(node) ==
  IF ~IsName(node, 1, "type_name") THEN {"threw"}
  ELSE IF Len(node) = 1 THEN {"crashed", "threw"}
  ELSE IF /\ Len(node) = 2
          /\ IsStructure(node, 2, "datatype") /\ IsDatatypeRule(node[2].node)
    THEN {"read"} ELSE {"threw"}

\* The validation of a rewrite by parse_macro_args.  One that begins with a
\* quote, a placeholder or its escape fails an assertion, or is malformed
\* without it.  Of escapes nothing else is looked at.
\*
\* Bug: the end of a range is not looked at.
IsRewriteStartsOnly(rewrite, argcnt) ==
  /\ IsMacroArgs(rewrite)
  /\ \A ph \in Placeholders(rewrite) : ph.number \in 1..argcnt

IsRewrite(rewrite, argcnt) ==
  /\ IsMacroArgs(rewrite)
  /\ \A ph \in Placeholders(rewrite) :
       ph.number \in 1..argcnt /\ ph.range_end <= argcnt

RewriteResults(rewrite, argcnt) ==
  IF \/ rewrite[1] \in Quote \cup DOMAIN Placeholder
     \/ rewrite[1] = "\\" /\ Len(rewrite) > 1 /\ rewrite[2] \in DOMAIN Placeholder
    THEN {"assert_failed", "threw"}
  ELSE IF IsRewrite(rewrite, argcnt) THEN {"read"} ELSE {"threw"}

\* parse_macro_args
MacroArgsResults(node) ==
  IF node[1].name # "argcnt" \/ node[1].number \notin NonNegativeInt32 THEN {"threw"}
  ELSE IF Len(node) = 1 THEN {"read"}
  ELSE IF IsName(node, 2, "rewrite") /\ Len(node) = 2
    THEN RewriteResults(node[2].data, node[1].number) ELSE {"threw"}

\* parse_macro_lhs_default_value_rule.  The cursor is asked for macro_args
\* also where it is at the end, behind the right-hand side.
DefaultValueRuleResults(node) ==
  IF ~IsName(node, 1, "macro_lhs") THEN {"threw"}
  ELSE IF Len(node) = 1 THEN {"crashed", "threw"}
  ELSE IF ~IsString(node, 2, "macro_rhs") THEN {"threw"}
  ELSE IF Len(node) = 2 THEN {"read", "crashed", "threw"}
  ELSE IF Len(node) = 3 /\ IsStructure(node, 3, "macro_args")
    THEN MacroArgsResults(node[3].node) ELSE {"threw"}

DefaultValueRuleOf(node) ==
  LET macro_args == IF Len(node) = 3 THEN node[3].node ELSE << >>
  IN [macro_rhs |-> node[2].data,
      has_args  |-> macro_args # << >>,
      argcnt    |-> NumberOf(macro_args, "argcnt", 0),
      rewrite   |-> IF Len(macro_args) = 2 THEN macro_args[2].data ELSE << >>]

\* uc_string; names are of one word.
Key(node) == Upper[Head(node[1].data)]
Insert(rules, node, rule) ==
  [n \in DOMAIN rules \cup {Key(node)} |-> IF n = Key(node) THEN rule ELSE rules[n]]

-------------------------------------------------------------------------------
Init ==
  /\ stage = "datatype_rules" /\ document \in Document /\ pos = 0
  /\ datatype_rules = << >> /\ default_value_rules = << >>
  /\ ExpanderInit

Element == document[stage][pos + 1].node
IsAtElement(array) == stage = array /\ pos < Len(document[array])

EndWith(result) ==
  /\ stage' = result
  /\ UNCHANGED << document, pos, datatype_rules, default_value_rules, expanderVars >>

ReadDatatypeRule ==
  /\ IsAtElement("datatype_rules")
  /\ "read" \in DatatypeRuleResults(Element)
  /\ Key(Element) \notin DOMAIN datatype_rules
  /\ datatype_rules' = Insert(datatype_rules, Element, DatatypeRuleOf(Element[2].node))
  /\ pos' = pos + 1
  /\ UNCHANGED << stage, document, default_value_rules, expanderVars >>

RefuseDatatypeRule ==
  /\ IsAtElement("datatype_rules")
  /\ \E result \in DatatypeRuleResults(Element) :
       \/ result # "read" /\ EndWith(result)
       \/ result = "read" /\ Key(Element) \in DOMAIN datatype_rules /\ EndWith("threw")

\* Bug: a rule replaces one of the same name.
ReadDefaultValueRuleAgain ==
  /\ IsAtElement("default_value_rules")
  /\ "read" \in DefaultValueRuleResults(Element)
  /\ default_value_rules' =
       Insert(default_value_rules, Element, DefaultValueRuleOf(Element))
  /\ pos' = pos + 1
  /\ UNCHANGED << stage, document, datatype_rules, expanderVars >>

ReadDefaultValueRule ==
  /\ IsAtElement("default_value_rules")
  /\ "read" \in DefaultValueRuleResults(Element)
  /\ Key(Element) \notin DOMAIN default_value_rules
  /\ default_value_rules' =
       Insert(default_value_rules, Element, DefaultValueRuleOf(Element))
  /\ pos' = pos + 1
  /\ UNCHANGED << stage, document, datatype_rules, expanderVars >>

RefuseDefaultValueRule ==
  /\ IsAtElement("default_value_rules")
  /\ \E result \in DefaultValueRuleResults(Element) :
       \/ result # "read" /\ EndWith(result)
       \/ result = "read" /\ Key(Element) \in DOMAIN default_value_rules /\ EndWith("threw")

\* An array that is missing or empty is refused.
EndOfArray ==
  /\ stage \in Array /\ pos = Len(document[stage])
  /\ \/ pos = 0 /\ EndWith("threw")
     \/ /\ pos > 0 /\ pos' = 0
        /\ stage' = IF stage = "datatype_rules" THEN "default_value_rules" ELSE "read"
        /\ UNCHANGED << document, datatype_rules, default_value_rules, expanderVars >>

\* The default value of a column.  Each has an expander of its own, which
\* keeps nothing for the next.
TranslateDefaultValue ==
  /\ stage = "read" /\ expansion = "idle"
  /\ \E d \in DefaultValue : BeginDefaultValue(d)
  /\ UNCHANGED << readerVars, default_value_rules >>

ExpandMacros == ExpandDefaultValue /\ UNCHANGED << readerVars, default_value_rules >>

Next ==
  \/ ReadDatatypeRule \/ RefuseDatatypeRule
  \/ ReadDefaultValueRule \/ RefuseDefaultValueRule \/ EndOfArray
  \/ TranslateDefaultValue \/ ExpandMacros

\* The program is one thread, which goes on as long as it can.
Spec == Init /\ [][Next]_vars /\ WF_vars(Next)

-------------------------------------------------------------------------------
\* The datatype rules are such as DatatypeRules assumes.
DatatypeRulesTyped ==
  /\ stage \in Array \cup Ended /\ document \in Document /\ pos \in Nat
  /\ \A n \in DOMAIN datatype_rules : datatype_rules[n] \in DatatypeRuleRecord

TypeOK ==
  /\ DatatypeRulesTyped
  /\ \A n \in DOMAIN default_value_rules : default_value_rules[n] \in Rule
  /\ ExpanderTypeOK

(***************************************************************************)
(* Preferences that are read lose no rule: each element of the document is *)
(* the rule of its name, so no two have one name in any case               *)
(* (load_datatype_rules_prefs, load_default_value_rules_prefs).            *)
(***************************************************************************)
DatatypeRuleRead(k) ==
  LET node == document["datatype_rules"][k].node
  IN /\ Key(node) \in DOMAIN datatype_rules
     /\ datatype_rules[Key(node)] = DatatypeRuleOf(node[2].node)

DefaultValueRuleRead(k) ==
  LET node == document["default_value_rules"][k].node
  IN /\ Key(node) \in DOMAIN default_value_rules
     /\ default_value_rules[Key(node)] = DefaultValueRuleOf(node)

NoRuleLost ==
  /\ stage \in {"default_value_rules", "read"} =>
       \A k \in 1..Len(document["datatype_rules"]) : DatatypeRuleRead(k)
  /\ stage = "read" =>
       \A k \in 1..Len(document["default_value_rules"]) : DefaultValueRuleRead(k)

(***************************************************************************)
(* The assertions of rewrite_arg_placeholder rely on the validation that   *)
(* the reader has made of the rewrite, and on a number of arguments that   *)
(* is checked after them.  They only fail for calls with too few arguments *)
(* and for rules that escape a placeholder, for which no validation helps: *)
(* in (\$1) the backslash is looked up by numbers that are never set.      *)
(***************************************************************************)
RewriteValidated ==
  expansion = "assert_failed" =>
    \/ Escapes(RuleOfMacro.rewrite) # {}
    \/ ~(1..RuleOfMacro.argcnt \subseteq DOMAIN CallArgs)

(***************************************************************************)
(* The preferences are read to an end, and a default value is translated   *)
(* in a finite number of passes if no rule leads back to itself            *)
(* (expand_all_macros, which has no limit).                                *)
(***************************************************************************)
Terminates ==
  /\ <>(stage \in Ended)
  /\ expansion = "pass" /\ IsAcyclic ~> expansion # "pass"
===============================================================================
