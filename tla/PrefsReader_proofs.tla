-------------------------- MODULE PrefsReader_proofs --------------------------
(***************************************************************************)
(* Theorems about PrefsReader: no rule of the preferences is lost, the     *)
(* datatype rules are such as DatatypeRules assumes, and what the reader   *)
(* has validated makes an assertion of the expander hold.                  *)
(***************************************************************************)
EXTENDS PrefsReader, TLAPS

-------------------------------------------------------------------------------
\* The datatype rule that is made of a structure the reader accepts.

LEMMA Int32Bounds == MinInt32 \in Int /\ MaxInt32 \in Int
<1>1. MaxInt32 \in Int
  BY SMT DEF MaxInt32
<1> QED
  BY <1>1 DEF MinInt32

LEMMA NumberOfType ==
  ASSUME NEW nodes, NEW node \in Seq(ChildWith(nodes)), NEW name,
         NEW default \in Int,
         \A k \in DOMAIN node : node[k].name = name => node[k].number \in Int
  PROVE  NumberOf(node, name, default) \in Int
<1>1. CASE \A k \in DOMAIN node : node[k].name # name
  BY <1>1 DEF NumberOf
<1>2. CASE \E k \in DOMAIN node : node[k].name = name
  <2>1. (CHOOSE k \in DOMAIN node : node[k].name = name) \in
          {k \in DOMAIN node : node[k].name = name}
    BY <1>2
  <2> QED
    BY <1>2, <2>1 DEF NumberOf
<1> QED
  BY <1>1, <1>2

LEMMA MapSizeOfType ==
  ASSUME NEW node \in Values, IsMapSize(node)
  PROVE  MapSizeOf(node) \in MapSize
<1>1. /\ 1 \in DOMAIN node /\ node[1].name = "type"
      /\ DOMAIN node = 1..Len(node) /\ Len(node) \in Nat
      /\ \A k \in 2..Len(node) : node[k].number \in Int
  <2>1. DOMAIN node = 1..Len(node) /\ Len(node) \in Nat
    BY DEF Values
  <2>2. Int32 \subseteq Int
    BY Int32Bounds DEF Int32
  <2>3. 1 \in DOMAIN node /\ node[1].name = "type"
    BY DEF IsMapSize, IsString
  <2>4. \A k \in 2..Len(node) : node[k].number \in Int32
    BY DEF IsMapSize
  <2> QED
    BY <2>1, <2>2, <2>3, <2>4
<1>2. PICK a \in Action : node[1].data \in {<< a >>, << "scale_", a >>}
  BY DEF IsMapSize
<1>3. Last(node[1].data) = a
  <2>1. Last(<< a >>) = a
    BY DEF Last
  <2>2. Last(<< "scale_", a >>) = a
    BY DEF Last
  <2> QED
    BY <1>2, <2>1, <2>2
<1>4. \A name : name # "type" =>
        \A k \in DOMAIN node : node[k].name = name => node[k].number \in Int
  BY <1>1
<1>5. /\ NumberOf(node, "range_min", MinInt32) \in Int
      /\ NumberOf(node, "range_max", MaxInt32) \in Int
      /\ NumberOf(node, "new_value", 0) \in Int
  <2>1. "range_min" # "type" /\ "range_max" # "type" /\ "new_value" # "type"
    OBVIOUS
  <2>2. MinInt32 \in Int /\ MaxInt32 \in Int /\ 0 \in Int
    BY Int32Bounds
  <2> QED
    BY <1>4, <2>1, <2>2, NumberOfType DEF Values
<1> QED
  BY <1>3, <1>5 DEF MapSizeOf, MapSize

LEMMA MapSizesOfType ==
  ASSUME NEW node \in MapSizeArray, IsMapSizes(node)
  PROVE  MapSizesOf(node) \in Seq(MapSize) /\ ScaleLast(MapSizesOf(node))
<1>1. \A k \in 1..Len(node) : MapSizeOf(node[k].node) \in MapSize
  <2> TAKE k \in 1..Len(node)
  <2>1. node[k] \in ChildWith(Values) /\ k \in DOMAIN node
    BY DEF MapSizeArray
  <2> QED
    BY <2>1, MapSizeOfType DEF ChildWith, IsMapSizes
<1>2. Len(node) \in Nat
  BY DEF MapSizeArray
<1> QED
  BY <1>1, <1>2 DEF MapSizesOf, IsMapSizes

LEMMA DatatypeRuleOfType ==
  ASSUME NEW node \in DatatypeNode, IsDatatypeRule(node)
  PROVE  DatatypeRuleOf(node) \in DatatypeRuleRecord
<1>1. Head(node[1].data) \in RuleType
  BY DEF IsDatatypeRule
<1>2. Len(node) \in Nat /\ DOMAIN node = 1..Len(node)
  BY DEF DatatypeNode
<1>3. CASE node[Len(node)].name # "map_sizes"
  <2>1. DatatypeRuleOf(node) = [type |-> Head(node[1].data), map_sizes |-> << >>]
    BY <1>3 DEF DatatypeRuleOf
  <2>2. << >> \in Seq(MapSize) /\ ScaleLast(<< >>)
    BY DEF ScaleLast
  <2> QED
    BY <1>1, <2>1, <2>2 DEF DatatypeRuleRecord
<1>4. CASE node[Len(node)].name = "map_sizes"
  <2>1. IsMapSizes(node[Len(node)].node) /\ Len(node) \in DOMAIN node
    <3> DEFINE named == IF IsName(node, 2, "map_name") THEN 1 ELSE 0
    <3>1. named = 1 => IsString(node, 2, "map_name")
      BY DEF IsName
    <3>2. IsString(node, 1, "type")
      BY DEF IsDatatypeRule
    <3>3. Len(node) # 1 + named
      BY <1>2, <1>4, <3>1, <3>2 DEF IsString
    <3>4. Len(node) = 2 + named /\ IsMapSizes(node[2 + named].node)
      BY <3>3 DEF IsDatatypeRule
    <3>5. named \in {0, 1}
      OBVIOUS
    <3> HIDE DEF named
    <3> QED
      BY <1>2, <3>4, <3>5
  <2>2. node[Len(node)].node \in MapSizeArray
    <3>1. node[Len(node)] \in ChildWith(MapSizeArray)
      BY <2>1 DEF DatatypeNode
    <3> QED
      BY <3>1 DEF ChildWith
  <2>3. DatatypeRuleOf(node) = [type      |-> Head(node[1].data),
                                map_sizes |-> MapSizesOf(node[Len(node)].node)]
    BY <1>4 DEF DatatypeRuleOf
  <2> QED
    BY <1>1, <2>1, <2>2, <2>3, MapSizesOfType DEF DatatypeRuleRecord
<1> QED
  BY <1>3, <1>4

-------------------------------------------------------------------------------
\* Each rule that is read stays the rule of its name.

ReaderInv ==
  /\ DatatypeRulesTyped
  /\ stage \in Array => pos <= Len(document[stage])
  /\ stage = "datatype_rules" => \A k \in 1..pos : DatatypeRuleRead(k)
  /\ stage = "default_value_rules" => \A k \in 1..pos : DefaultValueRuleRead(k)
  /\ NoRuleLost

LEMMA ElementType ==
  ASSUME document \in Document, stage \in Array, pos \in Nat,
         pos < Len(document[stage])
  PROVE  /\ Element \in ElementNode /\ Len(Element) \in Nat
         /\ DOMAIN Element = 1..Len(Element)
         /\ Element[2].node \in DatatypeNode \/ 2 \notin DOMAIN Element
<1>1. document[stage] \in Seq(ChildWith(ElementNode))
  BY DocumentAssumption
<1>2. pos + 1 \in DOMAIN document[stage]
  BY <1>1
<1>3. document[stage][pos + 1] \in ChildWith(ElementNode)
  BY <1>1, <1>2
<1>4. Element \in ElementNode
  BY <1>3 DEF Element, ChildWith
<1>5. Len(Element) \in Nat /\ DOMAIN Element = 1..Len(Element)
  BY <1>4 DEF ElementNode
<1>6. ASSUME 2 \in DOMAIN Element
      PROVE  Element[2].node \in DatatypeNode
  <2>1. Element[2] \in ChildWith(DatatypeNode)
    BY <1>4, <1>6 DEF ElementNode
  <2> QED
    BY <2>1 DEF ChildWith
<1> QED
  BY <1>4, <1>5, <1>6

\* An element that is read as a datatype rule is one.
LEMMA ReadDatatypeElement ==
  ASSUME NEW node, "read" \in DatatypeRuleResults(node),
         DOMAIN node = 1..Len(node), Len(node) \in Nat
  PROVE  IsDatatypeRule(node[2].node) /\ 2 \in DOMAIN node
  BY DEF DatatypeRuleResults, IsName, IsString

LEMMA ReaderInvInit == Init => ReaderInv
<1> SUFFICES ASSUME Init PROVE ReaderInv
  OBVIOUS
<1>1. document["datatype_rules"] \in Seq(ChildWith(ElementNode))
  BY DocumentAssumption DEF Init, Array
<1>2. Len(document["datatype_rules"]) \in Nat
  BY <1>1
<1>3. DOMAIN datatype_rules = {}
  BY DEF Init
<1> QED
  BY <1>2, <1>3 DEF Init, ReaderInv, DatatypeRulesTyped, NoRuleLost, Array

LEMMA ReaderInvStep == ReaderInv /\ [Next]_vars => ReaderInv'
<1> SUFFICES ASSUME ReaderInv, [Next]_vars PROVE ReaderInv'
  OBVIOUS
<1> USE DEF Array, Ended
<1>1. CASE ReadDatatypeRule
  <2> DEFINE rule == DatatypeRuleOf(Element[2].node)
  <2>1. /\ stage = "datatype_rules" /\ pos \in Nat /\ document \in Document
        /\ pos < Len(document["datatype_rules"])
        /\ UNCHANGED << stage, document, default_value_rules >> /\ pos' = pos + 1
        /\ datatype_rules' = Insert(datatype_rules, Element, rule)
        /\ Key(Element) \notin DOMAIN datatype_rules
        /\ "read" \in DatatypeRuleResults(Element)
    BY <1>1 DEF ReadDatatypeRule, IsAtElement, ReaderInv, DatatypeRulesTyped
  <2>2. /\ Key(Element) \in DOMAIN datatype_rules' /\ datatype_rules'[Key(Element)] = rule
        /\ \A n \in DOMAIN datatype_rules :
             n \in DOMAIN datatype_rules' /\ datatype_rules'[n] = datatype_rules[n]
        /\ DOMAIN datatype_rules' = DOMAIN datatype_rules \cup {Key(Element)}
    <3> HIDE DEF rule
    <3> QED
      BY <2>1 DEF Insert
  <2>3. rule \in DatatypeRuleRecord
    <3>1. IsDatatypeRule(Element[2].node) /\ Element[2].node \in DatatypeNode
      BY <2>1, ElementType, ReadDatatypeElement
    <3> QED
      BY <3>1, DatatypeRuleOfType
  <2>4. DatatypeRulesTyped'
    BY <2>1, <2>2, <2>3 DEF ReaderInv, DatatypeRulesTyped
  <2>5. \A k \in 1..pos' : DatatypeRuleRead(k)'
    <3> TAKE k \in 1..pos'
    <3>1. CASE k = pos + 1
      BY <2>1, <2>2, <3>1 DEF DatatypeRuleRead, Element
    <3>2. CASE k \in 1..pos
      BY <2>1, <2>2, <3>2 DEF DatatypeRuleRead, ReaderInv
    <3> QED
      BY <2>1, <3>1, <3>2
  <2>6. pos' <= Len(document'[stage'])
    <3>1. Len(document["datatype_rules"]) \in Nat
      BY <2>1, DocumentAssumption
    <3> QED
      BY <2>1, <3>1
  <2> QED
    BY <2>1, <2>4, <2>5, <2>6 DEF ReaderInv, NoRuleLost
<1>2. CASE ReadDefaultValueRule
  <2> DEFINE rule == DefaultValueRuleOf(Element)
  <2>1. /\ stage = "default_value_rules" /\ pos \in Nat /\ document \in Document
        /\ pos < Len(document["default_value_rules"])
        /\ UNCHANGED << stage, document, datatype_rules >> /\ pos' = pos + 1
        /\ default_value_rules' = Insert(default_value_rules, Element, rule)
        /\ Key(Element) \notin DOMAIN default_value_rules
    BY <1>2 DEF ReadDefaultValueRule, IsAtElement, ReaderInv, DatatypeRulesTyped
  <2>2. /\ Key(Element) \in DOMAIN default_value_rules'
        /\ default_value_rules'[Key(Element)] = rule
        /\ \A n \in DOMAIN default_value_rules :
             /\ n \in DOMAIN default_value_rules'
             /\ default_value_rules'[n] = default_value_rules[n]
    <3> HIDE DEF rule
    <3> QED
      BY <2>1 DEF Insert
  <2>3. DatatypeRulesTyped'
    BY <2>1 DEF ReaderInv, DatatypeRulesTyped
  <2>4. \A k \in 1..pos' : DefaultValueRuleRead(k)'
    <3> TAKE k \in 1..pos'
    <3>1. CASE k = pos + 1
      BY <2>1, <2>2, <3>1 DEF DefaultValueRuleRead, Element
    <3>2. CASE k \in 1..pos
      BY <2>1, <2>2, <3>2 DEF DefaultValueRuleRead, ReaderInv
    <3> QED
      BY <2>1, <3>1, <3>2
  <2>5. pos' <= Len(document'[stage'])
    <3>1. Len(document["default_value_rules"]) \in Nat
      BY <2>1, DocumentAssumption
    <3> QED
      BY <2>1, <3>1
  <2>6. \A k \in 1..Len(document'["datatype_rules"]) : DatatypeRuleRead(k)'
    BY <2>1 DEF ReaderInv, NoRuleLost, DatatypeRuleRead
  <2> QED
    BY <2>1, <2>3, <2>4, <2>5, <2>6 DEF ReaderInv, NoRuleLost
<1>3. ASSUME NEW result \in Ended \ {"read"}, EndWith(result)
      PROVE  ReaderInv'
  BY <1>3 DEF EndWith, ReaderInv, DatatypeRulesTyped, NoRuleLost, DatatypeRuleRead,
              DefaultValueRuleRead
<1>4. CASE RefuseDatatypeRule \/ RefuseDefaultValueRule
  <2>1. \A node : DatatypeRuleResults(node) \subseteq Ended
    BY DEF DatatypeRuleResults
  <2>2. \A node : DefaultValueRuleResults(node) \subseteq Ended
    BY DEF DefaultValueRuleResults, MacroArgsResults, RewriteResults
  <2>3. \E result \in Ended \ {"read"} : EndWith(result)
    BY <1>4, <2>1, <2>2 DEF RefuseDatatypeRule, RefuseDefaultValueRule
  <2> QED
    BY <1>3, <2>3
<1>5. CASE EndOfArray
  <2>1. CASE pos = 0 /\ EndWith("threw")
    BY <1>3, <2>1
  <2>2. CASE /\ pos > 0 /\ pos' = 0
             /\ stage' = IF stage = "datatype_rules" THEN "default_value_rules" ELSE "read"
             /\ UNCHANGED << document, datatype_rules, default_value_rules, expanderVars >>
    <3>1. stage \in Array /\ pos = Len(document[stage]) /\ document \in Document
      BY <1>5 DEF EndOfArray, ReaderInv, DatatypeRulesTyped
    <3>2. Len(document["default_value_rules"]) \in Nat
      BY <3>1, DocumentAssumption
    <3>3. DatatypeRulesTyped'
      BY <2>2, <3>1 DEF ReaderInv, DatatypeRulesTyped
    <3>4. \A k \in 1..Len(document'["datatype_rules"]) : DatatypeRuleRead(k)'
      BY <2>2, <3>1 DEF ReaderInv, NoRuleLost, DatatypeRuleRead
    <3>5. stage' = "read" =>
            \A k \in 1..Len(document'["default_value_rules"]) : DefaultValueRuleRead(k)'
      BY <2>2, <3>1 DEF ReaderInv, NoRuleLost, DefaultValueRuleRead
    <3> QED
      BY <2>2, <3>1, <3>2, <3>3, <3>4, <3>5 DEF ReaderInv, NoRuleLost
  <2> QED
    BY <1>5, <2>1, <2>2 DEF EndOfArray
<1>6. CASE UNCHANGED << readerVars, default_value_rules >>
  BY <1>6 DEF readerVars, ReaderInv, DatatypeRulesTyped, NoRuleLost, DatatypeRuleRead,
              DefaultValueRuleRead
<1> QED
  BY <1>1, <1>2, <1>4, <1>5, <1>6 DEF Next, TranslateDefaultValue, ExpandMacros, vars

LEMMA ReaderInvCorrect == Spec => []ReaderInv
  BY ReaderInvInit, ReaderInvStep, PTL DEF Spec

(***************************************************************************)
(* For preferences of any size: the datatype rules that are read are such  *)
(* as DatatypeRules assumes, with the sub-rules on the scale last.         *)
(***************************************************************************)
THEOREM DatatypeRulesTypedCorrect == Spec => []DatatypeRulesTyped
<1>1. ReaderInv => DatatypeRulesTyped
  BY DEF ReaderInv
<1> QED
  BY <1>1, ReaderInvCorrect, PTL

(***************************************************************************)
(* For preferences of any size: what is read loses no rule.                *)
(***************************************************************************)
THEOREM NoRuleLostCorrect == Spec => []NoRuleLost
<1>1. ReaderInv => NoRuleLost
  BY DEF ReaderInv
<1> QED
  BY <1>1, ReaderInvCorrect, PTL

-------------------------------------------------------------------------------
\* Each rewrite that is read asks for arguments that are counted.

ValidRule(rule) ==
  /\ rule.argcnt \in Nat /\ rule.rewrite \in Seq(STRING)
  /\ \A ph \in Placeholders(rule.rewrite) :
       ph.number \in 1..rule.argcnt /\ ph.range_end <= rule.argcnt

RewriteInv ==
  /\ expansion # "idle" => stage = "read"
  /\ \A n \in DOMAIN default_value_rules : ValidRule(default_value_rules[n])
  /\ RewriteValidated

LEMMA NoPlaceholders == Placeholders(<< >>) = {}
<1>1. Unmasked(<< >>) = {}
  BY DEF Unmasked
<1> QED
  BY <1>1 DEF Placeholders

LEMMA MacroArgsValid ==
  ASSUME NEW node, node # << >>, DOMAIN node = 1..Len(node), Len(node) \in Nat,
         "read" \in MacroArgsResults(node)
  PROVE  /\ NumberOf(node, "argcnt", 0) \in Nat
         /\ Len(node) = 2 => IsRewrite(node[2].data, NumberOf(node, "argcnt", 0))
         /\ Len(node) \in {1, 2}
<1>1. /\ node[1].name = "argcnt" /\ node[1].number \in NonNegativeInt32
      /\ Len(node) # 1 => /\ IsName(node, 2, "rewrite") /\ Len(node) = 2
                          /\ "read" \in RewriteResults(node[2].data, node[1].number)
  <2>1. node[1].name = "argcnt" /\ node[1].number \in NonNegativeInt32
    <3>1. CASE node[1].name # "argcnt" \/ node[1].number \notin NonNegativeInt32
      BY <3>1 DEF MacroArgsResults
    <3> QED
      BY <3>1
  <2>2. ASSUME Len(node) # 1
        PROVE  /\ IsName(node, 2, "rewrite") /\ Len(node) = 2
               /\ "read" \in RewriteResults(node[2].data, node[1].number)
    BY <2>1, <2>2 DEF MacroArgsResults
  <2> QED
    BY <2>1, <2>2
<1>2. Len(node) = 2 => IsRewrite(node[2].data, node[1].number)
  BY <1>1 DEF RewriteResults
<1>3. \A k \in DOMAIN node : node[k].name = "argcnt" => k = 1
  BY <1>1 DEF IsName, IsString
<1>4. 1 \in DOMAIN node
  BY <1>1 DEF IsName, IsString
<1>5. (CHOOSE k \in DOMAIN node : node[k].name = "argcnt") = 1
  BY <1>1, <1>3, <1>4
<1>6. NumberOf(node, "argcnt", 0) = node[1].number
  BY <1>1, <1>4, <1>5 DEF NumberOf
<1>7. node[1].number \in Nat
  BY <1>1, Int32Bounds DEF NonNegativeInt32
<1> QED
  BY <1>1, <1>2, <1>6, <1>7

LEMMA DefaultValueRuleValid ==
  ASSUME NEW node \in ElementNode, "read" \in DefaultValueRuleResults(node)
  PROVE  ValidRule(DefaultValueRuleOf(node))
<1> DEFINE macro_args == IF Len(node) = 3 THEN node[3].node ELSE << >>
           rule == DefaultValueRuleOf(node)
<1>1. Len(node) \in Nat /\ DOMAIN node = 1..Len(node)
  BY DEF ElementNode
<1>2. Len(node) = 2 \/ (/\ Len(node) = 3 /\ IsStructure(node, 3, "macro_args")
                        /\ "read" \in MacroArgsResults(node[3].node))
  BY DEF DefaultValueRuleResults
<1>3. /\ rule.argcnt = NumberOf(macro_args, "argcnt", 0)
      /\ rule.rewrite = IF Len(macro_args) = 2 THEN macro_args[2].data ELSE << >>
  BY DEF DefaultValueRuleOf
<1>4. CASE Len(node) = 2
  <2>1. macro_args = << >>
    BY <1>4
  <2>2. rule.argcnt = 0
    BY <1>3, <2>1 DEF NumberOf
  <2>3. rule.rewrite = << >> /\ << >> \in Seq(STRING)
    BY <1>3, <2>1
  <2> QED
    BY <2>2, <2>3, NoPlaceholders DEF ValidRule
<1>5. CASE Len(node) = 3
  <2>1. /\ macro_args = node[3].node /\ macro_args # << >>
        /\ "read" \in MacroArgsResults(macro_args)
    BY <1>2, <1>5 DEF IsStructure
  <2>2. Len(macro_args) \in Nat /\ DOMAIN macro_args = 1..Len(macro_args)
    <3>1. node[3] \in ChildWith(DatatypeNode)
      <4> HIDE DEF macro_args, rule
      <4>1. 3 \in DOMAIN node
        BY <1>1, <1>5
      <4> QED
        BY <4>1 DEF ElementNode
    <3>2. node[3].node \in DatatypeNode
      BY <3>1 DEF ChildWith
    <3> QED
      BY <2>1, <3>2 DEF DatatypeNode
  <2>2a. \A k \in DOMAIN macro_args : macro_args[k].data \in Seq(STRING)
    <3> HIDE DEF rule
    <3>1. 3 \in DOMAIN node
      BY <1>1, <1>5
    <3> HIDE DEF macro_args
    <3>2. node[3] \in ChildWith(DatatypeNode)
      BY <3>1 DEF ElementNode
    <3>3. macro_args \in DatatypeNode
      BY <2>1, <3>2 DEF ChildWith
    <3>4. \A k \in DOMAIN macro_args : macro_args[k] \in ChildWith(MapSizeArray)
      BY <3>3 DEF DatatypeNode
    <3> QED
      BY <3>4 DEF ChildWith
  <2> HIDE DEF macro_args
  <2>3. /\ rule.argcnt \in Nat /\ Len(macro_args) \in {1, 2}
        /\ Len(macro_args) = 2 => IsRewrite(rule.rewrite, rule.argcnt)
    BY <1>3, <2>1, <2>2, MacroArgsValid
  <2>4. Len(macro_args) # 2 => rule.rewrite = << >>
    BY <1>3
  <2>5. rule.rewrite \in Seq(STRING)
    <3> HIDE DEF rule
    <3>1. << >> \in Seq(STRING)
      OBVIOUS
    <3>2. CASE Len(macro_args) = 2
      BY <1>3, <2>2, <2>2a, <3>2
    <3>3. CASE Len(macro_args) # 2
      BY <2>4, <3>1, <3>3
    <3> QED
      BY <3>2, <3>3
  <2> QED
    BY <2>3, <2>4, <2>5, NoPlaceholders DEF ValidRule, IsRewrite
<1> QED
  BY <1>2, <1>4, <1>5

\* The assertions hold for as many arguments as the rule counts.
LEMMA CountedArgsFit ==
  ASSUME NEW rule, ValidRule(rule), NEW args, 1..rule.argcnt \subseteq DOMAIN args
  PROVE  FitsMacroArgs(rule.rewrite, args)
<1> SUFFICES ASSUME NEW ph \in Placeholders(rule.rewrite)
             PROVE  /\ ph.number \in DOMAIN args
                    /\ ph.range_end # 0 =>
                         ph.range_end \in DOMAIN args /\ ph.number <= ph.range_end
  BY DEF FitsMacroArgs
<1>1. /\ rule.argcnt \in Nat /\ ph.number \in 1..rule.argcnt
      /\ ph.range_end <= rule.argcnt
  BY DEF ValidRule
<1>2. PICK p \in DOMAIN Placeholder : ph = Placeholder[p]
  BY DEF Placeholders
<1>3. ph \in [number : Nat, range_end : Nat]
  BY <1>2, TokenAssumption
<1>4. ph.range_end # 0 => ph.number <= ph.range_end
  BY <1>2, TokenAssumption
<1>5. ph.range_end # 0 => ph.range_end \in 1..rule.argcnt
  BY <1>1, <1>3
<1> QED
  BY <1>1, <1>4, <1>5

\* A rewrite without escapes is read as it is.
LEMMA NoEscapes ==
  ASSUME NEW rewrite \in Seq(STRING), Escapes(rewrite) = {}, NEW r \in ReadRewrites(rewrite)
  PROVE  r = rewrite
<1>1. PICK unset : r = [i \in DOMAIN rewrite |->
                          IF i \in Escapes(rewrite) THEN unset[i] ELSE rewrite[i]]
  BY DEF ReadRewrites
<1>2. r = [i \in DOMAIN rewrite |-> rewrite[i]]
  BY <1>1
<1> QED
  BY <1>2

LEMMA RewriteInvInit == Init => RewriteInv
<1> SUFFICES ASSUME Init PROVE RewriteInv
  OBVIOUS
<1>1. expansion = "idle" /\ DOMAIN default_value_rules = {}
  BY DEF Init, ExpanderInit
<1> QED
  BY <1>1 DEF RewriteInv, RewriteValidated

LEMMA RewriteInvStep ==
  ReaderInv /\ RewriteInv /\ [Next]_vars => RewriteInv'
<1> SUFFICES ASSUME ReaderInv, RewriteInv, [Next]_vars PROVE RewriteInv'
  OBVIOUS
<1> USE DEF Array
<1>1. CASE ReadDatatypeRule
  BY <1>1 DEF ReadDatatypeRule, IsAtElement, expanderVars, RewriteInv, RewriteValidated
<1>2. CASE ReadDefaultValueRule
  <2>1. /\ default_value_rules' =
             Insert(default_value_rules, Element, DefaultValueRuleOf(Element))
        /\ stage = "default_value_rules" /\ expansion' = expansion
        /\ ValidRule(DefaultValueRuleOf(Element))
    BY <1>2, ElementType, DefaultValueRuleValid
       DEF ReadDefaultValueRule, IsAtElement, expanderVars, ReaderInv, DatatypeRulesTyped
  <2>2. expansion' = "idle"
    BY <2>1 DEF RewriteInv
  <2>3. \A n \in DOMAIN default_value_rules' : ValidRule(default_value_rules'[n])
    BY <2>1 DEF Insert, RewriteInv
  <2> QED
    BY <2>2, <2>3 DEF RewriteInv, RewriteValidated
<1>3. CASE RefuseDatatypeRule \/ RefuseDefaultValueRule \/ EndOfArray
  <2>1. stage \in Array /\ UNCHANGED << default_value_rules, expanderVars >>
    BY <1>3 DEF RefuseDatatypeRule, RefuseDefaultValueRule, EndOfArray, IsAtElement,
                EndWith
  <2>2. expansion' = "idle" /\ default_value_rules' = default_value_rules
    BY <2>1 DEF expanderVars, RewriteInv
  <2> QED
    BY <2>2 DEF RewriteInv, RewriteValidated
<1>4. ASSUME UNCHANGED << readerVars, default_value_rules >>,
             expansion' # "assert_failed", expansion # "idle" \/ stage = "read"
      PROVE  RewriteInv'
  BY <1>4 DEF readerVars, RewriteInv, RewriteValidated
<1>5. CASE TranslateDefaultValue
  BY <1>4, <1>5 DEF TranslateDefaultValue, BeginDefaultValue
<1>6. CASE ExpandMacros
  <2>1. UNCHANGED << readerVars, default_value_rules >> /\ expansion = "pass"
    BY <1>6 DEF ExpandMacros, ExpandDefaultValue, CopyToken, CopyQuoted,
                UnterminatedQuote, CopyName, ReplaceName, ReplaceCall, IllegalCall,
                EndPass, InPass
  <2>2. CASE CopyToken \/ CopyQuoted \/ UnterminatedQuote \/ CopyName
    BY <1>4, <2>1, <2>2 DEF CopyToken, CopyQuoted, UnterminatedQuote, CopyName,
                            CopyUpTo, AppendUpTo, EndExpansion
  <2>3. CASE ReplaceName \/ ReplaceCall \/ EndPass
    BY <1>4, <2>1, <2>3 DEF ReplaceName, ReplaceCall, AppendRewritten, EndPass, AppendUpTo
  <2>4. CASE IllegalCall
    <3>1. CASE expansion' = "assert_failed"
      <4>1. /\ \E r \in ReadRewrites(RuleOfMacro.rewrite) : ~FitsMacroArgs(r, CallArgs)
            /\ IsMacro /\ UNCHANGED << macro_text, text_cit >>
        BY <2>4, <3>1 DEF IllegalCall, EndExpansion, passVars
      <4>2. ValidRule(RuleOfMacro) /\ RuleOfMacro.rewrite \in Seq(STRING)
        BY <4>1 DEF RewriteInv, IsMacro, RuleOfMacro, ValidRule
      <4>3. Escapes(RuleOfMacro.rewrite) = {} => ~(1..RuleOfMacro.argcnt \subseteq DOMAIN CallArgs)
        BY <4>1, <4>2, NoEscapes, CountedArgsFit
      <4>4. RuleOfMacro' = RuleOfMacro /\ CallArgs' = CallArgs
        BY <2>1, <4>1 DEF RuleOfMacro, CallArgs, AfterName, NameEnd, NextToken
      <4>5. RewriteValidated'
        BY <4>3, <4>4 DEF RewriteValidated
      <4> QED
        BY <2>1, <4>5 DEF readerVars, RewriteInv
    <3> QED
      BY <1>4, <2>1, <3>1
  <2> QED
    BY <1>6, <2>2, <2>3, <2>4 DEF ExpandMacros, ExpandDefaultValue
<1>7. CASE UNCHANGED vars
  <2>1. /\ UNCHANGED << stage, default_value_rules, expansion, macro_text, text_cit >>
    BY <1>7 DEF vars, readerVars, expanderVars, passVars
  <2>2. RuleOfMacro' = RuleOfMacro /\ CallArgs' = CallArgs
    BY <2>1 DEF RuleOfMacro, CallArgs, AfterName, NameEnd, NextToken
  <2>3. RewriteValidated'
    BY <2>1, <2>2 DEF RewriteInv, RewriteValidated
  <2> QED
    BY <2>1, <2>3 DEF RewriteInv
<1> QED
  BY <1>1, <1>2, <1>3, <1>5, <1>6, <1>7 DEF Next

(***************************************************************************)
(* For preferences and default values of any size: the assertions that     *)
(* rewrite_arg_placeholder makes before the arguments are counted fail, if *)
(* a rule escapes no placeholder, only for calls with too few arguments.   *)
(***************************************************************************)
THEOREM RewriteValidatedCorrect == Spec => []RewriteValidated
<1>1. RewriteInv => RewriteValidated
  BY DEF RewriteInv
<1> QED
  BY <1>1, ReaderInvCorrect, RewriteInvInit, RewriteInvStep, PTL DEF Spec
===============================================================================
