------------------------- MODULE DatatypeRules_proofs -------------------------
(***************************************************************************)
(* The loops over the sub-rules of a datatype rule apply the first that    *)
(* matches, for rules with any number of sub-rules, any ranges and any     *)
(* sizes.                                                                  *)
(***************************************************************************)
EXTENDS DatatypeRules, TLAPS

-------------------------------------------------------------------------------
\* The types of what a sub-rule is and does.

LEMMA RuleTyped ==
  ASSUME NEW r \in DatatypeRule
  PROVE  /\ r.type \in RuleType
         /\ r.map_sizes \in Seq(MapSize) /\ Len(r.map_sizes) \in Nat
         /\ DOMAIN r.map_sizes = 1..Len(r.map_sizes)
         /\ \A i, j \in DOMAIN r.map_sizes :
              i < j /\ r.map_sizes[i].scale => r.map_sizes[j].scale
<1>1. r \in DatatypeRuleRecord
  BY DatatypeRuleAssumption
<1>2. /\ r \in [type : RuleType, map_sizes : Seq(MapSize)]
      /\ \A i, j \in DOMAIN r.map_sizes :
           i < j /\ r.map_sizes[i].scale => r.map_sizes[j].scale
  BY <1>1 DEF DatatypeRuleRecord, ScaleLast
<1>3. r.type \in RuleType /\ r.map_sizes \in Seq(MapSize)
  BY <1>2
<1>4. Len(r.map_sizes) \in Nat /\ DOMAIN r.map_sizes = 1..Len(r.map_sizes)
  BY <1>3
<1> QED
  BY <1>2, <1>3, <1>4, Zenon

LEMMA Remainder ==
  ASSUME NEW v \in Int, NEW n \in Nat \ {0}
  PROVE  v % n \in Int /\ 0 <= v % n /\ v % n < n
OBVIOUS

LEMMA StoredType ==
  ASSUME NEW field, NEW value \in Int
  PROVE  /\ Stored(field, value) \in Int
         /\ field = "precision" =>
              0 <= Stored(field, value) /\ Stored(field, value) <= 255
         /\ field = "dt_precision" =>
              -32768 <= Stored(field, value) /\ Stored(field, value) <= 32767
<1> DEFINE octet == value % 256
           word  == (value + 32768) % 65536
<1>1. octet \in Int /\ 0 <= octet /\ octet < 256
  BY Remainder
<1>2. word \in Int /\ 0 <= word /\ word < 65536
  <2>1. value + 32768 \in Int /\ 65536 \in Nat \ {0}
    OBVIOUS
  <2> QED
    BY ONLY <2>1, Remainder
<1>3. /\ field = "precision" => Stored(field, value) = octet
      /\ field = "dt_precision" => Stored(field, value) = word - 32768
      /\ field \notin {"precision", "dt_precision"} => Stored(field, value) = value
  <2>1. "precision" # "dt_precision"
    OBVIOUS
  <2>2. ASSUME field = "precision" PROVE Stored(field, value) = octet
    BY <2>2 DEF Stored
  <2>3. ASSUME field = "dt_precision" PROVE Stored(field, value) = word - 32768
    BY <2>1, <2>3 DEF Stored
  <2>4. ASSUME field \notin {"precision", "dt_precision"} PROVE Stored(field, value) = value
    BY <2>4 DEF Stored
  <2> QED
    BY <2>2, <2>3, <2>4
<1> HIDE DEF octet, word
<1>4. octet <= 255
  BY <1>1
<1>5. -32768 <= word - 32768 /\ word - 32768 <= 32767 /\ word - 32768 \in Int
  BY <1>2
<1> QED
  BY <1>1, <1>3, <1>4, <1>5

LEMMA NewSizeType ==
  ASSUME NEW d \in DatatypeRecord, NEW field \in SizeField, NEW m \in MapSize
  PROVE  [d EXCEPT ![field] = NewSize(field, @, m)] \in DatatypeRecord
<1> DEFINE size == NewSize(field, d[field], m)
<1>1. /\ m.action \in Action
      /\ m.range_min \in Int /\ m.range_max \in Int /\ m.new_value \in Int
  BY DEF MapSize
<1>2. \E v \in Int : size \in {Undefined, d[field], Stored(field, v)}
  BY <1>1 DEF NewSize, Action
<1>3. /\ d \in [SizeField -> Int \cup {Undefined}]
      /\ d["precision"] # Undefined =>
          0 <= d["precision"] /\ d["precision"] <= 255
      /\ d["dt_precision"] # Undefined =>
           -32768 <= d["dt_precision"] /\ d["dt_precision"] <= 32767
  BY DEF DatatypeRecord
<1> HIDE DEF size
<1>4. /\ size \in Int \cup {Undefined}
      /\ field = "precision" /\ size # Undefined => 0 <= size /\ size <= 255
      /\ field = "dt_precision" /\ size # Undefined =>
           -32768 <= size /\ size <= 32767
  BY <1>2, <1>3, StoredType
<1>5. [d EXCEPT ![field] = size] \in [SizeField -> Int \cup {Undefined}]
  BY <1>3, <1>4
<1>6. \A f \in SizeField :
        [d EXCEPT ![field] = size][f] = IF f = field THEN size ELSE d[f]
  BY <1>3
<1>7. [d EXCEPT ![field] = size] \in DatatypeRecord
  BY <1>3, <1>4, <1>5, <1>6 DEF DatatypeRecord, SizeField
<1> QED
  BY <1>7 DEF size

LEMMA SizesType ==
  ASSUME NEW d \in DatatypeRecord
  PROVE  Sizes(d) \in Seq(Int)
<1>1. \A f \in SizeField : d[f] # Undefined => d[f] \in Int
  BY DEF DatatypeRecord
<1>2. \A v \in Int : << v >> \in Seq(Int)
  OBVIOUS
<1>3. << >> \in Seq(Int)
  OBVIOUS
<1>4. \A s, t \in Seq(Int) : s \o t \in Seq(Int)
  OBVIOUS
<1> QED
  BY <1>1, <1>2, <1>3, <1>4 DEF Sizes, SizeField

-------------------------------------------------------------------------------
LEMMA TypeInit == Init => TypeOK
<1> SUFFICES ASSUME Init PROVE TypeOK
  OBVIOUS
<1>1. datatype \in DatatypeRecord
  BY DatatypeAssumption DEF Init
<1>2. 1 \in 1..(Len(rule.map_sizes) + 1)
  <2>1. Len(rule.map_sizes) \in Nat
    BY RuleTyped DEF Init
  <2> QED
    BY <2>1
<1>3. << >> \in Seq(Int)
  OBVIOUS
<1> QED
  BY <1>1, <1>2, <1>3 DEF Init, TypeOK, Stage

LEMMA TypeStep ==
  ASSUME TypeOK, [Next]_vars, stage = "sizes" => Sized
  PROVE  TypeOK'
<1>1. /\ rule \in DatatypeRule /\ source \in Datatype
      /\ datatype \in DatatypeRecord /\ cit \in 1..(Len(rule.map_sizes) + 1)
      /\ column_rejected \in BOOLEAN /\ output \in Seq(Int) /\ stage \in Stage
  BY DEF TypeOK
<1>2. /\ Len(rule.map_sizes) \in Nat /\ DOMAIN rule.map_sizes = 1..Len(rule.map_sizes)
      /\ rule.map_sizes \in Seq(MapSize) /\ rule.type \in RuleType
  BY <1>1, RuleTyped
<1>3. CASE RejectDatatypeName
  BY <1>1, <1>3 DEF RejectDatatypeName, TypeOK, Stage
<1>4. CASE EnterRule
  BY <1>1, <1>4 DEF EnterRule, TypeOK, Stage
<1>5. ASSUME HasSubRule
      PROVE  /\ SubRule \in MapSize
             /\ cit + 1 \in 1..(Len(rule.map_sizes) + 1)
  BY <1>1, <1>2, <1>5 DEF HasSubRule, SubRule
<1>6. CASE TrySubRule
  <2>1. HasSubRule /\ SizeOf(rule.type) \in SizeField
    BY <1>6 DEF TrySubRule, Tried, Sized, SizeOf, SizeField
  <2>2. Apply(SizeOf(rule.type), SubRule) \in DatatypeRecord
    BY <1>1, <1>5, <2>1, NewSizeType DEF Apply
  <2>3. datatype' \in DatatypeRecord /\ stage' \in Stage
    BY <1>1, <1>6, <2>2 DEF TrySubRule, Stage
  <2>4. column_rejected' \in BOOLEAN
    <3>1. CASE UNCHANGED column_rejected
      BY <1>1, <3>1
    <3>2. CASE column_rejected' = Rejects(SubRule)
      <4>1. CASE SubRule.action \in {"reject_defined", "reject_undefined"}
        BY <3>2, <4>1 DEF Rejects
      <4>2. CASE SubRule.action \notin {"reject_defined", "reject_undefined"}
        BY <3>2, <4>2 DEF Rejects
      <4> QED
        BY <4>1, <4>2
    <3> QED
      BY <1>6, <3>1, <3>2 DEF TrySubRule
  <2>5. cit' \in 1..(Len(rule.map_sizes) + 1) /\ UNCHANGED << rule, source, output >>
    BY <1>5, <1>6, <2>1 DEF TrySubRule
  <2> QED
    BY <1>1, <2>3, <2>4, <2>5 DEF TypeOK
<1>7. CASE NoSubRuleMatches
  BY <1>1, <1>7 DEF NoSubRuleMatches, TypeOK, Stage
<1>8. CASE TryScaleSubRule
  <2>1. HasSubRule => Apply("scale", SubRule) \in DatatypeRecord
    BY <1>1, <1>5, NewSizeType DEF Apply, SizeField
  <2> QED
    BY <1>1, <1>5, <1>8, <2>1 DEF TryScaleSubRule, TypeOK, Stage
<1>9. CASE LeaveScale
  BY <1>1, <1>9 DEF LeaveScale, TypeOK, Stage
<1>10. CASE Output
  BY <1>1, <1>10, SizesType DEF Output, TypeOK, Stage
<1>11. CASE UNCHANGED vars
  BY <1>11 DEF TypeOK, vars
<1> QED
  BY <1>3, <1>4, <1>6, <1>7, <1>8, <1>9, <1>10, <1>11 DEF Next

-------------------------------------------------------------------------------
\* What makes FirstSubRuleApplied inductive: while the loop runs, nothing has
\* changed and no sub-rule before cit matches; once it is left, it is decided.

NoneBefore(i) ==
  \A j \in DOMAIN rule.map_sizes : j < i => ~MatchesSource(j, FALSE)

LoopInv ==
  /\ TypeOK
  /\ stage \in {"find", "sizes"} => datatype = source /\ ~column_rejected
  /\ stage = "find" => cit = 1
  /\ stage = "sizes" => Sized /\ NoneBefore(cit)
  /\ stage = "scale" => rule.type = "precision_scale"
  /\ stage \in {"scale", "migrated", "output"} => FirstSubRuleDecides

LEMMA LoopTyped ==
  ASSUME TypeOK
  PROVE  /\ Len(rule.map_sizes) \in Nat /\ cit \in Nat
         /\ DOMAIN rule.map_sizes = 1..Len(rule.map_sizes)
         /\ cit \in 1..(Len(rule.map_sizes) + 1)
         /\ \A i, j \in DOMAIN rule.map_sizes :
              i < j /\ rule.map_sizes[i].scale => rule.map_sizes[j].scale
         /\ DOMAIN datatype = SizeField
<1>1. rule \in DatatypeRule /\ datatype \in DatatypeRecord
  BY DEF TypeOK
<1>2. /\ Len(rule.map_sizes) \in Nat
      /\ DOMAIN rule.map_sizes = 1..Len(rule.map_sizes)
      /\ \A i, j \in DOMAIN rule.map_sizes :
           i < j /\ rule.map_sizes[i].scale => rule.map_sizes[j].scale
  BY <1>1, RuleTyped
<1>3. cit \in 1..(Len(rule.map_sizes) + 1)
  BY DEF TypeOK
<1>4. cit \in Nat
  BY <1>2, <1>3
<1>5. DOMAIN datatype = SizeField
  BY <1>1 DEF DatatypeRecord
<1> QED
  BY <1>2, <1>3, <1>4, <1>5

\* The sub-rule at cit is the first that matches.
LEMMA DecidedByMatch ==
  ASSUME LoopInv, TrySubRule,
         ~SubRule.scale, Matches(datatype[SizeOf(rule.type)], SubRule)
  PROVE  FirstSubRuleDecides'
<1> DEFINE field == SizeOf(rule.type)
<1>1. /\ stage = "sizes" /\ HasSubRule /\ UNCHANGED << rule, source >>
      /\ datatype' = Apply(field, SubRule)
      /\ column_rejected' = Rejects(SubRule)
  BY DEF TrySubRule, Tried
<1>2. /\ Sized /\ NoneBefore(cit) /\ datatype = source
  BY <1>1 DEF LoopInv
<1>3. cit \in DOMAIN rule.map_sizes /\ cit \in Nat
  BY <1>1, LoopTyped DEF HasSubRule, LoopInv
<1>4. First(cit, FALSE)
  BY <1>2, <1>3 DEF First, NoneBefore, MatchesSource, SubRule
<1>5. \A i \in DOMAIN rule.map_sizes : First(i, FALSE) => i = cit
  <2> SUFFICES ASSUME NEW i \in DOMAIN rule.map_sizes, First(i, FALSE)
               PROVE  i = cit
    OBVIOUS
  <2>1. ~(i < cit)
    BY <1>2 DEF First, NoneBefore
  <2>2. ~(cit < i)
    BY <1>3, <1>4 DEF First
  <2>3. i \in Int /\ cit \in Int
    BY <1>3, LoopTyped DEF LoopInv
  <2> QED
    BY <2>1, <2>2, <2>3
<1>6. field \in SizeField /\ field # "scale" /\ DOMAIN datatype = SizeField
  BY <1>2, LoopTyped DEF Sized, SizeOf, SizeField, LoopInv
<1>7. datatype'[field] = NewSize(field, source[field], SubRule)
  BY <1>1, <1>2, <1>6 DEF Apply
<1>8. \A f \in SizeField \ {field} : datatype'[f] = source[f]
  BY <1>1, <1>2, <1>6 DEF Apply
<1>9. /\ Sized' = Sized
      /\ \A i : First(i, FALSE)' = First(i, FALSE)
  BY <1>1 DEF Sized, First, MatchesSource
<1> HIDE DEF field
<1>10. /\ \A i \in DOMAIN rule.map_sizes : First(i, FALSE) =>
             /\ column_rejected' <=> Rejects(rule.map_sizes[i])
             /\ datatype'[field] = NewSize(field, source[field], rule.map_sizes[i])
       /\ ~(\A i \in DOMAIN rule.map_sizes : ~First(i, FALSE))
       /\ \A f \in SizeField \ {field, "scale"} : datatype'[f] = source[f]
  BY <1>1, <1>3, <1>4, <1>5, <1>7, <1>8 DEF SubRule
<1> QED
  BY <1>1, <1>2, <1>9, <1>10 DEF FirstSubRuleDecides, field
\* The loop is left without a match: at the end of the list, or before the
\* first scale sub-rule, behind which there are only such.
LEMMA DecidedByExhaustion ==
  ASSUME LoopInv, NoSubRuleMatches
  PROVE  FirstSubRuleDecides'
<1>1. /\ stage = "sizes" /\ ~Tried
      /\ UNCHANGED << rule, source, datatype, cit, column_rejected >>
  BY DEF NoSubRuleMatches
<1>2. /\ Sized /\ NoneBefore(cit) /\ datatype = source /\ ~column_rejected
  BY <1>1 DEF LoopInv
<1>3. \A i \in DOMAIN rule.map_sizes : ~First(i, FALSE)
  <2> SUFFICES ASSUME NEW i \in DOMAIN rule.map_sizes, MatchesSource(i, FALSE)
               PROVE  FALSE
    BY DEF First
  <2>1. ~(i < cit) /\ ~rule.map_sizes[i].scale
    BY <1>2 DEF NoneBefore, MatchesSource
  <2>2. /\ i \in 1..Len(rule.map_sizes) /\ cit \in 1..(Len(rule.map_sizes) + 1)
        /\ Len(rule.map_sizes) \in Nat
        /\ \A j, k \in 1..Len(rule.map_sizes) :
             j < k /\ rule.map_sizes[j].scale => rule.map_sizes[k].scale
    BY LoopTyped DEF LoopInv
  <2>3. HasSubRule
    BY <2>1, <2>2 DEF HasSubRule
  <2>4. SubRule.scale
    BY <1>1, <2>3 DEF Tried
  <2>5. cit < i
    BY <2>1, <2>2, <2>4 DEF SubRule
  <2> QED
    BY <2>1, <2>2, <2>4, <2>5 DEF SubRule
<1> QED
  BY <1>1, <1>2, <1>3 DEF FirstSubRuleDecides, Sized, First, MatchesSource

LEMMA LoopInit == Init => LoopInv
BY TypeInit DEF LoopInv, Init

LEMMA LoopStep == LoopInv /\ [Next]_vars => LoopInv'
<1> SUFFICES ASSUME LoopInv, [Next]_vars PROVE LoopInv'
  OBVIOUS
<1>1. TypeOK /\ TypeOK'
  BY TypeStep DEF LoopInv
<1>2. CASE RejectDatatypeName
  BY <1>1, <1>2 DEF RejectDatatypeName, LoopInv, FirstSubRuleDecides, Sized
<1>3. CASE EnterRule
  <2>1. CASE stage' = "assert_failed"
    BY <1>1, <2>1 DEF LoopInv
  <2>2. CASE rule.type = "unsized" /\ stage' = "migrated"
    BY <1>1, <1>3, <2>2 DEF EnterRule, LoopInv, FirstSubRuleDecides, Sized
  <2>3. CASE rule.type # "unsized" /\ stage' = "sizes"
    <3>1. rule.type \in RuleType /\ DOMAIN rule.map_sizes = 1..Len(rule.map_sizes)
      BY RuleTyped DEF LoopInv, TypeOK
    <3>2. Sized'
      BY <1>3, <2>3, <3>1 DEF EnterRule, Sized, RuleType
    <3>3. /\ cit' = 1 /\ datatype' = source' /\ ~column_rejected'
          /\ rule' = rule /\ source' = source
      BY <1>3 DEF EnterRule, LoopInv
    <3>4. Len(rule.map_sizes) \in Nat
      BY <1>1, LoopTyped
    <3>5. NoneBefore(cit)'
      BY <3>1, <3>3, <3>4 DEF NoneBefore
    <3> QED
      BY <1>1, <2>3, <3>2, <3>3, <3>5 DEF LoopInv
  <2> QED
    BY <1>3, <2>1, <2>2, <2>3 DEF EnterRule
<1>4. CASE TrySubRule
  <2>1. CASE ~SubRule.scale /\ Matches(datatype[SizeOf(rule.type)], SubRule)
    <3>1. FirstSubRuleDecides'
      BY <1>4, <2>1, DecidedByMatch
    <3> QED
      BY <1>1, <1>4, <2>1, <3>1 DEF TrySubRule, LoopInv
  <2>2. CASE ~(~SubRule.scale /\ Matches(datatype[SizeOf(rule.type)], SubRule))
    <3>1. /\ stage = "sizes" /\ cit' = cit + 1
          /\ UNCHANGED << datatype, column_rejected, stage, rule, source >>
      BY <1>4, <2>2 DEF TrySubRule
    <3>2. Sized /\ NoneBefore(cit) /\ datatype = source /\ ~column_rejected
      BY <3>1 DEF LoopInv
    <3>3. ~MatchesSource(cit, FALSE)
      BY <2>2, <3>2 DEF MatchesSource, SubRule
    <3>4. \A j \in DOMAIN rule.map_sizes : j < cit + 1 => j < cit \/ j = cit
      BY <1>1, LoopTyped
    <3>5. NoneBefore(cit)'
      BY <3>1, <3>2, <3>3, <3>4 DEF NoneBefore, MatchesSource
    <3> QED
      BY <1>1, <3>1, <3>2, <3>5 DEF LoopInv, Sized
  <2> QED
    BY <2>1, <2>2
<1>5. CASE NoSubRuleMatches
  <2>1. FirstSubRuleDecides'
    BY <1>5, DecidedByExhaustion
  <2> QED
    BY <1>1, <1>5, <2>1 DEF NoSubRuleMatches, LoopInv
<1>6. CASE TryScaleSubRule
  <2>1. /\ stage = "scale" /\ column_rejected /\ stage' \in {"scale", "migrated", "assert_failed"}
        /\ UNCHANGED << rule, source, column_rejected >>
        /\ datatype' \in {datatype, Apply("scale", SubRule)}
    BY <1>6 DEF TryScaleSubRule
  <2>2. rule.type = "precision_scale" /\ FirstSubRuleDecides
    BY <2>1 DEF LoopInv
  <2>3. \A f \in SizeField \ {"scale"} : datatype'[f] = datatype[f]
    BY <1>1, <2>1, LoopTyped DEF Apply
  <2>4. \A i : First(i, FALSE)' = First(i, FALSE)
    BY <2>1 DEF First, MatchesSource
  <2>5. FirstSubRuleDecides'
    BY <2>1, <2>2, <2>3, <2>4 DEF FirstSubRuleDecides, Sized, SizeOf, SizeField
  <2> QED
    BY <1>1, <2>1, <2>2, <2>5 DEF LoopInv
<1>7. CASE LeaveScale
  BY <1>1, <1>7 DEF LeaveScale, LoopInv, FirstSubRuleDecides, Sized, First, MatchesSource
<1>8. CASE Output
  BY <1>1, <1>8 DEF Output, LoopInv, FirstSubRuleDecides, Sized, First, MatchesSource
<1>9. CASE UNCHANGED vars
  BY <1>1, <1>9 DEF vars, LoopInv, NoneBefore, FirstSubRuleDecides, Sized, First, MatchesSource
<1> QED
  BY <1>2, <1>3, <1>4, <1>5, <1>6, <1>7, <1>8, <1>9 DEF Next

(***************************************************************************)
(* A migrated datatype stays within the widths of ddl_datatype's members   *)
(* and the loops within their list of sub-rules.                           *)
(***************************************************************************)
THEOREM TypeCorrect == Spec => []TypeOK
<1>1. LoopInv => TypeOK
  BY DEF LoopInv
<1> QED
  BY LoopInit, LoopStep, <1>1, PTL DEF Spec

(***************************************************************************)
(* migrate_datatype_ddl applies the first sub-rule that matches the size   *)
(* in the metadata, and no other, whatever the list of sub-rules.          *)
(***************************************************************************)
THEOREM FirstSubRuleCorrect == Spec => []FirstSubRuleApplied
<1>1. LoopInv => FirstSubRuleApplied
  BY DEF LoopInv, FirstSubRuleApplied, Migrated
<1> QED
  BY LoopInit, LoopStep, <1>1, PTL DEF Spec
===============================================================================
