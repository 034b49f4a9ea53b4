-------------------------- MODULE MassMigrator_proofs --------------------------
(***************************************************************************)
(* Theorems about MassMigrator, for all trees and options: a torn script   *)
(* is the last one a run touches, which is inductive, as a target is begun *)
(* only from the phases in which no script is torn; the types of its state; *)
(* the order in which messages are sorted; which files a script is made of *)
(* and has messages about; and that no file is left out.                   *)
(***************************************************************************)
EXTENDS MassMigrator, FiniteSetTheorems, TLAPS

\* No script is torn but the one being migrated, or the one it threw in.
LEMMA NoneTorn ==
  ASSUME TornScriptIsLast, phase \notin {"migrating", "threw"}
  PROVE  \A t \in DOMAIN scripts : scripts[t].complete
  BY DEF TornScriptIsLast

LEMMA AllCompleteKept ==
  ASSUME TornScriptIsLast, phase \notin {"migrating", "threw"}, UNCHANGED scripts
  PROVE  TornScriptIsLast'
  BY NoneTorn DEF TornScriptIsLast

\* Writing a script leaves the others as they are.
LEMMA WriteKeepsOthers ==
  ASSUME NEW script, Write(script)
  PROVE  \A t \in DOMAIN scripts' :
           \/ t = job.target /\ scripts'[t] = script
           \/ t \in DOMAIN scripts /\ scripts'[t] = scripts[t]
  BY DEF Write

LEMMA TornInit == Init => TornScriptIsLast
  BY DEF Init, TornScriptIsLast

LEMMA TornStep == TornScriptIsLast /\ [Next]_vars => TornScriptIsLast'
<1> SUFFICES ASSUME TornScriptIsLast, [Next]_vars
             PROVE  TornScriptIsLast'
  OBVIOUS
<1>1. CASE BeginRoot \/ EndRoot \/ Finish
  <2>1. phase \notin {"migrating", "threw"} /\ UNCHANGED scripts
    BY <1>1 DEF BeginRoot, EndRoot, Finish
  <2> QED  BY <2>1, AllCompleteKept
<1>2. ASSUME NEW f \in files, SkipFile(f) \/ MigrateFile(f) \/ ValidateFile(f)
      PROVE  TornScriptIsLast'
  <2>1. phase \notin {"migrating", "threw"} /\ UNCHANGED scripts
    BY <1>2 DEF SkipFile, MigrateFile, ValidateFile, Visit
  <2> QED  BY <2>1, AllCompleteKept
<1>3. CASE CantWriteTarget
  <2>1. phase \notin {"migrating", "threw"} /\ UNCHANGED scripts
    BY <1>3 DEF CantWriteTarget
  <2> QED  BY <2>1, AllCompleteKept
<1>4. CASE OpenTarget
  <2> DEFINE script == [from |-> job.from, msgs |-> {}, complete |-> FALSE]
  <2>1. Write(script) /\ phase' = "migrating" /\ UNCHANGED job
    BY <1>4 DEF OpenTarget
  <2>2. \A t \in DOMAIN scripts : scripts[t].complete
    BY <1>4, NoneTorn DEF OpenTarget
  <2> QED  BY <2>1, <2>2, WriteKeepsOthers DEF TornScriptIsLast
<1>5. CASE CompleteTarget
  <2> DEFINE script == [from |-> job.from, msgs |-> MsgsOf(job.from.used, hidden'),
                        complete |-> TRUE]
  <2>1. Write(script)
    BY <1>5 DEF CompleteTarget
  <2>2. \A t \in DOMAIN scripts : t # job.target => scripts[t].complete
    BY DEF TornScriptIsLast
  <2>3. script.complete
    OBVIOUS
  <2>4. \A t \in DOMAIN scripts' : scripts'[t].complete
    <3> HIDE DEF script
    <3>1. SUFFICES ASSUME NEW t \in DOMAIN scripts'
                   PROVE  scripts'[t].complete
      OBVIOUS
    <3>2. CASE t = job.target
      BY <2>1, <2>3, <3>2 DEF Write
    <3>3. CASE t # job.target
      BY <2>1, <2>2, <3>3, WriteKeepsOthers
    <3> QED  BY <3>2, <3>3
  <2> QED  BY <2>4 DEF TornScriptIsLast
<1>6. CASE MigrationThrows
  BY <1>6 DEF MigrationThrows, TornScriptIsLast
<1>7. CASE UNCHANGED vars
  BY <1>7 DEF vars, TornScriptIsLast
<1> QED  BY <1>1, <1>2, <1>3, <1>4, <1>5, <1>6, <1>7 DEF Next

(***************************************************************************)
(* A script with its header but without its DDL or messages is the last    *)
(* that the run has touched (mass_migrate_target_ddl): it is being         *)
(* migrated, or the run has been ended by an exception.                    *)
(***************************************************************************)
THEOREM TornScriptIsLastCorrect == Spec => []TornScriptIsLast
  BY TornInit, TornStep, PTL DEF Spec

-------------------------------------------------------------------------------
\* Types.

Used == UNION {[ts -> SUBSET Column] : ts \in SUBSET Table}

TypeInv ==
  /\ TypeOK
  /\ phase \in {"files", "target", "migrating"} => root_pos # 0
  /\ phase \in {"target", "migrating"} => job.target \in AnyTarget
  /\ ~options.batch_sources => job.from.msgs = {}

LEMMA UsedIntro ==
  ASSUME NEW ts \in SUBSET Table, NEW used \in [ts -> SUBSET Column]
  PROVE  used \in Used
  BY DEF Used

LEMMA UsedElim ==
  ASSUME NEW used \in Used
  PROVE  /\ DOMAIN used \subseteq Table
         /\ \A t \in DOMAIN used : used[t] \subseteq Column
<1>1. PICK ts \in SUBSET Table : used \in [ts -> SUBSET Column]
  BY DEF Used
<1> QED
  BY <1>1

LEMMA SourcesUsed ==
  Sources = [filepaths : Seq(File), used : Used, assumed : SUBSET Column,
             msgs : SUBSET (Msg \X File)]
  BY DEF Sources, Used

LEMMA EmptyUsed == << >> \in Used
<1>1. << >> \in [{} -> SUBSET Column]
  OBVIOUS
<1> QED
  BY <1>1, UsedIntro

LEMMA DocumentType ==
  ASSUME tree \in Tree, NEW f \in DOMAIN tree
  PROVE  f \in File /\ tree[f] \in Document
  BY TreeAssumption DEF IsTree

\* What is read of a file.
LEMMA ReadableType ==
  ASSUME tree \in Tree, NEW f \in DOMAIN tree, IsReadable(f)
  PROVE  StnameUsedcols(f) \in Used /\ tree[f].assume_identity \in SUBSET Column
<1>1. /\ tree[f].nodes \subseteq Node
      /\ tree[f].assume_identity \subseteq Column \cup {Invalid}
  BY DocumentType DEF Document
<1> DEFINE names == {n.name : n \in tree[f].nodes}
           attributes(t) == UNION {n.attributes : n \in {m \in tree[f].nodes : m.name = t}}
<1>2. names \in SUBSET Table
  BY <1>1 DEF IsReadable, Node
<1>3. \A t : attributes(t) \in SUBSET Column
  BY <1>1 DEF Node
<1>4. StnameUsedcols(f) = [t \in names |-> attributes(t)]
  BY DEF StnameUsedcols
<1> HIDE DEF names, attributes
<1>5. StnameUsedcols(f) \in [names -> SUBSET Column]
  BY <1>3, <1>4
<1>6. StnameUsedcols(f) \in Used
  BY <1>2, <1>5, UsedIntro
<1> QED
  BY <1>1, <1>6 DEF IsReadable

LEMMA MergedType ==
  ASSUME NEW used \in Used, NEW that \in Used
  PROVE  Merged(used, that) \in Used
<1> DEFINE ts == DOMAIN used \cup DOMAIN that
<1>1. ts \in SUBSET Table
  BY UsedElim
<1>2. \A t : Usedcols(used, t) \in SUBSET Column /\ Usedcols(that, t) \in SUBSET Column
  BY UsedElim DEF Usedcols
<1>3. Merged(used, that) = [t \in ts |-> Usedcols(used, t) \cup Usedcols(that, t)]
  BY DEF Merged
<1> HIDE DEF ts
<1>4. Merged(used, that) \in [ts -> SUBSET Column]
  BY <1>2, <1>3
<1> QED
  BY <1>1, <1>4, UsedIntro

LEMMA MsgsOfType ==
  ASSUME NEW used \in Used, NEW without
  PROVE  MsgsOf(used, without) \in SUBSET Msg
<1>1. UndefinedOf(used) \subseteq Table
  BY UndefinedAssumption DEF UndefinedOf
<1>2. {FkTarget[c] : c \in FkColumnsOf(used) \ without} \subseteq Table
  BY FkTargetAssumption DEF FkColumnsOf
<1> QED
  BY <1>1, <1>2 DEF MsgsOf, Msg

LEMMA HiddenWithType ==
  ASSUME NEW used \in Used
  PROVE  HiddenWith(used) \subseteq DOMAIN FkTarget
<1>1. \A t \in DOMAIN used : Hides[t] \subseteq DOMAIN FkTarget
  BY UsedElim, HidesAssumption
<1> QED
  BY <1>1 DEF HiddenWith

LEMMA TargetOfType ==
  ASSUME NEW f \in File
  PROVE  TargetOf(f) \in AnyTarget
<1>1. MirrorFilepath(f) \in Mirror
  BY DEF MirrorFilepath, Mirror, File
<1> QED
  BY <1>1 DEF TargetOf, Target, Mirror, AnyTarget

LEMMA BatchTargetType ==
  ASSUME options \in Options, NEW pos \in 1..Len(options.src_roots)
  PROVE  BatchTarget(pos) \in AnyTarget
<1>1. options.src_roots \in Seq(Root)
  BY OptionsAssumption DEF OptionsRecord
<1>2. options.src_roots[pos] \in Root /\ pos \in Nat \ {0}
  BY <1>1
<1> QED
  BY <1>2 DEF BatchTarget, AnyTarget

LEMMA WriteType ==
  ASSUME DOMAIN scripts \subseteq AnyTarget, job.target \in AnyTarget, NEW script,
         script \in [from : Sources, msgs : SUBSET Msg, complete : BOOLEAN],
         \A t \in DOMAIN scripts :
           scripts[t] \in [from : Sources, msgs : SUBSET Msg, complete : BOOLEAN],
         Write(script)
  PROVE  /\ DOMAIN scripts' \subseteq AnyTarget
         /\ \A t \in DOMAIN scripts' :
              scripts'[t] \in [from : Sources, msgs : SUBSET Msg, complete : BOOLEAN]
  BY DEF Write

LEMMA TypeInit == Init => TypeInv
<1> SUFFICES ASSUME Init PROVE TypeInv
  OBVIOUS
<1>1. Len(options.src_roots) \in Nat
  BY OptionsAssumption DEF Init, OptionsRecord
<1>2. NoSources \in Sources
  BY EmptyUsed, SourcesUsed DEF NoSources
<1>3. DOMAIN scripts = {}
  BY DEF Init
<1> QED
  BY <1>1, <1>2, <1>3 DEF Init, TypeInv, TypeOK, NoJob, NoSources, Phase

LEMMA BeginTargetType ==
  ASSUME NEW target \in AnyTarget, NEW from \in Sources, NEW next \in Phase,
         job.from \in Sources, job = NoJob \/ job.target \in AnyTarget,
         ~options.batch_sources => job.from.msgs = {} /\ from.msgs = {},
         next \notin {"target", "migrating"},
         BeginTarget(target, from, next)
  PROVE  /\ phase' \in Phase /\ phase' \in {next, "target"}
         /\ job'.from \in Sources /\ (job' = NoJob \/ job'.target \in AnyTarget)
         /\ phase' = "target" => job'.target \in AnyTarget
         /\ ~options.batch_sources => job'.from.msgs = {}
         /\ phase' # "migrating"
<1>1. CASE DOMAIN from.used = {}
  BY <1>1 DEF BeginTarget, Phase
<1>2. CASE DOMAIN from.used # {}
  BY <1>2 DEF BeginTarget, Phase
<1> QED
  BY <1>1, <1>2

LEMMA TypeStep == TypeInv /\ [Next]_vars => TypeInv'
<1> SUFFICES ASSUME TypeInv, [Next]_vars PROVE TypeInv'
  OBVIOUS
<1>0. /\ options \in Options /\ options.src_roots \in Seq(Root)
      /\ Len(options.src_roots) \in Nat /\ tree \in Tree
  BY OptionsAssumption DEF TypeInv, TypeOK, OptionsRecord
<1>1. CASE BeginRoot
  <2>1. /\ FilesOf(options.src_roots[root_pos + 1]) \subseteq DOMAIN tree
        /\ NoSources \in Sources
    BY EmptyUsed, SourcesUsed DEF FilesOf, NoSources
  <2> QED
    BY <1>0, <1>1, <2>1 DEF BeginRoot, TypeInv, TypeOK, Phase
<1>2. ASSUME NEW f \in files, SkipFile(f)
      PROVE  TypeInv'
  BY <1>2 DEF SkipFile, Visit, TypeInv, TypeOK
<1>3. ASSUME NEW f \in files, MigrateFile(f)
      PROVE  TypeInv'
  <2> DEFINE from == [filepaths |-> << f >>, used |-> StnameUsedcols(f),
                      assumed |-> tree[f].assume_identity, msgs |-> {}]
  <2>1. f \in DOMAIN tree /\ f \in File
    BY <1>0, DocumentType DEF TypeInv, TypeOK
  <2>2. from \in Sources
    BY <1>0, <1>3, <2>1, ReadableType, SourcesUsed DEF MigrateFile
  <2>3. from.msgs = {} /\ TargetOf(f) \in AnyTarget /\ "files" \in Phase
    BY <2>1, TargetOfType DEF Phase
  <2>4. /\ BeginTarget(TargetOf(f), from, "files") /\ Visit(f)
        /\ UNCHANGED << hidden, batch >>
    BY <1>3 DEF MigrateFile
  <2> HIDE DEF from
  <2>5. /\ job.from \in Sources /\ (job = NoJob \/ job.target \in AnyTarget)
        /\ ~options.batch_sources => job.from.msgs = {}
    BY DEF TypeInv, TypeOK
  <2>6. /\ phase' \in Phase
        /\ job'.from \in Sources /\ (job' = NoJob \/ job'.target \in AnyTarget)
        /\ phase' = "target" => job'.target \in AnyTarget
        /\ ~options.batch_sources => job'.from.msgs = {}
        /\ phase' # "migrating"
    BY <2>2, <2>3, <2>4, <2>5, BeginTargetType
  <2> QED
    BY <2>4, <2>6 DEF Visit, TypeInv, TypeOK
<1>4. ASSUME NEW f \in files, ValidateFile(f)
      PROVE  TypeInv'
  <2>1. f \in DOMAIN tree /\ f \in File /\ batch \in Sources
    BY <1>0, DocumentType DEF TypeInv, TypeOK
  <2>2. StnameUsedcols(f) \in Used /\ tree[f].assume_identity \in SUBSET Column
    BY <1>0, <1>4, <2>1, ReadableType DEF ValidateFile
  <2>3. MsgsOf(StnameUsedcols(f), hidden) \X {f} \in SUBSET (Msg \X File)
    BY <2>1, <2>2, MsgsOfType
  <2>4. /\ batch.filepaths \in Seq(File) /\ batch.used \in Used
        /\ batch.assumed \in SUBSET Column /\ batch.msgs \in SUBSET (Msg \X File)
    BY <2>1, SourcesUsed
  <2>5. Merged(batch.used, StnameUsedcols(f)) \in Used
    BY <2>2, <2>4, MergedType
  <2>6. Append(batch.filepaths, f) \in Seq(File)
    BY <2>1, <2>4
  <2>7. batch' \in Sources
    <3>1. batch' = [filepaths |-> Append(batch.filepaths, f),
                    used      |-> Merged(batch.used, StnameUsedcols(f)),
                    assumed   |-> batch.assumed \cup tree[f].assume_identity,
                    msgs      |-> batch.msgs \cup (MsgsOf(StnameUsedcols(f), hidden) \X {f})]
      BY <1>4 DEF ValidateFile
    <3> QED
      BY <2>2, <2>3, <2>4, <2>5, <2>6, <3>1, SourcesUsed
  <2> QED
    BY <1>4, <2>7 DEF ValidateFile, Visit, TypeInv, TypeOK
<1>5. CASE EndRoot
  <2>1. CASE options.batch_sources
    <3>1. BeginTarget(BatchTarget(root_pos), batch, "root")
      BY <1>5, <2>1 DEF EndRoot
    <3>2. BatchTarget(root_pos) \in AnyTarget /\ "root" \in Phase
      BY <1>0, <1>5, BatchTargetType DEF EndRoot, TypeInv, TypeOK, Phase
    <3>3. /\ job.from \in Sources /\ (job = NoJob \/ job.target \in AnyTarget)
          /\ batch \in Sources
      BY DEF TypeInv, TypeOK
    <3>4. /\ phase' \in Phase /\ phase' \in {"root", "target"}
          /\ job'.from \in Sources /\ (job' = NoJob \/ job'.target \in AnyTarget)
          /\ phase' = "target" => job'.target \in AnyTarget
          /\ phase' # "migrating"
      BY <2>1, <3>1, <3>2, <3>3, BeginTargetType
    <3> QED
      BY <1>5, <2>1, <3>4 DEF EndRoot, TypeInv, TypeOK
  <2>2. CASE ~options.batch_sources
    BY <1>5, <2>2 DEF EndRoot, TypeInv, TypeOK, Phase
  <2> QED
    BY <2>1, <2>2
<1>6. CASE OpenTarget
  <2> DEFINE script == [from |-> job.from, msgs |-> {}, complete |-> FALSE]
  <2>1. /\ Write(script) /\ phase' = "migrating"
        /\ UNCHANGED << options, tree, root_pos, hidden, files, batch, job >>
    BY <1>6 DEF OpenTarget
  <2>2. script \in [from : Sources, msgs : SUBSET Msg, complete : BOOLEAN]
    BY DEF TypeInv, TypeOK
  <2>3. job.target \in AnyTarget /\ root_pos # 0
    BY <1>6 DEF OpenTarget, TypeInv
  <2> HIDE DEF script
  <2>4. /\ DOMAIN scripts' \subseteq AnyTarget
        /\ \A t \in DOMAIN scripts' :
             scripts'[t] \in [from : Sources, msgs : SUBSET Msg, complete : BOOLEAN]
    BY <2>1, <2>2, <2>3, WriteType DEF TypeInv, TypeOK
  <2> QED
    BY <2>1, <2>3, <2>4 DEF TypeInv, TypeOK, Phase
<1>7. CASE CompleteTarget
  <2> DEFINE script == [from |-> job.from, msgs |-> MsgsOf(job.from.used, hidden'),
                        complete |-> TRUE]
  <2>1. /\ Write(script)
        /\ phase' = IF options.batch_sources THEN "root" ELSE "files"
        /\ UNCHANGED << options, tree, root_pos, files, batch, job >>
    BY <1>7 DEF CompleteTarget
  <2>2. job.from.used \in Used /\ job.from \in Sources
    BY SourcesUsed DEF TypeInv, TypeOK
  <2>3. /\ MsgsOf(job.from.used, hidden') \in SUBSET Msg
        /\ hidden' \subseteq DOMAIN FkTarget
    BY <1>7, <2>2, MsgsOfType, HiddenWithType DEF CompleteTarget, TypeInv, TypeOK
  <2>4. script \in [from : Sources, msgs : SUBSET Msg, complete : BOOLEAN]
    BY <2>2, <2>3
  <2>5. job.target \in AnyTarget /\ root_pos # 0
    BY <1>7 DEF CompleteTarget, TypeInv
  <2> HIDE DEF script
  <2>6. /\ DOMAIN scripts' \subseteq AnyTarget
        /\ \A t \in DOMAIN scripts' :
             scripts'[t] \in [from : Sources, msgs : SUBSET Msg, complete : BOOLEAN]
    BY <2>1, <2>4, <2>5, WriteType DEF TypeInv, TypeOK
  <2> QED
    BY <2>1, <2>3, <2>5, <2>6 DEF TypeInv, TypeOK, Phase
<1>8. CASE CantWriteTarget \/ MigrationThrows \/ Finish
  <2>1. job.from.used \in Used
    BY SourcesUsed DEF TypeInv, TypeOK
  <2>2. \A t \in DOMAIN job.from.used : Hides[t] \subseteq DOMAIN FkTarget
    BY <2>1, UsedElim, HidesAssumption
  <2>3. hidden' \subseteq DOMAIN FkTarget
    BY <1>8, <2>2 DEF CantWriteTarget, MigrationThrows, Finish, TypeInv, TypeOK
  <2> QED
    BY <1>8, <2>3 DEF CantWriteTarget, MigrationThrows, Finish, TypeInv, TypeOK, Phase
<1>9. CASE UNCHANGED vars
  BY <1>9 DEF vars, TypeInv, TypeOK
<1> QED
  BY <1>1, <1>2, <1>3, <1>4, <1>5, <1>6, <1>7, <1>8, <1>9 DEF Next

LEMMA TypeInvCorrect == Spec => []TypeInv
  BY TypeInit, TypeStep, PTL DEF Spec

(***************************************************************************)
(* For all trees and options, the state has its types: what becomes of     *)
(* names in files that can't be read never gets into a script.             *)
(***************************************************************************)
THEOREM MassTypeCorrect == Spec => []TypeOK
<1>1. TypeInv => TypeOK
  BY DEF TypeInv
<1> QED
  BY <1>1, TypeInvCorrect, PTL

-------------------------------------------------------------------------------
\* The order of messages.

(***************************************************************************)
(* The comparison of messages is a strict weak order where those of a      *)
(* level about one thing have one text (with or without a file appended),  *)
(* and where none has a file appended (operator<).                         *)
(***************************************************************************)
THEOREM StrictWeakOrder ==
  ASSUME NEW msgs \in SUBSET OrderedMsg,
         \/ \A m, n \in msgs : m.level = n.level /\ m.about = n.about => m.text = n.text
         \/ \A m \in msgs : m.file = 0
  PROVE  IsStrictWeakOrder(msgs)
<1> SUFFICES ASSUME NEW m \in msgs, NEW n \in msgs, NEW o \in msgs
             PROVE  /\ ~(Less(m, n) /\ Less(n, m))
                    /\ Less(m, n) /\ Less(n, o) => Less(m, o)
                    /\ ~Less(m, n) /\ ~Less(n, m) /\ ~Less(n, o) /\ ~Less(o, n)
                         => ~Less(m, o)
  BY DEF IsStrictWeakOrder
<1>1. m \in OrderedMsg /\ n \in OrderedMsg /\ o \in OrderedMsg
  OBVIOUS
<1>2. CASE \A k, l \in msgs : k.level = l.level /\ k.about = l.about => k.text = l.text
  BY <1>1, <1>2 DEF OrderedMsg, Less, TextBefore
<1>3. CASE \A k \in msgs : k.file = 0
  BY <1>1, <1>3 DEF OrderedMsg, Less, TextBefore
<1> QED
  BY <1>2, <1>3

(***************************************************************************)
(* It is none where two messages of a level about one thing have different *)
(* texts, the first without a file and the second with one: each is less   *)
(* than the other.  The warnings of a batch about two targets of foreign   *)
(* keys are such messages, and sort is given them.                         *)
(***************************************************************************)
THEOREM WarningsOfBatchUnordered ==
  ASSUME NEW text \in Nat, NEW later \in Nat, text < later, NEW file \in Nat \ {0}
  PROVE  ~IsStrictWeakOrder({[level |-> 1, about |-> 0, text |-> text, file |-> 0],
                             [level |-> 1, about |-> 0, text |-> later, file |-> file]})
<1> DEFINE m == [level |-> 1, about |-> 0, text |-> text, file |-> 0]
           n == [level |-> 1, about |-> 0, text |-> later, file |-> file]
<1>1. Less(m, n)
  BY DEF Less, TextBefore
<1>2. Less(n, m)
  BY DEF Less, TextBefore
<1> HIDE DEF m, n
<1>3. ~IsStrictWeakOrder({m, n})
  BY <1>1, <1>2 DEF IsStrictWeakOrder
<1> QED
  BY <1>3 DEF m, n

LEMMA MsgsOfJobType ==
  ASSUME TypeInv
  PROVE  /\ MsgsOfJob \in SUBSET OrderedMsg
         /\ \A m \in MsgsOfJob : m.level = 0 => m.text = 0
         /\ ~options.batch_sources => \A m \in MsgsOfJob : m.file = 0
<1> DEFINE msgs == MsgsOf(job.from.used, hidden \cup HiddenWith(job.from.used))
<1>1. /\ msgs \in SUBSET Msg
      /\ job.from.msgs \in SUBSET (Msg \X File)
  BY SourcesUsed, MsgsOfType DEF TypeInv, TypeOK
<1>2. \A f \in File : Place[f] \in Nat
  BY PlaceAssumption
<1>3. \A m \in Msg : Place[m.table] \in Nat
  BY PlaceAssumption DEF Msg
<1>4. ASSUME NEW m \in Msg, NEW file \in Nat
      PROVE  /\ OrderedMsgOf(m, file) \in OrderedMsg /\ OrderedMsgOf(m, file).file = file
             /\ OrderedMsgOf(m, file).level = 0 => OrderedMsgOf(m, file).text = 0
  BY <1>3 DEF OrderedMsgOf, OrderedMsg
<1>5. \A k \in MsgsOfJob :
        \/ \E m \in msgs : k = OrderedMsgOf(m, 0)
        \/ \E mf \in job.from.msgs : k = OrderedMsgOf(mf[1], Place[mf[2]])
  BY DEF MsgsOfJob
<1> HIDE DEF msgs
<1>6. \A mf \in job.from.msgs : mf[1] \in Msg /\ Place[mf[2]] \in Nat
  BY <1>1, <1>2
<1>7. \A k \in MsgsOfJob : k \in OrderedMsg /\ (k.level = 0 => k.text = 0)
  BY <1>1, <1>4, <1>5, <1>6
<1>8. ASSUME ~options.batch_sources, NEW k \in MsgsOfJob
      PROVE  k.file = 0
  <2>1. job.from.msgs = {}
    BY <1>8 DEF TypeInv
  <2> QED
    BY <1>1, <1>4, <1>5, <2>1
<1> QED
  BY <1>7, <1>8

(***************************************************************************)
(* For all trees and options: the messages that sort is given are ordered  *)
(* by their comparison, but for the warnings of a batch.                   *)
(***************************************************************************)
THEOREM MessagesOrderedCorrect == Spec => []MessagesOrdered
<1>1. ASSUME TypeInv PROVE MessagesOrdered
  <2> DEFINE errors == {m \in MsgsOfJob : m.level = 0}
  <2>1. /\ errors \in SUBSET OrderedMsg
        /\ \A m, n \in errors : m.level = n.level /\ m.about = n.about => m.text = n.text
    BY <1>1, MsgsOfJobType
  <2> HIDE DEF errors
  <2>2. IsStrictWeakOrder(errors)
    BY <2>1, StrictWeakOrder
  <2>3. ~options.batch_sources => IsStrictWeakOrder(MsgsOfJob)
    BY <1>1, MsgsOfJobType, StrictWeakOrder
  <2> QED
    BY <2>2, <2>3 DEF MessagesOrdered, errors
<1> QED
  BY <1>1, TypeInvCorrect, PTL
-------------------------------------------------------------------------------
\* Scripts and the files that they are made of.

\* What options and tree say of each root and each file, which no step changes.
Input ==
  [batch        |-> options.batch_sources,
   root_files   |-> [pos \in DOMAIN options.src_roots |-> FilesOf(options.src_roots[pos])],
   batch_target |-> [pos \in DOMAIN options.src_roots |-> BatchTarget(pos)],
   migratable   |-> {f \in DOMAIN tree : Migratable(f)},
   target       |-> [f \in DOMAIN tree |-> TargetOf(f)],
   used         |-> [f \in DOMAIN tree |-> StnameUsedcols(f)],
   assumed      |-> [f \in DOMAIN tree |-> tree[f].assume_identity]]

\* The names and identities of sources are those of the files listed, each of
\* which is listed once.
MadeOfFiles(from, in) ==
  /\ IsFiniteSet(FilesIn(from)) /\ Cardinality(FilesIn(from)) = Len(from.filepaths)
  /\ FilesIn(from) \subseteq in.migratable
  /\ \A n : n \in DOMAIN from.used <=> \E f \in FilesIn(from) : n \in DOMAIN in.used[f]
  /\ \A n \in DOMAIN from.used : \A c :
       c \in from.used[n] <=> \E f \in FilesIn(from) : c \in Usedcols(in.used[f], n)
  /\ \A c : c \in from.assumed <=> \E f \in FilesIn(from) : c \in in.assumed[f]

\* The files are those that the target is for.
IsOfRoot(from, target, pos, in) ==
  /\ target = in.batch_target[pos]
  /\ FilesIn(from) = in.root_files[pos] \cap in.migratable
AreFilesOf(from, target, in) ==
  \/ in.batch /\ \E pos \in DOMAIN in.root_files : IsOfRoot(from, target, pos, in)
  \/ ~in.batch /\ \E f \in in.migratable : FilesIn(from) = {f} /\ target = in.target[f]

IsScriptOf(script, target, in) ==
  MadeOfFiles(script.from, in) /\ AreFilesOf(script.from, target, in)

ScriptsInv ==
  /\ files = {} \/ files \subseteq Input.root_files[root_pos]
  /\ phase = "files" /\ Input.batch =>
       /\ MadeOfFiles(batch, Input)
       /\ FilesIn(batch) = (Input.root_files[root_pos] \cap Input.migratable) \ files
  /\ phase \in {"target", "migrating"} =>
       MadeOfFiles(job.from, Input) /\ AreFilesOf(job.from, job.target, Input)
  /\ \A t \in DOMAIN scripts : IsScriptOf(scripts[t], t, Input)

LEMMA InputKept == [Next]_vars => Input' = Input
<1> SUFFICES ASSUME [Next]_vars PROVE Input' = Input
  OBVIOUS
<1>1. UNCHANGED << options, tree >>
  BY DEF Next, vars, BeginRoot, SkipFile, MigrateFile, ValidateFile, Visit, EndRoot,
         OpenTarget, CantWriteTarget, CompleteTarget, MigrationThrows, Finish
<1> QED
  BY <1>1 DEF Input, FilesOf, BatchTarget, Migratable, IsSelected, IsReadable,
              SearchAnyRegex, MirrorFilepath, TargetOf, Target, StnameUsedcols

LEMMA InputFacts ==
  /\ Input.batch = options.batch_sources
  /\ DOMAIN Input.root_files = DOMAIN options.src_roots
  /\ \A pos \in DOMAIN options.src_roots :
       /\ Input.root_files[pos] = FilesOf(options.src_roots[pos])
       /\ Input.batch_target[pos] = BatchTarget(pos)
  /\ Input.migratable = {f \in DOMAIN tree : Migratable(f)}
  /\ \A f \in DOMAIN tree :
       /\ Input.target[f] = TargetOf(f) /\ Input.used[f] = StnameUsedcols(f)
       /\ Input.assumed[f] = tree[f].assume_identity
  BY DEF Input

LEMMA NoSourcesMade ==
  ASSUME NEW in
  PROVE  MadeOfFiles(NoSources, in) /\ FilesIn(NoSources) = {}
<1>1. FilesIn(NoSources) = {} /\ Len(NoSources.filepaths) = 0
  BY DEF FilesIn, NoSources
<1>2. /\ NoSources.used = << >> /\ DOMAIN NoSources.used = {}
      /\ NoSources.assumed = {}
  BY DEF NoSources
<1> HIDE DEF NoSources
<1> QED
  BY <1>1, <1>2, FS_EmptySet DEF MadeOfFiles

LEMMA OneFileMade ==
  ASSUME NEW in, ~in.batch, NEW f \in in.migratable, NEW from,
         from.filepaths = << f >>, from.used = in.used[f], from.assumed = in.assumed[f]
  PROVE  MadeOfFiles(from, in) /\ FilesIn(from) = {f}
<1>1. FilesIn(from) = {f} /\ Len(from.filepaths) = 1
  BY DEF FilesIn
<1>2. IsFiniteSet({f}) /\ Cardinality({f}) = 1
  BY FS_Singleton
<1>3. \A n \in DOMAIN from.used : from.used[n] = Usedcols(in.used[f], n)
  BY DEF Usedcols
<1> QED
  BY <1>1, <1>2, <1>3 DEF MadeOfFiles

\* One more file, as validate_batch_ddl adds it.
LEMMA MoreFilesListed ==
  ASSUME NEW from, from.filepaths \in Seq(File), NEW f \in File, NEW more,
         more.filepaths = Append(from.filepaths, f)
  PROVE  /\ FilesIn(more) = FilesIn(from) \cup {f}
         /\ Len(more.filepaths) = Len(from.filepaths) + 1
<1>1. /\ DOMAIN more.filepaths = 1..(Len(from.filepaths) + 1)
      /\ DOMAIN from.filepaths = 1..Len(from.filepaths) /\ Len(from.filepaths) \in Nat
      /\ \A i \in 1..Len(from.filepaths) : more.filepaths[i] = from.filepaths[i]
      /\ more.filepaths[Len(from.filepaths) + 1] = f
      /\ Len(more.filepaths) = Len(from.filepaths) + 1
  OBVIOUS
<1>2. \A g : g \in FilesIn(more) <=> g \in FilesIn(from) \cup {f}
  BY <1>1 DEF FilesIn
<1> QED
  BY <1>1, <1>2

LEMMA MoreFilesMade ==
  ASSUME NEW in, NEW from, MadeOfFiles(from, in), from.filepaths \in Seq(File),
         NEW f \in in.migratable, f \in File, f \notin FilesIn(from), NEW more,
         more.filepaths = Append(from.filepaths, f),
         more.used = Merged(from.used, in.used[f]),
         more.assumed = from.assumed \cup in.assumed[f]
  PROVE  MadeOfFiles(more, in) /\ FilesIn(more) = FilesIn(from) \cup {f}
<1>1. /\ FilesIn(more) = FilesIn(from) \cup {f}
      /\ Len(more.filepaths) = Len(from.filepaths) + 1
  BY MoreFilesListed
<1>2. /\ IsFiniteSet(FilesIn(more))
      /\ Cardinality(FilesIn(more)) = Cardinality(FilesIn(from)) + 1
  <2> DEFINE listed == FilesIn(from)
  <2>1. IsFiniteSet(listed) /\ f \notin listed
    BY DEF MadeOfFiles
  <2> HIDE DEF listed
  <2>2. /\ IsFiniteSet(listed \cup {f})
        /\ Cardinality(listed \cup {f}) = Cardinality(listed) + 1
    BY ONLY <2>1, FS_AddElement
  <2> QED
    BY <1>1, <2>2 DEF listed
<1>3. /\ DOMAIN more.used = DOMAIN from.used \cup DOMAIN in.used[f]
      /\ \A n \in DOMAIN more.used :
           more.used[n] = Usedcols(from.used, n) \cup Usedcols(in.used[f], n)
  BY DEF Merged
<1>4. \A n, c : c \in Usedcols(from.used, n) <=>
                 \E g \in FilesIn(from) : c \in Usedcols(in.used[g], n)
  <2> SUFFICES ASSUME NEW n, NEW c
               PROVE  c \in Usedcols(from.used, n) <=>
                        \E g \in FilesIn(from) : c \in Usedcols(in.used[g], n)
    OBVIOUS
  <2>1. CASE n \in DOMAIN from.used
    BY <2>1 DEF MadeOfFiles, Usedcols
  <2>2. CASE n \notin DOMAIN from.used
    <3>1. \A g \in FilesIn(from) : n \notin DOMAIN in.used[g]
      BY <2>2 DEF MadeOfFiles
    <3> QED
      BY <2>2, <3>1 DEF Usedcols
  <2> QED
    BY <2>1, <2>2
<1>5. \A n : n \in DOMAIN more.used <=> \E g \in FilesIn(more) : n \in DOMAIN in.used[g]
  BY <1>1, <1>3 DEF MadeOfFiles
<1>6. \A n \in DOMAIN more.used : \A c :
        c \in more.used[n] <=> \E g \in FilesIn(more) : c \in Usedcols(in.used[g], n)
  <2> SUFFICES ASSUME NEW n \in DOMAIN more.used, NEW c
               PROVE  c \in more.used[n] <=>
                        \E g \in FilesIn(more) : c \in Usedcols(in.used[g], n)
    OBVIOUS
  <2>1. c \in more.used[n] <=> c \in Usedcols(from.used, n) \/ c \in Usedcols(in.used[f], n)
    BY <1>3
  <2> QED
    BY <1>1, <1>4, <2>1
<1>7. \A c : c \in more.assumed <=> \E g \in FilesIn(more) : c \in in.assumed[g]
  BY <1>1 DEF MadeOfFiles
<1> QED
  BY <1>1, <1>2, <1>5, <1>6, <1>7 DEF MadeOfFiles

LEMMA VisitedFile ==
  ASSUME TypeInv, NEW f \in files, phase = "files", ScriptsInv
  PROVE  /\ f \in DOMAIN tree /\ f \in File
         /\ f \in Input.migratable <=> Migratable(f)
         /\ root_pos \in DOMAIN options.src_roots
         /\ f \in Input.root_files[root_pos]
<1>1. f \in DOMAIN tree /\ tree \in Tree
  BY DEF TypeInv, TypeOK
<1>2. f \in File
  BY <1>1, DocumentType
<1>3. root_pos \in DOMAIN options.src_roots
  <2>1. options.src_roots \in Seq(Root)
    BY OptionsAssumption DEF TypeInv, TypeOK, OptionsRecord
  <2> QED
    BY <2>1 DEF TypeInv, TypeOK
<1> QED
  BY <1>1, <1>2, <1>3, InputFacts DEF ScriptsInv

LEMMA ScriptsInit == Init => ScriptsInv
<1> SUFFICES ASSUME Init PROVE ScriptsInv
  OBVIOUS
<1>1. phase = "root" /\ files = {} /\ DOMAIN scripts = {}
  BY DEF Init
<1> QED
  BY <1>1 DEF ScriptsInv

LEMMA WriteScripts ==
  ASSUME NEW script, Write(script), IsScriptOf(script, job.target, Input),
         \A t \in DOMAIN scripts : IsScriptOf(scripts[t], t, Input), Input' = Input
  PROVE  \A t \in DOMAIN scripts' : IsScriptOf(scripts'[t], t, Input')
<1> SUFFICES ASSUME NEW t \in DOMAIN scripts'
             PROVE  IsScriptOf(scripts'[t], t, Input)
  OBVIOUS
<1> QED
  BY WriteKeepsOthers

LEMMA ScriptsStep == TypeInv /\ ScriptsInv /\ [Next]_vars => ScriptsInv'
<1> SUFFICES ASSUME TypeInv, ScriptsInv, [Next]_vars PROVE ScriptsInv'
  OBVIOUS
<1>0. Input' = Input
  BY InputKept
<1>1. CASE BeginRoot
  <2>1. /\ root_pos' = root_pos + 1 /\ root_pos' \in DOMAIN options.src_roots
        /\ phase' = "files"
        /\ files' = FilesOf(options.src_roots[root_pos + 1]) /\ batch' = NoSources
        /\ UNCHANGED scripts
    <3>1. options.src_roots \in Seq(Root)
      BY OptionsAssumption DEF TypeInv, TypeOK, OptionsRecord
    <3> QED
      BY <1>1, <3>1 DEF BeginRoot, TypeInv, TypeOK
  <2>2. files' = Input.root_files[root_pos']
    BY <2>1, InputFacts
  <2>3. MadeOfFiles(batch', Input) /\ FilesIn(batch') = {}
    BY <2>1, NoSourcesMade
  <2> QED
    BY <1>0, <2>1, <2>2, <2>3 DEF ScriptsInv
<1>2. ASSUME NEW f \in files, SkipFile(f)
      PROVE  ScriptsInv'
  <2>1. /\ phase = "files" /\ files' = files \ {f}
        /\ UNCHANGED << phase, root_pos, batch, scripts >>
    BY <1>2 DEF SkipFile, Visit
  <2>2. f \notin Input.migratable
    BY <1>2, <2>1, VisitedFile DEF SkipFile, Migratable
  <2> QED
    BY <1>0, <2>1, <2>2 DEF ScriptsInv
<1>3. ASSUME NEW f \in files, MigrateFile(f)
      PROVE  ScriptsInv'
  <2> DEFINE from == [filepaths |-> << f >>, used |-> StnameUsedcols(f),
                      assumed |-> tree[f].assume_identity, msgs |-> {}]
  <2>1. /\ phase = "files" /\ files' = files \ {f}
        /\ UNCHANGED << root_pos, batch, scripts >>
        /\ BeginTarget(TargetOf(f), from, "files")
        /\ ~options.batch_sources /\ Migratable(f)
    BY <1>3 DEF MigrateFile, Visit, Migratable
  <2>2. f \in DOMAIN tree /\ f \in Input.migratable
    BY <2>1, VisitedFile
  <2>3. /\ from.filepaths = << f >> /\ from.used = Input.used[f]
        /\ from.assumed = Input.assumed[f]
        /\ ~Input.batch /\ Input.target[f] = TargetOf(f)
    BY <2>1, <2>2, InputFacts
  <2> HIDE DEF from
  <2>4. MadeOfFiles(from, Input) /\ FilesIn(from) = {f}
    BY <2>2, <2>3, OneFileMade
  <2>5. AreFilesOf(from, TargetOf(f), Input)
    BY <2>2, <2>3, <2>4 DEF AreFilesOf
  <2>6. \/ phase' = "files"
        \/ phase' = "target" /\ job'.from = from /\ job'.target = TargetOf(f)
    BY <2>1 DEF BeginTarget
  <2> QED
    BY <1>0, <2>1, <2>3, <2>4, <2>5, <2>6 DEF ScriptsInv
<1>4. ASSUME NEW f \in files, ValidateFile(f)
      PROVE  ScriptsInv'
  <2>1. /\ phase = "files" /\ files' = files \ {f}
        /\ UNCHANGED << phase, root_pos, job, scripts >>
        /\ options.batch_sources /\ Migratable(f)
        /\ batch' = [filepaths |-> Append(batch.filepaths, f),
                     used      |-> Merged(batch.used, StnameUsedcols(f)),
                     assumed   |-> batch.assumed \cup tree[f].assume_identity,
                     msgs      |-> batch.msgs \cup (MsgsOf(StnameUsedcols(f), hidden) \X {f})]
    BY <1>4 DEF ValidateFile, Visit, Migratable
  <2>2. /\ f \in DOMAIN tree /\ f \in File /\ f \in Input.migratable
        /\ f \in Input.root_files[root_pos]
    BY <2>1, VisitedFile
  <2>3. /\ MadeOfFiles(batch, Input)
        /\ FilesIn(batch) = (Input.root_files[root_pos] \cap Input.migratable) \ files
    BY <2>1, InputFacts DEF ScriptsInv
  <2>4. /\ batch'.filepaths = Append(batch.filepaths, f)
        /\ batch'.used = Merged(batch.used, Input.used[f])
        /\ batch'.assumed = batch.assumed \cup Input.assumed[f]
    BY <2>1, <2>2, InputFacts
  <2>5. batch.filepaths \in Seq(File)
    BY SourcesUsed DEF TypeInv, TypeOK
  <2>6. f \notin FilesIn(batch)
    BY <2>3
  <2>7. MadeOfFiles(batch', Input) /\ FilesIn(batch') = FilesIn(batch) \cup {f}
    BY <2>2, <2>3, <2>4, <2>5, <2>6, MoreFilesMade
  <2> QED
    BY <1>0, <2>1, <2>2, <2>3, <2>7 DEF ScriptsInv
<1>5. CASE EndRoot
  <2>1. CASE options.batch_sources
    <3>1. /\ BeginTarget(BatchTarget(root_pos), batch, "root")
          /\ phase = "files" /\ files = {} /\ UNCHANGED << files, scripts >>
      BY <1>5, <2>1 DEF EndRoot
    <3>2. /\ MadeOfFiles(batch, Input) /\ Input.batch
          /\ FilesIn(batch) = Input.root_files[root_pos] \cap Input.migratable
      BY <2>1, <3>1, InputFacts DEF ScriptsInv
    <3>3. root_pos \in DOMAIN options.src_roots
      <4>1. options.src_roots \in Seq(Root)
        BY OptionsAssumption DEF TypeInv, TypeOK, OptionsRecord
      <4> QED
        BY <3>1, <4>1 DEF TypeInv, TypeOK
    <3>4. AreFilesOf(batch, BatchTarget(root_pos), Input)
      BY <3>2, <3>3, InputFacts DEF AreFilesOf, IsOfRoot
    <3>5. \/ phase' = "root"
          \/ phase' = "target" /\ job'.from = batch /\ job'.target = BatchTarget(root_pos)
      BY <3>1 DEF BeginTarget
    <3> QED
      BY <1>0, <3>1, <3>2, <3>4, <3>5 DEF ScriptsInv
  <2>2. CASE ~options.batch_sources
    <3>1. phase' = "root" /\ files' = {} /\ UNCHANGED scripts
      BY <1>5, <2>2 DEF EndRoot
    <3> QED
      BY <1>0, <3>1 DEF ScriptsInv
  <2> QED
    BY <2>1, <2>2
<1>6. CASE OpenTarget
  <2> DEFINE script == [from |-> job.from, msgs |-> {}, complete |-> FALSE]
  <2>1. /\ phase = "target" /\ phase' = "migrating" /\ Write(script)
        /\ UNCHANGED << root_pos, files, job >>
    BY <1>6 DEF OpenTarget
  <2>2. IsScriptOf(script, job.target, Input)
    BY <2>1 DEF ScriptsInv, IsScriptOf
  <2> HIDE DEF script
  <2>3. \A t \in DOMAIN scripts' : IsScriptOf(scripts'[t], t, Input')
    BY <1>0, <2>1, <2>2, WriteScripts DEF ScriptsInv
  <2> QED
    BY <1>0, <2>1, <2>3 DEF ScriptsInv
<1>7. CASE CompleteTarget
  <2> DEFINE script == [from |-> job.from, msgs |-> MsgsOf(job.from.used, hidden'),
                        complete |-> TRUE]
  <2>1. /\ phase = "migrating" /\ phase' \in {"root", "files"} /\ Write(script)
        /\ phase' = "files" => ~options.batch_sources
        /\ UNCHANGED << root_pos, files, job >>
    BY <1>7 DEF CompleteTarget
  <2>2. IsScriptOf(script, job.target, Input)
    BY <2>1 DEF ScriptsInv, IsScriptOf
  <2> HIDE DEF script
  <2>3. \A t \in DOMAIN scripts' : IsScriptOf(scripts'[t], t, Input')
    BY <1>0, <2>1, <2>2, WriteScripts DEF ScriptsInv
  <2> QED
    BY <1>0, <2>1, <2>3, InputFacts DEF ScriptsInv
<1>8. CASE CantWriteTarget \/ MigrationThrows \/ Finish
  <2>1. phase' \in {"threw", "done"} /\ UNCHANGED << root_pos, files, scripts >>
    BY <1>8 DEF CantWriteTarget, MigrationThrows, Finish
  <2> QED
    BY <1>0, <2>1 DEF ScriptsInv
<1>9. CASE UNCHANGED vars
  BY <1>0, <1>9 DEF vars, ScriptsInv
<1> QED
  BY <1>1, <1>2, <1>3, <1>4, <1>5, <1>6, <1>7, <1>8, <1>9 DEF Next

LEMMA ScriptsInvCorrect == Spec => []ScriptsInv
  BY ScriptsInit, ScriptsStep, TypeInvCorrect, PTL DEF Spec

LEMMA ListedFacts ==
  ASSUME TypeInv, ScriptsInv, NEW t \in DOMAIN scripts, NEW f \in FilesIn(scripts[t].from)
  PROVE  /\ f \in DOMAIN tree /\ Migratable(f)
         /\ Input.used[f] = StnameUsedcols(f) /\ Input.assumed[f] = tree[f].assume_identity
<1>1. f \in Input.migratable
  BY DEF ScriptsInv, IsScriptOf, MadeOfFiles
<1> QED
  BY <1>1, InputFacts

(***************************************************************************)
(* For all trees and options: a script has the names and identities of the *)
(* files it lists and of no others; and these are the file that it mirrors *)
(* or all files of the root that its batch is for.                         *)
(***************************************************************************)
THEOREM ScriptOfItsFilesCorrect == Spec => []ScriptOfItsFiles
<1>1. ASSUME TypeInv, ScriptsInv PROVE ScriptOfItsFiles
  <2> SUFFICES ASSUME NEW t \in DOMAIN scripts
               PROVE  LET from == scripts[t].from IN
         /\ Cardinality(FilesIn(from)) = Len(from.filepaths)
         /\ \A f \in FilesIn(from) : Migratable(f)
         /\ DOMAIN from.used = UNION {DOMAIN StnameUsedcols(f) : f \in FilesIn(from)}
         /\ \A n \in DOMAIN from.used :
              from.used[n] = UNION {Usedcols(StnameUsedcols(f), n) : f \in FilesIn(from)}
         /\ from.assumed = UNION {tree[f].assume_identity : f \in FilesIn(from)}
         /\ \/ \E f \in DOMAIN tree : FilesIn(from) = {f} /\ t = TargetOf(f)
            \/ \E pos \in DOMAIN options.src_roots :
                 /\ t = BatchTarget(pos)
                 /\ FilesIn(from) = {f \in FilesOf(options.src_roots[pos]) : Migratable(f)}
    BY DEF ScriptOfItsFiles
  <2> DEFINE from == scripts[t].from
  <2>1. MadeOfFiles(from, Input) /\ AreFilesOf(from, t, Input)
    BY <1>1 DEF ScriptsInv, IsScriptOf
  <2>2. \A f \in FilesIn(from) :
          /\ f \in DOMAIN tree /\ Migratable(f)
          /\ Input.used[f] = StnameUsedcols(f) /\ Input.assumed[f] = tree[f].assume_identity
    BY <1>1, ListedFacts
  <2> HIDE DEF from
  <2>3. Cardinality(FilesIn(from)) = Len(from.filepaths)
    BY <2>1 DEF MadeOfFiles
  <2>4. DOMAIN from.used = UNION {DOMAIN StnameUsedcols(f) : f \in FilesIn(from)}
    <3>1. \A n : n \in DOMAIN from.used <=>
                 \E f \in FilesIn(from) : n \in DOMAIN StnameUsedcols(f)
      BY <2>1, <2>2 DEF MadeOfFiles
    <3> QED
      BY <3>1
  <2>5. ASSUME NEW n \in DOMAIN from.used
        PROVE  from.used[n] = UNION {Usedcols(StnameUsedcols(f), n) : f \in FilesIn(from)}
    <3>1. \A c : c \in from.used[n] <=>
                 \E f \in FilesIn(from) : c \in Usedcols(StnameUsedcols(f), n)
      BY <2>1, <2>2 DEF MadeOfFiles
    <3> QED
      BY <3>1
  <2>6. from.assumed = UNION {tree[f].assume_identity : f \in FilesIn(from)}
    <3>1. \A c : c \in from.assumed <=>
                 \E f \in FilesIn(from) : c \in tree[f].assume_identity
      BY <2>1, <2>2 DEF MadeOfFiles
    <3> QED
      BY <3>1
  <2>7. \/ \E f \in DOMAIN tree : FilesIn(from) = {f} /\ t = TargetOf(f)
        \/ \E pos \in DOMAIN options.src_roots :
             /\ t = BatchTarget(pos)
             /\ FilesIn(from) = {f \in FilesOf(options.src_roots[pos]) : Migratable(f)}
    <3>1. CASE \E f \in Input.migratable : FilesIn(from) = {f} /\ t = Input.target[f]
      BY <3>1, InputFacts
    <3>2. ASSUME NEW pos \in DOMAIN Input.root_files, IsOfRoot(from, t, pos, Input)
          PROVE  /\ pos \in DOMAIN options.src_roots /\ t = BatchTarget(pos)
                 /\ FilesIn(from) = {f \in FilesOf(options.src_roots[pos]) : Migratable(f)}
      <4>1. /\ pos \in DOMAIN options.src_roots
            /\ t = Input.batch_target[pos]
            /\ FilesIn(from) = Input.root_files[pos] \cap Input.migratable
        BY <3>2, InputFacts DEF IsOfRoot
      <4>2. FilesIn(from) =
              FilesOf(options.src_roots[pos]) \cap {f \in DOMAIN tree : Migratable(f)}
        BY <4>1, InputFacts
      <4>3. FilesOf(options.src_roots[pos]) \subseteq DOMAIN tree
        BY DEF FilesOf
      <4> QED
        BY <4>1, <4>2, <4>3, InputFacts
    <3> QED
      BY <2>1, <3>1, <3>2 DEF AreFilesOf
  <2> QED
    BY <2>2, <2>3, <2>4, <2>5, <2>6, <2>7 DEF from
<1> QED
  BY <1>1, TypeInvCorrect, ScriptsInvCorrect, PTL

-------------------------------------------------------------------------------
\* No file is lost.

TargetAt(pos, f, in) == IF in.batch THEN in.batch_target[pos] ELSE in.target[f]
IsVisited(pos, f) == pos < root_pos \/ (pos = root_pos /\ f \notin files)
IsComplete(t, written) == t \in DOMAIN written /\ written[t].complete

\* A file that has been visited, is migratable and names a table has a complete
\* script at its target, or is one of those at work.
KeptInv ==
  /\ phase \in {"root", "done"} => files = {}
  /\ phase = "done" => root_pos = Len(options.src_roots)
  /\ Input.batch /\ phase \in {"target", "migrating"} =>
       files = {} /\ job.target = Input.batch_target[root_pos]
  /\ phase # "threw" =>
       \A pos \in DOMAIN options.src_roots :
         \A f \in Input.root_files[pos] \cap Input.migratable :
           IsVisited(pos, f) /\ DOMAIN Input.used[f] # {} =>
             \/ IsComplete(TargetAt(pos, f, Input), scripts)
             \/ phase \in {"target", "migrating"} /\ job.target = TargetAt(pos, f, Input)
             \/ Input.batch /\ phase = "files" /\ pos = root_pos

LEMMA WriteAtTarget ==
  ASSUME NEW script, Write(script)
  PROVE  /\ DOMAIN scripts' = DOMAIN scripts \cup {job.target}
         /\ scripts'[job.target] = script
         /\ \A t \in DOMAIN scripts : t # job.target => scripts'[t] = scripts[t]
  BY DEF Write

LEMMA KeptInit == Init => KeptInv
<1> SUFFICES ASSUME Init PROVE KeptInv
  OBVIOUS
<1>1. phase = "root" /\ files = {} /\ root_pos = 0
  BY DEF Init
<1>2. options.src_roots \in Seq(Root)
  BY OptionsAssumption DEF Init, OptionsRecord
<1>3. \A pos \in DOMAIN options.src_roots : pos \in Nat /\ pos > 0
  BY <1>2
<1> QED
  BY <1>1, <1>3 DEF KeptInv, IsVisited

LEMMA KeptStep == TypeInv /\ ScriptsInv /\ KeptInv /\ [Next]_vars => KeptInv'
<1> SUFFICES ASSUME TypeInv, ScriptsInv, KeptInv, [Next]_vars PROVE KeptInv'
  OBVIOUS
<1>0. /\ Input' = Input /\ UNCHANGED options
      /\ root_pos \in 0..Len(options.src_roots) /\ Len(options.src_roots) \in Nat
      /\ DOMAIN options.src_roots = 1..Len(options.src_roots)
      /\ DOMAIN Input.root_files = DOMAIN options.src_roots
  <2>1. options.src_roots \in Seq(Root)
    BY OptionsAssumption DEF TypeInv, TypeOK, OptionsRecord
  <2>2. UNCHANGED options
    BY DEF Next, vars, BeginRoot, SkipFile, MigrateFile, ValidateFile, Visit, EndRoot,
           OpenTarget, CantWriteTarget, CompleteTarget, MigrationThrows, Finish
  <2> QED
    BY <2>1, <2>2, InputKept, InputFacts DEF TypeInv, TypeOK
<1> DEFINE todo(pos) == Input.root_files[pos] \cap Input.migratable
<1>1. CASE BeginRoot
  <2>1. /\ phase = "root" /\ phase' = "files" /\ root_pos' = root_pos + 1 /\ files = {}
        /\ root_pos' \in DOMAIN options.src_roots
        /\ files' = FilesOf(options.src_roots[root_pos']) /\ UNCHANGED scripts
    BY <1>0, <1>1 DEF BeginRoot, KeptInv
  <2>2. files' = Input.root_files[root_pos']
    BY <2>1, InputFacts
  <2>3. \A pos \in DOMAIN options.src_roots : \A f \in todo(pos) :
          IsVisited(pos, f)' => IsVisited(pos, f)
    BY <1>0, <2>1, <2>2 DEF IsVisited
  <2> QED
    BY <1>0, <2>1, <2>3 DEF KeptInv, IsComplete
<1>2. ASSUME NEW g \in files, SkipFile(g)
      PROVE  KeptInv'
  <2>1. /\ phase = "files" /\ files' = files \ {g}
        /\ UNCHANGED << phase, root_pos, job, scripts >>
    BY <1>2 DEF SkipFile, Visit
  <2>2. g \notin Input.migratable
    BY <1>2, <2>1, VisitedFile DEF SkipFile, Migratable
  <2>3. \A pos \in DOMAIN options.src_roots : \A f \in todo(pos) :
          IsVisited(pos, f)' => IsVisited(pos, f)
    BY <2>1, <2>2 DEF IsVisited
  <2> QED
    BY <1>0, <2>1, <2>3 DEF KeptInv, IsComplete
<1>3. ASSUME NEW g \in files, MigrateFile(g)
      PROVE  KeptInv'
  <2>1. /\ phase = "files" /\ files' = files \ {g} /\ ~Input.batch
        /\ UNCHANGED << root_pos, scripts >>
        /\ \/ phase' = "files" /\ DOMAIN StnameUsedcols(g) = {}
           \/ phase' = "target" /\ job'.target = TargetOf(g)
    BY <1>3, InputFacts DEF MigrateFile, Visit, BeginTarget
  <2>2. /\ Input.used[g] = StnameUsedcols(g) /\ Input.target[g] = TargetOf(g)
    BY <2>1, VisitedFile, InputFacts
  <2>3. \A pos \in DOMAIN options.src_roots : \A f \in todo(pos) :
          IsVisited(pos, f)' => IsVisited(pos, f) \/ f = g
    BY <2>1 DEF IsVisited
  <2>4. \A pos \in DOMAIN options.src_roots : \A f \in todo(pos) :
          IsVisited(pos, f) /\ DOMAIN Input.used[f] # {} =>
            IsComplete(TargetAt(pos, f, Input), scripts')
    BY <1>0, <2>1 DEF KeptInv, IsComplete
  <2>5. \A pos : TargetAt(pos, g, Input) = TargetOf(g)
    BY <2>1, <2>2 DEF TargetAt
  <2>6. \A pos \in DOMAIN options.src_roots : \A f \in todo(pos) :
          IsVisited(pos, f)' /\ DOMAIN Input.used[f] # {} =>
            \/ IsComplete(TargetAt(pos, f, Input), scripts')
            \/ phase' \in {"target", "migrating"} /\ job'.target = TargetAt(pos, f, Input)
    BY <2>1, <2>2, <2>3, <2>4, <2>5
  <2> QED
    BY <1>0, <2>1, <2>6 DEF KeptInv
<1>4. ASSUME NEW g \in files, ValidateFile(g)
      PROVE  KeptInv'
  <2>1. /\ phase = "files" /\ files' = files \ {g} /\ Input.batch
        /\ UNCHANGED << phase, root_pos, job, scripts >>
    BY <1>4, InputFacts DEF ValidateFile, Visit
  <2>2. \A pos \in DOMAIN options.src_roots : \A f \in todo(pos) :
          IsVisited(pos, f)' => IsVisited(pos, f) \/ pos = root_pos
    BY <2>1 DEF IsVisited
  <2> QED
    BY <1>0, <2>1, <2>2 DEF KeptInv, IsComplete
<1>5. CASE EndRoot
  <2>1. /\ phase = "files" /\ files = {} /\ UNCHANGED << root_pos, files, scripts >>
    BY <1>5 DEF EndRoot
  <2>2. \A pos \in DOMAIN options.src_roots : \A f \in todo(pos) :
          IsVisited(pos, f)' => IsVisited(pos, f)
    BY <2>1 DEF IsVisited
  <2>3. CASE Input.batch
    <3>1. \/ phase' = "root" /\ DOMAIN batch.used = {}
          \/ phase' = "target" /\ job'.target = BatchTarget(root_pos)
      BY <1>5, <2>3, InputFacts DEF EndRoot, BeginTarget
    <3>2. root_pos \in DOMAIN options.src_roots
      BY <1>0, <2>1 DEF TypeInv
    <3>3. \A pos : \A f : TargetAt(pos, f, Input) = Input.batch_target[pos]
      BY <2>3 DEF TargetAt
    <3>4. Input.batch_target[root_pos] = BatchTarget(root_pos)
      BY <3>2, InputFacts
    <3>5. ASSUME DOMAIN batch.used = {}, NEW f \in todo(root_pos)
          PROVE  DOMAIN Input.used[f] = {}
      <4>1. MadeOfFiles(batch, Input) /\ f \in FilesIn(batch)
        BY <2>1, <2>3 DEF ScriptsInv
      <4> QED
        BY <3>5, <4>1 DEF MadeOfFiles
    <3>6. \A pos \in DOMAIN options.src_roots : \A f \in todo(pos) :
            IsVisited(pos, f)' /\ DOMAIN Input.used[f] # {} =>
              IsComplete(TargetAt(pos, f, Input), scripts') \/ pos = root_pos
      BY <2>1, <2>2 DEF KeptInv, IsComplete
    <3> HIDE DEF todo
    <3>7. \A pos \in DOMAIN options.src_roots : \A f \in todo(pos) :
            IsVisited(pos, f)' /\ DOMAIN Input.used[f] # {} =>
              \/ IsComplete(TargetAt(pos, f, Input), scripts')
              \/ phase' = "target" /\ job'.target = TargetAt(pos, f, Input)
      BY <3>1, <3>3, <3>4, <3>5, <3>6
    <3> QED
      BY <1>0, <2>1, <3>1, <3>4, <3>7 DEF KeptInv, todo
  <2>4. CASE ~Input.batch
    <3>1. phase' = "root"
      BY <1>5, <2>4, InputFacts DEF EndRoot
    <3> QED
      BY <1>0, <2>1, <2>2, <2>4, <3>1 DEF KeptInv, IsComplete
  <2> QED
    BY <2>3, <2>4
<1>6. CASE OpenTarget
  <2> DEFINE script == [from |-> job.from, msgs |-> {}, complete |-> FALSE]
  <2>1. /\ phase = "target" /\ phase' = "migrating" /\ Write(script)
        /\ UNCHANGED << root_pos, files, job >>
    BY <1>6 DEF OpenTarget
  <2> HIDE DEF script
  <2>2. \A t : IsComplete(t, scripts) => IsComplete(t, scripts') \/ t = job.target
    BY <2>1, WriteAtTarget DEF IsComplete
  <2>3. \A pos, f : IsVisited(pos, f)' <=> IsVisited(pos, f)
    BY <2>1 DEF IsVisited
  <2>4. \A pos \in DOMAIN options.src_roots : \A f \in todo(pos) :
          IsVisited(pos, f) /\ DOMAIN Input.used[f] # {} =>
            \/ IsComplete(TargetAt(pos, f, Input), scripts)
            \/ job.target = TargetAt(pos, f, Input)
    BY <2>1 DEF KeptInv
  <2>5. \A pos \in DOMAIN options.src_roots : \A f \in todo(pos) :
          IsVisited(pos, f)' /\ DOMAIN Input.used[f] # {} =>
            \/ IsComplete(TargetAt(pos, f, Input), scripts')
            \/ job'.target = TargetAt(pos, f, Input)
    BY <2>1, <2>2, <2>3, <2>4
  <2>6. Input.batch => files = {} /\ job.target = Input.batch_target[root_pos]
    BY <2>1 DEF KeptInv
  <2> QED
    BY <1>0, <2>1, <2>5, <2>6 DEF KeptInv
<1>7. CASE CompleteTarget
  <2> DEFINE script == [from |-> job.from, msgs |-> MsgsOf(job.from.used, hidden'),
                        complete |-> TRUE]
  <2>1. /\ phase = "migrating" /\ phase' \in {"root", "files"} /\ Write(script)
        /\ phase' = "root" => Input.batch
        /\ UNCHANGED << root_pos, files, job >>
    BY <1>7, InputFacts DEF CompleteTarget
  <2>2. script.complete
    OBVIOUS
  <2> HIDE DEF script
  <2>3. \A t : IsComplete(t, scripts) \/ t = job.target => IsComplete(t, scripts')
    BY <2>1, <2>2, WriteAtTarget DEF IsComplete
  <2>4. \A pos, f : IsVisited(pos, f)' <=> IsVisited(pos, f)
    BY <2>1 DEF IsVisited
  <2>5. \A pos \in DOMAIN options.src_roots : \A f \in todo(pos) :
          IsVisited(pos, f) /\ DOMAIN Input.used[f] # {} =>
            \/ IsComplete(TargetAt(pos, f, Input), scripts)
            \/ job.target = TargetAt(pos, f, Input)
    BY <2>1 DEF KeptInv
  <2>6. \A pos \in DOMAIN options.src_roots : \A f \in todo(pos) :
          IsVisited(pos, f)' /\ DOMAIN Input.used[f] # {} =>
            IsComplete(TargetAt(pos, f, Input), scripts')
    BY <2>3, <2>4, <2>5
  <2>7. phase' = "root" => files' = {}
    BY <2>1 DEF KeptInv
  <2> QED
    BY <1>0, <2>1, <2>6, <2>7 DEF KeptInv
<1>8. CASE Finish
  <2>1. /\ phase = "root" /\ phase' = "done" /\ root_pos = Len(options.src_roots)
        /\ UNCHANGED << root_pos, files, scripts >>
    BY <1>8 DEF Finish
  <2> QED
    BY <1>0, <2>1 DEF KeptInv, IsVisited, IsComplete
<1>9. CASE CantWriteTarget \/ MigrationThrows
  <2>1. phase' = "threw"
    BY <1>9 DEF CantWriteTarget, MigrationThrows
  <2> QED
    BY <2>1 DEF KeptInv
<1>10. CASE UNCHANGED vars
  <2>1. UNCHANGED << phase, root_pos, files, job, scripts >>
    BY <1>10 DEF vars
  <2> QED
    BY <1>0, <2>1 DEF KeptInv, IsVisited, IsComplete
<1> QED
  BY <1>1, <1>2, <1>3, <1>4, <1>5, <1>6, <1>7, <1>8, <1>9, <1>10 DEF Next

(***************************************************************************)
(* For all trees and options: when a run ends well, every file selected    *)
(* that could be read and names a table is in a complete script at its     *)
(* target, or another file with that target is (mass_migrate_ddl).         *)
(***************************************************************************)
THEOREM NoFileLostCorrect == Spec => []NoFileLost
<1>1. ASSUME TypeInv, ScriptsInv, KeptInv PROVE NoFileLost
  <2> SUFFICES ASSUME phase = "done", NEW pos \in DOMAIN options.src_roots,
                      NEW f \in FilesOf(options.src_roots[pos]),
                      Migratable(f), tree[f].nodes # {}
               PROVE  IF options.batch_sources
                        THEN IsListedAt(BatchTarget(pos), f)
                        ELSE \E g \in DOMAIN tree : /\ TargetOf(g) = TargetOf(f)
                                                    /\ IsListedAt(TargetOf(f), g)
    BY DEF NoFileLost
  <2>1. /\ f \in DOMAIN tree
        /\ f \in Input.root_files[pos] \cap Input.migratable
        /\ Input.used[f] = StnameUsedcols(f) /\ Input.target[f] = TargetOf(f)
        /\ Input.batch_target[pos] = BatchTarget(pos)
        /\ Input.batch = options.batch_sources
    BY InputFacts DEF FilesOf
  <2>2. DOMAIN StnameUsedcols(f) # {}
    BY DEF StnameUsedcols
  <2>3. IsVisited(pos, f)
    <3>1. options.src_roots \in Seq(Root)
      BY <1>1, OptionsAssumption DEF TypeInv, TypeOK, OptionsRecord
    <3>2. pos \in 1..root_pos /\ files = {} /\ root_pos \in Nat
      BY <1>1, <3>1 DEF KeptInv
    <3> QED
      BY <3>2 DEF IsVisited
  <2> DEFINE target == TargetAt(pos, f, Input)
  <2>4. IsComplete(target, scripts)
    BY <1>1, <2>1, <2>2, <2>3 DEF KeptInv
  <2>5. AreFilesOf(scripts[target].from, target, Input)
    BY <1>1, <2>4 DEF ScriptsInv, IsScriptOf, IsComplete
  <2>6. CASE options.batch_sources
    <3>1. target = BatchTarget(pos)
      BY <2>1, <2>6 DEF TargetAt
    <3>2. PICK q \in DOMAIN options.src_roots :
            /\ target = BatchTarget(q)
            /\ FilesIn(scripts[target].from) = Input.root_files[q] \cap Input.migratable
      BY <2>1, <2>5, <2>6, InputFacts DEF AreFilesOf, IsOfRoot
    <3>3. q = pos
      BY <3>1, <3>2 DEF BatchTarget
    <3>4. f \in FilesIn(scripts[target].from)
      BY <2>1, <3>2, <3>3
    <3> HIDE DEF target
    <3> QED
      BY <2>4, <2>6, <3>1, <3>4 DEF IsComplete, IsListedAt
  <2>7. CASE ~options.batch_sources
    <3>1. target = TargetOf(f)
      BY <2>1, <2>7 DEF TargetAt
    <3>2. PICK g \in Input.migratable :
            FilesIn(scripts[target].from) = {g} /\ target = Input.target[g]
      BY <2>1, <2>5, <2>7 DEF AreFilesOf
    <3>3. g \in DOMAIN tree /\ TargetOf(g) = target
      BY <3>2, InputFacts
    <3> HIDE DEF target
    <3> QED
      BY <2>4, <2>7, <3>1, <3>2, <3>3 DEF IsComplete, IsListedAt
  <2> QED
    BY <2>6, <2>7
<1> QED
  BY <1>1, KeptInit, KeptStep, TypeInvCorrect, ScriptsInvCorrect, PTL DEF Spec

-------------------------------------------------------------------------------
\* The messages of batches.

\* What the messages for the names of several files are, and those for each.
\* Those for each see the foreign keys too that are hidden afterwards.
LEMMA MsgsOfElements ==
  ASSUME NEW used, NEW without, NEW m
  PROVE  m \in MsgsOf(used, without) <=>
           \E n : \/ /\ m = [level |-> "error", table |-> n]
                     /\ n \in DOMAIN used /\ n \in Undefined
                  \/ /\ m = [level |-> "warning", table |-> n]
                     /\ n \notin DOMAIN used
                     /\ \E c \in FkColumnsOf(used) \ without : n = FkTarget[c]
  BY DEF MsgsOf, UndefinedOf

LEMMA FkColumnsOfElements ==
  ASSUME NEW used, NEW c
  PROVE  c \in FkColumnsOf(used) <=>
           c \in DOMAIN FkTarget /\ \E t \in DOMAIN used \ Undefined : c \in used[t]
  BY DEF FkColumnsOf

\* The names used by any of several files.
AreNamesOf(used, F, used_of) ==
  /\ \A n : n \in DOMAIN used <=> \E f \in F : n \in DOMAIN used_of[f]
  /\ \A n \in DOMAIN used : \A c :
       c \in used[n] <=> \E f \in F : c \in Usedcols(used_of[f], n)

LEMMA FkColumnsOfMany ==
  ASSUME NEW F, NEW used_of, NEW used,
         AreNamesOf(used, F, used_of)
  PROVE  \A c : c \in FkColumnsOf(used) <=> \E f \in F : c \in FkColumnsOf(used_of[f])
<1>1. ASSUME NEW c \in FkColumnsOf(used)
      PROVE  \E f \in F : c \in FkColumnsOf(used_of[f])
  <2>1. PICK t \in DOMAIN used \ Undefined : c \in used[t]
    BY FkColumnsOfElements
  <2>2. PICK f \in F : c \in Usedcols(used_of[f], t)
    BY <2>1 DEF AreNamesOf
  <2>3. t \in DOMAIN used_of[f] /\ c \in used_of[f][t]
    BY <2>2 DEF Usedcols
  <2> QED
    BY <2>1, <2>3, FkColumnsOfElements
<1>2. ASSUME NEW f \in F, NEW c \in FkColumnsOf(used_of[f])
      PROVE  c \in FkColumnsOf(used)
  <2>1. PICK t \in DOMAIN used_of[f] \ Undefined : c \in used_of[f][t]
    BY FkColumnsOfElements
  <2>2. t \in DOMAIN used /\ c \in Usedcols(used_of[f], t)
    BY <2>1 DEF Usedcols, AreNamesOf
  <2>3. c \in used[t]
    BY <2>2 DEF AreNamesOf
  <2> QED
    BY <2>1, <2>2, <2>3, FkColumnsOfElements
<1> QED
  BY <1>1, <1>2

\* More is hidden in the end than when the files were validated.
IsMore(set, that) == that \subseteq set

LEMMA MsgsOfMany ==
  ASSUME NEW F, NEW used_of, NEW used, AreNamesOf(used, F, used_of),
         NEW before, NEW after, IsMore(after, before)
  PROVE  /\ \A m \in MsgsOf(used, after) : \E f \in F : m \in MsgsOf(used_of[f], before)
         /\ \A f \in F : \A m \in MsgsOf(used_of[f], before) :
              m \notin MsgsOf(used, after) =>
                /\ m.level = "warning"
                /\ \/ m.table \in DOMAIN used
                   \/ \A c \in FkColumnsOf(used) : FkTarget[c] = m.table => c \in after
<1>1. \A c : c \in FkColumnsOf(used) <=> \E f \in F : c \in FkColumnsOf(used_of[f])
  BY FkColumnsOfMany
<1>2. ASSUME NEW m \in MsgsOf(used, after)
      PROVE  \E f \in F : m \in MsgsOf(used_of[f], before)
  <2>1. PICK n : \/ /\ m = [level |-> "error", table |-> n]
                    /\ n \in DOMAIN used /\ n \in Undefined
                 \/ /\ m = [level |-> "warning", table |-> n]
                    /\ n \notin DOMAIN used
                    /\ \E c \in FkColumnsOf(used) \ after : n = FkTarget[c]
    BY MsgsOfElements
  <2>2. CASE n \in DOMAIN used
    BY <2>1, <2>2, MsgsOfElements DEF AreNamesOf
  <2>3. CASE n \notin DOMAIN used
    <3>1. PICK c \in FkColumnsOf(used) \ after : n = FkTarget[c]
      BY <2>1, <2>3
    <3>2. PICK f \in F : c \in FkColumnsOf(used_of[f])
      BY <1>1
    <3>3. n \notin DOMAIN used_of[f] /\ c \notin before
      BY <2>3, <3>1 DEF AreNamesOf, IsMore
    <3> QED
      BY <2>1, <2>3, <3>1, <3>2, <3>3, MsgsOfElements
  <2> QED
    BY <2>2, <2>3
<1>3. ASSUME NEW f \in F, NEW m \in MsgsOf(used_of[f], before), m \notin MsgsOf(used, after)
      PROVE  /\ m.level = "warning"
             /\ \/ m.table \in DOMAIN used
                \/ \A c \in FkColumnsOf(used) : FkTarget[c] = m.table => c \in after
  <2>1. PICK n : \/ /\ m = [level |-> "error", table |-> n]
                    /\ n \in DOMAIN used_of[f] /\ n \in Undefined
                 \/ /\ m = [level |-> "warning", table |-> n]
                    /\ n \notin DOMAIN used_of[f]
                    /\ \E c \in FkColumnsOf(used_of[f]) \ before : n = FkTarget[c]
    BY MsgsOfElements
  <2>2. ~(m = [level |-> "error", table |-> n] /\ n \in DOMAIN used_of[f] /\ n \in Undefined)
    BY <1>3, MsgsOfElements DEF AreNamesOf
  <2>3. m = [level |-> "warning", table |-> n] /\ m.level = "warning" /\ m.table = n
    BY <2>1, <2>2
  <2>4. ASSUME n \notin DOMAIN used, NEW c \in FkColumnsOf(used), FkTarget[c] = n
        PROVE  c \in after
    <3>1. SUFFICES ASSUME c \notin after
                   PROVE  m \in MsgsOf(used, after)
      BY <1>3
    <3>2. \E d \in FkColumnsOf(used) \ after : n = FkTarget[d]
      BY <2>4, <3>1
    <3> QED
      BY <2>3, <2>4, <3>2, MsgsOfElements
  <2> QED
    BY <2>3, <2>4
<1> QED
  BY <1>2, <1>3

\* Nothing is hidden before the first root, and before the next what a root's
\* sources have had hidden too.
LEMMA HiddenBeforeFirst == HiddenBefore(1) = {}
<1>1. 1..(1 - 1) = {}
  OBVIOUS
<1> QED
  BY <1>1 DEF HiddenBefore

LEMMA HiddenBeforeNext ==
  ASSUME NEW pos \in DOMAIN options.src_roots, pos \in Nat \ {0}, NEW from,
         MadeOfFiles(from, Input),
         FilesIn(from) = Input.root_files[pos] \cap Input.migratable
  PROVE  HiddenBefore(pos + 1) = HiddenBefore(pos) \cup HiddenWith(from.used)
<1> DEFINE files_before(p) ==
             {g \in UNION {FilesOf(options.src_roots[i]) : i \in 1..(p - 1)} : Migratable(g)}
<1>1. /\ \A p : HiddenBefore(p) = UNION {HiddenWith(StnameUsedcols(f)) : f \in files_before(p)}
      /\ FilesIn(from) = {g \in FilesOf(options.src_roots[pos]) : Migratable(g)}
  BY InputFacts DEF HiddenBefore, FilesOf
<1>2. files_before(pos + 1) = files_before(pos) \cup FilesIn(from)
  <2>1. 1..((pos + 1) - 1) = 1..(pos - 1) \cup {pos}
    OBVIOUS
  <2> QED
    BY <1>1, <2>1
<1> HIDE DEF files_before
<1>3. HiddenBefore(pos + 1) =
        HiddenBefore(pos) \cup UNION {HiddenWith(StnameUsedcols(f)) : f \in FilesIn(from)}
  BY <1>1, <1>2
<1>4. \A f \in FilesIn(from) : Input.used[f] = StnameUsedcols(f)
  BY InputFacts DEF MadeOfFiles
<1>5. \A n : n \in DOMAIN from.used <=>
               \E f \in FilesIn(from) : n \in DOMAIN StnameUsedcols(f)
  BY <1>4 DEF MadeOfFiles
<1>6. HiddenWith(from.used) = UNION {HiddenWith(StnameUsedcols(f)) : f \in FilesIn(from)}
  BY <1>5 DEF HiddenWith
<1> QED
  BY <1>3, <1>6

\* The messages of sources are those for each file listed, without what is hidden.
MsgsMade(from, without) ==
  \A mf : mf \in from.msgs <=>
            \E f \in FilesIn(from) : mf \in MsgsOf(StnameUsedcols(f), without) \X {f}

IsBatchOf(script, without) ==
  /\ MsgsMade(script.from, without)
  /\ script.complete =>
       script.msgs = MsgsOf(script.from.used, without \cup HiddenWith(script.from.used))

MsgsInv ==
  options.batch_sources =>
    /\ phase = "root" => hidden = HiddenBefore(root_pos + 1)
    /\ phase \in {"files", "target", "migrating"} => hidden = HiddenBefore(root_pos)
    /\ phase = "files" => MsgsMade(batch, hidden)
    /\ phase \in {"target", "migrating"} =>
         MsgsMade(job.from, hidden) /\ job.target = BatchTarget(root_pos)
    /\ \A pos \in DOMAIN options.src_roots :
         BatchTarget(pos) \in DOMAIN scripts =>
           IsBatchOf(scripts[BatchTarget(pos)], HiddenBefore(pos))

LEMMA SourcesKept ==
  ASSUME UNCHANGED << options, tree >>
  PROVE  /\ \A pos : HiddenBefore(pos)' = HiddenBefore(pos)
         /\ \A pos : BatchTarget(pos)' = BatchTarget(pos)
         /\ \A f : StnameUsedcols(f)' = StnameUsedcols(f)
         /\ \A from, without : MsgsMade(from, without)' <=> MsgsMade(from, without)
         /\ \A script, without : IsBatchOf(script, without)' <=> IsBatchOf(script, without)
<1>1. \A f : Migratable(f)' <=> Migratable(f)
  BY DEF Migratable, IsSelected, IsReadable, SearchAnyRegex, MirrorFilepath
<1>2. \A f : StnameUsedcols(f)' = StnameUsedcols(f)
  BY DEF StnameUsedcols
<1>3. \A root : FilesOf(root)' = FilesOf(root)
  BY DEF FilesOf
<1>4. \A from, without : MsgsMade(from, without)' <=> MsgsMade(from, without)
  BY <1>2 DEF MsgsMade
<1> QED
  BY <1>1, <1>2, <1>3, <1>4 DEF HiddenBefore, BatchTarget, IsBatchOf

LEMMA InputStays == [Next]_vars => UNCHANGED << options, tree >>
  BY DEF Next, vars, BeginRoot, SkipFile, MigrateFile, ValidateFile, Visit, EndRoot,
         OpenTarget, CantWriteTarget, CompleteTarget, MigrationThrows, Finish

\* A batch's script is written at the target of its root.
LEMMA BatchWritten ==
  ASSUME MsgsInv, options.batch_sources, NEW script, Write(script),
         job.target = BatchTarget(root_pos), IsBatchOf(script, HiddenBefore(root_pos))
  PROVE  \A pos \in DOMAIN options.src_roots :
           BatchTarget(pos) \in DOMAIN scripts' =>
             IsBatchOf(scripts'[BatchTarget(pos)], HiddenBefore(pos))
<1> SUFFICES ASSUME NEW pos \in DOMAIN options.src_roots,
                    BatchTarget(pos) \in DOMAIN scripts'
             PROVE  IsBatchOf(scripts'[BatchTarget(pos)], HiddenBefore(pos))
  OBVIOUS
<1>1. CASE pos = root_pos
  BY <1>1, WriteAtTarget
<1>2. CASE pos # root_pos
  <2>1. BatchTarget(pos) # job.target
    BY <1>2 DEF BatchTarget
  <2> QED
    BY <2>1, WriteAtTarget DEF MsgsInv
<1> QED
  BY <1>1, <1>2

LEMMA MsgsInit == Init => MsgsInv
<1> SUFFICES ASSUME Init PROVE MsgsInv
  OBVIOUS
<1>1. phase = "root" /\ root_pos = 0 /\ hidden = {} /\ DOMAIN scripts = {}
  BY DEF Init
<1> QED
  BY <1>1, HiddenBeforeFirst DEF MsgsInv

\* The sources of the job at work, in a run with batches.
LEMMA JobOfRoot ==
  ASSUME TypeInv, ScriptsInv, MsgsInv, options.batch_sources,
         phase \in {"target", "migrating"}
  PROVE  /\ root_pos \in DOMAIN options.src_roots /\ root_pos \in Nat \ {0}
         /\ MadeOfFiles(job.from, Input)
         /\ FilesIn(job.from) = Input.root_files[root_pos] \cap Input.migratable
<1>1. options.src_roots \in Seq(Root)
  BY OptionsAssumption DEF TypeInv, TypeOK, OptionsRecord
<1>2. root_pos \in DOMAIN options.src_roots /\ root_pos \in Nat \ {0}
  BY <1>1 DEF TypeInv, TypeOK
<1>3. MadeOfFiles(job.from, Input) /\ AreFilesOf(job.from, job.target, Input)
  BY DEF ScriptsInv
<1>4. PICK pos \in DOMAIN options.src_roots :
        /\ job.target = BatchTarget(pos)
        /\ FilesIn(job.from) = Input.root_files[pos] \cap Input.migratable
  BY <1>3, InputFacts DEF AreFilesOf, IsOfRoot
<1>5. pos = root_pos
  BY <1>4 DEF MsgsInv, BatchTarget
<1> QED
  BY <1>2, <1>3, <1>4, <1>5

LEMMA MsgsStep == TypeInv /\ ScriptsInv /\ MsgsInv /\ [Next]_vars => MsgsInv'
<1> SUFFICES ASSUME TypeInv, ScriptsInv, MsgsInv, [Next]_vars PROVE MsgsInv'
  OBVIOUS
<1>0. UNCHANGED << options, tree >>
  BY InputStays
<1> SUFFICES ASSUME options.batch_sources PROVE MsgsInv'
  BY <1>0 DEF MsgsInv
<1> DEFINE IsKept(pos) == BatchTarget(pos) \in DOMAIN scripts' =>
                            IsBatchOf(scripts'[BatchTarget(pos)], HiddenBefore(pos))
           Goal == /\ phase' = "root" => hidden' = HiddenBefore(root_pos' + 1)
                   /\ phase' \in {"files", "target", "migrating"} =>
                        hidden' = HiddenBefore(root_pos')
                   /\ phase' = "files" => MsgsMade(batch', hidden')
                   /\ phase' \in {"target", "migrating"} =>
                        MsgsMade(job'.from, hidden') /\ job'.target = BatchTarget(root_pos')
                   /\ \A pos \in DOMAIN options.src_roots : IsKept(pos)
<1>1. SUFFICES Goal
  BY <1>0, SourcesKept DEF MsgsInv
<1>2. ASSUME UNCHANGED scripts
      PROVE  \A pos \in DOMAIN options.src_roots : IsKept(pos)
  BY <1>2 DEF MsgsInv
<1> HIDE DEF IsKept
<1>3. CASE BeginRoot
  <2>1. /\ phase = "root" /\ phase' = "files" /\ root_pos' = root_pos + 1
        /\ batch' = NoSources /\ UNCHANGED << hidden, scripts >>
    BY <1>3 DEF BeginRoot
  <2>2. MsgsMade(batch', hidden')
    BY <2>1 DEF MsgsMade, NoSources, FilesIn
  <2> QED
    BY <1>2, <2>1, <2>2 DEF MsgsInv
<1>4. ASSUME NEW f \in files, SkipFile(f)
      PROVE  Goal
  <2>1. /\ phase = "files"
        /\ UNCHANGED << phase, root_pos, hidden, batch, job, scripts >>
    BY <1>4 DEF SkipFile, Visit
  <2> QED
    BY <1>2, <2>1 DEF MsgsInv
<1>5. ASSUME NEW f \in files, MigrateFile(f)
      PROVE  FALSE
  BY <1>5 DEF MigrateFile
<1>6. ASSUME NEW f \in files, ValidateFile(f)
      PROVE  Goal
  <2>1. /\ phase = "files" /\ UNCHANGED << phase, root_pos, hidden, job, scripts >>
        /\ batch' = [filepaths |-> Append(batch.filepaths, f),
                     used      |-> Merged(batch.used, StnameUsedcols(f)),
                     assumed   |-> batch.assumed \cup tree[f].assume_identity,
                     msgs      |-> batch.msgs \cup (MsgsOf(StnameUsedcols(f), hidden) \X {f})]
    BY <1>6 DEF ValidateFile, Visit
  <2>2. batch.filepaths \in Seq(File) /\ f \in File
    BY <2>1, VisitedFile, SourcesUsed DEF TypeInv, TypeOK
  <2>3. FilesIn(batch') = FilesIn(batch) \cup {f}
    BY <2>1, <2>2, MoreFilesListed
  <2>4. batch'.msgs = batch.msgs \cup (MsgsOf(StnameUsedcols(f), hidden) \X {f})
    BY <2>1
  <2>5. MsgsMade(batch', hidden)
    BY <2>1, <2>3, <2>4 DEF MsgsInv, MsgsMade
  <2> QED
    BY <1>2, <2>1, <2>5 DEF MsgsInv
<1>7. CASE EndRoot
  <2>1. /\ phase = "files" /\ files = {} /\ UNCHANGED << root_pos, hidden, batch, scripts >>
        /\ BeginTarget(BatchTarget(root_pos), batch, "root")
    BY <1>7 DEF EndRoot
  <2>2. MsgsMade(batch, hidden) /\ hidden = HiddenBefore(root_pos)
    BY <2>1 DEF MsgsInv
  <2>3. CASE DOMAIN batch.used = {}
    <3>1. phase' = "root"
      BY <2>1, <2>3 DEF BeginTarget
    <3>2. /\ MadeOfFiles(batch, Input)
          /\ FilesIn(batch) = Input.root_files[root_pos] \cap Input.migratable
      BY <2>1, InputFacts DEF ScriptsInv
    <3>3. root_pos \in DOMAIN options.src_roots /\ root_pos \in Nat \ {0}
      <4>1. options.src_roots \in Seq(Root)
        BY OptionsAssumption DEF TypeInv, TypeOK, OptionsRecord
      <4> QED
        BY <2>1, <4>1 DEF TypeInv, TypeOK
    <3>4. HiddenBefore(root_pos + 1) = HiddenBefore(root_pos) \cup HiddenWith(batch.used)
      BY <3>2, <3>3, HiddenBeforeNext
    <3>5. HiddenWith(batch.used) = {}
      BY <2>3 DEF HiddenWith
    <3> QED
      BY <1>2, <2>1, <2>2, <3>1, <3>4, <3>5
  <2>4. CASE DOMAIN batch.used # {}
    <3>1. phase' = "target" /\ job' = [target |-> BatchTarget(root_pos), from |-> batch]
      BY <2>1, <2>4 DEF BeginTarget
    <3>2. job'.target = BatchTarget(root_pos) /\ job'.from = batch
      BY <3>1
    <3> QED
      BY <1>2, <2>1, <2>2, <3>1, <3>2
  <2> QED
    BY <2>3, <2>4
<1>8. CASE OpenTarget
  <2> DEFINE script == [from |-> job.from, msgs |-> {}, complete |-> FALSE]
  <2>1. /\ phase = "target" /\ phase' = "migrating" /\ Write(script)
        /\ UNCHANGED << root_pos, hidden, job >>
    BY <1>8 DEF OpenTarget
  <2>2. /\ MsgsMade(job.from, hidden) /\ hidden = HiddenBefore(root_pos)
        /\ job.target = BatchTarget(root_pos)
    BY <2>1 DEF MsgsInv
  <2>3. IsBatchOf(script, hidden)
    BY <2>2 DEF IsBatchOf
  <2> HIDE DEF script
  <2>4. \A pos \in DOMAIN options.src_roots : IsKept(pos)
    BY <2>1, <2>2, <2>3, BatchWritten DEF IsKept
  <2> QED
    BY <2>1, <2>2, <2>4
<1>9. CASE CompleteTarget
  <2> DEFINE script == [from |-> job.from, msgs |-> MsgsOf(job.from.used, hidden'),
                        complete |-> TRUE]
  <2>1. /\ phase = "migrating" /\ phase' = "root" /\ Write(script)
        /\ hidden' = hidden \cup HiddenWith(job.from.used)
        /\ UNCHANGED root_pos
    BY <1>9 DEF CompleteTarget
  <2>2. /\ MsgsMade(job.from, hidden) /\ hidden = HiddenBefore(root_pos)
        /\ job.target = BatchTarget(root_pos)
    BY <2>1 DEF MsgsInv
  <2>3. IsBatchOf(script, hidden)
    BY <2>1, <2>2 DEF IsBatchOf
  <2> HIDE DEF script
  <2>4. \A pos \in DOMAIN options.src_roots : IsKept(pos)
    BY <2>1, <2>2, <2>3, BatchWritten DEF IsKept
  <2>5. HiddenBefore(root_pos + 1) = HiddenBefore(root_pos) \cup HiddenWith(job.from.used)
    BY <2>1, JobOfRoot, HiddenBeforeNext
  <2> QED
    BY <2>1, <2>2, <2>4, <2>5
<1>10. CASE CantWriteTarget \/ MigrationThrows \/ Finish
  <2>1. phase' \in {"threw", "done"} /\ UNCHANGED scripts
    BY <1>10 DEF CantWriteTarget, MigrationThrows, Finish
  <2> QED
    BY <1>2, <2>1
<1>11. CASE UNCHANGED vars
  <2>1. UNCHANGED << phase, root_pos, hidden, batch, job, scripts >>
    BY <1>11 DEF vars
  <2> QED
    BY <1>2, <2>1 DEF MsgsInv
<1> QED
  BY <1>3, <1>4, <1>5, <1>6, <1>7, <1>8, <1>9, <1>10, <1>11 DEF Next

LEMMA MsgsInvCorrect == Spec => []MsgsInv
  BY MsgsInit, MsgsStep, TypeInvCorrect, ScriptsInvCorrect, PTL DEF Spec

(***************************************************************************)
(* For all trees and options, and whatever foreign keys migrations hide: a *)
(* batch's script has the messages for each of its files as they are when  *)
(* earlier roots have been migrated; those for the whole batch are among   *)
(* them; and what only files have are warnings about tables that other     *)
(* files use, or to which the batch's migration leaves no foreign key.     *)
(***************************************************************************)
THEOREM MessagesOfFilesCorrect == Spec => []MessagesOfFiles
<1>1. ASSUME TypeInv, ScriptsInv, MsgsInv PROVE MessagesOfFiles
  <2> SUFFICES ASSUME options.batch_sources, NEW pos \in DOMAIN options.src_roots,
                      BatchTarget(pos) \in DOMAIN scripts,
                      scripts[BatchTarget(pos)].complete
               PROVE  LET t             == BatchTarget(pos)
                          from          == scripts[t].from
                          msgs_of_files == {mf[1] : mf \in from.msgs}
                          hidden_here   == HiddenBefore(pos) \cup HiddenWith(from.used)
                      IN /\ from.msgs =
                              UNION {MsgsOf(StnameUsedcols(f), HiddenBefore(pos)) \X {f} :
                                       f \in FilesIn(from)}
                         /\ scripts[t].msgs \subseteq msgs_of_files
                         /\ \A m \in msgs_of_files \ scripts[t].msgs :
                              /\ m.level = "warning"
                              /\ \/ m.table \in DOMAIN from.used
                                 \/ {c \in FkColumnsOf(from.used) : FkTarget[c] = m.table}
                                      \subseteq hidden_here
    BY DEF MessagesOfFiles
  <2> DEFINE t             == BatchTarget(pos)
             from          == scripts[t].from
             msgs_of_files == {mf[1] : mf \in from.msgs}
             before        == HiddenBefore(pos)
             after         == before \cup HiddenWith(from.used)
             used_of       == [f \in FilesIn(from) |-> StnameUsedcols(f)]
  <2>1. MsgsMade(from, before) /\ scripts[t].msgs = MsgsOf(from.used, after)
    BY <1>1 DEF MsgsInv, IsBatchOf
  <2>2. MadeOfFiles(from, Input)
    BY <1>1 DEF ScriptsInv, IsScriptOf
  <2>3. \A f \in FilesIn(from) : Input.used[f] = StnameUsedcols(f)
    BY <1>1, ListedFacts
  <2> HIDE DEF from, before
  <2>4. AreNamesOf(from.used, FilesIn(from), used_of)
    BY <2>2, <2>3 DEF MadeOfFiles, AreNamesOf
  <2> DEFINE msgs_of(f) == MsgsOf(used_of[f], before)
  <2>5. \A mf : mf \in from.msgs <=> \E f \in FilesIn(from) : mf \in msgs_of(f) \X {f}
    BY <2>1 DEF MsgsMade
  <2>6. from.msgs = UNION {MsgsOf(StnameUsedcols(f), before) \X {f} : f \in FilesIn(from)}
    BY <2>5
  <2> HIDE DEF used_of, after
  <2>7. /\ \A m \in MsgsOf(from.used, after) : \E f \in FilesIn(from) : m \in msgs_of(f)
        /\ \A f \in FilesIn(from) : \A m \in msgs_of(f) :
             m \notin MsgsOf(from.used, after) =>
               /\ m.level = "warning"
               /\ \/ m.table \in DOMAIN from.used
                  \/ \A c \in FkColumnsOf(from.used) : FkTarget[c] = m.table => c \in after
    <3>1. IsMore(after, before)
      BY DEF after, IsMore
    <3> DEFINE files_in == FilesIn(from)
               names    == from.used
    <3>2. AreNamesOf(names, files_in, used_of)
      BY <2>4
    <3> HIDE DEF files_in, names
    <3>3. /\ \A m \in MsgsOf(names, after) : \E f \in files_in : m \in MsgsOf(used_of[f], before)
          /\ \A f \in files_in : \A m \in MsgsOf(used_of[f], before) :
               m \notin MsgsOf(names, after) =>
                 /\ m.level = "warning"
                 /\ \/ m.table \in DOMAIN names
                    \/ \A c \in FkColumnsOf(names) : FkTarget[c] = m.table => c \in after
      BY ONLY <3>1, <3>2, MsgsOfMany
    <3> QED
      BY <3>3 DEF files_in, names
  <2> HIDE DEF msgs_of
  <2>8. \A m : m \in msgs_of_files <=> \E f \in FilesIn(from) : m \in msgs_of(f)
    <3>1. ASSUME NEW m \in msgs_of_files
          PROVE  \E f \in FilesIn(from) : m \in msgs_of(f)
      <4>1. PICK mf \in from.msgs : m = mf[1]
        OBVIOUS
      <4>2. PICK f \in FilesIn(from) : mf \in msgs_of(f) \X {f}
        BY <2>5
      <4> QED
        BY <4>1, <4>2
    <3>2. ASSUME NEW f \in FilesIn(from), NEW m \in msgs_of(f)
          PROVE  m \in msgs_of_files
      <4>1. << m, f >> \in msgs_of(f) \X {f}
        OBVIOUS
      <4>2. << m, f >> \in from.msgs /\ << m, f >>[1] = m
        BY <2>5, <4>1
      <4> QED
        BY <4>2
    <3> QED
      BY <3>1, <3>2
  <2> HIDE DEF msgs_of_files
  <2>9. /\ scripts[t].msgs \subseteq msgs_of_files
        /\ \A m \in msgs_of_files \ scripts[t].msgs :
             /\ m.level = "warning"
             /\ \/ m.table \in DOMAIN from.used
                \/ {c \in FkColumnsOf(from.used) : FkTarget[c] = m.table} \subseteq after
    BY <2>1, <2>7, <2>8
  <2> QED
    BY <2>6, <2>9 DEF msgs_of_files, before, after, from
<1> QED
  BY <1>1, TypeInvCorrect, ScriptsInvCorrect, MsgsInvCorrect, PTL

===============================================================================
