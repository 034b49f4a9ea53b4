----------------------------- MODULE MassMigrator -----------------------------
(***************************************************************************)
(* The migration of source trees (ddl_mass_migrator).  Every source root   *)
(* is walked, in an order that the file system decides; the files that the *)
(* path patterns select are read for the names in them, and a file that    *)
(* can't be read is skipped.  Each file then becomes a target script whose *)
(* path mirrors its own; or, for batch sources, is validated, and all files *)
(* of a root become one script.                                            *)
(*                                                                         *)
(* What is in a script is the business of module StnamesMigrator.  Here a  *)
(* migration ends well or throws, which ends the run, and a script lists   *)
(* its sources, the names used and the messages about undefined tables.    *)
(* Those depend on the foreign keys that migrations have hidden: a hidden  *)
(* flag stays with the record, from script to script and root to root.     *)
(***************************************************************************)
EXTENDS MessageOrder, Sequences, FiniteSets

CONSTANTS
  Root,       \* source roots
  Path,       \* paths under a root, without file name extension
  Extension,  \* file name extensions
  Table,      \* schema.table names
  Column,     \* schema.table.column names
  Invalid,    \* a name that is not a DDL name
  NoRoot,     \* the root of a mirror path that is not grafted
  Undefined,  \* the tables that no database defines
  FkTarget,   \* the table that a column's foreign key refers to, if it has one
  Hides,      \* the columns whose foreign keys the migration of a table hides
  Place,      \* the places of names and of files in their orders
  Options,    \* the options considered: see OptionsRecord
  Tree        \* the source trees considered: see IsTree

\* A file of a root; and a path that mirrors it (mirror_filepath).
File   == [root : Root, path : Path, extension : Extension]
Mirror == [root : Root \cup {NoRoot}, path : Path, extension : Extension]

\* An include or exclude pattern is the set of the mirror paths it matches.
OptionsRecord ==
  [src_roots : Seq(Root), graft_source_paths : BOOLEAN, batch_sources : BOOLEAN,
   include_path_patts : SUBSET SUBSET Mirror, exclude_path_patts : SUBSET SUBSET Mirror]

\* A source: whether it has the root element <dataset>, the children of that
\* element (the name and the attributes of each), and the comments among them
\* that ask for an identity.
Node     == [name : Table \cup {Invalid}, attributes : SUBSET Column]
Document == [dataset : BOOLEAN, nodes : SUBSET Node,
             assume_identity : SUBSET (Column \cup {Invalid})]
IsTree(tree) == DOMAIN tree \subseteq File /\ \A f \in DOMAIN tree : tree[f] \in Document

ASSUME OptionsAssumption == Options \subseteq OptionsRecord
ASSUME TreeAssumption == \A tree \in Tree : IsTree(tree)
ASSUME UndefinedAssumption == Undefined \subseteq Table
ASSUME FkTargetAssumption ==
  DOMAIN FkTarget \subseteq Column /\ FkTarget \in [DOMAIN FkTarget -> Table]
\* The table migrator that main() makes rejects columns for their datatypes, so
\* that a table has the same columns rejected, and the same foreign keys hidden,
\* whichever script it is migrated for.
ASSUME HidesAssumption == Hides \in [Table -> SUBSET DOMAIN FkTarget]
ASSUME PlaceAssumption == Place \in [Table \cup File -> Nat \ {0}]
ASSUME NoNameAssumption == NoRoot \notin Root /\ Invalid \notin Table \cup Column

VARIABLES
  options,          \* the arguments of mass_migrate_ddl,
  tree,             \*   the files found under the roots, and their documents
  phase,            \* where the run stands: see Phase
  root_pos,         \* how many roots have been begun
  hidden,           \* the columns whose foreign keys have been hidden
  files,            \* the files of the root still to be visited
  batch,            \* batch sources: what the root's files have in them so far
  job,              \* the ddl_target_mass_migrator at work
  scripts           \* the targets written in this run, by path

vars == << options, tree, phase, root_pos, hidden, files, batch, job, scripts >>

Phase == {"root", "files", "target", "migrating", "done", "threw"}

\* A message about a table: it is used but undefined (an error), or is used as
\* the target of a foreign key only (a warning).
Msg == [level : {"error", "warning"}, table : Table]

\* What a target is made of: of a batch, the messages for each of its files too.
Sources == [filepaths : Seq(File), used : UNION {[ts -> SUBSET Column] : ts \in SUBSET Table},
            assumed : SUBSET Column, msgs : SUBSET (Msg \X File)]

-------------------------------------------------------------------------------
\* Bug: names are not looked at.
IsReadableUnchecked(f) == tree[f].dataset

\* read_ddl_names: the tables named, and the columns given values to under each
\* name; nothing of a file that isn't valid throughout.
IsReadable(f) ==
  /\ tree[f].dataset
  /\ \A n \in tree[f].nodes : n.name # Invalid
  /\ Invalid \notin tree[f].assume_identity

StnameUsedcols(f) ==
  [t \in {n.name : n \in tree[f].nodes} |->
     UNION {n.attributes : n \in {m \in tree[f].nodes : m.name = t}}]

\* merge_into: the columns used by either.
Usedcols(used, t) == IF t \in DOMAIN used THEN used[t] ELSE {}
Merged(used, that) ==
  [t \in DOMAIN used \cup DOMAIN that |-> Usedcols(used, t) \cup Usedcols(that, t)]

\* hide_rejected_column, for each table migrated: the foreign keys on and to its
\* rejected columns.
HiddenWith(used) == UNION {Hides[t] : t \in DOMAIN used \ Undefined}

\* migrate_ddl_stnames, migrate_validate_fk_constraints_ddl: the messages for
\* what is used, without those foreign keys that are hidden.  The messages about
\* rejected columns, which only a migration has, are left out.
UndefinedOf(used) == DOMAIN used \cap Undefined
FkColumnsOf(used) ==
  DOMAIN FkTarget \cap UNION {used[t] : t \in DOMAIN used \ Undefined}
MsgsOf(used, without) ==
  [level : {"error"}, table : UndefinedOf(used)] \cup
  [level : {"warning"},
   table : {FkTarget[c] : c \in FkColumnsOf(used) \ without} \ DOMAIN used]

\* mirror_filepath, search_any_regex: include patterns count if there are any.
MirrorFilepath(f) ==
  [f EXCEPT !.root = IF options.graft_source_paths THEN f.root ELSE NoRoot]
SearchAnyRegex(against, patts) == \E patt \in patts : against \in patt
IsSelected(f) ==
  /\ ~SearchAnyRegex(MirrorFilepath(f), options.exclude_path_patts)
  /\ \/ options.include_path_patts = {}
     \/ SearchAnyRegex(MirrorFilepath(f), options.include_path_patts)

\* mirror_target_ddl_filepath: the extension is replaced.
Target(mirror) == [root |-> mirror.root, path |-> mirror.path]
TargetOf(f)    == Target(MirrorFilepath(f))
BatchTarget(pos) ==
  [root |-> IF options.graft_source_paths THEN options.src_roots[pos] ELSE NoRoot,
   path |-> << "middle-batch", pos >>]

FilesOf(root) == {f \in DOMAIN tree : f.root = root}

-------------------------------------------------------------------------------
NoSources == [filepaths |-> << >>, used |-> << >>, assumed |-> {}, msgs |-> {}]
NoJob     == [target |-> << >>, from |-> NoSources]

Init ==
  /\ options \in Options /\ tree \in Tree
  /\ phase = "root" /\ root_pos = 0 /\ hidden = {} /\ files = {}
  /\ batch = NoSources /\ job = NoJob /\ scripts = << >>

\* Bug: the batch of the root before is not cleared.
BeginRootBatchKept ==
  /\ phase = "root" /\ root_pos < Len(options.src_roots)
  /\ root_pos' = root_pos + 1
  /\ files' = FilesOf(options.src_roots[root_pos + 1])
  /\ phase' = "files"
  /\ UNCHANGED << options, tree, hidden, batch, job, scripts >>

\* The next root, with a new batch.
BeginRoot ==
  /\ phase = "root" /\ root_pos < Len(options.src_roots)
  /\ root_pos' = root_pos + 1
  /\ files' = FilesOf(options.src_roots[root_pos + 1])
  /\ batch' = NoSources
  /\ phase' = "files"
  /\ UNCHANGED << options, tree, hidden, job, scripts >>

Visit(f) ==
  /\ phase = "files" /\ f \in files
  /\ files' = files \ {f}
  /\ UNCHANGED << options, tree, root_pos, scripts >>

\* Bug: a file that can't be read ends the walk through its root.
SkipFileEndingRoot(f) ==
  /\ phase = "files" /\ f \in files
  /\ ~IsSelected(f) \/ ~IsReadable(f)
  /\ files' = {}
  /\ UNCHANGED << options, tree, root_pos, hidden, scripts, batch, job, phase >>

\* Bug: a file that can't be read is tried again.
SkipFileAgain(f) ==
  /\ phase = "files" /\ f \in files
  /\ ~IsSelected(f) \/ ~IsReadable(f)
  /\ UNCHANGED vars

\* A file that isn't selected; or one whose ddl_names_filereader_parse_error is
\* caught, whatever has been read of it.
SkipFile(f) ==
  /\ Visit(f)
  /\ ~IsSelected(f) \/ ~IsReadable(f)
  /\ UNCHANGED << hidden, batch, job, phase >>

\* mass_migrate_target_ddl begins, unless there are no names.
BeginTarget(target, from, next) ==
  IF DOMAIN from.used = {}
    THEN phase' = next /\ UNCHANGED job
    ELSE phase' = "target" /\ job' = [target |-> target, from |-> from]

MigrateFile(f) ==
  /\ Visit(f) /\ ~options.batch_sources
  /\ IsSelected(f) /\ IsReadable(f)
  /\ BeginTarget(TargetOf(f),
                 [filepaths |-> << f >>, used |-> StnameUsedcols(f),
                  assumed |-> tree[f].assume_identity, msgs |-> {}], "files")
  /\ UNCHANGED << hidden, batch >>

\* validate_batch_ddl.  Bug: as if it were given the table migrator factory, it
\* hides foreign keys.
ValidateFileHiding(f) ==
  /\ Visit(f) /\ options.batch_sources
  /\ IsSelected(f) /\ IsReadable(f)
  /\ hidden' = hidden \cup HiddenWith(StnameUsedcols(f))
  /\ batch' = [filepaths |-> Append(batch.filepaths, f),
               used      |-> Merged(batch.used, StnameUsedcols(f)),
               assumed   |-> batch.assumed \cup tree[f].assume_identity,
               msgs      |-> batch.msgs \cup (MsgsOf(StnameUsedcols(f), hidden') \X {f})]
  /\ UNCHANGED << job, phase >>

\* Validation hides nothing, but does not see what migrations have hidden.
ValidateFile(f) ==
  /\ Visit(f) /\ options.batch_sources
  /\ IsSelected(f) /\ IsReadable(f)
  /\ batch' = [filepaths |-> Append(batch.filepaths, f),
               used      |-> Merged(batch.used, StnameUsedcols(f)),
               assumed   |-> batch.assumed \cup tree[f].assume_identity,
               msgs      |-> batch.msgs \cup (MsgsOf(StnameUsedcols(f), hidden) \X {f})]
  /\ UNCHANGED << hidden, job, phase >>

\* The root has been walked: its batch is migrated.
EndRoot ==
  /\ phase = "files" /\ files = {}
  /\ IF options.batch_sources
       THEN BeginTarget(BatchTarget(root_pos), batch, "root")
       ELSE phase' = "root" /\ UNCHANGED job
  /\ UNCHANGED << options, tree, root_pos, hidden, files, batch, scripts >>

\* The script of a target: what was there before is gone.
Write(script) ==
  scripts' = [t \in DOMAIN scripts \cup {job.target} |->
                IF t = job.target THEN script ELSE scripts[t]]

\* Opening truncates the target, and the header is written; or it can't be
\* opened, or its directory can't be created.
OpenTarget ==
  /\ phase = "target"
  /\ Write([from |-> job.from, msgs |-> {}, complete |-> FALSE])
  /\ phase' = "migrating"
  /\ UNCHANGED << options, tree, root_pos, hidden, files, batch, job >>

CantWriteTarget ==
  /\ phase = "target"
  /\ phase' = "threw"
  /\ UNCHANGED << options, tree, root_pos, hidden, files, batch, job, scripts >>

\* migrate_ddl_stnames ends well: the tables are migrated, then their foreign
\* keys, and the messages follow the DDL.
CompleteTarget ==
  /\ phase = "migrating"
  /\ hidden' = hidden \cup HiddenWith(job.from.used)
  /\ Write([from |-> job.from, msgs |-> MsgsOf(job.from.used, hidden'), complete |-> TRUE])
  /\ phase' = IF options.batch_sources THEN "root" ELSE "files"
  /\ UNCHANGED << options, tree, root_pos, files, batch, job >>

\* Bug: as if exceptions of every kind were caught where parse errors are.
MigrationThrowsCaught ==
  /\ phase = "migrating"
  /\ phase' = IF options.batch_sources THEN "root" ELSE "files"
  /\ UNCHANGED << options, tree, root_pos, hidden, files, batch, job, scripts >>

\* Or it throws (uniquify_identity_column) at some table, leaving what has been
\* written and hidden.
MigrationThrows ==
  /\ phase = "migrating"
  /\ phase' = "threw"
  /\ \E ts \in SUBSET (DOMAIN job.from.used \ Undefined) :
       hidden' = hidden \cup UNION {Hides[t] : t \in ts}
  /\ UNCHANGED << options, tree, root_pos, files, batch, job, scripts >>

Finish ==
  /\ phase = "root" /\ root_pos = Len(options.src_roots)
  /\ phase' = "done"
  /\ UNCHANGED << options, tree, root_pos, hidden, files, batch, job, scripts >>

Next ==
  \/ BeginRoot
  \/ \E f \in files : SkipFile(f) \/ MigrateFile(f) \/ ValidateFile(f)
  \/ EndRoot \/ OpenTarget \/ CantWriteTarget \/ CompleteTarget \/ MigrationThrows
  \/ Finish

\* One thread, which goes on as long as it can.
Spec == Init /\ [][Next]_vars /\ WF_vars(Next)

\* The program: parse_args leaves batch_sources as it was constructed.
RunnerInit == Init /\ ~options.batch_sources
RunnerSpec == RunnerInit /\ [][Next]_vars

-------------------------------------------------------------------------------
AnyTarget == [root : Root \cup {NoRoot}, path : Path \cup ({"middle-batch"} \X (Nat \ {0}))]

TypeOK ==
  /\ options \in Options /\ tree \in Tree
  /\ phase \in Phase
  /\ root_pos \in 0..Len(options.src_roots)
  /\ hidden \subseteq DOMAIN FkTarget
  /\ files \subseteq DOMAIN tree
  /\ batch \in Sources
  /\ job.from \in Sources /\ (job = NoJob \/ job.target \in AnyTarget)
  /\ DOMAIN scripts \subseteq AnyTarget
  /\ \A t \in DOMAIN scripts :
       scripts[t] \in [from : Sources, msgs : SUBSET Msg, complete : BOOLEAN]

FilesIn(from) == {from.filepaths[i] : i \in DOMAIN from.filepaths}
Migratable(f) == IsSelected(f) /\ IsReadable(f)

(***************************************************************************)
(* A script is made from the files it lists in its header and from nothing *)
(* else: each is selected, read in full, and listed once; the names used   *)
(* and the identities assumed are all of theirs; and they are either the   *)
(* one file that the script mirrors, or all files of the root that the     *)
(* batch is for.                                                           *)
(***************************************************************************)
ScriptOfItsFiles ==
  \A t \in DOMAIN scripts :
    LET from == scripts[t].from
    IN /\ Cardinality(FilesIn(from)) = Len(from.filepaths)
       /\ \A f \in FilesIn(from) : Migratable(f)
       /\ DOMAIN from.used = UNION {DOMAIN StnameUsedcols(f) : f \in FilesIn(from)}
       /\ \A n \in DOMAIN from.used :
            from.used[n] = UNION {Usedcols(StnameUsedcols(f), n) : f \in FilesIn(from)}
       /\ from.assumed = UNION {tree[f].assume_identity : f \in FilesIn(from)}
       /\ \/ \E f \in DOMAIN tree : FilesIn(from) = {f} /\ t = TargetOf(f)
          \/ \E pos \in DOMAIN options.src_roots :
               /\ t = BatchTarget(pos)
               /\ FilesIn(from) = {f \in FilesOf(options.src_roots[pos]) : Migratable(f)}

(***************************************************************************)
(* A run that ends normally has written a complete script for every file   *)
(* that it could read and that names a table, though unreadable files came *)
(* before it; unless a file with the same target has taken its place.      *)
(***************************************************************************)
IsListedAt(t, f) ==
  t \in DOMAIN scripts /\ scripts[t].complete /\ f \in FilesIn(scripts[t].from)

NoFileLost ==
  phase = "done" =>
    \A pos \in DOMAIN options.src_roots :
      \A f \in FilesOf(options.src_roots[pos]) :
        Migratable(f) /\ tree[f].nodes # {} =>
          IF options.batch_sources
            THEN IsListedAt(BatchTarget(pos), f)
            ELSE \E g \in DOMAIN tree : TargetOf(g) = TargetOf(f) /\ IsListedAt(TargetOf(f), g)

(***************************************************************************)
(* A script that is torn, its header written and its DDL or its messages   *)
(* not, is the last that the run has touched: the scripts before it are    *)
(* complete, and the run does not end normally.                            *)
(***************************************************************************)
TornScriptIsLast ==
  \A t \in DOMAIN scripts :
    ~scripts[t].complete => t = job.target /\ phase \in {"migrating", "threw"}

\* What has been hidden before the root at a position of a run with batches: by
\* the migration of the roots before it.
HiddenBefore(pos) ==
  UNION {HiddenWith(StnameUsedcols(f)) :
           f \in {g \in UNION {FilesOf(options.src_roots[i]) : i \in 1..(pos - 1)} :
                    Migratable(g)}}

(***************************************************************************)
(* The script of a batch has the messages for each of its files, about all *)
(* foreign keys that no earlier root's migration has hidden.  Whatever     *)
(* there is a message about without a file, there is one about with a file *)
(* too.  The other way round, this is so for errors; the target of a       *)
(* file's foreign key may be a table used by another, or the foreign key   *)
(* one that the batch's own migration hides, after the validation of its   *)
(* files (migrate_ddl_stnames with and without a table migrator factory).  *)
(***************************************************************************)
MessagesOfFiles ==
  options.batch_sources =>
    \A pos \in DOMAIN options.src_roots :
      LET target        == BatchTarget(pos)
          from          == scripts[target].from
          msgs_of_files == {mf[1] : mf \in from.msgs}
          hidden_here   == HiddenBefore(pos) \cup HiddenWith(from.used)
      IN target \in DOMAIN scripts /\ scripts[target].complete =>
           /\ from.msgs = UNION {MsgsOf(StnameUsedcols(f), HiddenBefore(pos)) \X {f} :
                                   f \in FilesIn(from)}
           /\ scripts[target].msgs \subseteq msgs_of_files
           /\ \A m \in msgs_of_files \ scripts[target].msgs :
                /\ m.level = "warning"
                /\ \/ m.table \in DOMAIN from.used
                   \/ {c \in FkColumnsOf(from.used) : FkTarget[c] = m.table} \subseteq hidden_here

(***************************************************************************)
(* The messages of a script are sorted by a comparison that is an order,   *)
(* as std::sort requires, unless they are warnings of a batch (operator<). *)
(* Those of a level about one table have one text, but all warnings about  *)
(* targets of foreign keys are about no table, and differ in their texts.  *)
(***************************************************************************)
OrderedMsgOf(m, file) ==
  IF m.level = "error"
    THEN [level |-> 0, about |-> Place[m.table], text |-> 0, file |-> file]
    ELSE [level |-> 1, about |-> 0, text |-> Place[m.table], file |-> file]

MsgsOfJob ==
  {OrderedMsgOf(m, 0) :
     m \in MsgsOf(job.from.used, hidden \cup HiddenWith(job.from.used))} \cup
  {OrderedMsgOf(mf[1], Place[mf[2]]) : mf \in job.from.msgs}

MessagesOrdered ==
  phase = "migrating" =>
    /\ IsStrictWeakOrder({m \in MsgsOfJob : m.level = 0})
    /\ ~options.batch_sources => IsStrictWeakOrder(MsgsOfJob)

(***************************************************************************)
(* A run comes to an end, whichever files it skips (mass_migrate_ddl).     *)
(***************************************************************************)
RunEnds == <>(phase \in {"done", "threw"})

\* RUNNING.md: "otherwise an output file is produced per source file
\* successfully scanned" (and naming a table).
OutputPerSource ==
  phase = "done" /\ ~options.batch_sources =>
    \A pos \in DOMAIN options.src_roots :
      \A f \in FilesOf(options.src_roots[pos]) :
        Migratable(f) /\ tree[f].nodes # {} => IsListedAt(TargetOf(f), f)

===============================================================================
