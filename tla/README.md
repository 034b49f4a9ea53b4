# A verification project for Middle

Middle reads DbUnit XML data sets, collects the tables, columns and identities
they name, looks these up in the metadata of SQL Server databases over ODBC, and
writes the DDL scripts that create the tables in an HSQLDB. These modules model
what it does between reading and writing, in TLA+, translated from the sources.
TLC checks them on small instances, and TLAPS proves the theorems listed below.

Middle is a sequential program that runs to its end: no threads, no messages, no
recovery. What is hard about it is state that outlives the thing it was made for
(metadata records with flags shared by all files, a table migrator's key while
columns are rejected, an iterator that two loops share, the names collected for
one root), loops over the user's rules that need not end, order (of columns, sub-rules, tables, files, roots, databases), steps
of several of which one fails, and numbers stored in narrow members. A test sees
one order; the runs here see all of them.

## The parts of the system

| part (src/src/...) | state | operations | interacts with | what is hard | correct when |
|---|---|---|---|---|---|
| CREATE TABLE migration: `normal_ddl/ddl_stnames_migrator` and the table migrators `middle_app/dbunit_{hsqldb,pkvsid}_ddl_table_migrator` | text of the statement, comma due, kept and rejected columns; the migrator's primary key and identities | migrate a column, end the statement | datatype rules give the verdict on a column; the stnames migrator drives it and asks what was rejected | the comma is decided before the verdict; identities and keys compete in the order of the columns | the statement defines the mappable columns, their key, one identity at most, and separates them |
| Datatype rules: `normal_ddl/ddl_table_migrator`, `ddl_column_rules` | the datatype being changed, the iterator over the sub-rules, the verdict | find the rule, try sub-rules on a size, then on the scale | rules come from the preferences; sizes go to the CREATE TABLE statement | first match decides; two loops share one iterator; sizes are 8, 16 and 32 bits | the first sub-rule that matches is applied, as documented |
| Stnames migrator: `sqlsvr_ddl/sqlsvr_ddl_stnames_migrator`, `sqlsvr_ddl_hidable.h` | the metadata records, each with a hidden flag; schemas, messages, foreign keys of the file | migrate a file: tables, hiding, checks, uniques, foreign keys | queries give the records, shared by all files | hiding is never undone; a constraint touches several tables and columns | no constraint mentions a rejected column or a table not created; scripts do not depend on the files before |
| Metadata loaders: `sqlsvr_ddl/sqlsvr_ddl_{ck,fk,pk,tc,uq}_mapper`, `sqlsvr_ddl_queries.h` | maps by normalized name; the group of rows being collected; the errors | connect, query, group rows, map, throw | ODBC; the stnames migrator | several databases, redefinitions, a last group after the loop, addresses of records | what is mapped is of one database, whole, and no error is lost |
| Mass migrator: `middle_app/ddl_mass_migrator` | roots to visit, a batch's names, identities and messages; the targets written | walk roots, select, read or skip, migrate or validate, write | reader, stnames migrator, file system | files that can't be read, targets that coincide, a migration that throws half-way | each selected file is in a script, and each script is of its files |
| DbUnit reader: `middle_app/dbunit_xml_ddl_names_filereader` | none | read the names in a file | XML parser | all or nothing | see mass migrator |
| Names: `normal_ddl/ddl_names` | none | parse, normalize, merge | all | names that are no DDL names | plain functions |
| Migration messages: `normal_ddl/ddl_migration_msg` | sorted containers | add, sort, output | stnames and mass migrator | the order of messages is not a strict weak order | sort is given an order |
| Default values: `normal_ddl/ddl_default_value_rule_macro`, `universals/macro_args_expander`, `text_processor.h` | the text being read, what has been made of it | match and replace a macro, rewrite its arguments, begin another pass | rules come from the preferences; the datatype rules ask for a column's default value | macros that come of macros; quotes, parentheses and placeholders in what is moved; termination | no macro is left, strings and parentheses are whole, and it ends |
| Preferences: `middle_app/ddl_table_migrator_prefs_reader`, `static_ddl_table_migrator_prefs` | the rules read so far, the cursor in a structure | read a datatype rule, read a default value rule | datatype rules, default values | the cursor at the end; what is checked here and relied on later | each rule is read, once, and is such as its users assume |
| ODBC: `odbc_query` | connection, bound buffers | connect, execute, fetch | loaders | errors | external here |
| Streams and strings: `universals/ochain.h`, `string_backed_fos.h`, `uc_string` | buffers, line counts | write, count | all writers | - | not modelled |
| Program: `main/main.cc`, `options.cc` | options | parse, run | all | an option that is declared and never stored | RunnerSpec of MassMigrator |

`PROJECT.json` has the same list with the status of each part, and under
"hazards" every place where something can go wrong that a test would hardly
reach, with the properties that are about it.

## The modules

Every definition is tied to lines of the source under "map" in `PROJECT.json`.
Definitions keep the names of the source where they can.

**TableStatement** is abstract: a statement for a table appears at once, and with
either table migrator defines what it should. **CreateTable** implements it.

**CreateTable** is `migrate_create_table_ddl` and both table migrators. The
variable `table_migrator` says which migrator the application's factory makes;
`main()` makes dbunit_hsqldb. `BeginTable` makes a table migrator; `MigrateColumn`
is one turn of the loop over the columns (`RejectDatatype`, `KeepPlain`,
`HsqldbKeepIdentity`, `PkvsidIdentity`, which are the callbacks); `CloseTable`
is what follows the loop: the primary key, and commenting the statement out if
no column is left. The text is a sequence of tokens that name the columns they
mention; separators are tokens too, since their placement is what goes wrong.

**ColumnRules** has the rules that the preferences consist of, for the two modules
that share them. **DatatypeRules** is `migrate_datatype_ddl` of the table migrator (which rule,
then the loop over the sub-rules, then the loop over the scale sub-rules, which
goes on with the same iterator) and the output of sizes of the same name in the
stnames migrator. `Stored` is the width of the member a size is kept in.

**StnamesMigrator** EXTENDS CreateTable with the files: `BeginFile`,
`UndefinedTable`, `BeginDefinedTable` (CREATE SCHEMA, then the actions of
CreateTable), `CloseCreateTable` and `UniquifyIdentityColumn` (the loop over the
pkvsid migrator's identities), `MigrateConstraints` (hide what is rejected, then
output checks and uniques), `EndFile` (foreign keys, and messages about their
targets). `hidden_tc`, `hidden_ck`, `hidden_uq` and `hidden_fk` (which records are
hidden) and `uq` (which uniquifying adds to) are shared by all files.
The verdict of the datatype rules is the field `unmappable` of the catalog, any
set of columns: the verdict depends on the datatype alone, so it is the same
in all files.

**MapLoader** is the constructor of the queries: `Connect` all data sources; for
each of the five loaders and each connection `Query`, then one action per row
(`GroupRow`, `PkRow`, `FkRow`) in the order of the query's ORDER BY (rows that
tie come in any order), `EndOfRows` (the last group), and `Finish`, which throws
what has been collected. A database is a set of columns and constraints, and the
rows are what the SQL text of each query selects from it. An address that a
foreign key loader stores is the number of the connection and the row: it is
live if the mapped record is that row's.

**MassMigrator** is `mass_migrate_ddl`: `BeginRoot`, one action per file found
(`SkipFile`, `MigrateFile`, `ValidateFile` for batch sources), `EndRoot`, and for
a target `OpenTarget` or `CantWriteTarget`, then `CompleteTarget` or
`MigrationThrows`; `Finish`. The file system's order is any order. A migration is
abstract here: it ends or throws; its script lists its sources, the names used
and the messages for what is used: errors for undefined tables, warnings for
tables that only foreign keys refer to (`MsgsOf`, which is also what the
validate-only mode of the stnames migrator returns for a file of a batch; the messages
about rejected columns are left out). A migration also hides foreign keys, in records
that all scripts share, before it looks for those targets, while a validation hides
none: `hidden` is what migrations have hidden so far. Which foreign keys the migration
of a table hides is the constant `Hides`: with main()'s table migrator columns are
rejected for their datatypes alone, so it is the same in every script. `Spec` takes any arguments of
`mass_migrate_ddl`; `RunnerSpec` takes those that the program passes, whose
`batch_sources` is never set (`options.cc:67` declares the option without
storing it). The batch half is thus a public operation of the class that
the program never reaches; its properties are about the class.

**MessageOrder** is the comparison that these messages are sorted by. A message is
its level, what it is about, its text before any suffix, and the file in the
suffix; what matters of the texts is their order, and whether there is a suffix.

**MacroArgs** has texts, as sequences of tokens: what is inside quotes, where a list of
arguments ends and how it is split (`basic_text_processor`,
`basic_macro_args_expander`), and how a rewrite is filled in. A backslash before a
placeholder (`\$1`) is matched as an escape whose numbers are never set: `ReadRewrites`
are all the rewrites that it may be read as, with any placeholder in its place, and a
call takes one of them each time. **MacroExpander**
EXTENDS it with the translation of one default value: `BeginDefaultValue` strips the
parentheses, one action per match of `process_text` copies or replaces
(`CopyToken`, `CopyQuoted`, `CopyName`, `ReplaceName`, `ReplaceCall`, and those that
throw), and `EndPass` decides whether there is another pass. **PrefsReader** EXTENDS
both halves: one action per element of the two arrays of the document
(`ReadDatatypeRule`, `RefuseDatatypeRule`, and the same for default values), `EndOfArray`,
and then `TranslateDefaultValue` with the rules that were read. So the expander
is only ever given rules that the reader accepts, and it is seen which of its
assertions the reader's checks protect. What a structure leads to is a set
of results (`DefaultValueRuleResults`), as several are possible where the cursor is
used at the end of a structure.

The MC modules give the constants their values; the `_proofs` modules hold the
theorems. A definition that is called `...NotCleared`, `...Kept`, and the like,
with a comment that begins with "Bug:", is a form of the definition after it
with a plausible mistake. Nothing refers to it; "mutants" in `PROJECT.json` says
which property is violated when it takes the other's place.

Builds: `CMakeLists.txt` sets no build type, so that assertions are compiled in
or not as whoever builds it decides. Where an assertion fails a model
has two steps: into a stage `..._asserted` or `assert_failed`, where the program
ends, and the one that a build without assertions goes on with.

## The runs

Each run is `tlc -config <name>.cfg <module>` (the module is in `PROJECT.json`). Deadlock is checked for
CreateTable, which goes on with another table; the other models end (the last
file is migrated, the catalog is loaded or refused, the run is over, the default
value is translated), and
their configurations say `CHECK_DEADLOCK FALSE`.

Runs that pass:

| run | properties | shows |
|---|---|---|
| CreateTable_migrators | CreateTableTypeOK, HsqldbStatement, SeparatorDiscipline, PkvsidSingleIdentity, PkvsidStatement, ImplementsTableStatement | With either table migrator, the statements of all tables of up to three columns are such as TableStatement says: they define the columns, identities and key that they should, separated as they should be. |
| Stnames_files | TypeOK, RejectedNowhere, ConstraintsOnCreated, SchemaOnce, HistoryFreeConstraints, UsedForeignKeyTarget, HidesOnlyRejected, ImplementsTableStatement | Up to three files against one catalog, with either table migrator and every choice of rejected columns in two tables that refer to each other. |
| Datatype_first_sub_rule | TypeOK, FirstSubRuleApplied | Every rule of up to two sub-rules on a size (and one on the scale), on every kind of datatype. |
| MapLoader_databases | TypeOK, OneDatabase, GroupsComplete, NoDanglingRecord, AllRedefinitionsThrown, NoSpuriousRedefinition | Up to three databases, which overlap or not, loaded by the five loaders one after the other. |
| Mass_trees | TypeOK, ScriptOfItsFiles, NoFileLost, TornScriptIsLast, MessagesOfFiles, MessagesOrdered, RunEnds | Two roots, with files that have one target, that can't be read or name no table, in every order, batched or not, with errors and warnings to report. |
| Prefs_default_values | TypeOK, NoRuleLost, RewriteValidated, NoMacroLeft, UnchangedKept, LiteralsKept, ParenthesesInPairs, Terminates | Documents with every kind of rule and of mistake, and for those that are read, the translation of default values by rules with arguments, rewrites, nested calls and cycles. |

Runs that end in a counterexample; each is about one thing the repository says of
itself and the code does not do. The findings in `PROJECT.json` quote it.

| run | property | what the code does |
|---|---|---|
| CreateTable_trailing_separator | NoTrailingSeparator | When the last columns of a table are rejected and no key follows, the statement ends in a comma. (`normal_ddl/ddl_stnames_migrator.cc:185`) |
| Stnames_file_order | HistoryFreeForeignKeys | The foreign keys of a file's script depend on the files migrated before it. (`sqlsvr_ddl/sqlsvr_ddl_stnames_migrator.cc:163`) |
| Stnames_composite_fk | RejectedNowhere | Of a foreign key of two columns only the part that was read first is hidden. (`sqlsvr_ddl/sqlsvr_ddl_fk_mapper.cc:118`) |
| Datatype_scale_rules | ScaleRulesApplied | The sub-rules on the scale are not tried for a column that is kept. (`normal_ddl/ddl_table_migrator.cc:353`) |
| Mass_output_per_source | OutputPerSource | Files of two roots with one mirrored path have one target, which the second overwrites. (`middle_app/ddl_mass_migrator.cc:106`) |
| Prefs_parentheses | ParenthesesKept | Parentheses at both ends of a default value are taken away though they are no pair, and what is left has none either. (`normal_ddl/ddl_table_migrator.cc:288`) |

`Stnames_composite_fk` violates a property that `Stnames_files` shows to hold: the
catalogs differ. A catalog is *simple* (`SimpleCatalog` in StnamesMigrator_proofs)
when every check is over one column and every foreign key column has a
constraint name of its own. That is the assumption of the theorems about hiding, and
this run shows that the second half cannot be dropped. Nor can the first: a
check over two columns is recorded under each, and hidden under one.

Other disagreements are steps of the models, without a run, since a
property would restate the line:

| where | what the code does | what it or its documentation says |
|---|---|---|
| `sqlsvr_ddl/sqlsvr_ddl_stnames_migrator.cc:358` | "used but rejected" is said of the columns not used | `ddl_migration_msg.h:12` |
| `sqlsvr_ddl/sqlsvr_ddl_stnames_migrator.cc:98,107,132` | uniquifying an identity dereferences siblings without unique constraints, does nothing where all constraints are shared, and otherwise inserts where there is a record already | the comment and assertion there |
| `middle_app/dbunit_pkvsid_ddl_table_migrator.cc:34,39` | outside the tables of PkvsidStatement: a rejected identity stays in the key; a second identity makes the migrator forget the first | its header, line 4 |
| `normal_ddl/ddl_table_migrator.cc:353-356` | the scale loop may begin at a sub-rule on the precision | the assertion there |
| `normal_ddl/ddl_stnames_migrator.cc:91,113,118` | sizes of 0 are output; a suppressed precision leaves a scale, which fails an assertion; a datetime precision is never output | RUNNING.md:126, 148 |
| `normal_ddl/ddl_table_migrator.cc:116` | a new precision of 300 is stored as 44 | RUNNING.md:191 |
| `sqlsvr_ddl/sqlsvr_ddl_{fk,pk}_mapper.cc` | a column with two foreign keys, or two schemas with a table and a key of one name, are redefinitions in a single database (NoSpuriousRedefinition says that nothing else is) | the assertions there |
| `normal_ddl/ddl_stnames_migrator.cc:56` | the comparison of messages is no strict weak order for a batch's warnings about targets of foreign keys (theorem WarningsOfBatchUnordered) | what `std::sort` requires |
| `normal_ddl/ddl_default_value_rule_macro.cc:41` | `$1-` in a rewrite stands for the first argument only | the line after it, which takes an end of 0 for the last argument |
| `normal_ddl/ddl_default_value_rule_macro.cc:38` | a call with too few arguments fails an assertion before it is refused | line 100, which refuses it |
| `normal_ddl/ddl_default_value_rule_macro.cc:95,110` | a macro whose rule has arguments is replaced where it stands without a list, too | RUNNING.md:216, which calls the list mandatory and says that middle ends in error without it; it also names the key `arg_count`, where the reader knows `argcnt` only (`ddl_table_migrator_prefs_reader.cc:271`) |
| `normal_ddl/ddl_column_rules.cc:42` | the backslash of an escaped placeholder (`\$1`) is not validated, and is looked up by a number that is never set: a call with the right number of arguments may fail an assertion | the assertion, `ddl_default_value_rule_macro.cc:38` |
| `universals/text_processor.h:62` | a backslash escapes the quote after it, so that the SQL string `'\'` is unterminated and ends the program | RUNNING.md:209 |
| `middle_app/ddl_table_migrator_prefs_reader.cc:227,298` | the cursor is dereferenced at the end of a structure: a rule with a right-hand side and no arguments is what RUNNING.md gives as an example | the checks before it in line 292 |
| `main/options.cc:67` | `batch-sources` is declared and never stored | RUNNING.md:76 |

### What the properties say

- *CreateTable.* `HsqldbStatement`: a finished statement defines the columns whose
  datatype is mappable and no other, its key is the part of the table's key that
  is left, and the statement is commented out just when nothing is left.
  `SeparatorDiscipline`: two items never stand without a comma between them, no
  comma comes first and no two follow each other (one at the end is the finding).
  `PkvsidSingleIdentity`: never two identities, nor one with a key beside it.
  `PkvsidStatement`: for tables with at most one identity and no other key, the
  statement is as complete as the other migrator's. `ImplementsTableStatement`:
  every behaviour is one of TableStatement, where `statement` is what the text says
  once it is closed. The four before it are about the flags and counters of the code;
  this one is what those who use the statement can rely on, and `Stnames_files`
  checks it again of the composition with the files.
- *DatatypeRules.* `FirstSubRuleApplied`: the result of the loops is that of the
  first sub-rule that matches the size in the metadata, stated without a loop.
- *StnamesMigrator.* `RejectedNowhere`: no constraint of a script mentions a column
  rejected in that file. `ConstraintsOnCreated`: constraints are on tables that the
  script creates, and foreign keys to tables that it creates if the file names them.
  `SchemaOnce`: a script creates each schema once, and that of each of its tables.
  `HistoryFreeConstraints`: tables, checks and uniques are
  those of a catalog nobody has touched, whatever was migrated before, and no
  foreign key between mappable columns is lost (other foreign keys may be: the
  finding). `UsedForeignKeyTarget`: where a used column has a foreign key, the script
  creates its target or has a message about it. `HidesOnlyRejected` (an action
  property): a step hides nothing but the rejected columns of its table and the
  foreign keys on or to them, and unhides nothing.
- *MapLoader.* `OneDatabase`: once loaded, no name is defined by two databases.
  `GroupsComplete`: all rows of a name are mapped together. `NoDanglingRecord`: every
  stored address is that of a mapped record of that constraint.
  `AllRedefinitionsThrown` and `NoSpuriousRedefinition`: the errors thrown are
  all redefinitions there are, and no others, but for databases in which two
  things have one name; no assertion fails on others.
- *MassMigrator.* `ScriptOfItsFiles`: a script has the names, identities and
  sources of its files and no others, each of them selected and read in full.
  `NoFileLost`: when the run ends well, every file that is selected, readable and
  names a table is in a complete script, or another file with its target is.
  `TornScriptIsLast`: a script whose migration has not ended is the one at work, and
  the run does not end well with it. `MessagesOfFiles`: the script of a batch has
  the messages of each of its files, given the foreign keys that earlier roots have
  hidden; what the whole batch gives rise to, some file does; and what only a file does
  is a warning that another file makes unnecessary, or about a foreign key that has been
  hidden since, by the batch's own migration.
  `MessagesOrdered`: what is sorted is given an order, unless it is a batch's
  warnings. `RunEnds`: whatever is skipped, a run comes to an end.
- *PrefsReader.* `NoRuleLost`: each element of a document that is read is the rule of
  its name; so names that differ in case are refused. `RewriteValidated`: what the
  expander asserts about placeholders was checked by the reader, for calls that
  have the arguments; the one other way in which an assertion fails is an escaped
  placeholder. `TypeOK` says that sub-rules on the scale come last, on which
  the loops of DatatypeRules rely.
- *MacroExpander.* `NoMacroLeft`: a translation has no macro in it, if no rule leads
  back to itself, makes a call of its argument or leaves a quote open. (With a quote left
  open it may: a pass may then put a call's own text together again, from the argument of
  another and a string that ends elsewhere, and take that for the end.) `UnchangedKept`: a
  default value without macros is left alone, with its parentheses. `LiteralsKept`: if rules use each of their arguments, the strings of
  a translation that ends are those of the default value (a string that ends in a
  backslash ends the program instead). `ParenthesesInPairs`: they stay in pairs, if those
  at the ends were a pair (otherwise: the finding). `Terminates` (liveness): the preferences are
  read to an end, and every translation by rules that don't lead back to
  themselves ends. A macro is a name of one token: a name that rewriting
  joins from several (`$1_$2`) is looked up whole by the code, and never found in these
  models, in which no rule has such a name. Neither `NoMacroLeft` nor `Terminates` says
  anything of rules for which it would be.

### Bounds

| bound | value | why it is enough |
|---|---|---|
| columns of a table (CreateTable) | 3 | a statement has a first, a middle and a last item; an identity, another and a key column |
| tables, columns (Stnames) | 3 tables, 2+2+1 columns | two that refer to each other, in two schemas, and one between them in the order, defined or not |
| `MaxFiles` (Stnames) | 3 (1 for the composite key) | one file to hide, one that is affected, one that follows both |
| sub-rules | 2 on the size, 1 on the scale | first match, no match, the loop's end at a scale sub-rule; new values of 0, small and above 255 |
| `MaxDatabases` | 3 | a name may be in the first and third but not in the second, and be redefined twice |
| databases | 6 small ones | overlapping or not, in a table alone or in constraints; with two foreign keys on a column, tables of one name in two schemas, names with a space |
| roots, files | 2 roots (also one twice, also in reverse), 3+1 files | two files of one root and one of another with one target; unreadable ones in any place |
| statements to be migrated (Mass) | 4 tables | one undefined, one that only foreign keys refer to, two used by different files; so a batch has errors, warnings, and warnings that the batch as a whole does not have |
| foreign keys (Mass) | 2 | one is never hidden, and one is, by the migration of its own table and by that of the table it refers to, in the same root or an earlier one |
| `MaxLength` of default values | 4, and 20 longer ones | every order of parentheses, quotes, commas and names; the longer ones have nested calls, escapes, comments, blanks |
| rules (Prefs) | up to 3 | a rule that leads to another, two that lead to each other, one with a range, one that makes a call of its argument, one with an escaped placeholder |

Every bound is a constant of its module or a set in its MC module.

### Fairness

Two specifications state weak fairness of their next-state relation: PrefsReader and
MassMigrator. The code justifies it in the simplest way: each is one thread
that nobody suspends, so as long as there is a next step it is taken. No action has
fairness of its own: where the code may throw or go on, no outcome is promised.
What is then to be shown is that the steps come to an end. For the walk
over the roots (`RunEnds`) the sets of roots and files left do. For the expansion of
default values (`Terminates`) nothing in the code does: a text may grow with every
pass, and it is a matter of the user's rules. The property has the condition
(`IsAcyclic`) under which it ends; the runs contain rules that violate it, and
expansions that go on for ever.

The others assume none: their loops are over lists fixed beforehand, or they
only claim safety.

## The proofs

`tlapm M_proofs.tla`, for every value of the constants that the named
assumptions allow:

| theorem | module | establishes |
|---|---|---|
| CreateTableTypeCorrect | CreateTable_proofs | Every behaviour of the CREATE TABLE migration, with either table migrator, stays in its types. |
| HsqldbStatementCorrect | CreateTable_proofs | With main()'s table migrator a finished statement defines exactly the mappable columns and their part of the key, for tables of any size. |
| PkvsidSingleIdentityCorrect | CreateTable_proofs | The pkvsid migrator never defines two identities, nor one beside a primary key, for tables of any size. |
| PkvsidStatementCorrect | CreateTable_proofs | For the tables it is made for, the pkvsid migrator's statement defines all mappable columns and the right key. |
| SeparatorDisciplineCorrect | CreateTable_proofs | Between two items of a statement there is a separator and no second one, and none comes first, whichever columns are rejected. |
| CreateTableImplements | CreateTable_proofs | The migration column by column implements TableStatement, in which a statement appears at once. |
| TypeCorrect | DatatypeRules_proofs | Sizes stay within the widths of the members that hold them, for all rules and datatypes. |
| FirstSubRuleCorrect | DatatypeRules_proofs | The loops over the sub-rules apply the first that matches, for rule lists of any length. |
| StnamesTypeCorrect | StnamesMigrator_proofs | The migration of any number of files against any catalog stays in its types. |
| RejectedNowhereCorrect | StnamesMigrator_proofs | If checks are over single columns and every foreign key column has its own constraint name, no constraint of a script mentions a column rejected in the file. |
| HidesOnlyRejectedCorrect | StnamesMigrator_proofs | Under the same assumption, a step hides nothing but the rejected columns of its table and the foreign keys on or to them. |
| SchemaOnceCorrect | StnamesMigrator_proofs | Comparing with the last schema only, a script creates each schema once, before its tables, for any number of schemas, tables and files. |
| ConstraintsOnCreatedCorrect | StnamesMigrator_proofs | For simple catalogs, a script has no constraint on a table it does not create, nor a foreign key to a table of the file that it does not create. |
| UsedForeignKeyTargetCorrect | StnamesMigrator_proofs | For simple catalogs, a foreign key of a finished script on a used column refers to a table that is created or is warned about. |
| HistoryFreeConstraintsCorrect | StnamesMigrator_proofs | With main()'s table migrator and simple catalogs, the tables, checks and uniques of a script are those of its file's mappable columns, whatever earlier files have hidden. |
| StnamesUsesCreateTable | StnamesMigrator_proofs | What the migration of files does with a CREATE TABLE statement is a behaviour of CreateTable: the composition adds none of its own. |
| StnamesImplementsTableStatement | StnamesMigrator_proofs | So every statement of every script is one of TableStatement's. |
| NoDanglingRecordCorrect | MapLoader_proofs | A catalog that is loaded without errors has no address of a destroyed foreign key record, for any databases. |
| TypeCorrect | MapLoader_proofs | The loading of any databases stays in its types. |
| OneDatabaseCorrect | MapLoader_proofs | A catalog that is loaded has the records of a name from one connection only, for any databases. |
| AllRedefinitionsThrownCorrect | MapLoader_proofs | A load that throws after connecting to every database names every redefinition, of whichever loader and connection. |
| GroupsCompleteCorrect | MapLoader_proofs | Every name of a loaded catalog has the records of all rows of the query, although a change of the name is all that ends a group. |
| NoSpuriousRedefinitionCorrect | MapLoader_proofs | If a collation ties only names that normalize alike and columns are numbered from 1, what is thrown as a redefinition is one. |
| MassTypeCorrect | MassMigrator_proofs | A run over any trees with any options stays in its types. |
| TornScriptIsLastCorrect | MassMigrator_proofs | A torn script is the last that a run touches, for all trees and options. |
| ScriptOfItsFilesCorrect | MassMigrator_proofs | A script, complete or torn, is made of one file mirrored to it or of all migratable files of the root whose batch it is, each listed once, and of no names but theirs. |
| NoFileLostCorrect | MassMigrator_proofs | A run that is done has a complete script for every migratable file that names a table, of the file itself or, without batches, of one with the same target. |
| MessagesOfFilesCorrect | MassMigrator_proofs | The messages with a file, of a complete script of a batch, are those of its files given what the roots before have hidden; those without are among them, and are all but warnings about tables that another file uses or whose foreign keys are hidden by then. |
| StrictWeakOrder | MassMigrator_proofs | The comparison of messages is a strict weak order on messages of which those about one thing have one text, and on messages without files. |
| WarningsOfBatchUnordered | MassMigrator_proofs | Of two warnings of a batch about different targets, each plain one is less than the other's with a file and the other way round: the comparison is no order there. |
| MessagesOrderedCorrect | MassMigrator_proofs | The messages of a script without batches, and the errors of any, are sorted by a strict weak order. |
| DatatypeRulesTypedCorrect | PrefsReader_proofs | Datatype rules that are read are such as the rules that DatatypeRules assumes. |
| NoRuleLostCorrect | PrefsReader_proofs | Preferences that are read have the rule of each element, for documents of any length. |
| RewriteValidatedCorrect | PrefsReader_proofs | The assertions about placeholders only fail for calls with too few arguments or for an escaped placeholder, whose numbers are never set, for all rules that can be read. |
| UnchangedKeptCorrect | MacroExpander_proofs | A default value without a macro is output as it was, for default values of any length and whatever rules have been read. |
| TypeCorrect | MacroExpander_proofs | Whatever preferences are read and default values translated, rules are made of texts, and so is all that default values become; no more of a text is read than there is. |
| ParenthesesInPairsCorrect | MacroExpander_proofs | Rules that have their parentheses in pairs keep those of a default value in pairs, for texts, rules and calls of any size, nested or come of one another. |
| LiteralsKeptCorrect | MacroExpander_proofs | Rules that use each of their arguments and have no quotes keep the quoted tokens of a default value and add none, however long the texts and however arguments are moved, nested or put in ranges. |
| NoMacroLeftCorrect | MacroExpander_proofs | A translated default value has no macro left in it, for texts, rules and numbers of passes of any size, if rules don't lead back to themselves, make no call of an argument and leave no quote open: a pass that changes nothing has found no macro. |

- *CreateTable.* `CreateTableTypeOK` is inductive. `HsqldbStatement` and
  `PkvsidStatement` speak of finished statements only; the invariant is `StatementInv`,
  which adds `Accounted`: at any moment the columns defined are the mappable ones among
  those migrated, and every other one is rejected. A part for each table migrator
  (`HsqldbAccounted`, `PkvsidAccounted`, `IntendedAccounted`) says which columns are then
  rejected or left in the key. `SeparatorDiscipline` says that separators are between
  items, and not that one is owed: `SeparatorInv` adds that the DDL ends in an item
  just when `prev` is set, and that otherwise each item has its separator. The refinement
  follows from the statement's theorems: the step that ends a table is `FinishTable`, every
  other step begins one or leaves the statement alone. StnamesMigrator's steps
  are steps of CreateTable or leave its variables alone (`StnamesUsesCreateTable`),
  and so implement it too.
- *DatatypeRules.* `LoopInv`: before the loop ends the datatype is that of the metadata
  and no sub-rule before the iterator matches it; after it, `FirstSubRuleDecides`.
  The scale loop keeps that, for it changes the scale only.
- *StnamesMigrator.* `TypeInv` adds to the types that the table being migrated
  is one of the file's and is defined in the catalog.
  - `SchemaInv` is behind `SchemaOnce`: tables come in rank order and a schema's tables are
    contiguous in it, so all schemas created are those of tables before the next one, and if
    that one's differs from `last_schema_name` it is not among them.
  - `RejectInv` is behind `RejectedNowhere`: what has been rejected is hidden, a foreign
    key that is not hidden has neither end rejected, and until the file ends constraints
    are about the columns of tables done with.
  - `CreatedInv` is behind `ConstraintsOnCreated` and `UsedForeignKeyTarget`. It takes
    over `StatementInv` from CreateTable (`ClosedInv`), for which a table that is not
    created has all its columns rejected: by `RejectInv` no constraint is then on it.
  - `HistoryInv` is behind `HistoryFreeConstraints`: with main()'s table migrator only
    unmappable columns are ever hidden (`UnmappableHidden`), which no constraint of
    a script may have anyway; so the script so far (`Scripted`) is the one that the
    tables done with have when nothing is hidden yet.

  All but `SchemaInv` need that the catalog is simple (see above), a hypothesis of the
  theorems.
- *MapLoader.* `LiveInv`: an address that is not live belongs to a redefinition that
  is among the errors, and errors are never taken away; so a load that throws
  nothing has none. `CatalogInv`: every name fetched so far is mapped with all its rows
  or is the name of the group at hand, or is among the errors; `OneDatabase`,
  `GroupsComplete` and `AllRedefinitionsThrown` are what it says of the end. For
  `NoSpuriousRedefinition` each error needs an explanation (`ExplainedInv`), which rests on
  the order of rows (`OrderInv`): when a group ends, no row of its name is to come. That is
  so only if the collation by which a database sorts ties no names that middle keeps
  apart (`TiesNormalizeAlike`), and if columns are numbered from 1
  (`ColumnsNumbered`): hypotheses of that theorem about databases, which MCMapLoader
  assumes of the instance too.
- *MassMigrator.* `TornScriptIsLast` is inductive as it stands. `TypeInv` adds to the
  types that a target at work has one, and that messages of files only are where
  there are batches. `ScriptsInv`: a batch under way is of exactly the migratable files
  of its root that have been visited, and what is at work is of the files of its
  target; so every script is. `MsgsInv` is behind `MessagesOfFiles`: in a run with
  batches, what is hidden while a root is walked is what the migrations of the roots
  before it hide (`HiddenBefore`), so that all of a root's files are validated
  against the same foreign keys. `KeptInv`: a file that has been visited
  has a complete script, or is at work, or in the batch; a script that takes
  another's target is of a file with that target.
  `MessagesOrdered` rests on `StrictWeakOrder`, a fact about
  the comparison alone; `WarningsOfBatchUnordered` is its counterpart.
- *PrefsReader.* The invariant of `NoRuleLost` is about the elements before the
  cursor, and uses that an element is refused if its name is there. That of
  `RewriteValidated` is `RewriteInv`: every rule that has been read has a rewrite
  that was validated (or none); without escapes it is read as it stands
  (`NoEscapes`), so its placeholders are those validated.
- *MacroArgs and MacroExpander.* Texts, their quotes and their argument lists are recursive
  functions of positions. MacroArgs_proofs has induction over numbers, for sets (from
  `WFMin`, since the library's induction theorem takes an operator), and shows with it that
  these functions are defined (`OpenDef`, `ArgsUpToDef`, `FlattenDef`) and what they do. Its
  main notion is the window (`IsWindow`): a part of a text that begins outside
  quotes, in which all is as it would be in a text of its own.
  - A rewrite with escapes is read as another list of the same length: `ReadRewriteFacts`
    and `ReadRewriteCalls` say that it is a group of parentheses still, keeps its placeholders,
    and has no new quotes or names. So all theorems about calls hold with escapes, too, but
    `RewriteValidated`.
  - For `UnchangedKept`, `CopyInv` says that a pass over a text without macros has
    appended what it has read, with no quote open and no name cut in two; so a macro found
    next would be one of the whole default value.
  - `ExpanderInv` is behind `TypeOK`: rules are of texts, a rewrite is a group of
    parentheses as the reader validated it, and no quote is open where the pass goes on. It
    rests on `ExpanderReads`: each step reads to a place outside quotes, and
    appends a text.
  - `PairsInv` is behind `ParenthesesInPairs`: what has been appended leaves as many
    parentheses open as what has been read, and never closes one that is not
    (`Follows`). What is copied keeps that, and so does what replaces a macro, since both it
    and the call have their parentheses in pairs: the arguments, which are windows of the
    call between separators (`MacroArgTokensFacts`), and the rewrite with them in place of
    its placeholders (`RewrittenInPairs`).
  - `LiteralsInv` is behind `LiteralsKept`: what has been appended has the quoted tokens of
    what has been read. Those of a call are those of its arguments (`ArgLiterals`), for
    between them there are only separators and blanks; and those of what replaces it are of
    the arguments too, if each is used (`RewriteLiterals`).
  - `LeftInv` is behind `NoMacroLeft`. An expansion ends with a text that a pass has left as
    it was, so what must be excluded is that replacing macros makes the same text again.
    What has been appended has either gone another way than the text, or it is what has been
    read, without a macro in it, or it is shorter than that (`HasRead`). The last stays so: a
    macro's own name comes of no right-hand side or rewrite (the ranks of `IsAcyclic`), only
    out of the arguments of the call, and these end before the call does (`ArgEndsBefore`); so the
    name and the parenthesis after it can't come back at the place where they
    were (`OnlyInArgs`, `NotPutBack`).
    This needs that each text appended ends outside quotes, hence `QuotesClosed`. The macros of
    the default value itself are those of the text without its outer parentheses
    (`StrippedMacros`).

The invariants of the StnamesMigrator theorems were checked by TLC, on the instance of
the run and for two files, before they were proved.

The assumptions about constants give them their types. Those of the preferences say a
little more: any character of a value is a token (`RuleTextAssumption`), tokens of
different kinds are different and a range in a rewrite does not run backwards
(`TokenAssumption`; the parser of placeholders throws otherwise). TLC evaluates them on the
documents of the run.

Only model-checked: `RunEnds` and `Terminates`, since liveness and ENABLED are out of the
prover's reach. The second conjunct of a specification with fairness is dropped in the
proofs, which are about safety.

## What is not modelled

- Text: wording, layout, comments, file headers and line numbers. Tokens and
  sets stand for them, except where a property is about the text (separators).
- XML, JSON and regular expressions: libraries. A document is the set of nodes the
  parser delivers, a rule is what the reader accepts, a pattern is the set of paths it matches.
- ODBC: connecting, executing and fetching succeed or fail; buffers and their
  sizes are not modelled.
- Names: modules take names as parsed, except that names which are no DDL names
  normalize to the empty one.
- Renaming of types in DatatypeRules; it does not change sizes or the verdict.
- The escape after a placeholder (`$1\-`, `$1\2`), which lets a digit or a hyphen follow it.
- Rules with names of several words, which the expander never looks up (one of the
  built-in rules has such a name); they are keys that no `Upper` yields.
- The JSON and XML parsers, and exceptions out of them (one from a configuration file
  of options leaves `main` uncaught: `options.cc:99`).
- A target root that lies inside a source root, so that the walk may
  meet scripts of its own; and mirrored paths that are absolute, whose
  concatenation depends on the version of the file system library.
- Logging, version, option parsing, stream buffers, and the built-in rules (data).

## The plan

Done, in this order: CreateTable, DatatypeRules, StnamesMigrator (composed with
CreateTable), MapLoader, MassMigrator; then TableStatement and its refinement, MacroArgs,
MacroExpander and PrefsReader (composed with it), and MessageOrder.

Next, to extend the model:
1. *FileMigration*, an abstract specification of StnamesMigrator: a memoryless
   migration, each file's script a function of the file and the catalog. Shown to be
   implemented, with foreign keys left out (Stnames_file_order refutes it with them).
2. The program around all of this (`main.cc`, `options.cc`): which of its failures end
   it with a message, and which with an exception nobody catches.

Next, to prove: the refinement of 1. All invariants and action properties of the runs that
pass are proved.
