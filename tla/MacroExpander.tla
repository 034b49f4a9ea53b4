---------------------------- MODULE MacroExpander ----------------------------
(***************************************************************************)
(* The default value of a column, translated by the default value rules    *)
(* (ddl_table_migrator::expand_default_value_macro).  The expander reads   *)
(* the text from left to right and appends it to the next one, with the    *)
(* rules' right-hand sides in place of the macros; it does so again until  *)
(* a pass leaves the text as it is, which need not ever happen.            *)
(***************************************************************************)
EXTENDS MacroArgs

CONSTANTS
  Name,         \* what rules are keyed by
  Upper,        \* uc_string: the key of a word, in any case
  DefaultValue  \* the default values considered

ASSUME UpperAssumption == Upper \in [Word -> Name]
ASSUME DefaultValueAssumption == DefaultValue \subseteq Text \ {<< >>}

Rule == [macro_rhs : Text, has_args : BOOLEAN, argcnt : Nat, rewrite : Text]

VARIABLES
  default_value_rules,  \* the rules, by name
  expansion,            \* where the translation stands: see Expansion
  old_default_value,    \* the column's default value in the catalog
  macro_text,           \* the text of the current pass
  text_cit,             \* how much of it has been read
  appended_text,        \* what has been made of that
  expanded,             \* an earlier pass has changed the text
  default_value         \* the translation

passVars == << macro_text, text_cit, appended_text >>
expanderVars == << expansion, old_default_value, passVars, expanded, default_value >>

Expansion == {"idle", "pass", "done", "threw", "assert_failed"}

ExpanderInit ==
  /\ expansion = "idle" /\ old_default_value = << >>
  /\ macro_text = << >> /\ text_cit = 0 /\ appended_text = << >>
  /\ expanded = FALSE /\ default_value = << >>

-------------------------------------------------------------------------------
\* Parentheses at the ends are taken away, whether or not they are a pair.
Strippable(d, k) ==
  \A j \in 1..k : /\ Len(d) - 2 * (j - 1) > 2
                  /\ d[j] = "(" /\ d[Len(d) + 1 - j] = ")"
Stripped(d) ==
  LET k == Max({n \in 0..Len(d) : Strippable(d, n)})
  IN SubSeq(d, k + 1, Len(d) - k)

\* expand_default_value_macro begins.
BeginDefaultValue(d) ==
  /\ expansion' = "pass"
  /\ old_default_value' = d /\ macro_text' = Stripped(d)
  /\ text_cit' = 0 /\ appended_text' = << >>
  /\ expanded' = FALSE /\ default_value' = << >>

-------------------------------------------------------------------------------
\* One match of process_text, at the next token.

NextToken == macro_text[text_cit + 1]
InPass == expansion = "pass" /\ text_cit < Len(macro_text)

\* Append text for what is read up to position n.
AppendUpTo(n, text) ==
  /\ text_cit' = n /\ appended_text' = appended_text \o text
  /\ UNCHANGED << expansion, old_default_value, macro_text, expanded, default_value >>

CopyUpTo(n) == AppendUpTo(n, SubSeq(macro_text, text_cit + 1, n))

EndExpansion(result) ==
  /\ expansion' = result
  /\ UNCHANGED << old_default_value, passVars, expanded, default_value >>

CopyToken ==
  /\ InPass /\ NextToken \notin Word \cup Quote
  /\ CopyUpTo(text_cit + 1)

\* A quote is copied up to where it closes; if it doesn't, an exception leaves
\* the program.
QuoteEnds == {n \in (text_cit + 1)..Len(macro_text) :
                Open[macro_text][n].quote = ""}

CopyQuoted ==
  /\ InPass /\ NextToken \in Quote /\ QuoteEnds # {}
  /\ CopyUpTo(Min(QuoteEnds))

UnterminatedQuote ==
  /\ InPass /\ NextToken \in Quote /\ QuoteEnds = {}
  /\ EndExpansion("threw")

\* An SQL name ends where nothing continues it.  Rules have names of one word.
NameEnd ==
  Max({n \in (text_cit + 1)..Len(macro_text) :
         \A i \in (text_cit + 1)..n : macro_text[i] \in Word \cup Cont})
IsMacro == NameEnd = text_cit + 1 /\ Upper[NextToken] \in DOMAIN default_value_rules
RuleOfMacro == default_value_rules[Upper[NextToken]]

\* The text from the character after the name, where an argument list is
\* looked for if the rule has one.
AfterName == SubSeq(macro_text, NameEnd + 1, Len(macro_text))
IsCall == /\ RuleOfMacro.has_args
          /\ AfterName # << >> /\ AfterName[1] = "("

CopyName ==
  /\ InPass /\ NextToken \in Word /\ ~IsMacro
  /\ CopyUpTo(NameEnd)

ReplaceName ==
  /\ InPass /\ NextToken \in Word /\ IsMacro /\ ~IsCall
  /\ AppendUpTo(NameEnd, RuleOfMacro.macro_rhs)

CallArgs == MacroArgTokens[AfterName]

\* Append what a rule makes of the arguments of a call that ends at position n.
\* These are rewritten before they are counted.
AppendRewritten(n) ==
  /\ IsMacroArgs(AfterName) /\ Len(CallArgs) = RuleOfMacro.argcnt
  /\ \E rewrite \in ReadRewrites(RuleOfMacro.rewrite) :
       /\ FitsMacroArgs(rewrite, CallArgs)
       /\ AppendUpTo(n, RuleOfMacro.macro_rhs \o RewriteMacroArgs[<< rewrite, CallArgs >>])

\* Bug: the closing parenthesis is read again.
ReplaceCallParenKept ==
  /\ InPass /\ NextToken \in Word /\ IsMacro /\ IsCall
  /\ AppendRewritten(NameEnd + GroupEnd(AfterName) - 1)

ReplaceCall ==
  /\ InPass /\ NextToken \in Word /\ IsMacro /\ IsCall
  /\ AppendRewritten(NameEnd + GroupEnd(AfterName))

IllegalCall ==
  /\ InPass /\ NextToken \in Word /\ IsMacro /\ IsCall
  /\ \/ /\ ~IsMacroArgs(AfterName)
        /\ EndExpansion("threw")
     \/ /\ IsMacroArgs(AfterName)
        /\ \E rewrite \in ReadRewrites(RuleOfMacro.rewrite) :
             \/ /\ ~FitsMacroArgs(rewrite, CallArgs)
                /\ EndExpansion("assert_failed")
             \/ /\ FitsMacroArgs(rewrite, CallArgs) /\ Len(CallArgs) # RuleOfMacro.argcnt
                /\ EndExpansion("threw")

-------------------------------------------------------------------------------
\* expand_all_macros, at the end of a pass: without a macro in the first one
\* the default value is output with the parentheses it came with.
\*
\* Bugs: a single pass; the stripped text is output; a pass that changes
\* nothing is followed by another.
EndPassAfterFirst ==
  /\ expansion = "pass" /\ text_cit = Len(macro_text)
  /\ expansion' = "done"
  /\ default_value' = IF appended_text = macro_text THEN old_default_value
                                                    ELSE appended_text
  /\ UNCHANGED << old_default_value, passVars, expanded >>

EndPassStripped ==
  /\ expansion = "pass" /\ text_cit = Len(macro_text)
  /\ IF appended_text \in {macro_text, << >>}
       THEN /\ expansion' = "done" /\ default_value' = appended_text
            /\ UNCHANGED << passVars, expanded >>
       ELSE /\ macro_text' = appended_text /\ text_cit' = 0
            /\ appended_text' = << >> /\ expanded' = TRUE
            /\ UNCHANGED << expansion, default_value >>
  /\ UNCHANGED old_default_value

EndPassAgain ==
  /\ expansion = "pass" /\ text_cit = Len(macro_text)
  /\ IF appended_text = macro_text /\ ~expanded
       THEN /\ expansion' = "done" /\ default_value' = old_default_value
            /\ UNCHANGED << passVars, expanded >>
       ELSE /\ macro_text' = appended_text /\ text_cit' = 0
            /\ appended_text' = << >> /\ expanded' = TRUE
            /\ UNCHANGED << expansion, default_value >>
  /\ UNCHANGED old_default_value

EndPass ==
  /\ expansion = "pass" /\ text_cit = Len(macro_text)
  /\ \/ /\ appended_text = macro_text /\ expansion' = "done"
        /\ default_value' = IF expanded THEN macro_text ELSE old_default_value
        /\ UNCHANGED << passVars, expanded >>
     \/ /\ appended_text # macro_text /\ appended_text = << >>
        /\ expansion' = "done" /\ default_value' = << >>
        /\ UNCHANGED << passVars, expanded >>
     \/ /\ appended_text \notin {macro_text, << >>}
        /\ macro_text' = appended_text /\ text_cit' = 0
        /\ appended_text' = << >> /\ expanded' = TRUE
        /\ UNCHANGED << expansion, default_value >>
  /\ UNCHANGED old_default_value

ExpandDefaultValue ==
  \/ CopyToken \/ CopyQuoted \/ UnterminatedQuote \/ CopyName
  \/ ReplaceName \/ ReplaceCall \/ IllegalCall \/ EndPass

-------------------------------------------------------------------------------
ExpanderTypeOK ==
  /\ expansion \in Expansion
  /\ old_default_value \in DefaultValue \cup {<< >>}
  /\ macro_text \in Text /\ appended_text \in Text
  /\ text_cit \in 0..Len(macro_text)
  /\ expanded \in BOOLEAN
  /\ default_value \in Text

\* The macros of a text: names of rules outside quotes that are not part of a
\* longer name.  Names begin with a letter: "_hello" is "_" and a name.
Macros(s) ==
  {i \in Unmasked(s) :
     /\ s[i] \in Word /\ Upper[s[i]] \in DOMAIN default_value_rules
     /\ \A j \in 1..(i - 1) : s[j] \in Word => \E k \in j..i : s[k] \notin Word \cup Cont
     /\ i < Len(s) => s[i + 1] \notin Word \cup Cont}

\* The rules a rule's right-hand side or rewrite leads to.
Mentions(n) ==
  LET rule == default_value_rules[n]
  IN {Upper[w] : w \in Word \cap
        {(rule.macro_rhs \o rule.rewrite)[i] : i \in DOMAIN (rule.macro_rhs \o rule.rewrite)}}
     \cap DOMAIN default_value_rules

\* No rule leads back to itself, and none makes a call of its argument.
IsAcyclic ==
  /\ \E rank \in [DOMAIN default_value_rules -> 1..Cardinality(DOMAIN default_value_rules)] :
       \A n \in DOMAIN default_value_rules : \A m \in Mentions(n) : rank[m] < rank[n]
  /\ \A n \in DOMAIN default_value_rules :
       LET rewrite == default_value_rules[n].rewrite
       IN \A i \in 1..(Len(rewrite) - 1) :
            rewrite[i] \in DOMAIN Placeholder => rewrite[i + 1] # "("

(***************************************************************************)
(* A translated default value has no macro left in it, however they were   *)
(* nested or come of one another (expand_all_macros), if rules don't lead  *)
(* back to themselves and leave no quote open: what follows a quote left   *)
(* open is taken for a string by the next pass, and a pass can then make   *)
(* of a text with macros that very text, and end the expansion.            *)
(***************************************************************************)
QuotesClosed ==
  \A n \in DOMAIN default_value_rules :
    LET rhs == default_value_rules[n].macro_rhs IN Open[rhs][Len(rhs)].quote = ""

NoMacroLeft ==
  expansion = "done" /\ IsAcyclic /\ QuotesClosed => Macros(default_value) = {}

(***************************************************************************)
(* RUNNING.md: "Only SQL names are translated".  A default value without a *)
(* macro is output as it was, with its parentheses, although they are      *)
(* taken away for the search (expand_default_value_macro).                 *)
(***************************************************************************)
UnchangedKept ==
  expansion = "done" /\ Macros(old_default_value) = {} =>
    default_value = old_default_value

(***************************************************************************)
(* Rewriting keeps SQL strings whole: a translated default value has the   *)
(* quoted tokens of the original and no others, whichever arguments they   *)
(* were in and however these have been moved, if the rules use each of     *)
(* their arguments, have no ranges without limit and no quotes             *)
(* (expand_macro_args, rewrite_arg_placeholder).                           *)
(***************************************************************************)
UsesAllArgs(rule) ==
  /\ \A i \in DOMAIN (rule.macro_rhs \o rule.rewrite) :
       (rule.macro_rhs \o rule.rewrite)[i] \notin Quote
  /\ \A n \in 1..rule.argcnt :
       rule.rewrite # << >> /\ \E ph \in Placeholders(rule.rewrite) :
                                 n = ph.number \/ n \in ph.number..ph.range_end

LiteralsKept ==
  /\ expansion = "done"
  /\ \A n \in DOMAIN default_value_rules : UsesAllArgs(default_value_rules[n])
  => Literals(default_value) = Literals(old_default_value)

(***************************************************************************)
(* Parentheses stay in pairs: a default value whose outer parentheses are  *)
(* a pair, as those that SQL Server adds are, has them in pairs when it is *)
(* translated by rules that have (the group_cnt of macro_args_expander).   *)
(***************************************************************************)
RulesInPairs ==
  \A n \in DOMAIN default_value_rules :
    InPairs(default_value_rules[n].macro_rhs) /\ InPairs(default_value_rules[n].rewrite)

ParenthesesInPairs ==
  expansion = "done" /\ RulesInPairs
  /\ InPairs(old_default_value) /\ InPairs(Stripped(old_default_value))
  => InPairs(default_value)

(***************************************************************************)
(* RUNNING.md:209: "Only SQL names are translated".  Whatever parentheses  *)
(* a default value begins and ends with, what is made of one that has them *)
(* in pairs has them in pairs.  Violated: in ((1)+(hello)), the inner ones *)
(* at the ends are no pair, and are taken away all the same.               *)
(***************************************************************************)
ParenthesesKept ==
  expansion = "done" /\ RulesInPairs /\ InPairs(old_default_value)
  => InPairs(default_value)
===============================================================================
