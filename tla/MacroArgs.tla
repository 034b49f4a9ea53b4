------------------------------ MODULE MacroArgs ------------------------------
(***************************************************************************)
(* Texts, and the argument lists of macro calls in them: how an argument   *)
(* list is found and split (basic_macro_args_expander, on top of the       *)
(* basic_text_processor), and how a rule rewrites it                       *)
(* (macro_args_rewriter).  A text is a sequence of tokens; quotes mask     *)
(* what is between them, comments are rejected.                            *)
(***************************************************************************)
EXTENDS Integers, Sequences, FiniteSets, SequencesExt

CONSTANTS
  Word,        \* tokens that begin an SQL name (letters)
  Cont,        \* tokens that can only continue one (digits, "_")
  Other,       \* tokens without a meaning here
  Placeholder  \* the placeholders of rewrites, such as "$1" or "$2-3", and
               \* what they mean (parse_macro_args_placeholder): the number
               \* is 0 for malformed ones, range_end for ranges without limit;
               \* also all that the numbers that are never set may be: see
               \* ReadRewrites

Quote == {"'", "\""}
Comment == {"/*", "--"}
Punctuation == Quote \cup Comment \cup {"\\", "(", ")", ",", " "}
Token == Word \cup Cont \cup Other \cup DOMAIN Placeholder \cup Punctuation
Text == Seq(Token)

ASSUME TokenAssumption ==
  /\ Placeholder \in [DOMAIN Placeholder -> [number : Nat, range_end : Nat]]
  /\ \A p \in DOMAIN Placeholder : Placeholder[p].range_end # 0 =>
       Placeholder[p].number <= Placeholder[p].range_end
  /\ (Word \cup Cont \cup DOMAIN Placeholder \cup Other) \cap Punctuation = {}
  /\ Word \cap (Cont \cup Other \cup DOMAIN Placeholder) = {}

-------------------------------------------------------------------------------
\* Quotes (basic_quote_matcher) and groups of parentheses outside them.  In a
\* quote, a backslash escapes the token after it, as it does not in SQL, where
\* only a doubled quote stands for a quote.

OpenAt == [quote : {""} \cup Quote, escaped : BOOLEAN, groups : Int]
NothingOpen == [quote |-> "", escaped |-> FALSE, groups |-> 0]

NextOpen[at \in OpenAt \X Token] ==
  LET open == at[1]
      c == at[2]
  IN CASE open.quote = "" /\ c \in Quote -> [open EXCEPT !.quote = c]
       [] open.quote = "" /\ c = "("      -> [open EXCEPT !.groups = @ + 1]
       [] open.quote = "" /\ c = ")"      -> [open EXCEPT !.groups = @ - 1]
       [] open.quote # "" /\ open.escaped -> [open EXCEPT !.escaped = FALSE]
       [] open.quote # "" /\ ~open.escaped /\ c = "\\"       -> [open EXCEPT !.escaped = TRUE]
       [] open.quote # "" /\ ~open.escaped /\ c = open.quote -> [open EXCEPT !.quote = ""]
       [] OTHER -> open

\* What is open after each number of tokens.
Open[s \in Text] ==
  LET open[n \in 0..Len(s)] ==
        IF n = 0 THEN NothingOpen ELSE NextOpen[<< open[n - 1], s[n] >>]
  IN open

\* The positions outside quotes (which are inside, with what they enclose).
Unmasked(s) == {i \in DOMAIN s : Open[s][i - 1].quote = "" /\ Open[s][i].quote = ""}

-------------------------------------------------------------------------------
\* Argument lists.  s is the text from the character after the macro's name.

Depth(s, n) == Open[s][n].groups

Closers(s) == {n \in Unmasked(s) : s[n] = ")" /\ Depth(s, n) = 0}
GroupEnd(s) == Min(Closers(s))

Trim[s \in Text] ==
  LET kept == {i \in DOMAIN s : s[i] # " "}
  IN IF kept = {} THEN << >> ELSE SubSeq(s, Min(kept), Max(kept))

Separators(s) ==
  {1, GroupEnd(s)} \cup
  {i \in Unmasked(s) : s[i] = "," /\ Depth(s, i) = 1 /\ i < GroupEnd(s)}

\* process_match: the arguments up to each position, one more at each
\* separator, without blanks around it.
ArgsUpTo[s \in Text] ==
  LET separators == Separators(s)
      args[n \in DOMAIN s] ==
        IF n = 1 THEN << >>
        ELSE IF n \notin separators THEN args[n - 1]
        ELSE Append(args[n - 1],
                    Trim[SubSeq(s, Max({i \in separators : i < n}) + 1, n - 1)])
  IN args

\* A list with nothing in it has none.
MacroArgTokens[s \in Text] ==
  LET tokens == ArgsUpTo[s][GroupEnd(s)]
  IN IF tokens = << << >> >> THEN << >> ELSE tokens

\* Otherwise the text is malformed or rejected, and an exception thrown.
IsMacroArgs(s) ==
  /\ s # << >> /\ s[1] = "("
  /\ Closers(s) # {}
  /\ \A i \in Unmasked(s) : s[i] \in Comment => i > GroupEnd(s)
  /\ \A k \in DOMAIN MacroArgTokens[s] : MacroArgTokens[s][k] # << >>

-------------------------------------------------------------------------------
\* Rewriting.

Joined[texts \in Seq(Text)] ==
  FlattenSeq([k \in DOMAIN texts |->
                IF k = 1 THEN texts[k] ELSE << ",", " " >> \o texts[k]])

\* The placeholders of a rewrite; after the end of its list nothing is read.
Placeholders(rewrite) ==
  {Placeholder[rewrite[i]] :
     i \in {j \in Unmasked(rewrite) : /\ j < GroupEnd(rewrite)
                                      /\ rewrite[j] \in DOMAIN Placeholder}}

\* A backslash before a placeholder is matched as an escape, which is neither
\* validated nor skipped: it is rewritten as a placeholder whose numbers are
\* never set, and the placeholder after it is rewritten, too.
Escapes(rewrite) ==
  {i \in Unmasked(rewrite) : /\ rewrite[i] = "\\" /\ i < GroupEnd(rewrite)
                             /\ rewrite[i + 1] \in DOMAIN Placeholder}

\* What a rewrite is read as, with some placeholder for each escape.
ReadRewrites(rewrite) ==
  {[i \in DOMAIN rewrite |-> IF i \in Escapes(rewrite) THEN unset[i] ELSE rewrite[i]] :
     unset \in [Escapes(rewrite) -> DOMAIN Placeholder]}

\* The assertions of rewrite_arg_placeholder.
FitsMacroArgs(rewrite, args) ==
  \A ph \in Placeholders(rewrite) :
    /\ ph.number \in DOMAIN args
    /\ ph.range_end # 0 => ph.range_end \in DOMAIN args /\ ph.number <= ph.range_end

\* Bug: the last argument of a range is left out.
RewrittenRangeShort(ph, args) ==
  IF ph.range_end > ph.number
    THEN Joined[SubSeq(args, ph.number, ph.range_end - 1)]
    ELSE args[ph.number]

\* A range without a limit stands for its first argument only.
RewrittenPlaceholder(ph, args) ==
  IF ph.range_end > ph.number
    THEN Joined[SubSeq(args, ph.number, ph.range_end)]
    ELSE args[ph.number]

RewrittenArg[at \in Text \X Seq(Text)] ==
  LET arg == at[1]
      unmasked == Unmasked(arg)
  IN FlattenSeq([i \in DOMAIN arg |->
       IF arg[i] \in DOMAIN Placeholder /\ i \in unmasked
         THEN RewrittenPlaceholder(Placeholder[arg[i]], at[2])
         ELSE << arg[i] >>])

RewriteMacroArgs[at \in Text \X Seq(Text)] ==
  LET rewrite == at[1]
      tokens == MacroArgTokens[rewrite]
      rewritten == [k \in DOMAIN tokens |-> RewrittenArg[<< tokens[k], at[2] >>]]
  IN IF rewrite = << >> THEN << >>
                        ELSE << "(" >> \o Joined[rewritten] \o << ")" >>

-------------------------------------------------------------------------------
\* The quoted tokens of a text, with the quotes.
Literals(s) == {s[i] : i \in DOMAIN s \ Unmasked(s)}

\* Texts with their parentheses in pairs, and without a quote left open.
InPairs(s) ==
  /\ Depth(s, Len(s)) = 0 /\ Open[s][Len(s)].quote = ""
  /\ \A n \in 1..Len(s) : Depth(s, n) >= 0
===============================================================================
