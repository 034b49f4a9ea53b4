---------------------------- MODULE MCPrefsReader ----------------------------
(***************************************************************************)
(* PrefsReader with preferences of up to three default value rules: names, *)
(* calls with and without rewrites, ranges, rules that lead to others and  *)
(* (harmlessly) to themselves, and structures that the reader refuses or   *)
(* runs past; and with all short default values and some longer ones.      *)
(***************************************************************************)
EXTENDS PrefsReader, TLC

CONSTANT MaxLength

MCWord == {"hello", "Hello", "there", "cv", "getdate"}
MCCont == {"1", "_"}
MCOther == {"+"}
Ph(number, range_end) == [number |-> number, range_end |-> range_end]
MCPlaceholder == ("$0" :> Ph(0, 0)) @@ ("$1" :> Ph(1, 1)) @@ ("$2" :> Ph(2, 2))
                 @@ ("$1-2" :> Ph(1, 2)) @@ ("$1-" :> Ph(1, 0))

MCUpper == [w \in MCWord |-> IF w = "Hello" THEN "HELLO" ELSE
              CASE w = "hello" -> "HELLO" [] w = "there" -> "THERE"
                [] w = "cv" -> "CV"       [] w = "getdate" -> "GETDATE"]
MCName == {"HELLO", "THERE", "CV", "GETDATE"}

Node(node) == Structure("", node)

-------------------------------------------------------------------------------
\* Default value rules.

Replace(lhs, rhs) ==
  Node(<< Child("macro_lhs", << lhs >>), Child("macro_rhs", rhs) >>)
Call(lhs, rhs, macro_args) ==
  Node(<< Child("macro_lhs", << lhs >>), Child("macro_rhs", rhs),
              Structure("macro_args", macro_args) >>)
Rewrite(lhs, rhs, argcnt, rewrite) ==
  Call(lhs, rhs, << Number("argcnt", argcnt), Child("rewrite", rewrite) >>)
GetDate == Call("getdate", << "there" >>, << Number("argcnt", 0) >>)
Hello == Replace("hello", << "there" >>)

GoodDefaultValueRules == {
  << Hello, GetDate >>,
  << Rewrite("cv", << "+" >>, 2, << "(", "$2", ",", " ", "$1", ")" >>), Hello >>,
  << Rewrite("cv", << "getdate" >>, 2, << "(", "+", "(", "$1-2", ")", ")" >>),
     Rewrite("hello", << >>, 1, << "(", "$1", ")" >>) >>,
  << Replace("hello", << "there", "1" >>), Replace("cv", << "hello", "(", ")" >>),
     Rewrite("there", << "hello" >>, 1, << "(", "cv", ",", "$1", ")" >>) >>,
  << Replace("hello", << "there" >>), Replace("there", << "hello" >>) >>,
  << Replace("hello", << >>), Rewrite("cv", << "hello" >>, 1, << "(", "$1-", ")" >>) >>,
  << Hello, Rewrite("cv", << "+" >>, 1, << "(", "\\", "$1", ")" >>) >>}

BadDefaultValueRules == {
  << >>, << Child("", << "hello" >>) >>,
  << Hello, Replace("Hello", << "cv" >>) >>,
  << Node(<< Child("macro_lhs", << >>), Child("macro_rhs", << "cv" >>) >>) >>,
  << Node(<< Child("macro_lhs", << "hello" >>) >>) >>,
  << Node(<< Child("macro_rhs", << "hello" >>) >>) >>,
  << Node(<< Child("macro_lhs", << "hello" >>), Structure("macro_rhs", Hello.node) >>) >>,
  << Node(Hello.node \o << Child("macro_args", << >>) >>) >>,
  << Node(GetDate.node \o << Child("macro_args", << >>) >>) >>,
  << Call("cv", << "+" >>, << Number("arg_count", 0) >>) >>,
  << Call("cv", << "+" >>, << Number("argcnt", -1) >>) >>,
  << Call("cv", << "+" >>, << Number("argcnt", NotAnInt32) >>) >>,
  << Call("cv", << "+" >>, << Number("argcnt", 1), Child("rewrite", << >>) >>) >>,
  << Call("cv", << "+" >>, << Number("argcnt", 1), Child("rewrite", << "(", "$1", ")" >>),
                              Child("rewrite", << "(", "$1", ")" >>) >>) >>}
  \cup
  {<< Rewrite("cv", << "+" >>, 1, rewrite) >> :
     rewrite \in {<< "(", "$2", ")" >>, << "(", "$1-2", ")" >>, << "(", "$0", ")" >>,
                  << "(", "$1" >>, << "(", "$1", ",", ")" >>, << "(", "--", "$1", ")" >>,
                  << "cv" >>, << "'", "'" >>, << "$1", "(", ")" >>, << "\\", "$1" >>,
                  << "\\", "(", ")" >>, << "(", "\\", "$2", ")" >>}}

\* Datatype rules.

Type(type) == Child("type", << type >>)
ScaleSub(action) == Child("type", << "scale_", action >>)
Datatype(name, node) ==
  Node(<< Child("type_name", << name >>), Structure("datatype", node) >>)
Sizes(nodes) == Structure("map_sizes", [k \in DOMAIN nodes |-> Node(nodes[k])])

Narrow == << Type("narrow"), Number("range_min", 1), Number("range_max", 10) >>
Scale == << ScaleSub("assign"), Number("range_max", 4), Number("new_value", 2) >>

GoodDatatypeRules == {
  << Datatype("hello", << Type("rejected") >>),
     Datatype("there", << Type("unsized"), Child("map_name", << "cv" >>) >>) >>,
  << Datatype("hello", << Type("precision_scale"), Child("map_name", << "cv" >>),
                          Sizes(<< << Type("suppress") >>, Narrow, Scale >>) >>),
     Datatype("cv", << Type("char_length"), Sizes(<< Narrow, Scale >>) >>) >>}

BadDatatypeRules == {
  << >>, << Child("", << "hello" >>) >>,
  << Datatype("hello", << Type("unsized") >>), Datatype("Hello", << Type("rejected") >>) >>,
  << Node(<< Child("type_name", << >>), Structure("datatype", << Type("unsized") >>) >>) >>,
  << Node(<< Child("type_name", << "hello" >>) >>) >>,
  << Node(Datatype("hello", << Type("unsized") >>).node \o << Type("unsized") >>) >>}
  \cup
  {<< Datatype("hello", node) >> :
     node \in {<< Type("no type") >>, << Child("map_name", << "cv" >>) >>,
               << Type("unsized"), Type("unsized") >>,
               << Type("unsized"), Child("map_name", << >>) >>,
               << Type("char_length"), Structure("map_sizes", << >>) >>,
               << Type("char_length"), Sizes(<< << >> >>) >>,
               << Type("char_length"), Sizes(<< Narrow >>), Type("unsized") >>}
              \cup
              {<< Type("char_length"), Sizes(sizes) >> :
                 sizes \in {<< Scale, Narrow >>, << Tail(Narrow) >>,
                            << << Type("no type") >> >>,
                            << << Type("narrow"), Number("range_min", NotAnInt32) >> >>,
                            << << Type("narrow"), Number("new_value", 1),
                                  Number("range_min", 0) >> >>}}}

MCDocument ==
  LET documents(D, R) ==
        {[datatype_rules |-> d, default_value_rules |-> r] : d \in D, r \in R}
  IN documents(GoodDatatypeRules, GoodDefaultValueRules)
     \cup documents(BadDatatypeRules, {<< Hello >>})
     \cup documents({CHOOSE d \in GoodDatatypeRules : TRUE}, BadDefaultValueRules)

-------------------------------------------------------------------------------
\* All short texts of these tokens, and texts with what takes more: nested
\* calls and parentheses, quoted and escaped quotes, comments, blanks.

ShortTexts == UNION {[1..n -> {"(", ")", ",", "'", "hello", "cv", "1"}] : n \in 1..MaxLength}

LongTexts == {
  << "(", "(", "hello", ")", ")" >>,
  << "(", "(", "1", ")", "+", "(", "1", ")", ")" >>,
  << "(", "(", "1", ")", "+", "(", "hello", ")", ")" >>,
  << "_", "hello" >>, << "hello", "_" >>, << "(", "Hello", " ", ")" >>,
  << "getdate", "(", ")" >>, << "getdate", " ", "(", ")" >>, << "getdate" >>,
  << "(", "getdate", "(", " ", ")", ")" >>, << "getdate", "(", "1", ")" >>,
  << "cv", "(", "1", ",", "hello", ")" >>, << "cv", "(", "1", ",", ",", "1", ")" >>,
  << "cv", "(", "hello", "(", "1", ",", "1", ")", ",", "'", ")", "'", ")", "+" >>,
  << "cv", "(", "cv", "(", "1", ",", "'", "cv", "'", ")", ",", " ", "hello", " ", ")" >>,
  << "cv", "(", "'", "\\", "'", "'", ",", "\"", "'", "\"", ")" >>,
  << "cv", "(", "1", ",", "--", "1", ")" >>, << "hello", "--", "hello" >>,
  << "'", "\\", "'" >>, << "there", "(", "hello", "(", "1", ")", ")" >>}

MCDefaultValue == ShortTexts \cup LongTexts
===============================================================================
