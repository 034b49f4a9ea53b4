--------------------------- MODULE MacroArgs_proofs ---------------------------
(***************************************************************************)
(* Facts about texts and argument lists, of any length.                    *)
(*                                                                         *)
(* Open, which is recursive, is defined and goes from each token to the    *)
(* next; quotes begin and end at quote tokens only, and in a window of a   *)
(* text that begins outside quotes all is as in the window alone.  An      *)
(* argument list is split into windows that have their parentheses in      *)
(* pairs, and so has what a rewrite makes of them, with the quoted tokens  *)
(* of those that it uses; a name that the rewrite does not have comes of   *)
(* an argument then, which ends before the list does.  These facts rest on *)
(* induction over numbers, which is stated for sets here, for the          *)
(* library's theorem takes an operator.                                    *)
(***************************************************************************)
EXTENDS MacroArgs, WellFoundedInduction, TLAPS

-------------------------------------------------------------------------------
\* Induction over numbers, for a set: what contains 0 and the successor of each
\* of its members contains all.
LEMMA LeastNumber ==
  ASSUME NEW T, T \subseteq Nat, T # {}
  PROVE  \E n \in T : \A m \in T : n <= m
<1> DEFINE Less == {p \in Nat \X Nat : p[1] < p[2]}
<1>1. IsWellFoundedOn(Less, Nat)
  BY NatLessThanWellFounded, Zenon DEF OpToRel
<1>2. PICK n \in T : \A m \in T : ~(<< m, n >> \in Less)
  <2> HIDE DEF Less
  <2> QED
    BY <1>1, WFMin
<1>3. ASSUME NEW m \in T PROVE n <= m
  <2>1. m \in Nat /\ n \in Nat
    OBVIOUS
  <2>2. ~(m < n)
    BY <1>2, <2>1
  <2> QED
    BY <2>1, <2>2
<1> QED
  BY <1>3

LEMMA NumbersInductive ==
  ASSUME NEW S, 0 \in S, \A n \in Nat : n \in S => n + 1 \in S
  PROVE  Nat \subseteq S
<1> DEFINE Missing == {n \in Nat : n \notin S}
<1>1. ASSUME Missing # {} PROVE FALSE
  <2>1. PICK n \in Missing : \A m \in Missing : n <= m
    BY <1>1, LeastNumber
  <2>2. n # 0 /\ n - 1 \in Nat /\ n - 1 \notin Missing
    BY <2>1
  <2> QED
    BY <2>1, <2>2
<1> QED
  BY <1>1

LEMMA MaxExists ==
  ASSUME NEW T, T \subseteq Nat, T # {}, NEW b \in Nat, \A n \in T : n <= b
  PROVE  Max(T) \in T /\ \A n \in T : n <= Max(T)
<1> DEFINE Below == {n \in Nat : \A m \in T : m <= n}
<1>1. PICK n \in Below : \A m \in Below : n <= m
  <2>1. b \in Below
    OBVIOUS
  <2> HIDE DEF Below
  <2> QED
    BY <2>1, LeastNumber DEF Below
<1>2. n \in T
  <2> SUFFICES ASSUME n \notin T PROVE FALSE
    OBVIOUS
  <2>1. n # 0
    <3>1. PICK m \in T : TRUE
      OBVIOUS
    <3> QED
      BY <1>1, <3>1
  <2>2. n - 1 \in Below
    BY <1>1, <2>1
  <2> QED
    BY <1>1, <2>2
<1>3. \A m \in T : n >= m
  BY <1>1
<1>4. \E x \in T : \A y \in T : x >= y
  BY <1>2, <1>3
<1>5. Max(T) \in T /\ \A y \in T : Max(T) >= y
  BY <1>4, Zenon DEF Max
<1> QED
  BY <1>5

LEMMA MinExists ==
  ASSUME NEW T, T \subseteq Nat, T # {}
  PROVE  Min(T) \in T /\ \A n \in T : Min(T) <= n
<1>1. \E x \in T : \A y \in T : x <= y
  BY LeastNumber
<1> QED
  BY <1>1, Zenon DEF Min

-------------------------------------------------------------------------------
\* NextOpen of a state and a token.
After(open, c) ==
  CASE open.quote = "" /\ c \in Quote -> [open EXCEPT !.quote = c]
    [] open.quote = "" /\ c = "("      -> [open EXCEPT !.groups = @ + 1]
    [] open.quote = "" /\ c = ")"      -> [open EXCEPT !.groups = @ - 1]
    [] open.quote # "" /\ open.escaped -> [open EXCEPT !.escaped = FALSE]
    [] open.quote # "" /\ ~open.escaped /\ c = "\\"       -> [open EXCEPT !.escaped = TRUE]
    [] open.quote # "" /\ ~open.escaped /\ c = open.quote -> [open EXCEPT !.quote = ""]
    [] OTHER -> open

LEMMA NextOpenAfter ==
  ASSUME NEW open \in OpenAt, NEW c \in Token
  PROVE  NextOpen[<< open, c >>] = After(open, c)
<1>1. << open, c >> \in OpenAt \X Token /\ << open, c >>[1] = open /\ << open, c >>[2] = c
  OBVIOUS
<1>2. ASSUME NEW at \in OpenAt \X Token PROVE NextOpen[at] = After(at[1], at[2])
  BY Zenon DEF NextOpen, After
<1> QED
  BY <1>1, <1>2

LEMMA GroupsChanged ==
  ASSUME NEW open \in OpenAt, NEW n \in Int
  PROVE  [open EXCEPT !.groups = n] \in OpenAt
  BY DEF OpenAt

LEMMA AfterType ==
  ASSUME NEW open \in OpenAt, NEW c \in Token
  PROVE  After(open, c) \in OpenAt
<1>1. /\ open.quote \in {""} \cup Quote /\ open.escaped \in BOOLEAN /\ open.groups \in Int
      /\ open = [quote |-> open.quote, escaped |-> open.escaped, groups |-> open.groups]
  BY DEF OpenAt
<1> DEFINE groups == open.groups
<1>0. groups + 1 \in Int /\ groups - 1 \in Int
  <2>1. groups \in Int
    BY <1>1
  <2> HIDE DEF groups
  <2> QED
    BY <2>1
<1>2. CASE open.quote = ""
  <2>1. CASE c \in Quote
    <3>1. c # "(" /\ c # ")"
      BY <2>1 DEF Quote
    <3>2. After(open, c) = [open EXCEPT !.quote = c]
      BY <1>2, <2>1, <3>1 DEF After
    <3> QED
      BY <1>1, <2>1, <3>2 DEF OpenAt
  <2>2. CASE c = "("
    <3>1. After(open, c) = [open EXCEPT !.groups = open.groups + 1]
      BY <1>2, <2>2 DEF After, Quote
    <3> QED
      BY <1>0, <3>1, GroupsChanged
  <2>3. CASE c = ")"
    <3>1. After(open, c) = [open EXCEPT !.groups = open.groups - 1]
      BY <1>2, <2>3 DEF After, Quote
    <3> QED
      BY <1>0, <3>1, GroupsChanged
  <2>4. CASE c \notin Quote \cup {"(", ")"}
    <3>1. After(open, c) = open
      BY <1>2, <2>4 DEF After
    <3> QED
      BY <3>1
  <2> QED
    BY <2>1, <2>2, <2>3, <2>4
<1>3. CASE open.quote # "" /\ open.escaped
  BY <1>1, <1>3 DEF After, OpenAt
<1>4. CASE open.quote # "" /\ ~open.escaped
  BY <1>1, <1>4 DEF After, OpenAt
<1> QED
  BY <1>2, <1>3, <1>4

LEMMA TextLength ==
  ASSUME NEW s \in Text
  PROVE  Len(s) \in Nat /\ DOMAIN s = 1..Len(s) /\ \A i \in 1..Len(s) : s[i] \in Token
  BY DEF Text

Step(open, c) == NextOpen[<< open, c >>]

LEMMA StepType ==
  ASSUME NEW open \in OpenAt, NEW c \in Token
  PROVE  Step(open, c) \in OpenAt
  BY NextOpenAfter, AfterType DEF Step

IsOpen(f, s, n) ==
  /\ f \in [0..n -> OpenAt]
  /\ f[0] = NothingOpen
  /\ \A i \in 1..n : f[i] = Step(f[i - 1], s[i])

LEMMA OpenExists ==
  ASSUME NEW s \in Text
  PROVE  \E f : IsOpen(f, s, Len(s))
<1> DEFINE S == {n \in Nat : n <= Len(s) => \E f : IsOpen(f, s, n)}
<1>1. 0 \in S
  <2>1. IsOpen([i \in 0..0 |-> NothingOpen], s, 0)
    BY DEF IsOpen, NothingOpen, OpenAt
  <2> QED
    BY <2>1
<1>2. ASSUME NEW n \in Nat, n \in S PROVE n + 1 \in S
  <2> SUFFICES ASSUME n + 1 <= Len(s) PROVE \E f : IsOpen(f, s, n + 1)
    OBVIOUS
  <2>1. PICK f : IsOpen(f, s, n)
    BY <1>2
  <2> DEFINE g == [i \in 0..(n + 1) |-> IF i <= n THEN f[i] ELSE Step(f[n], s[n + 1])]
  <2>2. s[n + 1] \in Token
    BY DEF Text
  <2>3. f[n] \in OpenAt
    BY <2>1 DEF IsOpen
  <2>4. Step(f[n], s[n + 1]) \in OpenAt
    BY <2>2, <2>3, StepType
  <2>5. IsOpen(g, s, n + 1)
    BY <2>1, <2>4 DEF IsOpen
  <2> QED
    BY <2>5
<1> HIDE DEF S
<1>3. Nat \subseteq S
  BY <1>1, <1>2, NumbersInductive
<1>4. Len(s) \in S
  BY <1>3 DEF Text
<1> QED
  BY <1>4 DEF S, Text

LEMMA OpenDef ==
  ASSUME NEW s \in Text
  PROVE  IsOpen(Open[s], s, Len(s))
<1>1. PICK f : IsOpen(f, s, Len(s))
  BY OpenExists
<1>2. f = [n \in 0..Len(s) |-> IF n = 0 THEN NothingOpen ELSE Step(f[n - 1], s[n])]
  BY <1>1 DEF IsOpen, Text
<1> DEFINE open[n \in 0..Len(s)] ==
        IF n = 0 THEN NothingOpen ELSE NextOpen[<< open[n - 1], s[n] >>]
<1>3. open = [n \in 0..Len(s) |-> IF n = 0 THEN NothingOpen ELSE Step(open[n - 1], s[n])]
  BY <1>2 DEF Step
<1>4. Open[s] = open
  BY DEF Open
<1>5. IsOpen(open, s, Len(s))
  <2> HIDE DEF open
  <2>1. Len(s) \in Nat /\ DOMAIN open = 0..Len(s) /\ open[0] = NothingOpen
    BY <1>3 DEF Text
  <2>2. \A n \in 1..Len(s) : open[n] = Step(open[n - 1], s[n]) /\ s[n] \in Token
    BY <1>3 DEF Text
  <2> DEFINE S == {n \in Nat : n <= Len(s) => open[n] \in OpenAt}
  <2>3. 0 \in S
    <3>1. NothingOpen \in OpenAt
      BY DEF NothingOpen, OpenAt
    <3> QED
      BY <2>1, <3>1
  <2>4. ASSUME NEW n \in Nat, n \in S PROVE n + 1 \in S
    BY <2>1, <2>2, <2>4, StepType
  <2> HIDE DEF S
  <2>5. Nat \subseteq S
    BY <2>3, <2>4, NumbersInductive
  <2>6. \A n \in 0..Len(s) : open[n] \in OpenAt
    BY <2>1, <2>5 DEF S
  <2> QED
    BY <1>3, <2>1, <2>2, <2>6 DEF IsOpen
<1> QED
  BY <1>4, <1>5

\* The facts of it that are needed.
LEMMA OpenSteps ==
  ASSUME NEW s \in Text
  PROVE  /\ Len(s) \in Nat /\ DOMAIN s = 1..Len(s)
         /\ \A i \in 1..Len(s) : s[i] \in Token
         /\ \A i \in 0..Len(s) : Open[s][i] \in OpenAt
         /\ Open[s][0] = NothingOpen
         /\ \A i \in 0..(Len(s) - 1) : Open[s][i + 1] = After(Open[s][i], s[i + 1])
<1>1. IsOpen(Open[s], s, Len(s))
  BY OpenDef
<1>2. Len(s) \in Nat /\ DOMAIN s = 1..Len(s) /\ \A i \in 1..Len(s) : s[i] \in Token
  BY DEF Text
<1>3. ASSUME NEW i \in 0..(Len(s) - 1)
      PROVE  Open[s][i + 1] = After(Open[s][i], s[i + 1])
  <2>1. i + 1 \in 1..Len(s) /\ (i + 1) - 1 = i
    BY <1>2
  <2>2. Open[s][i + 1] = Step(Open[s][(i + 1) - 1], s[i + 1])
    BY <1>1, <2>1 DEF IsOpen
  <2>3. Open[s][i] \in OpenAt /\ s[i + 1] \in Token
    <3>1. i \in 0..Len(s)
      BY <1>2
    <3> QED
      BY <1>1, <1>2, <2>1, <3>1 DEF IsOpen
  <2> QED
    BY <2>1, <2>2, <2>3, NextOpenAfter DEF Step
<1> QED
  BY <1>1, <1>2, <1>3 DEF IsOpen

\* What begins and ends quotes.
LEMMA QuoteBegins ==
  ASSUME NEW open \in OpenAt, NEW c \in Token, open.quote = ""
  PROVE  After(open, c).quote = IF c \in Quote THEN c ELSE ""
<1>1. CASE c \in Quote
  <2>1. c # "(" /\ c # ")"
    BY <1>1 DEF Quote
  <2> QED
    BY <1>1, <2>1 DEF After, OpenAt
<1>2. CASE c \notin Quote
  BY <1>2 DEF After, OpenAt
<1> QED
  BY <1>1, <1>2

LEMMA QuoteEnded ==
  ASSUME NEW open \in OpenAt, NEW c \in Token,
         open.quote # "", After(open, c).quote = ""
  PROVE  c \in Quote
<1>1. open.quote \in Quote
  BY DEF OpenAt
<1>2. c = open.quote
  BY DEF After, OpenAt
<1> QED
  BY <1>1, <1>2

\* Quotes do not depend on parentheses.
SameQuote(open, other) == open.quote = other.quote /\ open.escaped = other.escaped

LEMMA SameQuoteNext ==
  ASSUME NEW open \in OpenAt, NEW other \in OpenAt, SameQuote(open, other),
         NEW c \in Token
  PROVE  SameQuote(After(open, c), After(other, c))
<1>1. CASE open.quote = ""
  <2>1. CASE c \in Quote
    BY <1>1, <2>1 DEF SameQuote, After, OpenAt, Quote
  <2>2. CASE c \notin Quote
    BY <1>1, <2>2 DEF SameQuote, After, OpenAt
  <2> QED
    BY <2>1, <2>2
<1>2. CASE open.quote # "" /\ open.escaped
  BY <1>2 DEF SameQuote, After, OpenAt
<1>3. CASE open.quote # "" /\ ~open.escaped
  <2>1. CASE c = "\\"
    <3>0. open.quote # c
      <4>1. open.quote \in Quote
        BY <1>3 DEF OpenAt
      <4> QED
        BY <2>1, <4>1, Zenon DEF Quote
    <3>1. After(open, c) = [open EXCEPT !.escaped = TRUE]
      BY <1>3, <2>1, <3>0, Zenon DEF After
    <3>2. After(other, c) = [other EXCEPT !.escaped = TRUE]
      BY <1>3, <2>1, <3>0, Zenon DEF SameQuote, After
    <3> QED
      BY <3>1, <3>2 DEF SameQuote, OpenAt
  <2>2. CASE c # "\\" /\ c = open.quote
    <3>1. /\ After(open, c) = [open EXCEPT !.quote = ""]
          /\ After(other, c) = [other EXCEPT !.quote = ""]
      BY <1>3, <2>2 DEF SameQuote, After
    <3> QED
      BY <3>1 DEF SameQuote, OpenAt
  <2>3. CASE c # "\\" /\ c # open.quote
    <3>1. After(open, c) = open /\ After(other, c) = other
      BY <1>3, <2>3 DEF SameQuote, After
    <3> QED
      BY <3>1
  <2> QED
    BY <2>1, <2>2, <2>3
<1> QED
  BY <1>1, <1>2, <1>3

LEMMA ParenthesisUnquoted ==
  ASSUME NEW open \in OpenAt, SameQuote(open, NothingOpen)
  PROVE  SameQuote(After(open, "("), NothingOpen)
<1>1. open.quote = "" /\ open.escaped = FALSE
  BY Zenon DEF SameQuote, NothingOpen
<1>2. After(open, "(") = [open EXCEPT !.groups = @ + 1]
  BY <1>1, Zenon DEF After, Quote
<1> QED
  BY <1>1, <1>2, Zenon DEF SameQuote, NothingOpen, OpenAt

\* Outside quotes it stays so up to the next quote.
Unquoted(s, n) == Open[s][n].quote = ""

LEMMA UnquotedFirst ==
  ASSUME NEW s \in Text
  PROVE  Unquoted(s, 0)
<1>1. Open[s][0] = NothingOpen
  BY OpenSteps
<1>2. NothingOpen.quote = ""
  BY DEF NothingOpen
<1> QED
  BY <1>1, <1>2, Zenon DEF Unquoted

LEMMA QuoteSteps ==
  ASSUME NEW s \in Text, NEW n \in Nat, n < Len(s), Unquoted(s, n)
  PROVE  Unquoted(s, n + 1) <=> s[n + 1] \notin Quote
<1>1. n \in 0..Len(s) /\ n \in 0..(Len(s) - 1) /\ n + 1 \in 1..Len(s)
  BY TextLength
<1>2. /\ Open[s][n] \in OpenAt /\ s[n + 1] \in Token
      /\ Open[s][n + 1] = After(Open[s][n], s[n + 1])
  BY <1>1, OpenSteps
<1>3. After(Open[s][n], s[n + 1]).quote = IF s[n + 1] \in Quote THEN s[n + 1] ELSE ""
  BY <1>2, QuoteBegins, Zenon DEF Unquoted
<1> QED
  BY <1>2, <1>3, Zenon DEF Unquoted, Quote

LEMMA QuoteClosed ==
  ASSUME NEW s \in Text, NEW n \in Nat, n < Len(s),
         ~Unquoted(s, n), Unquoted(s, n + 1)
  PROVE  s[n + 1] \in Quote
<1>1. n \in 0..Len(s) /\ n \in 0..(Len(s) - 1) /\ n + 1 \in 1..Len(s)
  BY TextLength
<1>2. /\ Open[s][n] \in OpenAt /\ s[n + 1] \in Token
      /\ Open[s][n + 1] = After(Open[s][n], s[n + 1])
  BY <1>1, OpenSteps
<1> QED
  BY <1>2, QuoteEnded, Zenon DEF Unquoted

LEMMA NothingQuoted ==
  ASSUME NEW s \in Text, NEW a \in Nat, NEW b \in Nat, a <= b, b <= Len(s),
         Unquoted(s, a), \A i \in (a + 1)..b : s[i] \notin Quote
  PROVE  Unquoted(s, b)
<1> DEFINE P(n) == a + n <= b => Unquoted(s, a + n)
           S == {n \in Nat : P(n)}
<1>0. Len(s) \in Nat /\ b - a \in Nat /\ a + 0 = a /\ a + (b - a) = b
  BY TextLength
<1>1. P(0)
  BY <1>0
<1>2. ASSUME NEW n \in Nat, P(n) PROVE P(n + 1)
  <2> SUFFICES ASSUME a + (n + 1) <= b PROVE Unquoted(s, a + (n + 1))
    OBVIOUS
  <2>1. /\ a + n \in Nat /\ a + n < Len(s) /\ (a + n) + 1 \in (a + 1)..b
        /\ a + (n + 1) = (a + n) + 1 /\ a + n <= b
    BY <1>0
  <2> QED
    BY <1>2, <2>1, QuoteSteps
<1> HIDE DEF P
<1>3. Nat \subseteq S
  <2>1. 0 \in S /\ \A n \in Nat : n \in S => n + 1 \in S
    BY <1>1, <1>2
  <2> HIDE DEF S
  <2> QED
    BY <2>1, NumbersInductive
<1>4. P(b - a)
  BY <1>0, <1>3
<1> QED
  BY <1>0, <1>4 DEF P

-------------------------------------------------------------------------------
\* Depths, and how they go from token to token.

Outside(open) == open.quote = ""

LEMMA GroupsNext ==
  ASSUME NEW open \in OpenAt, NEW c \in Token
  PROVE  /\ open.groups \in Int /\ After(open, c).groups \in Int
         /\ Outside(open) /\ c = "(" => After(open, c).groups = open.groups + 1
         /\ Outside(open) /\ c = ")" => After(open, c).groups = open.groups - 1
         /\ ~Outside(open) \/ c \notin {"(", ")"} => After(open, c).groups = open.groups
<1>4. open.groups \in Int /\ After(open, c).groups \in Int
  BY AfterType DEF OpenAt
<1>5. ASSUME open.quote = "", c = "(" PROVE After(open, c).groups = open.groups + 1
  <2>1. After(open, c) = [open EXCEPT !.groups = @ + 1]
    BY <1>5, Zenon DEF After, Quote
  <2> QED
    BY <2>1 DEF OpenAt
<1>6. ASSUME open.quote = "", c = ")" PROVE After(open, c).groups = open.groups - 1
  <2>1. After(open, c) = [open EXCEPT !.groups = @ - 1]
    BY <1>6, Zenon DEF After, Quote
  <2> QED
    BY <2>1 DEF OpenAt
<1>7. ASSUME open.quote # "" \/ c \notin {"(", ")"} PROVE After(open, c).groups = open.groups
  <2>1. CASE open.quote = ""
    <3>1. After(open, c) \in {[open EXCEPT !.quote = c], open}
      <4>1. CASE c \in Quote
        BY <2>1, <4>1, <1>7, Zenon DEF After
      <4>2. CASE c \notin Quote
        BY <2>1, <4>2, <1>7, Zenon DEF After
      <4> QED
        BY <4>1, <4>2
    <3> QED
      BY <3>1 DEF OpenAt
  <2>2. CASE open.quote # ""
    <3>1. After(open, c) \in {[open EXCEPT !.escaped = FALSE], [open EXCEPT !.escaped = TRUE],
                              [open EXCEPT !.quote = ""], open}
      BY <2>2 DEF After
    <3> QED
      BY <3>1 DEF OpenAt
  <2> QED
    BY <2>1, <2>2
<1> QED
  BY <1>4, <1>5, <1>6, <1>7 DEF Outside

LEMMA DepthSteps ==
  ASSUME NEW s \in Text, NEW n \in Nat, n < Len(s)
  PROVE  /\ Depth(s, n) \in Int /\ Depth(s, n + 1) \in Int
         /\ Unquoted(s, n) /\ s[n + 1] = "(" => Depth(s, n + 1) = Depth(s, n) + 1
         /\ Unquoted(s, n) /\ s[n + 1] = ")" => Depth(s, n + 1) = Depth(s, n) - 1
         /\ ~Unquoted(s, n) \/ s[n + 1] \notin {"(", ")"} => Depth(s, n + 1) = Depth(s, n)
<1> DEFINE open == Open[s][n]
           c == s[n + 1]
<1>1. n \in 0..Len(s) /\ n \in 0..(Len(s) - 1) /\ n + 1 \in 1..Len(s) /\ n + 1 \in 0..Len(s)
  BY TextLength
<1>2. open \in OpenAt /\ c \in Token /\ Open[s][n + 1] = After(open, c)
  BY <1>1, OpenSteps
<1>3. Unquoted(s, n) <=> Outside(open)
  BY Zenon DEF Unquoted, Outside
<1>4. open.groups = Depth(s, n) /\ After(open, c).groups = Depth(s, n + 1)
  BY <1>2 DEF Depth
<1> HIDE DEF open, c
<1> QED
  BY <1>2, <1>3, <1>4, GroupsNext DEF c

LEMMA DepthFirst ==
  ASSUME NEW s \in Text
  PROVE  Depth(s, 0) = 0
<1>1. Open[s][0] = NothingOpen
  BY OpenSteps
<1>2. NothingOpen.groups = 0
  BY Zenon DEF NothingOpen
<1> QED
  BY <1>1, <1>2 DEF Depth

LEMMA DepthType ==
  ASSUME NEW s \in Text, NEW n \in 0..Len(s)
  PROVE  Depth(s, n) \in Int
<1>1. Open[s][n] \in OpenAt
  BY OpenSteps
<1> QED
  BY <1>1 DEF Depth, OpenAt

\* What neither begins a quote nor is a parenthesis changes nothing.
LEMMA NothingOpened ==
  ASSUME NEW s \in Text, NEW a \in Nat, NEW b \in Nat, a <= b, b <= Len(s),
         Unquoted(s, a), \A i \in (a + 1)..b : s[i] \notin Quote \cup {"(", ")"}
  PROVE  Unquoted(s, b) /\ Depth(s, b) = Depth(s, a)
<1> DEFINE P(n) == a + n <= b => Unquoted(s, a + n) /\ Depth(s, a + n) = Depth(s, a)
           S == {n \in Nat : P(n)}
<1>0. Len(s) \in Nat /\ b - a \in Nat /\ a + 0 = a /\ a + (b - a) = b
  BY TextLength
<1>1. P(0)
  BY <1>0
<1>2. ASSUME NEW n \in Nat, P(n) PROVE P(n + 1)
  <2> SUFFICES ASSUME a + (n + 1) <= b
               PROVE  Unquoted(s, a + (n + 1)) /\ Depth(s, a + (n + 1)) = Depth(s, a)
    OBVIOUS
  <2>1. /\ a + n \in Nat /\ a + n < Len(s) /\ (a + n) + 1 \in (a + 1)..b
        /\ a + (n + 1) = (a + n) + 1 /\ a + n <= b
    BY <1>0
  <2>2. s[(a + n) + 1] \notin Quote /\ s[(a + n) + 1] \notin {"(", ")"}
    BY <2>1
  <2>3. Depth(s, (a + n) + 1) = Depth(s, a + n)
    BY <2>1, <2>2, DepthSteps
  <2> QED
    BY <1>2, <2>1, <2>2, <2>3, QuoteSteps
<1> HIDE DEF P
<1>3. Nat \subseteq S
  <2>1. 0 \in S /\ \A n \in Nat : n \in S => n + 1 \in S
    BY <1>1, <1>2
  <2> HIDE DEF S
  <2> QED
    BY <2>1, NumbersInductive
<1>4. P(b - a)
  BY <1>0, <1>3
<1> QED
  BY <1>0, <1>4 DEF P

\* A quote that is open stays so up to the next quote token.
LEMMA StillQuoted ==
  ASSUME NEW s \in Text, NEW a \in Nat, NEW b \in Nat, a <= b, b <= Len(s),
         Unquoted(s, b), \A i \in (a + 1)..b : s[i] \notin Quote
  PROVE  Unquoted(s, a)
<1> SUFFICES ASSUME ~Unquoted(s, a) PROVE FALSE
  OBVIOUS
<1> DEFINE P(n) == a + n <= b => ~Unquoted(s, a + n)
           S == {n \in Nat : P(n)}
<1>0. Len(s) \in Nat /\ b - a \in Nat /\ a + 0 = a /\ a + (b - a) = b
  BY TextLength
<1>1. P(0)
  BY <1>0
<1>2. ASSUME NEW n \in Nat, P(n) PROVE P(n + 1)
  <2> SUFFICES ASSUME a + (n + 1) <= b PROVE ~Unquoted(s, a + (n + 1))
    OBVIOUS
  <2>1. /\ a + n \in Nat /\ a + n < Len(s) /\ (a + n) + 1 \in (a + 1)..b
        /\ a + (n + 1) = (a + n) + 1 /\ a + n <= b
    BY <1>0
  <2>2. s[(a + n) + 1] \notin Quote
    BY <2>1
  <2> QED
    BY <1>2, <2>1, <2>2, QuoteClosed
<1> HIDE DEF P
<1>3. Nat \subseteq S
  <2>1. 0 \in S /\ \A n \in Nat : n \in S => n + 1 \in S
    BY <1>1, <1>2
  <2> HIDE DEF S
  <2> QED
    BY <2>1, NumbersInductive
<1>4. P(b - a)
  BY <1>0, <1>3
<1> QED
  BY <1>0, <1>4 DEF P

-------------------------------------------------------------------------------
\* A text in another one that begins outside quotes: what is open in it is what
\* is open there, but for the groups of parentheses open where it begins.

Aligned(open, other, g) == SameQuote(open, other) /\ open.groups = other.groups + g

LEMMA AlignedNext ==
  ASSUME NEW open \in OpenAt, NEW other \in OpenAt, NEW g \in Int,
         Aligned(open, other, g), NEW c \in Token
  PROVE  Aligned(After(open, c), After(other, c), g)
<1> DEFINE next == After(open, c).groups
           other_next == After(other, c).groups
<1>1. SameQuote(After(open, c), After(other, c))
  BY SameQuoteNext DEF Aligned
<1>2. (Outside(open) <=> Outside(other)) /\ open.groups = other.groups + g
  BY Zenon DEF Aligned, SameQuote, Outside
<1>3. /\ open.groups \in Int /\ next \in Int
      /\ Outside(open) /\ c = "(" => next = open.groups + 1
      /\ Outside(open) /\ c = ")" => next = open.groups - 1
      /\ ~Outside(open) \/ c \notin {"(", ")"} => next = open.groups
  BY GroupsNext
<1>4. /\ other.groups \in Int /\ other_next \in Int
      /\ Outside(other) /\ c = "(" => other_next = other.groups + 1
      /\ Outside(other) /\ c = ")" => other_next = other.groups - 1
      /\ ~Outside(other) \/ c \notin {"(", ")"} => other_next = other.groups
  BY GroupsNext
<1> HIDE DEF next, other_next
<1>5. next = other_next + g
  BY <1>2, <1>3, <1>4
<1> QED
  BY <1>1, <1>5 DEF Aligned, next, other_next

\* Nothing is escaped outside quotes.
LEMMA NotEscaped ==
  ASSUME NEW s \in Text, NEW n \in 0..Len(s), Unquoted(s, n)
  PROVE  Open[s][n].escaped = FALSE
<1> DEFINE P(i) == i <= Len(s) => (Unquoted(s, i) => Open[s][i].escaped = FALSE)
           S == {i \in Nat : P(i)}
<1>0. Len(s) \in Nat
  BY TextLength
<1>1. P(0)
  <2>1. Open[s][0] = NothingOpen /\ NothingOpen.escaped = FALSE
    BY OpenSteps DEF NothingOpen
  <2> QED
    BY <2>1
<1>2. ASSUME NEW i \in Nat, P(i) PROVE P(i + 1)
  <2> SUFFICES ASSUME i + 1 <= Len(s), Unquoted(s, i + 1)
               PROVE  Open[s][i + 1].escaped = FALSE
    OBVIOUS
  <2>1. i \in 0..Len(s) /\ i \in 0..(Len(s) - 1) /\ i + 1 \in 1..Len(s) /\ i <= Len(s)
    BY <1>0
  <2> DEFINE open == Open[s][i]
             c == s[i + 1]
  <2>2. open \in OpenAt /\ c \in Token /\ Open[s][i + 1] = After(open, c)
    BY <2>1, OpenSteps
  <2>3. Unquoted(s, i) => open.escaped = FALSE
    BY <1>2, <2>1
  <2>4. After(open, c).quote = ""
    BY <2>2, Zenon DEF Unquoted
  <2>5. CASE Unquoted(s, i)
    <3>1. open.quote = "" /\ open.escaped = FALSE
      BY <2>3, <2>5, Zenon DEF Unquoted
    <3> HIDE DEF open, c
    <3>2. After(open, c) \in {[open EXCEPT !.quote = c], open,
                              [open EXCEPT !.groups = open.groups + 1],
                              [open EXCEPT !.groups = open.groups - 1]}
      BY <3>1 DEF After
    <3>3. After(open, c).escaped = FALSE
      BY <2>2, <3>1, <3>2 DEF OpenAt
    <3> QED
      BY <2>2, <3>3 DEF open, c
  <2>6. CASE ~Unquoted(s, i)
    <3>1. open.quote # ""
      BY <2>6, Zenon DEF Unquoted
    <3> HIDE DEF open, c
    <3>2. CASE open.escaped
      <4>1. After(open, c) = [open EXCEPT !.escaped = FALSE]
        BY <3>1, <3>2 DEF After
      <4> QED
        BY <2>2, <4>1 DEF OpenAt, open, c
    <3>3. CASE ~open.escaped
      <4>1. After(open, c) \in {[open EXCEPT !.escaped = TRUE],
                                [open EXCEPT !.quote = ""], open}
        BY <3>1, <3>3 DEF After
      <4>2. After(open, c) # [open EXCEPT !.escaped = TRUE]
        BY <2>2, <2>4, <3>1 DEF OpenAt
      <4>3. open.escaped = FALSE
        BY <2>2, <3>3 DEF OpenAt
      <4>4. After(open, c).escaped = FALSE
        BY <2>2, <4>1, <4>2, <4>3 DEF OpenAt
      <4> QED
        BY <2>2, <4>4 DEF open, c
    <3> QED
      BY <3>2, <3>3
  <2> QED
    BY <2>5, <2>6
<1> HIDE DEF P
<1>3. Nat \subseteq S
  <2>1. 0 \in S /\ \A i \in Nat : i \in S => i + 1 \in S
    BY <1>1, <1>2
  <2> HIDE DEF S
  <2> QED
    BY <2>1, NumbersInductive
<1>4. P(n)
  BY <1>0, <1>3
<1> QED
  BY <1>0, <1>4 DEF P

IsWindow(s, t, p) ==
  /\ p \in Nat /\ p + Len(t) <= Len(s)
  /\ \A j \in 1..Len(t) : t[j] = s[p + j]
  /\ Unquoted(s, p)

LEMMA WindowAligned ==
  ASSUME NEW s \in Text, NEW t \in Text, NEW p, IsWindow(s, t, p)
  PROVE  \A j \in 0..Len(t) : Aligned(Open[s][p + j], Open[t][j], Depth(s, p))
<1> DEFINE g == Depth(s, p)
           P(n) == n <= Len(t) => Aligned(Open[s][p + n], Open[t][n], g)
           S == {n \in Nat : P(n)}
<1>0. /\ Len(s) \in Nat /\ Len(t) \in Nat /\ p \in Nat /\ p + Len(t) <= Len(s)
      /\ p \in 0..Len(s) /\ p + 0 = p
  BY TextLength DEF IsWindow
<1>1. g \in Int
  BY <1>0, DepthType
<1>2. P(0)
  <2>1. Open[t][0] = NothingOpen
    BY OpenSteps
  <2>2. Open[s][p].escaped = FALSE
    BY <1>0, NotEscaped DEF IsWindow
  <2>3. Open[s][p].quote = ""
    BY Zenon DEF IsWindow, Unquoted
  <2>4. SameQuote(Open[s][p], Open[t][0])
    <3>1. NothingOpen.quote = "" /\ NothingOpen.escaped = FALSE
      BY Zenon DEF NothingOpen
    <3> QED
      BY <2>1, <2>2, <2>3, <3>1, Zenon DEF SameQuote
  <2>5. Open[t][0].groups = 0
    BY DepthFirst DEF Depth
  <2>6. Open[s][p].groups = Open[t][0].groups + g
    BY <1>1, <2>5 DEF Depth
  <2> QED
    BY <1>0, <2>4, <2>6 DEF Aligned
<1> HIDE DEF g
<1>3. ASSUME NEW n \in Nat, P(n) PROVE P(n + 1)
  <2> SUFFICES ASSUME n + 1 <= Len(t)
               PROVE  Aligned(Open[s][p + (n + 1)], Open[t][n + 1], g)
    OBVIOUS
  <2>1. /\ n \in 0..Len(t) /\ n \in 0..(Len(t) - 1) /\ n + 1 \in 1..Len(t) /\ n <= Len(t)
        /\ p + n \in 0..Len(s) /\ p + n \in 0..(Len(s) - 1)
        /\ p + (n + 1) = (p + n) + 1
    BY <1>0
  <2>2. /\ Open[t][n] \in OpenAt /\ t[n + 1] \in Token
        /\ Open[t][n + 1] = After(Open[t][n], t[n + 1])
    BY <2>1, OpenSteps
  <2>3. /\ Open[s][p + n] \in OpenAt
        /\ Open[s][(p + n) + 1] = After(Open[s][p + n], s[(p + n) + 1])
    BY <2>1, OpenSteps
  <2>4. t[n + 1] = s[(p + n) + 1]
    BY <2>1 DEF IsWindow
  <2>5. Aligned(Open[s][p + n], Open[t][n], g)
    BY <1>3, <2>1
  <2> QED
    BY <1>1, <2>1, <2>2, <2>3, <2>4, <2>5, AlignedNext
<1> HIDE DEF P
<1>4. Nat \subseteq S
  <2>1. 0 \in S /\ \A n \in Nat : n \in S => n + 1 \in S
    BY <1>2, <1>3
  <2> HIDE DEF S
  <2> QED
    BY <2>1, NumbersInductive
<1>5. \A n \in 0..Len(t) : P(n)
  BY <1>0, <1>4
<1> QED
  BY <1>0, <1>5 DEF P, g

LEMMA WindowOpen ==
  ASSUME NEW s \in Text, NEW t \in Text, NEW p, IsWindow(s, t, p), NEW j \in 0..Len(t)
  PROVE  /\ p + j \in 0..Len(s)
         /\ Unquoted(s, p + j) <=> Unquoted(t, j)
         /\ Depth(s, p) \in Int /\ Depth(t, j) \in Int
         /\ Depth(s, p + j) = Depth(t, j) + Depth(s, p)
<1>0. /\ Len(s) \in Nat /\ Len(t) \in Nat /\ p \in Nat /\ p + Len(t) <= Len(s)
  BY TextLength DEF IsWindow
<1>1. p \in 0..Len(s) /\ p + j \in 0..Len(s)
  BY <1>0
<1>2. Aligned(Open[s][p + j], Open[t][j], Depth(s, p))
  BY WindowAligned
<1>3. Unquoted(s, p + j) <=> Unquoted(t, j)
  BY <1>2, Zenon DEF Aligned, SameQuote, Unquoted
<1>4. Depth(s, p + j) = Depth(t, j) + Depth(s, p)
  BY <1>2 DEF Aligned, Depth
<1> QED
  BY <1>1, <1>3, <1>4, DepthType

\* The masked positions of a window are those of the text.
LEMMA WindowUnmasked ==
  ASSUME NEW s \in Text, NEW t \in Text, NEW p, IsWindow(s, t, p), NEW j \in 1..Len(t)
  PROVE  /\ p + j \in 1..Len(s) /\ t[j] = s[p + j]
         /\ p + j \in Unmasked(s) <=> j \in Unmasked(t)
<1>0. /\ Len(s) \in Nat /\ Len(t) \in Nat /\ p \in Nat /\ p + Len(t) <= Len(s)
  BY TextLength DEF IsWindow
<1>1. /\ p + j \in 1..Len(s) /\ j \in 0..Len(t) /\ j - 1 \in 0..Len(t)
      /\ (p + j) - 1 = p + (j - 1)
  BY <1>0
<1>2. /\ Unquoted(s, p + j) <=> Unquoted(t, j)
      /\ Unquoted(s, (p + j) - 1) <=> Unquoted(t, j - 1)
  BY <1>1, WindowOpen
<1>3. DOMAIN s = 1..Len(s) /\ DOMAIN t = 1..Len(t)
  BY TextLength
<1>4. p + j \in Unmasked(s) <=> Unquoted(s, (p + j) - 1) /\ Unquoted(s, p + j)
  BY <1>1, <1>3, Zenon DEF Unmasked, Unquoted
<1>5. j \in Unmasked(t) <=> Unquoted(t, j - 1) /\ Unquoted(t, j)
  BY <1>3, Zenon DEF Unmasked, Unquoted
<1> QED
  BY <1>1, <1>2, <1>4, <1>5 DEF IsWindow

LEMMA SubSeqTyped ==
  ASSUME NEW S, NEW s \in Seq(S), NEW c \in Int, NEW d \in Int,
         1 <= c, c <= d + 1, d <= Len(s)
  PROVE  /\ SubSeq(s, c, d) \in Seq(S) /\ Len(SubSeq(s, c, d)) = d - c + 1
         /\ \A j \in 1..(d - c + 1) : SubSeq(s, c, d)[j] = s[(c + j) - 1]
<1>1. \A i \in c..d : s[i] \in S
  OBVIOUS
<1>2. SubSeq(s, c, d) \in Seq(S)
  BY <1>1
<1>3. Len(SubSeq(s, c, d)) = d - c + 1
  OBVIOUS
<1>4. \A j \in 1..(d - c + 1) : SubSeq(s, c, d)[j] = s[(c + j) - 1]
  OBVIOUS
<1> QED
  BY <1>2, <1>3, <1>4

LEMMA SubSeqText ==
  ASSUME NEW s \in Text, NEW a \in Nat, NEW b \in Nat, a <= b, b <= Len(s)
  PROVE  /\ SubSeq(s, a + 1, b) \in Text /\ Len(SubSeq(s, a + 1, b)) = b - a
         /\ \A j \in 1..(b - a) : SubSeq(s, a + 1, b)[j] = s[a + j]
<1> DEFINE c == a + 1
           d == b
<1>1. s \in Seq(Token)
  BY Zenon DEF Text
<1>2. /\ c \in Int /\ d \in Int /\ 1 <= c /\ c <= d + 1 /\ d <= Len(s)
      /\ d - c + 1 = b - a /\ \A j \in Int : (c + j) - 1 = a + j
  OBVIOUS
<1> HIDE DEF c, d
<1>3. /\ SubSeq(s, c, d) \in Seq(Token) /\ Len(SubSeq(s, c, d)) = d - c + 1
      /\ \A j \in 1..(d - c + 1) : SubSeq(s, c, d)[j] = s[(c + j) - 1]
  BY <1>1, <1>2, SubSeqTyped
<1>4. SubSeq(s, c, d) \in Text
  BY <1>3, Zenon DEF Text
<1>5. ASSUME NEW j \in 1..(b - a) PROVE SubSeq(s, c, d)[j] = s[a + j]
  <2>1. j \in Int /\ j \in 1..(d - c + 1) /\ (c + j) - 1 = a + j
    BY <1>2
  <2>2. SubSeq(s, c, d)[j] = s[(c + j) - 1]
    BY <1>3, <2>1
  <2> QED
    BY <2>1, <2>2
<1> QED
  BY <1>2, <1>3, <1>4, <1>5 DEF c, d

LEMMA SubSeqWindow ==
  ASSUME NEW s \in Text, NEW a \in Nat, NEW b \in Nat, a <= b, b <= Len(s), Unquoted(s, a)
  PROVE  /\ SubSeq(s, a + 1, b) \in Text /\ Len(SubSeq(s, a + 1, b)) = b - a
         /\ IsWindow(s, SubSeq(s, a + 1, b), a)
<1> DEFINE t == SubSeq(s, a + 1, b)
<1>1. t \in Text /\ Len(t) = b - a /\ \A j \in 1..(b - a) : t[j] = s[a + j]
  BY SubSeqText
<1>2. Len(s) \in Nat /\ a + (b - a) = b
  BY TextLength
<1> HIDE DEF t
<1>3. IsWindow(s, t, a)
  BY <1>1, <1>2 DEF IsWindow
<1> QED
  BY <1>1, <1>3 DEF t

LEMMA WindowOfWindow ==
  ASSUME NEW s \in Text, NEW t \in Text, NEW p, IsWindow(s, t, p),
         NEW u \in Text, NEW q, IsWindow(t, u, q)
  PROVE  IsWindow(s, u, p + q)
<1>0. /\ Len(s) \in Nat /\ Len(t) \in Nat /\ Len(u) \in Nat /\ p \in Nat /\ q \in Nat
      /\ p + Len(t) <= Len(s) /\ q + Len(u) <= Len(t)
  BY TextLength DEF IsWindow
<1>1. q \in 0..Len(t) /\ p + q \in Nat /\ (p + q) + Len(u) <= Len(s)
  BY <1>0
<1>2. Unquoted(s, p + q)
  BY <1>1, WindowOpen DEF IsWindow
<1>3. ASSUME NEW j \in 1..Len(u) PROVE u[j] = s[(p + q) + j]
  <2>1. q + j \in 1..Len(t) /\ p + (q + j) = (p + q) + j
    BY <1>0
  <2> QED
    BY <2>1 DEF IsWindow
<1> QED
  BY <1>1, <1>2, <1>3 DEF IsWindow

LEMMA ConcatText ==
  ASSUME NEW s \in Text, NEW t \in Text
  PROVE  /\ s \o t \in Text /\ Len(s \o t) = Len(s) + Len(t)
         /\ \A j \in 1..Len(s) : (s \o t)[j] = s[j]
         /\ \A j \in 1..Len(t) : (s \o t)[Len(s) + j] = t[j]
<1>1. s \in Seq(Token) /\ t \in Seq(Token) /\ Len(s) \in Nat /\ Len(t) \in Nat
  BY TextLength, Zenon DEF Text
<1>2. /\ s \o t \in Seq(Token) /\ Len(s \o t) = Len(s) + Len(t)
      /\ \A j \in 1..(Len(s) + Len(t)) :
           (s \o t)[j] = IF j <= Len(s) THEN s[j] ELSE t[j - Len(s)]
  BY <1>1
<1> DEFINE u == s \o t
<1> HIDE DEF u
<1>3. /\ \A j \in 1..Len(s) : u[j] = s[j]
      /\ \A j \in 1..Len(t) : u[Len(s) + j] = t[j]
  BY <1>1, <1>2 DEF u
<1> QED
  BY <1>2, <1>3, Zenon DEF Text, u

\* What is open in a text is the same in what continues it.
LEMMA ConcatWindows ==
  ASSUME NEW s \in Text, NEW t \in Text
  PROVE  /\ IsWindow(s \o t, s, 0)
         /\ Unquoted(s, Len(s)) => IsWindow(s \o t, t, Len(s))
<1> DEFINE u == s \o t
<1>1. /\ u \in Text /\ Len(u) = Len(s) + Len(t)
      /\ \A j \in 1..Len(s) : u[j] = s[j]
      /\ \A j \in 1..Len(t) : u[Len(s) + j] = t[j]
      /\ Len(s) \in Nat /\ Len(t) \in Nat
  BY ConcatText, TextLength
<1> HIDE DEF u
<1>2. IsWindow(u, s, 0)
  BY <1>1, UnquotedFirst DEF IsWindow
<1>3. ASSUME Unquoted(s, Len(s)) PROVE IsWindow(u, t, Len(s))
  <2>1. Len(s) \in 0..Len(s) /\ 0 + Len(s) = Len(s)
    BY <1>1
  <2>2. Unquoted(u, Len(s))
    BY <1>1, <1>2, <1>3, <2>1, WindowOpen
  <2> QED
    BY <1>1, <2>2 DEF IsWindow
<1> QED
  BY <1>2, <1>3 DEF u

-------------------------------------------------------------------------------
\* Parentheses in pairs.

PairedText == {s \in Text : InPairs(s)}

LEMMA InPairsFacts ==
  ASSUME NEW s \in Text
  PROVE  InPairs(s) <=> /\ Unquoted(s, Len(s)) /\ Depth(s, Len(s)) = 0
                        /\ \A n \in 1..Len(s) : Depth(s, n) >= 0
  BY Zenon DEF InPairs, Unquoted

LEMMA EmptyInPairs == << >> \in PairedText
<1>1. << >> \in Text /\ Len(<< >>) = 0
  BY DEF Text
<1>2. Unquoted(<< >>, 0) /\ Depth(<< >>, 0) = 0
  BY <1>1, UnquotedFirst, DepthFirst
<1> QED
  BY <1>1, <1>2, InPairsFacts DEF PairedText

\* A window has its parentheses in pairs if as many are open where it ends as
\* where it begins, and never fewer.
LEMMA WindowInPairs ==
  ASSUME NEW s \in Text, NEW t \in Text, NEW p, IsWindow(s, t, p)
  PROVE  InPairs(t) <=> /\ Unquoted(s, p + Len(t)) /\ Depth(s, p + Len(t)) = Depth(s, p)
                        /\ \A n \in 1..Len(t) : Depth(s, p + n) >= Depth(s, p)
<1>0. Len(t) \in 0..Len(t) /\ \A n \in 1..Len(t) : n \in 0..Len(t)
  BY TextLength
<1>1. /\ Unquoted(s, p + Len(t)) <=> Unquoted(t, Len(t))
      /\ Depth(s, p + Len(t)) = Depth(s, p) <=> Depth(t, Len(t)) = 0
  BY <1>0, WindowOpen
<1>2. ASSUME NEW n \in 1..Len(t)
      PROVE  Depth(s, p + n) >= Depth(s, p) <=> Depth(t, n) >= 0
  <2>1. /\ Depth(s, p) \in Int /\ Depth(t, n) \in Int
        /\ Depth(s, p + n) = Depth(t, n) + Depth(s, p)
    BY <1>0, WindowOpen
  <2> QED
    BY <2>1
<1> QED
  BY <1>1, <1>2, InPairsFacts

LEMMA ConcatInPairs ==
  ASSUME NEW s \in PairedText, NEW t \in PairedText
  PROVE  s \o t \in PairedText
<1> DEFINE u == s \o t
<1>1. s \in Text /\ t \in Text /\ InPairs(s) /\ InPairs(t)
  BY DEF PairedText
<1>2. /\ u \in Text /\ Len(u) = Len(s) + Len(t) /\ Len(s) \in Nat /\ Len(t) \in Nat
  BY <1>1, ConcatText, TextLength
<1>3. Unquoted(s, Len(s))
  BY <1>1, InPairsFacts
<1>4. IsWindow(u, s, 0) /\ IsWindow(u, t, Len(s))
  BY <1>1, <1>3, ConcatWindows
<1> HIDE DEF u
<1>5. /\ Depth(u, 0 + Len(s)) = Depth(u, 0)
      /\ \A n \in 1..Len(s) : Depth(u, 0 + n) >= Depth(u, 0)
  BY <1>1, <1>2, <1>4, WindowInPairs
<1>6. /\ Unquoted(u, Len(s) + Len(t)) /\ Depth(u, Len(s) + Len(t)) = Depth(u, Len(s))
      /\ \A n \in 1..Len(t) : Depth(u, Len(s) + n) >= Depth(u, Len(s))
  BY <1>1, <1>2, <1>4, WindowInPairs
<1>7. Depth(u, 0) = 0
  BY <1>2, DepthFirst
<1>8. 0 + Len(s) = Len(s) /\ \A n \in 1..Len(s) : 0 + n = n
  BY <1>2
<1>9. ASSUME NEW n \in 1..Len(u) PROVE Depth(u, n) >= 0
  <2>1. CASE n \in 1..Len(s)
    BY <1>5, <1>7, <1>8, <2>1
  <2>2. CASE n \notin 1..Len(s)
    <3>1. n - Len(s) \in 1..Len(t) /\ Len(s) + (n - Len(s)) = n
      BY <1>2, <2>2
    <3> QED
      BY <1>5, <1>6, <1>7, <1>8, <3>1
  <2> QED
    BY <2>1, <2>2
<1>10. u \in PairedText
  BY <1>2, <1>5, <1>6, <1>7, <1>8, <1>9, InPairsFacts DEF PairedText
<1> QED
  BY <1>10 DEF u

\* Tokens without a meaning for quotes and parentheses.
LEMMA NeutralInPairs ==
  ASSUME NEW s \in Text, \A i \in 1..Len(s) : s[i] \notin Quote \cup {"(", ")"}
  PROVE  s \in PairedText
<1>1. Len(s) \in Nat
  BY TextLength
<1>2. ASSUME NEW n \in 0..Len(s) PROVE Unquoted(s, n) /\ Depth(s, n) = 0
  <2>1. /\ n \in Nat /\ 0 <= n /\ n <= Len(s)
        /\ \A i \in (0 + 1)..n : i \in 1..Len(s)
    BY <1>1
  <2>2. Unquoted(s, 0) /\ Depth(s, 0) = 0
    BY UnquotedFirst, DepthFirst
  <2>3. \A i \in (0 + 1)..n : s[i] \notin Quote \cup {"(", ")"}
    BY <2>1
  <2> QED
    BY <2>1, <2>2, <2>3, NothingOpened
<1>3. Len(s) \in 0..Len(s) /\ \A n \in 1..Len(s) : n \in 0..Len(s)
  BY <1>1
<1>4. \A n \in 1..Len(s) : Depth(s, n) >= 0
  BY <1>2, <1>3
<1> QED
  BY <1>2, <1>3, <1>4, InPairsFacts DEF PairedText

\* A pair of parentheses around a text.
LEMMA ParenthesizedInPairs ==
  ASSUME NEW t \in PairedText
  PROVE  << "(" >> \o t \o << ")" >> \in PairedText
<1> DEFINE a == << "(" >>
           b == << ")" >>
           at == a \o t
           u == at \o b
           n == Len(t)
<1>1. t \in Text /\ InPairs(t)
  BY DEF PairedText
<1>2. a \in Text /\ b \in Text /\ Len(a) = 1 /\ Len(b) = 1 /\ a[1] = "(" /\ b[1] = ")"
  BY DEF Text, Token, Punctuation
<1>3. /\ at \in Text /\ Len(at) = 1 + n /\ n \in Nat
      /\ u \in Text /\ Len(u) = n + 2
      /\ at[1] = "(" /\ u[n + 2] = ")"
  <2> HIDE DEF a, b
  <2>1. /\ at \in Text /\ Len(at) = Len(a) + Len(t) /\ Len(t) \in Nat
        /\ \A j \in 1..Len(a) : at[j] = a[j]
    BY <1>1, <1>2, ConcatText, TextLength
  <2> HIDE DEF at
  <2>2. /\ u \in Text /\ Len(u) = Len(at) + Len(b)
        /\ \A j \in 1..Len(b) : u[Len(at) + j] = b[j]
    BY <1>1, <1>2, <2>1, ConcatText, TextLength
  <2> HIDE DEF u
  <2> QED
    BY <1>2, <2>1, <2>2
<1>4. IsWindow(u, at, 0)
  BY <1>2, <1>3, ConcatWindows
<1>5. Unquoted(a, 1) /\ Depth(a, 1) = 1
  <2> HIDE DEF a, b
  <2>1. Unquoted(a, 0) /\ Depth(a, 0) = 0
    BY <1>2, UnquotedFirst, DepthFirst
  <2>2. "(" \notin Quote
    BY Zenon DEF Quote
  <2>3. a[0 + 1] = "(" /\ 0 < Len(a)
    BY <1>2
  <2> QED
    BY <1>2, <2>1, <2>2, <2>3, DepthSteps, QuoteSteps
<1>6. IsWindow(at, a, 0) /\ IsWindow(at, t, 1)
  BY <1>1, <1>2, <1>5, ConcatWindows
<1> HIDE DEF a, b, at, u
<1>7. Unquoted(at, 1) /\ Depth(at, 1) = 1
  <2>1. 1 \in 0..Len(a) /\ 0 + 1 = 1 /\ Depth(at, 0) = 0
    BY <1>2, <1>3, DepthFirst
  <2>2. ASSUME NEW j \in 0..Len(a)
        PROVE  /\ Unquoted(at, 0 + j) <=> Unquoted(a, j)
               /\ Depth(at, 0 + j) = Depth(a, j) + Depth(at, 0)
    <3>1. at \in Text /\ a \in Text /\ IsWindow(at, a, 0)
      BY <1>2, <1>3, <1>6
    <3> QED
      BY <3>1, WindowOpen
  <2> QED
    BY <1>5, <2>1, <2>2
<1>8. /\ Unquoted(at, 1 + n) /\ Depth(at, 1 + n) = 1
      /\ \A j \in 1..n : Depth(at, 1 + j) >= 1
  <2>1. at \in Text /\ t \in Text /\ InPairs(t) /\ Len(t) = n /\ IsWindow(at, t, 1)
    BY <1>1, <1>3, <1>6
  <2>2. /\ Unquoted(at, 1 + Len(t)) /\ Depth(at, 1 + Len(t)) = Depth(at, 1)
        /\ \A j \in 1..Len(t) : Depth(at, 1 + j) >= Depth(at, 1)
    BY <2>1, WindowInPairs
  <2> QED
    BY <1>7, <2>1, <2>2
<1>9. \A j \in 0..(1 + n) : (Unquoted(u, j) <=> Unquoted(at, j)) /\ Depth(u, j) = Depth(at, j)
  <2> SUFFICES ASSUME NEW j \in 0..(1 + n)
               PROVE  (Unquoted(u, j) <=> Unquoted(at, j)) /\ Depth(u, j) = Depth(at, j)
    OBVIOUS
  <2>1. 0 + j = j /\ j \in 0..Len(at) /\ Depth(u, 0) = 0
    BY <1>3, DepthFirst
  <2>2. /\ Unquoted(u, 0 + j) <=> Unquoted(at, j)
        /\ Depth(at, j) \in Int /\ Depth(u, 0 + j) = Depth(at, j) + Depth(u, 0)
    BY <1>3, <1>4, <2>1, WindowOpen
  <2> QED
    BY <2>1, <2>2
<1>10. Unquoted(u, n + 2) /\ Depth(u, n + 2) = 0
  <2>1. 1 + n \in Nat /\ 1 + n < Len(u) /\ (1 + n) + 1 = n + 2 /\ 1 + n \in 0..(1 + n)
    BY <1>3
  <2>2. ")" \notin Quote
    BY Zenon DEF Quote
  <2>3. Unquoted(u, 1 + n) /\ Depth(u, 1 + n) = 1
    BY <1>8, <1>9, <2>1
  <2> QED
    BY <1>3, <2>1, <2>2, <2>3, DepthSteps, QuoteSteps
<1>11. ASSUME NEW j \in 1..Len(u) PROVE Depth(u, j) >= 0
  <2>1. CASE j = 1
    <3>1. 1 \in 0..(1 + n)
      BY <1>3
    <3> QED
      BY <1>7, <1>9, <2>1, <3>1
  <2>2. CASE j = n + 2
    BY <1>10, <2>2
  <2>3. CASE j # 1 /\ j # n + 2
    <3>1. j \in 0..(1 + n) /\ j - 1 \in 1..n /\ 1 + (j - 1) = j
      BY <1>3, <2>3
    <3>2. Depth(at, j) >= 1 /\ Depth(u, j) = Depth(at, j) /\ Depth(at, j) \in Int
      BY <1>3, <1>8, <1>9, <3>1, DepthType
    <3> QED
      BY <3>2
  <2> QED
    BY <2>1, <2>2, <2>3
<1>12. u \in PairedText
  BY <1>3, <1>10, <1>11, InPairsFacts DEF PairedText
<1> QED
  BY <1>12 DEF u, at, a, b

-------------------------------------------------------------------------------
\* Texts put together of others (FlattenSeq, which is recursive).

Cat(s, t) == s \o t

IsFlattened(f, seqs, n) ==
  /\ DOMAIN f = 1..n
  /\ f[1] = seqs[1]
  /\ \A i \in 2..n : f[i] = Cat(f[i - 1], seqs[i])

LEMMA FlattenExists ==
  ASSUME NEW seqs, NEW n \in Nat, n >= 1
  PROVE  \E f : f = [i \in 1..n |-> IF i = 1 THEN seqs[i] ELSE Cat(f[i - 1], seqs[i])]
<1> DEFINE P(m) == \E f : IsFlattened(f, seqs, m + 1)
           S == {m \in Nat : P(m)}
<1>1. P(0)
  <2>1. IsFlattened([i \in 1..1 |-> seqs[1]], seqs, 0 + 1)
    BY DEF IsFlattened
  <2> QED
    BY <2>1
<1>2. ASSUME NEW m \in Nat, P(m) PROVE P(m + 1)
  <2>1. PICK f : IsFlattened(f, seqs, m + 1)
    BY <1>2
  <2> DEFINE g == [i \in 1..((m + 1) + 1) |->
                     IF i <= m + 1 THEN f[i] ELSE Cat(f[m + 1], seqs[(m + 1) + 1])]
  <2>2. IsFlattened(g, seqs, (m + 1) + 1)
    BY <2>1 DEF IsFlattened
  <2> QED
    BY <2>2
<1> HIDE DEF P
<1>3. Nat \subseteq S
  <2>1. 0 \in S /\ \A m \in Nat : m \in S => m + 1 \in S
    BY <1>1, <1>2
  <2> HIDE DEF S
  <2> QED
    BY <2>1, NumbersInductive
<1>4. P(n - 1) /\ (n - 1) + 1 = n
  BY <1>3
<1>5. PICK f : IsFlattened(f, seqs, n)
  BY <1>4 DEF P
<1> DEFINE g == [i \in 1..n |-> f[i]]
<1>6. g = [i \in 1..n |-> IF i = 1 THEN seqs[i] ELSE Cat(g[i - 1], seqs[i])]
  BY <1>5 DEF IsFlattened
<1> QED
  BY <1>6

LEMMA FlattenDef ==
  ASSUME NEW seqs, Len(seqs) \in Nat, Len(seqs) # 0
  PROVE  \E f : IsFlattened(f, seqs, Len(seqs)) /\ FlattenSeq(seqs) = f[Len(seqs)]
<1> DEFINE n == Len(seqs)
<1>0. n \in Nat /\ n >= 1
  OBVIOUS
<1> DEFINE flatten[i \in 1..n] == IF i = 1 THEN seqs[i] ELSE flatten[i - 1] \o seqs[i]
<1>1. FlattenSeq(seqs) = flatten[n]
  BY DEF FlattenSeq
<1> HIDE DEF n
<1>2. PICK f : f = [i \in 1..n |-> IF i = 1 THEN seqs[i] ELSE Cat(f[i - 1], seqs[i])]
  BY <1>0, FlattenExists
<1>3. f = [i \in 1..n |-> IF i = 1 THEN seqs[i] ELSE f[i - 1] \o seqs[i]]
  BY <1>2, Zenon DEF Cat
<1>4. flatten = [i \in 1..n |-> IF i = 1 THEN seqs[i] ELSE flatten[i - 1] \o seqs[i]]
  BY <1>3
<1> HIDE DEF flatten
<1>5. flatten = [i \in 1..n |-> IF i = 1 THEN seqs[i] ELSE Cat(flatten[i - 1], seqs[i])]
  BY <1>4, Zenon DEF Cat
<1>6. IsFlattened(flatten, seqs, n)
  BY <1>0, <1>5 DEF IsFlattened
<1> QED
  BY <1>1, <1>6 DEF n

\* What is put together of members of a set is one, if any two of them make one.
LEMMA FlattenIn ==
  ASSUME NEW S, S \subseteq Text, << >> \in S, \A s \in S, t \in S : s \o t \in S,
         NEW seqs \in Seq(S)
  PROVE  FlattenSeq(seqs) \in S
<1>1. CASE Len(seqs) = 0
  <2>1. seqs = << >>
    BY <1>1
  <2> QED
    BY <1>1, <2>1 DEF FlattenSeq
<1>2. CASE Len(seqs) # 0
  <2>1. seqs \in Seq(Text) /\ Len(seqs) \in Nat /\ \A i \in 1..Len(seqs) : seqs[i] \in S
    OBVIOUS
  <2>2. PICK f : IsFlattened(f, seqs, Len(seqs)) /\ FlattenSeq(seqs) = f[Len(seqs)]
    BY <1>2, <2>1, FlattenDef
  <2> DEFINE P(m) == m + 1 <= Len(seqs) => f[m + 1] \in S
             T == {m \in Nat : P(m)}
  <2>3. P(0)
    BY <2>1, <2>2 DEF IsFlattened
  <2>4. ASSUME NEW m \in Nat, P(m) PROVE P(m + 1)
    <3> SUFFICES ASSUME (m + 1) + 1 <= Len(seqs) PROVE f[(m + 1) + 1] \in S
      OBVIOUS
    <3>1. /\ (m + 1) + 1 \in 2..Len(seqs) /\ (m + 1) + 1 \in 1..Len(seqs)
          /\ ((m + 1) + 1) - 1 = m + 1 /\ m + 1 <= Len(seqs)
      BY <2>1
    <3>2. f[(m + 1) + 1] = f[m + 1] \o seqs[(m + 1) + 1]
      BY <2>2, <3>1 DEF IsFlattened, Cat
    <3> QED
      BY <2>1, <2>4, <3>1, <3>2
  <2> HIDE DEF P
  <2>5. Nat \subseteq T
    <3>1. 0 \in T /\ \A m \in Nat : m \in T => m + 1 \in T
      BY <2>3, <2>4
    <3> HIDE DEF T
    <3> QED
      BY <3>1, NumbersInductive
  <2>6. P(Len(seqs) - 1) /\ (Len(seqs) - 1) + 1 = Len(seqs)
    BY <1>2, <2>1, <2>5
  <2> QED
    BY <2>2, <2>6 DEF P
<1> QED
  BY <1>1, <1>2

LEMMA NeutralTokens ==
  ASSUME NEW c \in Token, NEW d \in Token,
         c \notin Quote \cup {"(", ")"}, d \notin Quote \cup {"(", ")"}
  PROVE  << c, d >> \in PairedText
<1> DEFINE s == << c, d >>
<1>1. s \in Text /\ Len(s) = 2 /\ s[1] = c /\ s[2] = d
  BY DEF Text
<1> HIDE DEF s
<1>2. \A i \in 1..Len(s) : i \in {1, 2}
  BY <1>1
<1>3. s \in PairedText
  BY <1>1, <1>2, NeutralInPairs
<1> QED
  BY <1>3 DEF s

LEMMA JoinedInPairs ==
  ASSUME NEW texts \in Seq(PairedText)
  PROVE  Joined[texts] \in PairedText
<1> DEFINE pieces == [k \in DOMAIN texts |->
                        IF k = 1 THEN texts[k] ELSE << ",", " " >> \o texts[k]]
<1>0. PairedText \subseteq Text
  BY DEF PairedText
<1>1. texts \in Seq(Text) /\ Len(texts) \in Nat /\ DOMAIN texts = 1..Len(texts)
      /\ \A k \in DOMAIN texts : texts[k] \in PairedText
  BY <1>0
<1>2. << ",", " " >> \in PairedText
  <2>1. "," \in Token /\ " " \in Token
    BY Zenon DEF Token, Punctuation
  <2>2. "," \notin Quote \cup {"(", ")"} /\ " " \notin Quote \cup {"(", ")"}
    BY Zenon DEF Quote
  <2> QED
    BY <2>1, <2>2, NeutralTokens
<1>3. \A k \in DOMAIN texts : pieces[k] \in PairedText
  BY <1>1, <1>2, ConcatInPairs
<1>4. pieces \in Seq(PairedText)
  <2>1. pieces \in [1..Len(texts) -> PairedText]
    BY <1>1, <1>3
  <2> HIDE DEF pieces
  <2> QED
    BY <1>1, <2>1
<1>5. Joined[texts] = FlattenSeq(pieces)
  BY <1>1, Zenon DEF Joined
<1> QED
  BY <1>0, <1>4, <1>5, EmptyInPairs, ConcatInPairs, FlattenIn

-------------------------------------------------------------------------------
\* Argument lists.

LEMMA UnmaskedFacts ==
  ASSUME NEW s \in Text, NEW i
  PROVE  i \in Unmasked(s) <=> i \in 1..Len(s) /\ Unquoted(s, i - 1) /\ Unquoted(s, i)
<1>1. DOMAIN s = 1..Len(s)
  BY TextLength
<1> QED
  BY <1>1, Zenon DEF Unmasked, Unquoted

IsGroup(s) == s # << >> /\ s[1] = "(" /\ Closers(s) # {}

LEMMA GroupFacts ==
  ASSUME NEW s \in Text, IsGroup(s)
  PROVE  /\ GroupEnd(s) \in 2..Len(s) /\ s[GroupEnd(s)] = ")"
         /\ Unquoted(s, GroupEnd(s) - 1) /\ Depth(s, GroupEnd(s) - 1) = 1
         /\ Unquoted(s, GroupEnd(s)) /\ Depth(s, GroupEnd(s)) = 0
         /\ Unquoted(s, 1) /\ Depth(s, 1) = 1
         /\ \A n \in 1..(GroupEnd(s) - 1) : Depth(s, n) >= 1
<1> DEFINE e == GroupEnd(s)
<1>1. Len(s) \in Nat /\ Len(s) >= 1
  BY TextLength DEF IsGroup, Text
<1>2. \A n \in Closers(s) : n \in 1..Len(s)
  BY UnmaskedFacts DEF Closers
<1>3. e \in Closers(s) /\ \A n \in Closers(s) : e <= n
  <2>1. Closers(s) \subseteq Nat /\ Closers(s) # {}
    BY <1>1, <1>2 DEF IsGroup
  <2> QED
    BY <2>1, MinExists DEF GroupEnd
<1>4. /\ e \in 1..Len(s) /\ s[e] = ")" /\ Unquoted(s, e - 1) /\ Unquoted(s, e)
      /\ Depth(s, e) = 0
  BY <1>3, UnmaskedFacts DEF Closers
<1> HIDE DEF e
<1>5. Unquoted(s, 1) /\ Depth(s, 1) = 1 /\ "(" # ")"
  <2>1. Unquoted(s, 0) /\ Depth(s, 0) = 0
    BY UnquotedFirst, DepthFirst
  <2>2. "(" \notin Quote /\ "(" # ")"
    BY Zenon DEF Quote
  <2>3. s[0 + 1] = "(" /\ 0 < Len(s)
    BY <1>1 DEF IsGroup
  <2> QED
    BY <2>1, <2>2, <2>3, DepthSteps, QuoteSteps
<1>6. e >= 2
  BY <1>4, <1>5 DEF IsGroup
<1>7. Depth(s, e - 1) = 1
  <2>1. e - 1 \in Nat /\ e - 1 < Len(s) /\ (e - 1) + 1 = e
    BY <1>1, <1>4
  <2>2. Depth(s, e - 1) \in Int /\ Depth(s, (e - 1) + 1) = Depth(s, e - 1) - 1
    BY <1>4, <2>1, DepthSteps
  <2> QED
    BY <1>4, <2>1, <2>2
<1> DEFINE P(m) == m + 1 <= e - 1 => Depth(s, m + 1) >= 1
           S == {m \in Nat : P(m)}
<1>8. P(0)
  BY <1>5
<1>9. ASSUME NEW m \in Nat, P(m) PROVE P(m + 1)
  <2> SUFFICES ASSUME (m + 1) + 1 <= e - 1 PROVE Depth(s, (m + 1) + 1) >= 1
    OBVIOUS
  <2> DEFINE n == m + 1
  <2>1. n \in Nat /\ n < Len(s) /\ n + 1 < e /\ n + 1 \in 1..Len(s) /\ (n + 1) - 1 = n
    BY <1>1, <1>4
  <2>2. Depth(s, n) >= 1
    BY <1>4, <1>9, <2>1
  <2> HIDE DEF n
  <2>3. Depth(s, n) \in Int /\ Depth(s, n + 1) \in Int
    BY <2>1, DepthSteps
  <2>4. CASE Unquoted(s, n) /\ s[n + 1] = ")"
    <3>1. ")" \notin Quote
      BY Zenon DEF Quote
    <3>2. Unquoted(s, n + 1) /\ Depth(s, n + 1) = Depth(s, n) - 1
      BY <2>1, <2>4, <3>1, DepthSteps, QuoteSteps
    <3>3. n + 1 \in Unmasked(s)
      BY <2>1, <2>4, <3>2, UnmaskedFacts
    <3>4. n + 1 \notin Closers(s)
      BY <1>3, <1>4, <2>1
    <3>5. Depth(s, n + 1) # 0
      BY <2>4, <3>3, <3>4 DEF Closers
    <3>6. Depth(s, n + 1) >= 1
      BY <2>2, <2>3, <3>2, <3>5
    <3> QED
      BY <3>6 DEF n
  <2>5. CASE ~(Unquoted(s, n) /\ s[n + 1] = ")")
    <3>1. Depth(s, n + 1) \in {Depth(s, n), Depth(s, n) + 1}
      BY <2>1, <2>5, DepthSteps
    <3>2. Depth(s, n + 1) >= 1
      BY <2>2, <2>3, <3>1
    <3> QED
      BY <3>2 DEF n
  <2> QED
    BY <2>4, <2>5
<1> HIDE DEF P
<1>10. Nat \subseteq S
  <2>1. 0 \in S /\ \A m \in Nat : m \in S => m + 1 \in S
    BY <1>8, <1>9
  <2> HIDE DEF S
  <2> QED
    BY <2>1, NumbersInductive
<1>11. ASSUME NEW n \in 1..(e - 1) PROVE Depth(s, n) >= 1
  <2>1. n - 1 \in Nat /\ (n - 1) + 1 = n /\ n <= e - 1
    BY <1>4
  <2>2. P(n - 1)
    BY <1>10, <2>1
  <2> QED
    BY <2>1, <2>2 DEF P
<1>12. e \in 2..Len(s)
  BY <1>1, <1>4, <1>6
<1> QED
  BY <1>4, <1>5, <1>7, <1>11, <1>12 DEF e

LEMMA SeparatorFacts ==
  ASSUME NEW s \in Text, IsGroup(s), NEW i \in Separators(s)
  PROVE  /\ i \in 1..GroupEnd(s) /\ Unquoted(s, i)
         /\ i < GroupEnd(s) => Depth(s, i) = 1
         /\ i > 1 => Unquoted(s, i - 1) /\ Depth(s, i - 1) = 1
<1> DEFINE e == GroupEnd(s)
<1>1. /\ e \in 2..Len(s) /\ Len(s) \in Nat
      /\ Unquoted(s, e - 1) /\ Depth(s, e - 1) = 1 /\ Unquoted(s, e)
      /\ Unquoted(s, 1) /\ Depth(s, 1) = 1
  BY GroupFacts, TextLength
<1>2. i = 1 \/ i = e \/ (i \in Unmasked(s) /\ s[i] = "," /\ Depth(s, i) = 1 /\ i < e)
  BY DEF Separators
<1> HIDE DEF e
<1>3. CASE i = 1
  BY <1>1, <1>3 DEF e
<1>4. CASE i = e
  BY <1>1, <1>4 DEF e
<1>5. CASE i \in Unmasked(s) /\ s[i] = "," /\ Depth(s, i) = 1 /\ i < e
  <2>1. i \in 1..Len(s) /\ Unquoted(s, i - 1) /\ Unquoted(s, i)
    BY <1>5, UnmaskedFacts
  <2>2. i - 1 \in Nat /\ i - 1 < Len(s) /\ (i - 1) + 1 = i
    BY <1>1, <2>1
  <2>3. "," \notin {"(", ")"}
    BY Zenon
  <2>4. Depth(s, i - 1) = 1
    BY <1>5, <2>2, <2>3, DepthSteps
  <2>5. Depth(s, i) = 1 /\ i < e
    BY <1>5
  <2>6. i \in 1..e
    BY <1>1, <2>1, <2>5
  <2> QED
    BY <2>1, <2>4, <2>5, <2>6 DEF e
<1> QED
  BY <1>2, <1>3, <1>4, <1>5

\* What is between two separators.
LEMMA BetweenSeparators ==
  ASSUME NEW s \in Text, IsGroup(s), NEW i \in Separators(s), NEW j \in Separators(s), i < j
  PROVE  /\ SubSeq(s, i + 1, j - 1) \in PairedText
         /\ Len(SubSeq(s, i + 1, j - 1)) = (j - 1) - i
         /\ IsWindow(s, SubSeq(s, i + 1, j - 1), i)
<1> DEFINE e == GroupEnd(s)
           t == SubSeq(s, i + 1, j - 1)
<1>1. /\ e \in 2..Len(s) /\ Len(s) \in Nat /\ \A n \in 1..(e - 1) : Depth(s, n) >= 1
  BY GroupFacts, TextLength
<1>2. i \in 1..e /\ j \in 1..e /\ i < e
  <2>1. i \in 1..e /\ j \in 1..e
    BY SeparatorFacts
  <2> QED
    BY <1>1, <2>1
<1>3. /\ Unquoted(s, i) /\ Depth(s, i) = 1
      /\ Unquoted(s, j - 1) /\ Depth(s, j - 1) = 1
  BY <1>1, <1>2, SeparatorFacts
<1>4. i \in Nat /\ j - 1 \in Nat /\ i <= j - 1 /\ j - 1 <= Len(s) /\ i + ((j - 1) - i) = j - 1
  BY <1>1, <1>2
<1>5. t \in Text /\ Len(t) = (j - 1) - i /\ IsWindow(s, t, i)
  BY <1>3, <1>4, SubSeqWindow
<1> HIDE DEF t, e
<1>6. ASSUME NEW n \in 1..Len(t) PROVE Depth(s, i + n) >= Depth(s, i)
  <2>1. i + n \in 1..(e - 1)
    BY <1>1, <1>2, <1>4, <1>5
  <2> QED
    BY <1>1, <1>3, <2>1
<1>7. InPairs(t)
  BY <1>3, <1>4, <1>5, <1>6, WindowInPairs
<1> QED
  BY <1>5, <1>7 DEF t, PairedText

\* The blanks around a text.
Blank == " "

LEMMA BlankNeutral == Blank \notin Quote \cup {"(", ")"}
  BY Zenon DEF Blank, Quote

IsTrimmed(t, u, q) ==
  /\ IsWindow(t, u, q)
  /\ Depth(t, q) = 0
  /\ Unquoted(t, q + Len(u)) /\ Depth(t, q + Len(u)) = Depth(t, Len(t))
  /\ \A i \in 1..Len(t) : i <= q \/ i > q + Len(u) => t[i] = Blank /\ i \in Unmasked(t)

LEMMA BlanksUnmasked ==
  ASSUME NEW s \in Text, NEW a \in Nat, NEW b \in Nat, a <= b, b <= Len(s),
         Unquoted(s, a), \A i \in (a + 1)..b : s[i] = Blank
  PROVE  \A i \in (a + 1)..b : i \in Unmasked(s)
<1> SUFFICES ASSUME NEW i \in (a + 1)..b PROVE i \in Unmasked(s)
  OBVIOUS
<1>0. Len(s) \in Nat
  BY TextLength
<1>1. /\ i \in Nat /\ i - 1 \in Nat /\ a <= i /\ a <= i - 1 /\ i <= Len(s) /\ i - 1 <= Len(s)
      /\ i \in 1..Len(s)
      /\ \A n \in (a + 1)..i : n \in (a + 1)..b
      /\ \A n \in (a + 1)..(i - 1) : n \in (a + 1)..b
  BY <1>0
<1>2. Blank \notin Quote
  BY BlankNeutral
<1>3. /\ \A n \in (a + 1)..i : s[n] \notin Quote
      /\ \A n \in (a + 1)..(i - 1) : s[n] \notin Quote
  BY <1>1, <1>2
<1>4. Unquoted(s, i) /\ Unquoted(s, i - 1)
  <2>1. Unquoted(s, i)
    BY <1>1, <1>3, NothingQuoted
  <2> DEFINE j == i - 1
  <2>2. j \in Nat /\ a <= j /\ j <= Len(s) /\ \A n \in (a + 1)..j : s[n] \notin Quote
    BY <1>1, <1>3
  <2> HIDE DEF j
  <2>3. Unquoted(s, j)
    BY <2>2, NothingQuoted
  <2> QED
    BY <2>1, <2>3 DEF j
<1> QED
  BY <1>1, <1>4, UnmaskedFacts

LEMMA TrimFacts ==
  ASSUME NEW t \in Text, Unquoted(t, Len(t))
  PROVE  Trim[t] \in Text /\ \E q : IsTrimmed(t, Trim[t], q)
<1> DEFINE kept == {i \in DOMAIN t : t[i] # Blank}
<1>1. Len(t) \in Nat /\ DOMAIN t = 1..Len(t) /\ Unquoted(t, 0) /\ Depth(t, 0) = 0
  BY TextLength, UnquotedFirst, DepthFirst
<1>2. Trim[t] = IF kept = {} THEN << >> ELSE SubSeq(t, Min(kept), Max(kept))
  BY Zenon DEF Trim, Blank
<1>3. CASE kept = {}
  <2>1. \A i \in 1..Len(t) : t[i] = Blank
    BY <1>1, <1>3
  <2>2. Trim[t] = << >> /\ << >> \in Text /\ Len(<< >>) = 0
    BY <1>2, <1>3 DEF Text
  <2>3. Depth(t, Len(t)) = 0
    <3>1. \A i \in (0 + 1)..Len(t) : t[i] \notin Quote \cup {"(", ")"}
      BY <2>1, BlankNeutral
    <3> QED
      BY <1>1, <3>1, NothingOpened
  <2>4. \A i \in 1..Len(t) : i \in Unmasked(t)
    BY <1>1, <2>1, BlanksUnmasked
  <2>5. IsTrimmed(t, << >>, 0)
    BY <1>1, <2>1, <2>2, <2>3, <2>4 DEF IsTrimmed, IsWindow
  <2> QED
    BY <2>2, <2>5
<1>4. CASE kept # {}
  <2> DEFINE a == Min(kept)
             b == Max(kept)
             q == a - 1
             u == SubSeq(t, q + 1, b)
  <2>1. kept \subseteq Nat /\ \A i \in kept : i <= Len(t)
    BY <1>1
  <2>2. a \in kept /\ (\A i \in kept : a <= i) /\ b \in kept /\ (\A i \in kept : i <= b)
    <3> HIDE DEF kept
    <3> QED
      BY <1>1, <1>4, <2>1, MinExists, MaxExists
  <2> HIDE DEF a, b, u
  <2>3. /\ a \in 1..Len(t) /\ b \in 1..Len(t) /\ a <= b
        /\ \A i \in 1..Len(t) : i < a \/ i > b => t[i] = Blank
    <3>1. a \in 1..Len(t) /\ b \in 1..Len(t) /\ a <= b
      BY <1>1, <2>2
    <3>2. ASSUME NEW i \in 1..Len(t), i < a \/ i > b PROVE t[i] = Blank
      <4>1. i \notin kept
        <5> HIDE DEF kept
        <5> QED
          BY <1>1, <2>2, <3>1, <3>2
      <4> QED
        BY <1>1, <4>1
    <3> QED
      BY <3>1, <3>2
  <2> HIDE DEF kept
  <2>4. q \in Nat /\ b \in Nat /\ q <= b /\ b <= Len(t) /\ q + 1 = a /\ q + (b - q) = b /\ q <= Len(t)
    BY <1>1, <2>3
  <2> HIDE DEF q
  <2>5. Unquoted(t, q) /\ Depth(t, q) = 0
    <3>1. \A i \in (0 + 1)..q : i \in 1..Len(t) /\ i < a
      BY <2>3, <2>4
    <3>2. \A i \in (0 + 1)..q : t[i] \notin Quote \cup {"(", ")"}
      BY <2>3, <3>1, BlankNeutral
    <3> QED
      BY <1>1, <2>4, <3>2, NothingOpened
  <2>6. Unquoted(t, b) /\ Depth(t, b) = Depth(t, Len(t))
    <3>1. \A i \in (b + 1)..Len(t) : i \in 1..Len(t) /\ i > b
      BY <1>1, <2>3
    <3>2. \A i \in (b + 1)..Len(t) : t[i] \notin Quote \cup {"(", ")"}
      BY <2>3, <3>1, BlankNeutral
    <3>3. Unquoted(t, b)
      BY <1>1, <2>4, <3>2, StillQuoted
    <3> QED
      BY <1>1, <2>4, <3>2, <3>3, NothingOpened
  <2>7. Trim[t] = u
    BY <1>2, <1>4, <2>4 DEF a, b, u
  <2>8. u \in Text /\ Len(u) = b - q /\ IsWindow(t, u, q)
    BY <2>4, <2>5, SubSeqWindow DEF u
  <2>9. \A i \in 1..Len(t) : i <= q \/ i > q + Len(u) => t[i] = Blank /\ i \in Unmasked(t)
    <3>1. \A i \in 1..Len(t) : (i <= q => i < a) /\ (i > q + Len(u) => i > b)
      BY <1>1, <2>3, <2>4, <2>8
    <3>2. \A i \in 1..q : i \in Unmasked(t)
      <4>1. \A i \in (0 + 1)..q : i \in 1..Len(t) /\ i < a
        BY <2>3, <2>4
      <4>2. \A i \in (0 + 1)..q : t[i] = Blank
        BY <2>3, <4>1
      <4>3. \A i \in (0 + 1)..q : i \in Unmasked(t)
        BY <1>1, <2>4, <4>2, BlanksUnmasked
      <4> QED
        BY <4>3
    <3>3. \A i \in (b + 1)..Len(t) : i \in Unmasked(t)
      <4>1. \A i \in (b + 1)..Len(t) : i \in 1..Len(t) /\ i > b
        BY <1>1, <2>3
      <4>2. \A i \in (b + 1)..Len(t) : t[i] = Blank
        BY <2>3, <4>1
      <4> QED
        BY <1>1, <2>4, <2>6, <4>2, BlanksUnmasked
    <3>4. \A i \in 1..Len(t) : (i <= q => i \in 1..q) /\ (i > q + Len(u) => i \in (b + 1)..Len(t))
      BY <1>1, <2>3, <2>4, <2>8
    <3> QED
      BY <2>3, <3>1, <3>2, <3>3, <3>4
  <2>10. IsTrimmed(t, u, q)
    BY <2>4, <2>5, <2>6, <2>8, <2>9 DEF IsTrimmed
  <2> QED
    BY <2>7, <2>8, <2>10
<1> QED
  BY <1>3, <1>4

LEMMA TrimInPairs ==
  ASSUME NEW t \in PairedText
  PROVE  Trim[t] \in PairedText /\ \E q : IsTrimmed(t, Trim[t], q)
<1> DEFINE u == Trim[t]
<1>1. t \in Text /\ InPairs(t)
  BY DEF PairedText
<1>2. /\ Unquoted(t, Len(t)) /\ Depth(t, Len(t)) = 0
      /\ \A n \in 1..Len(t) : Depth(t, n) >= 0
  BY <1>1, InPairsFacts
<1>3. u \in Text /\ \E q : IsTrimmed(t, u, q)
  BY <1>1, <1>2, TrimFacts
<1> HIDE DEF u
<1>4. PICK q : IsTrimmed(t, u, q)
  BY <1>3
<1>5. /\ IsWindow(t, u, q) /\ Depth(t, q) = 0 /\ Unquoted(t, q + Len(u))
      /\ Depth(t, q + Len(u)) = Depth(t, q)
  BY <1>2, <1>4 DEF IsTrimmed
<1>6. ASSUME NEW n \in 1..Len(u) PROVE Depth(t, q + n) >= Depth(t, q)
  <2>1. q \in Nat /\ Len(t) \in Nat /\ Len(u) \in Nat /\ q + Len(u) <= Len(t)
    BY <1>1, <1>3, <1>5, TextLength DEF IsWindow
  <2>2. q + n \in 1..Len(t)
    BY <2>1
  <2> QED
    BY <1>2, <1>5, <2>2
<1>7. InPairs(u)
  BY <1>1, <1>3, <1>5, <1>6, WindowInPairs
<1> QED
  BY <1>3, <1>4, <1>7 DEF u, PairedText

\* ArgsUpTo is defined and goes from position to position.
ArgBefore(s, n) ==
  Trim[SubSeq(s, Max({i \in Separators(s) : i < n}) + 1, n - 1)]
Pushed(args, s, n) ==
  IF n \notin Separators(s) THEN args ELSE Append(args, ArgBefore(s, n))

IsArgs(f, s, n) ==
  /\ DOMAIN f = 1..n
  /\ f[1] = << >>
  /\ \A i \in 2..n : f[i] = Pushed(f[i - 1], s, i)

LEMMA ArgsExist ==
  ASSUME NEW s, NEW n \in Nat, n >= 1
  PROVE  \E f : f = [i \in 1..n |-> IF i = 1 THEN << >> ELSE Pushed(f[i - 1], s, i)]
<1> DEFINE P(m) == \E f : IsArgs(f, s, m + 1)
           S == {m \in Nat : P(m)}
<1>1. P(0)
  <2>1. IsArgs([i \in 1..1 |-> << >>], s, 0 + 1)
    BY DEF IsArgs
  <2> QED
    BY <2>1
<1>2. ASSUME NEW m \in Nat, P(m) PROVE P(m + 1)
  <2>1. PICK f : IsArgs(f, s, m + 1)
    BY <1>2
  <2> DEFINE g == [i \in 1..((m + 1) + 1) |->
                     IF i <= m + 1 THEN f[i] ELSE Pushed(f[m + 1], s, (m + 1) + 1)]
  <2>2. IsArgs(g, s, (m + 1) + 1)
    BY <2>1 DEF IsArgs
  <2> QED
    BY <2>2
<1> HIDE DEF P
<1>3. Nat \subseteq S
  <2>1. 0 \in S /\ \A m \in Nat : m \in S => m + 1 \in S
    BY <1>1, <1>2
  <2> HIDE DEF S
  <2> QED
    BY <2>1, NumbersInductive
<1>4. P(n - 1) /\ (n - 1) + 1 = n
  BY <1>3
<1>5. PICK f : IsArgs(f, s, n)
  BY <1>4 DEF P
<1> DEFINE g == [i \in 1..n |-> f[i]]
<1>6. g = [i \in 1..n |-> IF i = 1 THEN << >> ELSE Pushed(g[i - 1], s, i)]
  BY <1>5 DEF IsArgs
<1> QED
  BY <1>6

LEMMA ArgsUpToDef ==
  ASSUME NEW s \in Text, s # << >>
  PROVE  IsArgs(ArgsUpTo[s], s, Len(s))
<1>0. Len(s) \in Nat /\ Len(s) >= 1 /\ DOMAIN s = 1..Len(s)
  BY DEF Text
<1> DEFINE args[n \in DOMAIN s] ==
        IF n = 1 THEN << >>
        ELSE IF n \notin Separators(s) THEN args[n - 1]
        ELSE Append(args[n - 1],
                    Trim[SubSeq(s, Max({i \in Separators(s) : i < n}) + 1, n - 1)])
<1>1. ArgsUpTo[s] = args
  BY Zenon DEF ArgsUpTo
<1>2. PICK f : f = [i \in 1..Len(s) |-> IF i = 1 THEN << >> ELSE Pushed(f[i - 1], s, i)]
  BY <1>0, ArgsExist
<1>3. f = [n \in DOMAIN s |->
             IF n = 1 THEN << >>
             ELSE IF n \notin Separators(s) THEN f[n - 1]
             ELSE Append(f[n - 1],
                         Trim[SubSeq(s, Max({i \in Separators(s) : i < n}) + 1, n - 1)])]
  BY <1>0, <1>2, Zenon DEF Pushed, ArgBefore
<1>4. args = [n \in DOMAIN s |->
                IF n = 1 THEN << >>
                ELSE IF n \notin Separators(s) THEN args[n - 1]
                ELSE Append(args[n - 1],
                            Trim[SubSeq(s, Max({i \in Separators(s) : i < n}) + 1, n - 1)])]
  BY <1>3, Zenon
<1> HIDE DEF args
<1>5. args = [i \in 1..Len(s) |-> IF i = 1 THEN << >> ELSE Pushed(args[i - 1], s, i)]
  BY <1>0, <1>4, Zenon DEF Pushed, ArgBefore
<1>6. IsArgs(args, s, Len(s))
  BY <1>0, <1>5 DEF IsArgs
<1> QED
  BY <1>1, <1>6

\* The arguments of a list: texts in it with their parentheses in pairs.
IsArgAt(s, u, p) == IsWindow(s, u, p) /\ p >= 1 /\ p + Len(u) < GroupEnd(s)
ArgOf(s) == {u \in PairedText : \E p \in Nat : IsArgAt(s, u, p)}

\* All but blanks and separators is in one of them.
InArg(s, i, args) ==
  \E k \in DOMAIN args, p \in Nat :
    IsArgAt(s, args[k], p) /\ p < i /\ i <= p + Len(args[k])
Covered(s, i, args) ==
  \/ i \in Separators(s)
  \/ i \in Unmasked(s) /\ s[i] = Blank
  \/ InArg(s, i, args)

LEMMA ArgBetween ==
  ASSUME NEW s \in Text, IsGroup(s), NEW i \in Separators(s), NEW j \in Separators(s), i < j,
         NEW u, u = Trim[SubSeq(s, i + 1, j - 1)]
  PROVE  /\ u \in ArgOf(s)
         /\ \E p \in Nat : /\ IsArgAt(s, u, p)
                           /\ \A n \in (i + 1)..(j - 1) :
                                \/ p < n /\ n <= p + Len(u)
                                \/ n \in Unmasked(s) /\ s[n] = Blank
<1> DEFINE t == SubSeq(s, i + 1, j - 1)
           e == GroupEnd(s)
<1>1. t \in PairedText /\ Len(t) = (j - 1) - i /\ IsWindow(s, t, i)
  BY BetweenSeparators
<1>2. i \in 1..e /\ j \in 1..e /\ e \in Nat
  BY SeparatorFacts, GroupFacts
<1>3. u = Trim[t]
  OBVIOUS
<1> HIDE DEF t, e
<1>4. t \in Text /\ u \in PairedText
  BY <1>1, <1>3, TrimInPairs DEF PairedText
<1>5. PICK q : IsTrimmed(t, u, q)
  BY <1>1, <1>3, TrimInPairs
<1>6. u \in Text /\ IsWindow(t, u, q)
  BY <1>4, <1>5 DEF IsTrimmed, PairedText
<1>7. IsWindow(s, u, i + q)
  BY <1>1, <1>4, <1>6, WindowOfWindow
<1>8. /\ q \in Nat /\ Len(u) \in Nat /\ q + Len(u) <= Len(t) /\ Len(t) \in Nat
      /\ i + q \in Nat /\ i + q >= 1 /\ (i + q) + Len(u) < e
  <2>1. q \in Nat /\ Len(u) \in Nat /\ q + Len(u) <= Len(t) /\ Len(t) \in Nat
    BY <1>4, <1>6, TextLength DEF IsWindow
  <2> DEFINE lu == Len(u)
             lt == Len(t)
  <2>2. q \in Nat /\ lu \in Nat /\ q + lu <= lt /\ lt = (j - 1) - i /\ i \in 1..e /\ j \in 1..e /\ e \in Nat
    BY <1>1, <1>2, <2>1
  <2> HIDE DEF lu, lt
  <2>3. i + q \in Nat /\ i + q >= 1 /\ (i + q) + lu < e
    BY <2>2
  <2> QED
    BY <2>1, <2>3 DEF lu
<1>9. IsArgAt(s, u, i + q)
  BY <1>7, <1>8 DEF IsArgAt, e
<1>10. ASSUME NEW n \in (i + 1)..(j - 1)
       PROVE  \/ i + q < n /\ n <= (i + q) + Len(u)
              \/ n \in Unmasked(s) /\ s[n] = Blank
  <2> DEFINE m == n - i
  <2>1. m \in 1..Len(t) /\ i + m = n
    BY <1>1, <1>2
  <2>2. CASE q < m /\ m <= q + Len(u)
    <3> DEFINE lu == Len(u)
    <3>1. q \in Nat /\ lu \in Nat /\ i \in Int /\ m \in Int /\ q < m /\ m <= q + lu /\ i + m = n
      BY <1>2, <1>8, <2>1, <2>2
    <3> HIDE DEF lu, m
    <3>2. i + q < n /\ n <= (i + q) + lu
      BY <3>1
    <3> QED
      BY <3>2 DEF lu
  <2>3. CASE m <= q \/ m > q + Len(u)
    <3> HIDE DEF m
    <3>1. t[m] = Blank /\ m \in Unmasked(t)
      BY <1>5, <2>1, <2>3 DEF IsTrimmed
    <3>2. t[m] = s[i + m] /\ (i + m \in Unmasked(s) <=> m \in Unmasked(t))
      BY <1>1, <1>4, <2>1, WindowUnmasked
    <3> QED
      BY <2>1, <3>1, <3>2
  <2>4. m \in Int /\ q + Len(u) \in Int
    BY <1>8, <2>1
  <2> HIDE DEF m
  <2> QED
    BY <1>8, <2>2, <2>3, <2>4
<1>11. u \in ArgOf(s)
  BY <1>4, <1>8, <1>9 DEF ArgOf
<1> QED
  BY <1>8, <1>9, <1>10, <1>11

LEMMA PushedArg ==
  ASSUME NEW s \in Text, IsGroup(s), NEW n \in 2..GroupEnd(s), NEW args \in Seq(ArgOf(s)),
         \A m \in Separators(s) : m < n => \A i \in 1..m : Covered(s, i, args)
  PROVE  /\ Pushed(args, s, n) \in Seq(ArgOf(s))
         /\ \A m \in Separators(s) : m <= n => \A i \in 1..m : Covered(s, i, Pushed(args, s, n))
<1> DEFINE e == GroupEnd(s)
           pushed == Pushed(args, s, n)
<1>1. e \in Nat /\ n \in Nat /\ \A m \in Separators(s) : m \in 1..e
  BY GroupFacts, SeparatorFacts
<1>2. CASE n \notin Separators(s)
  <2>1. pushed = args
    BY <1>2 DEF Pushed
  <2>2. \A m \in Separators(s) : m <= n => m < n
    BY <1>1, <1>2
  <2> QED
    BY <2>1, <2>2
<1>3. CASE n \in Separators(s)
  <2> DEFINE T == {i \in Separators(s) : i < n}
             before == Max(T)
             u == ArgBefore(s, n)
  <2>1. before \in T /\ \A m \in T : m <= before
    <3>1. 1 \in T
      <4>1. 1 \in Separators(s)
        BY Zenon DEF Separators
      <4>2. 1 < n
        BY <1>1
      <4> QED
        BY <4>1, <4>2
    <3>2. T \subseteq Nat /\ \A m \in T : m <= n
      BY <1>1
    <3> HIDE DEF T
    <3> QED
      BY <1>1, <3>1, <3>2, MaxExists
  <2>2. u = Trim[SubSeq(s, before + 1, n - 1)]
    BY DEF ArgBefore
  <2> HIDE DEF before, u
  <2>3. /\ before \in Separators(s) /\ before < n
        /\ \A m \in Separators(s) : m < n => m <= before
    BY <2>1
  <2> HIDE DEF T
  <2>4. u \in ArgOf(s)
    BY <1>3, <2>2, <2>3, ArgBetween
  <2>5. PICK p \in Nat : /\ IsArgAt(s, u, p)
                         /\ \A i \in (before + 1)..(n - 1) :
                              \/ p < i /\ i <= p + Len(u)
                              \/ i \in Unmasked(s) /\ s[i] = Blank
    BY <1>3, <2>2, <2>3, ArgBetween
  <2>6. pushed = Append(args, u)
    BY <1>3 DEF Pushed, u
  <2>7. /\ pushed \in Seq(ArgOf(s)) /\ Len(pushed) = Len(args) + 1 /\ Len(args) \in Nat
        /\ DOMAIN args = 1..Len(args) /\ DOMAIN pushed = 1..(Len(args) + 1)
        /\ pushed[Len(args) + 1] = u /\ \A k \in 1..Len(args) : pushed[k] = args[k]
    BY <2>4, <2>6
  <2> HIDE DEF pushed
  <2>8. ASSUME NEW i \in 1..before PROVE Covered(s, i, pushed)
    <3>1. Covered(s, i, args)
      BY <2>3
    <3>2. InArg(s, i, args) => InArg(s, i, pushed)
      <4>1. \A k \in DOMAIN args : k \in DOMAIN pushed /\ pushed[k] = args[k]
        BY <2>7
      <4> QED
        BY <4>1, Zenon DEF InArg
    <3> QED
      BY <3>1, <3>2 DEF Covered
  <2>9. ASSUME NEW i \in (before + 1)..(n - 1) PROVE Covered(s, i, pushed)
    <3>1. CASE p < i /\ i <= p + Len(u)
      <4>1. Len(args) + 1 \in DOMAIN pushed /\ pushed[Len(args) + 1] = u
        BY <2>7
      <4>2. InArg(s, i, pushed)
        BY <2>5, <3>1, <4>1, Zenon DEF InArg
      <4> QED
        BY <4>2 DEF Covered
    <3>2. CASE i \in Unmasked(s) /\ s[i] = Blank
      BY <3>2 DEF Covered
    <3> QED
      BY <2>5, <3>1, <3>2
  <2>10. Covered(s, n, pushed)
    BY <1>3 DEF Covered
  <2>11. ASSUME NEW m \in Separators(s), m <= n, NEW i \in 1..m PROVE Covered(s, i, pushed)
    <3>1. i \in 1..before \/ i \in (before + 1)..(n - 1) \/ i = n
      BY <1>1, <2>3, <2>11
    <3> QED
      BY <2>8, <2>9, <2>10, <3>1
  <2> QED
    BY <2>7, <2>11 DEF pushed
<1> QED
  BY <1>2, <1>3

LEMMA MacroArgTokensFacts ==
  ASSUME NEW s \in Text, IsGroup(s)
  PROVE  /\ MacroArgTokens[s] \in Seq(ArgOf(s))
         /\ \A i \in 1..GroupEnd(s) : Covered(s, i, MacroArgTokens[s])
<1> DEFINE e == GroupEnd(s)
           f == ArgsUpTo[s]
           P(m) == m + 1 <= e =>
                     /\ f[m + 1] \in Seq(ArgOf(s))
                     /\ \A j \in Separators(s) :
                          j <= m + 1 => \A i \in 1..j : Covered(s, i, f[m + 1])
           S == {m \in Nat : P(m)}
<1>1. e \in 2..Len(s) /\ Len(s) \in Nat /\ \A m \in Separators(s) : m \in 1..e
  BY GroupFacts, SeparatorFacts, TextLength
<1>2. IsArgs(f, s, Len(s))
  BY ArgsUpToDef DEF IsGroup
<1>3. 1 \in Separators(s) /\ e \in Separators(s)
  BY Zenon DEF Separators
<1> HIDE DEF e, f
<1>4. P(0)
  <2>1. f[0 + 1] = << >>
    BY <1>2 DEF IsArgs
  <2>2. << >> \in Seq(ArgOf(s))
    OBVIOUS
  <2>3. \A j \in Separators(s) : j <= 0 + 1 => \A i \in 1..j : i = 1
    BY <1>1
  <2>4. Covered(s, 1, << >>)
    BY <1>3 DEF Covered
  <2> QED
    BY <2>1, <2>2, <2>3, <2>4
<1>5. ASSUME NEW m \in Nat, P(m) PROVE P(m + 1)
  <2> SUFFICES ASSUME (m + 1) + 1 <= e
               PROVE  /\ f[(m + 1) + 1] \in Seq(ArgOf(s))
                      /\ \A j \in Separators(s) :
                           j <= (m + 1) + 1 => \A i \in 1..j : Covered(s, i, f[(m + 1) + 1])
    OBVIOUS
  <2> DEFINE n == (m + 1) + 1
             args == f[m + 1]
  <2>1. n \in 2..e /\ n \in 2..Len(s) /\ n - 1 = m + 1 /\ m + 1 <= e
    BY <1>1
  <2>2. f[n] = Pushed(args, s, n)
    BY <1>2, <2>1 DEF IsArgs
  <2>3. args \in Seq(ArgOf(s))
    BY <1>5, <2>1
  <2>4. \A j \in Separators(s) : j < n => \A i \in 1..j : Covered(s, i, args)
    <3>1. \A j \in Separators(s) : j < n => j <= m + 1
      BY <1>1, <2>1
    <3> QED
      BY <1>5, <2>1, <3>1
  <2> HIDE DEF n, args
  <2>5. /\ Pushed(args, s, n) \in Seq(ArgOf(s))
        /\ \A j \in Separators(s) : j <= n => \A i \in 1..j : Covered(s, i, Pushed(args, s, n))
    BY <2>1, <2>3, <2>4, PushedArg DEF e
  <2>6. /\ f[n] \in Seq(ArgOf(s))
        /\ \A j \in Separators(s) : j <= n => \A i \in 1..j : Covered(s, i, f[n])
    BY <2>2, <2>5
  <2> QED
    BY <2>6 DEF n
<1> HIDE DEF P
<1>6. Nat \subseteq S
  <2>1. 0 \in S /\ \A m \in Nat : m \in S => m + 1 \in S
    BY <1>4, <1>5
  <2> HIDE DEF S
  <2> QED
    BY <2>1, NumbersInductive
<1>7. P(e - 1) /\ (e - 1) + 1 = e
  <2>1. e - 1 \in Nat /\ (e - 1) + 1 = e
    BY <1>1
  <2> QED
    BY <1>6, <2>1
<1>8. f[e] \in Seq(ArgOf(s)) /\ \A i \in 1..e : Covered(s, i, f[e])
  <2>1. e <= (e - 1) + 1 /\ (e - 1) + 1 <= e
    BY <1>1
  <2> QED
    BY <1>3, <1>7, <2>1 DEF P
<1>9. MacroArgTokens[s] = IF f[e] = << << >> >> THEN << >> ELSE f[e]
  BY Zenon DEF MacroArgTokens, f, e
<1>10. CASE f[e] # << << >> >>
  BY <1>8, <1>9, <1>10 DEF e
<1>11. CASE f[e] = << << >> >>
  <2>1. MacroArgTokens[s] = << >> /\ << >> \in Seq(ArgOf(s))
    BY <1>9, <1>11
  <2>2. ASSUME NEW i \in 1..e PROVE ~InArg(s, i, f[e])
    <3> SUFFICES ASSUME NEW k \in DOMAIN f[e], NEW p \in Nat,
                        p < i /\ i <= p + Len(f[e][k])
                 PROVE  FALSE
      BY Zenon DEF InArg
    <3>1. f[e][k] = << >>
      BY <1>11
    <3>2. Len(f[e][k]) = 0
      BY <3>1
    <3> QED
      BY <1>1, <3>2
  <2>3. \A i \in 1..e : Covered(s, i, << >>)
    BY <1>8, <2>2, Zenon DEF Covered
  <2> QED
    BY <2>1, <2>3 DEF e
<1> QED
  BY <1>10, <1>11

-------------------------------------------------------------------------------
\* Rewriting.

LEMMA PlaceholderInPairs ==
  ASSUME NEW args \in Seq(PairedText), NEW ph \in [number : Nat, range_end : Nat],
         ph.number \in DOMAIN args,
         ph.range_end # 0 => ph.range_end \in DOMAIN args /\ ph.number <= ph.range_end
  PROVE  RewrittenPlaceholder(ph, args) \in PairedText
<1>1. CASE ph.range_end > ph.number
  <2> DEFINE a == ph.number
             b == ph.range_end
  <2>1. a \in Nat /\ b \in Nat /\ b > a /\ Len(args) \in Nat /\ DOMAIN args = 1..Len(args)
    BY <1>1
  <2>2. a \in 1..Len(args) /\ b \in 1..Len(args)
    BY <1>1, <2>1
  <2> HIDE DEF a, b
  <2>3. SubSeq(args, a, b) \in Seq(PairedText)
    BY <2>1, <2>2
  <2>4. Joined[SubSeq(args, a, b)] \in PairedText
    BY <2>3, JoinedInPairs
  <2> QED
    BY <1>1, <2>4 DEF RewrittenPlaceholder, a, b
<1>2. CASE ~(ph.range_end > ph.number)
  <2>1. args[ph.number] \in PairedText
    OBVIOUS
  <2> QED
    BY <1>2, <2>1 DEF RewrittenPlaceholder
<1> QED
  BY <1>1, <1>2

LEMMA AlignedUnquoted ==
  ASSUME NEW s \in Text, NEW n \in 0..Len(s), Unquoted(s, n),
         NEW t \in Text, NEW m \in 0..Len(t), Unquoted(t, m),
         NEW g \in Int, Depth(s, n) = Depth(t, m) + g
  PROVE  Aligned(Open[s][n], Open[t][m], g)
<1>1. Open[s][n].escaped = FALSE /\ Open[t][m].escaped = FALSE
  BY NotEscaped
<1>2. Open[s][n].quote = Open[t][m].quote
  BY Zenon DEF Unquoted
<1> QED
  BY <1>1, <1>2 DEF Aligned, SameQuote, Depth

\* Tokens outside quotes that mean nothing there can stand for texts with their
\* parentheses in pairs.
Simulates(t, s, n) ==
  /\ t \in Text /\ Aligned(Open[t][Len(t)], Open[s][n], 0)
  /\ \A i \in 1..Len(t) : Depth(t, i) >= 0

LEMMA SimulatesToken ==
  ASSUME NEW s \in Text, InPairs(s), NEW n \in Nat, n < Len(s),
         NEW t, Simulates(t, s, n)
  PROVE  Simulates(t \o << s[n + 1] >>, s, n + 1)
<1> DEFINE c == s[n + 1]
           k == Len(t)
           b == << c >>
           u == t \o b
<1>1. /\ Len(s) \in Nat /\ n \in 0..Len(s) /\ n \in 0..(Len(s) - 1) /\ n + 1 \in 1..Len(s)
      /\ n + 1 \in 0..Len(s)
  BY TextLength
<1>2. /\ Open[s][n] \in OpenAt /\ c \in Token /\ Open[s][n + 1] = After(Open[s][n], c)
  BY <1>1, OpenSteps
<1> HIDE DEF c
<1>3. b \in Text /\ Len(b) = 1 /\ b[1] = c
  BY <1>2 DEF Text
<1>4. t \in Text /\ k \in Nat /\ Aligned(Open[t][k], Open[s][n], 0)
  BY TextLength DEF Simulates
<1> HIDE DEF b
<1>5. u \in Text /\ Len(u) = k + 1 /\ u[k + 1] = c /\ IsWindow(u, t, 0)
  <2>1. /\ u \in Text /\ Len(u) = k + Len(b) /\ \A j \in 1..Len(b) : u[k + j] = b[j]
        /\ IsWindow(u, t, 0)
    BY <1>3, <1>4, ConcatText, ConcatWindows
  <2> HIDE DEF u, k
  <2> QED
    BY <1>3, <2>1
<1> HIDE DEF u, k
<1>6. /\ k \in 0..Len(u) /\ k \in 0..(Len(u) - 1) /\ k + 1 \in 0..Len(u)
      /\ Depth(u, 0) = 0 /\ \A i \in Int : 0 + i = i
  BY <1>4, <1>5, DepthFirst
<1>7. \A i \in 0..k : Aligned(Open[u][i], Open[t][i], 0)
  BY <1>4, <1>5, <1>6, WindowAligned DEF k
<1>8. Open[u][k] \in OpenAt /\ Open[u][k + 1] = After(Open[u][k], c)
  BY <1>5, <1>6, OpenSteps
<1>9. Aligned(Open[u][k], Open[s][n], 0)
  <2>1. Aligned(Open[u][k], Open[t][k], 0)
    BY <1>4, <1>7
  <2>2. Open[t][k].groups + 0 = Open[t][k].groups
    <3>1. Depth(t, k) \in Int
      BY <1>4, DepthType DEF k
    <3> QED
      BY <3>1 DEF Depth
  <2> QED
    BY <1>4, <2>1, <2>2, Zenon DEF Aligned, SameQuote
<1>10. Aligned(Open[u][k + 1], Open[s][n + 1], 0)
  BY <1>2, <1>8, <1>9, AlignedNext
<1>11. Depth(u, k + 1) >= 0
  <2>1. Depth(s, n + 1) >= 0 /\ Depth(s, n + 1) \in Int
    BY <1>1, InPairsFacts, DepthType
  <2>2. Depth(u, k + 1) = Depth(s, n + 1) + 0
    BY <1>10, Zenon DEF Aligned, Depth
  <2> QED
    BY <2>1, <2>2
<1>12. ASSUME NEW i \in 1..(k + 1) PROVE Depth(u, i) >= 0
  <2>1. CASE i \in 1..k
    <3>1. Depth(t, i) >= 0 /\ Depth(t, i) \in Int
      BY <1>4, <2>1, DepthType DEF Simulates, k
    <3>2. i \in 0..k
      BY <2>1
    <3>3. Depth(u, i) = Depth(t, i) + 0
      BY <1>7, <3>2, Zenon DEF Aligned, Depth
    <3> QED
      BY <3>1, <3>3
  <2>2. CASE i = k + 1
    BY <1>11, <2>2
  <2> QED
    BY <1>4, <2>1, <2>2
<1> QED
  BY <1>5, <1>10, <1>12 DEF Simulates, u, b, c

LEMMA SimulatesPiece ==
  ASSUME NEW s \in Text, InPairs(s), NEW n \in Nat, n < Len(s),
         Unquoted(s, n), s[n + 1] \notin Quote \cup {"(", ")"},
         NEW t, Simulates(t, s, n), NEW piece \in PairedText
  PROVE  Simulates(t \o piece, s, n + 1)
<1> DEFINE k == Len(t)
           m == Len(piece)
           u == t \o piece
<1>1. Len(s) \in Nat /\ n \in 0..Len(s) /\ n + 1 \in 0..Len(s)
  BY TextLength
<1>2. Unquoted(s, n + 1) /\ Depth(s, n + 1) = Depth(s, n) /\ Depth(s, n) \in Int
  BY <1>1, QuoteSteps, DepthSteps
<1>3. /\ t \in Text /\ k \in Nat /\ Aligned(Open[t][k], Open[s][n], 0)
      /\ piece \in Text /\ m \in Nat /\ InPairs(piece)
      /\ \A i \in 1..k : Depth(t, i) >= 0
  BY TextLength DEF Simulates, PairedText
<1>4. Unquoted(t, k) /\ Depth(t, k) = Depth(s, n)
  <2>1. Unquoted(t, k)
    BY <1>3, Zenon DEF Aligned, SameQuote, Unquoted
  <2>2. Depth(t, k) = Depth(s, n) + 0
    BY <1>3, Zenon DEF Aligned, Depth
  <2> QED
    BY <1>2, <2>1, <2>2
<1>5. /\ u \in Text /\ Len(u) = k + m /\ IsWindow(u, t, 0) /\ IsWindow(u, piece, k)
  BY <1>3, <1>4, ConcatText, ConcatWindows
<1> HIDE DEF u
<1>6. \A i \in 0..k : Depth(u, i) = Depth(t, i) /\ Depth(t, i) \in Int
  <2> SUFFICES ASSUME NEW i \in 0..k PROVE Depth(u, i) = Depth(t, i) /\ Depth(t, i) \in Int
    OBVIOUS
  <2>1. Depth(t, i) \in Int /\ Depth(u, 0 + i) = Depth(t, i) + Depth(u, 0)
    BY <1>3, <1>5, WindowOpen
  <2>2. 0 + i = i /\ Depth(u, 0) = 0
    BY <1>3, <1>5, DepthFirst
  <2> QED
    BY <2>1, <2>2
<1>7. /\ Unquoted(u, k + m) /\ Depth(u, k + m) = Depth(u, k)
      /\ \A i \in 1..m : Depth(u, k + i) >= Depth(u, k)
  BY <1>3, <1>5, WindowInPairs
<1> HIDE DEF k, m
<1>8. Depth(u, k) = Depth(s, n) /\ Depth(s, n) >= 0
  <2>1. k \in 0..k
    BY <1>3
  <2>2. Depth(s, n) >= 0
    <3>1. CASE n = 0
      BY <3>1, DepthFirst
    <3>2. CASE n # 0
      BY <1>1, <3>2, InPairsFacts
    <3> QED
      BY <3>1, <3>2
  <2> QED
    BY <1>4, <1>6, <2>1, <2>2
<1>9. Aligned(Open[u][k + m], Open[s][n + 1], 0)
  <2>1. k + m \in 0..Len(u) /\ Depth(u, k + m) = Depth(s, n + 1) + 0 /\ 0 \in Int
    BY <1>2, <1>3, <1>5, <1>7, <1>8
  <2> QED
    BY <1>1, <1>2, <1>5, <1>7, <2>1, AlignedUnquoted
<1>10. ASSUME NEW i \in 1..(k + m) PROVE Depth(u, i) >= 0
  <2>1. CASE i \in 1..k
    <3>1. i \in 0..k
      BY <2>1
    <3> QED
      BY <1>3, <1>6, <2>1, <3>1
  <2>2. CASE i \notin 1..k
    <3> DEFINE j == i - k
    <3>1. j \in 1..m /\ k + j = i /\ i \in 0..Len(u)
      BY <1>3, <1>5, <2>2
    <3> HIDE DEF j
    <3>2. Depth(u, i) >= Depth(u, k) /\ Depth(u, i) \in Int
      BY <1>5, <1>7, <3>1, DepthType
    <3> QED
      BY <1>2, <1>8, <3>2
  <2> QED
    BY <2>1, <2>2
<1> QED
  BY <1>5, <1>9, <1>10 DEF Simulates, u, k, m

LEMMA FlattenSimulates ==
  ASSUME NEW s \in PairedText, NEW pieces, Len(pieces) = Len(s),
         \A i \in 1..Len(s) :
           \/ pieces[i] = << s[i] >>
           \/ /\ Unquoted(s, i - 1) /\ s[i] \notin Quote \cup {"(", ")"}
              /\ pieces[i] \in PairedText
  PROVE  Len(s) # 0 => FlattenSeq(pieces) \in PairedText
<1> SUFFICES ASSUME Len(s) # 0 PROVE FlattenSeq(pieces) \in PairedText
  OBVIOUS
<1>0. s \in Text /\ InPairs(s) /\ Len(s) \in Nat
  BY TextLength DEF PairedText
<1>1. PICK f : IsFlattened(f, pieces, Len(s)) /\ FlattenSeq(pieces) = f[Len(s)]
  BY <1>0, FlattenDef
<1>2. Simulates(<< >>, s, 0)
  <2>1. << >> \in Text /\ Len(<< >>) = 0
    BY DEF Text
  <2>2. /\ 0 \in 0..Len(s) /\ 0 \in 0..0 /\ 0 \in Int
        /\ Unquoted(s, 0) /\ Unquoted(<< >>, 0) /\ Depth(<< >>, 0) = Depth(s, 0) + 0
    BY <1>0, <2>1, UnquotedFirst, DepthFirst
  <2>3. Aligned(Open[<< >>][0], Open[s][0], 0)
    BY <1>0, <2>1, <2>2, AlignedUnquoted
  <2> QED
    BY <2>1, <2>3 DEF Simulates
<1>3. ASSUME NEW n \in Nat, n < Len(s), NEW t, Simulates(t, s, n)
      PROVE  Simulates(Cat(t, pieces[n + 1]), s, n + 1)
  <2>1. n + 1 \in 1..Len(s) /\ (n + 1) - 1 = n
    BY <1>0, <1>3
  <2>2. CASE pieces[n + 1] = << s[n + 1] >>
    BY <1>0, <1>3, <2>2, SimulatesToken, Zenon DEF Cat
  <2>3. CASE /\ Unquoted(s, n) /\ s[n + 1] \notin Quote \cup {"(", ")"}
             /\ pieces[n + 1] \in PairedText
    BY <1>0, <1>3, <2>3, SimulatesPiece DEF Cat
  <2> QED
    BY <2>1, <2>2, <2>3
<1> DEFINE P(m) == m + 1 <= Len(s) => Simulates(f[m + 1], s, m + 1)
           S == {m \in Nat : P(m)}
<1>4. P(0)
  <2>1. f[1] = pieces[1] /\ 0 + 1 = 1 /\ 0 < Len(s)
    BY <1>0, <1>1 DEF IsFlattened
  <2>2. Simulates(Cat(<< >>, pieces[1]), s, 1)
    BY <1>2, <1>3, <2>1
  <2>3. Cat(<< >>, pieces[1]) = pieces[1]
    <3>1. pieces[1] \in Seq(Token)
      <4>1. 1 \in 1..Len(s)
        BY <1>0
      <4>2. pieces[1] = << s[1] >> \/ pieces[1] \in PairedText
        BY <4>1
      <4>3. s[1] \in Token /\ PairedText \subseteq Seq(Token)
        BY <1>0, <4>1, TextLength, Zenon DEF PairedText, Text
      <4>4. << s[1] >> \in Seq(Token)
        BY <4>3
      <4>5. CASE pieces[1] = << s[1] >>
        BY <4>4, <4>5, Zenon
      <4>6. CASE pieces[1] \in PairedText
        BY <4>3, <4>6, Zenon
      <4> QED
        BY <4>2, <4>5, <4>6
    <3> QED
      BY <3>1 DEF Cat
  <2> QED
    BY <2>1, <2>2, <2>3
<1>5. ASSUME NEW m \in Nat, P(m) PROVE P(m + 1)
  <2> SUFFICES ASSUME (m + 1) + 1 <= Len(s) PROVE Simulates(f[(m + 1) + 1], s, (m + 1) + 1)
    OBVIOUS
  <2>1. /\ (m + 1) + 1 \in 2..Len(s) /\ ((m + 1) + 1) - 1 = m + 1 /\ m + 1 < Len(s) /\ m + 1 <= Len(s)
        /\ m + 1 \in Nat
    BY <1>0
  <2>2. f[(m + 1) + 1] = Cat(f[m + 1], pieces[(m + 1) + 1])
    BY <1>1, <2>1 DEF IsFlattened
  <2>3. Simulates(f[m + 1], s, m + 1)
    BY <1>5, <2>1
  <2> QED
    BY <1>3, <2>1, <2>2, <2>3
<1> HIDE DEF P
<1>6. Nat \subseteq S
  <2>1. 0 \in S /\ \A m \in Nat : m \in S => m + 1 \in S
    BY <1>4, <1>5
  <2> HIDE DEF S
  <2> QED
    BY <2>1, NumbersInductive
<1>7. P(Len(s) - 1) /\ (Len(s) - 1) + 1 = Len(s)
  <2>1. Len(s) - 1 \in Nat /\ (Len(s) - 1) + 1 = Len(s)
    BY <1>0
  <2> QED
    BY <1>6, <2>1
<1> DEFINE t == FlattenSeq(pieces)
<1>8. Simulates(t, s, Len(s))
  BY <1>0, <1>1, <1>7 DEF P
<1> HIDE DEF t
<1>9. /\ t \in Text /\ Aligned(Open[t][Len(t)], Open[s][Len(s)], 0)
      /\ \A i \in 1..Len(t) : Depth(t, i) >= 0
  BY <1>8 DEF Simulates
<1>10. Unquoted(s, Len(s)) /\ Depth(s, Len(s)) = 0
  BY <1>0, InPairsFacts
<1>11. Unquoted(t, Len(t))
  BY <1>9, <1>10, Zenon DEF Aligned, SameQuote, Unquoted
<1>12. Depth(t, Len(t)) = Depth(s, Len(s)) + 0
  BY <1>9, Zenon DEF Aligned, Depth
<1>13. t \in PairedText
  BY <1>9, <1>10, <1>11, <1>12, InPairsFacts DEF PairedText
<1> QED
  BY <1>13 DEF t

RewrittenPieces(arg, args) ==
  [i \in DOMAIN arg |->
     IF arg[i] \in DOMAIN Placeholder /\ i \in Unmasked(arg)
       THEN RewrittenPlaceholder(Placeholder[arg[i]], args)
       ELSE << arg[i] >>]

LEMMA RewrittenArgDef ==
  ASSUME NEW arg \in Text, NEW args \in Seq(Text)
  PROVE  RewrittenArg[<< arg, args >>] = FlattenSeq(RewrittenPieces(arg, args))
<1>1. << arg, args >> \in Text \X Seq(Text) /\ << arg, args >>[1] = arg /\ << arg, args >>[2] = args
  OBVIOUS
<1>2. ASSUME NEW at \in Text \X Seq(Text)
      PROVE  RewrittenArg[at] = FlattenSeq(RewrittenPieces(at[1], at[2]))
  BY Zenon DEF RewrittenArg, RewrittenPieces
<1> QED
  BY <1>1, <1>2

LEMMA RewriteMacroArgsDef ==
  ASSUME NEW rewrite \in Text, NEW args \in Seq(Text)
  PROVE  RewriteMacroArgs[<< rewrite, args >>] =
           IF rewrite = << >> THEN << >>
           ELSE << "(" >> \o
                Joined[[k \in DOMAIN MacroArgTokens[rewrite] |->
                          RewrittenArg[<< MacroArgTokens[rewrite][k], args >>]]]
                \o << ")" >>
<1>1. /\ << rewrite, args >> \in Text \X Seq(Text)
      /\ << rewrite, args >>[1] = rewrite /\ << rewrite, args >>[2] = args
  OBVIOUS
<1>2. ASSUME NEW at \in Text \X Seq(Text)
      PROVE  RewriteMacroArgs[at] =
               IF at[1] = << >> THEN << >>
               ELSE << "(" >> \o
                    Joined[[k \in DOMAIN MacroArgTokens[at[1]] |->
                              RewrittenArg[<< MacroArgTokens[at[1]][k], at[2] >>]]]
                    \o << ")" >>
  BY Zenon DEF RewriteMacroArgs
<1> QED
  BY <1>1, <1>2

\* A placeholder in an argument of a rewrite is one of the rewrite.
LEMMA PlaceholderOfRewrite ==
  ASSUME NEW rewrite \in Text, NEW u \in ArgOf(rewrite), NEW i \in Unmasked(u),
         u[i] \in DOMAIN Placeholder, IsGroup(rewrite)
  PROVE  Placeholder[u[i]] \in Placeholders(rewrite)
<1>1. u \in Text /\ \E p \in Nat : IsArgAt(rewrite, u, p)
  BY DEF ArgOf, PairedText
<1>2. PICK p \in Nat : IsWindow(rewrite, u, p) /\ p + Len(u) < GroupEnd(rewrite)
  BY <1>1 DEF IsArgAt
<1>3. i \in 1..Len(u) /\ Len(u) \in Nat
  BY <1>1, UnmaskedFacts, TextLength
<1>4. u[i] = rewrite[p + i] /\ p + i \in Unmasked(rewrite)
  BY <1>1, <1>2, <1>3, WindowUnmasked
<1>5. p + i < GroupEnd(rewrite)
  <2>1. GroupEnd(rewrite) \in Int
    BY GroupFacts
  <2> QED
    BY <1>2, <1>3, <2>1
<1> DEFINE j == p + i
<1>6. j \in Unmasked(rewrite) /\ j < GroupEnd(rewrite) /\ rewrite[j] \in DOMAIN Placeholder
      /\ rewrite[j] = u[i]
  BY <1>4, <1>5
<1> HIDE DEF j
<1> QED
  BY <1>6 DEF Placeholders

LEMMA RewrittenArgInPairs ==
  ASSUME NEW rewrite \in Text, IsGroup(rewrite), NEW u \in ArgOf(rewrite),
         NEW args \in Seq(PairedText), FitsMacroArgs(rewrite, args)
  PROVE  RewrittenArg[<< u, args >>] \in PairedText
<1> DEFINE pieces == RewrittenPieces(u, args)
<1>1. u \in PairedText /\ u \in Text /\ Len(u) \in Nat /\ DOMAIN u = 1..Len(u)
      /\ \A i \in 1..Len(u) : u[i] \in Token
  BY TextLength DEF ArgOf, PairedText
<1>2. args \in Seq(Text)
  BY DEF PairedText
<1>3. RewrittenArg[<< u, args >>] = FlattenSeq(pieces)
  BY <1>1, <1>2, RewrittenArgDef
<1>4. Len(pieces) = Len(u)
  <2>1. pieces = [i \in 1..Len(u) |-> pieces[i]]
    BY <1>1 DEF RewrittenPieces
  <2> HIDE DEF pieces
  <2>2. DOMAIN pieces = 1..Len(u)
    BY <2>1
  <2> QED
    BY <1>1, <2>1, <2>2
<1>5. CASE Len(u) = 0
  <2>1. pieces = << >>
    BY <1>1, <1>5 DEF RewrittenPieces
  <2>2. FlattenSeq(pieces) = << >>
    BY <2>1 DEF FlattenSeq
  <2> QED
    BY <1>3, <2>2, EmptyInPairs
<1>6. CASE Len(u) # 0
  <2>1. ASSUME NEW i \in 1..Len(u)
        PROVE  \/ pieces[i] = << u[i] >>
               \/ /\ Unquoted(u, i - 1) /\ u[i] \notin Quote \cup {"(", ")"}
                  /\ pieces[i] \in PairedText
    <3>1. CASE u[i] \in DOMAIN Placeholder /\ i \in Unmasked(u)
      <4> DEFINE ph == Placeholder[u[i]]
      <4>1. ph \in Placeholders(rewrite)
        BY <3>1, PlaceholderOfRewrite
      <4>2. ph \in [number : Nat, range_end : Nat]
        BY <3>1, TokenAssumption
      <4>3. /\ ph.number \in DOMAIN args
            /\ ph.range_end # 0 => ph.range_end \in DOMAIN args /\ ph.number <= ph.range_end
        BY <4>1 DEF FitsMacroArgs
      <4>4. pieces[i] = RewrittenPlaceholder(ph, args)
        BY <1>1, <3>1 DEF RewrittenPieces
      <4> HIDE DEF ph
      <4>5. pieces[i] \in PairedText
        BY <4>2, <4>3, <4>4, PlaceholderInPairs
      <4>6. u[i] \notin Quote \cup {"(", ")"}
        BY <3>1, TokenAssumption, Zenon DEF Punctuation
      <4>7. Unquoted(u, i - 1)
        BY <1>1, <3>1, UnmaskedFacts
      <4> QED
        BY <4>5, <4>6, <4>7
    <3>2. CASE ~(u[i] \in DOMAIN Placeholder /\ i \in Unmasked(u))
      BY <1>1, <3>2 DEF RewrittenPieces
    <3> QED
      BY <3>1, <3>2
  <2> HIDE DEF pieces
  <2> QED
    BY <1>1, <1>3, <1>4, <1>6, <2>1, FlattenSimulates
<1> QED
  BY <1>5, <1>6

\* What a rule makes of arguments has its parentheses in pairs, whichever the
\* rewrite, for it is rewritten argument by argument.
LEMMA RewrittenInPairs ==
  ASSUME NEW rewrite \in Text, rewrite # << >> => IsGroup(rewrite),
         NEW args \in Seq(PairedText), FitsMacroArgs(rewrite, args)
  PROVE  RewriteMacroArgs[<< rewrite, args >>] \in PairedText
<1>1. args \in Seq(Text)
  BY DEF PairedText
<1>2. CASE rewrite = << >>
  BY <1>1, <1>2, RewriteMacroArgsDef, EmptyInPairs
<1>3. CASE rewrite # << >>
  <2> DEFINE tokens == MacroArgTokens[rewrite]
             rewritten == [k \in DOMAIN tokens |-> RewrittenArg[<< tokens[k], args >>]]
  <2>1. tokens \in Seq(ArgOf(rewrite))
    BY <1>3, MacroArgTokensFacts
  <2>2. RewriteMacroArgs[<< rewrite, args >>] = << "(" >> \o Joined[rewritten] \o << ")" >>
    BY <1>1, <1>3, RewriteMacroArgsDef, Zenon
  <2> HIDE DEF tokens
  <2>3. Len(tokens) \in Nat /\ DOMAIN tokens = 1..Len(tokens)
        /\ \A k \in DOMAIN tokens : tokens[k] \in ArgOf(rewrite)
    BY <2>1
  <2>4. \A k \in DOMAIN tokens : RewrittenArg[<< tokens[k], args >>] \in PairedText
    BY <1>3, <2>3, RewrittenArgInPairs
  <2>5. rewritten \in [1..Len(tokens) -> PairedText]
    BY <2>3, <2>4
  <2> HIDE DEF rewritten
  <2>6. rewritten \in Seq(PairedText)
    BY <2>3, <2>5
  <2> QED
    BY <2>2, <2>6, JoinedInPairs, ParenthesizedInPairs
<1> QED
  BY <1>2, <1>3

-------------------------------------------------------------------------------
\* Quoted tokens.  In texts that end outside quotes they are those of the
\* pieces the texts are put together from.

ClosedText == {s \in Text : Unquoted(s, Len(s))}
LiteralsIn(s, a, b) == {s[i] : i \in {j \in (a + 1)..b : j \notin Unmasked(s)}}

LEMMA ClosedFacts ==
  ASSUME NEW s \in ClosedText
  PROVE  s \in Text /\ Unquoted(s, Len(s))
  BY DEF ClosedText

LEMMA PairedClosed == PairedText \subseteq ClosedText
  BY InPairsFacts DEF PairedText, ClosedText

LEMMA LiteralsWhole ==
  ASSUME NEW s \in Text
  PROVE  Literals(s) = LiteralsIn(s, 0, Len(s))
<1>1. DOMAIN s = 1..Len(s) /\ 0 + 1 = 1
  BY TextLength
<1> QED
  BY <1>1 DEF Literals, LiteralsIn

LEMMA LiteralsSplit ==
  ASSUME NEW s \in Text, NEW a \in Nat, NEW m \in Nat, NEW b \in Nat, a <= m, m <= b
  PROVE  LiteralsIn(s, a, b) = LiteralsIn(s, a, m) \cup LiteralsIn(s, m, b)
  BY DEF LiteralsIn

LEMMA WindowLiterals ==
  ASSUME NEW s \in Text, NEW t \in Text, NEW p, IsWindow(s, t, p), NEW m \in 0..Len(t)
  PROVE  LiteralsIn(t, 0, m) = LiteralsIn(s, p, p + m)
<1>1. p \in Nat /\ Len(t) \in Nat /\ m \in Nat /\ m <= Len(t)
  BY TextLength DEF IsWindow
<1>2. \A j \in 1..Len(t) : t[j] = s[p + j] /\ (p + j \in Unmasked(s) <=> j \in Unmasked(t))
  BY WindowUnmasked
<1>3. ASSUME NEW c \in LiteralsIn(t, 0, m) PROVE c \in LiteralsIn(s, p, p + m)
  <2>1. PICK j \in (0 + 1)..m : j \notin Unmasked(t) /\ c = t[j]
    BY DEF LiteralsIn
  <2>2. j \in 1..Len(t) /\ p + j \in (p + 1)..(p + m)
    BY <1>1
  <2>3. p + j \notin Unmasked(s) /\ c = s[p + j]
    BY <1>2, <2>1, <2>2
  <2> QED
    BY <2>2, <2>3 DEF LiteralsIn
<1>4. ASSUME NEW c \in LiteralsIn(s, p, p + m) PROVE c \in LiteralsIn(t, 0, m)
  <2>1. PICK i \in (p + 1)..(p + m) : i \notin Unmasked(s) /\ c = s[i]
    BY DEF LiteralsIn
  <2>2. i - p \in 1..Len(t) /\ i - p \in (0 + 1)..m /\ p + (i - p) = i
    BY <1>1
  <2>3. i - p \notin Unmasked(t) /\ c = t[i - p]
    BY <1>2, <2>1, <2>2
  <2> QED
    BY <2>2, <2>3 DEF LiteralsIn
<1> QED
  BY <1>3, <1>4

LEMMA LiteralsOfWindow ==
  ASSUME NEW s \in Text, NEW t \in Text, NEW p, IsWindow(s, t, p)
  PROVE  Literals(t) = LiteralsIn(s, p, p + Len(t))
<1>1. Len(t) \in 0..Len(t)
  BY TextLength
<1> QED
  BY <1>1, WindowLiterals, LiteralsWhole

LEMMA ConcatLiterals ==
  ASSUME NEW s \in ClosedText, NEW t \in Text
  PROVE  /\ s \o t \in Text /\ Literals(s \o t) = Literals(s) \cup Literals(t)
         /\ t \in ClosedText => s \o t \in ClosedText
<1> DEFINE u == s \o t
<1>1. s \in Text /\ Unquoted(s, Len(s)) /\ Len(s) \in Nat /\ Len(t) \in Nat
  BY ClosedFacts, TextLength
<1>2. u \in Text /\ Len(u) = Len(s) + Len(t) /\ IsWindow(u, s, 0) /\ IsWindow(u, t, Len(s))
  BY <1>1, ConcatText, ConcatWindows
<1> HIDE DEF u
<1>3. Literals(u) = LiteralsIn(u, 0, Len(s) + Len(t))
  BY <1>2, LiteralsWhole
<1>4. LiteralsIn(u, 0, Len(s) + Len(t))
        = LiteralsIn(u, 0, Len(s)) \cup LiteralsIn(u, Len(s), Len(s) + Len(t))
  <2>1. 0 <= Len(s) /\ Len(s) <= Len(s) + Len(t) /\ Len(s) + Len(t) \in Nat
    BY <1>1
  <2> QED
    BY <1>1, <1>2, <2>1, LiteralsSplit
<1>5. Literals(s) = LiteralsIn(u, 0, Len(s))
  <2>1. 0 + Len(s) = Len(s)
    BY <1>1
  <2> QED
    BY <1>1, <1>2, <2>1, LiteralsOfWindow
<1>6. Literals(t) = LiteralsIn(u, Len(s), Len(s) + Len(t))
  BY <1>1, <1>2, LiteralsOfWindow
<1>7. t \in ClosedText => u \in ClosedText
  <2> SUFFICES ASSUME t \in ClosedText PROVE Unquoted(u, Len(s) + Len(t))
    BY <1>2 DEF ClosedText
  <2>1. Unquoted(t, Len(t)) /\ Len(t) \in 0..Len(t)
    BY <1>1, ClosedFacts
  <2> QED
    BY <1>1, <1>2, <2>1, WindowOpen
<1> QED
  BY <1>2, <1>3, <1>4, <1>5, <1>6, <1>7 DEF u

LEMMA NoLiteralsIn ==
  ASSUME NEW s \in Text, NEW a \in Nat, NEW b \in Nat, a <= b, b <= Len(s),
         Unquoted(s, a), \A i \in (a + 1)..b : s[i] \notin Quote
  PROVE  Unquoted(s, b) /\ LiteralsIn(s, a, b) = {}
<1>1. ASSUME NEW n \in a..b PROVE Unquoted(s, n)
  <2>1. /\ n \in Nat /\ a <= n /\ n <= Len(s)
        /\ \A i \in (a + 1)..n : i \in (a + 1)..b
    BY TextLength
  <2> QED
    BY <2>1, NothingQuoted
<1>2. ASSUME NEW i \in (a + 1)..b PROVE i \in Unmasked(s)
  <2>1. i \in 1..Len(s) /\ i - 1 \in a..b /\ i \in a..b
    BY TextLength
  <2> QED
    BY <1>1, <2>1, UnmaskedFacts
<1>3. b \in a..b
  OBVIOUS
<1> QED
  BY <1>1, <1>2, <1>3 DEF LiteralsIn

LEMMA NoLiterals ==
  ASSUME NEW s \in Text, \A i \in 1..Len(s) : s[i] \notin Quote
  PROVE  s \in ClosedText /\ Literals(s) = {}
<1>1. Len(s) \in Nat /\ 0 <= Len(s) /\ \A i \in (0 + 1)..Len(s) : i \in 1..Len(s)
  BY TextLength
<1>2. Unquoted(s, Len(s)) /\ LiteralsIn(s, 0, Len(s)) = {}
  BY <1>1, UnquotedFirst, NoLiteralsIn
<1> QED
  BY <1>2, LiteralsWhole DEF ClosedText

LEMMA NoLiteralTokens ==
  ASSUME NEW c \in Token, NEW d \in Token, c \notin Quote, d \notin Quote
  PROVE  << c, d >> \in ClosedText /\ Literals(<< c, d >>) = {}
<1> DEFINE s == << c, d >>
<1>1. s \in Text /\ Len(s) = 2 /\ s[1] = c /\ s[2] = d
  BY DEF Text
<1> HIDE DEF s
<1>2. \A i \in 1..Len(s) : s[i] \notin Quote
  BY <1>1
<1> QED
  BY <1>1, <1>2, NoLiterals DEF s

LEMMA EmptyLiterals == << >> \in ClosedText /\ Literals(<< >>) = {}
<1>1. << >> \in Text /\ Len(<< >>) = 0
  BY DEF Text
<1>2. \A i \in 1..Len(<< >>) : << >>[i] \notin Quote
  BY <1>1
<1> QED
  BY <1>1, <1>2, NoLiterals

LEMMA ParenthesizedLiterals ==
  ASSUME NEW t \in ClosedText
  PROVE  /\ << "(" >> \o t \o << ")" >> \in ClosedText
         /\ Literals(<< "(" >> \o t \o << ")" >>) = Literals(t)
<1> DEFINE a == << "(" >>
           b == << ")" >>
           at == a \o t
<1>1. /\ a \in Text /\ Len(a) = 1 /\ a[1] = "(" /\ b \in Text /\ Len(b) = 1 /\ b[1] = ")"
  BY DEF Text, Token, Punctuation
<1>2. "(" \notin Quote /\ ")" \notin Quote
  BY Zenon DEF Quote
<1> HIDE DEF a, b
<1>3. a \in ClosedText /\ Literals(a) = {} /\ b \in ClosedText /\ Literals(b) = {}
  <2>1. (\A i \in 1..Len(a) : a[i] \notin Quote) /\ (\A i \in 1..Len(b) : b[i] \notin Quote)
    BY <1>1, <1>2
  <2> QED
    BY <1>1, <2>1, NoLiterals
<1>4. t \in Text
  BY ClosedFacts
<1>5. at \in ClosedText /\ Literals(at) = Literals(t)
  <2>1. Literals(at) = Literals(a) \cup Literals(t) /\ at \in ClosedText
    BY <1>3, <1>4, ConcatLiterals
  <2> QED
    BY <1>3, <2>1
<1> HIDE DEF at
<1>6. at \o b \in ClosedText /\ Literals(at \o b) = Literals(t)
  <2>1. b \in Text
    BY <1>3, ClosedFacts
  <2>2. Literals(at \o b) = Literals(at) \cup Literals(b) /\ at \o b \in ClosedText
    BY <1>3, <1>5, <2>1, ConcatLiterals
  <2> QED
    BY <1>3, <1>5, <2>2
<1> QED
  BY <1>6 DEF at, a, b

LEMMA FlattenLiterals ==
  ASSUME NEW seqs \in Seq(ClosedText)
  PROVE  /\ FlattenSeq(seqs) \in ClosedText
         /\ Literals(FlattenSeq(seqs)) = UNION {Literals(seqs[k]) : k \in DOMAIN seqs}
<1> DEFINE All == UNION {Literals(seqs[k]) : k \in DOMAIN seqs}
           Within == {s \in ClosedText : Literals(s) \subseteq All}
<1>1. /\ Len(seqs) \in Nat /\ DOMAIN seqs = 1..Len(seqs)
      /\ \A k \in 1..Len(seqs) : seqs[k] \in ClosedText /\ Literals(seqs[k]) \subseteq All
  OBVIOUS
<1>2. FlattenSeq(seqs) \in Within
  <2>1. Within \subseteq Text /\ << >> \in Within
    BY ClosedFacts, EmptyLiterals
  <2>2. \A s \in Within, t \in Within : s \o t \in Within
    BY ClosedFacts, ConcatLiterals
  <2>3. seqs \in Seq(Within)
    <3>1. \A k \in 1..Len(seqs) : seqs[k] \in Within
      BY <1>1
    <3>2. seqs \in [1..Len(seqs) -> Within]
      BY <1>1, <3>1
    <3> HIDE DEF Within
    <3> QED
      BY <1>1, <3>2
  <2> HIDE DEF Within
  <2> QED
    BY <2>1, <2>2, <2>3, FlattenIn
<1>3. ASSUME Len(seqs) # 0 PROVE \A k \in 1..Len(seqs) : Literals(seqs[k]) \subseteq Literals(FlattenSeq(seqs))
  <2>1. PICK f : IsFlattened(f, seqs, Len(seqs)) /\ FlattenSeq(seqs) = f[Len(seqs)]
    BY <1>1, <1>3, FlattenDef
  <2> DEFINE P(m) == m + 1 <= Len(seqs) =>
                       /\ f[m + 1] \in ClosedText
                       /\ \A k \in 1..(m + 1) : Literals(seqs[k]) \subseteq Literals(f[m + 1])
             T == {m \in Nat : P(m)}
  <2>2. P(0)
    <3>1. 0 + 1 = 1 /\ f[1] = seqs[1] /\ \A k \in 1..(0 + 1) : k = 1
      BY <2>1 DEF IsFlattened
    <3> QED
      BY <1>1, <3>1
  <2>3. ASSUME NEW m \in Nat, P(m) PROVE P(m + 1)
    <3> DEFINE n == (m + 1) + 1
    <3> SUFFICES ASSUME n <= Len(seqs)
                 PROVE  /\ f[n] \in ClosedText
                        /\ \A k \in 1..n : Literals(seqs[k]) \subseteq Literals(f[n])
      OBVIOUS
    <3>1. /\ n \in 2..Len(seqs) /\ n \in 1..Len(seqs) /\ n - 1 = m + 1
          /\ \A k \in 1..n : k \in 1..(m + 1) \/ k = n
      BY <1>1
    <3>2. /\ f[m + 1] \in ClosedText
          /\ \A k \in 1..(m + 1) : Literals(seqs[k]) \subseteq Literals(f[m + 1])
      BY <1>1, <2>3, <3>1
    <3>3. f[n] = f[m + 1] \o seqs[n]
      BY <2>1, <3>1 DEF IsFlattened, Cat
    <3> HIDE DEF n
    <3>4. seqs[n] \in ClosedText
      BY <1>1, <3>1
    <3>5. f[n] \in ClosedText /\ Literals(f[n]) = Literals(f[m + 1]) \cup Literals(seqs[n])
      BY <3>2, <3>3, <3>4, ClosedFacts, ConcatLiterals
    <3> QED
      BY <3>1, <3>2, <3>5
  <2> HIDE DEF P
  <2>4. Nat \subseteq T
    <3>1. 0 \in T /\ \A m \in Nat : m \in T => m + 1 \in T
      BY <2>2, <2>3
    <3> HIDE DEF T
    <3> QED
      BY <3>1, NumbersInductive
  <2>5. P(Len(seqs) - 1) /\ (Len(seqs) - 1) + 1 = Len(seqs)
    BY <1>1, <1>3, <2>4
  <2> QED
    BY <1>1, <2>1, <2>5 DEF P
<1>4. All \subseteq Literals(FlattenSeq(seqs))
  <2> SUFFICES ASSUME NEW c \in All PROVE c \in Literals(FlattenSeq(seqs))
    OBVIOUS
  <2>1. PICK k \in DOMAIN seqs : c \in Literals(seqs[k])
    OBVIOUS
  <2>2. k \in 1..Len(seqs) /\ Len(seqs) # 0
    BY <1>1
  <2> QED
    BY <1>3, <2>1, <2>2
<1> HIDE DEF All
<1> QED
  BY <1>2, <1>4 DEF All

LEMMA JoinedLiterals ==
  ASSUME NEW texts \in Seq(ClosedText)
  PROVE  /\ Joined[texts] \in ClosedText
         /\ Literals(Joined[texts]) = UNION {Literals(texts[k]) : k \in DOMAIN texts}
<1> DEFINE separator == << ",", " " >>
           pieces == [k \in DOMAIN texts |-> IF k = 1 THEN texts[k] ELSE separator \o texts[k]]
<1>1. /\ texts \in Seq(Text) /\ Len(texts) \in Nat /\ DOMAIN texts = 1..Len(texts)
      /\ \A k \in DOMAIN texts : texts[k] \in ClosedText /\ texts[k] \in Text
  BY ClosedFacts
<1>2. separator \in ClosedText /\ Literals(separator) = {}
  <2>1. "," \in Token /\ " " \in Token
    BY Zenon DEF Token, Punctuation
  <2>2. "," \notin Quote /\ " " \notin Quote
    BY Zenon DEF Quote
  <2> QED
    BY <2>1, <2>2, NoLiteralTokens
<1> HIDE DEF separator
<1>3. ASSUME NEW k \in DOMAIN texts
      PROVE  pieces[k] \in ClosedText /\ Literals(pieces[k]) = Literals(texts[k])
  <2>1. texts[k] \in ClosedText /\ texts[k] \in Text
    BY <1>1
  <2>2. /\ separator \o texts[k] \in ClosedText
        /\ Literals(separator \o texts[k]) = Literals(separator) \cup Literals(texts[k])
    BY <1>2, <2>1, ConcatLiterals
  <2>3. pieces[k] = IF k = 1 THEN texts[k] ELSE separator \o texts[k]
    OBVIOUS
  <2> HIDE DEF pieces
  <2>4. CASE k = 1
    BY <2>1, <2>3, <2>4
  <2>5. CASE k # 1
    BY <1>2, <2>2, <2>3, <2>5
  <2> QED
    BY <2>4, <2>5
<1>4. DOMAIN pieces = DOMAIN texts /\ pieces \in Seq(ClosedText)
  <2>1. pieces \in [1..Len(texts) -> ClosedText]
    BY <1>1, <1>3
  <2> HIDE DEF pieces
  <2> QED
    BY <1>1, <2>1
<1>5. Joined[texts] = FlattenSeq(pieces)
  BY <1>1, Zenon DEF Joined, separator
<1> HIDE DEF pieces
<1>6. /\ Joined[texts] \in ClosedText
      /\ Literals(Joined[texts]) = UNION {Literals(pieces[k]) : k \in DOMAIN pieces}
  BY <1>4, <1>5, FlattenLiterals
<1> QED
  BY <1>3, <1>4, <1>6

\* The quoted tokens of an argument list are those of its arguments: what is
\* between arguments is not quoted.
LEMMA SeparatorsUnmasked ==
  ASSUME NEW s \in Text, IsGroup(s), NEW i \in Separators(s)
  PROVE  i \in Unmasked(s) /\ s[i] \in Punctuation
<1>1. /\ Len(s) \in Nat /\ GroupEnd(s) \in 2..Len(s) /\ s[GroupEnd(s)] = ")"
      /\ Unquoted(s, GroupEnd(s) - 1) /\ Unquoted(s, GroupEnd(s))
      /\ Unquoted(s, 1) /\ Unquoted(s, 0) /\ s[1] = "("
  BY TextLength, GroupFacts, UnquotedFirst DEF IsGroup
<1>2. {"(", ")", ","} \subseteq Punctuation
  BY Zenon DEF Punctuation
<1>3. CASE i = 1
  <2>1. 1 \in 1..Len(s) /\ 1 - 1 = 0
    BY <1>1
  <2> QED
    BY <1>1, <1>2, <1>3, <2>1, UnmaskedFacts
<1>4. CASE i = GroupEnd(s)
  <2>1. GroupEnd(s) \in 1..Len(s)
    BY <1>1
  <2>2. GroupEnd(s) \in Unmasked(s)
    BY <1>1, <2>1, UnmaskedFacts
  <2> QED
    BY <1>1, <1>2, <1>4, <2>2
<1>5. CASE i \in Unmasked(s) /\ s[i] = ","
  BY <1>2, <1>5
<1> QED
  BY <1>3, <1>4, <1>5, Zenon DEF Separators

LEMMA ArgLiterals ==
  ASSUME NEW s \in Text, IsGroup(s), NEW args, args = MacroArgTokens[s]
  PROVE  LiteralsIn(s, 0, GroupEnd(s)) = UNION {Literals(args[k]) : k \in DOMAIN args}
<1>1. /\ args \in Seq(ArgOf(s)) /\ \A i \in 1..GroupEnd(s) : Covered(s, i, args)
      /\ Len(s) \in Nat /\ GroupEnd(s) \in 2..Len(s)
  BY MacroArgTokensFacts, TextLength, GroupFacts
<1>2. \A k \in DOMAIN args : args[k] \in ArgOf(s) /\ args[k] \in Text
  BY <1>1 DEF ArgOf, PairedText
<1>3. ASSUME NEW c \in LiteralsIn(s, 0, GroupEnd(s))
      PROVE  \E k \in DOMAIN args : c \in Literals(args[k])
  <2>1. PICK i \in 1..GroupEnd(s) : i \notin Unmasked(s) /\ c = s[i]
    BY DEF LiteralsIn
  <2>2. InArg(s, i, args)
    BY <1>1, <2>1, SeparatorsUnmasked DEF Covered
  <2>3. PICK k \in DOMAIN args, p \in Nat :
          IsArgAt(s, args[k], p) /\ p < i /\ i <= p + Len(args[k])
    BY <2>2 DEF InArg
  <2> DEFINE t == args[k]
             j == i - p
  <2>4. t \in Text /\ IsWindow(s, t, p) /\ p < i /\ i <= p + Len(t)
        /\ Len(t) \in Nat /\ DOMAIN t = 1..Len(t)
    BY <1>2, <2>3, TextLength DEF IsArgAt
  <2> HIDE DEF t
  <2>5. j \in 1..Len(t) /\ p + j = i
    BY <1>1, <2>1, <2>4
  <2> HIDE DEF j
  <2>6. t[j] = s[i] /\ j \notin Unmasked(t)
    BY <2>1, <2>4, <2>5, WindowUnmasked
  <2>7. c \in Literals(t)
    BY <2>1, <2>4, <2>5, <2>6 DEF Literals
  <2> QED
    BY <2>7 DEF t
<1>4. ASSUME NEW k \in DOMAIN args
      PROVE  Literals(args[k]) \subseteq LiteralsIn(s, 0, GroupEnd(s))
  <2> DEFINE t == args[k]
  <2>1. PICK p \in Nat : IsArgAt(s, t, p)
    BY <1>2 DEF ArgOf
  <2>2. t \in Text /\ Len(t) \in Nat /\ IsWindow(s, t, p) /\ p + Len(t) < GroupEnd(s)
    BY <1>2, <2>1, TextLength DEF IsArgAt
  <2> HIDE DEF t
  <2>3. Literals(t) = LiteralsIn(s, p, p + Len(t))
    BY <2>2, LiteralsOfWindow
  <2>4. (p + 1)..(p + Len(t)) \subseteq (0 + 1)..GroupEnd(s)
    BY <1>1, <2>2
  <2>5. LiteralsIn(s, p, p + Len(t)) \subseteq LiteralsIn(s, 0, GroupEnd(s))
    BY <2>4 DEF LiteralsIn
  <2> QED
    BY <2>3, <2>5 DEF t
<1> QED
  BY <1>3, <1>4

\* Rewriting.  A placeholder stands for the arguments in its range.
InRange(n, ph) == n = ph.number \/ n \in ph.number..ph.range_end
Fits(ph, args) ==
  /\ ph.number \in DOMAIN args
  /\ ph.range_end # 0 => ph.range_end \in DOMAIN args /\ ph.number <= ph.range_end

LEMMA PlaceholderLiterals ==
  ASSUME NEW args \in Seq(ClosedText), NEW ph \in [number : Nat, range_end : Nat],
         Fits(ph, args)
  PROVE  /\ RewrittenPlaceholder(ph, args) \in ClosedText
         /\ Literals(RewrittenPlaceholder(ph, args))
              = UNION {Literals(args[n]) : n \in {m \in DOMAIN args : InRange(m, ph)}}
<1> DEFINE a == ph.number
           b == ph.range_end
<1>1. /\ a \in Nat /\ b \in Nat /\ Len(args) \in Nat /\ DOMAIN args = 1..Len(args)
      /\ a \in 1..Len(args) /\ (b # 0 => b \in 1..Len(args))
      /\ \A n \in 1..Len(args) : args[n] \in ClosedText
  BY DEF Fits
<1>2. \A n : InRange(n, ph) <=> n = a \/ n \in a..b
  BY DEF InRange
<1>3. RewrittenPlaceholder(ph, args) = IF b > a THEN Joined[SubSeq(args, a, b)] ELSE args[a]
  BY DEF RewrittenPlaceholder
<1> HIDE DEF a, b
<1>4. CASE b > a
  <2> DEFINE texts == SubSeq(args, a, b)
  <2>1. /\ texts \in Seq(ClosedText) /\ Len(texts) = b - a + 1
        /\ \A j \in 1..(b - a + 1) : texts[j] = args[(a + j) - 1]
    <3>1. a \in Int /\ b \in Int /\ 1 <= a /\ a <= b + 1 /\ b <= Len(args)
      BY <1>1, <1>4
    <3> QED
      BY <3>1, SubSeqTyped
  <2> HIDE DEF texts
  <2>2. DOMAIN texts = 1..(b - a + 1)
    BY <2>1
  <2>3. /\ Joined[texts] \in ClosedText
        /\ Literals(Joined[texts]) = UNION {Literals(texts[k]) : k \in DOMAIN texts}
    BY <2>1, JoinedLiterals
  <2>4. ASSUME NEW k \in DOMAIN texts
        PROVE  \E n \in DOMAIN args : InRange(n, ph) /\ texts[k] = args[n]
    <3>1. (a + k) - 1 \in 1..Len(args) /\ (a + k) - 1 \in a..b
      BY <1>1, <1>4, <2>2
    <3>2. texts[k] = args[(a + k) - 1]
      BY <2>1, <2>2
    <3> QED
      BY <1>1, <1>2, <3>1, <3>2
  <2>5. ASSUME NEW n \in DOMAIN args, InRange(n, ph)
        PROVE  \E k \in DOMAIN texts : texts[k] = args[n]
    <3>1. n \in a..b
      BY <1>1, <1>2, <1>4, <2>5
    <3>2. (n - a) + 1 \in DOMAIN texts /\ (a + ((n - a) + 1)) - 1 = n
      BY <1>1, <2>2, <3>1
    <3>3. texts[(n - a) + 1] = args[(a + ((n - a) + 1)) - 1]
      BY <2>1, <2>2, <3>2
    <3> QED
      BY <3>2, <3>3
  <2>6. UNION {Literals(texts[k]) : k \in DOMAIN texts}
          = UNION {Literals(args[n]) : n \in {m \in DOMAIN args : InRange(m, ph)}}
    <3>1. ASSUME NEW k \in DOMAIN texts, NEW c \in Literals(texts[k])
          PROVE  \E n \in {m \in DOMAIN args : InRange(m, ph)} : c \in Literals(args[n])
      BY <2>4
    <3>2. ASSUME NEW n \in {m \in DOMAIN args : InRange(m, ph)}, NEW c \in Literals(args[n])
          PROVE  \E k \in DOMAIN texts : c \in Literals(texts[k])
      BY <2>5
    <3> QED
      BY <3>1, <3>2
  <2>7. RewrittenPlaceholder(ph, args) = Joined[texts]
    BY <1>3, <1>4 DEF texts
  <2> QED
    BY <2>3, <2>6, <2>7
<1>5. CASE ~(b > a)
  <2>1. \A n \in DOMAIN args : InRange(n, ph) <=> n = a
    BY <1>1, <1>2, <1>5
  <2> QED
    BY <1>1, <1>3, <1>5, <2>1
<1> QED
  BY <1>4, <1>5

\* Of a text without quotes, rewriting makes one with the quoted tokens of the
\* arguments it uses.
LEMMA RewrittenArgLiterals ==
  ASSUME NEW u \in Text, \A i \in 1..Len(u) : u[i] \notin Quote,
         NEW args \in Seq(ClosedText),
         \A i \in 1..Len(u) : u[i] \in DOMAIN Placeholder => Fits(Placeholder[u[i]], args)
  PROVE  /\ RewrittenArg[<< u, args >>] \in ClosedText
         /\ Literals(RewrittenArg[<< u, args >>]) \subseteq UNION {Literals(args[n]) : n \in DOMAIN args}
         /\ \A i \in 1..Len(u), n \in DOMAIN args :
              u[i] \in DOMAIN Placeholder /\ InRange(n, Placeholder[u[i]])
              => Literals(args[n]) \subseteq Literals(RewrittenArg[<< u, args >>])
<1> DEFINE pieces == RewrittenPieces(u, args)
           All == UNION {Literals(args[n]) : n \in DOMAIN args}
<1>1. /\ Len(u) \in Nat /\ DOMAIN u = 1..Len(u) /\ \A i \in 1..Len(u) : u[i] \in Token
  BY TextLength
<1>2. args \in Seq(Text)
  BY DEF ClosedText
<1>3. RewrittenArg[<< u, args >>] = FlattenSeq(pieces)
  BY <1>2, RewrittenArgDef
<1>4. ASSUME NEW i \in 1..Len(u) PROVE i \in Unmasked(u)
  <2>1. /\ i - 1 \in Nat /\ i \in Nat /\ 0 <= i - 1 /\ 0 <= i /\ i - 1 <= Len(u) /\ i <= Len(u)
        /\ \A j \in (0 + 1)..(i - 1) : j \in 1..Len(u)
        /\ \A j \in (0 + 1)..i : j \in 1..Len(u)
    BY <1>1
  <2>2. Unquoted(u, i - 1) /\ Unquoted(u, i)
    BY <2>1, UnquotedFirst, NothingQuoted
  <2> QED
    BY <2>2, UnmaskedFacts
<1>5. DOMAIN pieces = 1..Len(u)
      /\ \A i \in 1..Len(u) :
           pieces[i] = IF u[i] \in DOMAIN Placeholder
                         THEN RewrittenPlaceholder(Placeholder[u[i]], args) ELSE << u[i] >>
  BY <1>1, <1>4 DEF RewrittenPieces
<1>6. pieces = [i \in 1..Len(u) |-> pieces[i]]
  BY <1>1 DEF RewrittenPieces
<1> HIDE DEF pieces
<1>7. ASSUME NEW i \in 1..Len(u)
      PROVE  /\ pieces[i] \in ClosedText /\ Literals(pieces[i]) \subseteq All
             /\ \A n \in DOMAIN args :
                  u[i] \in DOMAIN Placeholder /\ InRange(n, Placeholder[u[i]])
                  => Literals(args[n]) \subseteq Literals(pieces[i])
  <2>1. CASE u[i] \in DOMAIN Placeholder
    <3> DEFINE ph == Placeholder[u[i]]
    <3>1. ph \in [number : Nat, range_end : Nat] /\ Fits(ph, args)
      BY <2>1, TokenAssumption
    <3>2. pieces[i] = RewrittenPlaceholder(ph, args)
      BY <1>5, <2>1
    <3> HIDE DEF ph
    <3>3. /\ pieces[i] \in ClosedText
          /\ Literals(pieces[i])
               = UNION {Literals(args[n]) : n \in {m \in DOMAIN args : InRange(m, ph)}}
      BY <3>1, <3>2, PlaceholderLiterals
    <3>4. Literals(pieces[i]) \subseteq All
      BY <3>3
    <3>5. \A n \in DOMAIN args : InRange(n, ph) => Literals(args[n]) \subseteq Literals(pieces[i])
      BY <3>3
    <3> QED
      BY <3>3, <3>4, <3>5 DEF ph
  <2>2. CASE u[i] \notin DOMAIN Placeholder
    <3> DEFINE s == << u[i] >>
    <3>1. s \in Text /\ Len(s) = 1 /\ s[1] = u[i]
      BY <1>1 DEF Text
    <3>2. pieces[i] = s
      BY <1>5, <2>2
    <3> HIDE DEF s
    <3>3. s \in ClosedText /\ Literals(s) = {}
      BY <3>1, NoLiterals
    <3> QED
      BY <2>2, <3>2, <3>3
  <2> QED
    BY <2>1, <2>2
<1>8. pieces \in Seq(ClosedText)
  <2>1. pieces \in [1..Len(u) -> ClosedText]
    BY <1>5, <1>6, <1>7
  <2> QED
    BY <1>1, <2>1
<1>9. /\ FlattenSeq(pieces) \in ClosedText
      /\ Literals(FlattenSeq(pieces)) = UNION {Literals(pieces[k]) : k \in DOMAIN pieces}
  BY <1>8, FlattenLiterals
<1>10. Literals(FlattenSeq(pieces)) \subseteq All
  BY <1>5, <1>7, <1>9
<1>11. ASSUME NEW i \in 1..Len(u), NEW n \in DOMAIN args,
              u[i] \in DOMAIN Placeholder, InRange(n, Placeholder[u[i]])
       PROVE  Literals(args[n]) \subseteq Literals(FlattenSeq(pieces))
  BY <1>5, <1>7, <1>9, <1>11
<1> QED
  BY <1>3, <1>9, <1>10, <1>11

\* What a rewrite makes of arguments has the quoted tokens of all of them, if
\* it uses each.
LEMMA RewriteLiterals ==
  ASSUME NEW rewrite \in Text, rewrite # << >> => IsGroup(rewrite),
         \A i \in 1..Len(rewrite) : rewrite[i] \notin Quote,
         NEW args \in Seq(ClosedText), FitsMacroArgs(rewrite, args),
         \A n \in DOMAIN args :
           rewrite # << >> /\ \E ph \in Placeholders(rewrite) : InRange(n, ph)
  PROVE  /\ RewriteMacroArgs[<< rewrite, args >>] \in ClosedText
         /\ Literals(RewriteMacroArgs[<< rewrite, args >>])
              = UNION {Literals(args[n]) : n \in DOMAIN args}
<1> DEFINE All == UNION {Literals(args[n]) : n \in DOMAIN args}
<1>1. args \in Seq(Text)
  BY DEF ClosedText
<1>2. CASE rewrite = << >>
  <2>1. All = {}
    BY <1>2
  <2> QED
    BY <1>1, <1>2, <2>1, RewriteMacroArgsDef, EmptyLiterals
<1>3. CASE rewrite # << >>
  <2> DEFINE tokens == MacroArgTokens[rewrite]
             rewritten == [k \in DOMAIN tokens |-> RewrittenArg[<< tokens[k], args >>]]
  <2>1. /\ tokens \in Seq(ArgOf(rewrite)) /\ \A i \in 1..GroupEnd(rewrite) : Covered(rewrite, i, tokens)
        /\ IsGroup(rewrite) /\ Len(rewrite) \in Nat /\ GroupEnd(rewrite) \in 2..Len(rewrite)
    BY <1>3, MacroArgTokensFacts, TextLength, GroupFacts
  <2>2. RewriteMacroArgs[<< rewrite, args >>] = << "(" >> \o Joined[rewritten] \o << ")" >>
    BY <1>1, <1>3, RewriteMacroArgsDef, Zenon
  <2> HIDE DEF tokens
  <2>3. Len(tokens) \in Nat /\ DOMAIN tokens = 1..Len(tokens)
        /\ \A k \in DOMAIN tokens : tokens[k] \in ArgOf(rewrite)
    BY <2>1
  <2>4. ASSUME NEW k \in DOMAIN tokens
        PROVE  /\ RewrittenArg[<< tokens[k], args >>] \in ClosedText
               /\ Literals(RewrittenArg[<< tokens[k], args >>]) \subseteq All
               /\ \A i \in 1..Len(tokens[k]), n \in DOMAIN args :
                    tokens[k][i] \in DOMAIN Placeholder /\ InRange(n, Placeholder[tokens[k][i]])
                    => Literals(args[n]) \subseteq Literals(RewrittenArg[<< tokens[k], args >>])
    <3> DEFINE u == tokens[k]
    <3>1. u \in ArgOf(rewrite) /\ u \in Text /\ Len(u) \in Nat
      BY <2>3, TextLength DEF ArgOf, PairedText
    <3>2. PICK p \in Nat : IsArgAt(rewrite, u, p)
      BY <3>1 DEF ArgOf
    <3> HIDE DEF u
    <3>3. ASSUME NEW i \in 1..Len(u) PROVE p + i \in 1..Len(rewrite) /\ u[i] = rewrite[p + i]
      BY <3>1, <3>2, WindowUnmasked DEF IsArgAt
    <3>4. \A i \in 1..Len(u) : u[i] \notin Quote
      BY <3>3
    <3>5. ASSUME NEW i \in 1..Len(u), u[i] \in DOMAIN Placeholder
          PROVE  Fits(Placeholder[u[i]], args)
      <4>1. /\ i \in Nat /\ i - 1 \in Nat /\ 0 <= i /\ 0 <= i - 1 /\ i <= Len(u) /\ i - 1 <= Len(u)
            /\ \A j \in (0 + 1)..i : j \in 1..Len(u)
            /\ \A j \in (0 + 1)..(i - 1) : j \in 1..Len(u)
        BY <3>1
      <4>2. Unquoted(u, i) /\ Unquoted(u, i - 1)
        BY <3>1, <3>4, <4>1, UnquotedFirst, NothingQuoted
      <4>3. i \in Unmasked(u)
        BY <3>1, <4>2, UnmaskedFacts
      <4>4. Placeholder[u[i]] \in Placeholders(rewrite)
        BY <2>1, <3>1, <3>5, <4>3, PlaceholderOfRewrite
      <4> QED
        BY <4>4 DEF FitsMacroArgs, Fits
    <3>6. /\ RewrittenArg[<< u, args >>] \in ClosedText
          /\ Literals(RewrittenArg[<< u, args >>]) \subseteq All
          /\ \A i \in 1..Len(u), n \in DOMAIN args :
               u[i] \in DOMAIN Placeholder /\ InRange(n, Placeholder[u[i]])
               => Literals(args[n]) \subseteq Literals(RewrittenArg[<< u, args >>])
      BY <3>1, <3>4, <3>5, RewrittenArgLiterals
    <3> QED
      BY <3>6 DEF u
  <2>5. rewritten \in [1..Len(tokens) -> ClosedText]
    BY <2>3, <2>4
  <2>6. DOMAIN rewritten = DOMAIN tokens
        /\ \A k \in DOMAIN tokens : rewritten[k] = RewrittenArg[<< tokens[k], args >>]
    OBVIOUS
  <2> HIDE DEF rewritten, All
  <2>7. rewritten \in Seq(ClosedText)
    BY <2>3, <2>5
  <2>8. /\ Joined[rewritten] \in ClosedText
        /\ Literals(Joined[rewritten]) = UNION {Literals(rewritten[k]) : k \in DOMAIN rewritten}
    BY <2>7, JoinedLiterals
  <2>9. Literals(Joined[rewritten]) \subseteq All
    <3>1. ASSUME NEW k \in DOMAIN rewritten PROVE Literals(rewritten[k]) \subseteq All
      <4>1. k \in DOMAIN tokens /\ rewritten[k] = RewrittenArg[<< tokens[k], args >>]
        BY <2>6
      <4> QED
        BY <2>4, <4>1, Zenon
    <3>2. UNION {Literals(rewritten[k]) : k \in DOMAIN rewritten} \subseteq All
      BY <3>1, Zenon
    <3> QED
      BY <2>8, <3>2
  <2>10. ASSUME NEW n \in DOMAIN args PROVE Literals(args[n]) \subseteq Literals(Joined[rewritten])
    <3>1. PICK ph \in Placeholders(rewrite) : InRange(n, ph)
      OBVIOUS
    <3>2. PICK i \in Unmasked(rewrite) :
            i < GroupEnd(rewrite) /\ rewrite[i] \in DOMAIN Placeholder /\ ph = Placeholder[rewrite[i]]
      BY DEF Placeholders
    <3>3. i \in 1..GroupEnd(rewrite)
      BY <2>1, <3>2, UnmaskedFacts
    <3>4. rewrite[i] \notin Punctuation /\ Blank \in Punctuation
      <4>1. rewrite[i] \notin Punctuation
        BY <3>2, TokenAssumption
      <4> QED
        BY <4>1, Zenon DEF Blank, Punctuation
    <3>5. InArg(rewrite, i, tokens)
      BY <2>1, <3>3, <3>4, SeparatorsUnmasked DEF Covered
    <3>6. PICK k \in DOMAIN tokens, p \in Nat :
            IsArgAt(rewrite, tokens[k], p) /\ p < i /\ i <= p + Len(tokens[k])
      BY <3>5 DEF InArg
    <3> DEFINE u == tokens[k]
               j == i - p
    <3>7. u \in Text /\ Len(u) \in Nat /\ IsWindow(rewrite, u, p) /\ p < i /\ i <= p + Len(u)
      BY <2>3, <3>6, TextLength DEF ArgOf, PairedText, IsArgAt
    <3>8. /\ \A m \in 1..Len(u) :
               u[m] \in DOMAIN Placeholder /\ InRange(n, Placeholder[u[m]])
               => Literals(args[n]) \subseteq Literals(rewritten[k])
      BY <2>4, <2>6
    <3>9. Literals(rewritten[k]) \subseteq Literals(Joined[rewritten])
      BY <2>6, <2>8
    <3> HIDE DEF u
    <3>10. j \in 1..Len(u) /\ p + j = i
      BY <2>1, <3>3, <3>7
    <3> HIDE DEF j
    <3>11. u[j] = rewrite[i]
      BY <3>7, <3>10 DEF IsWindow
    <3> QED
      BY <3>1, <3>2, <3>8, <3>9, <3>10, <3>11
  <2>11. Literals(Joined[rewritten]) = All
    BY <2>9, <2>10 DEF All
  <2>12. /\ << "(" >> \o Joined[rewritten] \o << ")" >> \in ClosedText
         /\ Literals(<< "(" >> \o Joined[rewritten] \o << ")" >>) = Literals(Joined[rewritten])
    BY <2>8, ParenthesizedLiterals
  <2> QED
    BY <2>2, <2>11, <2>12, Zenon DEF All
<1> QED
  BY <1>2, <1>3

-------------------------------------------------------------------------------
\* Where calls come from.  In what a rewrite makes of arguments, a token v comes
\* after a token w in an argument only, if the rewrite neither has a w nor a v
\* after a placeholder.

Joint == {",", " "}

FromArg(t, n, args) ==
  \E k \in DOMAIN args, p \in Nat :
    IsWindow(t, args[k], p) /\ p < n /\ n <= p + Len(args[k])
OnlyInArgs(t, w, v, args) ==
  \A n \in 2..Len(t) : t[n - 1] = w /\ t[n] = v => FromArg(t, n, args)

LEMMA FromArgWithin ==
  ASSUME NEW s \in Text, NEW t \in Text, NEW p, IsWindow(s, t, p), NEW args \in Seq(Text),
         NEW n \in Nat, FromArg(t, n, args)
  PROVE  FromArg(s, p + n, args)
<1>1. PICK k \in DOMAIN args, q \in Nat :
        IsWindow(t, args[k], q) /\ q < n /\ n <= q + Len(args[k])
  BY DEF FromArg
<1>2. args[k] \in Text /\ Len(args[k]) \in Nat
  BY TextLength
<1>3. IsWindow(s, args[k], p + q)
  BY <1>1, <1>2, WindowOfWindow
<1>4. p \in Nat /\ p + q \in Nat /\ p + q < p + n /\ p + n <= (p + q) + Len(args[k])
  BY <1>1, <1>2 DEF IsWindow
<1> QED
  BY <1>3, <1>4 DEF FromArg

LEMMA ConcatOnlyInArgs ==
  ASSUME NEW s \in Text, NEW t \in Text, NEW args \in Seq(Text), NEW w, NEW v,
         OnlyInArgs(s, w, v, args), OnlyInArgs(t, w, v, args),
         Unquoted(s, Len(s)) \/ Len(t) <= 1,
         Len(s) # 0 /\ Len(t) # 0 /\ s[Len(s)] = w /\ t[1] = v
           => Unquoted(s, Len(s)) /\ FromArg(t, 1, args)
  PROVE  OnlyInArgs(s \o t, w, v, args)
<1> DEFINE u == s \o t
           m == Len(s)
<1>1. /\ u \in Text /\ m \in Nat /\ Len(t) \in Nat /\ Len(u) = m + Len(t)
      /\ \A j \in 1..m : u[j] = s[j]
      /\ \A j \in 1..Len(t) : u[m + j] = t[j]
  BY TextLength, ConcatText
<1>2. IsWindow(u, s, 0) /\ (Unquoted(s, m) => IsWindow(u, t, m))
  BY ConcatWindows
<1> HIDE DEF u
<1> SUFFICES ASSUME NEW n \in 2..Len(u), u[n - 1] = w, u[n] = v
             PROVE  FromArg(u, n, args)
  BY DEF OnlyInArgs, u
<1>3. CASE n <= m
  <2>1. /\ n \in 2..m /\ n - 1 \in 1..m /\ n \in 1..m /\ n \in Nat /\ 0 + n = n
    BY <1>1, <1>3
  <2>2. FromArg(s, n, args)
    BY <1>1, <2>1 DEF OnlyInArgs, m
  <2>3. FromArg(u, 0 + n, args)
    BY <1>1, <1>2, <2>1, <2>2, FromArgWithin
  <2> QED
    BY <2>1, <2>3
<1>4. CASE n > m
  <2> DEFINE j == n - m
  <2>1. /\ j \in 1..Len(t) /\ j \in Nat /\ m + j = n /\ Len(t) # 0
        /\ j # 1 => j \in 2..Len(t) /\ j - 1 \in 1..Len(t) /\ m + (j - 1) = n - 1
                    /\ ~(Len(t) <= 1)
        /\ j = 1 => m # 0 /\ m \in 1..m /\ n - 1 = m
    BY <1>1, <1>4
  <2> HIDE DEF j
  <2>2. u[m + j] = t[j] /\ (j # 1 => u[m + (j - 1)] = t[j - 1]) /\ (j = 1 => u[n - 1] = s[m])
    BY <1>1, <2>1
  <2>3. Unquoted(s, m) /\ FromArg(t, j, args)
    <3>1. CASE j = 1
      BY <2>1, <2>2, <3>1 DEF m
    <3>2. CASE j # 1
      BY <2>1, <2>2, <3>2 DEF OnlyInArgs, m
    <3> QED
      BY <3>1, <3>2
  <2> HIDE DEF m
  <2>4. FromArg(u, m + j, args)
    BY <1>1, <1>2, <2>1, <2>3, FromArgWithin
  <2> QED
    BY <2>1, <2>4
<1> QED
  BY <1>1, <1>3, <1>4

\* What is put together piece by piece is in the last of a row of sets, if each
\* piece leads from one to the next.
LEMMA FlattenTo ==
  ASSUME NEW seqs, Len(seqs) \in Nat, Len(seqs) # 0, NEW S,
         seqs[1] \in S[1],
         \A i \in 1..(Len(seqs) - 1) : \A t \in S[i] : Cat(t, seqs[i + 1]) \in S[i + 1]
  PROVE  FlattenSeq(seqs) \in S[Len(seqs)]
<1>1. PICK f : IsFlattened(f, seqs, Len(seqs)) /\ FlattenSeq(seqs) = f[Len(seqs)]
  BY FlattenDef
<1> DEFINE P(m) == m + 1 <= Len(seqs) => f[m + 1] \in S[m + 1]
           T == {m \in Nat : P(m)}
<1>2. P(0)
  BY <1>1 DEF IsFlattened
<1>3. ASSUME NEW m \in Nat, P(m) PROVE P(m + 1)
  <2> SUFFICES ASSUME (m + 1) + 1 <= Len(seqs) PROVE f[(m + 1) + 1] \in S[(m + 1) + 1]
    OBVIOUS
  <2>1. /\ (m + 1) + 1 \in 2..Len(seqs) /\ m + 1 \in 1..(Len(seqs) - 1)
        /\ ((m + 1) + 1) - 1 = m + 1 /\ m + 1 <= Len(seqs)
    OBVIOUS
  <2>2. f[(m + 1) + 1] = Cat(f[m + 1], seqs[(m + 1) + 1])
    BY <1>1, <2>1 DEF IsFlattened
  <2>3. f[m + 1] \in S[m + 1]
    BY <1>3, <2>1
  <2> QED
    BY <2>1, <2>2, <2>3
<1> HIDE DEF P
<1>4. Nat \subseteq T
  <2>1. 0 \in T /\ \A m \in Nat : m \in T => m + 1 \in T
    BY <1>2, <1>3
  <2> HIDE DEF T
  <2> QED
    BY <2>1, NumbersInductive
<1>5. P(Len(seqs) - 1) /\ (Len(seqs) - 1) + 1 = Len(seqs)
  BY <1>4
<1> QED
  BY <1>1, <1>5 DEF P

LEMMA JoinedOnlyInArgs ==
  ASSUME NEW texts \in Seq(PairedText), NEW args \in Seq(Text),
         NEW w, w \notin Punctuation, NEW v, v \notin Joint,
         \A k \in DOMAIN texts : OnlyInArgs(texts[k], w, v, args)
  PROVE  /\ OnlyInArgs(Joined[texts], w, v, args)
         /\ texts # << >> => IsWindow(Joined[texts], texts[1], 0)
<1> DEFINE separator == << ",", " " >>
           pieces == [k \in DOMAIN texts |-> IF k = 1 THEN texts[k] ELSE separator \o texts[k]]
           Begun == {t \in PairedText : OnlyInArgs(t, w, v, args) /\ IsWindow(t, texts[1], 0)}
           S == [k \in DOMAIN texts |-> Begun]
<1>1. /\ texts \in Seq(Text) /\ Len(texts) \in Nat /\ DOMAIN texts = 1..Len(texts)
      /\ \A k \in DOMAIN texts :
           texts[k] \in PairedText /\ texts[k] \in Text /\ Unquoted(texts[k], Len(texts[k]))
  BY InPairsFacts DEF PairedText
<1>2. /\ separator \in PairedText /\ separator \in Text /\ Len(separator) = 2
      /\ separator[1] \notin {w, v} /\ separator[2] \notin {w, v}
      /\ Unquoted(separator, Len(separator))
  <2>1. "," \in Token /\ " " \in Token /\ "," \in Punctuation /\ " " \in Punctuation
    BY Zenon DEF Token, Punctuation
  <2>2. "," \notin Quote \cup {"(", ")"} /\ " " \notin Quote \cup {"(", ")"}
    BY Zenon DEF Quote
  <2>3. separator \in PairedText
    BY <2>1, <2>2, NeutralTokens
  <2>4. Len(separator) = 2 /\ separator[1] = "," /\ separator[2] = " "
    OBVIOUS
  <2>5. separator[1] \notin {w, v} /\ separator[2] \notin {w, v}
    BY <2>1, <2>4, Zenon DEF Joint
  <2> HIDE DEF separator
  <2>6. separator \in Text /\ InPairs(separator)
    BY <2>3 DEF PairedText
  <2> QED
    BY <2>3, <2>4, <2>5, <2>6, InPairsFacts
<1> HIDE DEF separator
<1>3. Joined[texts] = FlattenSeq(pieces)
  BY <1>1, Zenon DEF Joined, separator
<1>4. CASE texts = << >>
  <2>1. FlattenSeq(pieces) = << >>
    BY <1>4 DEF FlattenSeq
  <2>2. OnlyInArgs(<< >>, w, v, args)
    BY DEF OnlyInArgs
  <2> QED
    BY <1>3, <1>4, <2>1, <2>2
<1>5. CASE texts # << >>
  <2>1. Len(texts) # 0 /\ 1 \in DOMAIN texts
    BY <1>1, <1>5
  <2>2. /\ Len(pieces) = Len(texts) /\ pieces[1] = texts[1]
        /\ \A k \in DOMAIN texts : k # 1 => pieces[k] = separator \o texts[k]
    BY <1>1, <2>1
  <2> HIDE DEF pieces
  <2>3. texts[1] \in Begun
    <3>1. IsWindow(texts[1], texts[1], 0)
      BY <1>1, <2>1, TextLength, UnquotedFirst DEF IsWindow
    <3> QED
      BY <1>1, <2>1, <3>1
  <2>4. ASSUME NEW k \in DOMAIN texts, k # 1 PROVE
          /\ pieces[k] \in PairedText /\ OnlyInArgs(pieces[k], w, v, args)
          /\ pieces[k][1] # v
    <3> DEFINE t == texts[k]
               piece == separator \o t
    <3>1. /\ t \in PairedText /\ t \in Text /\ Len(t) \in Nat /\ OnlyInArgs(t, w, v, args)
      BY <1>1, TextLength
    <3> HIDE DEF t
    <3>2. piece \in PairedText /\ piece[1] = separator[1]
      BY <1>2, <3>1, ConcatInPairs, ConcatText
    <3>3. OnlyInArgs(separator, w, v, args)
      <4>1. \A n \in 2..Len(separator) : n = 2
        BY <1>2
      <4> QED
        BY <1>2, <4>1 DEF OnlyInArgs
    <3>4. separator[Len(separator)] # w
      BY <1>2
    <3>5. OnlyInArgs(piece, w, v, args)
      BY <1>2, <3>1, <3>3, <3>4, ConcatOnlyInArgs
    <3> HIDE DEF piece
    <3>6. pieces[k] = piece
      BY <2>2, <2>4 DEF piece, t
    <3> QED
      BY <1>2, <3>2, <3>5, <3>6
  <2>5. ASSUME NEW i \in 1..(Len(texts) - 1), NEW t \in Begun
        PROVE  Cat(t, pieces[i + 1]) \in Begun
    <3> DEFINE piece == pieces[i + 1]
    <3>1. i + 1 \in DOMAIN texts /\ i + 1 # 1
      BY <1>1
    <3>2. piece \in PairedText /\ OnlyInArgs(piece, w, v, args) /\ piece[1] # v
      BY <2>4, <3>1
    <3> HIDE DEF piece
    <3>3. /\ t \in Text /\ piece \in Text /\ Unquoted(t, Len(t))
          /\ t \in PairedText /\ OnlyInArgs(t, w, v, args) /\ IsWindow(t, texts[1], 0)
      BY <3>2, InPairsFacts DEF PairedText
    <3>4. OnlyInArgs(t \o piece, w, v, args)
      BY <3>2, <3>3, ConcatOnlyInArgs
    <3>5. t \o piece \in PairedText
      BY <3>2, <3>3, ConcatInPairs
    <3>6. t \o piece \in Text /\ IsWindow(t \o piece, t, 0)
      BY <3>3, ConcatText, ConcatWindows
    <3>7. IsWindow(t \o piece, texts[1], 0)
      <4>1. IsWindow(t \o piece, texts[1], 0 + 0) /\ 0 + 0 = 0
        BY <1>1, <2>1, <3>3, <3>6, WindowOfWindow
      <4> QED
        BY <4>1
    <3> QED
      BY <3>4, <3>5, <3>7 DEF Cat, piece
  <2> HIDE DEF Begun
  <2>6. \A k \in DOMAIN texts : S[k] = Begun
    OBVIOUS
  <2> HIDE DEF S
  <2>7. FlattenSeq(pieces) \in S[Len(pieces)]
    <3>1. Len(pieces) \in Nat /\ Len(pieces) # 0 /\ pieces[1] \in S[1]
      BY <1>1, <2>1, <2>2, <2>3, <2>6
    <3>2. \A i \in 1..(Len(pieces) - 1) : \A t \in S[i] : Cat(t, pieces[i + 1]) \in S[i + 1]
      <4> SUFFICES ASSUME NEW i \in 1..(Len(texts) - 1), NEW t \in S[i]
                   PROVE  Cat(t, pieces[i + 1]) \in S[i + 1]
        BY <2>2
      <4>1. i \in DOMAIN texts /\ i + 1 \in DOMAIN texts
        BY <1>1
      <4> QED
        BY <2>5, <2>6, <4>1
    <3> QED
      BY <3>1, <3>2, FlattenTo
  <2>8. FlattenSeq(pieces) \in Begun
    BY <1>1, <2>1, <2>2, <2>6, <2>7
  <2> QED
    BY <1>3, <2>8 DEF Begun
<1> QED
  BY <1>4, <1>5

\* What stands for a placeholder is made of arguments, and begins with one.
LEMMA PlaceholderOnlyInArgs ==
  ASSUME NEW args \in Seq(PairedText), \A k \in DOMAIN args : args[k] # << >>,
         NEW ph \in [number : Nat, range_end : Nat], Fits(ph, args),
         NEW w, w \notin Punctuation, NEW v, v \notin Joint
  PROVE  /\ RewrittenPlaceholder(ph, args) \in PairedText
         /\ OnlyInArgs(RewrittenPlaceholder(ph, args), w, v, args)
         /\ FromArg(RewrittenPlaceholder(ph, args), 1, args)
<1> DEFINE a == ph.number
           b == ph.range_end
<1>1. /\ a \in Nat /\ b \in Nat /\ Len(args) \in Nat /\ DOMAIN args = 1..Len(args)
      /\ a \in 1..Len(args) /\ (b # 0 => b \in 1..Len(args))
      /\ args \in Seq(Text)
      /\ \A n \in 1..Len(args) : args[n] \in PairedText /\ args[n] \in Text /\ Len(args[n]) \in Nat \ {0}
  <2>1. /\ a \in Nat /\ b \in Nat /\ Len(args) \in Nat /\ DOMAIN args = 1..Len(args)
        /\ a \in 1..Len(args) /\ (b # 0 => b \in 1..Len(args))
    BY DEF Fits
  <2>2. args \in Seq(Text)
    BY DEF PairedText
  <2>3. \A n \in 1..Len(args) : args[n] \in PairedText /\ args[n] \in Seq(Token) /\ args[n] # << >>
    <3>1. PairedText \subseteq Seq(Token)
      BY DEF PairedText, Text
    <3>2. \A n \in 1..Len(args) : args[n] \in PairedText
      OBVIOUS
    <3> QED
      BY <2>1, <3>1, <3>2, Zenon
  <2>4. \A n \in 1..Len(args) : Len(args[n]) \in Nat \ {0}
    BY <2>3
  <2> QED
    BY <2>1, <2>2, <2>3, <2>4 DEF Text
<1>2. RewrittenPlaceholder(ph, args) \in PairedText
  BY PlaceholderInPairs DEF Fits
<1>3. RewrittenPlaceholder(ph, args) = IF b > a THEN Joined[SubSeq(args, a, b)] ELSE args[a]
  BY DEF RewrittenPlaceholder
<1> HIDE DEF a, b
<1>4. ASSUME NEW k \in DOMAIN args, NEW t \in Text, IsWindow(t, args[k], 0)
      PROVE  FromArg(t, 1, args)
  BY <1>1, <1>4 DEF FromArg
<1>5. ASSUME NEW k \in DOMAIN args PROVE IsWindow(args[k], args[k], 0)
  BY <1>1, UnquotedFirst DEF IsWindow
<1>6. ASSUME NEW k \in DOMAIN args PROVE OnlyInArgs(args[k], w, v, args)
  <2> SUFFICES ASSUME NEW n \in 2..Len(args[k]) PROVE FromArg(args[k], n, args)
    BY DEF OnlyInArgs
  <2>1. 0 < n /\ n <= 0 + Len(args[k]) /\ 0 \in Nat
    BY <1>1
  <2> QED
    BY <1>5, <2>1 DEF FromArg
<1>7. CASE b > a
  <2> DEFINE texts == SubSeq(args, a, b)
  <2>1. /\ texts \in Seq(PairedText) /\ Len(texts) = b - a + 1
        /\ \A j \in 1..(b - a + 1) : texts[j] = args[(a + j) - 1]
    <3>1. a \in Int /\ b \in Int /\ 1 <= a /\ a <= b + 1 /\ b <= Len(args)
      BY <1>1, <1>7
    <3> QED
      BY <3>1, SubSeqTyped
  <2> HIDE DEF texts
  <2>2. DOMAIN texts = 1..(b - a + 1) /\ texts # << >> /\ 1 \in 1..(b - a + 1) /\ (a + 1) - 1 = a
    BY <1>1, <1>7, <2>1
  <2>3. \A k \in DOMAIN texts : (a + k) - 1 \in DOMAIN args /\ texts[k] = args[(a + k) - 1]
    BY <1>1, <1>7, <2>1, <2>2
  <2>4. \A k \in DOMAIN texts : OnlyInArgs(texts[k], w, v, args)
    BY <1>6, <2>3
  <2>5. OnlyInArgs(Joined[texts], w, v, args) /\ IsWindow(Joined[texts], texts[1], 0)
    BY <1>1, <2>1, <2>2, <2>4, JoinedOnlyInArgs
  <2>6. Joined[texts] \in Text
    BY <2>1, JoinedInPairs DEF PairedText
  <2>7. texts[1] = args[a] /\ a \in DOMAIN args
    BY <1>1, <2>1, <2>2
  <2>8. RewrittenPlaceholder(ph, args) = Joined[texts]
    BY <1>3, <1>7 DEF texts
  <2> QED
    BY <1>2, <1>4, <2>5, <2>6, <2>7, <2>8
<1>8. CASE ~(b > a)
  BY <1>1, <1>2, <1>3, <1>4, <1>5, <1>6, <1>8
<1> QED
  BY <1>7, <1>8

\* An argument of a rewrite, with arguments in place of its placeholders.
LEMMA RewrittenArgOnlyInArgs ==
  ASSUME NEW u \in PairedText, NEW args \in Seq(PairedText),
         \A k \in DOMAIN args : args[k] # << >>,
         \A i \in Unmasked(u) : u[i] \in DOMAIN Placeholder => Fits(Placeholder[u[i]], args),
         NEW w \in Word, NEW v, v \notin Joint,
         \A i \in 1..Len(u) : u[i] # w,
         \A i \in 1..(Len(u) - 1) : u[i] \in DOMAIN Placeholder => u[i + 1] # v
  PROVE  OnlyInArgs(RewrittenArg[<< u, args >>], w, v, args)
<1> DEFINE pieces == RewrittenPieces(u, args)
           Made(t, i) == /\ Simulates(t, u, i) /\ OnlyInArgs(t, w, v, args) /\ Len(t) # 0
                         /\ t[Len(t)] = w => u[i] \in DOMAIN Placeholder
           S == [i \in 1..Len(u) |-> {t \in Text : Made(t, i)}]
<1>1. /\ u \in Text /\ InPairs(u) /\ Len(u) \in Nat /\ DOMAIN u = 1..Len(u)
      /\ \A i \in 1..Len(u) : u[i] \in Token
      /\ args \in Seq(Text)
  <2>1. u \in Text /\ InPairs(u) /\ PairedText \subseteq Text
    BY DEF PairedText
  <2> QED
    BY <2>1, TextLength
<1>2. w \notin Punctuation /\ w \notin DOMAIN Placeholder
  BY TokenAssumption
<1>3. RewrittenArg[<< u, args >>] = FlattenSeq(pieces)
  BY <1>1, RewrittenArgDef
<1>4. /\ Len(pieces) = Len(u) /\ DOMAIN pieces = 1..Len(u)
      /\ \A i \in 1..Len(u) :
           pieces[i] = IF u[i] \in DOMAIN Placeholder /\ i \in Unmasked(u)
                         THEN RewrittenPlaceholder(Placeholder[u[i]], args) ELSE << u[i] >>
  <2>1. pieces = [i \in 1..Len(u) |-> pieces[i]]
    BY <1>1 DEF RewrittenPieces
  <2>2. \A i \in 1..Len(u) :
           pieces[i] = IF u[i] \in DOMAIN Placeholder /\ i \in Unmasked(u)
                         THEN RewrittenPlaceholder(Placeholder[u[i]], args) ELSE << u[i] >>
    BY <1>1 DEF RewrittenPieces
  <2> HIDE DEF pieces
  <2>3. DOMAIN pieces = 1..Len(u)
    BY <2>1
  <2> QED
    BY <1>1, <2>1, <2>2, <2>3
<1> HIDE DEF pieces
<1>5. ASSUME NEW i \in 1..Len(u)
      PROVE  /\ pieces[i] \in Text /\ Len(pieces[i]) \in Nat \ {0}
             /\ OnlyInArgs(pieces[i], w, v, args)
             /\ \/ /\ pieces[i] = << u[i] >> /\ Len(pieces[i]) = 1 /\ pieces[i][1] = u[i]
                \/ /\ u[i] \in DOMAIN Placeholder /\ u[i] \notin Quote \cup {"(", ")"}
                   /\ Unquoted(u, i - 1)
                   /\ pieces[i] \in PairedText /\ FromArg(pieces[i], 1, args)
  <2>1. CASE u[i] \in DOMAIN Placeholder /\ i \in Unmasked(u)
    <3> DEFINE ph == Placeholder[u[i]]
    <3>1. ph \in [number : Nat, range_end : Nat] /\ Fits(ph, args)
      BY <2>1, TokenAssumption
    <3>2. pieces[i] = RewrittenPlaceholder(ph, args)
      BY <1>4, <2>1
    <3> HIDE DEF ph
    <3>3. /\ pieces[i] \in PairedText /\ OnlyInArgs(pieces[i], w, v, args)
          /\ FromArg(pieces[i], 1, args)
      BY <1>2, <3>1, <3>2, PlaceholderOnlyInArgs
    <3>4. u[i] \notin Quote \cup {"(", ")"}
      BY <2>1, TokenAssumption, Zenon DEF Punctuation
    <3>5. Unquoted(u, i - 1)
      BY <1>1, <2>1, UnmaskedFacts
    <3>6. pieces[i] \in Text /\ Len(pieces[i]) \in Nat
      BY <3>3, TextLength DEF PairedText
    <3>7. Len(pieces[i]) # 0
      <4>1. PICK k \in DOMAIN args, p \in Nat :
              IsWindow(pieces[i], args[k], p) /\ 1 <= p + Len(args[k])
        BY <3>3 DEF FromArg
      <4>2. Len(args[k]) \in Nat
        BY <1>1, TextLength
      <4> QED
        BY <3>6, <4>1, <4>2 DEF IsWindow
    <3> QED
      BY <2>1, <3>3, <3>4, <3>5, <3>6, <3>7
  <2>2. CASE ~(u[i] \in DOMAIN Placeholder /\ i \in Unmasked(u))
    <3> DEFINE t == << u[i] >>
    <3>1. t \in Text /\ Len(t) = 1 /\ t[1] = u[i]
      BY <1>1 DEF Text
    <3>2. pieces[i] = t
      BY <1>4, <2>2
    <3> HIDE DEF t
    <3>3. \A n \in 2..Len(t) : FALSE
      BY <3>1
    <3>4. OnlyInArgs(t, w, v, args)
      BY <3>3 DEF OnlyInArgs
    <3> QED
      BY <3>1, <3>2, <3>4 DEF t
  <2> QED
    BY <2>1, <2>2
<1>6. Simulates(<< >>, u, 0) /\ << >> \in Text /\ Len(<< >>) = 0
      /\ OnlyInArgs(<< >>, w, v, args)
  <2>1. << >> \in Text /\ Len(<< >>) = 0
    BY DEF Text
  <2>2. /\ 0 \in 0..Len(u) /\ 0 \in 0..0 /\ 0 \in Int
        /\ Unquoted(u, 0) /\ Unquoted(<< >>, 0) /\ Depth(<< >>, 0) = Depth(u, 0) + 0
    BY <1>1, <2>1, UnquotedFirst, DepthFirst
  <2>3. Aligned(Open[<< >>][0], Open[u][0], 0)
    BY <1>1, <2>1, <2>2, AlignedUnquoted
  <2>4. Simulates(<< >>, u, 0)
    BY <2>1, <2>3 DEF Simulates
  <2>5. \A n \in 2..0 : FALSE
    OBVIOUS
  <2> QED
    BY <2>1, <2>4, <2>5 DEF OnlyInArgs
<1>7. ASSUME NEW n \in Nat, n < Len(u), NEW t \in Text, Simulates(t, u, n),
             OnlyInArgs(t, w, v, args),
             Len(t) # 0 => n # 0 /\ (t[Len(t)] = w => u[n] \in DOMAIN Placeholder)
      PROVE  t \o pieces[n + 1] \in Text /\ Made(t \o pieces[n + 1], n + 1)
  <2> DEFINE piece == pieces[n + 1]
             s == t \o piece
  <2>1. n + 1 \in 1..Len(u) /\ (n + 1) - 1 = n
    BY <1>1, <1>7
  <2>2. /\ piece \in Text /\ Len(piece) \in Nat \ {0} /\ OnlyInArgs(piece, w, v, args)
        /\ \/ /\ piece = << u[n + 1] >> /\ Len(piece) = 1 /\ piece[1] = u[n + 1]
           \/ /\ u[n + 1] \in DOMAIN Placeholder /\ u[n + 1] \notin Quote \cup {"(", ")"}
              /\ Unquoted(u, n)
              /\ piece \in PairedText /\ FromArg(piece, 1, args)
    BY <1>5, <2>1
  <2> HIDE DEF piece
  <2>3. /\ s \in Text /\ Len(t) \in Nat /\ Len(s) = Len(t) + Len(piece)
        /\ s[Len(s)] = piece[Len(piece)]
    <3>1. /\ s \in Text /\ Len(s) = Len(t) + Len(piece)
          /\ \A j \in 1..Len(piece) : s[Len(t) + j] = piece[j]
      BY <1>7, <2>2, ConcatText
    <3> HIDE DEF s
    <3>2. Len(piece) \in 1..Len(piece) /\ Len(t) \in Nat
      BY <1>7, <2>2, TextLength
    <3> QED
      BY <3>1, <3>2
  <2>4. CASE piece = << u[n + 1] >> /\ Len(piece) = 1 /\ piece[1] = u[n + 1]
    <3>1. Simulates(t \o << u[n + 1] >>, u, n + 1)
      BY <1>1, <1>7, SimulatesToken
    <3>2. ~(Len(t) # 0 /\ t[Len(t)] = w /\ piece[1] = v)
      <4> SUFFICES ASSUME Len(t) # 0, t[Len(t)] = w, u[n + 1] = v PROVE FALSE
        BY <2>4
      <4>1. n # 0 /\ u[n] \in DOMAIN Placeholder
        BY <1>7
      <4>2. n \in 1..(Len(u) - 1)
        BY <1>1, <1>7, <4>1
      <4> QED
        BY <4>1, <4>2
    <3>3. OnlyInArgs(t \o piece, w, v, args)
      <4>1. Len(piece) <= 1
        BY <2>4
      <4> QED
        BY <1>1, <1>7, <2>2, <3>2, <4>1, ConcatOnlyInArgs
    <3>4. s[Len(s)] # w
      BY <2>1, <2>3, <2>4
    <3>5. Len(s) # 0
      BY <2>2, <2>3
    <3> QED
      BY <2>3, <2>4, <3>1, <3>3, <3>4, <3>5 DEF piece
  <2>5. CASE /\ u[n + 1] \in DOMAIN Placeholder /\ u[n + 1] \notin Quote \cup {"(", ")"}
             /\ Unquoted(u, n) /\ piece \in PairedText /\ FromArg(piece, 1, args)
    <3>1. Simulates(t \o piece, u, n + 1)
      BY <1>1, <1>7, <2>5, SimulatesPiece
    <3>2. Unquoted(t, Len(t))
      BY <1>7, <2>5, Zenon DEF Simulates, Aligned, SameQuote, Unquoted
    <3>3. OnlyInArgs(t \o piece, w, v, args)
      BY <1>1, <1>7, <2>2, <2>5, <3>2, ConcatOnlyInArgs
    <3>4. Len(s) # 0
      BY <2>2, <2>3
    <3> QED
      BY <2>3, <2>5, <3>1, <3>3, <3>4 DEF piece
  <2> QED
    BY <2>2, <2>4, <2>5
<1>8. CASE Len(u) = 0
  <2>1. FlattenSeq(pieces) = << >>
    <3>1. pieces = << >>
      BY <1>1, <1>8 DEF RewrittenPieces, pieces
    <3> QED
      BY <3>1 DEF FlattenSeq
  <2> QED
    BY <1>3, <1>6, <2>1
<1>9. CASE Len(u) # 0
  <2>1. \A i \in 1..Len(u) : \A t : t \in S[i] <=> t \in Text /\ Made(t, i)
    OBVIOUS
  <2>2. << >> \o pieces[1] \in Text /\ Made(<< >> \o pieces[1], 1)
    <3>1. 0 \in Nat /\ 0 < Len(u) /\ 0 + 1 = 1
      BY <1>1, <1>9
    <3> HIDE DEF Made
    <3> QED
      BY <1>6, <1>7, <3>1
  <2>3. ASSUME NEW i \in 1..(Len(u) - 1), NEW t \in Text, Made(t, i)
        PROVE  t \o pieces[i + 1] \in Text /\ Made(t \o pieces[i + 1], i + 1)
    <3>1. i \in Nat /\ i < Len(u) /\ i # 0
      BY <1>1
    <3>2. /\ Simulates(t, u, i) /\ OnlyInArgs(t, w, v, args)
          /\ t[Len(t)] = w => u[i] \in DOMAIN Placeholder
      BY <2>3
    <3> HIDE DEF Made
    <3> QED
      BY <1>7, <3>1, <3>2
  <2>4. << >> \o pieces[1] = pieces[1]
    <3>1. pieces[1] \in Seq(Token)
      BY <1>1, <1>5, <1>9 DEF Text
    <3> QED
      BY <3>1
  <2> HIDE DEF Made, S
  <2>5. pieces[1] \in S[1]
    BY <1>1, <1>9, <2>1, <2>2, <2>4
  <2>6. \A i \in 1..(Len(pieces) - 1) : \A t \in S[i] : Cat(t, pieces[i + 1]) \in S[i + 1]
    <3> SUFFICES ASSUME NEW i \in 1..(Len(u) - 1), NEW t \in S[i]
                 PROVE  t \o pieces[i + 1] \in S[i + 1]
      BY <1>4 DEF Cat
    <3>1. i \in 1..Len(u) /\ i + 1 \in 1..Len(u)
      BY <1>1
    <3>2. t \in Text /\ Made(t, i)
      BY <2>1, <3>1
    <3>3. t \o pieces[i + 1] \in Text /\ Made(t \o pieces[i + 1], i + 1)
      BY <2>3, <3>2
    <3> QED
      BY <2>1, <3>1, <3>3
  <2>7. FlattenSeq(pieces) \in S[Len(pieces)]
    BY <1>1, <1>4, <1>9, <2>5, <2>6, FlattenTo
  <2>8. Made(FlattenSeq(pieces), Len(u))
    BY <1>1, <1>4, <1>9, <2>1, <2>7
  <2> QED
    BY <1>3, <2>8 DEF Made
<1> QED
  BY <1>1, <1>8, <1>9

\* What a rewrite makes of arguments ends with a parenthesis; it has calls of w in
\* arguments only, if w is not in the rewrite, which calls no argument.
LEMMA RewriteOnlyInArgs ==
  ASSUME NEW rewrite \in Text, IsGroup(rewrite),
         NEW args \in Seq(PairedText), \A k \in DOMAIN args : args[k] # << >>,
         FitsMacroArgs(rewrite, args),
         NEW w \in Word, \A i \in 1..Len(rewrite) : rewrite[i] # w,
         \A i \in 1..(Len(rewrite) - 1) :
           rewrite[i] \in DOMAIN Placeholder => rewrite[i + 1] # "(",
         NEW out, out = RewriteMacroArgs[<< rewrite, args >>]
  PROVE  /\ out \in PairedText /\ Len(out) # 0 /\ out[Len(out)] = ")"
         /\ OnlyInArgs(out, w, "(", args)
<1> DEFINE v == "("
           closing == ")"
           tokens == MacroArgTokens[rewrite]
           rewritten == [k \in DOMAIN tokens |-> RewrittenArg[<< tokens[k], args >>]]
           list == Joined[rewritten]
           first == << v >>
           last == << closing >>
<1>1. args \in Seq(Text)
  BY DEF PairedText
<1>2. /\ v \in Token /\ closing \in Token /\ v # closing /\ v \notin Joint
      /\ v \in Punctuation /\ closing \in Punctuation /\ w \notin Punctuation
  BY TokenAssumption, Zenon DEF Token, Punctuation, Joint
<1>3. \A i \in 1..(Len(rewrite) - 1) :
        rewrite[i] \in DOMAIN Placeholder => rewrite[i + 1] # v
  OBVIOUS
<1>4. rewrite # << >>
  BY DEF IsGroup
<1>5. out = first \o list \o last
  BY <1>1, <1>4, RewriteMacroArgsDef, Zenon
<1>6. out \in PairedText
  BY RewrittenInPairs
<1>7. OnlyInArgs(out, w, v, args) => OnlyInArgs(out, w, "(", args)
  OBVIOUS
<1>8. closing = ")"
  OBVIOUS
<1> HIDE DEF v, closing, tokens
<1>9. tokens \in Seq(ArgOf(rewrite))
  BY MacroArgTokensFacts DEF tokens
<1>10. Len(tokens) \in Nat /\ DOMAIN tokens = 1..Len(tokens)
       /\ \A k \in DOMAIN tokens : tokens[k] \in ArgOf(rewrite)
  BY <1>9
<1>11. ASSUME NEW u \in ArgOf(rewrite)
       PROVE  OnlyInArgs(RewrittenArg[<< u, args >>], w, v, args)
  <2>1. PICK p \in Nat : IsWindow(rewrite, u, p)
    BY DEF ArgOf, IsArgAt
  <2>2. /\ u \in PairedText /\ u \in Text /\ Len(u) \in Nat /\ Len(rewrite) \in Nat
        /\ p + Len(u) <= Len(rewrite)
        /\ \A j \in 1..Len(u) : u[j] = rewrite[p + j] /\ p + j \in 1..Len(rewrite)
    <3>1. u \in PairedText /\ u \in Text
      BY DEF ArgOf, PairedText
    <3>2. Len(u) \in Nat /\ Len(rewrite) \in Nat
      BY <3>1, TextLength
    <3> QED
      BY <2>1, <3>1, <3>2 DEF IsWindow
  <2>3. \A i \in 1..Len(u) : u[i] # w
    BY <2>2
  <2>4. ASSUME NEW i \in 1..(Len(u) - 1), u[i] \in DOMAIN Placeholder PROVE u[i + 1] # v
    <3>1. i \in 1..Len(u) /\ i + 1 \in 1..Len(u) /\ p + (i + 1) = (p + i) + 1
          /\ p + i \in 1..(Len(rewrite) - 1)
      BY <2>2
    <3> QED
      BY <1>3, <2>2, <2>4, <3>1
  <2>5. \A i \in Unmasked(u) : u[i] \in DOMAIN Placeholder => Fits(Placeholder[u[i]], args)
    <3> SUFFICES ASSUME NEW i \in Unmasked(u), u[i] \in DOMAIN Placeholder
                 PROVE  Fits(Placeholder[u[i]], args)
      OBVIOUS
    <3>1. Placeholder[u[i]] \in Placeholders(rewrite)
      BY PlaceholderOfRewrite
    <3> QED
      BY <3>1 DEF FitsMacroArgs, Fits
  <2> QED
    BY <1>2, <2>2, <2>3, <2>4, <2>5, RewrittenArgOnlyInArgs
<1>12. /\ rewritten \in Seq(PairedText)
       /\ \A k \in DOMAIN rewritten : OnlyInArgs(rewritten[k], w, v, args)
  <2>1. \A k \in DOMAIN tokens : /\ RewrittenArg[<< tokens[k], args >>] \in PairedText
                                 /\ OnlyInArgs(RewrittenArg[<< tokens[k], args >>], w, v, args)
    BY <1>10, <1>11, RewrittenArgInPairs
  <2>2. /\ rewritten \in [1..Len(tokens) -> PairedText]
        /\ \A k \in DOMAIN rewritten : OnlyInArgs(rewritten[k], w, v, args)
    BY <1>10, <2>1
  <2> HIDE DEF rewritten
  <2> QED
    BY <1>10, <2>2
<1> HIDE DEF rewritten
<1>13. list \in Text /\ Unquoted(list, Len(list)) /\ OnlyInArgs(list, w, v, args)
  <2>1. list \in PairedText
    BY <1>12, JoinedInPairs
  <2>2. OnlyInArgs(list, w, v, args)
    BY <1>1, <1>2, <1>12, JoinedOnlyInArgs
  <2> HIDE DEF list
  <2> QED
    BY <2>1, <2>2, InPairsFacts DEF PairedText
<1>14. ASSUME NEW c \in Token, NEW t, t = << c >>
       PROVE  t \in Text /\ Len(t) = 1 /\ t[1] = c /\ OnlyInArgs(t, w, v, args)
  <2>1. t \in Text /\ Len(t) = 1 /\ t[1] = c
    BY <1>14 DEF Text
  <2>2. \A n \in 2..Len(t) : FALSE
    BY <2>1
  <2> QED
    BY <2>1, <2>2 DEF OnlyInArgs
<1>15. /\ first \in Text /\ Len(first) = 1 /\ first[1] = v /\ OnlyInArgs(first, w, v, args)
       /\ last \in Text /\ Len(last) = 1 /\ last[1] = closing /\ OnlyInArgs(last, w, v, args)
  BY <1>2, <1>14
<1> HIDE DEF list, first, last
<1>16. Unquoted(first, Len(first))
  <2>1. InPairs(out)
    BY <1>6 DEF PairedText
  <2>2. v \notin Quote
    BY Zenon DEF v, Quote
  <2>3. 0 \in Nat /\ 0 < Len(first) /\ 0 + 1 = 1
    BY <1>15
  <2>4. Unquoted(first, 0)
    BY <1>15, UnquotedFirst
  <2> QED
    BY <1>15, <2>2, <2>3, <2>4, QuoteSteps
<1> DEFINE begun == first \o list
<1>17. begun \in Text /\ OnlyInArgs(begun, w, v, args)
  <2>1. first[Len(first)] # w
    BY <1>2, <1>15
  <2> QED
    BY <1>1, <1>13, <1>15, <1>16, <2>1, ConcatText, ConcatOnlyInArgs
<1> HIDE DEF begun
<1>18. OnlyInArgs(begun \o last, w, v, args)
  <2>1. Len(last) <= 1 /\ last[1] # v
    BY <1>2, <1>15
  <2> QED
    BY <1>1, <1>15, <1>17, <2>1, ConcatOnlyInArgs
<1>19. Len(out) # 0 /\ out[Len(out)] = closing
  <2>1. out = begun \o last
    BY <1>5 DEF begun
  <2>2. /\ Len(begun \o last) = Len(begun) + Len(last)
        /\ \A j \in 1..Len(last) : (begun \o last)[Len(begun) + j] = last[j]
    BY <1>15, <1>17, ConcatText
  <2>3. Len(begun) \in Nat /\ 1 \in 1..Len(last)
    BY <1>15, <1>17, TextLength
  <2> QED
    BY <1>15, <2>1, <2>2, <2>3
<1> QED
  BY <1>5, <1>6, <1>7, <1>8, <1>18, <1>19 DEF begun

-------------------------------------------------------------------------------
\* Calls put back.  A text that has been made of what is read up to t, and is how
\* the text read begins, does not get beyond t with what a call there is
\* replaced by: it would have that call again, and in an argument of its own.

\* Where a list is called, no argument of it reaches into it from before.
LEMMA ArgEndsBefore ==
  ASSUME NEW s \in Text, NEW e \in Nat, NEW after \in Text, IsWindow(s, after, e),
         IsGroup(after), NEW u \in ArgOf(after), NEW p \in Nat, IsWindow(s, u, p), p <= e
  PROVE  p + Len(u) <= e
<1> DEFINE g == GroupEnd(after)
           n == Len(u)
           m == (p + n) - e
<1>1. PICK q \in Nat : q >= 1 /\ q + n < g
  BY DEF ArgOf, IsArgAt
<1>2. /\ u \in Text /\ n \in Nat /\ InPairs(u) /\ Len(s) \in Nat /\ p + n <= Len(s)
      /\ e + Len(after) <= Len(s)
  <2>1. u \in Text /\ InPairs(u)
    BY DEF ArgOf, PairedText
  <2> QED
    BY <2>1, TextLength DEF IsWindow
<1>3. g \in 2..Len(after) /\ \A i \in 1..(g - 1) : Depth(after, i) >= 1
  BY GroupFacts
<1>4. /\ Depth(s, p + n) = Depth(s, p)
      /\ \A i \in 1..n : Depth(s, p + i) >= Depth(s, p)
  BY <1>2, WindowInPairs
<1> HIDE DEF g, n
<1> SUFFICES ASSUME p + n > e PROVE FALSE
  BY <1>2 DEF n
<1>5. m \in 1..(g - 1) /\ m \in 0..Len(after) /\ e + m = p + n
  BY <1>1, <1>2, <1>3, TextLength
<1>6. Depth(s, p) \in Int /\ Depth(s, e) \in Int /\ Depth(after, m) \in Int
      /\ Depth(s, e + m) = Depth(after, m) + Depth(s, e)
  <2>1. p \in 0..Len(s) /\ e \in 0..Len(s)
    BY <1>2, <1>5
  <2> HIDE DEF m
  <2>2. Depth(s, p) \in Int /\ Depth(s, e) \in Int
    BY <2>1, DepthType
  <2> QED
    BY <1>5, <2>2, WindowOpen
<1> HIDE DEF m
<1>7. Depth(s, e) >= Depth(s, p)
  <2>1. CASE e = p
    BY <1>6, <2>1
  <2>2. CASE e # p
    <3>1. e - p \in 1..n /\ p + (e - p) = e
      BY <1>2, <2>2
    <3>2. Depth(s, p + (e - p)) >= Depth(s, p)
      BY <1>4, <3>1
    <3> QED
      BY <3>1, <3>2
  <2> QED
    BY <2>1, <2>2
<1>8. Depth(after, m) >= 1
  BY <1>3, <1>5
<1>9. Depth(s, e + m) = Depth(s, p)
  BY <1>4, <1>5
<1> QED
  BY <1>6, <1>7, <1>8, <1>9

LEMMA NotPutBack ==
  ASSUME NEW s \in Text, NEW t \in Nat, NEW e \in Nat, e - t = 1, e <= Len(s),
         NEW after \in Text, IsWindow(s, after, e), IsGroup(after),
         NEW args \in Seq(ArgOf(after)),
         NEW u \in Text, IsWindow(s, u, 0),
         NEW made \in Text, NEW q \in Nat, IsWindow(u, made, q), Len(u) = q + Len(made), q <= t,
         Len(made) # 0 => made[Len(made)] # s[e],
         OnlyInArgs(made, s[e], "(", args)
  PROVE  Len(u) <= t
<1> DEFINE v == "("
           n == Len(made)
           j == (e + 1) - q
<1>1. OnlyInArgs(made, s[e], v, args) /\ after # << >> /\ after[1] = v
  BY DEF IsGroup
<1> HIDE DEF v
<1>2. /\ n \in Nat /\ Len(u) \in Nat /\ Len(s) \in Nat /\ Len(after) \in Nat
      /\ Len(u) = q + n
      /\ \A i \in 1..Len(u) : u[i] = s[i]
      /\ \A i \in 1..n : made[i] = u[q + i]
      /\ \A i \in 1..Len(after) : after[i] = s[e + i]
      /\ 0 + Len(u) <= Len(s)
  <2>1. n \in Nat /\ Len(u) \in Nat /\ Len(s) \in Nat /\ Len(after) \in Nat
    BY TextLength
  <2>2. \A i \in 1..Len(u) : u[i] = s[0 + i] /\ 0 + i = i
    BY DEF IsWindow
  <2> QED
    BY <2>1, <2>2 DEF IsWindow
<1>3. 1 \in 1..Len(after)
  <2>1. Len(after) # 0
    BY <1>1 DEF Text
  <2> QED
    BY <1>2, <2>1
<1> SUFFICES ASSUME Len(u) > t PROVE FALSE
  BY <1>2
<1>4. e = t + 1 /\ e \in 1..Len(u) /\ e - q \in 1..n /\ q + (e - q) = e
  BY <1>2
<1>5. made[e - q] = s[e]
  <2>1. made[e - q] = u[q + (e - q)]
    BY <1>2, <1>4
  <2> QED
    BY <1>2, <1>4, <2>1
<1>6. e - q # n
  <2>1. n # 0 /\ made[n] # s[e]
    BY <1>2, <1>4
  <2> QED
    BY <1>5, <2>1
<1>7. j \in 2..n /\ j \in 1..n /\ j - 1 = e - q /\ q + j = e + 1 /\ e + 1 \in 1..Len(u)
      /\ j \in Nat
  BY <1>2, <1>4, <1>6
<1> HIDE DEF j, n
<1>8. made[j] = v
  <2>1. made[j] = u[e + 1]
    BY <1>2, <1>7
  <2>2. u[e + 1] = s[e + 1]
    BY <1>2, <1>7
  <2>3. after[1] = s[e + 1]
    BY <1>2, <1>3
  <2> QED
    BY <1>1, <2>1, <2>2, <2>3
<1>9. FromArg(made, j, args)
  BY <1>1, <1>5, <1>7, <1>8 DEF OnlyInArgs, n
<1>10. args \in Seq(Text)
  <2>1. ArgOf(after) \subseteq Text
    BY DEF ArgOf, PairedText
  <2> QED
    BY <2>1
<1>11. FromArg(s, e + 1, args)
  <2>1. FromArg(u, q + j, args)
    BY <1>7, <1>9, <1>10, FromArgWithin
  <2>2. FromArg(s, 0 + (e + 1), args) /\ 0 + (e + 1) = e + 1
    BY <1>7, <1>10, <2>1, FromArgWithin
  <2> QED
    BY <2>2
<1>12. PICK k \in DOMAIN args, p \in Nat :
         IsWindow(s, args[k], p) /\ p < e + 1 /\ e + 1 <= p + Len(args[k])
  BY <1>11 DEF FromArg
<1>13. args[k] \in ArgOf(after) /\ p <= e /\ Len(args[k]) \in Nat
  <2>1. args[k] \in ArgOf(after) /\ args[k] \in Text
    BY <1>10
  <2>2. p <= e
    BY <1>12
  <2> QED
    BY <2>1, <2>2, TextLength
<1>14. p + Len(args[k]) <= e
  BY <1>12, <1>13, ArgEndsBefore
<1> QED
  BY <1>12, <1>13, <1>14
-------------------------------------------------------------------------------
\* What a rewrite with escapes is read as.

\* A rewrite and what it is read as are the same but for the escapes.
IsReadAs(rewrite, r) ==
  /\ r \in Text /\ Len(r) = Len(rewrite)
  /\ \A i \in 1..Len(rewrite) :
       \/ r[i] = rewrite[i]
       \/ /\ rewrite[i] = "\\" /\ i \in Unmasked(rewrite) /\ r[i] \in DOMAIN Placeholder
          /\ i + 1 \in 1..Len(rewrite) /\ rewrite[i + 1] \in DOMAIN Placeholder

\* Outside quotes, neither a backslash nor a placeholder opens anything.
LEMMA NothingAfter ==
  ASSUME NEW open \in OpenAt, open.quote = "", NEW c \in Token,
         c = "\\" \/ c \in DOMAIN Placeholder
  PROVE  After(open, c) = open
<1>1. c \notin Quote /\ c # "(" /\ c # ")"
  <2>1. CASE c = "\\"
    BY <2>1, Zenon DEF Quote
  <2>2. CASE c \in DOMAIN Placeholder
    BY <2>2, TokenAssumption, Zenon DEF Punctuation
  <2> QED
    BY <2>1, <2>2
<1> QED
  BY <1>1, Zenon DEF After

LEMMA ReadAsOpen ==
  ASSUME NEW rewrite \in Text, NEW r, IsReadAs(rewrite, r)
  PROVE  \A n \in 0..Len(rewrite) : Open[r][n] = Open[rewrite][n]
<1> DEFINE S == {n \in Nat : n <= Len(rewrite) => Open[r][n] = Open[rewrite][n]}
<1>1. /\ r \in Text /\ Len(r) = Len(rewrite) /\ Len(rewrite) \in Nat
  BY TextLength DEF IsReadAs
<1>2. 0 \in S
  BY <1>1, OpenSteps
<1>3. ASSUME NEW n \in Nat, n \in S PROVE n + 1 \in S
  <2> SUFFICES ASSUME n + 1 <= Len(rewrite)
               PROVE  Open[r][n + 1] = Open[rewrite][n + 1]
    OBVIOUS
  <2> DEFINE open == Open[rewrite][n]
             i == n + 1
  <2>1. n \in 0..(Len(rewrite) - 1) /\ n \in 0..Len(rewrite) /\ i \in 1..Len(rewrite)
    BY <1>1
  <2>2. /\ Open[r][n] = open /\ open \in OpenAt
        /\ Open[r][i] = After(open, r[i]) /\ Open[rewrite][i] = After(open, rewrite[i])
        /\ r[i] \in Token /\ rewrite[i] \in Token
    BY <1>1, <1>3, <2>1, OpenSteps
  <2>3. CASE r[i] = rewrite[i]
    BY <2>2, <2>3
  <2>4. CASE r[i] # rewrite[i]
    <3>1. rewrite[i] = "\\" /\ i \in Unmasked(rewrite) /\ r[i] \in DOMAIN Placeholder
      BY <2>1, <2>4, Zenon DEF IsReadAs
    <3>2. open.quote = ""
      <4>1. Open[rewrite][i - 1].quote = ""
        BY <3>1, Zenon DEF Unmasked
      <4>2. i - 1 = n
        BY <2>1
      <4> QED
        BY <4>1, <4>2
    <3>3. i = n + 1
      OBVIOUS
    <3> HIDE DEF open, i
    <3>4. Open[r][i] = Open[rewrite][i]
      BY <2>2, <3>1, <3>2, NothingAfter, Zenon
    <3> QED
      BY <3>3, <3>4
  <2> QED
    BY <2>3, <2>4
<1> HIDE DEF S
<1>4. Nat \subseteq S
  BY <1>2, <1>3, NumbersInductive
<1> QED
  BY <1>1, <1>4 DEF S

\* So it has its list, and at least its placeholders.
LEMMA ReadAsGroup ==
  ASSUME NEW rewrite \in Text, NEW r, IsReadAs(rewrite, r)
  PROVE  /\ Unmasked(r) = Unmasked(rewrite) /\ GroupEnd(r) = GroupEnd(rewrite)
         /\ IsGroup(rewrite) => IsGroup(r)
         /\ Placeholders(rewrite) \subseteq Placeholders(r)
<1>1. /\ Len(rewrite) \in Nat /\ DOMAIN rewrite = 1..Len(rewrite)
      /\ DOMAIN r = 1..Len(rewrite) /\ Len(r) = Len(rewrite)
  BY TextLength DEF IsReadAs
<1>2. /\ \A n \in 1..Len(rewrite) : /\ Open[r][n] = Open[rewrite][n]
                                    /\ Open[r][n - 1] = Open[rewrite][n - 1]
  <2>1. \A n \in 1..Len(rewrite) : n \in 0..Len(rewrite) /\ n - 1 \in 0..Len(rewrite)
    BY <1>1
  <2> QED
    BY <2>1, ReadAsOpen
<1>3. Unmasked(r) = Unmasked(rewrite)
  BY <1>1, <1>2, Zenon DEF Unmasked
<1>4. Unmasked(rewrite) \subseteq 1..Len(rewrite)
  BY <1>1 DEF Unmasked
<1>5. ASSUME NEW i \in 1..Len(rewrite), NEW c, c # "\\", c \notin DOMAIN Placeholder
      PROVE  r[i] = c <=> rewrite[i] = c
  <2>1. r[i] = rewrite[i] \/ (rewrite[i] = "\\" /\ r[i] \in DOMAIN Placeholder)
    BY Zenon DEF IsReadAs
  <2>2. CASE r[i] = rewrite[i]
    BY <2>2
  <2>3. CASE rewrite[i] = "\\" /\ r[i] \in DOMAIN Placeholder
    <3>1. rewrite[i] # c
      BY <1>5, <2>3, Zenon
    <3>2. r[i] # c
      BY <1>5, <2>3, Zenon
    <3> QED
      BY <3>1, <3>2
  <2> QED
    BY <2>1, <2>2, <2>3
<1>6. /\ ")" # "\\" /\ ")" \notin DOMAIN Placeholder
      /\ "(" # "\\" /\ "(" \notin DOMAIN Placeholder /\ "\\" \notin DOMAIN Placeholder
  BY TokenAssumption, Zenon DEF Punctuation
<1>7. \A n \in Unmasked(rewrite) : /\ r[n] = ")" <=> rewrite[n] = ")"
                                   /\ Depth(r, n) = Depth(rewrite, n)
  BY <1>2, <1>4, <1>5, <1>6, Zenon DEF Depth
<1>8. Closers(r) = Closers(rewrite)
  BY <1>3, <1>7, Zenon DEF Closers
<1>9. GroupEnd(r) = GroupEnd(rewrite)
  BY <1>8, Zenon DEF GroupEnd
<1>10. ASSUME IsGroup(rewrite) PROVE IsGroup(r)
  <2>1. 1 \in 1..Len(rewrite)
    BY <1>1, <1>10 DEF IsGroup
  <2>2. r[1] = "("
    BY <1>5, <1>6, <1>10, <2>1, Zenon DEF IsGroup
  <2>3. r # << >>
    BY <1>1, <2>1
  <2> QED
    BY <1>8, <1>10, <2>2, <2>3, Zenon DEF IsGroup
<1>11. ASSUME NEW ph \in Placeholders(rewrite) PROVE ph \in Placeholders(r)
  <2>1. PICK i \in Unmasked(rewrite) : /\ i < GroupEnd(rewrite) /\ rewrite[i] \in DOMAIN Placeholder
                                       /\ ph = Placeholder[rewrite[i]]
    BY DEF Placeholders
  <2>2. r[i] = rewrite[i]
    BY <1>4, <1>6, <2>1, Zenon DEF IsReadAs
  <2> QED
    BY <1>3, <1>9, <2>1, <2>2, Zenon DEF Placeholders
<1> QED
  BY <1>3, <1>9, <1>10, <1>11

LEMMA ReadRewriteIs ==
  ASSUME NEW rewrite \in Text, rewrite # << >> => IsGroup(rewrite),
         NEW r \in ReadRewrites(rewrite)
  PROVE  IsReadAs(rewrite, r)
<1>1. Len(rewrite) \in Nat /\ DOMAIN rewrite = 1..Len(rewrite)
      /\ \A i \in 1..Len(rewrite) : rewrite[i] \in Token
  BY TextLength
<1>2. PICK unset \in [Escapes(rewrite) -> DOMAIN Placeholder] :
        r = [i \in DOMAIN rewrite |-> IF i \in Escapes(rewrite) THEN unset[i] ELSE rewrite[i]]
  BY DEF ReadRewrites
<1>3. /\ DOMAIN r = 1..Len(rewrite)
      /\ \A i \in 1..Len(rewrite) :
           r[i] = IF i \in Escapes(rewrite) THEN unset[i] ELSE rewrite[i]
  BY <1>1, <1>2
<1>4. ASSUME NEW i \in 1..Len(rewrite)
      PROVE  /\ r[i] \in Token
             /\ \/ r[i] = rewrite[i]
                \/ /\ rewrite[i] = "\\" /\ i \in Unmasked(rewrite) /\ r[i] \in DOMAIN Placeholder
                   /\ i + 1 \in 1..Len(rewrite) /\ rewrite[i + 1] \in DOMAIN Placeholder
  <2>1. CASE i \in Escapes(rewrite)
    <3>1. /\ rewrite[i] = "\\" /\ i \in Unmasked(rewrite) /\ i < GroupEnd(rewrite)
          /\ rewrite[i + 1] \in DOMAIN Placeholder
      BY <2>1, Zenon DEF Escapes
    <3>2. rewrite # << >>
      BY <1>1
    <3>3. GroupEnd(rewrite) \in 2..Len(rewrite)
      BY <3>2, GroupFacts
    <3>4. i + 1 \in 1..Len(rewrite)
      BY <1>1, <3>1, <3>3
    <3>5. r[i] \in DOMAIN Placeholder
      BY <1>2, <1>3, <2>1
    <3>6. r[i] \in Token
      BY <3>5, Zenon DEF Token
    <3> QED
      BY <3>1, <3>4, <3>5, <3>6, Zenon
  <2>2. CASE i \notin Escapes(rewrite)
    BY <1>1, <1>3, <2>2
  <2> QED
    BY <2>1, <2>2
<1>5. r \in Text /\ Len(r) = Len(rewrite)
  <2>1. r = [i \in 1..Len(rewrite) |-> r[i]] /\ \A i \in 1..Len(rewrite) : r[i] \in Token
    BY <1>1, <1>2, <1>4
  <2>2. r \in [1..Len(rewrite) -> Token]
    BY <2>1
  <2> QED
    BY <1>1, <2>2 DEF Text
<1> QED
  BY <1>4, <1>5, Zenon DEF IsReadAs

\* What is needed of the rewrite of a rule holds of what it is read as.
LEMMA ReadRewriteFacts ==
  ASSUME NEW rewrite \in Text, rewrite # << >> => IsGroup(rewrite),
         NEW r \in ReadRewrites(rewrite)
  PROVE  /\ r \in Text /\ (r = << >> <=> rewrite = << >>)
         /\ r # << >> => IsGroup(r)
         /\ Placeholders(rewrite) \subseteq Placeholders(r)
         /\ (\A i \in 1..Len(rewrite) : rewrite[i] \notin Quote)
              => \A i \in 1..Len(r) : r[i] \notin Quote
<1>1. IsReadAs(rewrite, r)
  BY ReadRewriteIs
<1>2. /\ r \in Text /\ Len(r) = Len(rewrite) /\ Len(rewrite) \in Nat
  BY <1>1, TextLength DEF IsReadAs
<1>3. r = << >> <=> rewrite = << >>
  BY <1>2 DEF Text
<1>4. r # << >> => IsGroup(r)
  BY <1>1, <1>3, ReadAsGroup
<1>5. Placeholders(rewrite) \subseteq Placeholders(r)
  BY <1>1, ReadAsGroup
<1>6. ASSUME \A i \in 1..Len(rewrite) : rewrite[i] \notin Quote, NEW i \in 1..Len(r)
      PROVE  r[i] \notin Quote
  <2>1. i \in 1..Len(rewrite)
    BY <1>2
  <2>2. \A c \in DOMAIN Placeholder : c \notin Quote
    BY TokenAssumption, Zenon DEF Punctuation
  <2> QED
    BY <1>1, <1>6, <2>1, <2>2, Zenon DEF IsReadAs
<1> QED
  BY <1>2, <1>3, <1>4, <1>5, <1>6

LEMMA ReadRewriteCalls ==
  ASSUME NEW rewrite \in Text, rewrite # << >> => IsGroup(rewrite),
         NEW r \in ReadRewrites(rewrite), NEW w \in Word,
         \A i \in 1..Len(rewrite) : rewrite[i] # w,
         \A i \in 1..(Len(rewrite) - 1) :
           rewrite[i] \in DOMAIN Placeholder => rewrite[i + 1] # "("
  PROVE  /\ \A i \in 1..Len(r) : r[i] # w
         /\ \A i \in 1..(Len(r) - 1) : r[i] \in DOMAIN Placeholder => r[i + 1] # "("
<1>1. IsReadAs(rewrite, r)
  BY ReadRewriteIs
<1>2. Len(r) = Len(rewrite) /\ Len(rewrite) \in Nat
  BY <1>1, TextLength DEF IsReadAs
<1>3. /\ w \notin DOMAIN Placeholder /\ "(" \notin DOMAIN Placeholder
  BY TokenAssumption, Zenon DEF Punctuation
<1>4. ASSUME NEW i \in 1..Len(r) PROVE r[i] # w
  <2>1. i \in 1..Len(rewrite)
    BY <1>2
  <2> QED
    BY <1>1, <1>3, <2>1, Zenon DEF IsReadAs
<1>5. ASSUME NEW i \in 1..(Len(r) - 1), r[i] \in DOMAIN Placeholder PROVE r[i + 1] # "("
  <2>1. i \in 1..Len(rewrite) /\ i \in 1..(Len(rewrite) - 1) /\ i + 1 \in 1..Len(rewrite)
    BY <1>2
  <2>2. rewrite[i + 1] # "("
    <3>1. CASE rewrite[i] \in DOMAIN Placeholder
      BY <2>1, <3>1
    <3>2. CASE rewrite[i] \notin DOMAIN Placeholder
      <4>1. r[i] # rewrite[i]
        BY <1>5, <3>2
      <4> QED
        BY <1>1, <1>3, <2>1, <4>1, Zenon DEF IsReadAs
    <3> QED
      BY <3>1, <3>2
  <2>3. r[i + 1] = rewrite[i + 1] \/ r[i + 1] \in DOMAIN Placeholder
    BY <1>1, <2>1, Zenon DEF IsReadAs
  <2> QED
    BY <1>3, <2>2, <2>3, Zenon
<1> QED
  BY <1>4, <1>5
===============================================================================
