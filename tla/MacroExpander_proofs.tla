------------------------- MODULE MacroExpander_proofs -------------------------
(***************************************************************************)
(* What becomes of default values, for all of them and all rules: they     *)
(* stay texts, those without a macro are output as they were, those with   *)
(* parentheses in pairs keep them in pairs, quoted tokens are kept, and no *)
(* macro is left.                                                          *)
(*                                                                         *)
(* While a text without a macro is read, what has been appended is what    *)
(* has been read, no quote is open and no name is cut in two; so a word    *)
(* that is found to be a macro would be one of the whole default value,    *)
(* whose positions are those of the stripped one, moved by the parentheses *)
(* taken away.                                                             *)
(***************************************************************************)
EXTENDS PrefsReader_proofs, MacroArgs_proofs

-------------------------------------------------------------------------------
\* Texts without the parentheses around them.

StrippedBy(d, s, k) ==
  /\ k \in 0..Len(d) /\ Strippable(d, k)
  /\ s \in Text /\ Len(s) = Len(d) - 2 * k
  /\ \A i \in 1..Len(s) : s[i] = d[i + k]

LEMMA StrippedText ==
  ASSUME NEW d \in Text
  PROVE  \E k : StrippedBy(d, Stripped(d), k)
<1> DEFINE Ks == {n \in 0..Len(d) : Strippable(d, n)}
           k == Max(Ks)
<1>0. Len(d) \in Nat
  BY DEF Text
<1>1. k \in Ks
  <2>1. 0 \in Ks
    BY <1>0 DEF Strippable
  <2>2. Ks \subseteq Nat /\ \A n \in Ks : n <= Len(d)
    BY <1>0
  <2> HIDE DEF Ks
  <2> QED
    BY <1>0, <2>1, <2>2, MaxExists
<1>2. Stripped(d) = SubSeq(d, k + 1, Len(d) - k)
  BY DEF Stripped
<1> HIDE DEF k
<1>3. k \in 0..Len(d) /\ Strippable(d, k)
  BY <1>1
<1>4. Len(d) - 2 * k >= 0
  <2>1. CASE k = 0
    BY <1>0, <2>1
  <2>2. CASE k # 0
    <3>1. Len(d) - 2 * (k - 1) > 2
      BY <1>0, <1>3, <2>2 DEF Strippable
    <3> QED
      BY <1>0, <1>3, <3>1
  <2> QED
    BY <2>1, <2>2
<1>5. /\ k + 1 \in 1..(Len(d) + 1) /\ Len(d) - k \in k..Len(d)
      /\ (Len(d) - k) - (k + 1) + 1 = Len(d) - 2 * k
  BY <1>0, <1>3, <1>4
<1>6. /\ Stripped(d) \in Text /\ Len(Stripped(d)) = Len(d) - 2 * k
      /\ \A i \in 1..(Len(d) - 2 * k) : Stripped(d)[i] = d[i + k]
  <2> DEFINE a == k + 1
             b == Len(d) - k
  <2>1. d \in Seq(Token)
    BY Zenon DEF Text
  <2>5. a \in Int /\ b \in Int /\ 1 <= a /\ a <= b + 1 /\ b <= Len(d)
    BY <1>0, <1>3, <1>4
  <2>2. Stripped(d) = SubSeq(d, a, b)
    BY <1>2
  <2>3. b - a + 1 = Len(d) - 2 * k /\ \A i \in Int : (a + i) - 1 = i + k
    BY <1>0, <1>3
  <2> HIDE DEF a, b
  <2>4. /\ SubSeq(d, a, b) \in Seq(Token) /\ Len(SubSeq(d, a, b)) = b - a + 1
        /\ \A i \in 1..(b - a + 1) : SubSeq(d, a, b)[i] = d[(a + i) - 1]
    BY <2>1, <2>5
  <2>6. /\ Stripped(d) \in Text /\ Len(Stripped(d)) = b - a + 1
        /\ \A i \in 1..(b - a + 1) : Stripped(d)[i] = d[(a + i) - 1]
    BY <2>2, <2>4, Zenon DEF Text
  <2>7. \A i \in 1..(Len(d) - 2 * k) : i \in Int /\ (a + i) - 1 = i + k
    BY <2>3
  <2> QED
    BY <2>3, <2>6, <2>7
<1> QED
  BY <1>3, <1>6 DEF StrippedBy

\* Parentheses are no part of quotes, so what is quoted in the rest was before.
LEMMA QuotesOfStripped ==
  ASSUME NEW d \in Text, NEW s, NEW k, StrippedBy(d, s, k)
  PROVE  \A i \in 0..Len(s) : Unquoted(s, i) <=> Unquoted(d, i + k)
<1> DEFINE P(n) == n <= k => SameQuote(Open[d][n], NothingOpen)
           Q(n) == n <= Len(s) => SameQuote(Open[s][n], Open[d][n + k])
           S == {n \in Nat : P(n)}
           T == {n \in Nat : Q(n)}
<1>0. /\ s \in Text /\ Len(d) \in Nat /\ Len(s) \in Nat /\ k \in Nat
      /\ Len(s) = Len(d) - 2 * k /\ k <= Len(d)
      /\ \A j \in 1..k : d[j] = "("
      /\ \A i \in 1..Len(s) : s[i] = d[i + k]
  <2>1. Len(d) \in Nat
    BY TextLength
  <2>2. s \in Text /\ k \in 0..Len(d) /\ Len(s) = Len(d) - 2 * k
    BY DEF StrippedBy
  <2>3. Len(s) \in Nat
    BY <2>2, TextLength
  <2> QED
    BY <2>1, <2>2, <2>3 DEF StrippedBy, Strippable
<1>1. P(0)
  BY OpenSteps DEF SameQuote
<1>2. ASSUME NEW n \in Nat, P(n) PROVE P(n + 1)
  <2> SUFFICES ASSUME n + 1 <= k PROVE SameQuote(Open[d][n + 1], NothingOpen)
    OBVIOUS
  <2>1. n \in 0..Len(d) /\ n \in 0..(Len(d) - 1) /\ n + 1 \in 1..k /\ n + 1 \in 1..Len(d) /\ n <= k
    BY <1>0
  <2>2. /\ Open[d][n] \in OpenAt /\ d[n + 1] \in Token /\ d[n + 1] = "("
        /\ Open[d][n + 1] = After(Open[d][n], d[n + 1])
        /\ SameQuote(Open[d][n], NothingOpen)
    BY <1>0, <1>2, <2>1, OpenSteps
  <2> QED
    BY <2>2, ParenthesisUnquoted
<1>3. P(k)
  <2>1. 0 \in S /\ \A n \in Nat : n \in S => n + 1 \in S
    BY <1>1, <1>2
  <2> HIDE DEF S
  <2>2. Nat \subseteq S
    BY <2>1, NumbersInductive
  <2> QED
    BY <1>0, <2>2 DEF S
<1>4. Q(0)
  <2>1. SameQuote(Open[d][k], NothingOpen) /\ 0 + k = k
    BY <1>0, <1>3
  <2>2. Open[s][0] = NothingOpen
    BY <1>0, OpenSteps
  <2> QED
    BY <2>1, <2>2, Zenon DEF SameQuote
<1>5. ASSUME NEW n \in Nat, Q(n) PROVE Q(n + 1)
  <2> SUFFICES ASSUME n + 1 <= Len(s) PROVE SameQuote(Open[s][n + 1], Open[d][(n + 1) + k])
    OBVIOUS
  <2>1. /\ n \in 0..Len(s) /\ n \in 0..(Len(s) - 1) /\ n + 1 \in 1..Len(s) /\ n <= Len(s)
        /\ n + k \in 0..Len(d) /\ n + k \in 0..(Len(d) - 1)
        /\ (n + 1) + k = (n + k) + 1
    BY <1>0
  <2>2. /\ Open[s][n] \in OpenAt /\ s[n + 1] \in Token
        /\ Open[s][n + 1] = After(Open[s][n], s[n + 1])
    BY <1>0, <2>1, OpenSteps
  <2>3. /\ Open[d][n + k] \in OpenAt
        /\ Open[d][(n + 1) + k] = After(Open[d][n + k], d[(n + 1) + k])
    BY <2>1, OpenSteps
  <2>4. s[n + 1] = d[(n + 1) + k] /\ SameQuote(Open[s][n], Open[d][n + k])
    BY <1>0, <1>5, <2>1
  <2> QED
    BY <2>2, <2>3, <2>4, SameQuoteNext
<1>6. \A i \in 0..Len(s) : SameQuote(Open[s][i], Open[d][i + k])
  <2>1. 0 \in T /\ \A n \in Nat : n \in T => n + 1 \in T
    BY <1>4, <1>5
  <2> HIDE DEF T
  <2>2. Nat \subseteq T
    BY <2>1, NumbersInductive
  <2> QED
    BY <1>0, <2>2 DEF T
<1> QED
  BY <1>6, Zenon DEF SameQuote, Unquoted

-------------------------------------------------------------------------------
\* A default value without macros is only copied.

\* After t tokens, no name is under way that goes on.
NameEnded(s, t) ==
  \/ t = Len(s)
  \/ s[t + 1] \notin Word \cup Cont
  \/ \A j \in 1..t : s[j] \in Word => \E q \in j..t : s[q] \notin Word \cup Cont

OnlyCopied ==
  /\ old_default_value \in DefaultValue
  /\ macro_text = Stripped(old_default_value) /\ ~expanded
  /\ text_cit \in 0..Len(macro_text)
  /\ appended_text = SubSeq(macro_text, 1, text_cit)
  /\ Unquoted(macro_text, text_cit)
  /\ NameEnded(macro_text, text_cit)

CopyInv ==
  /\ expansion # "idle" => stage = "read"
  /\ expansion = "pass" /\ Macros(old_default_value) = {} => OnlyCopied
  /\ UnchangedKept

LEMMA WordTokens ==
  /\ Word \cap Quote = {} /\ "(" \notin Word \cup Cont /\ ")" \notin Word \cup Cont
  /\ Quote \cap (Word \cup Cont) = {}
  BY TokenAssumption, Zenon DEF Punctuation

\* A name in a stripped text is a name in the text.
LEMMA MacroOfStripped ==
  ASSUME NEW d \in Text, NEW s, NEW k, StrippedBy(d, s, k),
         NEW t \in Nat, t < Len(s), Unquoted(s, t), NameEnded(s, t),
         s[t + 1] \in Word, Upper[s[t + 1]] \in DOMAIN default_value_rules,
         t + 1 < Len(s) => s[t + 2] \notin Word \cup Cont
  PROVE  (t + 1) + k \in Macros(d)
<1> DEFINE i == (t + 1) + k
<1>0. /\ s \in Text /\ Len(d) \in Nat /\ Len(s) \in Nat /\ k \in Nat
      /\ Len(s) = Len(d) - 2 * k
      /\ \A j \in 1..k : d[j] = "(" /\ d[Len(d) + 1 - j] = ")"
      /\ \A j \in 1..Len(s) : s[j] = d[j + k]
  <2>1. Len(d) \in Nat
    BY TextLength
  <2>2. s \in Text /\ k \in 0..Len(d) /\ Len(s) = Len(d) - 2 * k
    BY DEF StrippedBy
  <2>3. Len(s) \in Nat
    BY <2>2, TextLength
  <2> QED
    BY <2>1, <2>2, <2>3 DEF StrippedBy, Strippable
<1>1. /\ i \in Nat /\ i \in 1..Len(d) /\ i - 1 = t + k /\ i = (t + 1) + k
      /\ d[i] = s[t + 1] /\ t \in 0..Len(s) /\ t + 1 \in 0..Len(s)
  <2>1. /\ i \in Nat /\ i \in 1..Len(d) /\ i - 1 = t + k
        /\ t \in 0..Len(s) /\ t + 1 \in 0..Len(s) /\ t + 1 \in 1..Len(s)
    <3>1. Len(d) \in Nat /\ Len(s) \in Nat /\ k \in Nat /\ Len(s) = Len(d) - 2 * k
      BY <1>0
    <3> QED
      BY <3>1
  <2> QED
    BY <1>0, <2>1
<1>2. i \in Unmasked(d)
  <2>1. s[t + 1] \notin Quote
    BY WordTokens
  <2>2. Unquoted(s, t + 1)
    BY <1>0, <2>1, QuoteSteps
  <2>3. Unquoted(d, i - 1) /\ Unquoted(d, i)
    BY <1>1, <2>2, QuotesOfStripped
  <2>4. i \in DOMAIN d
    BY <1>1, TextLength
  <2> HIDE DEF i
  <2> QED
    BY <2>3, <2>4, Zenon DEF Unmasked, Unquoted
<1>3. ASSUME NEW j \in 1..(i - 1), d[j] \in Word
      PROVE  \E q \in j..i : d[q] \notin Word \cup Cont
  <2>1. j > k
    BY <1>0, <1>1, <1>3, WordTokens
  <2>2. j - k \in 1..t /\ s[j - k] = d[j]
    <3>1. j - k \in 1..t /\ j - k \in 1..Len(s) /\ (j - k) + k = j
      <4>1. Len(s) \in Nat /\ k \in Nat /\ j \in 1..(t + k)
        BY <1>0, <1>1
      <4> QED
        BY <2>1, <4>1
    <3> QED
      BY <1>0, <3>1
  <2>3. \E q \in (j - k)..t : s[q] \notin Word \cup Cont
    BY <1>0, <1>3, <2>2 DEF NameEnded
  <2>4. PICK q \in (j - k)..t : s[q] \notin Word \cup Cont
    BY <2>3
  <2>5. q + k \in j..i /\ d[q + k] = s[q]
    BY <1>0, <1>1, <2>1, <2>4
  <2> QED
    BY <2>4, <2>5
<1>4. ASSUME i < Len(d) PROVE d[i + 1] \notin Word \cup Cont
  <2>1. CASE t + 1 < Len(s)
    <3>1. d[i + 1] = s[t + 2]
      BY <1>0, <2>1
    <3> QED
      BY <2>1, <3>1
  <2>2. CASE t + 1 = Len(s)
    <3>1. k \in 1..k /\ i + 1 = Len(d) + 1 - k
      <4>1. /\ Len(d) \in Nat /\ k \in Nat /\ t + 1 = Len(d) - 2 * k
            /\ (t + 1) + k < Len(d)
        BY <1>0, <1>4, <2>2
      <4> QED
        BY <4>1
    <3>2. d[i + 1] = ")"
      BY <1>0, <3>1
    <3> QED
      BY <3>2, WordTokens
  <2>3. t + 1 < Len(s) \/ t + 1 = Len(s)
    <3>1. Len(s) \in Nat
      BY <1>0
    <3> QED
      BY <3>1
  <2> QED
    BY <2>1, <2>2, <2>3
<1> HIDE DEF i
<1>5. d[i] \in Word /\ Upper[d[i]] \in DOMAIN default_value_rules
  BY <1>1
<1>6. i \in Macros(d)
  BY <1>2, <1>3, <1>4, <1>5, Zenon DEF Macros
<1> QED
  BY <1>1, <1>6

\* Where a name ends.
LEMMA NameEndFacts ==
  ASSUME macro_text \in Text, text_cit \in Nat, text_cit < Len(macro_text),
         NextToken \in Word
  PROVE  /\ NameEnd \in (text_cit + 1)..Len(macro_text)
         /\ \A i \in (text_cit + 1)..NameEnd : macro_text[i] \in Word \cup Cont
         /\ NameEnd < Len(macro_text) => macro_text[NameEnd + 1] \notin Word \cup Cont
<1> DEFINE N == {n \in (text_cit + 1)..Len(macro_text) :
                   \A i \in (text_cit + 1)..n : macro_text[i] \in Word \cup Cont}
<1>0. Len(macro_text) \in Nat
  BY TextLength
<1>1. text_cit + 1 \in N
  BY <1>0 DEF NextToken
<1>2. N \subseteq Nat /\ \A n \in N : n <= Len(macro_text)
  BY <1>0
<1>3. NameEnd = Max(N)
  BY DEF NameEnd
<1>4. Max(N) \in N /\ \A n \in N : n <= Max(N)
  <2> HIDE DEF N
  <2> QED
    BY <1>0, <1>1, <1>2, MaxExists
<1>5. NameEnd \in N /\ \A n \in N : n <= NameEnd
  BY <1>3, <1>4
<1>6. ASSUME NameEnd < Len(macro_text), macro_text[NameEnd + 1] \in Word \cup Cont
      PROVE  FALSE
  <2>1. NameEnd + 1 \in N
    BY <1>0, <1>5, <1>6
  <2> QED
    BY <1>2, <1>5, <2>1
<1> QED
  BY <1>5, <1>6

\* Copying what comes next.
LEMMA CopyMore ==
  ASSUME NEW s \in Text, NEW t \in Nat, NEW n \in Nat, t <= n, n <= Len(s)
  PROVE  /\ SubSeq(s, 1, t) \o SubSeq(s, t + 1, n) = SubSeq(s, 1, n)
         /\ SubSeq(s, 1, Len(s)) = s
<1>1. s \in Seq(Token) /\ Len(s) \in Nat
  BY DEF Text
<1> QED
  BY <1>1

LEMMA CopyKept ==
  ASSUME OnlyCopied, macro_text \in Text, NEW n \in Nat,
         text_cit <= n, n <= Len(macro_text), CopyUpTo(n),
         Unquoted(macro_text, n), NameEnded(macro_text, n)
  PROVE  OnlyCopied'
<1>1. /\ text_cit' = n /\ macro_text' = macro_text /\ expanded' = expanded
      /\ old_default_value' = old_default_value
      /\ appended_text' = appended_text \o SubSeq(macro_text, text_cit + 1, n)
  BY DEF CopyUpTo, AppendUpTo
<1>2. text_cit \in Nat /\ appended_text = SubSeq(macro_text, 1, text_cit)
  BY TextLength DEF OnlyCopied
<1>3. appended_text' = SubSeq(macro_text', 1, text_cit')
  BY <1>1, <1>2, CopyMore
<1>4. text_cit' \in 0..Len(macro_text')
  BY <1>1, TextLength
<1>5. Unquoted(macro_text', text_cit') /\ NameEnded(macro_text', text_cit')
  BY <1>1
<1> QED
  BY <1>1, <1>3, <1>4, <1>5 DEF OnlyCopied

LEMMA DefaultValueIsText ==
  ASSUME NEW d \in DefaultValue
  PROVE  d \in Text /\ Stripped(d) \in Text
<1>1. d \in Text
  BY DefaultValueAssumption
<1> QED
  BY <1>1, StrippedText DEF StrippedBy

\* While the invariant holds, no macro is found.
LEMMA NoMacroFound ==
  ASSUME OnlyCopied, Macros(old_default_value) = {}, InPass, NextToken \in Word
  PROVE  ~IsMacro
<1> SUFFICES ASSUME IsMacro PROVE FALSE
  OBVIOUS
<1> DEFINE d == old_default_value
           s == macro_text
           t == text_cit
<1>1. d \in Text /\ s \in Text /\ s = Stripped(d)
  BY DefaultValueIsText DEF OnlyCopied
<1>2. PICK k : StrippedBy(d, s, k)
  BY <1>1, StrippedText
<1>3. t \in Nat /\ t < Len(s)
  BY TextLength, <1>1 DEF OnlyCopied, InPass
<1>4. NameEnd = t + 1 /\ s[t + 1] \in Word /\ Upper[s[t + 1]] \in DOMAIN default_value_rules
  BY DEF IsMacro, NextToken
<1>5. t + 1 < Len(s) => s[t + 2] \notin Word \cup Cont
  BY <1>1, <1>3, <1>4, NameEndFacts
<1>6. Unquoted(s, t) /\ NameEnded(s, t)
  BY DEF OnlyCopied
<1>7. (t + 1) + k \in Macros(d)
  BY <1>1, <1>2, <1>3, <1>4, <1>5, <1>6, MacroOfStripped
<1> QED
  BY <1>7

LEMMA CopyTokenStep ==
  ASSUME OnlyCopied, macro_text \in Text, CopyToken
  PROVE  OnlyCopied'
<1> DEFINE n == text_cit + 1
<1>1. /\ text_cit \in Nat /\ n \in Nat /\ text_cit <= n /\ n <= Len(macro_text)
      /\ text_cit < Len(macro_text)
  BY TextLength DEF OnlyCopied, CopyToken, InPass
<1>2. macro_text[n] \notin Word \cup Quote
  BY DEF CopyToken, NextToken
<1>3. Unquoted(macro_text, n)
  BY <1>1, <1>2, QuoteSteps DEF OnlyCopied
<1>4. NameEnded(macro_text, n)
  <2>1. CASE macro_text[n] \notin Word \cup Cont
    <3>1. \A j \in 1..n : n \in j..n
      BY <1>1
    <3> QED
      BY <2>1, <3>1 DEF NameEnded
  <2>2. CASE macro_text[n] \in Word \cup Cont
    <3>1. \A j \in 1..text_cit : macro_text[j] \in Word =>
            \E q \in j..text_cit : macro_text[q] \notin Word \cup Cont
      BY <1>1, <2>2 DEF OnlyCopied, NameEnded
    <3>2. \A j \in 1..n : (j = n \/ j \in 1..text_cit) /\ j..text_cit \subseteq j..n
      BY <1>1
    <3> QED
      BY <1>2, <3>1, <3>2 DEF NameEnded
  <2> QED
    BY <2>1, <2>2
<1>5. CopyUpTo(n)
  BY DEF CopyToken
<1> QED
  BY <1>1, <1>3, <1>4, <1>5, CopyKept

\* A quote is copied up to the quote token that closes it.
LEMMA QuoteCopied ==
  ASSUME macro_text \in Text, text_cit \in Nat, Unquoted(macro_text, text_cit), CopyQuoted
  PROVE  \E n \in (text_cit + 2)..Len(macro_text) :
           /\ CopyUpTo(n) /\ Unquoted(macro_text, n) /\ macro_text[n] \in Quote
           /\ \A i \in (text_cit + 1)..(n - 1) : ~Unquoted(macro_text, i)
<1> DEFINE n == Min(QuoteEnds)
           s == macro_text
           t == text_cit
<1>1. t \in Nat /\ t < Len(s) /\ Len(s) \in Nat /\ s[t + 1] \in Quote
  BY TextLength DEF CopyQuoted, InPass, NextToken
<1>2. \A m \in Nat : m \in QuoteEnds <=> m \in (t + 1)..Len(s) /\ Unquoted(s, m)
  BY <1>1, Zenon DEF QuoteEnds, Unquoted
<1>3. QuoteEnds \subseteq Nat /\ QuoteEnds # {}
  <2>1. QuoteEnds \subseteq (t + 1)..Len(s)
    BY Zenon DEF QuoteEnds
  <2>2. QuoteEnds # {}
    BY DEF CopyQuoted
  <2> QED
    BY <1>1, <2>1, <2>2
<1>4. n \in QuoteEnds /\ \A m \in QuoteEnds : n <= m
  BY <1>3, MinExists
<1> HIDE DEF n
<1>5. n \in Nat /\ n \in (t + 1)..Len(s) /\ Unquoted(s, n)
  BY <1>2, <1>3, <1>4
<1>6. n # t + 1
  <2>1. ~Unquoted(s, t + 1)
    BY <1>1, QuoteSteps
  <2> QED
    BY <1>5, <2>1
<1>7. n - 1 \in Nat /\ ~Unquoted(s, n - 1) /\ (n - 1) + 1 = n /\ n - 1 < Len(s)
  <2>1. n - 1 \in (t + 1)..Len(s) /\ n - 1 \in Nat /\ ~(n <= n - 1)
    BY <1>1, <1>5, <1>6
  <2>2. n - 1 \notin QuoteEnds
    BY <1>4, <2>1
  <2> QED
    BY <1>1, <1>2, <1>5, <2>1, <2>2
<1>8. s[n] \in Quote
  BY <1>5, <1>7, QuoteClosed
<1>9. ASSUME NEW i \in (t + 1)..(n - 1) PROVE ~Unquoted(s, i)
  <2>1. i \in Nat /\ i \in (t + 1)..Len(s) /\ ~(n <= i)
    BY <1>1, <1>5
  <2> QED
    BY <1>2, <1>4, <2>1
<1>10. CopyUpTo(n)
  BY DEF CopyQuoted, n
<1>11. n \in (t + 2)..Len(s)
  BY <1>1, <1>5, <1>6
<1> QED
  BY <1>5, <1>8, <1>9, <1>10, <1>11

LEMMA CopyQuotedStep ==
  ASSUME OnlyCopied, macro_text \in Text, CopyQuoted
  PROVE  OnlyCopied'
<1>1. text_cit \in Nat /\ Unquoted(macro_text, text_cit) /\ Len(macro_text) \in Nat
  BY TextLength DEF OnlyCopied
<1>2. PICK n \in (text_cit + 2)..Len(macro_text) :
        CopyUpTo(n) /\ Unquoted(macro_text, n) /\ macro_text[n] \in Quote
  BY <1>1, QuoteCopied
<1>3. n \in Nat /\ text_cit <= n /\ n <= Len(macro_text)
  BY <1>1
<1>4. NameEnded(macro_text, n)
  <2>1. macro_text[n] \notin Word \cup Cont
    BY <1>2, WordTokens
  <2>2. \A j \in 1..n : n \in j..n
    BY <1>3
  <2> QED
    BY <2>1, <2>2 DEF NameEnded
<1> QED
  BY <1>2, <1>3, <1>4, CopyKept

\* No quote is open where a name ends.
LEMMA NameUnquoted ==
  ASSUME macro_text \in Text, text_cit \in Nat, text_cit < Len(macro_text),
         NextToken \in Word, Unquoted(macro_text, text_cit)
  PROVE  Unquoted(macro_text, NameEnd)
<1> DEFINE n == NameEnd
<1>1. /\ n \in (text_cit + 1)..Len(macro_text)
      /\ \A i \in (text_cit + 1)..n : macro_text[i] \in Word \cup Cont
  BY NameEndFacts
<1> HIDE DEF n
<1>2. Len(macro_text) \in Nat
  BY TextLength
<1>3. n \in Nat /\ text_cit <= n /\ n <= Len(macro_text)
  BY <1>1, <1>2
<1>4. \A i \in (text_cit + 1)..n : macro_text[i] \notin Quote
  BY <1>1, WordTokens
<1>5. Unquoted(macro_text, n)
  BY <1>3, <1>4, NothingQuoted
<1> QED
  BY <1>5 DEF n

LEMMA CopyNameStep ==
  ASSUME OnlyCopied, macro_text \in Text, CopyName
  PROVE  OnlyCopied'
<1> DEFINE n == NameEnd
           s == macro_text
           t == text_cit
<1>1. t \in Nat /\ t < Len(s) /\ Len(s) \in Nat /\ NextToken \in Word
  BY TextLength DEF OnlyCopied, CopyName, InPass
<1>2. /\ n \in (t + 1)..Len(s)
      /\ \A i \in (t + 1)..n : s[i] \in Word \cup Cont
      /\ n < Len(s) => s[n + 1] \notin Word \cup Cont
  BY <1>1, NameEndFacts
<1> HIDE DEF n
<1>3. n \in Nat /\ t <= n /\ n <= Len(s)
  BY <1>1, <1>2
<1>4. Unquoted(s, n)
  BY <1>1, NameUnquoted DEF OnlyCopied, n
<1>5. NameEnded(s, n)
  BY <1>1, <1>2, <1>3 DEF NameEnded
<1>6. CopyUpTo(n)
  BY DEF CopyName, n
<1> QED
  BY <1>1, <1>3, <1>4, <1>5, <1>6, CopyKept

\* The pass ends with what it began with.
LEMMA EndPassStep ==
  ASSUME OnlyCopied, macro_text \in Text, EndPass
  PROVE  expansion' = "done" /\ default_value' = old_default_value'
<1>1. text_cit = Len(macro_text) /\ appended_text = SubSeq(macro_text, 1, text_cit)
  BY DEF EndPass, OnlyCopied
<1>2. appended_text = macro_text
  <2>1. Len(macro_text) \in Nat /\ Len(macro_text) <= Len(macro_text)
    BY TextLength
  <2> QED
    BY <1>1, <2>1, CopyMore
<1> QED
  BY <1>2, Zenon DEF EndPass, OnlyCopied

LEMMA CopyInvInit == Init => CopyInv
  BY DEF Init, ExpanderInit, CopyInv, UnchangedKept

LEMMA TranslateStep ==
  ASSUME CopyInv, TranslateDefaultValue
  PROVE  CopyInv'
<1>1. PICK d \in DefaultValue : BeginDefaultValue(d)
  BY DEF TranslateDefaultValue
<1>2. /\ expansion' = "pass" /\ stage' = "read"
      /\ old_default_value' = d /\ macro_text' = Stripped(d)
      /\ text_cit' = 0 /\ appended_text' = << >> /\ expanded' = FALSE
  BY <1>1 DEF TranslateDefaultValue, BeginDefaultValue, readerVars
<1>3. macro_text' \in Text /\ Len(macro_text') \in Nat
  BY <1>2, DefaultValueIsText, TextLength
<1>4. Unquoted(macro_text', text_cit')
  BY <1>2, <1>3, UnquotedFirst
<1>5. NameEnded(macro_text', text_cit')
  BY <1>2 DEF NameEnded
<1>6. appended_text' = SubSeq(macro_text', 1, text_cit')
  BY <1>2, <1>3 DEF Text
<1>7. OnlyCopied'
  BY <1>1, <1>2, <1>3, <1>4, <1>5, <1>6 DEF OnlyCopied
<1> QED
  BY <1>2, <1>7 DEF CopyInv, UnchangedKept

LEMMA ExpandStep ==
  ASSUME CopyInv, ExpandMacros
  PROVE  CopyInv'
<1>0. /\ expansion = "pass" /\ stage = "read" /\ stage' = "read"
      /\ old_default_value' = old_default_value
      /\ default_value_rules' = default_value_rules
  BY DEF CopyInv, ExpandMacros, ExpandDefaultValue, readerVars, CopyToken, CopyQuoted,
         UnterminatedQuote, CopyName, ReplaceName, ReplaceCall, AppendRewritten, IllegalCall, EndPass,
         InPass, CopyUpTo, AppendUpTo, EndExpansion
<1>1. Macros(old_default_value)' = Macros(old_default_value)
  BY <1>0 DEF Macros
<1>2. CASE Macros(old_default_value) # {}
  BY <1>0, <1>1, <1>2 DEF CopyInv, UnchangedKept
<1>3. CASE Macros(old_default_value) = {}
  <2>1. OnlyCopied /\ macro_text \in Text
    BY <1>0, <1>3, DefaultValueIsText DEF CopyInv, OnlyCopied
  <2>2. CASE CopyToken \/ CopyQuoted \/ CopyName
    <3>1. OnlyCopied'
      BY <2>1, <2>2, CopyTokenStep, CopyQuotedStep, CopyNameStep
    <3>2. expansion' = "pass"
      BY <1>0, <2>2 DEF CopyToken, CopyQuoted, CopyName, CopyUpTo, AppendUpTo
    <3> QED
      BY <1>0, <3>1, <3>2 DEF CopyInv, UnchangedKept
  <2>3. CASE ReplaceName \/ ReplaceCall \/ IllegalCall
    BY <1>3, <2>1, <2>3, NoMacroFound DEF ReplaceName, ReplaceCall, AppendRewritten, IllegalCall
  <2>4. CASE UnterminatedQuote
    <3>1. expansion' = "threw"
      BY <2>4 DEF UnterminatedQuote, EndExpansion
    <3> QED
      BY <1>0, <3>1 DEF CopyInv, UnchangedKept
  <2>5. CASE EndPass
    <3>1. expansion' = "done" /\ default_value' = old_default_value'
      BY <2>1, <2>5, EndPassStep
    <3> QED
      BY <1>0, <3>1 DEF CopyInv, UnchangedKept
  <2> QED
    BY <2>2, <2>3, <2>4, <2>5 DEF ExpandMacros, ExpandDefaultValue
<1> QED
  BY <1>2, <1>3

LEMMA CopyInvStep == CopyInv /\ [Next]_vars => CopyInv'
<1> SUFFICES ASSUME CopyInv, [Next]_vars PROVE CopyInv'
  OBVIOUS
<1>1. CASE TranslateDefaultValue
  BY <1>1, TranslateStep
<1>2. CASE ExpandMacros
  BY <1>2, ExpandStep
<1>3. CASE \/ ReadDatatypeRule \/ RefuseDatatypeRule
           \/ ReadDefaultValueRule \/ RefuseDefaultValueRule \/ EndOfArray
  <2>1. stage \in Array
    BY <1>3 DEF ReadDatatypeRule, RefuseDatatypeRule, ReadDefaultValueRule,
                RefuseDefaultValueRule, EndOfArray, IsAtElement, Array
  <2>2. expansion' = expansion
    BY <1>3 DEF ReadDatatypeRule, RefuseDatatypeRule, ReadDefaultValueRule,
                RefuseDefaultValueRule, EndOfArray, EndWith, expanderVars
  <2>3. expansion' = "idle"
    BY <2>1, <2>2 DEF CopyInv, Array
  <2> QED
    BY <2>3 DEF CopyInv, UnchangedKept
<1>4. CASE UNCHANGED vars
  <2>1. /\ UNCHANGED << stage, default_value_rules >>
        /\ UNCHANGED << expansion, old_default_value, macro_text, text_cit,
                        appended_text, expanded, default_value >>
    BY <1>4 DEF vars, readerVars, expanderVars, passVars
  <2>2. Macros(old_default_value)' = Macros(old_default_value)
    BY <2>1 DEF Macros
  <2>3. OnlyCopied' <=> OnlyCopied
    BY <2>1 DEF OnlyCopied
  <2> QED
    BY <2>1, <2>2, <2>3 DEF CopyInv, UnchangedKept
<1> QED
  BY <1>1, <1>2, <1>3, <1>4 DEF Next

\* A default value without a macro is output as it was, for all default values
\* and whatever rules are read (expand_default_value_macro).
THEOREM UnchangedKeptCorrect == Spec => []UnchangedKept
<1>1. CopyInv => UnchangedKept
  BY DEF CopyInv
<1> QED
  BY CopyInvInit, CopyInvStep, <1>1, PTL DEF Spec

-------------------------------------------------------------------------------
\* Types.  Each rule is made of texts, with a rewrite that is the group of
\* parentheses the reader has validated; and no quote is open at what is read
\* next.

TypedRule(rule) == rule \in Rule /\ (rule.rewrite # << >> => IsGroup(rule.rewrite))

ExpanderInv ==
  /\ expansion # "idle" => stage = "read"
  /\ \A n \in DOMAIN default_value_rules : TypedRule(default_value_rules[n])
  /\ ExpanderTypeOK
  /\ expansion = "pass" => Unquoted(macro_text, text_cit)

LEMMA EmptyText == << >> \in Text /\ Len(<< >>) = 0
  BY DEF Text

LEMMA DefaultValueRuleTyped ==
  ASSUME NEW node \in ElementNode, "read" \in DefaultValueRuleResults(node),
         \A i \in DOMAIN node :
           /\ node[i].data \in Text
           /\ \A j \in DOMAIN node[i].node : node[i].node[j].data \in Text
  PROVE  TypedRule(DefaultValueRuleOf(node))
<1> DEFINE macro_args == IF Len(node) = 3 THEN node[3].node ELSE << >>
           rewrite == IF Len(macro_args) = 2 THEN macro_args[2].data ELSE << >>
           argcnt == NumberOf(macro_args, "argcnt", 0)
<1>1. /\ Len(node) \in Nat /\ DOMAIN node = 1..Len(node) /\ Len(node) \in {2, 3}
      /\ Len(node) = 3 => /\ IsStructure(node, 3, "macro_args")
                          /\ "read" \in MacroArgsResults(node[3].node)
  <2>1. Len(node) \in Nat /\ DOMAIN node = 1..Len(node)
    BY DEF ElementNode
  <2> QED
    BY <2>1 DEF DefaultValueRuleResults
<1>2. DefaultValueRuleOf(node) =
        [macro_rhs |-> node[2].data, has_args |-> macro_args # << >>,
         argcnt |-> argcnt, rewrite |-> rewrite]
  BY Zenon DEF DefaultValueRuleOf
<1>3. node[2].data \in Text
  BY <1>1
<1>4. argcnt \in Nat /\ rewrite \in Text /\ (rewrite # << >> => IsMacroArgs(rewrite))
  <2>1. CASE Len(node) = 2
    <3>1. macro_args = << >> /\ rewrite = << >>
      BY <2>1
    <3>2. argcnt = 0
      BY <3>1 DEF NumberOf
    <3> QED
      BY <3>1, <3>2, EmptyText
  <2>2. CASE Len(node) = 3
    <3>1. /\ macro_args = node[3].node /\ macro_args # << >>
          /\ "read" \in MacroArgsResults(macro_args)
      BY <1>1, <2>2 DEF IsStructure
    <3>2. /\ Len(macro_args) \in Nat /\ DOMAIN macro_args = 1..Len(macro_args)
          /\ \A j \in DOMAIN macro_args : macro_args[j].data \in Text
      <4>1. 3 \in DOMAIN node
        BY <1>1, <2>2
      <4>2. node[3] \in ChildWith(DatatypeNode)
        BY <4>1 DEF ElementNode
      <4>3. node[3].node \in DatatypeNode
        BY <4>2 DEF ChildWith
      <4> QED
        BY <3>1, <4>1, <4>3 DEF DatatypeNode
    <3> HIDE DEF macro_args
    <3>3. /\ argcnt \in Nat /\ Len(macro_args) \in {1, 2}
          /\ Len(macro_args) = 2 => IsRewrite(rewrite, argcnt)
      BY <3>1, <3>2, MacroArgsValid
    <3>4. CASE Len(macro_args) = 2
      BY <3>2, <3>3, <3>4 DEF IsRewrite
    <3>5. CASE Len(macro_args) # 2
      BY <3>3, <3>5, EmptyText
    <3> QED
      BY <3>4, <3>5
  <2> QED
    BY <1>1, <2>1, <2>2
<1> HIDE DEF macro_args, rewrite, argcnt
<1>5. rewrite # << >> => IsGroup(rewrite)
  BY <1>4 DEF IsMacroArgs, IsGroup
<1> QED
  BY <1>2, <1>3, <1>4, <1>5 DEF TypedRule, Rule

LEMMA ExpanderInvInit == Init => ExpanderInv
<1> SUFFICES ASSUME Init PROVE ExpanderInv
  OBVIOUS
<1>1. DOMAIN default_value_rules = {}
  BY DEF Init
<1>2. /\ expansion = "idle" /\ old_default_value = << >> /\ macro_text = << >>
      /\ text_cit = 0 /\ appended_text = << >> /\ expanded = FALSE
      /\ default_value = << >>
  BY Zenon DEF Init, ExpanderInit
<1>3. macro_text \in Text /\ Len(macro_text) = 0
  BY <1>2, EmptyText
<1>4. ExpanderTypeOK
  <2>1. text_cit \in 0..Len(macro_text)
    BY <1>2, <1>3
  <2>2. old_default_value \in {<< >>} /\ appended_text \in Text /\ default_value \in Text
    BY <1>2, EmptyText
  <2>3. expansion \in Expansion /\ expanded \in BOOLEAN
    BY <1>2 DEF Expansion
  <2> QED
    BY <1>3, <2>1, <2>2, <2>3, Zenon DEF ExpanderTypeOK
<1> QED
  BY <1>1, <1>2, <1>4 DEF ExpanderInv

\* A step that reads the text up to n and appends the text given: what is read
\* is copied, or has its parentheses in pairs, and what is appended has the
\* quoted tokens of what is read.
RulesUseAllArgs ==
  \A n \in DOMAIN default_value_rules : UsesAllArgs(default_value_rules[n])
KeepsLiterals(read, text) == text \in ClosedText /\ Literals(text) = Literals(read)

Reads(n, text) ==
  /\ n \in (text_cit + 1)..Len(macro_text) /\ Unquoted(macro_text, n)
  /\ text \in Text /\ AppendUpTo(n, text)
  /\ \/ text = SubSeq(macro_text, text_cit + 1, n)
     \/ /\ SubSeq(macro_text, text_cit + 1, n) \in PairedText
        /\ RulesInPairs => text \in PairedText
        /\ RulesUseAllArgs => KeepsLiterals(SubSeq(macro_text, text_cit + 1, n), text)

LEMMA CopyUpToReads ==
  ASSUME macro_text \in Text, text_cit \in Nat, NEW n \in (text_cit + 1)..Len(macro_text),
         Unquoted(macro_text, n), CopyUpTo(n)
  PROVE  \E text : Reads(n, text)
<1> DEFINE text == SubSeq(macro_text, text_cit + 1, n)
<1>1. n \in Nat /\ text_cit <= n /\ n <= Len(macro_text)
  BY TextLength
<1>2. text \in Text
  BY <1>1, SubSeqText
<1>3. AppendUpTo(n, text)
  BY DEF CopyUpTo
<1> QED
  BY <1>2, <1>3 DEF Reads

LEMMA CopyReads ==
  ASSUME ExpanderInv, CopyToken \/ CopyQuoted \/ CopyName
  PROVE  \E n, text : Reads(n, text)
<1>1. /\ text_cit \in Nat /\ macro_text \in Text /\ Len(macro_text) \in Nat
      /\ text_cit < Len(macro_text) /\ Unquoted(macro_text, text_cit)
  BY TextLength DEF ExpanderInv, ExpanderTypeOK, InPass, CopyToken, CopyQuoted, CopyName
<1>2. CASE CopyToken
  <2>1. text_cit + 1 \in (text_cit + 1)..Len(macro_text)
    BY <1>1
  <2>2. Unquoted(macro_text, text_cit + 1)
    BY <1>1, <1>2, QuoteSteps DEF CopyToken, NextToken
  <2>3. CopyUpTo(text_cit + 1)
    BY <1>2 DEF CopyToken
  <2> QED
    BY <1>1, <2>1, <2>2, <2>3, CopyUpToReads
<1>3. CASE CopyQuoted
  <2>1. PICK n \in (text_cit + 2)..Len(macro_text) :
          CopyUpTo(n) /\ Unquoted(macro_text, n)
    BY <1>1, <1>3, QuoteCopied
  <2>2. n \in (text_cit + 1)..Len(macro_text)
    BY <1>1
  <2> QED
    BY <1>1, <2>1, <2>2, CopyUpToReads
<1>4. CASE CopyName
  <2>1. NextToken \in Word /\ CopyUpTo(NameEnd)
    BY <1>4 DEF CopyName
  <2>2. NameEnd \in (text_cit + 1)..Len(macro_text) /\ Unquoted(macro_text, NameEnd)
    BY <1>1, <2>1, NameEndFacts, NameUnquoted
  <2> QED
    BY <1>1, <2>1, <2>2, CopyUpToReads
<1> QED
  BY <1>2, <1>3, <1>4

\* A rule that uses all its arguments brings no quotes of its own.
LEMMA RuleLiterals ==
  ASSUME NEW rule, TypedRule(rule), UsesAllArgs(rule)
  PROVE  /\ rule.macro_rhs \in ClosedText /\ Literals(rule.macro_rhs) = {}
         /\ \A i \in 1..Len(rule.rewrite) : rule.rewrite[i] \notin Quote
<1> DEFINE a == rule.macro_rhs
           b == rule.rewrite
<1>1. a \in Text /\ b \in Text
  BY DEF TypedRule, Rule
<1>2. \A i \in DOMAIN (a \o b) : (a \o b)[i] \notin Quote
  BY DEF UsesAllArgs
<1> HIDE DEF a, b
<1>3. /\ Len(a) \in Nat /\ Len(b) \in Nat
      /\ \A j \in 1..Len(a) : j \in DOMAIN (a \o b) /\ (a \o b)[j] = a[j]
      /\ \A j \in 1..Len(b) : Len(a) + j \in DOMAIN (a \o b) /\ (a \o b)[Len(a) + j] = b[j]
  <2> DEFINE u == a \o b
  <2>1. /\ Len(a) \in Nat /\ Len(b) \in Nat /\ u \in Text /\ Len(u) = Len(a) + Len(b)
        /\ \A j \in 1..Len(a) : u[j] = a[j]
        /\ \A j \in 1..Len(b) : u[Len(a) + j] = b[j]
    BY <1>1, ConcatText, TextLength
  <2> HIDE DEF u
  <2>2. DOMAIN u = 1..(Len(a) + Len(b))
    BY <2>1, TextLength
  <2>3. /\ \A j \in 1..Len(a) : j \in DOMAIN u /\ u[j] = a[j]
        /\ \A j \in 1..Len(b) : Len(a) + j \in DOMAIN u /\ u[Len(a) + j] = b[j]
    BY <2>1, <2>2
  <2> QED
    BY <2>1, <2>3 DEF u
<1>4. /\ \A j \in 1..Len(a) : a[j] \notin Quote
      /\ \A j \in 1..Len(b) : b[j] \notin Quote
  BY <1>2, <1>3
<1>5. a \in ClosedText /\ Literals(a) = {}
  BY <1>1, <1>4, NoLiterals
<1> QED
  BY <1>4, <1>5 DEF a, b

\* What a name that is a macro stands for.
LEMMA MacroReads ==
  ASSUME ExpanderInv, InPass, NextToken \in Word, IsMacro
  PROVE  /\ text_cit \in Nat /\ macro_text \in Text /\ Len(macro_text) \in Nat
         /\ NameEnd = text_cit + 1 /\ NameEnd <= Len(macro_text)
         /\ Unquoted(macro_text, text_cit) /\ Unquoted(macro_text, NameEnd)
         /\ Depth(macro_text, NameEnd) = Depth(macro_text, text_cit)
         /\ TypedRule(RuleOfMacro)
         /\ RulesInPairs => RuleOfMacro.macro_rhs \in PairedText
         /\ RulesUseAllArgs => UsesAllArgs(RuleOfMacro)
<1>1. /\ text_cit \in Nat /\ macro_text \in Text /\ Len(macro_text) \in Nat
      /\ text_cit < Len(macro_text) /\ Unquoted(macro_text, text_cit)
  BY TextLength DEF ExpanderInv, ExpanderTypeOK, InPass
<1>2. NameEnd = text_cit + 1 /\ NameEnd <= Len(macro_text)
  BY <1>1 DEF IsMacro
<1>3. macro_text[text_cit + 1] \notin Quote \cup {"(", ")"}
  BY WordTokens DEF NextToken
<1>4. /\ Unquoted(macro_text, text_cit + 1)
      /\ Depth(macro_text, text_cit + 1) = Depth(macro_text, text_cit)
  BY <1>1, <1>3, QuoteSteps, DepthSteps
<1>5. /\ TypedRule(RuleOfMacro)
      /\ RulesInPairs => InPairs(RuleOfMacro.macro_rhs)
      /\ RulesUseAllArgs => UsesAllArgs(RuleOfMacro)
  BY DEF IsMacro, RuleOfMacro, ExpanderInv, RulesInPairs, RulesUseAllArgs
<1>6. RuleOfMacro.macro_rhs \in Text
  BY <1>5 DEF TypedRule, Rule
<1> QED
  BY <1>1, <1>2, <1>4, <1>5, <1>6 DEF PairedText

LEMMA ReplaceNameReads ==
  ASSUME ExpanderInv, ReplaceName
  PROVE  \E n, text : Reads(n, text)
<1> DEFINE read == SubSeq(macro_text, text_cit + 1, NameEnd)
           text == RuleOfMacro.macro_rhs
<1>1. InPass /\ NextToken \in Word /\ IsMacro /\ AppendUpTo(NameEnd, text)
  BY DEF ReplaceName
<1>2. /\ text_cit \in Nat /\ macro_text \in Text /\ Len(macro_text) \in Nat
      /\ NameEnd = text_cit + 1 /\ NameEnd <= Len(macro_text)
      /\ Unquoted(macro_text, text_cit) /\ Unquoted(macro_text, NameEnd)
      /\ TypedRule(RuleOfMacro)
      /\ RulesInPairs => text \in PairedText
      /\ RulesUseAllArgs => UsesAllArgs(RuleOfMacro)
  BY <1>1, MacroReads
<1>3. NameEnd \in Nat /\ text_cit <= NameEnd /\ NameEnd - text_cit = 1
      /\ NameEnd \in (text_cit + 1)..Len(macro_text)
  BY <1>2
<1>4. read \in Text /\ Len(read) = 1 /\ read[1] = macro_text[text_cit + 1]
  <2>1. /\ read \in Text /\ Len(read) = NameEnd - text_cit
        /\ \A j \in 1..(NameEnd - text_cit) : read[j] = macro_text[text_cit + j]
    BY <1>2, <1>3, SubSeqText
  <2> HIDE DEF read
  <2>2. 1 \in 1..(NameEnd - text_cit)
    BY <1>3
  <2> QED
    BY <1>3, <2>1, <2>2
<1> HIDE DEF read
<1>5. read \in PairedText /\ Literals(read) = {}
  <2>1. read[1] \notin Quote \cup {"(", ")"}
    BY <1>1, <1>4, WordTokens DEF NextToken
  <2>2. \A i \in 1..Len(read) : read[i] \notin Quote \cup {"(", ")"}
    BY <1>4, <2>1
  <2> QED
    BY <1>4, <2>2, NeutralInPairs, NoLiterals
<1>6. text \in Text
  BY <1>2 DEF TypedRule, Rule
<1>7. RulesUseAllArgs => text \in ClosedText /\ Literals(text) = {}
  BY <1>2, RuleLiterals
<1> HIDE DEF text
<1>8. Reads(NameEnd, text)
  BY <1>1, <1>2, <1>3, <1>5, <1>6, <1>7 DEF Reads, KeepsLiterals, read
<1> QED
  BY <1>8

\* The argument list of a call is read to the end of its group.
LEMMA CallGroup ==
  ASSUME NEW s \in Text, NEW t \in Nat, NEW e \in Nat, e - t = 1, e <= Len(s),
         Unquoted(s, t), Depth(s, e) = Depth(s, t),
         NEW after \in Text, IsWindow(s, after, e), IsGroup(after)
  PROVE  /\ e + GroupEnd(after) \in (t + 1)..Len(s)
         /\ Unquoted(s, e + GroupEnd(after))
         /\ SubSeq(s, t + 1, e + GroupEnd(after)) \in PairedText
<1> DEFINE g == GroupEnd(after)
           n == e + g
           read == SubSeq(s, t + 1, n)
<1>1. Len(s) \in Nat /\ Len(after) \in Nat /\ e + Len(after) <= Len(s)
  BY TextLength DEF IsWindow
<1>3. /\ g \in 2..Len(after) /\ Unquoted(after, g) /\ Depth(after, g) = 0
      /\ \A i \in 1..(g - 1) : Depth(after, i) >= 1
  BY GroupFacts
<1> HIDE DEF g
<1>4. /\ g \in Nat /\ g \in 0..Len(after) /\ n \in Nat /\ n \in (t + 1)..Len(s)
      /\ t <= n /\ n <= Len(s) /\ n - t = g + 1
  BY <1>1, <1>3
<1>5. /\ Depth(s, e) \in Int
      /\ \A i \in 0..Len(after) : Depth(s, e + i) = Depth(after, i) + Depth(s, e)
                                  /\ Depth(after, i) \in Int
  <2>1. Depth(s, e) \in Int
    <3>1. e \in 0..Len(s)
      BY <1>1
    <3> QED
      BY <3>1, DepthType
  <2>2. ASSUME NEW i \in 0..Len(after)
        PROVE  Depth(s, e + i) = Depth(after, i) + Depth(s, e) /\ Depth(after, i) \in Int
    BY WindowOpen
  <2> QED
    BY <2>1, <2>2
<1>6. Unquoted(s, n) /\ Depth(s, n) = Depth(s, t)
  <2>1. Unquoted(s, n)
    <3>1. ASSUME NEW i \in 0..Len(after), Unquoted(after, i) PROVE Unquoted(s, e + i)
      BY <3>1, WindowOpen
    <3>2. g \in 0..Len(after)
      BY <1>4
    <3> QED
      BY <1>3, <3>1, <3>2
  <2>2. Depth(s, n) = 0 + Depth(s, e)
    BY <1>3, <1>4, <1>5
  <2> QED
    BY <1>5, <2>1, <2>2
<1>7. read \in Text /\ Len(read) = g + 1 /\ IsWindow(s, read, t)
  BY <1>4, SubSeqWindow
<1>8. ASSUME NEW j \in 1..(g + 1) PROVE Depth(s, t + j) >= Depth(s, t)
  <2> DEFINE i == j - 1
  <2>1. i \in 0..g /\ t + j = e + i /\ i \in 0..Len(after)
    BY <1>1, <1>3, <1>4
  <2>2. Depth(s, t + j) = Depth(after, i) + Depth(s, t) /\ Depth(after, i) \in Int
    BY <1>5, <2>1
  <2>3. Depth(after, i) >= 0
    <3>1. CASE i = 0
      BY <3>1, DepthFirst
    <3>2. CASE i = g
      BY <1>3, <3>2
    <3>3. CASE i # 0 /\ i # g
      <4>1. i \in 1..(g - 1)
        BY <1>4, <2>1, <3>3
      <4> QED
        BY <1>3, <2>2, <4>1
    <3> QED
      BY <3>1, <3>2, <3>3
  <2> HIDE DEF i
  <2> QED
    BY <1>5, <2>2, <2>3
<1> HIDE DEF n, read
<1>9. InPairs(read)
  <2>1. t + (g + 1) = n
    BY <1>4
  <2> QED
    BY <1>6, <1>7, <1>8, <2>1, WindowInPairs
<1> QED
  BY <1>4, <1>6, <1>7, <1>9 DEF n, g, read, PairedText

LEMMA CallLiterals ==
  ASSUME NEW s \in Text, NEW t \in Nat, NEW e \in Nat, e - t = 1, e <= Len(s),
         Unquoted(s, t), s[e] \notin Quote,
         NEW after \in Text, IsWindow(s, after, e), NEW g \in 0..Len(after)
  PROVE  Literals(SubSeq(s, t + 1, e + g)) = LiteralsIn(after, 0, g)
<1> DEFINE n == e + g
           read == SubSeq(s, t + 1, n)
<1>1. /\ Len(s) \in Nat /\ Len(after) \in Nat /\ e + Len(after) <= Len(s) /\ g \in Nat
      /\ t <= e /\ \A i \in (t + 1)..e : i = e
  BY TextLength DEF IsWindow
<1>2. n \in Nat /\ e <= n /\ t <= n /\ n <= Len(s) /\ t + (n - t) = n
  BY <1>1
<1>3. read \in Text /\ Len(read) = n - t /\ IsWindow(s, read, t)
  BY <1>2, SubSeqWindow
<1>4. LiteralsIn(s, t, e) = {}
  BY <1>1, NoLiteralsIn
<1>5. LiteralsIn(after, 0, g) = LiteralsIn(s, e, n)
  BY WindowLiterals
<1> HIDE DEF n, read
<1>6. Literals(read) = LiteralsIn(s, t, n)
  <2>1. Literals(read) = LiteralsIn(s, t, t + (n - t))
    BY <1>3, LiteralsOfWindow
  <2> QED
    BY <1>2, <2>1
<1>7. LiteralsIn(s, t, n) = LiteralsIn(s, t, e) \cup LiteralsIn(s, e, n)
  BY <1>1, <1>2, LiteralsSplit
<1> QED
  BY <1>4, <1>5, <1>6, <1>7 DEF n, read

\* What a call is replaced by: the rule's rewrite is read in some way.
Replaces(r, n) ==
  /\ InPass /\ NextToken \in Word /\ IsMacro
  /\ IsMacroArgs(AfterName) /\ FitsMacroArgs(r, CallArgs)
  /\ Len(CallArgs) = RuleOfMacro.argcnt
  /\ AppendUpTo(n, RuleOfMacro.macro_rhs \o RewriteMacroArgs[<< r, CallArgs >>])

LEMMA ReplaceCallBy ==
  ASSUME ReplaceCall
  PROVE  \E r \in ReadRewrites(RuleOfMacro.rewrite) :
           Replaces(r, NameEnd + GroupEnd(AfterName))
  BY Zenon DEF ReplaceCall, AppendRewritten, Replaces

LEMMA ReplaceCallReads ==
  ASSUME ExpanderInv, ReplaceCall
  PROVE  \E n, text : Reads(n, text)
<1>0. PICK rewrite \in ReadRewrites(RuleOfMacro.rewrite) :
        Replaces(rewrite, NameEnd + GroupEnd(AfterName))
  BY ReplaceCallBy
<1> DEFINE n == NameEnd + GroupEnd(AfterName)
           read == SubSeq(macro_text, text_cit + 1, n)
           rhs == RuleOfMacro.macro_rhs
           args == RewriteMacroArgs[<< rewrite, CallArgs >>]
           text == rhs \o args
<1>1. /\ InPass /\ NextToken \in Word /\ IsMacro
      /\ IsMacroArgs(AfterName) /\ FitsMacroArgs(rewrite, CallArgs)
      /\ Len(CallArgs) = RuleOfMacro.argcnt
      /\ AppendUpTo(n, text)
  BY <1>0 DEF Replaces
<1>2. /\ text_cit \in Nat /\ macro_text \in Text /\ Len(macro_text) \in Nat
      /\ NameEnd = text_cit + 1 /\ NameEnd <= Len(macro_text)
      /\ Unquoted(macro_text, text_cit) /\ Unquoted(macro_text, NameEnd)
      /\ Depth(macro_text, NameEnd) = Depth(macro_text, text_cit)
      /\ TypedRule(RuleOfMacro)
      /\ RulesInPairs => rhs \in PairedText
      /\ RulesUseAllArgs => UsesAllArgs(RuleOfMacro)
  BY <1>1, MacroReads
<1>3. IsGroup(AfterName)
  BY <1>1 DEF IsMacroArgs, IsGroup
<1>4. /\ AfterName \in Text /\ IsWindow(macro_text, AfterName, NameEnd)
       /\ NameEnd \in Nat /\ NameEnd - text_cit = 1
  <2>1. NameEnd \in Nat /\ NameEnd - text_cit = 1
    BY <1>2
  <2> QED
    BY <1>2, <2>1, SubSeqWindow DEF AfterName
<1>5. /\ AfterName \in Text /\ n \in (text_cit + 1)..Len(macro_text)
      /\ Unquoted(macro_text, n) /\ read \in PairedText
  BY <1>2, <1>3, <1>4, CallGroup
<1>6. CallArgs \in Seq(PairedText)
  <2>1. CallArgs \in Seq(ArgOf(AfterName))
    BY <1>3, <1>5, MacroArgTokensFacts DEF CallArgs
  <2>2. ArgOf(AfterName) \subseteq PairedText
    BY DEF ArgOf
  <2> QED
    BY <2>1, <2>2
<1>7. /\ rhs \in Text /\ rewrite \in Text /\ (rewrite # << >> => IsGroup(rewrite))
      /\ rewrite = << >> <=> RuleOfMacro.rewrite = << >>
      /\ Placeholders(RuleOfMacro.rewrite) \subseteq Placeholders(rewrite)
      /\ (\A i \in 1..Len(RuleOfMacro.rewrite) : RuleOfMacro.rewrite[i] \notin Quote)
           => \A i \in 1..Len(rewrite) : rewrite[i] \notin Quote
  <2> DEFINE written == RuleOfMacro.rewrite
  <2>1. rhs \in Text /\ written \in Text /\ (written # << >> => IsGroup(written))
    BY <1>2 DEF TypedRule, Rule
  <2> HIDE DEF written, rhs
  <2>2. /\ rewrite \in Text /\ (rewrite # << >> => IsGroup(rewrite))
        /\ rewrite = << >> <=> written = << >>
        /\ Placeholders(written) \subseteq Placeholders(rewrite)
        /\ (\A i \in 1..Len(written) : written[i] \notin Quote)
             => \A i \in 1..Len(rewrite) : rewrite[i] \notin Quote
    BY <1>0, <2>1, ReadRewriteFacts DEF written
  <2> QED
    BY <2>1, <2>2 DEF written
<1>8. Literals(read) = UNION {Literals(CallArgs[k]) : k \in DOMAIN CallArgs}
  <2> DEFINE g == GroupEnd(AfterName)
  <2>1. g \in 0..Len(AfterName) /\ macro_text[NameEnd] \notin Quote
    <3>1. g \in 2..Len(AfterName)
      BY <1>3, <1>4, GroupFacts
    <3>2. macro_text[text_cit + 1] \notin Quote
      BY <1>1, WordTokens DEF NextToken
    <3> QED
      BY <1>2, <3>1, <3>2
  <2> HIDE DEF g
  <2>2. Literals(SubSeq(macro_text, text_cit + 1, NameEnd + g)) = LiteralsIn(AfterName, 0, g)
    BY <1>2, <1>4, <2>1, CallLiterals
  <2>3. LiteralsIn(AfterName, 0, GroupEnd(AfterName))
          = UNION {Literals(CallArgs[k]) : k \in DOMAIN CallArgs}
    BY <1>3, <1>4, ArgLiterals DEF CallArgs
  <2> QED
    BY <2>2, <2>3 DEF g
<1>9. ASSUME RulesUseAllArgs
       PROVE  /\ rhs \in ClosedText /\ Literals(rhs) = {}
              /\ \A i \in 1..Len(rewrite) : rewrite[i] \notin Quote
              /\ \A k \in DOMAIN CallArgs :
                   rewrite # << >> /\ \E ph \in Placeholders(rewrite) : InRange(k, ph)
  <2>1. TypedRule(RuleOfMacro) /\ UsesAllArgs(RuleOfMacro)
    BY <1>2, <1>9
  <2>2. /\ rhs \in ClosedText /\ Literals(rhs) = {}
        /\ \A i \in 1..Len(rewrite) : rewrite[i] \notin Quote
    BY <1>7, <2>1, RuleLiterals
  <2>3. DOMAIN CallArgs = 1..RuleOfMacro.argcnt
    BY <1>1, <1>6
  <2>4. \A k \in 1..RuleOfMacro.argcnt :
          rewrite # << >> /\ \E ph \in Placeholders(rewrite) : InRange(k, ph)
    <3> TAKE k \in 1..RuleOfMacro.argcnt
    <3>1. /\ RuleOfMacro.rewrite # << >>
          /\ \E ph \in Placeholders(RuleOfMacro.rewrite) : InRange(k, ph)
      BY <2>1 DEF UsesAllArgs, InRange
    <3> QED
      BY <1>7, <3>1
  <2> QED
    BY <2>2, <2>3, <2>4
<1> HIDE DEF n, read, rhs
<1>10. args \in PairedText
  BY <1>1, <1>6, <1>7, RewrittenInPairs
<1>11. RulesUseAllArgs => text \in ClosedText /\ Literals(text) = Literals(read)
  <2> SUFFICES ASSUME RulesUseAllArgs
               PROVE  text \in ClosedText /\ Literals(text) = Literals(read)
    OBVIOUS
  <2>1. CallArgs \in Seq(ClosedText)
    BY <1>6, PairedClosed
  <2>2. /\ args \in ClosedText
        /\ Literals(args) = UNION {Literals(CallArgs[k]) : k \in DOMAIN CallArgs}
    BY <1>1, <1>7, <1>9, <2>1, RewriteLiterals
  <2> HIDE DEF args
  <2>3. text \in ClosedText /\ Literals(text) = Literals(rhs) \cup Literals(args)
    BY <1>9, <2>2, ClosedFacts, ConcatLiterals
  <2> QED
    BY <1>8, <1>9, <2>2, <2>3
<1> HIDE DEF args
<1>12. text \in Text /\ (RulesInPairs => text \in PairedText)
  BY <1>2, <1>7, <1>10, ConcatText, ConcatInPairs DEF PairedText
<1> HIDE DEF text
<1>13. Reads(n, text)
  BY <1>1, <1>5, <1>12, <1>11 DEF Reads, KeepsLiterals, read
<1> QED
  BY <1>13

LEMMA ExpanderReads ==
  ASSUME ExpanderInv,
         CopyToken \/ CopyQuoted \/ CopyName \/ ReplaceName \/ ReplaceCall
  PROVE  \E n, text : Reads(n, text)
  BY CopyReads, ReplaceNameReads, ReplaceCallReads

LEMMA ExpanderInvStep ==
  ReaderInv /\ ExpanderInv /\ [Next]_vars => ExpanderInv'
<1> SUFFICES ASSUME ReaderInv, ExpanderInv, [Next]_vars PROVE ExpanderInv'
  OBVIOUS
<1> USE DEF Array
<1>1. CASE ReadDefaultValueRule
  <2>1. /\ default_value_rules' =
             Insert(default_value_rules, Element, DefaultValueRuleOf(Element))
        /\ stage = "default_value_rules" /\ stage' = stage
        /\ pos < Len(document["default_value_rules"])
        /\ "read" \in DefaultValueRuleResults(Element)
        /\ UNCHANGED expanderVars
    BY <1>1 DEF ReadDefaultValueRule, IsAtElement
  <2>2. document \in Document /\ pos \in Nat
    BY DEF ReaderInv, DatatypeRulesTyped
  <2>3. Element \in ElementNode
    BY <2>1, <2>2, ElementType
  <2>4. \A i \in DOMAIN Element :
          /\ Element[i].data \in Text
          /\ \A j \in DOMAIN Element[i].node : Element[i].node[j].data \in Text
    <3>1. pos + 1 \in DOMAIN document["default_value_rules"]
      <4>1. document["default_value_rules"] \in Seq(ChildWith(ElementNode))
        BY <2>2, DocumentAssumption
      <4> QED
        BY <2>1, <2>2, <4>1
    <3>2. Element = document["default_value_rules"][pos + 1].node
      BY <2>1 DEF Element
    <3> QED
      BY <2>2, <3>1, <3>2, RuleTextAssumption, Zenon
  <2>5. TypedRule(DefaultValueRuleOf(Element))
    BY <2>1, <2>3, <2>4, DefaultValueRuleTyped
  <2>6. \A n \in DOMAIN default_value_rules' : TypedRule(default_value_rules'[n])
    BY <2>1, <2>5 DEF Insert, ExpanderInv
  <2>7. expansion = "idle" /\ expansion' = "idle"
    BY <2>1 DEF expanderVars, ExpanderInv
  <2>8. ExpanderTypeOK'
    BY <2>1 DEF expanderVars, passVars, ExpanderInv, ExpanderTypeOK
  <2> QED
    BY <2>6, <2>7, <2>8 DEF ExpanderInv
<1>2. CASE ReadDatatypeRule \/ RefuseDatatypeRule \/ RefuseDefaultValueRule \/ EndOfArray
  <2>1. stage \in Array /\ UNCHANGED << default_value_rules, expanderVars >>
    BY <1>2 DEF ReadDatatypeRule, RefuseDatatypeRule, RefuseDefaultValueRule, EndOfArray,
                IsAtElement, EndWith
  <2>2. expansion' = "idle"
    BY <2>1 DEF expanderVars, ExpanderInv
  <2>3. ExpanderTypeOK'
    BY <2>1 DEF expanderVars, passVars, ExpanderInv, ExpanderTypeOK
  <2> QED
    BY <2>1, <2>2, <2>3 DEF ExpanderInv
<1>3. CASE TranslateDefaultValue
  <2>1. PICK d \in DefaultValue : BeginDefaultValue(d)
    BY <1>3 DEF TranslateDefaultValue
  <2>2. /\ expansion' = "pass" /\ stage' = "read" /\ default_value_rules' = default_value_rules
        /\ old_default_value' = d /\ macro_text' = Stripped(d) /\ text_cit' = 0
        /\ appended_text' = << >> /\ expanded' = FALSE /\ default_value' = << >>
    BY <1>3, <2>1, Zenon DEF TranslateDefaultValue, BeginDefaultValue, readerVars
  <2>3. macro_text' \in Text /\ Len(macro_text') \in Nat
    BY <2>2, DefaultValueIsText, TextLength
  <2>4. Unquoted(macro_text', text_cit')
    BY <2>2, <2>3, UnquotedFirst
  <2>5. ExpanderTypeOK'
    <3>1. text_cit' \in 0..Len(macro_text')
      BY <2>2, <2>3
    <3>2. old_default_value' \in DefaultValue /\ appended_text' \in Text
          /\ default_value' \in Text /\ expanded' \in BOOLEAN
      BY <2>2, EmptyText
    <3>3. expansion' \in Expansion
      BY <2>2 DEF Expansion
    <3> QED
      BY <2>3, <3>1, <3>2, <3>3 DEF ExpanderTypeOK
  <2> QED
    BY <2>2, <2>4, <2>5 DEF ExpanderInv
<1>4. CASE ExpandMacros
  <2>1. /\ UNCHANGED << stage, default_value_rules >> /\ expansion = "pass"
        /\ stage = "read"
    BY <1>4 DEF ExpandMacros, ExpandDefaultValue, CopyToken, CopyQuoted, UnterminatedQuote,
                CopyName, ReplaceName, ReplaceCall, AppendRewritten, IllegalCall, EndPass, InPass,
                readerVars, ExpanderInv
  <2>2. ASSUME NEW n, NEW text, Reads(n, text) PROVE ExpanderInv'
    <3>1. /\ n \in (text_cit + 1)..Len(macro_text) /\ Unquoted(macro_text, n)
          /\ text \in Text /\ text_cit' = n /\ appended_text' = appended_text \o text
          /\ UNCHANGED << expansion, old_default_value, macro_text, expanded, default_value >>
      BY <2>2 DEF Reads, AppendUpTo
    <3>2. text_cit \in Nat /\ macro_text \in Text /\ Len(macro_text) \in Nat
          /\ appended_text \in Text
      BY TextLength DEF ExpanderInv, ExpanderTypeOK
    <3>3. text_cit' \in 0..Len(macro_text')
      BY <3>1, <3>2
    <3>4. appended_text' \in Text
      BY <3>1, <3>2, ConcatText
    <3>5. Unquoted(macro_text', text_cit')
      BY <3>1
    <3>6. ExpanderTypeOK'
      BY <3>1, <3>3, <3>4 DEF ExpanderInv, ExpanderTypeOK
    <3> QED
      BY <2>1, <3>5, <3>6 DEF ExpanderInv
  <2>3. CASE UnterminatedQuote \/ IllegalCall
    <3>1. /\ expansion' \in {"threw", "assert_failed"}
          /\ UNCHANGED << old_default_value, passVars, expanded, default_value >>
      BY <2>3 DEF UnterminatedQuote, IllegalCall, EndExpansion
    <3>2. ExpanderTypeOK'
      BY <3>1 DEF passVars, Expansion, ExpanderInv, ExpanderTypeOK
    <3> QED
      BY <2>1, <3>1, <3>2 DEF ExpanderInv
  <2>4. CASE EndPass
    <3>1. /\ expansion' \in {"done", "pass"} /\ UNCHANGED old_default_value
          /\ \/ UNCHANGED passVars /\ expansion' = "done"
             \/ macro_text' = appended_text /\ text_cit' = 0 /\ appended_text' = << >>
          /\ expanded' \in {TRUE, expanded}
          /\ default_value' \in {default_value, macro_text, old_default_value, << >>}
      BY <2>1, <2>4, Zenon DEF EndPass, passVars
    <3>2. old_default_value \in Text
      BY DefaultValueAssumption, EmptyText DEF ExpanderInv, ExpanderTypeOK
    <3>3. /\ macro_text' \in Text /\ appended_text' \in Text
          /\ text_cit' \in 0..Len(macro_text')
      <4>1. CASE UNCHANGED passVars
        BY <4>1 DEF passVars, ExpanderInv, ExpanderTypeOK
      <4>2. CASE macro_text' = appended_text /\ text_cit' = 0 /\ appended_text' = << >>
        BY <4>2, EmptyText, TextLength DEF ExpanderInv, ExpanderTypeOK
      <4> QED
        BY <3>1, <4>1, <4>2
    <3>4. ExpanderTypeOK'
      <4>1. expansion' \in Expansion /\ expanded' \in BOOLEAN
        BY <3>1 DEF Expansion, ExpanderInv, ExpanderTypeOK
      <4>2. default_value' \in Text
        BY <3>1, <3>2, EmptyText DEF ExpanderInv, ExpanderTypeOK
      <4> QED
        BY <3>1, <3>3, <4>1, <4>2 DEF ExpanderInv, ExpanderTypeOK
    <3>5. expansion' = "pass" => Unquoted(macro_text', text_cit')
      BY <3>1, <3>3, UnquotedFirst
    <3> QED
      BY <2>1, <3>1, <3>4, <3>5 DEF ExpanderInv
  <2> QED
    BY <1>4, <2>2, <2>3, <2>4, ExpanderReads DEF ExpandMacros, ExpandDefaultValue
<1>5. CASE UNCHANGED vars
  BY <1>5 DEF vars, readerVars, expanderVars, passVars, ExpanderInv, ExpanderTypeOK
<1> QED
  BY <1>1, <1>2, <1>3, <1>4, <1>5 DEF Next

LEMMA ExpanderInvCorrect == Spec => []ExpanderInv
  BY ReaderInvCorrect, ExpanderInvInit, ExpanderInvStep, PTL DEF Spec

(***************************************************************************)
(* For preferences and default values of any size: rules are made of texts *)
(* and so is all that default values become while they are translated; no  *)
(* more of a text is read than there is (parse_macro_args,                 *)
(* basic_text_processor).                                                  *)
(***************************************************************************)
THEOREM TypeCorrect == Spec => []TypeOK
<1>1. ReaderInv /\ ExpanderInv => TypeOK
  BY DEF ReaderInv, ExpanderInv, TypedRule, TypeOK
<1> QED
  BY <1>1, ReaderInvCorrect, ExpanderInvCorrect, PTL

-------------------------------------------------------------------------------
\* Parentheses.  What has been appended leaves as many open as what has been
\* read, and never closes one that is not open.

Follows(u, s, t) ==
  /\ u \in Text /\ Unquoted(u, Len(u)) /\ Depth(u, Len(u)) = Depth(s, t)
  /\ \A i \in 1..Len(u) : Depth(u, i) >= 0

\* The parentheses of a piece, where a text is read from t to n.
LEMMA PieceFollows ==
  ASSUME NEW s \in Text, InPairs(s), NEW t \in Nat, NEW n \in Nat, t <= n, n <= Len(s),
         Unquoted(s, t), Unquoted(s, n), NEW piece \in Text,
         \/ piece = SubSeq(s, t + 1, n)
         \/ SubSeq(s, t + 1, n) \in PairedText /\ piece \in PairedText
  PROVE  /\ Depth(s, t) \in Int /\ Depth(s, n) \in Int
         /\ Unquoted(piece, Len(piece)) /\ Depth(piece, Len(piece)) + Depth(s, t) = Depth(s, n)
         /\ \A j \in 1..Len(piece) : Depth(piece, j) + Depth(s, t) >= 0
<1> DEFINE read == SubSeq(s, t + 1, n)
<1>1. /\ Len(s) \in Nat /\ t \in 0..Len(s) /\ n \in 0..Len(s) /\ n - t \in 0..(n - t)
      /\ t + (n - t) = n /\ \A j \in 1..(n - t) : t + j \in 1..Len(s) /\ j \in 0..(n - t)
  BY TextLength
<1>2. Depth(s, t) \in Int /\ Depth(s, n) \in Int
  BY <1>1, DepthType
<1>3. \A i \in 1..Len(s) : Depth(s, i) >= 0
  BY InPairsFacts
<1>4. read \in Text /\ Len(read) = n - t /\ IsWindow(s, read, t)
  BY SubSeqWindow
<1>5. CASE piece = read
  <2> HIDE DEF read
  <2>1. ASSUME NEW j \in 0..(n - t)
        PROVE  /\ Unquoted(s, t + j) <=> Unquoted(read, j)
               /\ Depth(s, t + j) = Depth(read, j) + Depth(s, t)
    BY <1>4, WindowOpen
  <2>2. Unquoted(read, n - t) /\ Depth(s, n) = Depth(read, n - t) + Depth(s, t)
    BY <1>1, <2>1
  <2>3. \A j \in 1..(n - t) : Depth(read, j) + Depth(s, t) >= 0
    BY <1>1, <1>3, <2>1
  <2> QED
    BY <1>2, <1>4, <1>5, <2>2, <2>3
<1>6. CASE read \in PairedText /\ piece \in PairedText
  <2> HIDE DEF read
  <2>1. /\ Unquoted(piece, Len(piece)) /\ Depth(piece, Len(piece)) = 0
        /\ \A j \in 1..Len(piece) : Depth(piece, j) >= 0
    BY <1>6, InPairsFacts DEF PairedText
  <2>2. Depth(s, n) = Depth(s, t)
    BY <1>1, <1>4, <1>6, WindowInPairs DEF PairedText
  <2>3. Depth(s, t) >= 0
    <3>1. CASE t = 0
      BY <3>1, DepthFirst
    <3>2. CASE t # 0
      BY <1>1, <1>3, <3>2
    <3> QED
      BY <3>1, <3>2
  <2>4. \A j \in 1..Len(piece) : Depth(piece, j) \in Int
    BY TextLength, DepthType
  <2> QED
    BY <1>2, <2>1, <2>2, <2>3, <2>4
<1> QED
  BY <1>5, <1>6

LEMMA AppendFollows ==
  ASSUME NEW s \in Text, InPairs(s), NEW t \in Nat, NEW n \in Nat, t <= n, n <= Len(s),
         Unquoted(s, t), Unquoted(s, n), NEW piece \in Text,
         \/ piece = SubSeq(s, t + 1, n)
         \/ SubSeq(s, t + 1, n) \in PairedText /\ piece \in PairedText,
         NEW u, Follows(u, s, t)
  PROVE  Follows(u \o piece, s, n)
<1> DEFINE v == u \o piece
           k == Len(u)
           m == Len(piece)
<1>1. /\ u \in Text /\ k \in Nat /\ m \in Nat
      /\ Unquoted(u, k) /\ Depth(u, k) = Depth(s, t)
      /\ \A i \in 1..k : Depth(u, i) >= 0
  BY TextLength DEF Follows
<1>2. /\ Depth(s, t) \in Int /\ Depth(s, n) \in Int
      /\ Unquoted(piece, m) /\ Depth(piece, m) + Depth(s, t) = Depth(s, n)
      /\ \A j \in 1..m : Depth(piece, j) + Depth(s, t) >= 0
  BY PieceFollows
<1>3. /\ v \in Text /\ Len(v) = k + m /\ IsWindow(v, u, 0) /\ IsWindow(v, piece, k)
  BY <1>1, ConcatText, ConcatWindows
<1> HIDE DEF v
<1>4. \A i \in 0..k : Depth(v, i) = Depth(u, i) /\ Depth(u, i) \in Int
  <2> SUFFICES ASSUME NEW i \in 0..k PROVE Depth(v, i) = Depth(u, i) /\ Depth(u, i) \in Int
    OBVIOUS
  <2>1. Depth(u, i) \in Int /\ Depth(v, 0 + i) = Depth(u, i) + Depth(v, 0)
    BY <1>1, <1>3, WindowOpen
  <2>2. 0 + i = i /\ Depth(v, 0) = 0
    BY <1>1, <1>3, DepthFirst
  <2> QED
    BY <2>1, <2>2
<1>5. Depth(v, k) = Depth(s, t)
  BY <1>1, <1>4
<1>6. \A j \in 0..m : /\ Depth(v, k + j) = Depth(piece, j) + Depth(s, t)
                      /\ Unquoted(v, k + j) <=> Unquoted(piece, j)
  BY <1>3, <1>5, WindowOpen
<1> HIDE DEF k, m
<1>7. Unquoted(v, k + m) /\ Depth(v, k + m) = Depth(s, n)
  <2>1. m \in 0..m
    BY <1>1
  <2> QED
    BY <1>2, <1>6, <2>1
<1>8. ASSUME NEW i \in 1..(k + m) PROVE Depth(v, i) >= 0
  <2>1. CASE i \in 1..k
    BY <1>1, <1>4, <2>1
  <2>2. CASE i \notin 1..k
    <3> DEFINE j == i - k
    <3>1. j \in 1..m /\ j \in 0..m /\ k + j = i
      BY <1>1, <2>2
    <3> HIDE DEF j
    <3> QED
      BY <1>2, <1>6, <3>1
  <2> QED
    BY <2>1, <2>2
<1> QED
  BY <1>3, <1>7, <1>8 DEF Follows, v

PairsInv ==
  /\ expansion = "pass" /\ RulesInPairs
     /\ InPairs(old_default_value) /\ InPairs(Stripped(old_default_value))
     => InPairs(macro_text) /\ Follows(appended_text, macro_text, text_cit)
  /\ ParenthesesInPairs

LEMMA PairsInvStep ==
  ReaderInv /\ ExpanderInv /\ PairsInv /\ [Next]_vars => PairsInv'
<1> SUFFICES ASSUME ReaderInv, ExpanderInv, PairsInv, [Next]_vars PROVE PairsInv'
  OBVIOUS
<1> DEFINE Given == /\ RulesInPairs
                    /\ InPairs(old_default_value) /\ InPairs(Stripped(old_default_value))
<1>1. CASE \/ ReadDatatypeRule \/ RefuseDatatypeRule
           \/ ReadDefaultValueRule \/ RefuseDefaultValueRule \/ EndOfArray
  <2>1. stage \in Array
    BY <1>1 DEF ReadDatatypeRule, RefuseDatatypeRule, ReadDefaultValueRule,
                RefuseDefaultValueRule, EndOfArray, IsAtElement, Array
  <2>2. expansion' = expansion
    BY <1>1 DEF ReadDatatypeRule, RefuseDatatypeRule, ReadDefaultValueRule,
                RefuseDefaultValueRule, EndOfArray, EndWith, expanderVars
  <2>3. expansion' = "idle"
    BY <2>1, <2>2 DEF ExpanderInv, Array
  <2> QED
    BY <2>3 DEF PairsInv, ParenthesesInPairs
<1>2. CASE TranslateDefaultValue
  <2>1. PICK d \in DefaultValue : BeginDefaultValue(d)
    BY <1>2 DEF TranslateDefaultValue
  <2>2. /\ expansion' = "pass" /\ old_default_value' = d /\ macro_text' = Stripped(d)
        /\ text_cit' = 0 /\ appended_text' = << >>
    BY <2>1, Zenon DEF BeginDefaultValue
  <2>3. Follows(<< >>, Stripped(d), 0)
    <3>1. Stripped(d) \in Text
      BY DefaultValueIsText
    <3>2. Depth(<< >>, 0) = 0 /\ Depth(Stripped(d), 0) = 0 /\ Unquoted(<< >>, 0)
      BY <3>1, EmptyText, DepthFirst, UnquotedFirst
    <3> QED
      BY <3>2, EmptyText DEF Follows
  <2> QED
    BY <2>2, <2>3 DEF PairsInv, ParenthesesInPairs
<1>3. CASE ExpandMacros
  <2>1. /\ expansion = "pass" /\ UNCHANGED << default_value_rules, old_default_value >>
    BY <1>3 DEF ExpandMacros, ExpandDefaultValue, CopyToken, CopyQuoted, UnterminatedQuote,
                CopyName, ReplaceName, ReplaceCall, AppendRewritten, IllegalCall, EndPass, InPass,
                CopyUpTo, AppendUpTo, EndExpansion
  <2>2. Given' => Given
    BY <2>1 DEF RulesInPairs
  <2>3. CASE ~Given'
    BY <2>3 DEF PairsInv, ParenthesesInPairs
  <2>4. CASE Given'
    <3>1. /\ RulesInPairs /\ InPairs(old_default_value)
          /\ InPairs(macro_text) /\ Follows(appended_text, macro_text, text_cit)
      BY <2>1, <2>2, <2>4 DEF PairsInv
    <3>2. /\ text_cit \in Nat /\ macro_text \in Text /\ Len(macro_text) \in Nat
          /\ Unquoted(macro_text, text_cit)
      BY <2>1, TextLength DEF ExpanderInv, ExpanderTypeOK
    <3>3. ASSUME NEW n, NEW text, Reads(n, text) PROVE PairsInv'
      <4>1. /\ n \in (text_cit + 1)..Len(macro_text) /\ Unquoted(macro_text, n)
            /\ text \in Text /\ text_cit' = n /\ appended_text' = appended_text \o text
            /\ UNCHANGED << expansion, macro_text >>
            /\ \/ text = SubSeq(macro_text, text_cit + 1, n)
               \/ /\ SubSeq(macro_text, text_cit + 1, n) \in PairedText
                  /\ text \in PairedText
        BY <3>1, <3>3 DEF Reads, AppendUpTo
      <4>2. n \in Nat /\ text_cit <= n /\ n <= Len(macro_text)
        BY <3>2, <4>1
      <4>3. Follows(appended_text \o text, macro_text, n)
        BY <3>1, <3>2, <4>1, <4>2, AppendFollows
      <4> QED
        BY <2>1, <3>1, <4>1, <4>3 DEF PairsInv, ParenthesesInPairs
    <3>4. CASE UnterminatedQuote \/ IllegalCall
      <4>1. expansion' \in {"threw", "assert_failed"}
        BY <3>4 DEF UnterminatedQuote, IllegalCall, EndExpansion
      <4> QED
        BY <4>1 DEF PairsInv, ParenthesesInPairs
    <3>5. CASE EndPass
      <4>1. InPairs(appended_text) /\ appended_text \in Text
        <5>1. text_cit = Len(macro_text)
          BY <3>5 DEF EndPass
        <5>2. Depth(macro_text, text_cit) = 0
          BY <3>1, <3>2, <5>1, InPairsFacts
        <5> QED
          BY <3>1, <5>2, InPairsFacts DEF Follows
      <4>2. /\ \/ /\ expansion' = "done"
                  /\ default_value' \in {macro_text, old_default_value, << >>}
               \/ /\ expansion' = "pass" /\ macro_text' = appended_text
                  /\ text_cit' = 0 /\ appended_text' = << >>
        BY <2>1, <3>5, Zenon DEF EndPass
      <4>3. InPairs(<< >>)
        BY EmptyInPairs DEF PairedText
      <4>4. CASE /\ expansion' = "done"
                 /\ default_value' \in {macro_text, old_default_value, << >>}
        <5>1. InPairs(default_value')
          BY <3>1, <4>3, <4>4
        <5> QED
          BY <4>4, <5>1 DEF PairsInv, ParenthesesInPairs
      <4>5. CASE /\ expansion' = "pass" /\ macro_text' = appended_text
                 /\ text_cit' = 0 /\ appended_text' = << >>
        <5>1. Follows(<< >>, appended_text, 0)
          <6>1. Depth(<< >>, 0) = 0 /\ Depth(appended_text, 0) = 0 /\ Unquoted(<< >>, 0)
            BY <4>1, EmptyText, DepthFirst, UnquotedFirst
          <6> QED
            BY <6>1, EmptyText DEF Follows
        <5> QED
          BY <4>1, <4>5, <5>1 DEF PairsInv, ParenthesesInPairs
      <4> QED
        BY <4>2, <4>4, <4>5
    <3> QED
      BY <1>3, <3>3, <3>4, <3>5, ExpanderReads DEF ExpandMacros, ExpandDefaultValue
  <2> QED
    BY <2>3, <2>4
<1>4. CASE UNCHANGED vars
  <2>1. /\ UNCHANGED << stage, default_value_rules >>
        /\ UNCHANGED << expansion, old_default_value, macro_text, text_cit,
                        appended_text, expanded, default_value >>
    BY <1>4 DEF vars, readerVars, expanderVars, passVars
  <2>2. RulesInPairs' <=> RulesInPairs
    BY <2>1 DEF RulesInPairs
  <2> QED
    BY <2>1, <2>2 DEF PairsInv, ParenthesesInPairs
<1> QED
  BY <1>1, <1>2, <1>3, <1>4 DEF Next

(***************************************************************************)
(* For preferences and default values of any size: rules that have their   *)
(* parentheses in pairs keep those of a default value in pairs, however    *)
(* many of them are applied, in each other's arguments or results          *)
(* (macro_args_expander, expand_all_macros).                               *)
(***************************************************************************)
THEOREM ParenthesesInPairsCorrect == Spec => []ParenthesesInPairs
<1>1. Init => PairsInv
  BY DEF Init, ExpanderInit, PairsInv, ParenthesesInPairs
<1>2. PairsInv => ParenthesesInPairs
  BY DEF PairsInv
<1> QED
  BY <1>1, <1>2, ReaderInvCorrect, ExpanderInvCorrect, PairsInvStep, PTL DEF Spec

-------------------------------------------------------------------------------
\* Quoted tokens.  What has been appended has those of what has been read, and
\* a pass that reads its text to the end finds those of the default value in it.

LEMMA StrippedLiterals ==
  ASSUME NEW d \in Text, NEW s, NEW k, StrippedBy(d, s, k), Unquoted(s, Len(s))
  PROVE  Literals(s) = Literals(d)
<1> DEFINE m == k + Len(s)
<1>1. /\ s \in Text /\ Len(d) \in Nat /\ Len(s) \in Nat /\ k \in Nat
      /\ k <= m /\ m <= Len(d) /\ m \in Nat /\ Len(d) - m = k
      /\ \A i \in 1..Len(s) : s[i] = d[i + k]
  <2>1. s \in Text /\ k \in 0..Len(d) /\ Len(s) = Len(d) - 2 * k
    BY DEF StrippedBy
  <2>2. Len(d) \in Nat /\ Len(s) \in Nat
    BY <2>1, TextLength
  <2> QED
    BY <2>1, <2>2 DEF StrippedBy
<1>2. /\ \A i \in (0 + 1)..k : d[i] = "("
      /\ \A i \in (m + 1)..Len(d) : d[i] = ")"
  <2>1. \A j \in 1..k : d[j] = "(" /\ d[Len(d) + 1 - j] = ")"
    BY DEF StrippedBy, Strippable
  <2>2. \A i \in (m + 1)..Len(d) : (Len(d) + 1) - i \in 1..k /\ Len(d) + 1 - ((Len(d) + 1) - i) = i
    BY <1>1
  <2> QED
    BY <2>1, <2>2
<1>3. "(" \notin Quote /\ ")" \notin Quote
  BY Zenon DEF Quote
<1>4. Unquoted(d, k) /\ Unquoted(d, m)
  <2>1. 0 \in 0..Len(s) /\ Len(s) \in 0..Len(s) /\ 0 + k = k /\ Len(s) + k = m
    BY <1>1
  <2>2. Unquoted(s, 0)
    BY <1>1, UnquotedFirst
  <2> QED
    BY <2>1, <2>2, QuotesOfStripped
<1>5. IsWindow(d, s, k)
  <2>1. \A i \in 1..Len(s) : i + k = k + i
    BY <1>1
  <2> QED
    BY <1>1, <1>4, <2>1 DEF IsWindow
<1>6. Literals(s) = LiteralsIn(d, k, m)
  BY <1>1, <1>5, LiteralsOfWindow
<1> HIDE DEF m
<1>7. LiteralsIn(d, 0, k) = {}
  <2>1. Unquoted(d, 0) /\ \A i \in (0 + 1)..k : d[i] \notin Quote
    BY <1>2, <1>3, UnquotedFirst
  <2>2. 0 \in Nat /\ 0 <= k /\ k <= Len(d)
    BY <1>1
  <2> QED
    BY <1>1, <2>1, <2>2, NoLiteralsIn
<1>8. LiteralsIn(d, m, Len(d)) = {}
  BY <1>1, <1>2, <1>3, <1>4, NoLiteralsIn
<1>9. LiteralsIn(d, 0, Len(d)) = LiteralsIn(d, 0, k) \cup LiteralsIn(d, k, Len(d))
  BY <1>1, LiteralsSplit
<1>10. LiteralsIn(d, k, Len(d)) = LiteralsIn(d, k, m) \cup LiteralsIn(d, m, Len(d))
  BY <1>1, LiteralsSplit
<1> QED
  BY <1>6, <1>7, <1>8, <1>9, <1>10, LiteralsWhole

\* Copied(u, s, t): u has the quoted tokens of s up to t.
Copied(u, s, t) == u \in ClosedText /\ Literals(u) = LiteralsIn(s, 0, t)

LEMMA NothingCopied ==
  ASSUME NEW s \in Text
  PROVE  Copied(<< >>, s, 0)
<1>1. LiteralsIn(s, 0, 0) = {}
  BY DEF LiteralsIn
<1> QED
  BY <1>1, EmptyLiterals DEF Copied

LEMMA AppendCopied ==
  ASSUME NEW s \in Text, NEW t \in Nat, NEW n \in Nat, t <= n, n <= Len(s),
         Unquoted(s, t), Unquoted(s, n), NEW piece,
         \/ piece = SubSeq(s, t + 1, n)
         \/ KeepsLiterals(SubSeq(s, t + 1, n), piece),
         NEW u, Copied(u, s, t)
  PROVE  Copied(u \o piece, s, n)
<1> DEFINE read == SubSeq(s, t + 1, n)
<1>1. /\ read \in Text /\ Len(read) = n - t /\ IsWindow(s, read, t) /\ t + (n - t) = n
      /\ n - t \in 0..(n - t)
  BY SubSeqWindow
<1> HIDE DEF read
<1>2. Literals(read) = LiteralsIn(s, t, n)
  <2>1. Literals(read) = LiteralsIn(s, t, t + (n - t))
    BY <1>1, LiteralsOfWindow
  <2> QED
    BY <1>1, <2>1
<1>3. read \in ClosedText
  <2>1. ASSUME NEW j \in 0..(n - t) PROVE Unquoted(s, t + j) <=> Unquoted(read, j)
    BY <1>1, WindowOpen
  <2> QED
    BY <1>1, <2>1 DEF ClosedText
<1>4. piece \in ClosedText /\ Literals(piece) = LiteralsIn(s, t, n)
  BY <1>2, <1>3 DEF KeepsLiterals, read
<1>5. u \in ClosedText /\ Literals(u) = LiteralsIn(s, 0, t)
  BY DEF Copied
<1>6. u \o piece \in ClosedText /\ Literals(u \o piece) = Literals(u) \cup Literals(piece)
  BY <1>4, <1>5, ClosedFacts, ConcatLiterals
<1>7. LiteralsIn(s, 0, n) = LiteralsIn(s, 0, t) \cup LiteralsIn(s, t, n)
  BY LiteralsSplit
<1> QED
  BY <1>4, <1>5, <1>6, <1>7 DEF Copied

LiteralsInv ==
  /\ expansion = "pass" /\ RulesUseAllArgs =>
       /\ Copied(appended_text, macro_text, text_cit)
       /\ Unquoted(macro_text, Len(macro_text)) =>
            Literals(macro_text) = Literals(old_default_value)
  /\ LiteralsKept

LEMMA LiteralsInvStep ==
  ReaderInv /\ ExpanderInv /\ LiteralsInv /\ [Next]_vars => LiteralsInv'
<1> SUFFICES ASSUME ReaderInv, ExpanderInv, LiteralsInv, [Next]_vars PROVE LiteralsInv'
  OBVIOUS
<1>1. CASE \/ ReadDatatypeRule \/ RefuseDatatypeRule
           \/ ReadDefaultValueRule \/ RefuseDefaultValueRule \/ EndOfArray
  <2>1. stage \in Array
    BY <1>1 DEF ReadDatatypeRule, RefuseDatatypeRule, ReadDefaultValueRule,
                RefuseDefaultValueRule, EndOfArray, IsAtElement, Array
  <2>2. expansion' = expansion
    BY <1>1 DEF ReadDatatypeRule, RefuseDatatypeRule, ReadDefaultValueRule,
                RefuseDefaultValueRule, EndOfArray, EndWith, expanderVars
  <2>3. expansion' = "idle"
    BY <2>1, <2>2 DEF ExpanderInv, Array
  <2> QED
    BY <2>3 DEF LiteralsInv, LiteralsKept
<1>2. CASE TranslateDefaultValue
  <2>1. PICK d \in DefaultValue : BeginDefaultValue(d)
    BY <1>2 DEF TranslateDefaultValue
  <2>2. /\ expansion' = "pass" /\ old_default_value' = d /\ macro_text' = Stripped(d)
        /\ text_cit' = 0 /\ appended_text' = << >>
    BY <2>1, Zenon DEF BeginDefaultValue
  <2>3. d \in Text /\ Stripped(d) \in Text
    BY DefaultValueIsText
  <2>4. Copied(<< >>, Stripped(d), 0)
    BY <2>3, NothingCopied
  <2>5. Unquoted(Stripped(d), Len(Stripped(d))) => Literals(Stripped(d)) = Literals(d)
    BY <2>3, StrippedText, StrippedLiterals
  <2> QED
    BY <2>2, <2>4, <2>5 DEF LiteralsInv, LiteralsKept
<1>3. CASE ExpandMacros
  <2>1. /\ expansion = "pass" /\ UNCHANGED << default_value_rules, old_default_value >>
    BY <1>3 DEF ExpandMacros, ExpandDefaultValue, CopyToken, CopyQuoted, UnterminatedQuote,
                CopyName, ReplaceName, ReplaceCall, AppendRewritten, IllegalCall, EndPass, InPass,
                CopyUpTo, AppendUpTo, EndExpansion
  <2>2. RulesUseAllArgs' <=> RulesUseAllArgs
    BY <2>1 DEF RulesUseAllArgs
  <2>3. CASE ~RulesUseAllArgs
    BY <2>2, <2>3 DEF LiteralsInv, LiteralsKept, RulesUseAllArgs
  <2>4. CASE RulesUseAllArgs
    <3>1. /\ Copied(appended_text, macro_text, text_cit)
          /\ Unquoted(macro_text, Len(macro_text)) =>
               Literals(macro_text) = Literals(old_default_value)
      BY <2>1, <2>4 DEF LiteralsInv
    <3>2. /\ text_cit \in Nat /\ macro_text \in Text /\ Len(macro_text) \in Nat
          /\ Unquoted(macro_text, text_cit) /\ appended_text \in Text
      BY <2>1, TextLength DEF ExpanderInv, ExpanderTypeOK
    <3>3. ASSUME NEW n, NEW text, Reads(n, text) PROVE LiteralsInv'
      <4>1. /\ n \in (text_cit + 1)..Len(macro_text) /\ Unquoted(macro_text, n)
            /\ text_cit' = n /\ appended_text' = appended_text \o text
            /\ UNCHANGED << expansion, macro_text >>
            /\ \/ text = SubSeq(macro_text, text_cit + 1, n)
               \/ KeepsLiterals(SubSeq(macro_text, text_cit + 1, n), text)
        BY <2>4, <3>3 DEF Reads, AppendUpTo
      <4>2. n \in Nat /\ text_cit <= n /\ n <= Len(macro_text)
        BY <3>2, <4>1
      <4>3. Copied(appended_text \o text, macro_text, n)
        BY <3>1, <3>2, <4>1, <4>2, AppendCopied
      <4> QED
        BY <2>1, <3>1, <4>1, <4>3 DEF LiteralsInv, LiteralsKept
    <3>4. CASE UnterminatedQuote \/ IllegalCall
      <4>1. expansion' \in {"threw", "assert_failed"}
        BY <3>4 DEF UnterminatedQuote, IllegalCall, EndExpansion
      <4> QED
        BY <4>1 DEF LiteralsInv, LiteralsKept
    <3>5. CASE EndPass
      <4>1. /\ appended_text \in ClosedText
            /\ Literals(appended_text) = Literals(macro_text)
            /\ Literals(macro_text) = Literals(old_default_value)
        <5>1. text_cit = Len(macro_text)
          BY <3>5 DEF EndPass
        <5>2. Literals(macro_text) = LiteralsIn(macro_text, 0, text_cit)
          BY <3>2, <5>1, LiteralsWhole
        <5> QED
          BY <3>1, <3>2, <5>1, <5>2 DEF Copied
      <4>2. \/ /\ expansion' = "done"
               /\ \/ default_value' \in {macro_text, old_default_value}
                  \/ default_value' = << >> /\ appended_text = << >>
            \/ /\ expansion' = "pass" /\ macro_text' = appended_text
               /\ text_cit' = 0 /\ appended_text' = << >>
        BY <2>1, <3>5, Zenon DEF EndPass
      <4>3. CASE /\ expansion' = "done"
                 /\ \/ default_value' \in {macro_text, old_default_value}
                    \/ default_value' = << >> /\ appended_text = << >>
        <5>1. Literals(default_value') = Literals(old_default_value)
          BY <4>1, <4>3
        <5> QED
          BY <2>1, <4>3, <5>1 DEF LiteralsInv, LiteralsKept
      <4>4. CASE /\ expansion' = "pass" /\ macro_text' = appended_text
                 /\ text_cit' = 0 /\ appended_text' = << >>
        <5>1. Copied(<< >>, appended_text, 0)
          BY <3>2, NothingCopied
        <5> QED
          BY <2>1, <4>1, <4>4, <5>1 DEF LiteralsInv, LiteralsKept
      <4> QED
        BY <4>2, <4>3, <4>4
    <3> QED
      BY <1>3, <3>3, <3>4, <3>5, ExpanderReads DEF ExpandMacros, ExpandDefaultValue
  <2> QED
    BY <2>3, <2>4
<1>4. CASE UNCHANGED vars
  <2>1. UNCHANGED << default_value_rules, expansion, old_default_value, macro_text, text_cit,
                     appended_text, default_value >>
    BY <1>4 DEF vars, readerVars, expanderVars, passVars
  <2>2. RulesUseAllArgs' <=> RulesUseAllArgs
    BY <2>1 DEF RulesUseAllArgs
  <2> QED
    BY <2>1, <2>2 DEF LiteralsInv, LiteralsKept
<1> QED
  BY <1>1, <1>2, <1>3, <1>4 DEF Next

(***************************************************************************)
(* For preferences and default values of any size: a translated default    *)
(* value has the quoted tokens of the original and no others, through any  *)
(* number of passes and of rewritten argument lists, if each rule uses     *)
(* every argument and brings no quotes (expand_macro_args,                 *)
(* rewrite_arg_placeholder, expand_all_macros).                            *)
(***************************************************************************)
THEOREM LiteralsKeptCorrect == Spec => []LiteralsKept
<1>1. Init => LiteralsInv
  BY DEF Init, ExpanderInit, LiteralsInv, LiteralsKept
<1>2. LiteralsInv => LiteralsKept
  BY DEF LiteralsInv
<1> QED
  BY <1>1, <1>2, ReaderInvCorrect, ExpanderInvCorrect, LiteralsInvStep, PTL DEF Spec

-------------------------------------------------------------------------------
\* Macros that are left.  A pass that ends with the text it began with has found
\* no macro in it.  For where one has been replaced, what has been appended falls
\* behind what has been read, and stays behind, as long as it is how the text
\* begins: it can't have the macro again (see NotPutBack).

\* Moves(n, text): what is read up to n is copied and has no macro, or what has
\* been appended with text is behind where that began.
Moves(n, text) ==
  /\ n \in (text_cit + 1)..Len(macro_text)
  /\ text \in ClosedText /\ AppendUpTo(n, text)
  /\ \/ /\ text = SubSeq(macro_text, text_cit + 1, n)
        /\ \A i \in (text_cit + 1)..n : i \notin Macros(macro_text)
     \/ IsWindow(macro_text, appended_text \o text, 0)
          => Len(appended_text \o text) <= text_cit

LEMMA CopyUpToMoves ==
  ASSUME macro_text \in Text, text_cit \in Nat, NEW n \in (text_cit + 1)..Len(macro_text),
         Unquoted(macro_text, text_cit), Unquoted(macro_text, n), CopyUpTo(n),
         \A i \in (text_cit + 1)..n : i \notin Macros(macro_text)
  PROVE  \E text : Moves(n, text)
<1> DEFINE text == SubSeq(macro_text, text_cit + 1, n)
           m == n - text_cit
<1>1. /\ n \in Nat /\ text_cit <= n /\ n <= Len(macro_text)
      /\ m \in 0..m /\ text_cit + m = n
  BY TextLength
<1>2. text \in Text /\ Len(text) = m /\ IsWindow(macro_text, text, text_cit)
  BY <1>1, SubSeqWindow
<1>3. AppendUpTo(n, text)
  BY DEF CopyUpTo
<1> HIDE DEF text, m
<1>4. ASSUME NEW j \in 0..m PROVE Unquoted(macro_text, text_cit + j) <=> Unquoted(text, j)
  BY <1>2, WindowOpen
<1>5. text \in ClosedText
  BY <1>1, <1>2, <1>4 DEF ClosedText
<1> QED
  BY <1>3, <1>5 DEF Moves, text

LEMMA MacroFacts ==
  ASSUME NEW s \in Text, NEW i, i \in Macros(s)
  PROVE  /\ i \in Unmasked(s) /\ i \in 1..Len(s)
         /\ Unquoted(s, i - 1) /\ Unquoted(s, i)
         /\ s[i] \in Word /\ Upper[s[i]] \in DOMAIN default_value_rules
         /\ \A j \in 1..(i - 1) : s[j] \in Word => \E q \in j..i : s[q] \notin Word \cup Cont
         /\ i < Len(s) => s[i + 1] \notin Word \cup Cont
<1>1. /\ i \in Unmasked(s)
      /\ s[i] \in Word /\ Upper[s[i]] \in DOMAIN default_value_rules
      /\ \A j \in 1..(i - 1) : s[j] \in Word => \E q \in j..i : s[q] \notin Word \cup Cont
      /\ i < Len(s) => s[i + 1] \notin Word \cup Cont
  BY Zenon DEF Macros
<1> QED
  BY <1>1, UnmaskedFacts

LEMMA CopyMoves ==
  ASSUME ExpanderInv, CopyToken \/ CopyQuoted \/ CopyName
  PROVE  \E n, text : Moves(n, text)
<1> DEFINE s == macro_text
           t == text_cit
<1>1. /\ t \in Nat /\ s \in Text /\ Len(s) \in Nat /\ t < Len(s) /\ Unquoted(s, t)
  BY TextLength DEF ExpanderInv, ExpanderTypeOK, InPass, CopyToken, CopyQuoted, CopyName
<1>2. CASE CopyToken
  <2>1. s[t + 1] \notin Word \cup Quote /\ CopyUpTo(t + 1)
    BY <1>2 DEF CopyToken, NextToken
  <2>2. t + 1 \in (t + 1)..Len(s) /\ \A i \in (t + 1)..(t + 1) : i = t + 1
    BY <1>1
  <2>3. Unquoted(s, t + 1)
    BY <1>1, <2>1, QuoteSteps
  <2>4. \A i \in (t + 1)..(t + 1) : i \notin Macros(s)
    BY <1>1, <2>1, <2>2, MacroFacts
  <2> QED
    BY <1>1, <2>1, <2>2, <2>3, <2>4, CopyUpToMoves
<1>3. CASE CopyQuoted
  <2>1. PICK n \in (t + 2)..Len(s) :
          /\ CopyUpTo(n) /\ Unquoted(s, n)
          /\ \A i \in (t + 1)..(n - 1) : ~Unquoted(s, i)
    BY <1>1, <1>3, QuoteCopied
  <2>2. n \in (t + 1)..Len(s) /\ n - 1 \in (t + 1)..(n - 1)
        /\ \A i \in (t + 1)..n : i = n \/ i \in (t + 1)..(n - 1)
    BY <1>1
  <2>3. ASSUME NEW i \in (t + 1)..n, i \in Macros(s) PROVE FALSE
    <3>1. Unquoted(s, i) /\ Unquoted(s, i - 1)
      BY <1>1, <2>3, MacroFacts
    <3> QED
      BY <2>1, <2>2, <3>1
  <2> QED
    BY <1>1, <2>1, <2>2, <2>3, CopyUpToMoves
<1>4. CASE CopyName
  <2> DEFINE n == NameEnd
  <2>1. NextToken \in Word /\ ~IsMacro /\ CopyUpTo(n)
    BY <1>4 DEF CopyName
  <2>2. /\ n \in (t + 1)..Len(s) /\ Unquoted(s, n)
        /\ \A i \in (t + 1)..n : s[i] \in Word \cup Cont
    BY <1>1, <2>1, NameEndFacts, NameUnquoted
  <2>3. s[t + 1] \in Word /\ ~(n = t + 1 /\ Upper[s[t + 1]] \in DOMAIN default_value_rules)
    BY <2>1 DEF IsMacro, NextToken
  <2> HIDE DEF n
  <2>4. ASSUME NEW i \in (t + 1)..n, i \in Macros(s) PROVE FALSE
    <3>1. /\ i \in 1..Len(s) /\ Upper[s[i]] \in DOMAIN default_value_rules
          /\ \A j \in 1..(i - 1) : s[j] \in Word => \E q \in j..i : s[q] \notin Word \cup Cont
          /\ i < Len(s) => s[i + 1] \notin Word \cup Cont
      BY <1>1, <2>4, MacroFacts
    <3>2. CASE i = t + 1
      <4>1. n # t + 1
        BY <2>3, <3>1, <3>2
      <4>2. i + 1 \in (t + 1)..n /\ i < Len(s)
        BY <1>1, <2>2, <3>2, <4>1
      <4> QED
        BY <2>2, <3>1, <4>2
    <3>3. CASE i # t + 1
      <4>1. t + 1 \in 1..(i - 1) /\ \A q \in (t + 1)..i : q \in (t + 1)..n
        BY <1>1, <2>2, <3>3
      <4> QED
        BY <2>2, <2>3, <3>1, <4>1
    <3> QED
      BY <3>2, <3>3
  <2> QED
    BY <1>1, <2>1, <2>2, <2>4, CopyUpToMoves DEF n
<1> QED
  BY <1>2, <1>3, <1>4

\* No rule brings the name that it is for, if none leads back to itself.
LEMMA NotMentioned ==
  ASSUME IsAcyclic, NEW n \in DOMAIN default_value_rules, NEW rule, rule = default_value_rules[n],
         TypedRule(rule), NEW w \in Word, Upper[w] = n
  PROVE  /\ \A i \in 1..Len(rule.macro_rhs) : rule.macro_rhs[i] # w
         /\ \A i \in 1..Len(rule.rewrite) : rule.rewrite[i] # w
         /\ \A i \in 1..(Len(rule.rewrite) - 1) :
              rule.rewrite[i] \in DOMAIN Placeholder => rule.rewrite[i + 1] # "("
<1> DEFINE a == rule.macro_rhs
           b == rule.rewrite
           u == a \o b
           Mentioned == {Upper[x] : x \in Word \cap {u[i] : i \in DOMAIN u}}
                        \cap DOMAIN default_value_rules
<1>1. Mentions(n) = Mentioned
  BY Zenon DEF Mentions
<1>2. n \notin Mentions(n)
  <2>1. PICK rank \in [DOMAIN default_value_rules -> 1..Cardinality(DOMAIN default_value_rules)] :
          \A m \in Mentions(n) : rank[m] < rank[n]
    BY Zenon DEF IsAcyclic
  <2>2. rank[n] \in Int
    <3>1. rank[n] \in 1..Cardinality(DOMAIN default_value_rules)
      BY <2>1
    <3> QED
      BY <3>1
  <2>3. ~(rank[n] < rank[n])
    BY <2>2
  <2> QED
    BY <2>1, <2>3
<1>3. \A i \in 1..(Len(b) - 1) : b[i] \in DOMAIN Placeholder => b[i + 1] # "("
  BY Zenon DEF IsAcyclic
<1>4. a \in Text /\ b \in Text
  BY DEF TypedRule, Rule
<1> HIDE DEF a, b
<1>5. /\ u \in Text /\ Len(a) \in Nat /\ Len(b) \in Nat /\ Len(u) = Len(a) + Len(b)
      /\ \A j \in 1..Len(a) : u[j] = a[j]
      /\ \A j \in 1..Len(b) : u[Len(a) + j] = b[j]
  BY <1>4, ConcatText, TextLength
<1> HIDE DEF u
<1>6. DOMAIN u = 1..(Len(a) + Len(b))
  BY <1>5, TextLength
<1>7. ASSUME NEW i \in DOMAIN u PROVE u[i] # w
  <2> SUFFICES ASSUME u[i] = w PROVE n \in Mentioned
    BY <1>1, <1>2
  <2> QED
    OBVIOUS
<1> HIDE DEF Mentioned
<1>8. \A j \in 1..Len(a) : a[j] # w
  <2>1. \A j \in 1..Len(a) : j \in DOMAIN u
    BY <1>5, <1>6
  <2> QED
    BY <1>5, <1>7, <2>1
<1>9. \A j \in 1..Len(b) : b[j] # w
  <2>1. \A j \in 1..Len(b) : Len(a) + j \in DOMAIN u
    BY <1>5, <1>6
  <2> QED
    BY <1>5, <1>7, <2>1
<1> QED
  BY <1>3, <1>8, <1>9 DEF a, b

Behind == IsWindow(macro_text, appended_text, 0) => Len(appended_text) <= text_cit

\* What the right-hand side of a macro's rule adds to what has been appended.
LEMMA RhsBehind ==
  ASSUME NEW s \in Text, NEW t \in Nat, t < Len(s), NEW u \in Text, NEW rhs \in Text,
         NEW v \in Text, IsWindow(v, u, 0), IsWindow(v, rhs, Len(u)), IsWindow(s, v, 0),
         Len(u) <= t, \A i \in 1..Len(rhs) : rhs[i] # s[t + 1]
  PROVE  Len(u) + Len(rhs) <= t
<1> DEFINE i == (t + 1) - Len(u)
<1>1. /\ Len(s) \in Nat /\ Len(v) \in Nat /\ Len(u) \in Nat /\ Len(rhs) \in Nat
      /\ Len(u) + Len(rhs) <= Len(v)
      /\ \A j \in 1..Len(rhs) : rhs[j] = v[Len(u) + j]
      /\ \A j \in 1..Len(v) : v[j] = s[j]
  <2>1. Len(s) \in Nat /\ Len(v) \in Nat /\ Len(u) \in Nat /\ Len(rhs) \in Nat
    BY TextLength
  <2>2. \A j \in 1..Len(v) : v[j] = s[0 + j] /\ 0 + j = j
    BY DEF IsWindow
  <2> QED
    BY <2>1, <2>2 DEF IsWindow
<1> SUFFICES ASSUME Len(u) + Len(rhs) > t PROVE FALSE
  BY <1>1
<1>2. i \in 1..Len(rhs) /\ Len(u) + i = t + 1 /\ t + 1 \in 1..Len(v)
  BY <1>1
<1> HIDE DEF i
<1>3. rhs[i] = s[t + 1]
  BY <1>1, <1>2
<1> QED
  BY <1>2, <1>3

LEMMA RuleMoves ==
  ASSUME ExpanderInv, IsAcyclic, QuotesClosed, InPass, NextToken \in Word, IsMacro
  PROVE  /\ RuleOfMacro.macro_rhs \in ClosedText
         /\ \A i \in 1..Len(RuleOfMacro.macro_rhs) : RuleOfMacro.macro_rhs[i] # NextToken
         /\ \A i \in 1..Len(RuleOfMacro.rewrite) : RuleOfMacro.rewrite[i] # NextToken
         /\ \A i \in 1..(Len(RuleOfMacro.rewrite) - 1) :
              RuleOfMacro.rewrite[i] \in DOMAIN Placeholder => RuleOfMacro.rewrite[i + 1] # "("
<1> DEFINE n == Upper[NextToken]
           rule == default_value_rules[n]
<1>1. n \in DOMAIN default_value_rules /\ RuleOfMacro = rule
  BY DEF IsMacro, RuleOfMacro
<1>2. TypedRule(rule)
  BY <1>1 DEF ExpanderInv
<1>3. rule.macro_rhs \in ClosedText
  <2>1. rule.macro_rhs \in Text
    BY <1>2 DEF TypedRule, Rule
  <2>2. Open[rule.macro_rhs][Len(rule.macro_rhs)].quote = ""
    BY <1>1, Zenon DEF QuotesClosed
  <2> QED
    BY <2>1, <2>2, Zenon DEF ClosedText, Unquoted
<1> HIDE DEF n
<1>4. n = Upper[NextToken]
  BY DEF n
<1> QED
  BY <1>1, <1>2, <1>3, <1>4, NotMentioned

LEMMA ReplaceNameMoves ==
  ASSUME ExpanderInv, IsAcyclic, QuotesClosed, appended_text \in ClosedText, Behind, ReplaceName
  PROVE  \E n, text : Moves(n, text)
<1> DEFINE rhs == RuleOfMacro.macro_rhs
           u == appended_text
           v == u \o rhs
<1>1. InPass /\ NextToken \in Word /\ IsMacro /\ AppendUpTo(NameEnd, rhs)
  BY DEF ReplaceName
<1>2. /\ text_cit \in Nat /\ macro_text \in Text /\ Len(macro_text) \in Nat
      /\ NameEnd = text_cit + 1 /\ NameEnd <= Len(macro_text)
  BY <1>1, MacroReads
<1>3. /\ rhs \in ClosedText /\ \A i \in 1..Len(rhs) : rhs[i] # macro_text[text_cit + 1]
  BY <1>1, RuleMoves DEF NextToken
<1> HIDE DEF rhs
<1>4. rhs \in Text /\ u \in Text /\ Unquoted(u, Len(u))
  BY <1>3, ClosedFacts
<1>5. /\ v \in Text /\ Len(v) = Len(u) + Len(rhs)
      /\ IsWindow(v, u, 0) /\ IsWindow(v, rhs, Len(u))
  BY <1>4, ConcatText, ConcatWindows
<1> HIDE DEF v
<1>6. ASSUME IsWindow(macro_text, v, 0) PROVE Len(v) <= text_cit
  <2>1. IsWindow(macro_text, u, 0 + 0) /\ 0 + 0 = 0
    BY <1>2, <1>4, <1>5, <1>6, WindowOfWindow
  <2>2. Len(u) <= text_cit
    BY <2>1 DEF Behind
  <2>3. text_cit < Len(macro_text)
    BY <1>2
  <2> QED
    BY <1>2, <1>3, <1>4, <1>5, <1>6, <2>2, <2>3, RhsBehind
<1>7. NameEnd \in (text_cit + 1)..Len(macro_text)
  BY <1>2
<1>8. Moves(NameEnd, rhs)
  BY <1>1, <1>3, <1>6, <1>7 DEF Moves, v
<1> QED
  BY <1>8

LEMMA ReplaceCallMoves ==
  ASSUME ExpanderInv, IsAcyclic, QuotesClosed, appended_text \in ClosedText, Behind, ReplaceCall
  PROVE  \E n, text : Moves(n, text)
<1>0. PICK rewrite \in ReadRewrites(RuleOfMacro.rewrite) :
        Replaces(rewrite, NameEnd + GroupEnd(AfterName))
  BY ReplaceCallBy
<1> DEFINE n == NameEnd + GroupEnd(AfterName)
           rhs == RuleOfMacro.macro_rhs
           made == RewriteMacroArgs[<< rewrite, CallArgs >>]
           text == rhs \o made
           u == appended_text
           v == u \o text
<1>1. /\ InPass /\ NextToken \in Word /\ IsMacro
      /\ IsMacroArgs(AfterName) /\ FitsMacroArgs(rewrite, CallArgs)
      /\ AppendUpTo(n, text)
  BY <1>0 DEF Replaces
<1>2. /\ text_cit \in Nat /\ macro_text \in Text /\ Len(macro_text) \in Nat
      /\ NameEnd = text_cit + 1 /\ NameEnd <= Len(macro_text)
      /\ Unquoted(macro_text, text_cit) /\ Unquoted(macro_text, NameEnd)
      /\ Depth(macro_text, NameEnd) = Depth(macro_text, text_cit)
      /\ TypedRule(RuleOfMacro)
  BY <1>1, MacroReads
<1>3. IsGroup(AfterName)
  BY <1>1 DEF IsMacroArgs, IsGroup
<1>4. /\ AfterName \in Text /\ IsWindow(macro_text, AfterName, NameEnd)
      /\ NameEnd \in Nat /\ NameEnd - text_cit = 1
  <2>1. NameEnd \in Nat /\ NameEnd - text_cit = 1
    BY <1>2
  <2> QED
    BY <1>2, <2>1, SubSeqWindow DEF AfterName
<1>5. n \in (text_cit + 1)..Len(macro_text)
  BY <1>2, <1>3, <1>4, CallGroup
<1>6. /\ CallArgs \in Seq(ArgOf(AfterName)) /\ CallArgs \in Seq(PairedText)
      /\ \A k \in DOMAIN CallArgs : CallArgs[k] # << >>
  <2>1. CallArgs \in Seq(ArgOf(AfterName))
    BY <1>3, <1>4, MacroArgTokensFacts DEF CallArgs
  <2>2. ArgOf(AfterName) \subseteq PairedText
    BY DEF ArgOf
  <2>3. \A k \in DOMAIN CallArgs : CallArgs[k] # << >>
    BY <1>1 DEF IsMacroArgs, CallArgs
  <2> QED
    BY <2>1, <2>2, <2>3
<1>7a. LET written == RuleOfMacro.rewrite
       IN  written \in Text /\ (written # << >> => IsGroup(written))
  BY <1>2 DEF TypedRule, Rule
<1>7. rewrite \in Text /\ (rewrite # << >> => IsGroup(rewrite))
  BY <1>0, <1>7a, ReadRewriteFacts
<1>8. /\ rhs \in ClosedText /\ \A i \in 1..Len(rhs) : rhs[i] # NextToken
      /\ \A i \in 1..Len(rewrite) : rewrite[i] # NextToken
      /\ \A i \in 1..(Len(rewrite) - 1) :
           rewrite[i] \in DOMAIN Placeholder => rewrite[i + 1] # "("
  BY <1>0, <1>1, <1>7a, RuleMoves, ReadRewriteCalls
<1> HIDE DEF n, rhs
<1>9. /\ made \in PairedText
      /\ Len(made) # 0 => made[Len(made)] # NextToken
      /\ OnlyInArgs(made, NextToken, "(", CallArgs)
  <2>1. CASE rewrite = << >>
    <3>1. made = << >>
      <4>1. CallArgs \in Seq(Text)
        BY <1>6 DEF PairedText
      <4> QED
        BY <1>7, <2>1, <4>1, RewriteMacroArgsDef
    <3>2. OnlyInArgs(<< >>, NextToken, "(", CallArgs) /\ Len(<< >>) = 0
      <4>1. \A i \in 2..0 : FALSE
        OBVIOUS
      <4> QED
        BY <4>1, EmptyText, Zenon DEF OnlyInArgs
    <3> QED
      BY <3>1, <3>2, EmptyInPairs
  <2>2. CASE rewrite # << >>
    <3>1. /\ made \in PairedText /\ made[Len(made)] = ")"
          /\ OnlyInArgs(made, NextToken, "(", CallArgs)
      BY <1>1, <1>6, <1>7, <1>8, <2>2, RewriteOnlyInArgs
    <3>2. ")" # NextToken
      BY <1>1, WordTokens
    <3> QED
      BY <3>1, <3>2
  <2> QED
    BY <2>1, <2>2
<1> HIDE DEF made
<1>10. /\ rhs \in Text /\ Unquoted(rhs, Len(rhs)) /\ made \in Text /\ made \in ClosedText
       /\ u \in Text /\ Unquoted(u, Len(u))
  BY <1>8, <1>9, PairedClosed, ClosedFacts
<1>11. /\ text \in ClosedText /\ text \in Text /\ Len(text) = Len(rhs) + Len(made)
       /\ IsWindow(text, rhs, 0) /\ IsWindow(text, made, Len(rhs))
  BY <1>8, <1>10, ConcatText, ConcatWindows, ConcatLiterals
<1> HIDE DEF text
<1>12. /\ v \in Text /\ Len(v) = Len(u) + Len(text)
       /\ IsWindow(v, u, 0) /\ IsWindow(v, text, Len(u))
  BY <1>10, <1>11, ConcatText, ConcatWindows
<1> HIDE DEF v
<1>13. Len(u) \in Nat /\ Len(rhs) \in Nat /\ Len(made) \in Nat
  BY <1>10, TextLength
<1>14. IsWindow(v, rhs, Len(u)) /\ IsWindow(v, made, Len(u) + Len(rhs))
  <2>1. IsWindow(v, rhs, Len(u) + 0) /\ Len(u) + 0 = Len(u)
    BY <1>10, <1>11, <1>12, <1>13, WindowOfWindow
  <2> QED
    BY <1>10, <1>11, <1>12, <2>1, WindowOfWindow
<1>15. ASSUME IsWindow(macro_text, v, 0) PROVE Len(v) <= text_cit
  <2> DEFINE q == Len(u) + Len(rhs)
  <2>1. IsWindow(macro_text, u, 0 + 0) /\ 0 + 0 = 0
    BY <1>2, <1>10, <1>12, <1>15, WindowOfWindow
  <2>2. Len(u) <= text_cit
    BY <2>1 DEF Behind
  <2>3. q <= text_cit
    <3>1. text_cit < Len(macro_text)
      BY <1>2
    <3>2. \A i \in 1..Len(rhs) : rhs[i] # macro_text[text_cit + 1]
      BY <1>8 DEF NextToken
    <3> QED
      BY <1>2, <1>10, <1>12, <1>14, <1>15, <2>2, <3>1, <3>2, RhsBehind
  <2>4. q \in Nat /\ Len(v) = q + Len(made) /\ IsWindow(v, made, q)
    BY <1>11, <1>12, <1>13, <1>14
  <2>5. NextToken = macro_text[NameEnd]
    BY <1>2 DEF NextToken
  <2> HIDE DEF q
  <2>6. /\ Len(made) # 0 => made[Len(made)] # macro_text[NameEnd]
        /\ OnlyInArgs(made, macro_text[NameEnd], "(", CallArgs)
    BY <1>9, <2>5
  <2> QED
    BY <1>2, <1>3, <1>4, <1>6, <1>10, <1>12, <1>15, <2>3, <2>4, <2>6, NotPutBack
<1>16. Moves(n, text)
  BY <1>1, <1>5, <1>11, <1>15 DEF Moves, v
<1> QED
  BY <1>16

\* Taking the parentheses away loses no macro.
LEMMA StrippedMacros ==
  ASSUME NEW d \in Text, NEW s, NEW k, StrippedBy(d, s, k), Macros(s) = {}
  PROVE  Macros(d) = {}
<1> SUFFICES ASSUME NEW i, i \in Macros(d) PROVE FALSE
  OBVIOUS
<1> DEFINE t == i - k
<1>0. /\ s \in Text /\ Len(d) \in Nat /\ Len(s) \in Nat /\ k \in Nat
      /\ Len(s) = Len(d) - 2 * k
      /\ \A j \in 1..k : d[j] = "(" /\ d[Len(d) + 1 - j] = ")"
      /\ \A j \in 1..Len(s) : s[j] = d[j + k]
  <2>1. Len(d) \in Nat
    BY TextLength
  <2>2. s \in Text /\ k \in 0..Len(d) /\ Len(s) = Len(d) - 2 * k
    BY DEF StrippedBy
  <2>3. Len(s) \in Nat
    BY <2>2, TextLength
  <2> QED
    BY <2>1, <2>2, <2>3 DEF StrippedBy, Strippable
<1>1. /\ i \in 1..Len(d) /\ Unquoted(d, i - 1) /\ Unquoted(d, i)
      /\ d[i] \in Word /\ Upper[d[i]] \in DOMAIN default_value_rules
      /\ \A j \in 1..(i - 1) : d[j] \in Word => \E q \in j..i : d[q] \notin Word \cup Cont
      /\ i < Len(d) => d[i + 1] \notin Word \cup Cont
  BY MacroFacts
<1>2. i > k
  <2>1. i \notin 1..k
    BY <1>0, <1>1, WordTokens
  <2> QED
    BY <1>0, <1>1, <2>1
<1>3. i <= Len(d) - k
  <2> SUFFICES ASSUME i > Len(d) - k PROVE FALSE
    BY <1>0, <1>1
  <2>1. (Len(d) + 1) - i \in 1..k /\ Len(d) + 1 - ((Len(d) + 1) - i) = i
    BY <1>0, <1>1
  <2>2. d[i] = ")"
    BY <1>0, <2>1
  <2> QED
    BY <1>1, <2>2, WordTokens
<1>4. /\ t \in 1..Len(s) /\ t + k = i /\ t \in 0..Len(s) /\ t - 1 \in 0..Len(s)
      /\ (t - 1) + k = i - 1 /\ t \in Nat
  BY <1>0, <1>1, <1>2, <1>3
<1> HIDE DEF t
<1>5. t \in Unmasked(s)
  <2>1. Unquoted(s, t - 1) /\ Unquoted(s, t)
    BY <1>1, <1>4, QuotesOfStripped
  <2> QED
    BY <1>0, <1>4, <2>1, UnmaskedFacts
<1>6. s[t] \in Word /\ Upper[s[t]] \in DOMAIN default_value_rules
  BY <1>0, <1>1, <1>4
<1>7. ASSUME NEW j \in 1..(t - 1), s[j] \in Word
      PROVE  \E q \in j..t : s[q] \notin Word \cup Cont
  <2>1. j \in 1..Len(s) /\ j + k \in 1..(i - 1)
    BY <1>0, <1>4
  <2>2. d[j + k] \in Word
    BY <1>0, <1>7, <2>1
  <2>3. PICK q \in (j + k)..i : d[q] \notin Word \cup Cont
    BY <1>1, <2>1, <2>2
  <2>4. q - k \in j..t /\ q - k \in 1..Len(s) /\ (q - k) + k = q
    BY <1>0, <1>4, <2>1, <2>3
  <2>5. s[q - k] = d[q]
    BY <1>0, <2>4
  <2> QED
    BY <2>3, <2>4, <2>5
<1>8. ASSUME t < Len(s) PROVE s[t + 1] \notin Word \cup Cont
  <2>1. t + 1 \in 1..Len(s) /\ (t + 1) + k = i + 1 /\ i < Len(d)
    BY <1>0, <1>4, <1>8
  <2>2. s[t + 1] = d[i + 1]
    BY <1>0, <2>1
  <2> QED
    BY <1>1, <2>1, <2>2
<1>9. t \in Macros(s)
  BY <1>5, <1>6, <1>7, <1>8, Zenon DEF Macros
<1> QED
  BY <1>9

LEMMA EmptyMacros == Macros(<< >>) = {}
<1> SUFFICES ASSUME NEW i, i \in Macros(<< >>) PROVE FALSE
  OBVIOUS
<1>1. i \in 1..Len(<< >>)
  BY EmptyText, MacroFacts
<1> QED
  BY <1>1, EmptyText

LEMMA SameRules ==
  ASSUME default_value_rules' = default_value_rules
  PROVE  /\ IsAcyclic' <=> IsAcyclic
         /\ QuotesClosed' <=> QuotesClosed
<1>1. QuotesClosed' <=> QuotesClosed
  BY DEF QuotesClosed
<1>2. IsAcyclic' <=> IsAcyclic
  BY DEF IsAcyclic, Mentions
<1> QED
  BY <1>1, <1>2

\* HasRead(s, u, t): unless u has gone another way than s, it is what has been
\* read of s, up to t and without a macro, or behind that.
HasRead(s, u, t) ==
  /\ u \in ClosedText
  /\ IsWindow(s, u, 0) =>
       \/ u = SubSeq(s, 1, t) /\ \A i \in Macros(s) : i > t
       \/ Len(u) < t

LEMMA NothingRead ==
  ASSUME NEW s \in Text
  PROVE  HasRead(s, << >>, 0)
<1>1. << >> \in ClosedText
  BY EmptyLiterals
<1>2. SubSeq(s, 1, 0) = << >>
  BY DEF Text
<1>3. \A i \in Macros(s) : i > 0
  BY MacroFacts, TextLength
<1> QED
  BY <1>1, <1>2, <1>3 DEF HasRead

LEMMA HasReadLength ==
  ASSUME NEW s \in Text, NEW u, NEW t \in 0..Len(s), HasRead(s, u, t), IsWindow(s, u, 0)
  PROVE  Len(u) <= t
<1>1. Len(s) \in Nat /\ Len(u) \in Nat
  BY TextLength, ClosedFacts DEF HasRead
<1>2. CASE u = SubSeq(s, 1, t)
  <2>1. Len(SubSeq(s, 1, t)) = t
    <3>1. s \in Seq(Token)
      BY DEF Text
    <3> QED
      BY <1>1, <3>1
  <2> QED
    BY <1>1, <1>2, <2>1
<1>3. CASE Len(u) < t
  BY <1>1, <1>3
<1> QED
  BY <1>2, <1>3 DEF HasRead

LEMMA HasReadMore ==
  ASSUME NEW s \in Text, NEW t \in 0..Len(s), NEW u, HasRead(s, u, t),
         NEW n \in (t + 1)..Len(s), NEW text \in ClosedText,
         \/ /\ text = SubSeq(s, t + 1, n)
            /\ \A i \in (t + 1)..n : i \notin Macros(s)
         \/ IsWindow(s, u \o text, 0) => Len(u \o text) <= t
  PROVE  HasRead(s, u \o text, n)
<1> DEFINE v == u \o text
<1>1. /\ Len(s) \in Nat /\ t \in Nat /\ n \in Nat /\ t <= n /\ t < n /\ n <= Len(s)
      /\ u \in ClosedText /\ u \in Text /\ Len(u) \in Nat /\ text \in Text /\ Len(text) \in Nat
  BY TextLength, ClosedFacts DEF HasRead
<1>2. /\ v \in Text /\ v \in ClosedText /\ Len(v) = Len(u) + Len(text) /\ Len(v) \in Nat
      /\ IsWindow(v, u, 0)
  BY <1>1, ConcatText, ConcatWindows, ConcatLiterals, TextLength
<1>3. SUFFICES ASSUME IsWindow(s, v, 0)
               PROVE  \/ v = SubSeq(s, 1, n) /\ \A i \in Macros(s) : i > n
                      \/ Len(v) < n
  BY <1>2 DEF HasRead
<1>4. CASE IsWindow(s, v, 0) => Len(v) <= t
  <2>1. Len(v) <= t
    BY <1>3, <1>4
  <2> HIDE DEF v
  <2> QED
    BY <1>1, <1>2, <2>1
<1>5. CASE /\ text = SubSeq(s, t + 1, n)
           /\ \A i \in (t + 1)..n : i \notin Macros(s)
  <2>1. IsWindow(s, u, 0)
    <3> HIDE DEF v
    <3>1. IsWindow(s, u, 0 + 0) /\ 0 + 0 = 0
      BY <1>1, <1>2, <1>3, WindowOfWindow
    <3> QED
      BY <3>1
  <2>2. CASE u = SubSeq(s, 1, t) /\ \A i \in Macros(s) : i > t
    <3>1. v = SubSeq(s, 1, n)
      BY <1>1, <1>5, <2>2, CopyMore
    <3>2. ASSUME NEW i \in Macros(s) PROVE i > n
      <4>1. i \in 1..Len(s) /\ i > t /\ i \notin (t + 1)..n
        BY <1>5, <2>2, MacroFacts
      <4> QED
        BY <1>1, <4>1
    <3> QED
      BY <3>1, <3>2
  <2>3. CASE Len(u) < t
    <3>1. Len(text) = n - t
      BY <1>1, <1>5, SubSeqText
    <3> HIDE DEF v
    <3> QED
      BY <1>1, <1>2, <2>3, <3>1
  <2> QED
    BY <2>1, <2>2, <2>3 DEF HasRead
<1> QED
  BY <1>4, <1>5, Zenon

\* A pass that ends with the text that it began with.
LEMMA NothingFound ==
  ASSUME NEW s \in Text, HasRead(s, s, Len(s))
  PROVE  Macros(s) = {}
<1>1. Len(s) \in Nat
  BY TextLength
<1>2. IsWindow(s, s, 0)
  <2>1. \A j \in 1..Len(s) : 0 + j = j
    BY <1>1
  <2>2. 0 \in Nat /\ 0 + Len(s) <= Len(s)
    BY <1>1
  <2> QED
    BY <2>1, <2>2, UnquotedFirst DEF IsWindow
<1>3. \A i \in Macros(s) : i > Len(s)
  BY <1>1, <1>2 DEF HasRead
<1>4. ASSUME NEW i \in Macros(s) PROVE FALSE
  <2>1. i \in 1..Len(s)
    BY MacroFacts
  <2> QED
    BY <1>1, <1>3, <2>1
<1> QED
  BY <1>4

\* A text that is to be read in full without a change is the default value,
\* or has been changed by an earlier pass.
LeftInv ==
  /\ expansion = "pass" /\ IsAcyclic /\ QuotesClosed =>
       HasRead(macro_text, appended_text, text_cit)
  /\ expansion = "pass" /\ ~expanded =>
       /\ old_default_value \in DefaultValue
       /\ macro_text = Stripped(old_default_value)
  /\ NoMacroLeft

LEMMA ExpanderMoves ==
  ASSUME ExpanderInv, IsAcyclic, QuotesClosed,
         HasRead(macro_text, appended_text, text_cit),
         CopyToken \/ CopyQuoted \/ CopyName \/ ReplaceName \/ ReplaceCall
  PROVE  \E n, text : Moves(n, text)
<1>1. macro_text \in Text /\ text_cit \in 0..Len(macro_text) /\ appended_text \in ClosedText
  BY DEF ExpanderInv, ExpanderTypeOK, HasRead
<1>2. Behind
  BY <1>1, HasReadLength DEF Behind
<1> QED
  BY <1>1, <1>2, CopyMoves, ReplaceNameMoves, ReplaceCallMoves

LEMMA EndPassLeft ==
  ASSUME ExpanderInv, LeftInv, IsAcyclic, QuotesClosed, EndPass
  PROVE  \/ expansion' = "done" /\ Macros(default_value') = {}
         \/ /\ expansion' = "pass" /\ expanded' = TRUE
            /\ HasRead(macro_text', appended_text', text_cit')
<1>1. /\ macro_text \in Text /\ appended_text \in Text
      /\ HasRead(macro_text, appended_text, text_cit)
      /\ ~expanded => /\ old_default_value \in DefaultValue
                      /\ macro_text = Stripped(old_default_value)
  BY DEF ExpanderInv, ExpanderTypeOK, LeftInv, EndPass
<1>2. CASE /\ appended_text = macro_text /\ expansion' = "done"
           /\ default_value' = IF expanded THEN macro_text ELSE old_default_value
  <2>1. text_cit = Len(macro_text)
    BY DEF EndPass
  <2>2. Macros(macro_text) = {}
    BY <1>1, <1>2, <2>1, NothingFound
  <2>3. CASE expanded
    BY <1>2, <2>2, <2>3
  <2>4. CASE ~expanded
    <3>1. /\ old_default_value \in Text /\ Macros(Stripped(old_default_value)) = {}
          /\ default_value' = old_default_value
      BY <1>1, <1>2, <2>2, <2>4, DefaultValueIsText
    <3>2. PICK k : StrippedBy(old_default_value, Stripped(old_default_value), k)
      BY <3>1, StrippedText
    <3>3. Macros(old_default_value) = {}
      BY <3>1, <3>2, StrippedMacros
    <3> QED
      BY <1>2, <3>1, <3>3
  <2> QED
    BY <2>3, <2>4
<1>3. CASE expansion' = "done" /\ default_value' = << >>
  BY <1>3, EmptyMacros
<1>4. CASE /\ expansion' = "pass" /\ expanded' = TRUE /\ macro_text' = appended_text
           /\ text_cit' = 0 /\ appended_text' = << >>
  <2>1. HasRead(appended_text, << >>, 0)
    BY <1>1, NothingRead
  <2> QED
    BY <1>4, <2>1
<1> QED
  BY <1>2, <1>3, <1>4, Zenon DEF EndPass

LEMMA LeftInvStep ==
  ReaderInv /\ ExpanderInv /\ LeftInv /\ [Next]_vars => LeftInv'
<1> SUFFICES ASSUME ReaderInv, ExpanderInv, LeftInv, [Next]_vars PROVE LeftInv'
  OBVIOUS
<1>1. CASE \/ ReadDatatypeRule \/ RefuseDatatypeRule
           \/ ReadDefaultValueRule \/ RefuseDefaultValueRule \/ EndOfArray
  <2>1. stage \in Array
    BY <1>1 DEF ReadDatatypeRule, RefuseDatatypeRule, ReadDefaultValueRule,
                RefuseDefaultValueRule, EndOfArray, IsAtElement, Array
  <2>2. expansion' = expansion
    BY <1>1 DEF ReadDatatypeRule, RefuseDatatypeRule, ReadDefaultValueRule,
                RefuseDefaultValueRule, EndOfArray, EndWith, expanderVars
  <2>3. expansion' = "idle"
    BY <2>1, <2>2 DEF ExpanderInv, Array
  <2> QED
    BY <2>3 DEF LeftInv, NoMacroLeft
<1>2. CASE TranslateDefaultValue
  <2>1. PICK d \in DefaultValue : BeginDefaultValue(d)
    BY <1>2 DEF TranslateDefaultValue
  <2>2. /\ expansion' = "pass" /\ old_default_value' = d /\ macro_text' = Stripped(d)
        /\ text_cit' = 0 /\ appended_text' = << >>
        /\ UNCHANGED default_value_rules
    BY <1>2, <2>1, Zenon DEF TranslateDefaultValue, BeginDefaultValue, readerVars
  <2>3. HasRead(Stripped(d), << >>, 0)
    BY DefaultValueIsText, NothingRead
  <2>4. HasRead(macro_text, appended_text, text_cit)'
    BY <2>2, <2>3 DEF HasRead, Macros
  <2> QED
    BY <2>2, <2>4 DEF LeftInv, NoMacroLeft
<1>3. CASE ExpandMacros
  <2>1. /\ expansion = "pass" /\ UNCHANGED << default_value_rules, old_default_value >>
    BY <1>3 DEF ExpandMacros, ExpandDefaultValue, CopyToken, CopyQuoted, UnterminatedQuote,
                CopyName, ReplaceName, ReplaceCall, AppendRewritten, IllegalCall, EndPass, InPass,
                CopyUpTo, AppendUpTo, EndExpansion
  <2>2. (IsAcyclic' <=> IsAcyclic) /\ (QuotesClosed' <=> QuotesClosed)
    BY <2>1, SameRules
  <2>3. CASE UnterminatedQuote \/ IllegalCall
    <3>1. expansion' \in {"threw", "assert_failed"}
      BY <2>3 DEF UnterminatedQuote, IllegalCall, EndExpansion
    <3> QED
      BY <3>1 DEF LeftInv, NoMacroLeft
  <2>4. expansion' = "pass" /\ ~expanded' =>
          /\ old_default_value' \in DefaultValue
          /\ macro_text' = Stripped(old_default_value')
    BY <1>3, <2>1 DEF LeftInv, ExpandMacros, ExpandDefaultValue, CopyToken, CopyQuoted,
         UnterminatedQuote, CopyName, ReplaceName, ReplaceCall, AppendRewritten, IllegalCall, EndPass,
         CopyUpTo, AppendUpTo, EndExpansion, passVars
  <2>5. CASE ~(IsAcyclic /\ QuotesClosed)
    BY <2>2, <2>4, <2>5 DEF LeftInv, NoMacroLeft
  <2>6. CASE IsAcyclic /\ QuotesClosed
    <3>1. ASSUME NEW n, NEW text, Moves(n, text) PROVE LeftInv'
      <4>1. /\ n \in (text_cit + 1)..Len(macro_text) /\ text \in ClosedText
            /\ text_cit' = n /\ appended_text' = appended_text \o text
            /\ UNCHANGED << expansion, macro_text >>
            /\ \/ /\ text = SubSeq(macro_text, text_cit + 1, n)
                  /\ \A i \in (text_cit + 1)..n : i \notin Macros(macro_text)
               \/ IsWindow(macro_text, appended_text \o text, 0)
                    => Len(appended_text \o text) <= text_cit
        BY <3>1 DEF Moves, AppendUpTo
      <4>2. /\ macro_text \in Text /\ text_cit \in 0..Len(macro_text)
            /\ HasRead(macro_text, appended_text, text_cit)
        BY <2>1, <2>6 DEF LeftInv, ExpanderInv, ExpanderTypeOK
      <4>3. HasRead(macro_text, appended_text \o text, n)
        BY <4>1, <4>2, HasReadMore
      <4>4. HasRead(macro_text, appended_text, text_cit)'
        BY <2>1, <4>1, <4>3 DEF HasRead, Macros
      <4> QED
        BY <2>1, <2>4, <4>1, <4>4 DEF LeftInv, NoMacroLeft
    <3>2. CASE EndPass
      <4>1. CASE expansion' = "done" /\ Macros(default_value') = {}
        <5>1. Macros(default_value)' = {}
          BY <2>1, <4>1 DEF Macros
        <5> QED
          BY <4>1, <5>1 DEF LeftInv, NoMacroLeft
      <4>2. CASE expansion' = "pass" /\ HasRead(macro_text', appended_text', text_cit')
        <5>1. HasRead(macro_text, appended_text, text_cit)'
          BY <2>1, <4>2 DEF HasRead, Macros
        <5> QED
          BY <2>4, <4>2, <5>1 DEF LeftInv, NoMacroLeft
      <4> QED
        BY <2>6, <3>2, <4>1, <4>2, EndPassLeft
    <3>3. CASE CopyToken \/ CopyQuoted \/ CopyName \/ ReplaceName \/ ReplaceCall
      <4>1. HasRead(macro_text, appended_text, text_cit)
        BY <2>1, <2>6 DEF LeftInv
      <4> QED
        BY <2>6, <3>1, <3>3, <4>1, ExpanderMoves
    <3> QED
      BY <1>3, <2>3, <3>2, <3>3 DEF ExpandMacros, ExpandDefaultValue
  <2> QED
    BY <2>5, <2>6
<1>4. CASE UNCHANGED vars
  <2>1. UNCHANGED << default_value_rules, expansion, old_default_value, macro_text, text_cit,
                     appended_text, expanded, default_value >>
    BY <1>4 DEF vars, readerVars, expanderVars, passVars
  <2>2. (IsAcyclic' <=> IsAcyclic) /\ (QuotesClosed' <=> QuotesClosed)
    BY <2>1, SameRules
  <2>3. HasRead(macro_text, appended_text, text_cit)' <=>
          HasRead(macro_text, appended_text, text_cit)
    BY <2>1 DEF HasRead, Macros
  <2>4. Macros(default_value)' = Macros(default_value)
    BY <2>1 DEF Macros
  <2> QED
    BY <2>1, <2>2, <2>3, <2>4 DEF LeftInv, NoMacroLeft
<1> QED
  BY <1>1, <1>2, <1>3, <1>4 DEF Next

(***************************************************************************)
(* For preferences and default values of any size: a translated default    *)
(* value has no macro left in it, through any number of passes, if rules   *)
(* don't lead back to themselves, make no call of an argument and leave no *)
(* quote open (expand_all_macros, expand_default_value_macro).             *)
(***************************************************************************)
THEOREM NoMacroLeftCorrect == Spec => []NoMacroLeft
<1>1. Init => LeftInv
  BY DEF Init, ExpanderInit, LeftInv, NoMacroLeft
<1>2. LeftInv => NoMacroLeft
  BY DEF LeftInv
<1> QED
  BY <1>1, <1>2, ReaderInvCorrect, ExpanderInvCorrect, LeftInvStep, PTL DEF Spec
===============================================================================
