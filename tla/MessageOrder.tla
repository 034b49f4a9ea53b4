----------------------------- MODULE MessageOrder -----------------------------
(***************************************************************************)
(* The order in which a script lists its messages                          *)
(* (ddl_stnames_migration_msg::operator<): by level, by what they are      *)
(* about, and by their texts.  To a message of a batch, the name of its    *)
(* source file has been appended; such messages come before one with the   *)
(* same text and no file.                                                  *)
(***************************************************************************)
EXTENDS Naturals

\* The level, errors first; the line, table and column it is about, as their
\* place in the order of those; the place of the text before a suffix in the
\* order of texts, none of which begins with another; and the place of the
\* file in the suffix, or 0.
OrderedMsg == [level : Nat, about : Nat, text : Nat, file : Nat]

\* How messages compare that differ in their texts only.

\* Bug: a text that the other begins with is less than the other.
TextBeforeLonger(m, n) ==
  \/ m.text = n.text /\ m.file # 0 /\ n.file = 0
  \/ m.text = n.text /\ m.file < n.file
  \/ m.text # n.text /\ m.file # 0 /\ n.file = 0
  \/ m.text < n.text

TextBefore(m, n) ==
  \/ m.text = n.text /\ m.file # 0 /\ n.file = 0
  \/ m.text = n.text /\ m.file # 0 /\ n.file # 0 /\ m.file < n.file
  \/ m.text # n.text /\ m.file # 0 /\ n.file = 0
  \/ m.text < n.text

Less(m, n) ==
  \/ m.level < n.level
  \/ m.level = n.level /\ m.about < n.about
  \/ m.level = n.level /\ m.about = n.about /\ TextBefore(m, n)

\* What std::sort relies on.
IsStrictWeakOrder(msgs) ==
  \A m, n, o \in msgs :
    /\ ~(Less(m, n) /\ Less(n, m))
    /\ Less(m, n) /\ Less(n, o) => Less(m, o)
    /\ ~Less(m, n) /\ ~Less(n, m) /\ ~Less(n, o) /\ ~Less(o, n) => ~Less(m, o)
===============================================================================
