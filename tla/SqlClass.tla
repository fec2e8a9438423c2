------------------------------- MODULE SqlClass -------------------------------
(***************************************************************************)
(* internal/sqlclass: the scanner that every decision about the text of a  *)
(* statement rests on, and what a data exec statement is (ClassifyDML),    *)
(* against statements whose meaning is known because they are built here,  *)
(* token by token.                                                         *)
(*                                                                         *)
(* A text is a sequence of symbols.  A word is one symbol; so are spaces,  *)
(* line ends, the marks "--", "/*", "*/", "/*!", the quotes ("sq", "dq",   *)
(* "bq"), the backslash ("bs") and the delimiters of PostgreSQL's dollar   *)
(* quotes.  Tokens are separated by spaces.  A word is never part of a     *)
(* longer name: topLevelWords reads the keyword out of "@where" (and out   *)
(* of "$where" where no dollar quote opens), which no text here contains.  *)
(***************************************************************************)
EXTENDS Integers, SequencesExt

CONSTANTS
    Statements,  \* statements and their meaning: [tokens, kind, hasWhere, count; for SqlReads
                 \* reads and written; maxNoise, the bound on the tokens added to it]
    Noise        \* per dialect, the tokens that leave a statement's meaning alone

Dialects == {"mysql", "postgres"}
Words ==
    {"insert", "into", "values", "update", "set", "delete", "from", "where", "select",
     "show", "describe", "with", "recursive", "as", "explain", "analyze", "verbose",
     "format", "for", "key", "no", "share", "lock", "in", "mode", "next", "value", "group",
     "order", "by", "grouping", "sets", "cube", "join", "any", "over", "filter", "count",
     "nextval", "pg_catalog", "seq", "t", "a", "E", "u"}

VARIABLES dialect, statement, tokens, added

vars == <<dialect, statement, tokens, added>>

-----------------------------------------------------------------------------
(* sqlScanner.  A position behind the text ends a scan; 0 is the refusal of  *)
(* text that cannot be read with certainty.                                  *)

Refusal == 0
Behind(s) == Len(s) + 1
Spaces == {"sp", "nl"}

\* The states of a loop that goes from start on by next, until it leaves the domain of next
\* or stays where it is.
Walk(next, start, steps) ==
    LET after[n \in 0..steps] ==
          IF n = 0 THEN <<start>>
          ELSE LET before == after[n - 1]
                   last == Last(before)
                   state == IF last \in DOMAIN next THEN next[last] ELSE last
               IN  IF state = last THEN before ELSE Append(before, state)
    IN  after[steps]

\* What a backslash means in the quotes that open at i: MySQL's depends on the SQL mode
\* and PostgreSQL's in a plain string on a setting, so that both are refused.
Backslash(s, i, d) ==
    IF d = "mysql" THEN "refuse"
    ELSE IF s[i] # "sq" THEN "plain"
    ELSE IF i > 1 /\ s[i - 1] = "E" THEN "escape" ELSE "refuse"

\* A doubled quote is part of what is quoted.
Doubled(s, i, quote) == s[i] = quote /\ i < Len(s) /\ s[i + 1] = quote

InQuotes(s, i, quote, backslash) ==
    IF s[i] = "bs" THEN CASE backslash = "refuse" -> Refusal
                          [] backslash = "escape" -> i + 2
                          [] backslash = "plain" -> i + 1
    ELSE IF Doubled(s, i, quote) THEN i + 2
    ELSE IF s[i] = quote THEN i ELSE i + 1

QuoteEnd(s, i, quote, backslash) ==
    LET end == Last(Walk([k \in 1..Len(s) |-> InQuotes(s, k, quote, backslash)], i,
                         Behind(s) - i))
    IN  IF end \in 1..Len(s) THEN end + 1 ELSE Refusal

\* A backtick quotes nothing in PostgreSQL.
SkipQuoted(s, i, d) ==
    IF d = "postgres" /\ s[i] = "bq" THEN i + 1
    ELSE QuoteEnd(s, i + 1, s[i], Backslash(s, i, d))

Delimiters == {"$$", "$a$"}

HasDollarQuote(s, i) ==
    s[i] \in Delimiters /\ (i = 1 \/ s[i - 1] \in Spaces \cup {"(", ",", ";", "=", ":=", "&"})

SkipDollarQuote(s, i) ==
    LET ends == {j \in (i + 1)..Len(s) : s[j] = s[i]}
    IN  IF ends = {} THEN Refusal ELSE Min(ends) + 1

LineEnd(s, i) ==
    LET ends == {j \in i..Len(s) : s[j] = "nl"}
    IN  IF ends = {} THEN Behind(s) ELSE Min(ends)

\* Mutant: block comments do not nest.
Nests_Never(d) == FALSE

Nests(d) == d = "postgres"

\* A block comment ends where it has been closed once more than it was opened inside.
BlockEnd(s, i, d) ==
    LET opened(j) == {k \in i..j : s[k] \in {"/*", "/*!"} /\ Nests(d)}
        closed(j) == {k \in i..j : s[k] = "*/"}
        ends == {j \in i..Len(s) : s[j] = "*/" /\ Cardinality(closed(j)) > Cardinality(opened(j))}
    IN  IF ends = {} THEN Refusal ELSE Min(ends) + 1

\* The position itself when no comment starts there: "#" is MySQL's only, and MySQL's
\* "--" needs a space behind it.
SkipComment(s, i, d) ==
    CASE s[i] = "#" -> IF d = "mysql" THEN LineEnd(s, i + 1) ELSE i
      [] s[i] = "--" -> IF d = "mysql" /\ i < Len(s) /\ s[i + 1] \notin Spaces THEN i
                        ELSE LineEnd(s, i + 1)
      [] s[i] \in {"/*", "/*!"} -> BlockEnd(s, i + 1, d)
      [] OTHER -> i

\* The position behind the lexical element at i, as every scanner steps over it.
Past(s, i, d) ==
    IF s[i] \in {"sq", "dq", "bq"} THEN SkipQuoted(s, i, d)
    ELSE IF d = "postgres" /\ HasDollarQuote(s, i) THEN SkipDollarQuote(s, i)
    ELSE LET j == SkipComment(s, i, d) IN IF j = i THEN i + 1 ELSE j

SkipIgnorable(s, i, d) ==
    Last(Walk([k \in 1..Len(s) |-> IF s[k] \in Spaces THEN k + 1 ELSE SkipComment(s, k, d)],
              i, Behind(s) - i))

\* What the loops over a statement share: elements are stepped over, and parentheses counted.
\* A state is a position and a depth.
Start == <<1, 0>>

Step(s, x, d) ==
    CASE s[x[1]] = "(" -> <<x[1] + 1, x[2] + 1>>
      [] s[x[1]] = ")" -> <<x[1] + 1, IF x[2] = 0 THEN 0 ELSE x[2] - 1>>
      [] OTHER -> <<Past(s, x[1], d), x[2]>>

States(s) == (1..Len(s)) \X Nat

-----------------------------------------------------------------------------
(* One statement or several. *)

\* In MySQL a semicolon in parentheses separates nothing.
HasMultipleStatements(s, d) ==
    LET separates(x) == s[x[1]] = ";" /\ (d = "postgres" \/ x[2] = 0)
        end == Last(Walk([x \in States(s) |-> IF separates(x) THEN x ELSE Step(s, x, d)],
                         Start, Len(s)))
    IN  \/ end[1] = Refusal
        \/ end[1] \in 1..Len(s) /\ SkipIgnorable(s, end[1] + 1, d) # Behind(s)

\* A backtick in PostgreSQL and a comment MySQL would execute are refused.
Refused(s, x, d) ==
    \/ s[x[1]] = ")" /\ x[2] = 0
    \/ s[x[1]] = "bq" /\ d = "postgres"
    \/ s[x[1]] = "/*!" /\ d = "mysql"

IsSingleWellFormedStatement(s, d) ==
    LET walk == Walk([x \in States(s) |-> IF s[x[1]] = ";" THEN x ELSE Step(s, x, d)],
                     Start, Len(s))
        end == Last(walk)
    IN  /\ \A x \in ToSet(walk) \cap States(s) : ~Refused(s, x, d)
        /\ end[1] # Refusal /\ end[2] = 0
        /\ end[1] \in 1..Len(s) => SkipIgnorable(s, end[1] + 1, d) = Behind(s)

-----------------------------------------------------------------------------
(* ClassifyDML. *)

\* The positions of the words outside parentheses.  Only well-formed texts get here, so that
\* nothing is refused on the way and no depth would be negative.
TopLevelWords(s, d) ==
    {x[1] : x \in {x \in ToSet(Walk([x \in States(s) |-> Step(s, x, d)], Start, Len(s))) :
                     x \in States(s) /\ x[2] = 0 /\ s[x[1]] \in Words}}

Unclassified == [ok |-> FALSE, kind |-> "", hasWhere |-> FALSE]
Classified(kind, hasWhere) == [ok |-> TRUE, kind |-> kind, hasWhere |-> hasWhere]

\* The statement's own keyword comes first and the word it needs behind it; WHERE counts
\* only behind that word.
ClassifyDML(s, d) ==
    LET words == TopLevelWords(s, d)
        first == Min(words)
        found(w, from) == {i \in words : i > from /\ s[i] = w}
        classify(kind, needed) ==
          IF found(needed, first) = {} THEN Unclassified
          ELSE Classified(kind, found("where", Min(found(needed, first))) # {})
    IN  IF ~IsSingleWellFormedStatement(s, d) \/ words = {} THEN Unclassified
        ELSE CASE s[first] = "insert" -> Classified("insert", FALSE)
               [] s[first] = "update" -> classify("update", "set")
               [] s[first] = "delete" -> classify("delete", "from")
               [] OTHER -> Unclassified

-----------------------------------------------------------------------------
(* What statements mean: a symbol per token, so that nothing can hide in one. *)

Kinds == {"insert", "update", "delete"}
Keywords == Kinds \cup {"set", "from", "where"}
Marks == {"(", ")", ",", "=", ";", ".", ":=", "&"}

Depth(symbols, i) ==
    Cardinality({j \in 1..i : symbols[j] = "("}) - Cardinality({j \in 1..i : symbols[j] = ")"})

Balanced(symbols) ==
    /\ \A i \in DOMAIN symbols : Depth(symbols, i) >= 0
    /\ Depth(symbols, Len(symbols)) = 0

\* The words of a text outside its parentheses.
Outer(symbols) == {i \in DOMAIN symbols : symbols[i] \in Words /\ Depth(symbols, i) = 0}

\* A change begins with its keyword; an update sets something, a delete deletes from
\* something, and a WHERE behind that word is the condition.
Needed(kind) == IF kind = "update" THEN "set" ELSE "from"

IsChange(symbols, kind) ==
    /\ \E i \in Outer(symbols) : symbols[i] = kind /\ \A j \in Outer(symbols) : i <= j
    /\ kind # "insert" => \E i \in Outer(symbols) : symbols[i] = Needed(kind)

HasCondition(symbols, kind) ==
    /\ kind # "insert"
    /\ \E i, j \in Outer(symbols) : i < j /\ symbols[i] = Needed(kind) /\ symbols[j] = "where"

Means(st) ==
    LET symbols == [i \in DOMAIN st.tokens |-> st.tokens[i][1]]
    IN  /\ \A i \in DOMAIN st.tokens : st.tokens[i] = <<symbols[i]>>
        /\ Len(symbols) > 0 /\ \A i \in DOMAIN symbols : symbols[i] \in Words \cup Marks
        /\ Balanced(symbols)
        /\ \A i \in DOMAIN symbols : symbols[i] = ";" => Depth(symbols, i) = 0
        /\ st.count = 1 <=> \A i \in DOMAIN symbols : symbols[i] = ";" => i = Len(symbols)
        /\ st.kind \in Kinds \cup {""}
        /\ st.count = 1 => /\ \A kind \in Kinds : st.kind = kind <=> IsChange(symbols, kind)
                           /\ st.kind # "" => st.hasWhere = HasCondition(symbols, st.kind)

-----------------------------------------------------------------------------
(* What may be added without changing the meaning. *)

\* What opens at i and is shown up to position k as the server reads it: a quote only as one
\* of two, a backslash only where it means something, and firsts are the first symbols of two.
Quotes(n, i, k, backslash) ==
    \E firsts \in SUBSET {j \in (i + 1)..k : n[j] \in {n[i], "bs"}} :
        /\ \A j \in firsts :
             /\ j + 1 \in (i + 1)..k /\ j + 1 \notin firsts
             /\ \/ n[j] = n[i] /\ n[j + 1] = n[i]
                \/ n[j] = "bs" /\ backslash = "escape"
        /\ \A j \in (i + 1)..k : j \notin firsts /\ j - 1 \notin firsts =>
             n[j] # n[i] /\ (n[j] = "bs" => backslash = "plain")

Opens(n, i, d) ==
    /\ i = 1 \/ (i = 2 /\ n[1] = "E" /\ n[2] = "sq")
    /\ n[i] \in {"sq", "dq"} \cup (IF d = "mysql" THEN {"bq"} ELSE {})

\* A string, a quoted name, or a PostgreSQL string with escapes.
IsQuoted(n, d) ==
    \E i \in 1..2 : /\ i < Len(n) /\ Opens(n, i, d) /\ n[Len(n)] = n[i]
                    /\ Quotes(n, i, Len(n) - 1, Backslash(n, i, d))

\* A string that the settings of the server decide about.
IsUncertainQuote(n, d) ==
    \E i \in 1..2 : /\ i < Len(n) /\ Opens(n, i, d) /\ Backslash(n, i, d) = "refuse"
                    /\ \E k \in (i + 1)..Len(n) : n[k] = "bs" /\ Quotes(n, i, k - 1, "refuse")

IsDollarQuoted(n, d) ==
    /\ d = "postgres" /\ Len(n) > 1 /\ n[1] \in Delimiters /\ n[Len(n)] = n[1]
    /\ \A i \in 2..(Len(n) - 1) : n[i] # n[1]

IsLineComment(n, d) ==
    /\ Len(n) > 1 /\ n[Len(n)] = "nl" /\ \A i \in 1..(Len(n) - 1) : n[i] # "nl"
    /\ \/ n[1] = "#" /\ d = "mysql"
       \/ n[1] = "--" /\ (d = "mysql" => n[2] \in Spaces)

IsBlockComment(n, d) ==
    LET opened(i) == {k \in 2..i : n[k] \in {"/*", "/*!"} /\ d = "postgres"}
        closed(i) == {k \in 2..i : n[k] = "*/"}
    IN  /\ Len(n) > 1 /\ n[1] = "/*"
        /\ \A i \in 2..Len(n) :
             n[i] = "*/" /\ Cardinality(closed(i)) > Cardinality(opened(i)) <=> i = Len(n)

\* MySQL executes what this comment holds.
IsExecutableComment(n, d) == d = "mysql" /\ n[1] = "/*!"

\* Words, marks and parentheses that are closed; outside them no keyword of a change, and
\* words only if the first is one.  MySQL's "--" is no comment before a word.
IsExpression(n, d) ==
    /\ \A i \in DOMAIN n :
         \/ n[i] \in Words \cup (Marks \ {";"})
         \/ i \in 2..(Len(n) - 1) /\ n[i] = "--" /\ d = "mysql"
    /\ Balanced(n)
    /\ \A i \in Outer(n) : n[i] \notin Keywords /\ n[1] \in Words

Harmless(n, d) ==
    \/ IsQuoted(n, d) \/ IsDollarQuoted(n, d) \/ IsLineComment(n, d) \/ IsBlockComment(n, d)
    \/ IsExpression(n, d)
Uncertain(n, d) == IsUncertainQuote(n, d) \/ IsExecutableComment(n, d)

Symbols ==
    Words \cup Marks \cup Spaces \cup Delimiters
      \cup {"sq", "dq", "bq", "bs", "--", "#", "/*", "/*!", "*/"}

ASSUME TextAssumption ==
    /\ \A st \in Statements : st.tokens \in Seq(Seq(Symbols)) /\ Means(st)
    /\ DOMAIN Noise = Dialects
    /\ \A d \in Dialects : \A n \in Noise[d] :
         n \in Seq(Symbols) /\ Len(n) > 0 /\ (Harmless(n, d) \/ Uncertain(n, d))
    /\ \A st \in Statements : st.reads \subseteq Dialects /\ st.maxNoise \in Nat

-----------------------------------------------------------------------------
(* Statements are written, with noise between their tokens. *)

Init ==
    /\ dialect \in Dialects
    /\ statement \in Statements
    /\ tokens = statement.tokens
    /\ added = {}

IsComment(noise) == noise[1] \in {"--", "#", "/*"}

\* What belongs to the token behind it.
Joined == {"for", "next", "value", "sets", "cube", "any", "over", "count", "nextval",
           "pg_catalog", "seq", "."}

MayStand(noise, i) ==
    \/ IsComment(noise)
    \/ /\ \A k \in 1..(i - 1) : tokens[k] # <<";">>
       /\ \E k \in 0..(i - 1) :
            /\ \A j \in (k + 1)..(i - 1) : IsComment(tokens[j])
            /\ k > 0 => ~IsComment(tokens[k]) /\ tokens[k][1] \notin Joined

\* A literal, a quoted name, a comment or a parenthesis of the dialect; only comments
\* stand behind a semicolon and inside a lock clause, a dotted name or a call.
AddNoise ==
    /\ Cardinality(added) < statement.maxNoise
    /\ \E noise \in Noise[dialect], i \in 1..(Len(tokens) + 1) :
         /\ noise \notin added
         /\ MayStand(noise, i)
         /\ tokens' = InsertAt(tokens, i, noise)
         /\ added' = added \cup {noise}
    /\ UNCHANGED <<dialect, statement>>

Next == AddNoise \/ (Cardinality(added) = statement.maxNoise /\ UNCHANGED vars)

Spec == Init /\ [][Next]_vars

-----------------------------------------------------------------------------
(* Properties. *)

Text == FlattenSeq([i \in DOMAIN tokens |-> Append(tokens[i], "sp")])

\* What the server's settings decide, and what is a word of its own.
Doubtful(noise) == ToSet(noise) \cap {"bs", "/*!"} # {} \/ noise[1] \in Words

\* data exec classifies a statement as what was written: its kind, its WHERE and that it
\* is one statement, whatever its literals, names and comments hold; and it refuses none
\* for them, unless they depend on the settings of the server.
DMLReadAsWritten ==
    LET text == Text
        dml == ClassifyDML(text, dialect)
        accepted == dml.ok /\ ~HasMultipleStatements(text, dialect)
        isDML == statement.kind # "" /\ statement.count = 1
    IN  /\ accepted => isDML /\ dml.kind = statement.kind /\ dml.hasWhere = statement.hasWhere
        /\ isDML /\ (\A noise \in added : ~Doubtful(noise)) => accepted
=============================================================================
