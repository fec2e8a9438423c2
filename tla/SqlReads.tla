------------------------------- MODULE SqlReads -------------------------------
(* internal/sqlclass: whether a query only reads (IsReadOnly), over the scanner  *)
(* of SqlClass.                                                                  *)
EXTENDS SqlClass

-----------------------------------------------------------------------------
(* Words and parentheses. *)

\* The position of the next word, or Refusal when something else comes first.
IfWord(s, j) == IF j \in 1..Len(s) /\ s[j] \in Words THEN j ELSE Refusal
WordAt(s, i, d) == IfWord(s, SkipIgnorable(s, i, d))

\* The position behind what the parenthesis at i closes.
SkipBalanced(s, i, d) ==
    LET stop(x) == s[x[1]] = ")" /\ x[2] = 1
        end == Last(Walk([x \in States(s) |->
                            IF stop(x) THEN x
                            ELSE IF s[x[1]] = ";" /\ d = "postgres" THEN <<Refusal, x[2]>>
                            ELSE Step(s, x, d)], <<i, 0>>, Len(s)))
    IN  IF end[1] \in 1..Len(s) THEN end[1] + 1 ELSE Refusal

-----------------------------------------------------------------------------
(* IsReadOnly. *)

\* The words behind which each of these makes a lock clause; LOCK IN is MySQL's.
LockClauses(d) ==
    {<<"for", "share">>, <<"for", "update">>, <<"for", "key", "share">>,
     <<"for", "no", "key", "update">>}
      \cup (IF d = "mysql" THEN {<<"lock", "in", "share", "mode">>} ELSE {})

RECURSIVE Reads(_, _, _, _)
Reads(s, i, words, d) ==
    \/ words = <<>>
    \/ LET j == WordAt(s, i, d)
       IN  j # Refusal /\ s[j] = Head(words) /\ Reads(s, j + 1, Tail(words), d)

\* Mutant: only FOR UPDATE locks.
IsUnsafeLockClause_UpdateOnly(s, i, d) == s[i] = "for" /\ Reads(s, i + 1, <<"update">>, d)

IsUnsafeLockClause(s, i, d) ==
    \E clause \in LockClauses(d) : s[i] = Head(clause) /\ Reads(s, i + 1, Tail(clause), d)

\* What may stand before a parenthesis: syntax, some of it only behind certain words or marks
\* or before a parenthesis that starts with certain words, and known functions.
SyntaxWords ==
    [postgres |-> {"select", "from", "where", "as", "in", "any", "group", "grouping", "order",
                   "by", "cube", "sets", "join", "over", "filter"},
     mysql |-> {"select", "from", "where", "as", "in", "any", "group", "grouping", "order",
                "by", "cube", "join", "over"}]

OnlyAfter ==
    [postgres |-> [by |-> {"group", "order"}, cube |-> {"by"}, sets |-> {"grouping"},
                   over |-> {")"}, filter |-> {")"}],
     mysql |-> [any |-> {"="}]]

OnlyBefore ==
    [postgres |-> [filter |-> {"where"}, join |-> {"select", "values", "with"}],
     mysql |-> <<>>]

\* The word at i before the parenthesis at open, behind the symbol previous.
IsReadOnlySQLSyntax(s, i, previous, open, d) ==
    LET inside == WordAt(s, open + 1, d)
    IN  /\ s[i] \in SyntaxWords[d]
        /\ s[i] \in DOMAIN OnlyAfter[d] => previous \in OnlyAfter[d][s[i]]
        /\ s[i] \in DOMAIN OnlyBefore[d] =>
             inside # Refusal /\ s[inside] \in OnlyBefore[d][s[i]]

KnownFunctions == {"count"}

\* The position behind the name at i, a word or a quoted name that is not empty.
NameEnd(s, i, d) ==
    IF i \notin 1..Len(s) THEN Refusal
    ELSE IF s[i] \in Words THEN i + 1
    ELSE IF s[i] = "dq" \/ (s[i] = "bq" /\ d = "mysql")
    THEN LET end == QuoteEnd(s, i + 1, s[i], IF d = "mysql" THEN "refuse" ELSE "plain")
         IN  IF end = i + 2 THEN Refusal ELSE end
    ELSE Refusal

\* The name at i is this word, in quotes or without.
IsNamed(s, i, word, d) == s[i] = word \/ SubSeq(s, i + 1, NameEnd(s, i, d) - 2) = <<word>>

\* The position behind a dot at dot, else k.
BehindDot(s, k, dot, d) ==
    IF dot \in 1..Len(s) /\ s[dot] = "." THEN SkipIgnorable(s, dot + 1, d) ELSE k

\* The positions of the names that dots join to the one at i.  The last is none when a dot
\* has no name behind it.
Names(s, i, d) ==
    Walk([k \in 1..Len(s) |-> BehindDot(s, k, SkipIgnorable(s, NameEnd(s, k, d), d), d)],
         i, Cardinality({k \in i..Len(s) : s[k] = "."}))

\* Where the scan of those names ends: at a parenthesis when they are called.
BehindNames(s, names, d) == SkipIgnorable(s, NameEnd(s, Last(names), d), d)

IsCall(s, open) == open \in 1..Len(s) /\ s[open] = "("

IsCatalogFunction(s, names, d) ==
    /\ d = "postgres"
    /\ Len(names) = 2
    /\ NameEnd(s, names[2], d) # Refusal
    /\ IsNamed(s, names[1], "pg_catalog", d)
    /\ \E function \in KnownFunctions : IsNamed(s, names[2], function, d)

\* The names joined to the one at i, with open behind them.  PostgreSQL's functions must be
\* qualified and MySQL's must not; a name in quotes that stands alone is no syntax and no
\* known function.
IsUnsafeFunctionCall(s, i, previous, names, open, d) ==
    \/ open = Refusal
    \/ /\ IsCall(s, open)
       /\ ~IsCatalogFunction(s, names, d)
       /\ ~(/\ Len(names) = 1
            /\ \/ IsReadOnlySQLSyntax(s, i, previous, open, d)
               \/ d = "mysql" /\ s[i] \in KnownFunctions)

\* NEXT VALUE FOR and a name's .nextval advance a sequence in MySQL's relatives.
IsUnsafeSequenceConstruct(s, i, names, d) ==
    /\ d = "mysql"
    /\ IF IsNamed(s, i, "next", d) THEN Reads(s, NameEnd(s, i, d), <<"value", "for">>, d)
       ELSE \E k \in 2..Len(names) : /\ NameEnd(s, names[k], d) # Refusal
                                     /\ IsNamed(s, names[k], "nextval", d)

\* U&"..." holds characters that PostgreSQL decodes before it looks a name up.
IsPostgresUnicodeQuotedIdentifier(s, i, d) ==
    d = "postgres" /\ i + 2 <= Len(s) /\ SubSeq(s, i, i + 2) = <<"u", "&", "dq">>

IsUnsafeName(s, i, previous, names, d) ==
    \/ IsUnsafeFunctionCall(s, i, previous, names, BehindNames(s, names, d), d)
    \/ IsUnsafeSequenceConstruct(s, i, names, d)

\* In MySQL an empty "" is a string; in double quotes anything else may be a name there too.
IsUnsafeElement(s, i, previous, name, d) ==
    \/ s[i] = "bq" /\ ~name
    \/ s[i] = "dq" /\ ~name /\ d = "postgres"
    \/ s[i] = ":=" /\ d = "mysql"
    \/ s[i] \in Words /\ (IsUnsafeLockClause(s, i, d) \/ IsPostgresUnicodeQuotedIdentifier(s, i, d))
    \/ name /\ IsUnsafeName(s, i, previous, Names(s, i, d), d)

\* Behind a known function of the catalog the scan goes on at the parenthesis.
Onward(s, i, names, d) ==
    IF /\ d = "postgres" /\ NameEnd(s, i, d) # Refusal
       /\ IsCatalogFunction(s, names, d) /\ IsCall(s, BehindNames(s, names, d))
    THEN BehindNames(s, names, d) ELSE Past(s, i, d)

\* The symbol before the n-th of the positions at; spaces and comments do not count.
Previous(s, at, n) ==
    LET before == {m \in 1..(n - 1) : s[at[m]] \notin Spaces \cup {"--", "#", "/*", "/*!"}}
    IN  IF before = {} THEN "" ELSE s[at[Max(before)]]

\* One of the positions that the scan goes through is unsafe.
IsUnsafeAmong(s, at, d) ==
    \E n \in DOMAIN at :
        \/ at[n] = Refusal
        \/ /\ at[n] \in 1..Len(s)
           /\ IsUnsafeElement(s, at[n], Previous(s, at, n), NameEnd(s, at[n], d) # Refusal, d)

HasUnsafeReadConstruct(s, d) ==
    IsUnsafeAmong(s, Walk([i \in 1..Len(s) |-> Onward(s, i, Names(s, i, d), d)], 1, Len(s)), d)

HasReadSideEffect(s, d) ==
    HasUnsafeReadConstruct(s, d) \/ \E i \in TopLevelWords(s, d) : s[i] = "into"

\* Where the elements of a text start, and where the text or the certainty ends.
Elements(s, d) == ToSet(Walk([i \in 1..Len(s) |-> Past(s, i, d)], 1, Len(s)))

ContainsUnquotedWord(s, word, d) ==
    \E i \in Elements(s, d) : i = Refusal \/ (i \in 1..Len(s) /\ s[i] = word)

Rest(s, i) == SubSeq(s, i, Len(s))

\* One operator per kind of statement, each reading the text from position i on.
RECURSIVE IsReadOnly(_, _), BodyReads(_, _), IsReadOnlyExplain(_, _, _), IsReadOnlyWith(_, _, _)

BodyReads(body, d) == IsReadOnly(body, d)

\* EXPLAIN's options, then the statement it explains; ANALYZE would execute that.
IsReadOnlyExplain(s, i, d) ==
    LET j == WordAt(s, i, d)
    IN  /\ j # Refusal
        /\ s[j] # "analyze"
        /\ IF s[j] \in {"verbose", "format"}
           THEN LET equals == SkipIgnorable(s, j + 1, d)
                    assigned == equals \in 1..Len(s) /\ s[equals] = "="
                    value == WordAt(s, IF assigned THEN equals + 1 ELSE equals, d)
                IN  IF s[j] = "verbose" THEN IsReadOnlyExplain(s, j + 1, d)
                    ELSE value # Refusal /\ IsReadOnlyExplain(s, value + 1, d)
           ELSE IsReadOnly(Rest(s, j), d)

ExplainReads(s, i, d) ==
    LET open == SkipIgnorable(s, i, d)
        close == SkipBalanced(s, open, d)
    IN  IF open # Refusal /\ open <= Len(s) /\ s[open] = "("
        THEN /\ close # Refusal
             /\ ~ContainsUnquotedWord(SubSeq(s, open + 1, close - 2), "analyze", d)
             /\ IsReadOnlyExplain(s, close, d)
        ELSE IsReadOnlyExplain(s, i, d)

\* The position behind a name as it may stand behind WITH: a word, or quoted as the dialect
\* quotes names.
SkipIdentifier(s, i, d) ==
    LET j == SkipIgnorable(s, i, d)
    IN  IF j \notin 1..Len(s) THEN Refusal
        ELSE IF s[j] = (IF d = "mysql" THEN "bq" ELSE "dq") THEN SkipQuoted(s, j, d)
        ELSE IF s[j] \in Words THEN j + 1 ELSE Refusal

\* The position behind the columns that open at i, if any do.
SkipColumns(s, i, d) ==
    IF i \in 1..Len(s) /\ s[i] = "(" THEN SkipBalanced(s, i, d) ELSE i

\* name [(columns)] AS (body), any number of them, then the statement itself.
IsReadOnlyWith(s, i, d) ==
    LET name == SkipIdentifier(s, i, d)
        named == SkipColumns(s, SkipIgnorable(s, name, d), d)
        as == WordAt(s, named, d)
        open == SkipIgnorable(s, as + 1, d)
        close == SkipBalanced(s, open, d)
        next == SkipIgnorable(s, close, d)
    IN  /\ name # Refusal /\ named # Refusal
        /\ as # Refusal /\ s[as] = "as"
        /\ open # Refusal /\ open <= Len(s) /\ s[open] = "("
        /\ close # Refusal
        /\ BodyReads(SubSeq(s, open + 1, close - 2), d)
        /\ next # Refusal
        /\ IF next <= Len(s) /\ s[next] = "," THEN IsReadOnlyWith(s, next + 1, d)
           ELSE IsReadOnly(Rest(s, next), d)

IsReadOnly(s, d) ==
    LET i == WordAt(s, 1, d)
        next == WordAt(s, i + 1, d)
    IN  /\ IsSingleWellFormedStatement(s, d)
        /\ i # Refusal
        /\ CASE s[i] \in {"select", "show", "describe"} ->
                  /\ s[i] = "describe" =>
                       /\ SkipIgnorable(s, i + 1, d) \in 1..Len(s)
                       /\ ~(next # Refusal /\ s[next] = "analyze")
                  /\ ~HasReadSideEffect(s, d)
             [] s[i] = "explain" -> ExplainReads(s, i + 1, d)
             [] s[i] = "with" ->
                  IsReadOnlyWith(s, IF next # Refusal /\ s[next] = "recursive" THEN next + 1
                                    ELSE i + 1, d)
             [] OTHER -> FALSE

-----------------------------------------------------------------------------
(* Properties. *)

\* The text, with the names that the statement writes in quotes.
ReadText ==
    FlattenSeq([i \in DOMAIN tokens |->
                  Append(IF tokens[i][1] \in DOMAIN statement.written /\ Len(tokens[i]) = 1
                         THEN statement.written[tokens[i][1]] ELSE tokens[i], "sp")])

\* query and explain accept a statement only if it was written as a single read of the
\* dialect, and comments between its tokens never make them refuse one.
ReadsAreReads ==
    LET text == ReadText
        accepted == IsReadOnly(text, dialect) /\ ~HasMultipleStatements(text, dialect)
        isRead == dialect \in statement.reads /\ statement.count = 1
    IN  /\ accepted => isRead
        /\ isRead /\ (\A noise \in added : IsComment(noise)) => accepted
=============================================================================
