------------------------------ MODULE MCSqlClass ------------------------------
(* The statements and the noise SqlClass is checked with. *)
EXTENDS SqlReads

Tokens(symbols) == [i \in DOMAIN symbols |-> <<symbols[i]>>]

Statement(symbols, kind, hasWhere) ==
    [tokens |-> Tokens(symbols), kind |-> kind, hasWhere |-> hasWhere, count |-> 1,
     reads |-> {}, written |-> <<>>, maxNoise |-> 2]
Read(symbols) == [Statement(symbols, "", FALSE) EXCEPT !.reads = Dialects]
Other(symbols) == Statement(symbols, "", FALSE)
Two(symbols) == [Other(symbols) EXCEPT !.count = 2]

\* A statement that only the dialects given are certain to read with, one token added.
ReadIn(dialects, symbols) == [Other(symbols) EXCEPT !.reads = dialects, !.maxNoise = 1]
WrittenIn(dialects, symbols, written) == [ReadIn(dialects, symbols) EXCEPT !.written = written]

Sequences ==
    {ReadIn({"postgres"}, <<"select", "next", "value", "for", "t">>),
     ReadIn({"postgres"}, <<"select", "seq", ".", "nextval">>),
     WrittenIn({"postgres"}, <<"select", "pg_catalog", ".", "seq", ".", "nextval">>,
               [nextval |-> <<"dq", "nextval", "dq">>]),
     Other(<<"select", "nextval", "(", "a", ")">>),
     ReadIn({}, <<"select", "pg_catalog", ".", "nextval", "(", "a", ")">>)}

Calls ==
    {ReadIn({"postgres"}, <<"select", "pg_catalog", ".", "count", "(", "a", ")", "filter", "(",
                            "where", "a", ")">>),
     WrittenIn({"postgres"}, <<"select", "pg_catalog", ".", "count", "(", "a", ")">>,
               [count |-> <<"dq", "count", "dq">>]),
     ReadIn({}, <<"select", "count", ".", "count", "(", "a", ")">>),
     WrittenIn({}, <<"select", "count", "(", "a", ")">>, [count |-> <<"dq", "count", "dq">>]),
     ReadIn({"mysql"}, <<"select", "count", "(", "a", ")", "over", "(", "a", ")">>),
     WrittenIn({"mysql"}, <<"select", "t", "(", "a", ")">>, [t |-> <<"dq", "dq">>])}

\* Words that are syntax only in some places.
Syntax ==
    {ReadIn({"postgres"}, <<"select", "a", "group", "by", "grouping", "sets", "(", "a", ")">>),
     ReadIn({}, <<"select", "sets", "(", "a", ")">>),
     ReadIn(Dialects, <<"select", "a", "group", "by", "cube", "(", "a", ")">>),
     ReadIn({"mysql"}, <<"select", "cube", "(", "a", ")">>),
     ReadIn({"mysql"}, <<"select", "a", "over", "(", "a", ")">>),
     ReadIn(Dialects, <<"select", "a", "order", "by", "(", "a", ")">>),
     ReadIn(Dialects, <<"select", "a", "=", "any", "(", "select", "a", ")">>),
     ReadIn({"postgres"}, <<"select", "any", "(", "a", ")">>),
     ReadIn(Dialects, <<"select", "a", "from", "t", "join", "(", "select", "a", ")">>)}

QuotedNames ==
    {WrittenIn({"postgres"}, <<"with", "t", "(", "a", ")", "as", "(", "select", "a", ")",
                               "select", "a">>, [t |-> <<"dq", "t", "dq">>]),
     WrittenIn({"mysql"}, <<"with", "t", "as", "(", "select", "a", ")", "select", "a">>,
               [t |-> <<"bq", "t", "bq">>]),
     WrittenIn({"mysql"}, <<"select", "t", "from", "a">>, [t |-> <<"u", "&", "dq", "t", "dq">>]),
     ReadIn({"postgres"}, <<"select", "a", ":=", "a">>)}

MCStatements ==
    Sequences \cup Calls \cup Syntax \cup QuotedNames \cup
    {Statement(<<"update", "t", "set", "a">>, "update", FALSE),
     Statement(<<"update", "t", "set", "a", "where", "a", ";">>, "update", TRUE),
     Statement(<<"delete", "from", "t", "where", "a">>, "delete", TRUE),
     Statement(<<"delete", "from", "t">>, "delete", FALSE),
     Statement(<<"insert", "into", "t", "select", "a", "where", "a">>, "insert", FALSE),
     Two(<<"delete", "from", "t", ";", "select", "a">>),
     Two(<<"select", "a", ";", "delete", "from", "t">>),
     Read(<<"select", "a", "from", "(", "select", "a", ")", "t", ";">>),
     Read(<<"with", "t", "(", "a", ")", "as", "(", "select", "a", ")", "select", "a">>),
     Read(<<"explain", "select", "a">>),
     Read(<<"explain", "(", "verbose", ")", "select", "a">>),
     Read(<<"explain", "format", "t", "select", "a">>),
     ReadIn(Dialects, <<"explain", "format", "=", "t", "select", "a">>),
     Read(<<"describe", "t">>),
     Other(<<"with", "t", "as", "(", "delete", "from", "t", ")", "select", "a">>),
     Other(<<"with", "t", "as", "(", "select", "a", ")", "delete", "from", "t">>),
     Other(<<"explain", "analyze", "select", "a">>),
     Other(<<"explain", "(", "analyze", ")", "select", "a">>),
     Other(<<"select", "a", "into", "t">>),
     Other(<<"select", "a", "from", "t", "for", "share">>),
     Other(<<"select", "(", "select", "a", "for", "update", ")">>)}

Quoted(quote, contents) == {<<quote>> \o c \o <<quote>> : c \in contents}

\* Words and marks that mean something outside quotes and comments.
Common ==
    Quoted("sq", {<<"where", ";">>, <<"(", "--">>, <<"sq", "sq">>, <<"bs", "sq">>, <<"/*">>})
      \cup {<<"--", "sp">> \o c \o <<"nl">> : c \in {<<"where", "/*">>, <<"sq">>}}
      \cup {<<"/*", "into", "sq", "*/">>, <<"(", "where", ")">>, <<"(", "(", "into", ")", ")">>}

MCNoise ==
    [mysql |-> Common \cup Quoted("bq", {<<"where", "sq">>})
                      \cup Quoted("dq", {<<";">>, <<"bs", "dq">>, <<>>})
                      \cup {<<"#", "where", "nl">>, <<"a", "--", "a">>,
                            <<"/*!", "where", "*/">>},
     postgres |-> Common \cup Quoted("dq", {<<"where">>, <<"dq", "dq">>, <<"bs">>})
                         \cup Quoted("$$", {<<"where", "sq", "$a$">>})
                         \cup {<<"E", "sq", "bs", "sq", "where", "sq">>,
                               <<"/*", "/*", "*/", "where", "*/">>}]
=============================================================================
