----------------------------- MODULE MCIngestion -----------------------------
(* Files for TLC: chunk budget 10 tokens, minimum 4.  A sentence of 2, 5   *)
(* or 8 words has 2, 6 or 10 tokens: three fit, one fits, one is too long. *)
EXTENDS Ingestion

Line(kind, shape, words) ==
    [kind |-> kind, shape |-> shape, words |-> words, period |-> FALSE, echo |-> FALSE]

Short == Line("text", "none", 2)
Mid   == Line("text", "none", 5)
Long  == Line("text", "none", 8)
Echo  == [Line("text", "none", 3) EXCEPT !.echo = TRUE]
H1    == Line("text", "md1", 3)
H2    == Line("text", "num2", 2)
Caps  == Line("text", "caps", 1)
H3Long == Line("text", "md3", 8)
Dotted == [Line("text", "md1", 3) EXCEPT !.period = TRUE]
Row   == Line("row", "none", 3)
Wide  == Line("row", "none", 6)
Tiny  == Line("row", "none", 1)
Vast  == Line("row", "none", 11)
Rule  == Line("rule", "none", 2)
MCBlank == Line("blank", "none", 0)

MCLines == {Short, Mid, Long, Echo, H1, H2, Caps, H3Long, Dotted, Row, Wide, Tiny, Vast, Rule, MCBlank}

Texts(S, n) == UNION {[1..m -> S] : m \in 1..n}

Pdf(ps, tables, layer) ==
    [kind |-> "pdf", pages |-> ps, tables |-> tables, layer |-> layer]

SmallTable == [page |-> 1, rows |-> <<Row, Rule, Row>>]
HeaderOnly == [page |-> 1, rows |-> <<Row, Rule>>]

\* Sentences to pack, with and without a title in front of them.
Packing == {Pdf(<<t>>, <<>>, TRUE) : t \in Texts({Short, Mid, Long}, 5)}
           \cup {Pdf(<<<<H1>> \o t>>, <<>>, TRUE) : t \in Texts({Short, Mid, Echo}, 3)}

\* Outlines over two pages, with injected tables, as text layer or scan.
Outlines == {Pdf(<<s, t>>, tb, TRUE) :
                s \in Texts({H1, H2, Caps, Mid}, 2), t \in Texts({H1, H2, Mid}, 2),
                tb \in {<<>>, <<HeaderOnly, SmallTable>>}}
            \cup {Pdf(<<<<H1, Mid>>, <<MCBlank>>, <<Mid>>>>, <<>>, l) : l \in BOOLEAN}
            \cup {Pdf(<<<<H3Long, Mid, Dotted>>>>, <<SmallTable>>, l) : l \in BOOLEAN}

\* Tables between sentences.  Two tiny rows are below the minimum, and a vast
\* row behind or before another makes the table too large: of such a table the
\* first piece, or the last, may be below the minimum.
Tabular == {Pdf(<<t>>, <<>>, TRUE) : t \in Texts({Row, Wide, Tiny, Rule, Mid}, 4)}
           \cup {Pdf(<<t>>, <<>>, TRUE) : t \in [1..5 -> {Row, Wide, Tiny}]}
           \cup {Pdf(<<<<H1>> \o t>>, <<>>, TRUE) : t \in Texts({Wide, Tiny, Rule}, 3)}
           \cup {Pdf(<<t>>, <<>>, TRUE) : t \in Texts({Tiny, Vast, Mid}, 4)}

TextFiles == {[kind |-> "text", pages |-> <<t>>, tables |-> <<>>, layer |-> TRUE] :
                t \in Texts({H1, Mid, MCBlank}, 3)}

MCFiles == Packing \cup Outlines \cup Tabular \cup TextFiles
=============================================================================
