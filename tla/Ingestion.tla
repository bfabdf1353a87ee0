------------------------------ MODULE Ingestion ------------------------------
(***************************************************************************)
(* From an uploaded file to its chunks: rag/ingestion.py and               *)
(* rag/chunker.py.  One behaviour is one call of ingest_pdf or             *)
(* ingest_text_file.  The loops of the code are steps: one page read, one  *)
(* line parsed, one table row or one sentence packed.                      *)
(*                                                                         *)
(* A line of text is a record.  Its `kind' is what _is_table_line sees,    *)
(* its `shape' the first heading pattern it matches, `words' its number of *)
(* words, the marker of a heading included, `period' whether it ends in a  *)
(* full stop, `echo' whether it begins with the title of the section it    *)
(* stands in.  A body line holds one sentence.  A text too short or too    *)
(* long for a heading has no shape.                                        *)
(***************************************************************************)
EXTENDS Naturals, Sequences, FiniteSets

CONSTANTS
    ChunkSize,       \* settings.chunk_size, in tokens
    ChunkMinTokens,  \* settings.chunk_min_tokens
    Lines,           \* the lines a file may consist of
    Blank,           \* the empty line
    Files            \* the files that may be uploaded

Shapes == {"none", "md1", "md2", "md3", "md4", "num1", "num2", "num3", "caps", "title"}

(* The headings that begin with a marker, hashes or a number.              *)
Marked == {"md1", "md2", "md3", "md4", "num1", "num2", "num3"}

LineType == [kind: {"text", "row", "rule", "blank"}, shape: Shapes,
             words: Nat, period: BOOLEAN, echo: BOOLEAN]

ASSUME IngestionAssumption ==
    /\ ChunkSize \in Nat \ {0, 1}
    /\ ChunkMinTokens \in 0..ChunkSize
    /\ Lines \subseteq LineType
    /\ Blank \in Lines /\ Blank.kind = "blank"
    /\ \A l \in Lines : l.kind = "blank" => l.shape = "none"
    /\ \A l \in Lines : l.shape \in Marked => l.words >= 2

(* A file has pages of lines, the tables that pdfplumber finds on them and *)
(* a text layer that PyMuPDF can read, or none (a scan).  A table found is *)
(* written as lines between bars (extract_tables_from_pdf).                *)
ASSUME FilesAssumption ==
    \A f \in Files :
        /\ f.kind \in {"pdf", "text"}
        /\ f.layer \in BOOLEAN
        /\ f.pages \in Seq(Seq(Lines))
        /\ f.kind = "text" => f.pages # <<>>
        /\ f.tables \in Seq([page: Nat, rows: Seq(Lines)])
        /\ \A i \in DOMAIN f.tables : \A k \in DOMAIN f.tables[i].rows :
              f.tables[i].rows[k].kind \in {"row", "rule"}

VARIABLES
    file,     \* the file being ingested
    pc,       \* the loop the call is in
    at,       \* the position in that loop
    pages,    \* the pages extracted so far: number, lines, and whether injected
    trouble,  \* PyMuPDF failed after it had already read a page
    lines,    \* the annotated lines: a line, its page, the place it came from
    nodes,    \* the sections in document order, which is the order of the walk
    stack,    \* the open sections, as indices of nodes; the root at the bottom
    node,     \* the section the walk is at
    cur,      \* the piece being filled: sentences or rows, tokens, words
    rows,     \* the table block being split
    packed,   \* how many pieces the section's body has given so far
    chunks,   \* the chunks emitted
    dropped   \* history: the pieces that were too small for a chunk

vars == <<file, pc, at, pages, trouble, lines, nodes, stack, node, cur, rows, packed, chunks,
          dropped>>
reading == <<file, pages, trouble>>
walk == <<node, cur, rows, packed, chunks, dropped>>

-----------------------------------------------------------------------------
(* Operators                                                               *)

(* chunker.py approx_tokens: int(words * 1.3). *)
ApproxTokens(words) == (13 * words) \div 10

MaxTableTokens == (3 * ChunkSize) \div 2
NoiseFloor == IF ChunkMinTokens \div 2 > 5 THEN ChunkMinTokens \div 2 ELSE 5

IsTableLine(l) == l.kind \in {"row", "rule"}

PatternLevel(shape) ==
    CASE shape \in {"md1", "num1"}          -> 1
      [] shape \in {"md2", "num2", "caps"}  -> 2
      [] shape \in {"md3", "num3", "title"} -> 3
      [] shape = "md4"                      -> 4
      [] OTHER                              -> 0

(* detect_heading: the level of the heading a line is, 0 for body text.  A *)
(* single word in capitals is refused as level 2 and then taken by the     *)
(* Title Case pattern; the limit of seven words holds for every pattern of *)
(* level 3, Markdown's among them.                                         *)
DetectHeading(l) ==
    LET numbered == l.shape \in {"num1", "num2", "num3"}
        level == IF l.shape = "caps" /\ l.words < 2 THEN 3 ELSE PatternLevel(l.shape)
    IN  IF \/ l.period /\ ~numbered
           \/ IsTableLine(l)
           \/ level = 3 /\ l.words > 7
        THEN 0 ELSE level

(* Position i of s belongs to a block of two or more table lines           *)
(* (extract_table_blocks).                                                 *)
InBlock(s, i) ==
    /\ IsTableLine(lines[s[i]].line)
    /\ \/ i > 1 /\ IsTableLine(lines[s[i - 1]].line)
       \/ i < Len(s) /\ IsTableLine(lines[s[i + 1]].line)

IsSentence(s, i) == lines[s[i]].line.kind # "blank" /\ ~InBlock(s, i)

Words(p) == lines[p].line.words

(* A title is its heading without the marker; the root has none.           *)
TitleWords(n) ==
    LET head == nodes[n].head
    IN  IF head = 0 THEN 0
        ELSE IF lines[head].line.shape \in Marked THEN Words(head) - 1 ELSE Words(head)

(* _prefix_section: the title goes in front unless the text begins with    *)
(* it, and then the text has at least the title's words.                   *)
PrefixedWords(n, body, words) ==
    words + IF lines[body[1]].line.echo /\ TitleWords(n) <= Words(body[1])
            THEN 0 ELSE TitleWords(n)

EmptyPiece == [body |-> <<>>, tokens |-> 0, words |-> 0, header |-> 0]

Add(piece, p) ==
    [body |-> Append(piece.body, p), tokens |-> piece.tokens + ApproxTokens(Words(p)),
     words |-> piece.words + Words(p), header |-> piece.header]

Piece(p) == Add(EmptyPiece, p)

(* A chunk has its section's title, and the piece with the title in front. *)
Chunk(type, piece) ==
    [type |-> type, node |-> node, page |-> nodes[node].page, path |-> nodes[node].path,
     title |-> TitleWords(node), body |-> piece.body,
     words |-> PrefixedWords(node, piece.body, piece.words), header |-> piece.header]

(* Body text is measured with its title, a table without it.               *)
TextTooSmall(n, piece) ==
    ApproxTokens(PrefixedWords(n, piece.body, piece.words)) < NoiseFloor
TableTooSmall(piece) == ApproxTokens(piece.words) < ChunkMinTokens

(* What chunk_document makes of one packed piece of body text: a chunk, or *)
(* nothing when it is below the noise floor.  `i' counts the pieces of the *)
(* section, the dropped ones included.                                     *)
TextChunks(i, piece) ==
    IF TextTooSmall(node, piece) THEN <<>>
    ELSE <<Chunk(IF i = 0 /\ nodes[node].level > 0 THEN "heading_intro" ELSE "text", piece)>>

TableChunks(piece) == IF TableTooSmall(piece) THEN <<>> ELSE <<Chunk("table", piece)>>

Dropped(piece) == [node |-> node, body |-> piece.body, words |-> piece.words]
DroppedText(piece) == IF TextTooSmall(node, piece) THEN {Dropped(piece)} ELSE {}
DroppedTable(piece) == IF TableTooSmall(piece) THEN {Dropped(piece)} ELSE {}

-----------------------------------------------------------------------------
(* Extraction                                                              *)

Init ==
    /\ file \in Files
    /\ pc = IF file.kind = "pdf" THEN "fitz" ELSE "read"
    /\ at = 0
    /\ pages = <<>>
    /\ trouble = FALSE
    /\ lines = <<>>
    /\ nodes = <<>>
    /\ stack = <<>>
    /\ node = 0
    /\ cur = EmptyPiece
    /\ rows = <<>>
    /\ packed = 0
    /\ chunks = <<>>
    /\ dropped = {}

Page(n, ls, injected) == [number |-> n, lines |-> ls, injected |-> injected]

HasText(ls) == \E i \in DOMAIN ls : ls[i].kind # "blank"

(* One page of a PDF, by PyMuPDF or by pdfplumber; empty pages are left    *)
(* out.  A scan gives PyMuPDF no text.                                     *)
ReadPage ==
    /\ pc \in {"fitz", "plumber"}
    /\ at < Len(file.pages)
    /\ at' = at + 1
    /\ pages' = IF HasText(file.pages[at + 1]) /\ (pc = "plumber" \/ file.layer)
                THEN Append(pages, Page(at + 1, file.pages[at + 1], FALSE))
                ELSE pages
    /\ UNCHANGED <<file, pc, trouble, lines, nodes, stack, walk>>

(* PyMuPDF is through.  With any text at all its pages are returned,       *)
(* otherwise pdfplumber reads the file from the start.                     *)
FitzEnds ==
    /\ pc = "fitz"
    /\ at = Len(file.pages)
    /\ pc' = IF pages # <<>> THEN "tables" ELSE "plumber"
    /\ at' = 0
    /\ UNCHANGED <<reading, lines, nodes, stack, walk>>

(* PyMuPDF raises, on opening the file or on a later page.  The pages read *)
(* so far stay in the list to which pdfplumber then appends.               *)
FitzFails ==
    /\ pc = "fitz"
    /\ pc' = "plumber"
    /\ at' = 0
    /\ trouble' = (pages # <<>>)
    /\ UNCHANGED <<file, pages, lines, nodes, stack, walk>>

(* pdfplumber is through, or raises after some pages: what is there is     *)
(* returned either way.  No text at all ends the call with no chunk.       *)
PlumberEnds ==
    /\ pc = "plumber"
    /\ pc' = IF pages = <<>> THEN "done" ELSE "tables"
    /\ at' = 0
    /\ UNCHANGED <<reading, lines, nodes, stack, walk>>

(* One table of extract_tables_from_pdf: at least a header, its rule and   *)
(* one row, injected as a page of its own behind all others.               *)
InjectTable ==
    /\ pc = "tables"
    /\ at < Len(file.tables)
    /\ at' = at + 1
    /\ LET t == file.tables[at + 1]
       IN  pages' = IF Len(t.rows) >= 3
                    THEN Append(pages, Page(t.page, t.rows, TRUE))
                    ELSE pages
    /\ UNCHANGED <<file, pc, trouble, lines, nodes, stack, walk>>

(* All tables are in, or the extraction raised: what is there is used. *)
TablesEnd ==
    /\ pc = "tables"
    /\ pc' = "merge"
    /\ at' = 0
    /\ UNCHANGED <<reading, lines, nodes, stack, walk>>

(* ingest_text_file: the whole file is one page without a number (0); an   *)
(* unreadable or empty file ends the call with no chunk.                   *)
ReadText ==
    /\ pc = "read"
    /\ \/ /\ HasText(file.pages[1])
          /\ pages' = <<Page(0, file.pages[1], FALSE)>>
          /\ pc' = "merge"
       \/ /\ pages' = <<>>
          /\ pc' = "done"
    /\ UNCHANGED <<file, at, trouble, lines, nodes, stack, walk>>

-----------------------------------------------------------------------------
(* Parsing                                                                 *)

(* _merge_pages: the lines of the next page and a blank one, each with its *)
(* page number and the place in the file it came from.  clean_text before  *)
(* it changes white space only, on which no kind of line depends.          *)
MergePage ==
    /\ pc = "merge"
    /\ at < Len(pages)
    /\ at' = at + 1
    /\ LET p == pages[at + 1]
           annotated == [i \in 1..Len(p.lines) + 1 |->
                            [line |-> IF i <= Len(p.lines) THEN p.lines[i] ELSE Blank,
                             page |-> p.number,
                             from |-> IF p.injected THEN 0 ELSE i]]
       IN  lines' = lines \o annotated
    /\ UNCHANGED <<reading, pc, nodes, stack, walk>>

MergeEnds ==
    /\ pc = "merge"
    /\ at = Len(pages)
    /\ pc' = "parse"
    /\ at' = 0
    /\ nodes' = <<[level |-> 0, head |-> 0, page |-> lines[1].page, path |-> <<>>, lines |-> <<>>]>>
    /\ stack' = <<1>>
    /\ UNCHANGED <<reading, lines, walk>>

Top == stack[Len(stack)]

Heading == DetectHeading(lines[at + 1].line)

\* Mutant: a section of the same level stays open.
ClosesDeeper(level) == Len(stack) > 1 /\ nodes[Top].level > level

(* The top section cannot contain a section of this level. *)
Closes(level) == Len(stack) > 1 /\ nodes[Top].level >= level

(* _parse_sections, a heading: it closes the open sections it does not     *)
(* belong to, one by one,                                                  *)
PopSection ==
    /\ pc = "parse"
    /\ at < Len(lines)
    /\ Heading > 0
    /\ Closes(Heading)
    /\ stack' = SubSeq(stack, 1, Len(stack) - 1)
    /\ UNCHANGED <<reading, pc, at, lines, nodes, walk>>

(* and opens its own under the one that is left. *)
ParseHeading ==
    /\ pc = "parse"
    /\ at < Len(lines)
    /\ Heading > 0
    /\ ~Closes(Heading)
    /\ at' = at + 1
    /\ nodes' = Append(nodes, [level |-> Heading, head |-> at + 1, page |-> lines[at + 1].page,
                               path |-> Append(nodes[Top].path, at + 1), lines |-> <<>>])
    /\ stack' = Append(stack, Len(nodes) + 1)
    /\ UNCHANGED <<reading, pc, lines, walk>>

(* Any other line, those of tables too, belongs to the open section. *)
ParseBody ==
    /\ pc = "parse"
    /\ at < Len(lines)
    /\ at' = at + 1
    /\ Heading = 0
    /\ nodes' = [nodes EXCEPT ![Top].lines = Append(@, at + 1)]
    /\ UNCHANGED <<reading, pc, lines, stack, walk>>

ParseEnds ==
    /\ pc = "parse"
    /\ at = Len(lines)
    /\ pc' = "blocks"
    /\ at' = 1
    /\ node' = 1
    /\ UNCHANGED <<reading, lines, nodes, stack, cur, rows, packed, chunks, dropped>>

-----------------------------------------------------------------------------
(* Walking the sections: first the tables of a section, then its body      *)

Body == nodes[node].lines

AddRow(piece, p) ==
    [body |-> Append(piece.body, p), tokens |-> piece.tokens,
     words |-> piece.words + Words(p), header |-> piece.header]

AtTableLine == at <= Len(Body) /\ IsTableLine(lines[Body[at]].line)

(* extract_table_blocks: a run of table lines is collected row by row, *)
ScanRow ==
    /\ pc = "blocks"
    /\ AtTableLine
    /\ cur' = AddRow(cur, Body[at])
    /\ at' = at + 1
    /\ UNCHANGED <<reading, pc, lines, nodes, stack, node, rows, packed, chunks, dropped>>

(* other lines are passed over, *)
ScanOther ==
    /\ pc = "blocks"
    /\ at <= Len(Body)
    /\ ~AtTableLine
    /\ cur.body = <<>>
    /\ at' = at + 1
    /\ UNCHANGED <<reading, pc, lines, nodes, stack, walk>>

RunEnds == pc = "blocks" /\ ~AtTableLine /\ cur.body # <<>>

(* and a run of one line is no table: the line stays in the body. *)
SingleRow ==
    /\ RunEnds
    /\ Len(cur.body) = 1
    /\ cur' = EmptyPiece
    /\ UNCHANGED <<reading, pc, at, lines, nodes, stack, node, rows, packed, chunks, dropped>>

TooLarge == ApproxTokens(cur.words) > MaxTableTokens

(* A block below the minimum is dropped, one that fits is a chunk. *)
TakeTable ==
    /\ RunEnds
    /\ Len(cur.body) > 1
    /\ ~TooLarge
    /\ chunks' = chunks \o TableChunks(cur)
    /\ dropped' = dropped \cup DroppedTable(cur)
    /\ cur' = EmptyPiece
    /\ UNCHANGED <<reading, pc, at, lines, nodes, stack, node, rows, packed>>

(* _split_table_if_needed: the rows up to a rule in the first two rows are *)
(* the header, else the first row is.                                      *)
HeaderRows(block) ==
    IF lines[block[1]].line.kind # "rule" /\ lines[block[2]].line.kind = "rule" THEN 2 ELSE 1

HeaderPiece(block) ==
    LET first == [body |-> <<block[1]>>, tokens |-> 0, words |-> Words(block[1]),
                  header |-> HeaderRows(block)]
    IN  IF HeaderRows(block) = 1 THEN first ELSE AddRow(first, block[2])

(* A larger block is split: the rows behind the header are dealt out, and  *)
(* `packed' counts the rows that are.                                      *)
StartSplit ==
    /\ RunEnds
    /\ Len(cur.body) > 1
    /\ TooLarge
    /\ rows' = cur.body
    /\ cur' = HeaderPiece(cur.body)
    /\ packed' = HeaderRows(cur.body)
    /\ pc' = "split"
    /\ UNCHANGED <<reading, at, lines, nodes, stack, node, chunks, dropped>>

Full(row) ==
    /\ ApproxTokens(cur.words + Words(row)) > MaxTableTokens
    /\ Len(cur.body) > cur.header

\* Mutant: a further piece begins without the header.
SplitRowBare ==
    /\ pc = "split"
    /\ packed < Len(rows)
    /\ packed' = packed + 1
    /\ LET row == rows[packed + 1]
       IN  \/ /\ Full(row)
              /\ chunks' = chunks \o TableChunks(cur)
              /\ dropped' = dropped \cup DroppedTable(cur)
              /\ cur' = AddRow([EmptyPiece EXCEPT !.header = HeaderRows(rows)], row)
           \/ /\ ~Full(row)
              /\ cur' = AddRow(cur, row)
              /\ UNCHANGED <<chunks, dropped>>
    /\ UNCHANGED <<reading, pc, at, lines, nodes, stack, node, rows>>

(* One row: into the current piece while it fits or the piece has no row   *)
(* yet, otherwise the piece is complete and the next one begins with the   *)
(* header again.                                                           *)
SplitRow ==
    /\ pc = "split"
    /\ packed < Len(rows)
    /\ packed' = packed + 1
    /\ LET row == rows[packed + 1]
       IN  \/ /\ Full(row)
              /\ chunks' = chunks \o TableChunks(cur)
              /\ dropped' = dropped \cup DroppedTable(cur)
              /\ cur' = AddRow(HeaderPiece(rows), row)
           \/ /\ ~Full(row)
              /\ cur' = AddRow(cur, row)
              /\ UNCHANGED <<chunks, dropped>>
    /\ UNCHANGED <<reading, pc, at, lines, nodes, stack, node, rows>>

SplitEnds ==
    /\ pc = "split"
    /\ packed = Len(rows)
    /\ chunks' = chunks \o TableChunks(cur)
    /\ dropped' = dropped \cup DroppedTable(cur)
    /\ cur' = EmptyPiece
    /\ rows' = <<>>
    /\ packed' = 0
    /\ pc' = "blocks"
    /\ UNCHANGED <<reading, at, lines, nodes, stack, node>>

BlocksEnd ==
    /\ pc = "blocks"
    /\ at = Len(Body) + 1
    /\ cur.body = <<>>
    /\ pc' = "pack"
    /\ at' = 1
    /\ UNCHANGED <<reading, lines, nodes, stack, walk>>

-----------------------------------------------------------------------------
(* _pack_sentences, with the one sentence of overlap of _make_chunker      *)

NextSentence(p) ==
    /\ pc = "pack"
    /\ at <= Len(Body)
    /\ IsSentence(Body, at)
    /\ p = Body[at]
    /\ at' = at + 1

Oversized(p) == ApproxTokens(Words(p)) >= ChunkSize

(* Lines that are blank or in a table hold no sentence. *)
SkipNoSentence ==
    /\ pc = "pack"
    /\ at <= Len(Body)
    /\ ~IsSentence(Body, at)
    /\ at' = at + 1
    /\ UNCHANGED <<reading, pc, lines, nodes, stack, walk>>

\* Mutant: what was collected before the long sentence is not completed.
PackOversizedFirst ==
    \E p \in 1..Len(lines) :
        /\ NextSentence(p)
        /\ Oversized(p)
        /\ chunks' = chunks \o TextChunks(packed, Piece(p))
        /\ dropped' = dropped \cup DroppedText(Piece(p))
        /\ packed' = packed + 1
        /\ UNCHANGED <<reading, pc, lines, nodes, stack, node, cur, rows>>

(* A sentence beyond the budget is a piece of its own, after what was      *)
(* collected before it; nothing of it goes into the next piece.            *)
PackOversized ==
    \E p \in 1..Len(lines) :
        /\ NextSentence(p)
        /\ Oversized(p)
        /\ LET before == IF cur.body = <<>> THEN <<>> ELSE TextChunks(packed, cur)
               i == IF cur.body = <<>> THEN packed ELSE packed + 1
           IN  /\ chunks' = chunks \o before \o TextChunks(i, Piece(p))
               /\ packed' = i + 1
        /\ dropped' = dropped \cup (IF cur.body = <<>> THEN {} ELSE DroppedText(cur))
                              \cup DroppedText(Piece(p))
        /\ cur' = EmptyPiece
        /\ UNCHANGED <<reading, pc, lines, nodes, stack, node, rows>>

Overflows(p) == cur.tokens + ApproxTokens(Words(p)) > ChunkSize /\ cur.body # <<>>

\* Mutant: the tokens of the overlap are not counted.
PackOverflowUncounted ==
    \E p \in 1..Len(lines) :
        /\ NextSentence(p)
        /\ ~Oversized(p)
        /\ Overflows(p)
        /\ chunks' = chunks \o TextChunks(packed, cur)
        /\ dropped' = dropped \cup DroppedText(cur)
        /\ packed' = packed + 1
        /\ cur' = [Add(Piece(cur.body[Len(cur.body)]), p) EXCEPT !.tokens = ApproxTokens(Words(p))]
        /\ UNCHANGED <<reading, pc, lines, nodes, stack, node, rows>>

(* The budget would be exceeded: the piece is complete, the next one       *)
(* begins with its last sentence.                                          *)
PackOverflow ==
    \E p \in 1..Len(lines) :
        /\ NextSentence(p)
        /\ ~Oversized(p)
        /\ Overflows(p)
        /\ chunks' = chunks \o TextChunks(packed, cur)
        /\ dropped' = dropped \cup DroppedText(cur)
        /\ packed' = packed + 1
        /\ cur' = Add(Piece(cur.body[Len(cur.body)]), p)
        /\ UNCHANGED <<reading, pc, lines, nodes, stack, node, rows>>

PackSentence ==
    \E p \in 1..Len(lines) :
        /\ NextSentence(p)
        /\ ~Oversized(p)
        /\ ~Overflows(p)
        /\ cur' = Add(cur, p)
        /\ UNCHANGED <<reading, pc, lines, nodes, stack, node, rows, packed, chunks, dropped>>

\* Mutant: the last piece of a section is not completed.
PackEndsUnflushed ==
    /\ pc = "pack"
    /\ at = Len(Body) + 1
    /\ cur' = EmptyPiece
    /\ packed' = 0
    /\ at' = 1
    /\ IF node < Len(nodes)
       THEN node' = node + 1 /\ pc' = "blocks"
       ELSE UNCHANGED node /\ pc' = "done"
    /\ UNCHANGED <<reading, lines, nodes, stack, rows, chunks, dropped>>

(* The last piece; then the next section, in the order of the walk. *)
PackEnds ==
    /\ pc = "pack"
    /\ at = Len(Body) + 1
    /\ chunks' = IF cur.body = <<>> THEN chunks ELSE chunks \o TextChunks(packed, cur)
    /\ dropped' = IF cur.body = <<>> THEN dropped ELSE dropped \cup DroppedText(cur)
    /\ cur' = EmptyPiece
    /\ packed' = 0
    /\ at' = 1
    /\ IF node < Len(nodes)
       THEN node' = node + 1 /\ pc' = "blocks"
       ELSE UNCHANGED node /\ pc' = "done"
    /\ UNCHANGED <<reading, lines, nodes, stack, rows>>

Done == pc = "done" /\ UNCHANGED vars

Extract == \/ ReadPage \/ FitzEnds \/ FitzFails \/ PlumberEnds \/ InjectTable \/ TablesEnd
           \/ ReadText
Parse == MergePage \/ MergeEnds \/ PopSection \/ ParseHeading \/ ParseBody \/ ParseEnds
Tables == \/ ScanRow \/ ScanOther \/ SingleRow \/ TakeTable \/ StartSplit \/ SplitRow
          \/ SplitEnds \/ BlocksEnd
Pack == SkipNoSentence \/ PackOversized \/ PackOverflow \/ PackSentence \/ PackEnds

Next == Extract \/ Parse \/ Tables \/ Pack \/ Done

Spec == Init /\ [][Next]_vars
-----------------------------------------------------------------------------
(* Properties                                                              *)

Positions == 1..Len(lines)

PageRecord == [number: Nat, lines: Seq(Lines), injected: BOOLEAN]
LineRecord == [line: Lines, page: Nat, from: Nat]
NodeRecord == [level: 0..4, head: {0} \cup Positions, page: Nat,
               path: Seq(Positions), lines: Seq(Positions)]
PieceType == [body: Seq(Nat), tokens: Nat, words: Nat, header: Nat]
ChunkRecord == [type: {"text", "heading_intro", "table"}, node: Nat, page: Nat,
                path: Seq(Nat), title: Nat, body: Seq(Nat), words: Nat, header: Nat]
DroppedRecord == [node: Nat, body: Seq(Nat), words: Nat]

CodeTypes ==
    /\ pc \in {"fitz", "plumber", "tables", "read", "merge", "parse",
               "blocks", "split", "pack", "done"}
    /\ at \in Nat /\ node \in Nat /\ packed \in Nat
    /\ pages \in Seq(PageRecord)
    /\ trouble \in BOOLEAN
    /\ lines \in Seq(LineRecord)
    /\ nodes \in Seq(NodeRecord)
    /\ stack \in Seq(1..Len(nodes))
    /\ cur \in PieceType /\ cur.body \in Seq(Positions)
    /\ rows \in Seq(Positions)
    /\ chunks \in Seq(ChunkRecord)

(* The types of all variables, the history's apart. *)
TypeOK == CodeTypes /\ dropped \subseteq DroppedRecord

IsText(c) == c.type # "table"

(* chunker.py:514-531 and 473-481, the token budget.  What is packed stays *)
(* within the budget up to one token per sentence, which the rounding of   *)
(* approx_tokens may hide from the running count, unless it is a single    *)
(* sentence or is the overlap sentence with the one sentence that follows, *)
(* less than two budgets together.  Table rows stay within one and a half  *)
(* budgets unless there is one below the header.  The emitted chunk is     *)
(* longer than that by at most its title, which is put in front uncounted. *)
TitleTokens(c) == IF c.title = 0 THEN 0 ELSE ApproxTokens(c.title) + 1

TextFits(c) ==
    \/ Len(c.body) = 1
    \/ ApproxTokens(c.words) < ChunkSize + Len(c.body) + TitleTokens(c)
    \/ Len(c.body) = 2 /\ ApproxTokens(c.words) < 2 * ChunkSize + TitleTokens(c)

TableFits(c) ==
    \/ ApproxTokens(c.words) <= MaxTableTokens + TitleTokens(c)
    \/ Len(c.body) <= c.header + 1

ChunksFitBudget ==
    \A i \in DOMAIN chunks :
        IF IsText(chunks[i]) THEN TextFits(chunks[i]) ELSE TableFits(chunks[i])

Holds(c, p) == \E k \in DOMAIN c.body : c.body[k] = p

(* The piece could not have taken the line that follows it as well.        *)
NoRoomForRow(d) ==
    LET body == nodes[d.node].lines
    IN  \A j \in 1..Len(body) - 1 :
            body[j] = d.body[Len(d.body)] /\ IsTableLine(lines[body[j + 1]].line) =>
                ApproxTokens(d.words + Words(body[j + 1])) > MaxTableTokens

NoRoomForSentence(d) ==
    LET body == nodes[d.node].lines
        behind == {j \in DOMAIN body : IsSentence(body, j) /\ d.body[Len(d.body)] < body[j]}
    IN  \A j \in behind : (\A m \in behind : body[j] <= body[m]) =>
            ApproxTokens(d.words + Words(body[j])) >= ChunkSize

(* chunker.py:276-312 and 475-481: the only content lost is content that   *)
(* is small.  When the call is done, every line of a section is in a chunk *)
(* or in a piece that was dropped, and that was small as a whole: a piece  *)
(* of text, with its title, below the noise floor, a whole table block or  *)
(* a piece of a split one below the minimum; and it was complete, with no  *)
(* room for the line behind it.  This is not about headings: a title is in *)
(* front of its section's chunks, and in none if the section has none.     *)
OnlySmallTextIsLost ==
    pc = "done" =>
        \A n \in DOMAIN nodes : \A i \in DOMAIN nodes[n].lines :
            LET p == nodes[n].lines[i]
            IN  \/ lines[p].line.kind = "blank"
                \/ \E k \in DOMAIN chunks : Holds(chunks[k], p)
                \/ \E d \in dropped :
                      /\ Holds(d, p) /\ d.node = n
                      /\ IF InBlock(nodes[n].lines, i)
                         THEN TableTooSmall(d) /\ NoRoomForRow(d)
                         ELSE TextTooSmall(n, d) /\ NoRoomForSentence(d)

(* chunker.py:508-535: within a section the text chunks repeat the body in *)
(* order.  A chunk skips no sentence between its first and its last, and a *)
(* later chunk starts behind an earlier one or with its last sentence.     *)
SentencesInOrder ==
    \A i, j \in DOMAIN chunks :
        LET c == chunks[i]
            d == chunks[j]
            between(k) == {m \in DOMAIN nodes[c.node].lines :
                              /\ IsSentence(nodes[c.node].lines, m)
                              /\ c.body[k] < nodes[c.node].lines[m]
                              /\ nodes[c.node].lines[m] < c.body[k + 1]}
        IN  IsText(c) /\ IsText(d) /\ c.node = d.node =>
            /\ \A k \in 1..Len(c.body) - 1 : c.body[k] < c.body[k + 1] /\ between(k) = {}
            /\ i < j => \A k \in DOMAIN c.body :
                            \/ c.body[k] < d.body[1]
                            \/ c.body[k] = d.body[1] /\ k = Len(c.body) /\ Len(d.body) > 1

(* chunker.py:458-481: a table piece consists of rows of one block in      *)
(* their order, and every piece of a split block begins with the block's   *)
(* header rows.  Splitting itself contradicts the head of the file         *)
(* ("Tables preserved as atomic chunks (never split)", chunker.py:13):     *)
(* _split_table_if_needed does it above one and a half budgets.            *)
TablePiecesKeepHeader ==
    \A i \in DOMAIN chunks : chunks[i].type = "table" =>
        LET c == chunks[i]
            body == nodes[c.node].lines
        IN  \E i1, i2 \in DOMAIN body :
                LET block == SubSeq(body, i1, i2)
                IN  /\ i1 < i2
                    /\ \A k \in i1..i2 : IsTableLine(lines[body[k]].line)
                    /\ i1 = 1 \/ ~IsTableLine(lines[body[i1 - 1]].line)
                    /\ i2 = Len(body) \/ ~IsTableLine(lines[body[i2 + 1]].line)
                    /\ \A k \in 1..Len(c.body) - 1 : c.body[k] < c.body[k + 1]
                    /\ \A k \in DOMAIN c.body : \E m \in DOMAIN block : block[m] = c.body[k]
                    /\ \A k \in 1..HeaderRows(block) : c.body[k] = block[k]

(* The headings a place of the file stands under: those before it that no  *)
(* later heading of the same or a higher rank has closed.                  *)
OutlineOf(place) ==
    LET before(a, b) == a.page < b.page \/ (a.page = b.page /\ a.from < b.from)
        headings == {h \in UNION {[page: {q}, from: DOMAIN file.pages[q]] : q \in DOMAIN file.pages} :
                        DetectHeading(file.pages[h.page][h.from]) > 0}
        rank(h) == DetectHeading(file.pages[h.page][h.from])
        above == {h \in headings : before(h, place)}
    IN  {h \in above : \A g \in above : before(h, g) => rank(g) > rank(h)}

(* chunker.py:391-413 with ingestion.py:42-69: every text chunk names the  *)
(* section its sentences stand in.  Its path is the outline of the file at *)
(* each of its sentences: no page is read twice, no section stays open too *)
(* long, and the tables injected behind the last page disturb none of it,  *)
(* unless PyMuPDF broke off after a page.  Text files have no pages to put *)
(* in order, and table chunks are not spoken of.                           *)
TextKeepsItsSection ==
    file.kind = "pdf" /\ ~trouble =>
        \A i \in DOMAIN chunks : IsText(chunks[i]) =>
            LET place(p) == [page |-> lines[p].page, from |-> lines[p].from]
                path == chunks[i].path
            IN  \A k \in DOMAIN chunks[i].body :
                    /\ {place(path[m]) : m \in DOMAIN path} = OutlineOf(place(chunks[i].body[k]))
                    /\ \A m \in 1..Len(path) - 1 : path[m] < path[m + 1]
=============================================================================
